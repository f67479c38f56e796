------------------------------ MODULE PS2Send ------------------------------
(***************************************************************************)
(* The host-to-device direction of ps2_connector.c: ps2_keyboard_set_leds  *)
(* in the main thread, ps2_connector_send_byte and its request to send,    *)
(* and the interrupt that clocks the bits out.  The shipped main() has the *)
(* call commented out.  The keyboard is generous: it clocks for ever       *)
(* once a request has been made, whether or not it can see the request.    *)
(***************************************************************************)
EXTENDS PS2Connector

CONSTANT Commands      \* LED bytes ps2_keyboard_set_leds may send

VARIABLES outgoing_data,
          todo,              \* bytes set_leds has still to send
          send_pc,           \* main thread in ps2_connector_send_byte: "idle",
                             \* "clk_low", "data_low", "clk_released", "ready",
                             \* "wait_idle" or "wait_lines"
          clk_pin, data_pin  \* configuration of the two pins: "input", or an
                             \* open-drain output with its latch at 0, "low", or
                             \* at 1, "released", which leaves the line to its
                             \* pull-up

sendVars == <<outgoing_data, todo, send_pc, clk_pin, data_pin>>
svars == <<vars, sendVars>>

SendInit ==
  /\ Init
  /\ outgoing_data = [k \in 0..7 |-> 0]
  /\ todo = <<>>
  /\ send_pc = "idle"
  /\ clk_pin = "input" /\ data_pin = "input"

-----------------------------------------------------------------------------
(***************************************************************************)
(* The pins.  gpio_pin_set takes a level, and any value but 0 is high; the *)
(* code passes it configuration flags.  An output pin has its input buffer *)
(* disconnected and reads as 0.                                            *)
(***************************************************************************)
GPIO_OUTPUT_ACTIVE == 2^9 + 2^11 + 2^12
GPIO_OUTPUT_INACTIVE == 2^9 + 2^10 + 2^12

gpio_pin_set(value) == IF value # 0 THEN "released" ELSE "low"
gpio_pin_get(pin, line) == IF pin = "input" THEN line ELSE 0

set_clk_low == clk_pin' = gpio_pin_set(GPIO_OUTPUT_ACTIVE)
set_clk_high_z == clk_pin' = "input"
set_data_low == data_pin' = gpio_pin_set(GPIO_OUTPUT_INACTIVE)
set_data_high_z == data_pin' = "input"

-----------------------------------------------------------------------------
(***************************************************************************)
(* The main thread.                                                        *)
(***************************************************************************)
ps2_keyboard_set_leds(command) ==
  /\ init_pc \in {"done", "failed"}
  /\ send_pc = "idle"
  /\ todo = <<>>
  /\ todo' = <<ToByte(237), command>>
  /\ UNCHANGED <<vars, outgoing_data, send_pc, clk_pin, data_pin>>

begin_send ==
  /\ send_pc = "idle"
  /\ todo # <<>>
  /\ outgoing_data' = Head(todo)
  /\ todo' = Tail(todo)
  /\ PS2_state' = "HOST_TO_DEV"
  /\ set_clk_low
  /\ send_pc' = "clk_low"
  /\ UNCHANGED <<current_bit_no, incoming_data, queueVars, init_pc, gpiote, lines,
                 history, data_pin>>

pull_data ==
  /\ send_pc = "clk_low"
  /\ set_data_low
  /\ send_pc' = "data_low"
  /\ UNCHANGED <<vars, outgoing_data, todo, clk_pin>>

release_clk ==
  /\ send_pc = "data_low"
  /\ set_clk_high_z
  /\ send_pc' = "clk_released"
  /\ UNCHANGED <<vars, outgoing_data, todo, data_pin>>

prepare_data ==
  /\ send_pc = "clk_released"
  /\ current_bit_no' = 0
  /\ send_pc' = "ready"
  /\ UNCHANGED <<PS2_state, incoming_data, queueVars, init_pc, gpiote, lines, history,
                 outgoing_data, todo, clk_pin, data_pin>>

arm_interrupt ==
  /\ send_pc = "ready"
  /\ int_enabled' = TRUE
  /\ event' = FALSE
  /\ send_pc' = "wait_idle"
  /\ UNCHANGED <<firmware, queueVars, init_pc, callback, lines, history,
                 outgoing_data, todo, clk_pin, data_pin>>

transmission_done ==
  /\ send_pc = "wait_idle"
  /\ PS2_state = "IDLE"
  /\ send_pc' = "wait_lines"
  /\ UNCHANGED <<vars, outgoing_data, todo, clk_pin, data_pin>>

send_returns ==
  /\ send_pc = "wait_lines"
  /\ gpio_pin_get(data_pin, data) = 1
  /\ gpio_pin_get(clk_pin, clk) = 1
  /\ send_pc' = "idle"
  /\ UNCHANGED <<vars, outgoing_data, todo, clk_pin, data_pin>>

ps2_connector_send_byte ==
  \/ begin_send \/ pull_data \/ release_clk \/ prepare_data \/ arm_interrupt
  \/ transmission_done \/ send_returns

-----------------------------------------------------------------------------
(***************************************************************************)
(* The interrupt, with both directions.  The stop bit's test repeats the   *)
(* parity bit's bit number, so bit 8 ends up high whatever the parity.     *)
(***************************************************************************)
host_to_dev_serve_falling_clk ==
  /\ IF \/ current_bit_no \in 0..7 /\ outgoing_data[current_bit_no] = 1
        \/ current_bit_no \in {8, 9}
       THEN set_data_high_z
       ELSE set_data_low
  /\ PS2_state' = IF current_bit_no = 9 THEN "IDLE" ELSE "DEV_TO_HOST"
  /\ current_bit_no' = (current_bit_no + 1) % 10
  /\ UNCHANGED <<incoming_data, queueVars, accepted, full>>

serve_clk ==
  /\ event
  /\ event' = FALSE
  /\ \/ /\ ~callback
        /\ UNCHANGED <<firmware, queueVars, accepted, full, data_pin>>
     \/ /\ callback
        /\ PS2_state = "HOST_TO_DEV"
        /\ host_to_dev_serve_falling_clk
     \/ /\ callback
        /\ PS2_state \in {"DEV_TO_HOST", "IDLE"}
        /\ dev_to_host_serve_falling_clk(gpio_pin_get(data_pin, data))
        /\ UNCHANGED data_pin
  /\ UNCHANGED <<init_pc, int_enabled, callback, lines, sent, hit, got,
                 outgoing_data, todo, send_pc, clk_pin>>

\* The keyboard clocks once the host has let go of the clock line.
request_clock ==
  /\ send_pc \in {"clk_released", "ready", "wait_idle", "wait_lines"}
  /\ clk = 0 => ~event
  /\ clk' = 1 - clk
  /\ event' = (event \/ (clk = 1 /\ int_enabled))
  /\ UNCHANGED <<firmware, queueVars, init_pc, int_enabled, callback, data, bit,
                 history, sendVars>>

SendNext ==
  \/ (ps2_keyboard_init \/ ps2_connector_get_next_code) /\ UNCHANGED sendVars
  \/ \E command \in Commands : ps2_keyboard_set_leds(command)
  \/ ps2_connector_send_byte
  \/ serve_clk
  \/ request_clock

\* Every thread runs, interrupts are served and the keyboard never stops
\* clocking.
SendSpec ==
  /\ SendInit /\ [][SendNext]_svars
  /\ WF_svars(ps2_connector_send_byte)
  /\ WF_svars(serve_clk)
  /\ WF_svars(request_clock)

\* A keyboard that does not see the request and types: frames come at any time
\* and a send may begin in the middle of one.
MixedNext ==
  \/ (ps2_keyboard_init \/ ps2_connector_get_next_code \/ keyboard) /\ UNCHANGED sendVars
  \/ \E command \in Commands : ps2_keyboard_set_leds(command)
  \/ ps2_connector_send_byte
  \/ serve_clk

\* Threads and interrupts run, and a frame that was begun is finished.
MixedSpec ==
  /\ SendInit /\ [][MixedNext]_svars
  /\ WF_svars(ps2_keyboard_init /\ UNCHANGED sendVars)
  /\ WF_svars(serve_clk)
  /\ WF_svars((clock_fall \/ \E invert \in BOOLEAN : clock_rise(invert)) /\ UNCHANGED sendVars)

-----------------------------------------------------------------------------
\* ps2_connector_send_byte is a "blocking function": after the device has
\* clocked the bits out the wait for PS2_STATE_IDLE ends and it returns.
SendReturns == (init_pc = "done" /\ send_pc = "wait_idle") ~> (send_pc = "idle")
=============================================================================
