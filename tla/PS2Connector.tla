---------------------------- MODULE PS2Connector ----------------------------
(***************************************************************************)
(* Reception in ps2_connector.c: ps2_connector_init in the main thread,    *)
(* the falling-clock interrupt clk_fall_cb, which shifts in one bit per    *)
(* edge and queues each good byte, and ps2_connector_get_next_code in the  *)
(* keyboard thread.  The keyboard that drives the two lines and the GPIOTE *)
(* peripheral that latches clock edges are external.  PS2Send adds the     *)
(* host-to-device direction, which the shipped main() never calls.         *)
(***************************************************************************)
EXTENDS PS2Bits, Sequences, FiniteSets

CONSTANTS Codes,       \* bytes the keyboard may transmit
          QueueSize,   \* PS2_MSG_QUE_SIZE
          MaxFrames,   \* bound: frames the keyboard transmits
          NoisyBits,   \* frame positions where noise may invert the data line
                       \* (at most one of them in each frame)
          QuietStart,  \* the keyboard is silent until init has returned
          Prompt       \* an edge is served before the keyboard's next edge

ASSUME ConnectorAssumption ==
  /\ Codes \subseteq Byte
  /\ QueueSize \in Nat \ {0}
  /\ MaxFrames \in Nat
  /\ NoisyBits \subseteq 0..10
  /\ QuietStart \in BOOLEAN
  /\ Prompt \in BOOLEAN

VARIABLES
  PS2_state, current_bit_no, incoming_data,   \* the statics of ps2_connector.c
  rx_msg_que, reader, handover,               \* the message queue
  init_pc,                                    \* main thread in init
  int_enabled, callback, event,               \* GPIOTE and the callback list
  data, clk, bit,                             \* the keyboard and its lines
  sent, accepted, full, hit, got              \* history

Queue == INSTANCE RxQueue WITH Msg <- Byte

firmware == <<PS2_state, current_bit_no, incoming_data>>
queueVars == <<rx_msg_que, reader, handover>>
gpiote == <<int_enabled, callback, event>>
lines == <<data, clk, bit>>
history == <<sent, accepted, full, hit, got>>
vars == <<firmware, queueVars, init_pc, gpiote, lines, history>>

Idle == FrameLen \* value of bit when no frame is being clocked

InitPcs == {"configure", "wait_data", "wait_clk", "set_state", "enable_int",
            "add_callback", "done", "failed"}

TypeOK ==
  /\ PS2_state \in {"IDLE", "DEV_TO_HOST", "HOST_TO_DEV"}
  /\ current_bit_no \in 0..10
  /\ incoming_data \in Byte
  /\ rx_msg_que \in Seq(Byte)
  /\ Len(rx_msg_que) <= QueueSize
  /\ reader \in {"off", "running", "pended", "handed"}
  /\ handover \in Seq(Byte)
  /\ Len(handover) <= 1
  /\ init_pc \in InitPcs
  /\ int_enabled \in BOOLEAN /\ callback \in BOOLEAN /\ event \in BOOLEAN
  /\ data \in Bit /\ clk \in Bit
  /\ bit \in 0..FrameLen
  /\ sent \in Seq(Codes)
  /\ accepted \in Seq(Nat)
  /\ full \subseteq Nat /\ hit \subseteq Nat
  /\ got \in Seq(Byte)

Init ==
  /\ PS2_state = "IDLE"
  /\ current_bit_no = 0
  /\ incoming_data = [k \in 0..7 |-> 0]
  /\ Queue!QueueInit
  /\ init_pc = "configure"
  /\ int_enabled = FALSE /\ callback = FALSE /\ event = FALSE
  /\ data = 1 /\ clk = 1
  /\ bit = Idle
  /\ sent = <<>> /\ accepted = <<>> /\ full = {} /\ hit = {} /\ got = <<>>

-----------------------------------------------------------------------------
(***************************************************************************)
(* ps2_keyboard_init in the main thread: ps2_connector_init, whose waiting *)
(* loop reads the data line and then the clock line, and the start of the  *)
(* keyboard thread, which happens even when init has given up early.       *)
(***************************************************************************)
configure_pins ==
  /\ init_pc = "configure"
  /\ init_pc' = "wait_data"
  /\ UNCHANGED <<firmware, queueVars, gpiote, lines, history>>

configure_fails ==
  /\ init_pc = "configure"
  /\ init_pc' = "failed"
  /\ reader' = "running"
  /\ UNCHANGED <<firmware, rx_msg_que, handover, gpiote, lines, history>>

\* Mutant: the test of the data line is the wrong way round.
wait_data_low ==
  /\ init_pc = "wait_data"
  /\ data = 0
  /\ init_pc' = "wait_clk"
  /\ UNCHANGED <<firmware, queueVars, gpiote, lines, history>>

wait_data_high ==
  /\ init_pc = "wait_data"
  /\ data = 1
  /\ init_pc' = "wait_clk"
  /\ UNCHANGED <<firmware, queueVars, gpiote, lines, history>>

wait_clk_high ==
  /\ init_pc = "wait_clk"
  /\ init_pc' = IF clk = 1 THEN "set_state" ELSE "wait_data"
  /\ UNCHANGED <<firmware, queueVars, gpiote, lines, history>>

set_state ==
  /\ init_pc = "set_state"
  /\ PS2_state' = "DEV_TO_HOST"
  /\ init_pc' = "enable_int"
  /\ UNCHANGED <<current_bit_no, incoming_data, queueVars, gpiote, lines, history>>

\* From here on a falling edge raises the interrupt ...
enable_int ==
  /\ init_pc = "enable_int"
  /\ int_enabled' = TRUE
  /\ event' = FALSE
  /\ init_pc' = "add_callback"
  /\ UNCHANGED <<firmware, queueVars, callback, lines, history>>

\* ... but only from here on is clk_fall_cb called for it.
add_callback ==
  /\ init_pc = "add_callback"
  /\ callback' = TRUE
  /\ init_pc' = "done"
  /\ reader' = "running"
  /\ UNCHANGED <<firmware, rx_msg_que, handover, int_enabled, event, lines, history>>

ps2_keyboard_init ==
  \/ configure_pins \/ configure_fails \/ wait_data_high \/ wait_clk_high
  \/ set_state \/ enable_int \/ add_callback

-----------------------------------------------------------------------------
(***************************************************************************)
(* The keyboard puts a bit on the data line while the clock is high and    *)
(* then pulls the clock low.  The GPIOTE latch holds one event: an edge    *)
(* that comes before the previous one is served is merged with it.         *)
(***************************************************************************)
\* Bit p of the given frame, which carries code c, inverted by noise or not.
put_bit(frame, c, p, invert) ==
  LET b == FrameBit(c, p)
  IN  /\ data' = IF invert THEN 1 - b ELSE b
      /\ hit' = IF invert THEN hit \cup {frame} ELSE hit

start_frame(c, invert) ==
  /\ bit = Idle
  /\ Len(sent) < MaxFrames
  /\ QuietStart => init_pc \in {"done", "failed"}
  /\ invert => 0 \in NoisyBits
  /\ sent' = Append(sent, c)
  /\ bit' = 0
  /\ put_bit(Len(sent) + 1, c, 0, invert)
  /\ UNCHANGED <<firmware, queueVars, init_pc, gpiote, clk, accepted, full, got>>

clock_fall ==
  /\ bit < Idle /\ clk = 1
  /\ clk' = 0
  /\ event' = (event \/ int_enabled)
  /\ UNCHANGED <<firmware, queueVars, init_pc, int_enabled, callback, data, bit, history>>

clock_rise(invert) ==
  /\ clk = 0
  /\ Prompt => ~event
  /\ invert => bit + 1 \in NoisyBits /\ Len(sent) \notin hit
  /\ clk' = 1
  /\ bit' = bit + 1
  /\ put_bit(Len(sent), sent[Len(sent)], bit + 1, invert)
  /\ UNCHANGED <<firmware, queueVars, init_pc, gpiote, sent, accepted, full, got>>

keyboard ==
  \E invert \in BOOLEAN :
    (\E c \in Codes : start_frame(c, invert)) \/ clock_fall \/ clock_rise(invert)

-----------------------------------------------------------------------------
(***************************************************************************)
(* The interrupt.                                                          *)
(***************************************************************************)
\* k_msgq_put(&rx_msg_que, &incoming_data, K_NO_WAIT), its result ignored.
queue_incoming_data ==
  \/ /\ Queue!PutAccepted(incoming_data)
     /\ accepted' = Append(accepted, Len(sent))
     /\ UNCHANGED full
  \/ /\ Queue!PutRefused
     /\ full' = full \cup {Len(sent)}
     /\ UNCHANGED accepted

start_bit_check_failed(current_bit) ==
  /\ current_bit_no = 0
  /\ current_bit # 0
  /\ UNCHANGED <<current_bit_no, incoming_data, queueVars, accepted, full>>

\* The start bit is shifted in too; the eight data bits push it out again.
shift_in_bit(current_bit) ==
  /\ current_bit_no < 9
  /\ current_bit_no = 0 => current_bit = 0
  /\ incoming_data' = ShiftIn(incoming_data, current_bit)
  /\ current_bit_no' = current_bit_no + 1
  /\ UNCHANGED <<queueVars, accepted, full>>

parity_bit(current_bit) ==
  /\ current_bit_no = 9
  /\ current_bit_no' = IF odd_parity_check(incoming_data) = current_bit THEN 0 ELSE 10
  /\ UNCHANGED <<incoming_data, queueVars, accepted, full>>

\* Mutants: current_bit_no is not wrapped after 10; it is wrapped by 10; the test
\* of the bit is inverted.
stop_bit_unwrapped(current_bit) ==
  /\ current_bit_no = 10
  /\ current_bit_no' = 11
  /\ IF current_bit # 1
       THEN UNCHANGED <<queueVars, accepted, full>>
       ELSE queue_incoming_data
  /\ UNCHANGED incoming_data

stop_bit_wraps_early(current_bit) ==
  /\ current_bit_no = 10
  /\ current_bit_no' = 11 % 10
  /\ IF current_bit # 1
       THEN UNCHANGED <<queueVars, accepted, full>>
       ELSE queue_incoming_data
  /\ UNCHANGED incoming_data

stop_bit_inverted(current_bit) ==
  /\ current_bit_no = 10
  /\ current_bit_no' = 0
  /\ IF current_bit = 1
       THEN UNCHANGED <<queueVars, accepted, full>>
       ELSE queue_incoming_data
  /\ UNCHANGED incoming_data

stop_bit(current_bit) ==
  /\ current_bit_no = 10
  /\ current_bit_no' = 0
  /\ IF current_bit # 1
       THEN UNCHANGED <<queueVars, accepted, full>>
       ELSE queue_incoming_data
  /\ UNCHANGED incoming_data

dev_to_host_serve_falling_clk(current_bit) ==
  /\ \/ start_bit_check_failed(current_bit)
     \/ shift_in_bit(current_bit)
     \/ parity_bit(current_bit)
     \/ stop_bit(current_bit)
  /\ UNCHANGED PS2_state

\* gpiote_event_handler clears the event and fires the callbacks; there may
\* be none yet.
clk_fall_cb ==
  /\ event
  /\ event' = FALSE
  /\ IF callback
       THEN /\ PS2_state \in {"DEV_TO_HOST", "IDLE"}
            /\ dev_to_host_serve_falling_clk(data)
       ELSE UNCHANGED <<firmware, queueVars, accepted, full>>
  /\ UNCHANGED <<init_pc, int_enabled, callback, lines, sent, hit, got>>

-----------------------------------------------------------------------------
(***************************************************************************)
(* The keyboard thread: ps2_connector_get_next_code.                       *)
(***************************************************************************)
\* Mutant: the code is returned as it was shifted in.
get_next_code_unreversed ==
  /\ \/ /\ Queue!Get
        /\ got' = Append(got, Queue!GetResult)
     \/ /\ Queue!GetPends
        /\ UNCHANGED got
  /\ UNCHANGED <<firmware, init_pc, gpiote, lines, sent, accepted, full, hit>>

ps2_connector_get_next_code ==
  /\ \/ /\ Queue!Get
        /\ got' = Append(got, reverse(Queue!GetResult))
     \/ /\ Queue!GetPends
        /\ UNCHANGED got
  /\ UNCHANGED <<firmware, init_pc, gpiote, lines, sent, accepted, full, hit>>

Next == ps2_keyboard_init \/ keyboard \/ clk_fall_cb \/ ps2_connector_get_next_code

Spec == Init /\ [][Next]_vars

\* The interrupt is served, the main thread and the keyboard thread run, the
\* keyboard finishes a frame it has begun; nobody has to type.
Fairness ==
  /\ WF_vars(ps2_keyboard_init)
  /\ WF_vars(clk_fall_cb)
  /\ WF_vars(ps2_connector_get_next_code)
  /\ WF_vars(clock_fall)
  /\ WF_vars(\E invert \in BOOLEAN : clock_rise(invert))

FairSpec == Spec /\ Fairness

-----------------------------------------------------------------------------
\* The codes returned to the keyboard thread and those still in transit.
Delivered == got \o [i \in 1..Len(Queue!InTransit) |-> reverse(Queue!InTransit[i])]

\* The falling edges the keyboard has made so far.
Edges == IF sent = <<>> THEN 0 ELSE FrameLen * (Len(sent) - 1) + bit + (1 - clk)

\* Frames all of whose edges have been served (given Prompt and QuietStart).
Served == IF bit = Idle \/ (bit = 10 /\ clk = 0 /\ ~event)
            THEN 1..Len(sent) ELSE 1..(Len(sent) - 1)

\* The code the keyboard thread gets is, byte for byte and in order, what the
\* keyboard sent in the frames that dev_to_host_serve_falling_clk accepted: the
\* reversed shift register, the start bit shifted through it and the reversal
\* in ps2_connector_get_next_code together give back the byte, and no frame is
\* delivered twice or overtaken, whether it went through the ring buffer or
\* was handed to the pended reader.
DeliversWhatWasSent ==
  /\ Len(Delivered) = Len(accepted)
  /\ \A i \in 1..Len(accepted) :
       /\ accepted[i] \in 1..Len(sent)
       /\ Delivered[i] = sent[accepted[i]]
       /\ i > 1 => accepted[i-1] < accepted[i]

\* Once the interrupt is set up, a frame is lost for two reasons only: noise
\* hit it, or k_msgq_put found the queue full.  A frame that noise hit is never
\* accepted, and the frame after it is not lost with it.
LossIsExplained ==
  init_pc = "done" =>
    \A f \in Served :
      /\ f \in hit <=> f \notin full /\ \A i \in 1..Len(accepted) : accepted[i] # f
      /\ f \in full => \A i \in 1..Len(accepted) : accepted[i] # f

\* Whatever the noise, the interrupt latency and the moment the keyboard
\* starts, every byte that is queued or refused has taken eleven edges of its
\* own: current_bit_no never runs ahead of the line.
NoByteWithoutEdges ==
  FrameLen * (Len(accepted) + Cardinality(full)) + current_bit_no
    + (IF event THEN 1 ELSE 0) <= Edges

\* Every code that was queued reaches the keyboard thread: k_msgq_get does not
\* sleep through a put.
AcceptedIsDelivered ==
  \A i \in 1..MaxFrames : (Len(accepted) >= i) ~> (Len(got) >= i)

\* ps2_connector_init's wait for both lines to be high ends once the keyboard
\* is silent, even if it started in the middle of a frame.
InitReturns == <>(init_pc \in {"done", "failed"})
=============================================================================
