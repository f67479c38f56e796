-------------------------------- MODULE Hog ---------------------------------
(***************************************************************************)
(* How reports get to the host: hog_set_keyboard_input of hog.c, called by *)
(* the keyboard thread with the translator's report and by the main thread *)
(* in keyboard_print (bt_hid_tools.c), on top of BtLink.  Both write       *)
(* input_keyboard without a lock.  The main thread has the higher          *)
(* priority: it preempts the keyboard thread between any two steps, which  *)
(* runs only while main sleeps or waits for a buffer.  The threads of the  *)
(* Bluetooth stack preempt both.                                           *)
(*                                                                         *)
(* A report is a pair of parts, copied one after the other; keyboard_print *)
(* uses the second only, keycode[5].                                       *)
(***************************************************************************)
EXTENDS BtLink, Sequences

CONSTANTS kbd, main,   \* the two threads
          KbdReports,  \* reports of the translator
          PrintKey,    \* the key that keyboard_print types
          TxBufs,      \* CONFIG_BT_L2CAP_TX_BUF_COUNT
          Chars,       \* length of the string that keyboard_print types
          Unhurried    \* in a pause of keyboard_print kbd gets on with its call, and
                       \* between two strings it gets done with it

NoKey == 0
Empty == <<NoKey, NoKey>>

ASSUME HogAssumption ==
  /\ Notifiers = {kbd, main} /\ kbd # main
  /\ Empty \in KbdReports /\ \A r \in KbdReports : r = <<r[1], r[2]>>
  /\ TxBufs \in Nat \ {0} /\ Chars \in Nat \ {0}
  /\ Unhurried \in BOOLEAN

VARIABLES
  pc,              \* where each thread is in hog_set_keyboard_input
  kb_report,       \* the argument of each thread's present or last call
  input_keyboard,  \* hog.c
  pdu,             \* the notification each thread is filling
  tx,              \* hosts that the notifications on their way are for
  left,            \* keyboard_print: reports to come
  view,            \* the last report sent: what the host shows when it arrives
  overlap,         \* history: main has been at work since kbd's call began
  steady,          \* history: kbd's call found a subscription, which lasts
  missed           \* history: a report was dropped and not made up for

hogVars == <<pc, kb_report, input_keyboard, pdu, tx, left, view, overlap, steady, missed>>
allVars == <<linkVars, hogVars>>

Reports == KbdReports \cup {Empty, <<NoKey, PrintKey>>}
Parts == UNION {{r[1], r[2]} : r \in Reports}
NoPdu == [to |-> None, value |-> Empty]
Pdus == [to : Hosts \cup {None}, value : Parts \X Parts]

\* Reports stay well formed, and notifications use no more buffers than there
\* are.
HogTypeOK ==
  /\ LinkTypeOK
  /\ pc \in [Notifiers -> {"idle", "copy1", "copy2", "trigger", "alloc", "fill1", "fill2",
                           "send"}]
  /\ kb_report \in [Notifiers -> Reports]
  /\ input_keyboard \in Parts \X Parts
  /\ pdu \in [Notifiers -> Pdus]
  /\ tx \in Seq(Hosts) /\ Len(tx) <= TxBufs
  /\ left \in 0..(2 * Chars)
  /\ view \in Parts \X Parts
  /\ overlap \in BOOLEAN /\ steady \in BOOLEAN /\ missed \in BOOLEAN

HogInit ==
  /\ LinkInit
  /\ pc = [t \in Notifiers |-> "idle"]
  /\ kb_report = [t \in Notifiers |-> Empty]
  /\ input_keyboard = Empty
  /\ pdu = [t \in Notifiers |-> NoPdu]
  /\ tx = <<>>
  /\ left = 0
  /\ view = Empty
  /\ overlap = FALSE /\ steady = FALSE /\ missed = FALSE

Goto(t, l) == pc' = [pc EXCEPT ![t] = l]

Filling == {t \in Notifiers : pc[t] \in {"fill1", "fill2", "send"}}

\* Mutant: one buffer too many.
HasBuffer_past_end == Len(tx) + Cardinality(Filling) <= TxBufs

HasBuffer == Len(tx) + Cardinality(Filling) < TxBufs

\* The keyboard thread's call is disturbed neither by main nor by the host.
Alone == ~overlap /\ steady

\* Mutant: the wait for a buffer goes on when the link is gone.
Ready_connected(t) == pc[t] # "idle" /\ (pc[t] = "alloc" => HasBuffer /\ link = "up")

\* A thread that could go on.
Ready(t) == pc[t] # "idle" /\ (pc[t] = "alloc" => HasBuffer)

\* The scheduler: kbd runs only when main does not.
MayRun(t) == Ready(t) /\ (t = kbd => ~Ready(main))

-----------------------------------------------------------------------------
(***************************************************************************)
(* The callers                                                             *)
(***************************************************************************)
Call(t, r) ==
  /\ pc[t] = "idle" /\ Goto(t, "copy1")
  /\ kb_report' = [kb_report EXCEPT ![t] = r]
  /\ UNCHANGED <<input_keyboard, pdu, tx, view, missed, linkVars>>

\* The translator hands over a report.
KeyEvent(r) ==
  /\ ~Ready(main)
  /\ Call(kbd, r)
  /\ overlap' = (pc[main] # "idle") /\ steady' = MayNotify
  /\ UNCHANGED left

\* Mutant: there is no report after the last character.
Printed_unfinished(n) == IF n % 2 = 0 THEN Empty ELSE <<NoKey, PrintKey>>

\* keyboard_print's report when n are left: an empty one and a character in
\* turn, and an empty one at the end.
Printed(n) == IF n % 2 = 1 \/ n = 0 THEN Empty ELSE <<NoKey, PrintKey>>

keyboard_print ==
  /\ main_pc = "loop"
  /\ Unhurried => ~(overlap /\ IF left = 0 THEN pc[kbd] # "idle" ELSE Ready(kbd))
  /\ Call(main, Printed(left))
  /\ left' = IF left = 0 THEN 2 * Chars ELSE left - 1
  /\ overlap' = TRUE
  /\ UNCHANGED steady

-----------------------------------------------------------------------------
(***************************************************************************)
(* hog_set_keyboard_input                                                  *)
(***************************************************************************)
\* Mutant: the size is one part short.
memcpy_short(dst, src, i) == IF i = 2 THEN dst ELSE [dst EXCEPT ![i] = src[i]]

\* Part i of a memcpy.
memcpy(dst, src, i) == [dst EXCEPT ![i] = src[i]]

\* hog_set_keyboard_input: the report is copied to input_keyboard.
Copy(t) ==
  /\ MayRun(t)
  /\ \/ /\ pc[t] = "copy1" /\ Goto(t, "copy2")
        /\ input_keyboard' = memcpy(input_keyboard, kb_report[t], 1)
     \/ /\ pc[t] = "copy2" /\ Goto(t, "trigger")
        /\ input_keyboard' = memcpy(input_keyboard, kb_report[t], 2)
  /\ UNCHANGED <<kb_report, pdu, tx, left, view, overlap, steady, missed, linkVars>>

\* trigger_report_notification down to the look-up in notify_cb: without a
\* subscriber the report is dropped.
trigger_report_notification(t) ==
  /\ MayRun(t) /\ pc[t] = "trigger"
  /\ \/ /\ Lookup(t)
        /\ Goto(t, "alloc")
        /\ pdu' = [pdu EXCEPT ![t].to = conn]
        /\ UNCHANGED missed
     \/ /\ ~MayNotify
        /\ Goto(t, "idle")
        /\ missed' = (missed \/ link = "up")
        /\ UNCHANGED <<pdu, linkVars>>
  /\ UNCHANGED <<kb_report, input_keyboard, tx, left, view, overlap, steady>>

\* bt_att_create_pdu, which waits for a buffer, and the memcpy from
\* input_keyboard.
gatt_notify(t) ==
  /\ MayRun(t)
  /\ \/ pc[t] = "alloc" /\ Goto(t, "fill1") /\ UNCHANGED pdu
     \/ /\ pc[t] = "fill1" /\ Goto(t, "fill2")
        /\ pdu' = [pdu EXCEPT ![t].value = memcpy(@, input_keyboard, 1)]
     \/ /\ pc[t] = "fill2" /\ Goto(t, "send")
        /\ pdu' = [pdu EXCEPT ![t].value = memcpy(@, input_keyboard, 2)]
  /\ UNCHANGED <<kb_report, input_keyboard, tx, left, view, overlap, steady, missed, linkVars>>

\* bt_att_send, then the reference is dropped.
bt_att_send(t) ==
  /\ MayRun(t) /\ pc[t] = "send"
  /\ Goto(t, "idle")
  /\ \/ link # "none" /\ tx' = Append(tx, pdu[t].to) /\ view' = pdu[t].value
     \/ link = "none" /\ UNCHANGED <<tx, view>>
  /\ missed' = (missed /\ ~(t = kbd /\ Alone))
  /\ Unref(t)
  /\ pdu' = [pdu EXCEPT ![t] = NoPdu]
  /\ UNCHANGED <<kb_report, input_keyboard, left, overlap, steady>>

-----------------------------------------------------------------------------
(***************************************************************************)
(* The stack                                                               *)
(***************************************************************************)
\* The oldest notification reaches the host and its buffer is free.
Transmit ==
  /\ link = "up" /\ tx # <<>>
  /\ tx' = Tail(tx)
  /\ UNCHANGED <<pc, kb_report, input_keyboard, pdu, left, view, overlap, steady, missed,
                 linkVars>>

\* conn_cleanup and att_reset: no buffer is left.
conn_cleanup == <<>>

\* The steps of BtLink, with what they do to notifications on their way;
\* a host without the keyboard shows no keys.
Stack ==
  /\ StackNext
  /\ tx' = IF link = "down" /\ link' = "none" THEN conn_cleanup ELSE tx
  /\ view' = IF link' = "none" THEN Empty ELSE view
  /\ missed' = (missed /\ link' # "none")
  /\ steady' = (steady /\ MayNotify')
  /\ UNCHANGED <<pc, kb_report, input_keyboard, pdu, left, overlap>>

Step(t) == Copy(t) \/ trigger_report_notification(t) \/ gatt_notify(t) \/ bt_att_send(t)

HogNext ==
  \/ \E r \in KbdReports : KeyEvent(r)
  \/ keyboard_print
  \/ \E t \in Notifiers : Step(t)
  \/ Transmit \/ Stack

\* Threads run when the scheduler lets them.  The link layer gets
\* notifications across, or the link is lost.
HogSpec ==
  /\ HogInit /\ [][HogNext]_allVars
  /\ \A t \in Notifiers : WF_allVars(Step(t))
  /\ WF_allVars(tx # <<>> /\ (Transmit \/ (Disconnect /\ Stack)))
  /\ WF_allVars(Booting /\ Stack) /\ WF_allVars(Cleanup /\ Stack)

-----------------------------------------------------------------------------
\* A notification goes to the host that the subscription was read from, even
\* if the connection is lost while hog.c waits for a buffer: the reference
\* keeps other hosts out until the call is over.
NoReportForAnotherHost ==
  /\ \A i \in 1..Len(tx) : tx[i] = conn
  /\ \A t \in holders : conn \in {pdu[t].to, None}

\* A key event that keyboard_print does not disturb, on a subscribed link,
\* leaves the host with exactly the translator's report: whatever was lost or
\* torn before is repaired.
Undisturbed == Alone /\ pc[kbd] = "idle" => view = kb_report[kbd]

\* With both threads at rest, printing over and no report dropped for want of a
\* subscription since the last undisturbed key event, the host shows nothing
\* that is not in the translator's report: no printed key sticks, although
\* keyboard_print writes the same input_keyboard.
NothingSticks ==
  /\ \A t \in Notifiers : pc[t] = "idle"
  /\ left = 0 /\ link = "up" /\ ~missed
  => \A i \in 1..2 : view[i] \in {NoKey, kb_report[kbd][i]}

\* No call waits for ever for a buffer.
CallsReturn == \A t \in Notifiers : pc[t] # "idle" ~> pc[t] = "idle"
=============================================================================
