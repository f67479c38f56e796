------------------------------- MODULE MsgQRx -------------------------------
(***************************************************************************)
(* The program's use of the kernel's message queue: the clock interrupt    *)
(* puts with K_NO_WAIT, and the keyboard thread, which starts later, gets  *)
(* with K_FOREVER.  It implements RxQueue, the queue that PS2Connector and *)
(* KeyPath are built on.                                                   *)
(***************************************************************************)
EXTENDS MsgQ

CONSTANT kbd      \* the keyboard thread, one of Threads
VARIABLE started  \* k_thread_create has run

\* ps2_connector_init has run
RxInit == k_msgq_init /\ started = FALSE

RxNext ==
  \/ ~started /\ started' = TRUE /\ UNCHANGED vars
  \/ \E m \in Msg : PutRoom(m) /\ UNCHANGED started
  \/ /\ started /\ UNCHANGED started
     /\ \/ Running(kbd) /\ GetQueued
        \/ GetPends(kbd)
        \/ Return(kbd)

RxSpec == RxInit /\ [][RxNext]_<<vars, started>>

\* The queue as RxQueue shows it.
Rx == INSTANCE RxQueue WITH
        QueueSize <- MaxMsgs,
        rx_msg_que <- Contents,
        reader <- IF ~started THEN "off" ELSE IF Running(kbd) THEN "running"
                  ELSE IF Pended(kbd) THEN "pended" ELSE "handed",
        handover <- IF Woken(kbd) THEN <<swap_data[kbd]>> ELSE <<>>

\* What the rest of the project takes for the queue is what the kernel's ring
\* buffer and wait queue do.
ImplementsRxQueue == Rx!QueueSpec
=============================================================================
