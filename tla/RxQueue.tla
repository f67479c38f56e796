------------------------------ MODULE RxQueue ------------------------------
(***************************************************************************)
(* rx_msg_que of ps2_connector.c, the kernel message queue between the     *)
(* clock interrupt, which puts with K_NO_WAIT, and the keyboard thread,    *)
(* its only reader, which gets with K_FOREVER.                             *)
(***************************************************************************)
EXTENDS Integers, Sequences

CONSTANTS Msg,        \* what the queue carries
          QueueSize   \* PS2_MSG_QUE_SIZE

VARIABLES rx_msg_que, \* messages in the ring buffer, oldest first
          reader,     \* "off" before the thread exists, "running", "pended" in
                      \* the wait queue, "handed" once a put has woken it
          handover    \* the message copied to the woken reader, <<>> when none

queueVars == <<rx_msg_que, reader, handover>>

QueueTypeOK ==
  /\ rx_msg_que \in Seq(Msg)
  /\ Len(rx_msg_que) <= QueueSize
  /\ reader \in {"off", "running", "pended", "handed"}
  /\ handover \in Seq(Msg)
  /\ Len(handover) <= 1

\* k_msgq_init
QueueInit ==
  /\ rx_msg_que = <<>>
  /\ reader = "off"
  /\ handover = <<>>

QueueFull == Len(rx_msg_que) >= QueueSize

\* Mutant: a put that does not look for a waiting reader.
PutWithoutWakeup(m) ==
  /\ ~QueueFull
  /\ rx_msg_que' = Append(rx_msg_que, m)
  /\ UNCHANGED <<reader, handover>>

\* k_msgq_put(m, K_NO_WAIT) that finds room: a waiting reader is handed the
\* message, otherwise it goes to the ring buffer.
PutAccepted(m) ==
  /\ ~QueueFull
  /\ \/ /\ reader = "pended"
        /\ reader' = "handed"
        /\ handover' = <<m>>
        /\ UNCHANGED rx_msg_que
     \/ /\ reader # "pended"
        /\ rx_msg_que' = Append(rx_msg_que, m)
        /\ UNCHANGED <<reader, handover>>

\* k_msgq_put(m, K_NO_WAIT) on a full queue returns -ENOMSG, which the
\* interrupt handler ignores: the message is lost.
PutRefused ==
  /\ QueueFull
  /\ UNCHANGED queueVars

\* k_msgq_get(K_FOREVER) that finds a message in the ring buffer.
GetQueued ==
  /\ reader = "running"
  /\ rx_msg_que # <<>>
  /\ rx_msg_que' = Tail(rx_msg_que)
  /\ UNCHANGED <<reader, handover>>

\* k_msgq_get(K_FOREVER) on an empty queue pends the thread ...
GetPends ==
  /\ reader = "running"
  /\ rx_msg_que = <<>>
  /\ reader' = "pended"
  /\ UNCHANGED <<rx_msg_que, handover>>

\* ... until a put has handed it a message.
GetHanded ==
  /\ reader = "handed"
  /\ reader' = "running"
  /\ handover' = <<>>
  /\ UNCHANGED rx_msg_que

\* k_msgq_get returns, with the message GetResult.
Get == GetQueued \/ GetHanded
GetResult == IF reader = "handed" THEN handover[1] ELSE Head(rx_msg_que)

\* The queue by itself; a put that is refused leaves it alone.
QueueNext ==
  \/ reader = "off" /\ reader' = "running" /\ UNCHANGED <<rx_msg_que, handover>>
  \/ \E m \in Msg : PutAccepted(m)
  \/ Get
  \/ GetPends

QueueSpec == QueueInit /\ [][QueueNext]_queueVars

\* Messages accepted and not yet returned to the reader, oldest first.
InTransit == handover \o rx_msg_que

=============================================================================
