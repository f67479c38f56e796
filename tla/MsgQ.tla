-------------------------------- MODULE MsgQ --------------------------------
(***************************************************************************)
(* The kernel's message queue, kernel/msg_q.c: a ring buffer and one wait  *)
(* queue that readers and writers share.  Every call runs under the        *)
(* queue's spin lock, so a call is one step up to the point where it       *)
(* returns or pends its thread; a pended call goes on when another call    *)
(* has woken it.  Interrupt handlers call with K_NO_WAIT and never pend.   *)
(* MsgQRx is the program's use of it, and is shown to implement RxQueue.   *)
(***************************************************************************)
EXTENDS Integers, Sequences

CONSTANTS Threads,  \* threads that use the queue
          Patient,  \* those that wait with K_FOREVER, the others with a timeout
          Prio,     \* Prio[t]: scheduling priority, a smaller number is better
          Msg,      \* what the queue carries
          NoMsg,    \* contents of memory nobody has written
          MaxMsgs,  \* max_msgs
          MaxPuts   \* bound: messages accepted by the queue

ASSUME MsgQAssumption ==
  /\ Patient \subseteq Threads
  /\ Prio \in [Threads -> Int]
  /\ NoMsg \notin Msg
  /\ MaxMsgs \in Nat \ {0}
  /\ MaxPuts \in Nat

VARIABLES
  buffer, read_ptr, write_ptr, used_msgs,  \* struct k_msgq, pointers as indices
  wait_q,                                  \* its wait queue, best thread first
  call,          \* call[t]: "put" or "get" inside a call that pended, else "none"
  swap_data,     \* swap_data[t]: the message *swap_data of a call holds
  return_value,  \* return_value[t]: what a woken call returns
  accepted, returned  \* history: messages accepted and handed out, in order

ring == <<buffer, read_ptr, write_ptr, used_msgs>>
waiting == <<wait_q, call, swap_data, return_value>>
history == <<accepted, returned>>
vars == <<ring, waiting, history>>

Slots == 0 .. MaxMsgs - 1

\* The pointers of the queue stay inside its buffer and used_msgs within
\* max_msgs, which msg_q.c checks nowhere else.
TypeOK ==
  /\ buffer \in [Slots -> Msg \cup {NoMsg}]
  /\ read_ptr \in Slots /\ write_ptr \in Slots
  /\ used_msgs \in 0..MaxMsgs
  /\ wait_q \in Seq(Threads)
  /\ call \in [Threads -> {"none", "put", "get"}]
  /\ swap_data \in [Threads -> Msg \cup {NoMsg}]
  /\ return_value \in [Threads -> {"0", "ENOMSG", "EAGAIN"}]
  /\ accepted \in Seq(Msg) /\ returned \in Seq(Msg)

\* k_msgq_init
k_msgq_init ==
  /\ buffer = [i \in Slots |-> NoMsg]
  /\ read_ptr = 0 /\ write_ptr = 0 /\ used_msgs = 0
  /\ wait_q = <<>>
  /\ call = [t \in Threads |-> "none"]
  /\ swap_data = [t \in Threads |-> NoMsg]
  /\ return_value = [t \in Threads |-> "0"]
  /\ accepted = <<>> /\ returned = <<>>

-----------------------------------------------------------------------------
\* Mutants: the wrap-around test forgotten, and one message early.
AdvancePastEnd(ptr) == ptr + 1
AdvanceEarly(ptr) == IF ptr + 1 >= MaxMsgs - 1 THEN 0 ELSE ptr + 1

\* ptr += msg_size, back to buffer_start at buffer_end.
Advance(ptr) == IF ptr + 1 = MaxMsgs THEN 0 ELSE ptr + 1

Pended(t) == \E i \in DOMAIN wait_q : wait_q[i] = t
Running(t) == call[t] = "none"
Woken(t) == call[t] # "none" /\ ~Pended(t)

\* z_pend_curr: the wait queue is ordered by priority, then by time.
Pend(t, what, m) ==
  /\ \E k \in 0..Len(wait_q) :
       /\ \A i \in DOMAIN wait_q : Prio[wait_q[i]] <= Prio[t] <=> i <= k
       /\ wait_q' = SubSeq(wait_q, 1, k) \o <<t>> \o SubSeq(wait_q, k + 1, Len(wait_q))
  /\ call' = [call EXCEPT ![t] = what]
  /\ swap_data' = [swap_data EXCEPT ![t] = m]

\* z_unpend_first_thread and arch_thread_return_value_set
WakeFirst ==
  /\ wait_q' = Tail(wait_q)
  /\ return_value' = [return_value EXCEPT ![Head(wait_q)] = "0"]
  /\ UNCHANGED call

\* memcpy to write_ptr
Store(m) ==
  /\ buffer' = [buffer EXCEPT ![write_ptr] = m]
  /\ write_ptr' = Advance(write_ptr)

\* k_msgq_put that finds room: the first waiting thread is given the message,
\* taken for a reader; with nobody waiting it goes to the ring buffer.
PutRoom(m) ==
  /\ used_msgs < MaxMsgs
  /\ Len(accepted) < MaxPuts
  /\ accepted' = Append(accepted, m)
  /\ \/ /\ wait_q # <<>>
        /\ swap_data' = [swap_data EXCEPT ![Head(wait_q)] = m]
        /\ WakeFirst
        /\ returned' = Append(returned, m)
        /\ UNCHANGED ring
     \/ /\ wait_q = <<>>
        /\ Store(m)
        /\ used_msgs' = used_msgs + 1
        /\ UNCHANGED <<read_ptr, returned, waiting>>

\* k_msgq_put with a timeout on a full queue.  With K_NO_WAIT it returns
\* -ENOMSG and changes nothing; so does a get on an empty queue.
PutPends(t, m) ==
  /\ Running(t)
  /\ used_msgs = MaxMsgs
  /\ Pend(t, "put", m)
  /\ UNCHANGED <<ring, return_value, history>>

\* Mutant: waiting writers are forgotten when a place comes free.
GetWithoutWriter ==
  /\ used_msgs > 0
  /\ read_ptr' = Advance(read_ptr)
  /\ returned' = Append(returned, buffer[read_ptr])
  /\ used_msgs' = used_msgs - 1
  /\ UNCHANGED <<buffer, write_ptr, waiting, accepted>>

\* k_msgq_get that finds a message; the first waiting thread, taken for a
\* writer, has its message put into the place that came free.
GetQueued ==
  /\ used_msgs > 0
  /\ read_ptr' = Advance(read_ptr)
  /\ returned' = Append(returned, buffer[read_ptr])
  /\ \/ /\ wait_q # <<>>
        /\ Len(accepted) < MaxPuts
        /\ Store(swap_data[Head(wait_q)])
        /\ accepted' = Append(accepted, swap_data[Head(wait_q)])
        /\ WakeFirst
        /\ UNCHANGED <<used_msgs, swap_data>>
     \/ /\ wait_q = <<>>
        /\ used_msgs' = used_msgs - 1
        /\ UNCHANGED <<buffer, write_ptr, waiting, accepted>>

\* k_msgq_get with a timeout on an empty queue.
GetPends(t) ==
  /\ Running(t)
  /\ used_msgs = 0
  /\ Pend(t, "get", NoMsg)
  /\ UNCHANGED <<ring, return_value, history>>

\* Mutant: purged calls report success.
PurgeReturnsZero ==
  /\ wait_q' = <<>>
  /\ return_value' = [t \in Threads |-> IF Pended(t) THEN "0" ELSE return_value[t]]
  /\ used_msgs' = 0
  /\ read_ptr' = write_ptr
  /\ accepted' = returned
  /\ UNCHANGED <<buffer, write_ptr, call, swap_data, returned>>

\* k_msgq_purge: all waiting threads are woken, the messages are forgotten.
k_msgq_purge ==
  /\ wait_q' = <<>>
  /\ return_value' = [t \in Threads |-> IF Pended(t) THEN "ENOMSG" ELSE return_value[t]]
  /\ used_msgs' = 0
  /\ read_ptr' = write_ptr
  /\ accepted' = returned
  /\ UNCHANGED <<buffer, write_ptr, call, swap_data, returned>>

\* z_thread_timeout: the wait is over, the call returns -EAGAIN.
Timeout(t) ==
  /\ t \notin Patient
  /\ \E i \in DOMAIN wait_q :
       /\ wait_q[i] = t
       /\ wait_q' = SubSeq(wait_q, 1, i - 1) \o SubSeq(wait_q, i + 1, Len(wait_q))
  /\ return_value' = [return_value EXCEPT ![t] = "EAGAIN"]
  /\ UNCHANGED <<ring, call, swap_data, history>>

\* A woken call returns to its caller.
Return(t) ==
  /\ Woken(t)
  /\ call' = [call EXCEPT ![t] = "none"]
  /\ swap_data' = [swap_data EXCEPT ![t] = NoMsg]
  /\ return_value' = [return_value EXCEPT ![t] = "0"]
  /\ UNCHANGED <<ring, wait_q, history>>

Next ==
  \/ \E m \in Msg : PutRoom(m)
  \/ GetQueued
  \/ k_msgq_purge
  \/ \E t \in Threads :
       \/ \E m \in Msg : PutPends(t, m)
       \/ GetPends(t)
       \/ Timeout(t)
       \/ Return(t)

Spec == k_msgq_init /\ [][Next]_vars

-----------------------------------------------------------------------------
\* The messages in the ring buffer, oldest first.
Contents ==
  [i \in 1..used_msgs |->
     LET p == read_ptr + i - 1 IN buffer[IF p < MaxMsgs THEN p ELSE p - MaxMsgs]]

\* The two kinds of waiting thread share one queue, and put takes its head for
\* a reader, get for a writer.  They are never mistaken: readers wait on an
\* empty queue only, writers on a full one, so nobody waits for a message that
\* is there or for room that is there.
WaitersMatchTheQueue ==
  \A i \in DOMAIN wait_q :
    \/ call[wait_q[i]] = "get" /\ used_msgs = 0
    \/ call[wait_q[i]] = "put" /\ used_msgs = MaxMsgs

\* Messages leave in the order in which they were accepted, whatever mixture
\* of hand-overs, wrap-arounds, waiting writers and purges: nothing is lost,
\* repeated or overtaken between accepted and returned.
FirstInFirstOut == accepted = returned \o Contents

\* A reader that was woken by a message holds it; a call that timed out or was
\* purged holds none of the messages handed out.
WokenReaderHasMessage ==
  \A t \in Threads :
    call[t] = "get" => (swap_data[t] \in Msg <=> (~Pended(t) /\ return_value[t] = "0"))
=============================================================================
