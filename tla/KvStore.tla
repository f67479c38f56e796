------------------------------ MODULE KvStore -------------------------------
(***************************************************************************)
(* What a persistent store promises: a call takes effect at once or not at *)
(* all, nothing else changes, a call that returns success has taken        *)
(* effect, and power failures lose nothing.                                *)
(***************************************************************************)
CONSTANTS Keys, Values, Absent   \* Absent, one of the values, stands for "no entry"

VARIABLES
  store,     \* what survives
  request,   \* the call in progress, <<>> or a key and its new value
  answer     \* what the last call returned

kvVars == <<store, request, answer>>

KvInit == store = [k \in Keys |-> Absent] /\ request = <<>> /\ answer = "none"

Ask ==
  /\ request = <<>>
  /\ \E k \in Keys, v \in Values : request' = <<k, v>>
  /\ answer' = "none"
  /\ UNCHANGED store

TakeEffect ==
  /\ request # <<>>
  /\ store' = [store EXCEPT ![request[1]] = request[2]]
  /\ UNCHANGED <<request, answer>>

Answer ==
  /\ request # <<>>
  /\ \/ answer' = "ok" /\ store[request[1]] = request[2]
     \/ answer' = "failed"
  /\ request' = <<>>
  /\ UNCHANGED store

PowerFails == request' = <<>> /\ answer' = "none" /\ UNCHANGED store

KvNext == Ask \/ TakeEffect \/ Answer \/ PowerFails

KvSpec == KvInit /\ [][KvNext]_kvVars
=============================================================================
