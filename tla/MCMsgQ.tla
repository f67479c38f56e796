------------------------------- MODULE MCMsgQ -------------------------------
(***************************************************************************)
(* Instance of MsgQ for TLC: two threads of equal priority and a better    *)
(* one, one of them waiting for ever.                                      *)
(***************************************************************************)
EXTENDS MsgQ

MCThreads == {"a", "b", "c"}
MCPatient == {"a"}
MCPrio == [t \in MCThreads |-> IF t = "c" THEN 0 ELSE 5]
=============================================================================
