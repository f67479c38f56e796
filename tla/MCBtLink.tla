------------------------------ MODULE MCBtLink ------------------------------
(* All ways to pair. *)
EXTENDS BtLink

AnyPairing == BOOLEAN \X BOOLEAN
=============================================================================
