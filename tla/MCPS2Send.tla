------------------------------ MODULE MCPS2Send ------------------------------
(***************************************************************************)
(* An instance of PS2Send for TLC: the command that lights num lock.       *)
(***************************************************************************)
EXTENDS PS2Send

MCCommands == {ToByte(2)}
MCNone == {}
MCOneCode == {ToByte(28)}
MCStartNoise == {0}
=============================================================================
