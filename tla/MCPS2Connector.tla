--------------------------- MODULE MCPS2Connector ---------------------------
(***************************************************************************)
(* Instances of PS2Connector for TLC.  0x1C (the A key) and 0xF0 (the      *)
(* break prefix) are no palindromes bit by bit and have different parity.  *)
(***************************************************************************)
EXTENDS PS2Connector

MCCodes == {ToByte(28), ToByte(240)}
MCFrameNoise == 1..10
=============================================================================
