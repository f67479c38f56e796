-------------------------- MODULE MCHidTranslator --------------------------
(***************************************************************************)
(* HidTranslator with the program's tables for TLC.  The codes: prefixes,  *)
(* the bytes of the matched sequences (0x12 and 0x14 are also modifiers),  *)
(* A, and the Left arrow's code, which is keypad 4 without the prefix.     *)
(* The tables are looked at byte by byte before the first code comes.      *)
(***************************************************************************)
EXTENDS HidTranslator, ByteTables

MCCodes == {224, 240, 225, 18, 20, 119, 124, 28, 107}
MCPastTable == {0}

Init == TranslatorInit /\ FirstByte
Next ==
  \/ NextByte /\ UNCHANGED translatorVars
  \/ x = 255 /\ TranslatorNext /\ UNCHANGED x

\* Codes keep coming, and the sleep ends.
FairSpec == Init /\ [][Next]_<<x, translatorVars>> /\ WF_<<x, translatorVars>>(Next)
=============================================================================
