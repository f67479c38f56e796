------------------------------ MODULE HidKeys ------------------------------
(***************************************************************************)
(* Key codes: the usages of usb_hid_keys.h that the translator names, the  *)
(* scan-code table of keys_by_ps2_scancode.h and the switch of             *)
(* ps2_extended_code_to_hid_key, with the numbers the macros stand for.    *)
(***************************************************************************)
EXTENDS Integers, Sequences

KEY_UNKNOWN == 0
KEY_ENTER == 40
KEY_SYSRQ == 70
KEY_PAUSE == 72
KEY_LEFTMETA == 227
KEY_RIGHTCTRL == 228
KEY_RIGHTALT == 230
KEY_RIGHTMETA == 231

\* LOGICAL_MAXIMUM of the key array in hog.c's report_map.
LogicalMaximum == 167

\* Codes 0x11, 0x12, 0x14, 0x59 (LALT, LSHIFT, LCTRL, RSHIFT), which the
\* translator treats as modifiers, and the extended keys it treats so.
ModCodes == {17, 18, 20, 89}
ExtModKeys == {KEY_RIGHTALT, KEY_RIGHTCTRL, KEY_LEFTMETA, KEY_RIGHTMETA}

\* Rows 0x00 to 0x80 of the scan-code table, sixteen entries each, by the index
\* that each initialiser names.
scan_code_rows == <<
  0, 66, 0, 62, 60, 58, 59, 69, 0, 67, 65, 63, 61, 43, 53, 0,
  0, 4, 2, 0, 1, 20, 30, 0, 0, 0, 29, 22, 4, 26, 31, 0,
  0, 6, 27, 7, 8, 33, 32, 0, 0, 44, 25, 9, 23, 21, 34, 0,
  0, 17, 5, 11, 10, 28, 35, 0, 0, 0, 16, 13, 24, 36, 37, 0,
  0, 54, 14, 12, 18, 39, 38, 0, 0, 55, 56, 15, 51, 19, 45, 0,
  0, 0, 52, 0, 47, 46, 0, 0, 57, 32, 40, 48, 0, 49, 0, 0,
  0, 0, 0, 0, 0, 0, 42, 0, 0, 89, 0, 92, 95, 0, 0, 0,
  98, 99, 90, 93, 94, 96, 41, 83, 68, 87, 91, 86, 85, 97, 71, 0,
  0, 0, 0, 64, 0, 0, 0, 0, 0, 0, 0, 0, 0, 0, 0, 0 >>

\* Mutant: the entry for code 0 is missing.
scan_codes_shifted ==
  [code \in 0..254 |-> IF code + 1 < Len(scan_code_rows) THEN scan_code_rows[code + 2]
                                                         ELSE KEY_UNKNOWN]

\* The table ends at index 0xFE.
ps2_scan_code_to_usb_hid_key ==
  [code \in 0..254 |-> IF code < Len(scan_code_rows) THEN scan_code_rows[code + 1]
                                                     ELSE KEY_UNKNOWN]

ps2_extended_code_to_hid_key ==
  [code \in 0..255 |->
     CASE code = 31 -> KEY_LEFTMETA   [] code = 17 -> KEY_RIGHTALT
       [] code = 39 -> KEY_RIGHTMETA  [] code = 47 -> 118
       [] code = 20 -> KEY_RIGHTCTRL  [] code = 112 -> 73
       [] code = 108 -> 74            [] code = 125 -> 75
       [] code = 113 -> 76            [] code = 105 -> 77
       [] code = 122 -> 78            [] code = 117 -> 82
       [] code = 107 -> 80            [] code = 114 -> 81
       [] code = 116 -> 79            [] code = 74 -> 84
       [] code = 90 -> KEY_ENTER      [] OTHER -> KEY_UNKNOWN]
=============================================================================
