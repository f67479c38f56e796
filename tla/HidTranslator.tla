--------------------------- MODULE HidTranslator ---------------------------
(***************************************************************************)
(* ps2_hid_translator.c: the parser of scan codes, which blocks in         *)
(* ps2_connector_get_next_code between the bytes of a sequence, and the    *)
(* report it keeps.  The tables are parameters; HidKeys has the program's. *)
(***************************************************************************)
EXTENDS HidKeys

CONSTANTS NSlots,      \* keycode slots of a report, 6 in the code
          ScanTable,   \* ps2_scan_code_to_usb_hid_key
          ExtTable,    \* ps2_extended_code_to_hid_key
          PastTable,   \* values the byte behind the table may have
          ModifierCodes,  \* codes of the plain modifier keys
          ExtModifiers,   \* usages of the extended modifier keys
          SysRqKey, PauseKey,  \* KEY_SYSRQ and KEY_PAUSE
          Codes        \* codes the keyboard sends

EXTENDED_CODE == 224
BREAK_CODE == 240
PAUSE_CODE == 225

Key == 0..255

ASSUME TranslatorAssumption ==
  /\ NSlots \in Nat \ {0}
  /\ ScanTable \in [0..254 -> Key]
  /\ ExtTable \in [0..255 -> Key]
  /\ PastTable \subseteq Key
  /\ ModifierCodes \subseteq 0..254
  /\ ExtModifiers \subseteq Key
  /\ SysRqKey \in Key \ {KEY_UNKNOWN}
  /\ PauseKey \in Key \ {KEY_UNKNOWN}
  /\ Codes \subseteq 0..255

VARIABLES at,        \* which ps2_connector_get_next_code the parser is at
          i,         \* index in the sequence it is matching
          modifier,  \* bits set in key_report.modifier
          keycode,   \* key_report.keycode
          report     \* the report last handed to hog_set_keyboard_input

translatorVars == <<at, i, modifier, keycode, report>>

Slots == 0..(NSlots - 1)
Report == [modifier : SUBSET (0..7), keycode : [Slots -> Key]]

\* Sequences the parser matches byte by byte, indexed from 0 as in C.
At(seq, n) == seq[n + 1]
pause_break_code == <<225, 20, 119, 225, 240, 20, 240, 119>>
sys_req_make == <<224, 18, 224, 124>>
sys_req_break == <<224, 240, 124, 224, 240, 18>>

Matching == [pause |-> pause_break_code, make |-> sys_req_make, break |-> sys_req_break]

\* What the tables must not say: Pause has a sequence of its own, and E0 F0 7C
\* is always taken for the start of sys_req_break.
ASSUME TableAssumption ==
  /\ \A code \in 0..254 : ScanTable[code] # PauseKey
  /\ \A code \in 0..255 : ExtTable[code] # PauseKey
  /\ SysRqKey # PauseKey
  /\ ExtTable[At(sys_req_break, 2)] \in {KEY_UNKNOWN, SysRqKey}
  /\ 255 \in Codes => PastTable \subseteq {KEY_UNKNOWN}

TranslatorTypeOK ==
  /\ at \in {"top", "ext", "ext_brk", "brk", "pausing"} \cup DOMAIN Matching
  /\ i \in IF at \in DOMAIN Matching THEN 1..(Len(Matching[at]) - 1) ELSE {0}
  /\ modifier \subseteq 0..7
  /\ keycode \in [Slots -> Key]
  /\ report \in Report

TranslatorInit ==
  /\ at = "top"
  /\ i = 0
  /\ modifier = {}
  /\ keycode = [s \in Slots |-> KEY_UNKNOWN]
  /\ report = [modifier |-> {}, keycode |-> keycode]

-----------------------------------------------------------------------------
(***************************************************************************)
(* The report.                                                             *)
(***************************************************************************)
Bits(key) == {k \in 0..7 : (key \div 2^k) % 2 = 1}

hog_set_keyboard_input == report' = [modifier |-> modifier', keycode |-> keycode']

press_mod_key(key) ==
  /\ modifier' = modifier \cup Bits(key)
  /\ UNCHANGED keycode
  /\ hog_set_keyboard_input

\* Mutant: the mask is set again.
release_mod_key_sets(key) ==
  /\ modifier' = modifier \cup Bits(key)
  /\ UNCHANGED keycode
  /\ hog_set_keyboard_input

release_mod_key(key) ==
  /\ modifier' = modifier \ Bits(key)
  /\ UNCHANGED keycode
  /\ hog_set_keyboard_input

IsPressed(key) == \E s \in Slots : keycode[s] = key

\* The first slot that holds the key.
pos_at_pressed_keys(key, s) ==
  /\ keycode[s] = key
  /\ \A t \in Slots : t < s => keycode[t] # key

\* Mutant: no search for a free slot.
slot_for_key_last(s) == s = NSlots - 1

\* The last free slot, or the last one if there is none.
slot_for_key(s) ==
  \/ keycode[s] = 0 /\ \A t \in Slots : t > s => keycode[t] # 0
  \/ s = NSlots - 1 /\ \A t \in Slots : keycode[t] # 0

\* Mutant: a key that is pressed already is pressed again.
press_key_again(key) ==
  \/ /\ key = KEY_UNKNOWN
     /\ UNCHANGED <<modifier, keycode, report>>
  \/ /\ key # KEY_UNKNOWN
     /\ \E s \in Slots : slot_for_key(s) /\ keycode' = [keycode EXCEPT ![s] = key]
     /\ UNCHANGED modifier
     /\ hog_set_keyboard_input

press_key(key) ==
  \/ /\ key = KEY_UNKNOWN \/ IsPressed(key)
     /\ UNCHANGED <<modifier, keycode, report>>
  \/ /\ key # KEY_UNKNOWN /\ ~IsPressed(key)
     /\ \E s \in Slots : slot_for_key(s) /\ keycode' = [keycode EXCEPT ![s] = key]
     /\ UNCHANGED modifier
     /\ hog_set_keyboard_input

\* Mutants: the host is not told; position 0 is taken for "not found".
release_key_silently(key) ==
  \/ /\ key = KEY_UNKNOWN \/ ~IsPressed(key)
     /\ UNCHANGED <<modifier, keycode, report>>
  \/ /\ key # KEY_UNKNOWN
     /\ \E s \in Slots : pos_at_pressed_keys(key, s) /\ keycode' = [keycode EXCEPT ![s] = 0]
     /\ UNCHANGED <<modifier, report>>

release_key_but_first(key) ==
  \/ /\ key = KEY_UNKNOWN \/ ~IsPressed(key) \/ keycode[0] = key
     /\ UNCHANGED <<modifier, keycode, report>>
  \/ /\ key # KEY_UNKNOWN /\ keycode[0] # key
     /\ \E s \in Slots : pos_at_pressed_keys(key, s) /\ keycode' = [keycode EXCEPT ![s] = 0]
     /\ UNCHANGED modifier
     /\ hog_set_keyboard_input

release_key(key) ==
  \/ /\ key = KEY_UNKNOWN \/ ~IsPressed(key)
     /\ UNCHANGED <<modifier, keycode, report>>
  \/ /\ key # KEY_UNKNOWN
     /\ \E s \in Slots : pos_at_pressed_keys(key, s) /\ keycode' = [keycode EXCEPT ![s] = 0]
     /\ UNCHANGED modifier
     /\ hog_set_keyboard_input

-----------------------------------------------------------------------------
(***************************************************************************)
(* ps2_hid_translator_parse_next_scancode, one action for each of its      *)
(* calls of ps2_connector_get_next_code, which returns the code.           *)
(***************************************************************************)
Goto(place) == at' = place /\ i' = 0
Match(sequence, n) == at' = sequence /\ i' = n
NoReport == UNCHANGED <<modifier, keycode, report>>

\* What ps2_scan_code_to_usb_hid_key[code] may read: 0xFF is past its end.
Looked(code) == IF code = 255 THEN PastTable ELSE {ScanTable[code]}

parse_top(code) ==
  /\ at = "top"
  /\ \/ code \in ModifierCodes /\ press_mod_key(ScanTable[code]) /\ Goto("top")
     \/ code = EXTENDED_CODE /\ NoReport /\ Goto("ext")
     \/ code = BREAK_CODE /\ NoReport /\ Goto("brk")
     \/ code = PAUSE_CODE /\ NoReport /\ Match("pause", 1)
     \/ /\ code \notin ModifierCodes \cup {EXTENDED_CODE, BREAK_CODE, PAUSE_CODE}
        /\ \E key \in Looked(code) : press_key(key)
        /\ Goto("top")

\* Mutant: the extended modifiers are pressed like keys.
parse_extended_as_keys(code) ==
  /\ at = "ext"
  /\ \/ code = BREAK_CODE /\ NoReport /\ Goto("ext_brk")
     \/ code = At(sys_req_make, 1) /\ NoReport /\ Match("make", 2)
     \/ /\ code \notin {BREAK_CODE, At(sys_req_make, 1)}
        /\ press_key(ExtTable[code])
        /\ Goto("top")

parse_extended(code) ==
  /\ at = "ext"
  /\ \/ code = BREAK_CODE /\ NoReport /\ Goto("ext_brk")
     \/ code = At(sys_req_make, 1) /\ NoReport /\ Match("make", 2)
     \/ /\ code \notin {BREAK_CODE, At(sys_req_make, 1)}
        /\ IF ExtTable[code] \in ExtModifiers THEN press_mod_key(ExtTable[code])
                                            ELSE press_key(ExtTable[code])
        /\ Goto("top")

parse_extended_break(code) ==
  /\ at = "ext_brk"
  /\ \/ code = At(sys_req_break, 2) /\ NoReport /\ Match("break", 3)
     \/ /\ code # At(sys_req_break, 2)
        /\ IF ExtTable[code] \in ExtModifiers THEN release_mod_key(ExtTable[code])
                                            ELSE release_key(ExtTable[code])
        /\ Goto("top")

parse_break(code) ==
  /\ at = "brk"
  /\ \/ code \in ModifierCodes /\ release_mod_key(ScanTable[code])
     \/ code \notin ModifierCodes /\ \E key \in Looked(code) : release_key(key)
  /\ Goto("top")

\* Mutants: one byte more is read than the sequence has; a byte that does not
\* match starts the sequence over again.
parse_sequence_too_long(code) ==
  /\ at \in DOMAIN Matching
  /\ \/ /\ code # At(Matching[at], i)
        /\ NoReport /\ Goto("top")
     \/ /\ code = At(Matching[at], i)
        /\ NoReport /\ Match(at, i + 1)

parse_sequence_restarts(code) ==
  /\ at \in DOMAIN Matching
  /\ \/ /\ code # At(Matching[at], i)
        /\ NoReport /\ Match(at, 1)
     \/ /\ code = At(Matching[at], i) /\ i + 1 < Len(Matching[at])
        /\ NoReport /\ Match(at, i + 1)
     \/ /\ code = At(Matching[at], i) /\ i + 1 = Len(Matching[at])
        /\ NoReport /\ Goto("top")

\* A byte that does not match ends the sequence and is dropped with it.
parse_sequence(code) ==
  /\ at \in DOMAIN Matching
  /\ \/ /\ code # At(Matching[at], i)
        /\ NoReport /\ Goto("top")
     \/ /\ code = At(Matching[at], i) /\ i + 1 < Len(Matching[at])
        /\ NoReport /\ Match(at, i + 1)
     \/ /\ code = At(Matching[at], i) /\ i + 1 = Len(Matching[at])
        /\ \/ at = "make" /\ press_key(SysRqKey) /\ Goto("top")
           \/ at = "break" /\ release_key(SysRqKey) /\ Goto("top")
           \/ at = "pause" /\ press_key(PauseKey) /\ Goto("pausing")

\* Mutants: the key is not released after the sleep; the sleep begins anew.
pause_break_stays ==
  /\ at = "pausing"
  /\ NoReport
  /\ Goto("top")

pause_break_sleeps_on ==
  /\ at = "pausing"
  /\ NoReport
  /\ Goto("pausing")

\* press_pause_break releases the key after a sleep of 10 ms.
press_pause_break_ends ==
  /\ at = "pausing"
  /\ release_key(PauseKey)
  /\ Goto("top")

parse_code(code) ==
  \/ parse_top(code) \/ parse_extended(code) \/ parse_extended_break(code)
  \/ parse_break(code) \/ parse_sequence(code)

-----------------------------------------------------------------------------
(***************************************************************************)
(* The translator on its own, fed any codes.                               *)
(***************************************************************************)
TranslatorNext == (\E code \in Codes : parse_code(code)) \/ press_pause_break_ends

TranslatorSpec == TranslatorInit /\ [][TranslatorNext]_translatorVars

-----------------------------------------------------------------------------
\* No key is in two slots of the report: release_key clears one slot only, so
\* a second one would stay pressed for ever.  Holds for any sequence of codes
\* and any contents of the tables.
NoKeyTwice ==
  \A s, t \in Slots : keycode[s] = keycode[t] /\ keycode[s] # 0 => s = t

\* What the translator last handed to hog_set_keyboard_input is the report it
\* keeps: no path of the parser, and no sequence that breaks off, changes
\* key_report without handing it on.
HostIsUpToDate == report = [modifier |-> modifier, keycode |-> keycode]

\* The pause key is in the report only during press_pause_break's sleep,
\* though six other keys may be held or a sequence may break off.
PauseIsMomentary == IsPressed(PauseKey) => at = "pausing"

\* Each key the report holds can be taken out again by a code the parser
\* understands: whatever put it there, a break sequence of the keyboard names
\* the same key.
EveryKeyHasABreak ==
  \A s \in Slots :
    \/ keycode[s] \in {0, SysRqKey, PauseKey}
    \/ \E code \in 0..254 \ ModifierCodes : ScanTable[code] = keycode[s]
    \/ \E code \in 0..255 \ {At(sys_req_break, 2)} :
         ExtTable[code] = keycode[s] /\ keycode[s] \notin ExtModifiers

\* Whatever the codes, a sequence that broke off does not swallow the keyboard
\* for ever: the parser returns to its first call again and again.
ParserReturns == []<>(at = "top")
=============================================================================
