-------------------------- MODULE KeyStreamProofs --------------------------
(***************************************************************************)
(* What the codes on their way from the keyboard to the translator say.    *)
(* The keyboard's sequences are phrases, each of which the parser of       *)
(* HidTranslator reads to one change of the report, and the codes on the   *)
(* wire, in the queue and handed to the reader are phrases one after the   *)
(* other, the first of them perhaps half read.                             *)
(***************************************************************************)
EXTENDS KeyPathProofs

FAKE_SHIFT == At(sys_req_make, 1)
SYS_REQ == At(sys_req_make, 3)
Prefixes == {EXTENDED_CODE, BREAK_CODE, PAUSE_CODE}

\* A phrase is a run of codes that the parser reads to one change of the report.
OneCode(codes, op, arg) ==
  \E c \in 0..254 \ Prefixes :
    /\ codes = <<c>> /\ arg = ScanTable[c]
    /\ op = IF c \in ModifierCodes THEN "on" ELSE "press"

Broken(codes, op, arg) ==
  \E c \in 0..254 \ Prefixes :
    /\ codes = <<BREAK_CODE, c>> /\ arg = ScanTable[c]
    /\ op = IF c \in ModifierCodes THEN "off" ELSE "release"

Extended(codes, op, arg) ==
  \E c \in 0..255 \ {BREAK_CODE, FAKE_SHIFT} :
    /\ codes = <<EXTENDED_CODE, c>> /\ arg = ExtTable[c]
    /\ op = IF ExtTable[c] \in ExtModifiers THEN "on" ELSE "press"

ExtendedBroken(codes, op, arg) ==
  \E c \in 0..255 \ {SYS_REQ} :
    /\ codes = <<EXTENDED_CODE, BREAK_CODE, c>> /\ arg = ExtTable[c]
    /\ op = IF ExtTable[c] \in ExtModifiers THEN "off" ELSE "release"

Dropped(codes, op, arg) ==
  \E c \in 0..255 \ {SYS_REQ} :
    codes = <<EXTENDED_CODE, FAKE_SHIFT, EXTENDED_CODE, c>> /\ arg = KEY_UNKNOWN /\ op = "press"

SysReqMake(codes, op, arg) == codes = sys_req_make /\ op = "press" /\ arg = SysRqKey
SysReqBreak(codes, op, arg) == codes = sys_req_break /\ op = "release" /\ arg = SysRqKey
PauseMake(codes, op, arg) == codes = pause_break_code /\ op = "pause" /\ arg = PauseKey

Phrase(codes, op, arg) ==
  \/ OneCode(codes, op, arg) \/ Broken(codes, op, arg)
  \/ Extended(codes, op, arg) \/ ExtendedBroken(codes, op, arg) \/ Dropped(codes, op, arg)
  \/ SysReqMake(codes, op, arg) \/ SysReqBreak(codes, op, arg) \/ PauseMake(codes, op, arg)

\* Where the parser is before the code at the position of a phrase.
Reading(codes, pos, place, n) ==
  \/ pos = 1 /\ place \in {"top", "pausing"}
  \/ pos = 2 /\ codes[1] = EXTENDED_CODE /\ place = "ext"
  \/ pos = 2 /\ codes[1] = BREAK_CODE /\ place = "brk"
  \/ pos > 1 /\ codes[1] = PAUSE_CODE /\ place = "pause" /\ n = pos - 1
  \/ pos = 3 /\ codes[1] = EXTENDED_CODE /\ codes[2] = BREAK_CODE /\ place = "ext_brk"
  \/ pos > 3 /\ codes[1] = EXTENDED_CODE /\ codes[2] = BREAK_CODE /\ place = "break" /\ n = pos - 1
  \/ pos > 2 /\ codes[1] = EXTENDED_CODE /\ codes[2] = FAKE_SHIFT /\ place = "make" /\ n = pos - 1

\* The change of the report.
Does(op, arg) ==
  \/ op = "press" /\ press_key(arg) /\ at' = "top"
  \/ op = "release" /\ release_key(arg) /\ at' = "top"
  \/ op = "on" /\ press_mod_key(arg) /\ at' = "top"
  \/ op = "off" /\ release_mod_key(arg) /\ at' = "top"
  \/ op = "pause" /\ press_key(arg) /\ at' = "pausing"

\* The values of the codes the parser looks for.
LEMMA CodeFacts ==
  /\ FAKE_SHIFT = 18 /\ SYS_REQ = 124 /\ Prefixes = {224, 240, 225}
  /\ EXTENDED_CODE = 224 /\ BREAK_CODE = 240 /\ PAUSE_CODE = 225
  /\ At(sys_req_break, 2) = 124
BY DEF FAKE_SHIFT, SYS_REQ, At, sys_req_make, sys_req_break, Prefixes, EXTENDED_CODE, BREAK_CODE, PAUSE_CODE

\* A phrase is one to eight bytes, and names a usage of the tables.
LEMMA PhraseTypes ==
  ASSUME NEW codes, NEW op, NEW arg, Phrase(codes, op, arg)
  PROVE  codes \in Seq(0..255) /\ Len(codes) \in 1..8 /\ arg \in Key
<1>1. /\ \A c \in 0..254 : ScanTable[c] \in Key
      /\ \A c \in 0..255 : ExtTable[c] \in Key
      /\ SysRqKey \in Key /\ PauseKey \in Key /\ KEY_UNKNOWN \in Key
  <2>1. KEY_UNKNOWN \in Key
    BY DEF Key, KEY_UNKNOWN
  <2>2. QED
    BY <2>1, TranslatorAssumption, Zenon
<1>2. CASE OneCode(codes, op, arg)
  BY <1>1, <1>2 DEF OneCode
<1>3. CASE Broken(codes, op, arg)
  BY <1>1, <1>3, CodeFacts DEF Broken
<1>4. CASE Extended(codes, op, arg)
  BY <1>1, <1>4, CodeFacts DEF Extended
<1>5. CASE ExtendedBroken(codes, op, arg)
  BY <1>1, <1>5, CodeFacts DEF ExtendedBroken
<1>6. CASE Dropped(codes, op, arg)
  BY <1>1, <1>6, CodeFacts DEF Dropped
<1>7. CASE SysReqMake(codes, op, arg)
  BY <1>1, <1>7 DEF SysReqMake, sys_req_make
<1>8. CASE SysReqBreak(codes, op, arg)
  BY <1>1, <1>8 DEF SysReqBreak, sys_req_break
<1>9. CASE PauseMake(codes, op, arg)
  BY <1>1, <1>9 DEF PauseMake, pause_break_code
<1>10. QED
  BY <1>2, <1>3, <1>4, <1>5, <1>6, <1>7, <1>8, <1>9, Zenon DEF Phrase

\* A phrase has a code.
LEMMA PhraseNotEmpty ==
  ASSUME NEW codes, NEW op, NEW arg, Phrase(codes, op, arg)
  PROVE  codes # <<>>
<1>1. Len(codes) \in 1..8
  BY PhraseTypes
<1>2. Len(<<>>) \notin 1..8
  OBVIOUS
<1>3. QED
  BY <1>1, <1>2, Zenon

\* Each code of a phrase but the last takes the parser on, the last one changes
\* the report.
Reads(codes, pos, op, arg) ==
  IF pos < Len(codes)
  THEN NoReport /\ at' # "pausing" /\ Reading(codes, pos + 1, at', i')
  ELSE Does(op, arg)

\* parse_code runs the function the parser is waiting in.
LEMMA ParsesAt ==
  ASSUME NEW code, parse_code(code)
  PROVE  /\ at = "top" => parse_top(code)
         /\ at = "ext" => parse_extended(code)
         /\ at = "ext_brk" => parse_extended_break(code)
         /\ at = "brk" => parse_break(code)
         /\ at \in {"make", "break", "pause"} => parse_sequence(code)
BY MatchingFacts
DEF parse_code, parse_top, parse_extended, parse_extended_break, parse_break, parse_sequence

\* parse_top reads a code of the table.
LEMMA ReadsOneCode ==
  ASSUME NEW codes, NEW op, NEW arg, OneCode(codes, op, arg), NEW pos \in 1..Len(codes),
         Reading(codes, pos, at, i), at # "pausing", parse_code(codes[pos])
  PROVE  Reads(codes, pos, op, arg)
<1>1. PICK c \in 0..254 \ Prefixes :
        /\ codes = <<c>> /\ arg = ScanTable[c]
        /\ op = IF c \in ModifierCodes THEN "on" ELSE "press"
  BY DEF OneCode
<1>2. Len(codes) = 1 /\ pos = 1 /\ codes[pos] = c /\ c # 255
  BY <1>1
<1>3. at = "top"
  BY <1>2 DEF Reading
<1>4. parse_top(c)
  BY <1>2, <1>3, ParsesAt
<1>5. Does(op, arg)
  BY <1>1, <1>2, <1>4 DEF parse_top, Does, Goto, Looked, Prefixes
<1>6. QED
  BY <1>2, <1>5 DEF Reads

\* parse_top, then parse_break, read F0 and a code of the table.
LEMMA ReadsBroken ==
  ASSUME NEW codes, NEW op, NEW arg, Broken(codes, op, arg), NEW pos \in 1..Len(codes),
         Reading(codes, pos, at, i), at # "pausing", parse_code(codes[pos])
  PROVE  Reads(codes, pos, op, arg)
<1>1. PICK c \in 0..254 \ Prefixes :
        /\ codes = <<BREAK_CODE, c>> /\ arg = ScanTable[c]
        /\ op = IF c \in ModifierCodes THEN "off" ELSE "release"
  BY DEF Broken
<1>2. Len(codes) = 2 /\ codes[1] = BREAK_CODE /\ codes[2] = c /\ c # 255
  BY <1>1
<1>3. CASE pos = 1
  <2>1. at = "top"
    BY <1>3 DEF Reading
  <2>2. parse_top(BREAK_CODE)
    BY <1>2, <1>3, <2>1, ParsesAt
  <2>3. NoReport /\ at' = "brk"
    BY <2>2, CodeFacts, KeyboardAssumption DEF parse_top, Goto
  <2>4. QED
    BY <1>2, <1>3, <2>3 DEF Reads, Reading
<1>4. CASE pos = 2
  <2>1. at = "brk"
    BY <1>2, <1>4, CodeFacts DEF Reading
  <2>2. parse_break(c)
    BY <1>2, <1>4, <2>1, ParsesAt
  <2>3. Does(op, arg)
    BY <1>1, <1>2, <2>2 DEF parse_break, Does, Goto, Looked
  <2>4. QED
    BY <1>2, <1>4, <2>3 DEF Reads
<1>5. QED
  BY <1>2, <1>3, <1>4

\* All other phrases begin with a prefix and are told apart by the second code.
LEMMA ReadsExtendedCode ==
  ASSUME NEW codes, NEW op, NEW arg, codes[1] = EXTENDED_CODE, 1 < Len(codes),
         Reading(codes, 1, at, i), at # "pausing", parse_code(codes[1])
  PROVE  Reads(codes, 1, op, arg)
<1>1. at = "top"
  BY DEF Reading
<1>2. parse_top(EXTENDED_CODE)
  BY <1>1, ParsesAt
<1>3. NoReport /\ at' = "ext"
  BY <1>2, CodeFacts, KeyboardAssumption DEF parse_top, Goto
<1>4. QED
  BY <1>3 DEF Reads, Reading

\* parse_top, then parse_extended, read E0 and a code of the extended table.
LEMMA ReadsExtended ==
  ASSUME NEW codes, NEW op, NEW arg, Extended(codes, op, arg), NEW pos \in 1..Len(codes),
         Reading(codes, pos, at, i), at # "pausing", parse_code(codes[pos])
  PROVE  Reads(codes, pos, op, arg)
<1>1. PICK c \in 0..255 \ {BREAK_CODE, FAKE_SHIFT} :
        /\ codes = <<EXTENDED_CODE, c>> /\ arg = ExtTable[c]
        /\ op = IF ExtTable[c] \in ExtModifiers THEN "on" ELSE "press"
  BY DEF Extended
<1>2. Len(codes) = 2 /\ codes[1] = EXTENDED_CODE /\ codes[2] = c
  BY <1>1
<1>3. CASE pos = 1
  BY <1>2, <1>3, ReadsExtendedCode
<1>4. CASE pos = 2
  <2>1. at = "ext"
    BY <1>2, <1>4, CodeFacts DEF Reading
  <2>2. parse_extended(c)
    BY <1>2, <1>4, <2>1, ParsesAt
  <2>3. Does(op, arg)
    BY <1>1, <2>2 DEF parse_extended, Does, Goto, FAKE_SHIFT
  <2>4. QED
    BY <1>2, <1>4, <2>3 DEF Reads
<1>5. QED
  BY <1>2, <1>3, <1>4

\* After E0, F0 takes parse_extended to parse_extended_break.
LEMMA ReadsExtendedBreak ==
  ASSUME NEW codes, NEW op, NEW arg, codes[1] = EXTENDED_CODE, codes[2] = BREAK_CODE,
         2 < Len(codes), Reading(codes, 2, at, i), parse_code(codes[2])
  PROVE  Reads(codes, 2, op, arg)
<1>1. at = "ext"
  BY CodeFacts DEF Reading
<1>2. parse_extended(BREAK_CODE)
  BY <1>1, ParsesAt
<1>3. NoReport /\ at' = "ext_brk"
  BY <1>2, CodeFacts DEF parse_extended, Goto, FAKE_SHIFT
<1>4. QED
  BY <1>3 DEF Reads, Reading

\* parse_extended_break reads the code after E0 F0.
LEMMA ReadsExtendedBroken ==
  ASSUME NEW codes, NEW op, NEW arg, ExtendedBroken(codes, op, arg), NEW pos \in 1..Len(codes),
         Reading(codes, pos, at, i), at # "pausing", parse_code(codes[pos])
  PROVE  Reads(codes, pos, op, arg)
<1>1. PICK c \in 0..255 \ {SYS_REQ} :
        /\ codes = <<EXTENDED_CODE, BREAK_CODE, c>> /\ arg = ExtTable[c]
        /\ op = IF ExtTable[c] \in ExtModifiers THEN "off" ELSE "release"
  BY DEF ExtendedBroken
<1>2. Len(codes) = 3 /\ codes[1] = EXTENDED_CODE /\ codes[2] = BREAK_CODE /\ codes[3] = c
  BY <1>1
<1>3. CASE pos = 1
  BY <1>2, <1>3, ReadsExtendedCode
<1>4. CASE pos = 2
  BY <1>2, <1>4, ReadsExtendedBreak
<1>5. CASE pos = 3
  <2>1. at = "ext_brk"
    BY <1>2, <1>5, CodeFacts DEF Reading
  <2>2. parse_extended_break(c) /\ c # At(sys_req_break, 2)
    BY <1>1, <1>2, <1>5, <2>1, CodeFacts, ParsesAt
  <2>3. Does(op, arg)
    BY <1>1, <2>2 DEF parse_extended_break, Does, Goto
  <2>4. QED
    BY <1>2, <1>5, <2>3 DEF Reads
<1>6. QED
  BY <1>2, <1>3, <1>4, <1>5

\* After E0, 12 takes parse_extended into the loop of parse_sequence.
LEMMA ReadsFakeShift ==
  ASSUME NEW codes, NEW op, NEW arg, codes[1] = EXTENDED_CODE, codes[2] = FAKE_SHIFT,
         2 < Len(codes), Reading(codes, 2, at, i), parse_code(codes[2])
  PROVE  Reads(codes, 2, op, arg)
<1>1. at = "ext"
  BY CodeFacts DEF Reading
<1>2. parse_extended(FAKE_SHIFT)
  BY <1>1, ParsesAt
<1>3. NoReport /\ at' = "make" /\ i' = 2
  BY <1>2, CodeFacts DEF parse_extended, Match, FAKE_SHIFT
<1>4. QED
  BY <1>3 DEF Reads, Reading

\* The sequence each of the loops compares with.
LEMMA MatchingAt ==
  /\ at = "make" => Matching[at] = sys_req_make
  /\ at = "break" => Matching[at] = sys_req_break
  /\ at = "pause" => Matching[at] = pause_break_code
BY DEF Matching

\* In the loop of parse_sequence.
LEMMA ReadsOn ==
  ASSUME NEW codes, NEW pos \in Nat, at \in {"make", "break", "pause"}, i = pos - 1,
         pos < Len(Matching[at]), codes[pos] = Matching[at][pos], parse_code(codes[pos])
  PROVE  NoReport /\ at' = at /\ i' = pos
<1>1. parse_sequence(codes[pos]) /\ At(Matching[at], i) = codes[pos] /\ i + 1 = pos
  BY ParsesAt DEF At
<1>2. QED
  BY <1>1, MatchingFacts DEF parse_sequence, Match

\* A key in a fake shift ends the loop early: parse_sequence gives KEY_UNKNOWN.
LEMMA ReadsDropped ==
  ASSUME NEW codes, NEW op, NEW arg, Dropped(codes, op, arg), NEW pos \in 1..Len(codes),
         Reading(codes, pos, at, i), at # "pausing", parse_code(codes[pos])
  PROVE  Reads(codes, pos, op, arg)
<1>1. PICK c \in 0..255 \ {SYS_REQ} :
        codes = <<EXTENDED_CODE, FAKE_SHIFT, EXTENDED_CODE, c>> /\ arg = KEY_UNKNOWN /\ op = "press"
  BY DEF Dropped
<1>2. /\ Len(codes) = 4 /\ codes[1] = EXTENDED_CODE /\ codes[2] = FAKE_SHIFT
      /\ codes[3] = EXTENDED_CODE /\ codes[4] = c
  BY <1>1
<1>3. CASE pos = 1
  BY <1>2, <1>3, ReadsExtendedCode
<1>4. CASE pos = 2
  BY <1>2, <1>4, ReadsFakeShift
<1>5. CASE pos > 2
  <2>1. at = "make" /\ i = pos - 1
    BY <1>2, <1>5, CodeFacts DEF Reading
  <2>2. Matching["make"][3] = EXTENDED_CODE /\ Len(Matching["make"]) = 4
    BY DEF Matching, sys_req_make, EXTENDED_CODE
  <2>3. CASE pos = 3
    <3>1. NoReport /\ at' = "make" /\ i' = 3
      BY <1>2, <2>1, <2>2, <2>3, ReadsOn
    <3>2. QED
      BY <1>2, <2>3, <3>1 DEF Reads, Reading
  <2>4. CASE pos = 4
    <3>1. parse_sequence(c) /\ c # At(Matching[at], i)
      BY <1>1, <1>2, <2>1, <2>4, ParsesAt DEF SYS_REQ, Matching
    <3>2. NoReport /\ at' = "top"
      BY <3>1 DEF parse_sequence, Goto
    <3>3. QED
      BY <1>1, <1>2, <2>4, <3>2 DEF Reads, Does, press_key, NoReport
  <2>5. QED
    BY <1>2, <1>5, <2>3, <2>4
<1>6. QED
  BY <1>2, <1>3, <1>4, <1>5

\* The loop of parse_sequence reads Print Screen's make sequence to its end.
LEMMA ReadsSysReqMake ==
  ASSUME NEW codes, NEW op, NEW arg, SysReqMake(codes, op, arg), NEW pos \in 1..Len(codes),
         Reading(codes, pos, at, i), at # "pausing", parse_code(codes[pos])
  PROVE  Reads(codes, pos, op, arg)
<1>1. /\ codes = sys_req_make /\ Len(codes) = 4 /\ op = "press" /\ arg = SysRqKey
      /\ codes[1] = EXTENDED_CODE /\ codes[2] = FAKE_SHIFT
  BY CodeFacts DEF SysReqMake, sys_req_make
<1>2. CASE pos = 1
  BY <1>1, <1>2, ReadsExtendedCode
<1>3. CASE pos = 2
  BY <1>1, <1>3, ReadsFakeShift
<1>4. CASE pos > 2
  <2>1. at = "make" /\ i = pos - 1
    BY <1>1, <1>4, CodeFacts DEF Reading
  <2>2. CASE pos < 4
    <3>1. codes = Matching[at]
      BY <1>1, <2>1, MatchingAt, Zenon
    <3>2. pos \in Nat
      BY <1>1
    <3>3. codes[pos] = Matching[at][pos] /\ pos < Len(Matching[at])
      BY <1>1, <2>2, <3>1, Zenon
    <3>4. NoReport /\ at' = "make" /\ i' = pos
      BY <2>1, <3>2, <3>3, ReadsOn
    <3>5. QED
      BY <1>1, <1>4, <2>2, <3>4 DEF Reads, Reading
  <2>3. CASE pos = 4
    <3>1. parse_sequence(codes[4]) /\ codes[4] = At(Matching[at], i) /\ i + 1 = Len(Matching[at])
      BY <1>1, <2>1, <2>3, ParsesAt, MatchingAt DEF At
    <3>2. press_key(SysRqKey) /\ at' = "top"
      BY <2>1, <3>1 DEF parse_sequence, Goto
    <3>3. QED
      BY <1>1, <2>3, <3>2 DEF Reads, Does
  <2>4. QED
    BY <1>1, <2>2, <2>3
<1>5. QED
  BY <1>1, <1>2, <1>3, <1>4

\* ... and its break sequence.
LEMMA ReadsSysReqBreak ==
  ASSUME NEW codes, NEW op, NEW arg, SysReqBreak(codes, op, arg), NEW pos \in 1..Len(codes),
         Reading(codes, pos, at, i), at # "pausing", parse_code(codes[pos])
  PROVE  Reads(codes, pos, op, arg)
<1>1. /\ codes = sys_req_break /\ Len(codes) = 6 /\ op = "release" /\ arg = SysRqKey
      /\ codes[1] = EXTENDED_CODE /\ codes[2] = BREAK_CODE /\ codes[3] = At(sys_req_break, 2)
  BY CodeFacts DEF SysReqBreak, sys_req_break, At
<1>2. CASE pos = 1
  BY <1>1, <1>2, ReadsExtendedCode
<1>3. CASE pos = 2
  BY <1>1, <1>3, ReadsExtendedBreak
<1>4. CASE pos = 3
  <2>1. at = "ext_brk"
    BY <1>1, <1>4, CodeFacts DEF Reading
  <2>2. parse_extended_break(At(sys_req_break, 2))
    BY <1>1, <1>4, <2>1, ParsesAt
  <2>3. NoReport /\ at' = "break" /\ i' = 3
    BY <2>2 DEF parse_extended_break, Match
  <2>4. QED
    BY <1>1, <1>4, <2>3 DEF Reads, Reading
<1>5. CASE pos > 3
  <2>1. at = "break" /\ i = pos - 1
    BY <1>1, <1>5, CodeFacts DEF Reading
  <2>2. CASE pos < 6
    <3>1. codes = Matching[at]
      BY <1>1, <2>1, MatchingAt, Zenon
    <3>2. pos \in Nat
      BY <1>1
    <3>3. codes[pos] = Matching[at][pos] /\ pos < Len(Matching[at])
      BY <1>1, <2>2, <3>1, Zenon
    <3>4. NoReport /\ at' = "break" /\ i' = pos
      BY <2>1, <3>2, <3>3, ReadsOn
    <3>5. QED
      BY <1>1, <1>5, <2>2, <3>4 DEF Reads, Reading
  <2>3. CASE pos = 6
    <3>1. parse_sequence(codes[6]) /\ codes[6] = At(Matching[at], i) /\ i + 1 = Len(Matching[at])
      BY <1>1, <2>1, <2>3, ParsesAt, MatchingAt DEF At
    <3>2. release_key(SysRqKey) /\ at' = "top"
      BY <2>1, <3>1 DEF parse_sequence, Goto
    <3>3. QED
      BY <1>1, <2>3, <3>2 DEF Reads, Does
  <2>4. QED
    BY <1>1, <2>2, <2>3
<1>6. QED
  BY <1>1, <1>2, <1>3, <1>4, <1>5

\* ... and Pause/Break's.
LEMMA ReadsPause ==
  ASSUME NEW codes, NEW op, NEW arg, PauseMake(codes, op, arg), NEW pos \in 1..Len(codes),
         Reading(codes, pos, at, i), at # "pausing", parse_code(codes[pos])
  PROVE  Reads(codes, pos, op, arg)
<1>1. /\ codes = pause_break_code /\ Len(codes) = 8 /\ op = "pause" /\ arg = PauseKey
      /\ codes[1] = PAUSE_CODE
  BY CodeFacts DEF PauseMake, pause_break_code
<1>2. CASE pos = 1
  <2>1. at = "top"
    BY <1>2 DEF Reading
  <2>2. parse_top(PAUSE_CODE)
    BY <1>1, <1>2, <2>1, ParsesAt
  <2>3. NoReport /\ at' = "pause" /\ i' = 1
    BY <2>2, CodeFacts, KeyboardAssumption DEF parse_top, Match
  <2>4. QED
    BY <1>1, <1>2, <2>3 DEF Reads, Reading
<1>3. CASE pos > 1
  <2>1. at = "pause" /\ i = pos - 1
    BY <1>1, <1>3, CodeFacts DEF Reading
  <2>2. CASE pos < 8
    <3>1. codes = Matching[at]
      BY <1>1, <2>1, MatchingAt, Zenon
    <3>2. pos \in Nat
      BY <1>1
    <3>3. codes[pos] = Matching[at][pos] /\ pos < Len(Matching[at])
      BY <1>1, <2>2, <3>1, Zenon
    <3>4. NoReport /\ at' = "pause" /\ i' = pos
      BY <2>1, <3>2, <3>3, ReadsOn
    <3>5. QED
      BY <1>1, <1>3, <2>2, <3>4 DEF Reads, Reading
  <2>3. CASE pos = 8
    <3>1. parse_sequence(codes[8]) /\ codes[8] = At(Matching[at], i) /\ i + 1 = Len(Matching[at])
      BY <1>1, <2>1, <2>3, ParsesAt, MatchingAt DEF At
    <3>2. press_key(PauseKey) /\ at' = "pausing"
      BY <2>1, <3>1 DEF parse_sequence, Goto
    <3>3. QED
      BY <1>1, <2>3, <3>2 DEF Reads, Does
  <2>4. QED
    BY <1>1, <2>2, <2>3
<1>4. QED
  BY <1>1, <1>2, <1>3

\* The parser reads every phrase, whatever phrase it is.
LEMMA ReadsPhrase ==
  ASSUME NEW codes, NEW op, NEW arg, Phrase(codes, op, arg), NEW pos \in 1..Len(codes),
         Reading(codes, pos, at, i), at # "pausing", parse_code(codes[pos])
  PROVE  Reads(codes, pos, op, arg)
BY ReadsOneCode, ReadsBroken, ReadsExtended, ReadsExtendedBroken, ReadsDropped,
   ReadsSysReqMake, ReadsSysReqBreak, ReadsPause DEF Phrase

-----------------------------------------------------------------------------
(***************************************************************************)
(* The keyboard at one moment, as far as the codes up to some place in the *)
(* stream tell: the keys that are held, whether they may be too many, and  *)
(* the usages of which the report can be trusted.                          *)
(***************************************************************************)
UsagesOf(keys) == {Usage[k] : k \in keys}
MasksOf(keys) == UNION {Mask[k] : k \in keys}

Releasable == {k \in KeyNames : Usage[k] # PauseKey}

IsMoment(m) ==
  /\ m.held \subseteq Releasable
  /\ m.crowded \in BOOLEAN
  /\ m.crowded \/ Key \subseteq m.trusted

\* The masks the tables have for the modifiers are the keys' own, one for each.
TableMask(k) ==
  Bits(IF Make[k][1] = EXTENDED_CODE THEN ExtTable[Make[k][2]] ELSE ScanTable[Make[k][1]])

MasksFit ==
  \A k \in KeyNames : Mask[k] # {} =>
    Mask[k] = TableMask(k) /\ \A l \in KeyNames \ {k} : Mask[k] \cap Mask[l] = {}

\* From one moment to the next.
Pressed(arg, b, a) ==
  /\ b.held \subseteq a.held
  /\ arg = KEY_UNKNOWN \/ arg \in UsagesOf(a.held)
  /\ \A k \in a.held \ b.held : Mask[k] = {} /\ (FakeShifted(k) \/ Usage[k] = arg)
  /\ a.crowded \/ (~b.crowded /\ (a.held = b.held \/ ~TooMany(a.held)))
  /\ a.trusted \subseteq b.trusted

SwitchedOn(arg, b, a) ==
  /\ \E k \in Releasable :
       /\ a.held = b.held \cup {k} /\ IsModifier(k)
       /\ MasksFit => Bits(arg) = Mask[k]
  /\ a.crowded \/ ~b.crowded
  /\ a.trusted \subseteq b.trusted

Released(arg, b, a) ==
  \/ arg = KEY_UNKNOWN /\ a = b
  \/ /\ \E k \in b.held : IsKey(k, arg) /\ a.held = b.held \ {k}
     /\ a.crowded \/ ~b.crowded \/ a.held = {}
     /\ a.trusted \subseteq b.trusted \cup {arg}

SwitchedOff(arg, b, a) ==
  /\ \E k \in b.held :
       /\ a.held = b.held \ {k} /\ IsModifier(k)
       /\ MasksFit => Bits(arg) = Mask[k]
  /\ a.crowded \/ ~b.crowded \/ a.held = {}
  /\ a.trusted \subseteq b.trusted \cup {KEY_UNKNOWN}

Paused(b, a) ==
  /\ a.held = b.held
  /\ \E k \in KeyNames :
       IsKey(k, PauseKey) /\ (a.crowded \/ (~b.crowded /\ ~TooMany(b.held \cup {k})))
  /\ a.trusted \subseteq b.trusted

Changed(op, arg, b, a) ==
  \/ op = "press" /\ Pressed(arg, b, a)
  \/ op = "on" /\ SwitchedOn(arg, b, a)
  \/ op = "release" /\ Released(arg, b, a)
  \/ op = "off" /\ SwitchedOff(arg, b, a)
  \/ op = "pause" /\ arg = PauseKey /\ Paused(b, a)

\* The report shows no key that is up, ...
ShowsNoOther(m) ==
  \A s \in Slots : keycode[s] # 0 /\ keycode[s] \in m.trusted =>
    keycode[s] \in UsagesOf(m.held) \/ (at = "pausing" /\ keycode[s] = PauseKey)

\* ... the masks of the modifiers that are down ...
ShowsMasks(m) == MasksFit /\ lost = 0 => modifier = MasksOf(m.held)

\* ... and every key that is down, if there is room.
ShowsHeld(m) ==
  ~m.crowded =>
    /\ ~TooMany(m.held)
    /\ \A k \in Plain(m.held) : FakeShifted(k) \/ IsPressed(Usage[k])

Shows(m) == ShowsNoOther(m) /\ ShowsMasks(m) /\ ShowsHeld(m)

\* A key has a usage or a mask, and only Pause is never released.
LEMMA KeyFacts ==
  ASSUME NEW k \in KeyNames
  PROVE  /\ Usage[k] # 0 <=> Mask[k] = {}
         /\ PauseBreak(k) \/ k \in Releasable
         /\ k \in Releasable => ~PauseBreak(k)
<1>1. KEY_UNKNOWN = 0
  BY DEF KEY_UNKNOWN
<1>2. CASE PlainKey(k)
  <2>1. PICK c \in 0..254 : IF c \in ModifierCodes THEN IsModifier(k) ELSE IsKey(k, ScanTable[c])
    BY <1>2 DEF PlainKey
  <2>2. Usage[k] # PauseKey
    BY <2>1, TableAssumption, TranslatorAssumption, Zenon DEF IsModifier, IsKey
  <2>3. QED
    BY <1>1, <2>1, <2>2, Zenon DEF IsModifier, IsKey, Releasable, PauseBreak
<1>3. CASE ExtendedKey(k) \/ WrappedKey(k)
  <2>1. PICK c \in 0..255 : IsModifier(k) \/ IsKey(k, ExtTable[c])
    BY <1>3, Zenon DEF ExtendedKey, WrappedKey
  <2>2. Usage[k] # PauseKey
    BY <2>1, TableAssumption, TranslatorAssumption, Zenon DEF IsModifier, IsKey
  <2>3. QED
    BY <1>1, <2>1, <2>2, Zenon DEF IsModifier, IsKey, Releasable, PauseBreak
<1>4. CASE PrintScreen(k)
  BY <1>1, <1>4, TableAssumption, Zenon DEF PrintScreen, IsKey, Releasable, PauseBreak
<1>5. CASE PauseBreak(k)
  BY <1>1, <1>5 DEF PauseBreak, IsKey, Releasable
<1>6. QED
  BY <1>2, <1>3, <1>4, <1>5, KeyboardAssumption, Zenon

\* A step that leaves the report alone, outside the sleep or with it.
LEMMA UnchangedShows ==
  ASSUME keycode' = keycode, modifier' = modifier, lost' = lost, at = "pausing" => at' = "pausing",
         NEW m, Shows(m)
  PROVE  Shows(m)'
BY DEF Shows, ShowsNoOther, ShowsMasks, ShowsHeld, UsagesOf, MasksOf, TooMany, Plain,
       FakeShifted, IsPressed

-----------------------------------------------------------------------------
(***************************************************************************)
(* A stream of codes that tells what the keyboard does from one moment to  *)
(* another: each code is tagged with its phrase and its position there.    *)
(***************************************************************************)
IsPhrase(x) ==
  /\ Phrase(x.codes, x.op, x.arg)
  /\ IsMoment(x.before) /\ IsMoment(x.after)
  /\ Changed(x.op, x.arg, x.before, x.after)

IsTag(tag, code) ==
  /\ IsPhrase(tag.phrase)
  /\ tag.pos \in 1..Len(tag.phrase.codes)
  /\ code = tag.phrase.codes[tag.pos]

Ends(tag) == tag.pos = Len(tag.phrase.codes)

Follows(tag, next) ==
  IF Ends(tag) THEN next.pos = 1 /\ next.phrase.before = tag.phrase.after
               ELSE next.pos = tag.pos + 1 /\ next.phrase = tag.phrase

Tells(codes, tags, now, end) ==
  /\ \A j \in 1..Len(codes) : IsTag(tags[j], codes[j])
  /\ \A j \in 1..(Len(codes) - 1) : Follows(tags[j], tags[j + 1])
  /\ codes = <<>> => now = end
  /\ codes # <<>> => /\ now = tags[1].phrase.before
                     /\ Ends(tags[Len(codes)]) /\ end = tags[Len(codes)].phrase.after

\* Reading the first code.
LEMMA TellsTail ==
  ASSUME NEW codes \in Seq(Codes), NEW tags, NEW now, NEW end, Tells(codes, tags, now, end),
         codes # <<>>
  PROVE  \E rest :
           /\ Tells(Tail(codes), rest, IF Ends(tags[1]) THEN tags[1].phrase.after ELSE now, end)
           /\ Tail(codes) # <<>> => rest[1] = tags[2] /\ Follows(tags[1], tags[2])
           /\ Tail(codes) = <<>> => Ends(tags[1])
<1> DEFINE n == Len(codes)
           rest == [j \in 1..(n - 1) |-> tags[j + 1]]
           then == IF Ends(tags[1]) THEN tags[1].phrase.after ELSE now
<1>1. /\ n \in Nat \ {0} /\ Tail(codes) \in Seq(Codes) /\ Len(Tail(codes)) = n - 1
      /\ \A j \in 1..(n - 1) : Tail(codes)[j] = codes[j + 1]
      /\ Tail(codes) = <<>> <=> n = 1
  <2>1. n \in Nat \ {0}
    OBVIOUS
  <2>2. Tail(codes) \in Seq(Codes) /\ Len(Tail(codes)) = n - 1
    BY <2>1
  <2>3. \A j \in 1..(n - 1) : Tail(codes)[j] = codes[j + 1]
    BY <2>1, <2>2
  <2>4. Tail(codes) = <<>> <=> n = 1
    BY <2>1, <2>2
  <2>5. QED
    BY <2>1, <2>2, <2>3, <2>4
<1> HIDE DEF n
<1>2. /\ \A j \in 1..n : IsTag(tags[j], codes[j])
      /\ \A j \in 1..(n - 1) : Follows(tags[j], tags[j + 1])
      /\ now = tags[1].phrase.before /\ Ends(tags[n]) /\ end = tags[n].phrase.after
  BY DEF Tells, n
<1>3. \A j \in 1..(n - 1) : IsTag(rest[j], Tail(codes)[j])
  <2> SUFFICES ASSUME NEW j \in 1..(n - 1) PROVE IsTag(rest[j], Tail(codes)[j])
    BY Zenon
  <2>1. j + 1 \in 1..n /\ rest[j] = tags[j + 1] /\ Tail(codes)[j] = codes[j + 1]
    BY <1>1
  <2>2. QED
    BY <1>2, <2>1, Zenon
<1>4. \A j \in 1..(n - 1 - 1) : Follows(rest[j], rest[j + 1])
  <2> SUFFICES ASSUME NEW j \in 1..(n - 1 - 1) PROVE Follows(rest[j], rest[j + 1])
    OBVIOUS
  <2>1. j + 1 \in 1..(n - 1) /\ rest[j] = tags[j + 1] /\ rest[j + 1] = tags[(j + 1) + 1]
    BY <1>1
  <2>2. QED
    BY <1>2, <2>1
<1>5. CASE n = 1
  <2>1. Tail(codes) = <<>> /\ then = end /\ Ends(tags[1])
    BY <1>1, <1>2, <1>5
  <2>2. Tells(Tail(codes), rest, then, end)
    BY <1>1, <1>3, <1>4, <2>1 DEF Tells
  <2>3. QED
    BY <2>1, <2>2
<1>6. CASE n # 1
  <2>1. 1 \in 1..(n - 1) /\ n - 1 \in 1..(n - 1)
    BY <1>1, <1>6
  <2>2. rest[1] = tags[2] /\ rest[n - 1] = tags[n] /\ Follows(tags[1], tags[2])
    BY <1>1, <1>2, <2>1
  <2>3. then = rest[1].phrase.before
    BY <1>2, <2>2 DEF Follows
  <2>4. Tells(Tail(codes), rest, then, end)
    BY <1>1, <1>2, <1>3, <1>4, <1>6, <2>2, <2>3 DEF Tells
  <2>5. QED
    BY <1>1, <1>6, <2>2, <2>4
<1>7. QED
  BY <1>5, <1>6

\* Tags of a longer stream begin with the same tag.
BeginsLike(more, tags, codes) == IF codes = <<>> THEN more[1].pos = 1 ELSE more[1] = tags[1]

\* One phrase more.
LEMMA TellsMore ==
  ASSUME NEW codes \in Seq(Codes), NEW tags, NEW now, NEW end, Tells(codes, tags, now, end),
         NEW x, IsPhrase(x), x.before = end, x.codes \in Seq(Codes)
  PROVE  \E more :
           Tells(codes \o x.codes, more, now, x.after) /\ BeginsLike(more, tags, codes)
<1> DEFINE n == Len(codes)
           p == Len(x.codes)
           all == codes \o x.codes
           new(l) == [phrase |-> x, pos |-> l]
           more == [j \in 1..(n + p) |-> IF j <= n THEN tags[j] ELSE new(j - n)]
<1>1. p \in Nat \ {0}
  <2>1. Phrase(x.codes, x.op, x.arg)
    BY DEF IsPhrase
  <2>2. p \in 1..8
    BY <2>1, PhraseTypes
  <2> HIDE DEF p
  <2>3. QED
    BY <2>2
<1>2. /\ n \in Nat /\ all \in Seq(Codes) /\ Len(all) = n + p /\ (codes = <<>> <=> n = 0)
      /\ \A j \in 1..(n + p) : all[j] = IF j <= n THEN codes[j] ELSE x.codes[j - n]
  BY <1>1
<1> HIDE DEF n, p, all
<1>3. /\ \A j \in 1..n : IsTag(tags[j], codes[j])
      /\ \A j \in 1..(n - 1) : Follows(tags[j], tags[j + 1])
      /\ n = 0 => now = end
      /\ n # 0 => now = tags[1].phrase.before /\ Ends(tags[n]) /\ end = tags[n].phrase.after
  BY <1>2 DEF Tells, n
<1>4. \A l \in 1..p : IsTag(new(l), x.codes[l]) /\ (l # p => Follows(new(l), new(l + 1)))
  <2> SUFFICES ASSUME NEW l \in 1..p
               PROVE  IsTag(new(l), x.codes[l]) /\ (l # p => Follows(new(l), new(l + 1)))
    BY Zenon
  <2>1. new(l).phrase = x /\ new(l).pos = l /\ new(l + 1).phrase = x /\ new(l + 1).pos = l + 1
    OBVIOUS
  <2> HIDE DEF new
  <2>2. QED
    BY <2>1 DEF IsTag, Follows, Ends, p
<1>5. n # 0 => Follows(tags[n], new(1))
  <2>1. new(1).phrase = x /\ new(1).pos = 1
    OBVIOUS
  <2> HIDE DEF new
  <2>2. QED
    BY <1>3, <2>1 DEF Follows
<1>6. \A j \in 1..(n + p) : more[j] = IF j <= n THEN tags[j] ELSE new(j - n)
  OBVIOUS
<1>7. Ends(new(p)) /\ new(p).phrase = x /\ new(1).phrase = x /\ new(1).pos = 1
  BY DEF Ends, p
<1> HIDE DEF new, more
<1>8. ASSUME NEW j \in 1..(n + p) PROVE IsTag(more[j], all[j])
  <2>1. CASE j <= n
    <3>1. j \in 1..n /\ more[j] = tags[j] /\ all[j] = codes[j]
      BY <1>1, <1>2, <1>6, <2>1
    <3>2. QED
      BY <1>3, <3>1, Zenon
  <2>2. CASE ~(j <= n)
    <3>1. more[j] = new(j - n) /\ all[j] = x.codes[j - n] /\ j - n \in 1..p
      BY <1>1, <1>2, <1>6, <2>2
    <3>2. QED
      BY <1>4, <3>1, Zenon
  <2>3. QED
    BY <2>1, <2>2, Zenon
<1>9. ASSUME NEW j \in 1..(n + p - 1) PROVE Follows(more[j], more[j + 1])
  <2>1. CASE j < n
    <3>1. j \in 1..(n - 1) /\ more[j] = tags[j] /\ more[j + 1] = tags[j + 1]
      BY <1>1, <1>2, <1>6, <2>1
    <3>2. QED
      BY <1>3, <3>1, Zenon
  <2>2. CASE j = n
    <3>1. more[j] = tags[n] /\ more[j + 1] = new(1) /\ n # 0
      BY <1>1, <1>2, <1>6, <2>2
    <3>2. QED
      BY <1>5, <3>1, Zenon
  <2>3. CASE j > n
    <3>1. more[j] = new(j - n) /\ more[j + 1] = new((j - n) + 1) /\ j - n \in 1..p /\ j - n # p
      <4>1. j \in 1..(n + p) /\ j + 1 \in 1..(n + p) /\ ~(j <= n) /\ ~(j + 1 <= n)
            /\ j - n \in 1..p /\ j - n # p /\ (j + 1) - n = (j - n) + 1
        BY <1>1, <1>2, <2>3
      <4>2. QED
        BY <1>6, <4>1
    <3>2. QED
      BY <1>4, <3>1, Zenon
  <2>4. j < n \/ j = n \/ j > n
    BY <1>1, <1>2
  <2>5. QED
    BY <2>1, <2>2, <2>3, <2>4, Zenon
<1>10. more[n + p] = new(p) /\ all # <<>>
  <2>1. n + p \in 1..(n + p) /\ ~(n + p <= n) /\ (n + p) - n = p /\ n + p # 0
    BY <1>1, <1>2
  <2>2. more[n + p] = new(p)
    BY <1>6, <2>1
  <2>3. all # <<>>
    BY <1>2, <2>1
  <2>4. QED
    BY <2>2, <2>3
<1>11. more[1] = IF codes = <<>> THEN new(1) ELSE tags[1]
  BY <1>1, <1>2, <1>6
<1>12. now = more[1].phrase.before
  BY <1>2, <1>3, <1>7, <1>11
<1>13. Ends(more[n + p]) /\ x.after = more[n + p].phrase.after
  BY <1>7, <1>10
<1>14. Tells(all, more, now, x.after)
  <2>1. \A j \in 1..Len(all) : IsTag(more[j], all[j])
    BY <1>2, <1>8
  <2>2. \A j \in 1..(Len(all) - 1) : Follows(more[j], more[j + 1])
    <3>1. Len(all) - 1 = n + p - 1
      BY <1>1, <1>2
    <3>2. QED
      BY <1>9, <3>1, Zenon
  <2>3. Ends(more[Len(all)]) /\ x.after = more[Len(all)].phrase.after
    BY <1>2, <1>13
  <2>4. QED
    BY <1>10, <1>12, <2>1, <2>2, <2>3, Zenon DEF Tells
<1>15. BeginsLike(more, tags, codes)
  BY <1>7, <1>11 DEF BeginsLike
<1>16. QED
  BY <1>14, <1>15, Zenon DEF all

\* Facts about sequences of codes.
LEMMA Associative ==
  ASSUME NEW s \in Seq(Codes), NEW t \in Seq(Codes), NEW u \in Seq(Codes)
  PROVE  (s \o t) \o u = s \o (t \o u)
OBVIOUS

\* Sequences of the same codes are the same.
LEMMA SameCodes ==
  ASSUME NEW s \in Seq(Codes), NEW t \in Seq(Codes), Len(s) = Len(t),
         \A j \in 1..Len(s) : s[j] = t[j]
  PROVE  s = t
OBVIOUS

\* A sequence with a code in either part has a code.
LEMMA NotEmpty ==
  ASSUME NEW s \in Seq(Codes), NEW t \in Seq(Codes), s # <<>> \/ t # <<>>
  PROVE  s \o t # <<>>
OBVIOUS

\* A sequence that is not empty has a first code.
LEMMA HasFirst ==
  ASSUME NEW s \in Seq(Codes), s # <<>>
  PROVE  Len(s) \in Nat \ {0} /\ 1 \in 1..Len(s) /\ s[1] \in Codes
OBVIOUS

\* Two phrases more.
LEMMA TellsTwice ==
  ASSUME NEW codes \in Seq(Codes), NEW tags, NEW now, NEW end, Tells(codes, tags, now, end),
         NEW x, IsPhrase(x), x.before = end, x.codes \in Seq(Codes),
         NEW y, IsPhrase(y), y.before = x.after, y.codes \in Seq(Codes)
  PROVE  \E more :
           Tells(codes \o (x.codes \o y.codes), more, now, y.after) /\ BeginsLike(more, tags, codes)
<1>1. PICK some : Tells(codes \o x.codes, some, now, x.after) /\ BeginsLike(some, tags, codes)
  BY TellsMore
<1>2. PICK longer \in Seq(Codes) : longer = codes \o x.codes /\ longer # <<>>
  <2>1. Phrase(x.codes, x.op, x.arg)
    BY DEF IsPhrase
  <2>2. x.codes # <<>>
    BY <2>1, PhraseNotEmpty, Zenon
  <2>3. codes \o x.codes \in Seq(Codes)
    OBVIOUS
  <2>4. codes \o x.codes # <<>>
    BY <2>2, NotEmpty
  <2>5. QED
    BY <2>3, <2>4, Zenon
<1>3. Tells(longer, some, now, x.after)
  BY <1>1, <1>2
<1>4. PICK more : Tells(longer \o y.codes, more, now, y.after) /\ BeginsLike(more, some, longer)
  BY <1>3, TellsMore
<1>5. longer \o y.codes = codes \o (x.codes \o y.codes)
  <2>1. (codes \o x.codes) \o y.codes = codes \o (x.codes \o y.codes)
    BY Associative, Zenon
  <2>2. QED
    BY <1>2, <2>1
<1>6. BeginsLike(more, tags, codes)
  BY <1>1, <1>2, <1>4 DEF BeginsLike
<1>7. QED
  BY <1>4, <1>5, <1>6

-----------------------------------------------------------------------------
(***************************************************************************)
(* The codes on their way: those handed over, in the queue, on the wire.   *)
(***************************************************************************)
Stream == Queue!InTransit \o wire

\* Moving a code from the front of one sequence to the end of another.
LEMMA MoveFirst ==
  ASSUME NEW s \in Seq(Codes), NEW w \in Seq(Codes), w # <<>>
  PROVE  Append(s, Head(w)) \o Tail(w) = s \o w
OBVIOUS

\* ... with a third sequence before them.
LEMMA MoveCode ==
  ASSUME NEW h \in Seq(Codes), NEW q \in Seq(Codes), NEW w \in Seq(Codes), w # <<>>
  PROVE  (h \o Append(q, Head(w))) \o Tail(w) = (h \o q) \o w
<1>1. h \o Append(q, Head(w)) = Append(h \o q, Head(w)) /\ h \o q \in Seq(Codes)
  OBVIOUS
<1>2. Append(h \o q, Head(w)) \o Tail(w) = (h \o q) \o w
  BY <1>1, MoveFirst, Zenon
<1>3. QED
  BY <1>1, <1>2, Zenon

\* A sequence of at most one code, and not of none, is its first code.
LEMMA SingleCode ==
  ASSUME NEW s \in Seq(Codes), s # <<>>, Len(s) <= 1
  PROVE  s = <<s[1]>> /\ s[1] \in Codes
<1> DEFINE n == Len(s)
<1>1. n \in Nat \ {0} /\ n <= 1 /\ s[1] \in Codes
  BY HasFirst
<1> HIDE DEF n
<1>2. n = 1
  BY <1>1
<1>3. <<s[1]>> \in Seq(Codes) /\ Len(<<s[1]>>) = n /\ \A j \in 1..n : s[j] = <<s[1]>>[j]
  BY <1>1, <1>2
<1>4. s = <<s[1]>>
  BY <1>3, SameCodes, Zenon DEF n
<1>5. QED
  BY <1>1, <1>4

\* What k_msgq_put and k_msgq_get do to the three sequences laid end to end.
LEMMA SequenceFacts ==
  ASSUME NEW S, NEW h \in Seq(S), NEW q \in Seq(S), NEW w \in Seq(S)
  PROVE  /\ (h \o q) \o w \in Seq(S)
         /\ w # <<>> => (<<Head(w)>> \o <<>>) \o Tail(w) = (<<>> \o <<>>) \o w
         /\ q # <<>> => /\ (<<>> \o q) \o w # <<>>
                        /\ ((<<>> \o q) \o w)[1] = Head(q)
                        /\ Tail((<<>> \o q) \o w) = (<<>> \o Tail(q)) \o w
         /\ \A c \in S : /\ (<<c>> \o q) \o w # <<>>
                         /\ ((<<c>> \o q) \o w)[1] = c
                         /\ Tail((<<c>> \o q) \o w) = (<<>> \o q) \o w
<1>1. (h \o q) \o w \in Seq(S)
  OBVIOUS
<1>2. ASSUME w # <<>> PROVE (<<Head(w)>> \o <<>>) \o Tail(w) = (<<>> \o <<>>) \o w
  BY <1>2
<1>3. ASSUME q # <<>> PROVE /\ (<<>> \o q) \o w # <<>>
                            /\ ((<<>> \o q) \o w)[1] = Head(q)
  BY <1>3
<1>4. ASSUME q # <<>> PROVE Tail((<<>> \o q) \o w) = (<<>> \o Tail(q)) \o w
  BY <1>4
<1>5. ASSUME NEW c \in S PROVE /\ (<<c>> \o q) \o w # <<>>
                               /\ ((<<c>> \o q) \o w)[1] = c
                               /\ Tail((<<c>> \o q) \o w) = (<<>> \o q) \o w
  OBVIOUS
<1>6. QED
  BY <1>1, <1>2, <1>3, <1>4, <1>5, Zenon

\* A reader waits only when there is nothing in the queue.
WaitInv ==
  /\ reader = "pended" => rx_msg_que = <<>>
  /\ reader # "handed" => handover = <<>>

\* A put that is accepted moves a code from the wire to the end of the queue,
\* or to the reader when there is none before it.
LEMMA PutKeepsStream ==
  ASSUME PathInv, WaitInv, wire # <<>>, wire' = Tail(wire), Queue!PutAccepted(Head(wire))
  PROVE  Stream' = Stream /\ WaitInv'
<1>1. rx_msg_que \in Seq(Codes) /\ handover \in Seq(Codes) /\ wire \in Seq(Codes)
  BY DEF PathInv, Queue!QueueTypeOK
<1>2. CASE /\ reader = "pended" /\ reader' = "handed" /\ handover' = <<Head(wire)>>
           /\ rx_msg_que' = rx_msg_que
  <2>1. rx_msg_que = <<>> /\ handover = <<>>
    BY <1>2 DEF WaitInv
  <2>2. (<<Head(wire)>> \o <<>>) \o Tail(wire) = (<<>> \o <<>>) \o wire
    BY <1>1, SequenceFacts
  <2>3. QED
    BY <1>2, <2>1, <2>2 DEF Stream, Queue!InTransit, WaitInv
<1>3. CASE /\ reader # "pended" /\ reader' = reader /\ handover' = handover
           /\ rx_msg_que' = Append(rx_msg_que, Head(wire))
  <2>1. (handover \o Append(rx_msg_que, Head(wire))) \o Tail(wire) = (handover \o rx_msg_que) \o wire
    BY <1>1, MoveCode, Zenon
  <2>2. QED
    BY <1>3, <2>1, Zenon DEF Stream, Queue!InTransit, WaitInv
<1>4. QED
  BY <1>2, <1>3 DEF Queue!PutAccepted

\* k_msgq_get returns the first code of the stream.
LEMMA GetTakesFirst ==
  ASSUME PathInv, WaitInv, wire' = wire, Queue!Get
  PROVE  Stream # <<>> /\ Queue!GetResult = Stream[1] /\ Stream' = Tail(Stream) /\ WaitInv'
<1>1. /\ rx_msg_que \in Seq(Codes) /\ handover \in Seq(Codes) /\ wire \in Seq(Codes)
      /\ Len(handover) <= 1
  BY DEF PathInv, Queue!QueueTypeOK
<1>2. CASE Queue!GetQueued
  <2>1. /\ reader = "running" /\ rx_msg_que # <<>> /\ rx_msg_que' = Tail(rx_msg_que)
        /\ reader' = reader /\ handover' = handover
    BY <1>2 DEF Queue!GetQueued
  <2>2. handover = <<>>
    BY <2>1 DEF WaitInv
  <2>3. /\ (<<>> \o rx_msg_que) \o wire # <<>>
        /\ ((<<>> \o rx_msg_que) \o wire)[1] = Head(rx_msg_que)
        /\ Tail((<<>> \o rx_msg_que) \o wire) = (<<>> \o Tail(rx_msg_que)) \o wire
    BY <1>1, <2>1, SequenceFacts
  <2>4. QED
    BY <2>1, <2>2, <2>3 DEF Stream, Queue!InTransit, WaitInv, Queue!GetResult
<1>3. CASE Queue!GetHanded
  <2>1. reader = "handed" /\ reader' = "running" /\ handover' = <<>> /\ rx_msg_que' = rx_msg_que
    BY <1>3 DEF Queue!GetHanded
  <2>2. handover # <<>>
    BY <2>1 DEF PathInv
  <2>3. handover = <<handover[1]>> /\ handover[1] \in Codes
    BY <1>1, <2>2, SingleCode
  <2>4. /\ (<<handover[1]>> \o rx_msg_que) \o wire # <<>>
        /\ ((<<handover[1]>> \o rx_msg_que) \o wire)[1] = handover[1]
        /\ Tail((<<handover[1]>> \o rx_msg_que) \o wire) = (<<>> \o rx_msg_que) \o wire
    BY <1>1, <2>3, SequenceFacts
  <2>5. QED
    BY <2>1, <2>3, <2>4, Zenon DEF Stream, Queue!InTransit, WaitInv, Queue!GetResult
<1>4. QED
  BY <1>2, <1>3 DEF Queue!Get

\* The keyboard at the end of the stream.  After a loss the report can be
\* trusted only for keys that were pressed and released again since.
EndMoment ==
  [held |-> held,
   crowded |-> (crowded \/ lost > 0),
   trusted |-> IF lost = 0 THEN Key ELSE UsagesOf(Plain(clean))]

\* The stream tells what the keyboard did since the moment that the report
\* shows, and the parser is at its first code.
Understood(tags, now) ==
  /\ Tells(Stream, tags, now, EndMoment)
  /\ IF Stream = <<>> THEN at \in {"top", "pausing"}
                      ELSE Reading(tags[1].phrase.codes, tags[1].pos, at, i)
  /\ IsMoment(now)
  /\ Shows(now)

Heard == lost = 0 \/ clean # {}

\* The inductive invariant.
StreamInv ==
  /\ held \subseteq Releasable
  /\ WaitInv
  /\ Heard => \E tags, now : Understood(tags, now)

\* The codes under way are codes the keyboard sends.
LEMMA StreamType == PathInv => Stream \in Seq(Codes)
BY DEF PathInv, Queue!QueueTypeOK, Stream, Queue!InTransit

-----------------------------------------------------------------------------
(***************************************************************************)
(* What the keyboard sends are phrases.                                    *)
(***************************************************************************)
\* The change of one key's going down or repeating.
LEMMA KeyGoesDown ==
  ASSUME NEW k \in Releasable, NEW b, NEW a, NEW key, IsKey(k, key),
         a.held = b.held \cup {k}, a.trusted \subseteq b.trusted,
         a.crowded \/ (~b.crowded /\ (a.held = b.held \/ ~TooMany(a.held)))
  PROVE  Pressed(key, b, a)
<1>1. key \in UsagesOf(a.held)
  BY DEF UsagesOf, IsKey
<1>2. QED
  BY <1>1 DEF Pressed, IsKey

\* The change of a modifier's going down.
LEMMA ModifierGoesDown ==
  ASSUME NEW k \in Releasable, NEW b, NEW a, NEW key, IsModifier(k), TableMask(k) = Bits(key),
         a.held = b.held \cup {k}, a.trusted \subseteq b.trusted, a.crowded \/ ~b.crowded
  PROVE  SwitchedOn(key, b, a)
BY DEF SwitchedOn, IsModifier, MasksFit, Releasable

\* The change of a modifier's going up.
LEMMA ModifierGoesUp ==
  ASSUME NEW b, NEW a, NEW k \in b.held, k \in KeyNames, NEW key, IsModifier(k), TableMask(k) = Bits(key),
         a.held = b.held \ {k}, a.trusted \subseteq b.trusted \cup {Usage[k]},
         a.crowded \/ ~b.crowded \/ a.held = {}
  PROVE  SwitchedOff(key, b, a)
BY DEF SwitchedOff, IsModifier, MasksFit

\* The change of another key's going up.
LEMMA KeyGoesUp ==
  ASSUME NEW b, NEW a, NEW k \in b.held, NEW key, IsKey(k, key),
         a.held = b.held \ {k}, a.trusted \subseteq b.trusted \cup {Usage[k]},
         a.crowded \/ ~b.crowded \/ a.held = {}
  PROVE  Released(key, b, a)
BY DEF Released, IsKey

\* The codes of short sequences.
LEMMA TupleFacts ==
  ASSUME NEW c
  PROVE  /\ <<BREAK_CODE, c>> # <<>> /\ <<EXTENDED_CODE, BREAK_CODE, c>> # <<>>
         /\ <<c>>[1] = c /\ <<EXTENDED_CODE, c>>[1] = EXTENDED_CODE /\ <<EXTENDED_CODE, c>>[2] = c
OBVIOUS

\* Only Pause has no break sequence.
LEMMA HasBreakSequence ==
  ASSUME NEW k \in KeyNames, PlainKey(k) \/ ExtendedKey(k) \/ PrintScreen(k)
  PROVE  Break[k] # <<>> /\ k \in Releasable
<1>1. sys_req_break # <<>>
  BY DEF sys_req_break
<1>2. Break[k] # <<>>
  BY <1>1, TupleFacts, Zenon DEF PlainKey, ExtendedKey, PrintScreen, Sends
<1>3. QED
  BY <1>2, KeyFacts, Zenon DEF PauseBreak

\* A plain or an extended key.
LEMMA SimpleKeyDown ==
  ASSUME NEW k \in Releasable, NEW b, NEW a, PlainKey(k) \/ ExtendedKey(k),
         a.held = b.held \cup {k}, a.trusted \subseteq b.trusted,
         a.crowded \/ (~b.crowded /\ (a.held = b.held \/ ~TooMany(a.held)))
  PROVE  /\ Repeat[k] = Make[k]
         /\ \E op, arg : Phrase(Make[k], op, arg) /\ Changed(op, arg, b, a)
<1>1. ASSUME NEW c \in 0..254 \ Prefixes, Sends(k, <<c>>, <<BREAK_CODE, c>>, <<c>>),
             IF c \in ModifierCodes THEN IsModifier(k) ELSE IsKey(k, ScanTable[c])
      PROVE  /\ Repeat[k] = Make[k]
             /\ \E op, arg : Phrase(Make[k], op, arg) /\ Changed(op, arg, b, a)
  <2>1. Make[k] = <<c>> /\ Repeat[k] = <<c>> /\ Make[k][1] = c /\ c # EXTENDED_CODE
    BY <1>1, TupleFacts, Zenon DEF Sends, Prefixes
  <2>2. CASE c \in ModifierCodes
    <3>1. TableMask(k) = Bits(ScanTable[c])
      BY <2>1, Zenon DEF TableMask
    <3>2. SwitchedOn(ScanTable[c], b, a)
      BY <1>1, <2>2, <3>1, ModifierGoesDown, Zenon
    <3>3. OneCode(Make[k], "on", ScanTable[c])
      BY <2>1, <2>2 DEF OneCode
    <3>4. QED
      BY <2>1, <3>2, <3>3, Zenon DEF Phrase, Changed
  <2>3. CASE c \notin ModifierCodes
    <3>1. Pressed(ScanTable[c], b, a)
      BY <1>1, <2>3, KeyGoesDown, Zenon
    <3>2. OneCode(Make[k], "press", ScanTable[c])
      BY <2>1, <2>3 DEF OneCode
    <3>3. QED
      BY <2>1, <3>1, <3>2, Zenon DEF Phrase, Changed
  <2>4. QED
    BY <2>2, <2>3, Zenon
<1>2. ASSUME NEW c \in 0..255 \ {BREAK_CODE, FAKE_SHIFT},
             Sends(k, <<EXTENDED_CODE, c>>, <<EXTENDED_CODE, BREAK_CODE, c>>, <<EXTENDED_CODE, c>>),
             IF ExtTable[c] \in ExtModifiers THEN IsModifier(k) ELSE IsKey(k, ExtTable[c])
      PROVE  /\ Repeat[k] = Make[k]
             /\ \E op, arg : Phrase(Make[k], op, arg) /\ Changed(op, arg, b, a)
  <2>1. /\ Make[k] = <<EXTENDED_CODE, c>> /\ Repeat[k] = <<EXTENDED_CODE, c>>
        /\ Make[k][1] = EXTENDED_CODE /\ Make[k][2] = c
    BY <1>2, TupleFacts, Zenon DEF Sends
  <2>2. CASE ExtTable[c] \in ExtModifiers
    <3>1. TableMask(k) = Bits(ExtTable[c])
      BY <2>1 DEF TableMask
    <3>2. SwitchedOn(ExtTable[c], b, a)
      BY <1>2, <2>2, <3>1, ModifierGoesDown, Zenon
    <3>3. Extended(Make[k], "on", ExtTable[c])
      BY <2>1, <2>2 DEF Extended
    <3>4. QED
      BY <2>1, <3>2, <3>3, Zenon DEF Phrase, Changed
  <2>3. CASE ExtTable[c] \notin ExtModifiers
    <3>1. Pressed(ExtTable[c], b, a)
      BY <1>2, <2>3, KeyGoesDown, Zenon
    <3>2. Extended(Make[k], "press", ExtTable[c])
      BY <2>1, <2>3 DEF Extended
    <3>3. QED
      BY <2>1, <3>1, <3>2, Zenon DEF Phrase, Changed
  <2>4. QED
    BY <2>2, <2>3, Zenon
<1>3. QED
  BY <1>1, <1>2, Zenon DEF PlainKey, ExtendedKey, Prefixes, FAKE_SHIFT

\* What a key sends when it goes down is a phrase that puts it down.
LEMMA PressIsPhrase ==
  ASSUME NEW k \in KeyNames, NEW b, NEW a,
         a.held = (IF Break[k] = <<>> THEN b.held ELSE b.held \cup {k}), a.trusted \subseteq b.trusted,
         a.crowded \/ (~b.crowded /\ ~TooMany(b.held \cup {k}))
  PROVE  \E op, arg : Phrase(Make[k], op, arg) /\ Changed(op, arg, b, a)
<1>1. CASE PlainKey(k) \/ ExtendedKey(k)
  <2>1. Break[k] # <<>> /\ k \in Releasable
    BY <1>1, HasBreakSequence, Zenon
  <2>2. QED
    BY <1>1, <2>1, SimpleKeyDown, Zenon
<1>2. CASE WrappedKey(k)
  <2>1. PICK c \in 0..255 \ {SYS_REQ} :
          /\ Make[k] = <<EXTENDED_CODE, FAKE_SHIFT, EXTENDED_CODE, c>>
          /\ Break[k] # <<>> /\ Mask[k] = {}
    <3>1. PICK c \in 0..255 \ {SYS_REQ} :
            /\ Make[k] = <<EXTENDED_CODE, FAKE_SHIFT, EXTENDED_CODE, c>>
            /\ Break[k] = <<EXTENDED_CODE, BREAK_CODE, c, EXTENDED_CODE, BREAK_CODE, FAKE_SHIFT>>
            /\ Mask[k] = {}
      BY <1>2, Zenon DEF WrappedKey, Sends, IsKey, FAKE_SHIFT, SYS_REQ
    <3>2. Break[k] # <<>>
      BY <3>1
    <3>3. QED
      BY <3>1, <3>2, Zenon
  <2>2. FakeShifted(k)
    BY <2>1, CodeFacts DEF FakeShifted, sys_req_make
  <2>3. Pressed(KEY_UNKNOWN, b, a)
    BY <2>1, <2>2 DEF Pressed
  <2>4. Dropped(Make[k], "press", KEY_UNKNOWN)
    BY <2>1 DEF Dropped
  <2>5. QED
    BY <2>3, <2>4, Zenon DEF Phrase, Changed
<1>3. CASE PrintScreen(k)
  <2>1. Break[k] # <<>> /\ k \in Releasable /\ Make[k] = sys_req_make /\ IsKey(k, SysRqKey)
    BY <1>3, HasBreakSequence, Zenon DEF PrintScreen, Sends
  <2>2. Pressed(SysRqKey, b, a)
    BY <2>1, KeyGoesDown, Zenon
  <2>3. SysReqMake(Make[k], "press", SysRqKey)
    BY <2>1 DEF SysReqMake
  <2>4. QED
    BY <2>2, <2>3, Zenon DEF Phrase, Changed
<1>4. CASE PauseBreak(k)
  <2>1. Break[k] = <<>> /\ Make[k] = pause_break_code /\ IsKey(k, PauseKey)
    BY <1>4 DEF PauseBreak
  <2>2. Paused(b, a)
    BY <2>1, Zenon DEF Paused
  <2>3. PauseMake(Make[k], "pause", PauseKey)
    BY <2>1 DEF PauseMake
  <2>4. QED
    BY <2>2, <2>3, Zenon DEF Phrase, Changed
<1>5. QED
  BY <1>1, <1>2, <1>3, <1>4, KeyboardAssumption, Zenon

\* What a held key repeats is a phrase that changes nothing that is held.
LEMMA RepeatIsPhrase ==
  ASSUME NEW k \in Releasable, NEW m, k \in m.held, m.crowded \in BOOLEAN
  PROVE  \E op, arg : Phrase(Repeat[k], op, arg) /\ Changed(op, arg, m, m)
<1>1. k \in KeyNames /\ m.held = m.held \cup {k} /\ ~PauseBreak(k)
  BY KeyFacts DEF Releasable
<1>2. CASE PlainKey(k) \/ ExtendedKey(k)
  BY <1>1, <1>2, SimpleKeyDown, Zenon
<1>3. ASSUME NEW c \in 0..255 \ {BREAK_CODE, FAKE_SHIFT}, Repeat[k] = <<EXTENDED_CODE, c>>,
             ExtTable[c] \notin ExtModifiers, ExtTable[c] = KEY_UNKNOWN \/ IsKey(k, ExtTable[c])
      PROVE  \E op, arg : Phrase(Repeat[k], op, arg) /\ Changed(op, arg, m, m)
  <2>1. Pressed(ExtTable[c], m, m)
    BY <1>3, KeyGoesDown, <1>1, Zenon DEF Pressed
  <2>2. Extended(Repeat[k], "press", ExtTable[c])
    BY <1>3 DEF Extended
  <2>3. QED
    BY <2>1, <2>2, Zenon DEF Phrase, Changed
<1>4. CASE WrappedKey(k)
  BY <1>3, <1>4, Zenon DEF WrappedKey, Sends, FAKE_SHIFT
<1>5. CASE PrintScreen(k)
  <2>1. Repeat[k] = <<EXTENDED_CODE, SYS_REQ>> /\ IsKey(k, SysRqKey)
    BY <1>5 DEF PrintScreen, Sends, SYS_REQ
  <2>2. SYS_REQ \in 0..255 \ {BREAK_CODE, FAKE_SHIFT} /\ SYS_REQ = At(sys_req_break, 2)
    BY CodeFacts
  <2>3. ExtTable[SYS_REQ] \in {KEY_UNKNOWN, SysRqKey} /\ ExtTable[SYS_REQ] \notin ExtModifiers
    BY <2>2, TableAssumption, KeyboardAssumption, Zenon
  <2>4. QED
    BY <1>3, <2>1, <2>2, <2>3, Zenon
<1>6. QED
  BY <1>1, <1>2, <1>4, <1>5, KeyboardAssumption, Zenon

\* The break sequence of a key in a fake shift is two phrases; the second
\* changes nothing.
OneOrTwo(codes, op, arg) ==
  \/ Phrase(codes, op, arg)
  \/ \E x, y : Phrase(x, op, arg) /\ Phrase(y, "release", KEY_UNKNOWN) /\ codes = x \o y

\* What a key sends when it goes up is one or two phrases that let it go.
LEMMA ReleaseIsPhrase ==
  ASSUME NEW b, NEW a, NEW k \in b.held, k \in Releasable,
         a.held = b.held \ {k}, a.trusted \subseteq b.trusted \cup {Usage[k]},
         a.crowded \/ ~b.crowded \/ a.held = {}
  PROVE  \E op, arg : OneOrTwo(Break[k], op, arg) /\ Changed(op, arg, b, a)
<1>1. k \in KeyNames /\ ~PauseBreak(k)
  BY KeyFacts DEF Releasable
<1> USE <1>1
<1>2. CASE PlainKey(k)
  <2>1. PICK c \in 0..254 \ Prefixes :
          /\ Sends(k, <<c>>, <<BREAK_CODE, c>>, <<c>>)
          /\ IF c \in ModifierCodes THEN IsModifier(k) ELSE IsKey(k, ScanTable[c])
    BY <1>2 DEF PlainKey, Prefixes
  <2>2. Break[k] = <<BREAK_CODE, c>> /\ Make[k][1] = c /\ c # EXTENDED_CODE
    BY <2>1, TupleFacts, Zenon DEF Sends, Prefixes
  <2>3. CASE c \in ModifierCodes
    <3>1. TableMask(k) = Bits(ScanTable[c])
      BY <2>2, Zenon DEF TableMask
    <3>2. SwitchedOff(ScanTable[c], b, a)
      BY <2>1, <2>3, <3>1, ModifierGoesUp, Zenon
    <3>3. Broken(Break[k], "off", ScanTable[c])
      BY <2>2, <2>3 DEF Broken
    <3>4. QED
      BY <3>2, <3>3, Zenon DEF Phrase, OneOrTwo, Changed
  <2>4. CASE c \notin ModifierCodes
    <3>1. Released(ScanTable[c], b, a)
      BY <2>1, <2>4, KeyGoesUp, Zenon
    <3>2. Broken(Break[k], "release", ScanTable[c])
      BY <2>2, <2>4 DEF Broken
    <3>3. QED
      BY <3>1, <3>2, Zenon DEF Phrase, OneOrTwo, Changed
  <2>5. QED
    BY <2>3, <2>4, Zenon
<1>3. CASE ExtendedKey(k)
  <2>1. PICK c \in 0..255 \ {SYS_REQ} :
          /\ Sends(k, <<EXTENDED_CODE, c>>, <<EXTENDED_CODE, BREAK_CODE, c>>, <<EXTENDED_CODE, c>>)
          /\ IF ExtTable[c] \in ExtModifiers THEN IsModifier(k) ELSE IsKey(k, ExtTable[c])
    BY <1>3, Zenon DEF ExtendedKey, SYS_REQ
  <2>2. /\ Break[k] = <<EXTENDED_CODE, BREAK_CODE, c>>
        /\ Make[k][1] = EXTENDED_CODE /\ Make[k][2] = c
    BY <2>1, TupleFacts, Zenon DEF Sends
  <2>3. CASE ExtTable[c] \in ExtModifiers
    <3>1. TableMask(k) = Bits(ExtTable[c])
      BY <2>2, Zenon DEF TableMask
    <3>2. SwitchedOff(ExtTable[c], b, a)
      BY <2>1, <2>3, <3>1, ModifierGoesUp, Zenon
    <3>3. ExtendedBroken(Break[k], "off", ExtTable[c])
      BY <2>2, <2>3, Zenon DEF ExtendedBroken
    <3>4. QED
      BY <3>2, <3>3, Zenon DEF Phrase, OneOrTwo, Changed
  <2>4. CASE ExtTable[c] \notin ExtModifiers
    <3>1. Released(ExtTable[c], b, a)
      BY <2>1, <2>4, KeyGoesUp, Zenon
    <3>2. ExtendedBroken(Break[k], "release", ExtTable[c])
      BY <2>2, <2>4 DEF ExtendedBroken
    <3>3. QED
      BY <3>1, <3>2, Zenon DEF Phrase, OneOrTwo, Changed
  <2>5. QED
    BY <2>3, <2>4, Zenon
<1>4. CASE WrappedKey(k)
  <2>1. PICK c \in 0..255 \ {SYS_REQ} :
          /\ Break[k] = <<EXTENDED_CODE, BREAK_CODE, c, EXTENDED_CODE, BREAK_CODE, FAKE_SHIFT>>
          /\ ExtTable[c] \notin ExtModifiers /\ IsKey(k, ExtTable[c])
    BY <1>4, Zenon DEF WrappedKey, Sends, SYS_REQ, FAKE_SHIFT
  <2> DEFINE x == <<EXTENDED_CODE, BREAK_CODE, c>>
             y == <<EXTENDED_CODE, BREAK_CODE, FAKE_SHIFT>>
  <2>2. Released(ExtTable[c], b, a)
    BY <2>1, KeyGoesUp, Zenon
  <2>3. ExtendedBroken(x, "release", ExtTable[c])
    BY <2>1 DEF ExtendedBroken
  <2>4. ExtendedBroken(y, "release", KEY_UNKNOWN)
    <3>1. FAKE_SHIFT \in 0..255 \ {SYS_REQ}
      BY CodeFacts
    <3>2. ExtTable[FAKE_SHIFT] = KEY_UNKNOWN /\ KEY_UNKNOWN \notin ExtModifiers
      BY KeyboardAssumption DEF FAKE_SHIFT
    <3>3. QED
      BY <3>1, <3>2, Zenon DEF ExtendedBroken
  <2>5. Break[k] = x \o y
    BY <2>1
  <2> HIDE DEF x, y
  <2>6. Phrase(x, "release", ExtTable[c]) /\ Phrase(y, "release", KEY_UNKNOWN)
        /\ Changed("release", ExtTable[c], b, a)
    BY <2>2, <2>3, <2>4, Zenon DEF Phrase, Changed
  <2>7. OneOrTwo(Break[k], "release", ExtTable[c])
    BY <2>5, <2>6, Zenon DEF OneOrTwo
  <2>8. QED
    BY <2>6, <2>7, Zenon
<1>5. CASE PrintScreen(k)
  <2>1. Break[k] = sys_req_break /\ IsKey(k, SysRqKey)
    BY <1>5 DEF PrintScreen, Sends
  <2>2. Released(SysRqKey, b, a)
    BY <2>1, KeyGoesUp, Zenon
  <2>3. SysReqBreak(Break[k], "release", SysRqKey)
    BY <2>1 DEF SysReqBreak
  <2>4. QED
    BY <2>2, <2>3, Zenon DEF Phrase, OneOrTwo, Changed
<1>6. QED
  BY <1>2, <1>3, <1>4, <1>5, KeyboardAssumption, Zenon

-----------------------------------------------------------------------------
(***************************************************************************)
(* The keyboard sends.                                                     *)
(***************************************************************************)
\* A stream that tells more than before is still understood.
LEMMA SentIsUnderstood ==
  ASSUME UNCHANGED translatorVars, lost' = lost, Stream' # <<>>,
         NEW tags, NEW now, Understood(tags, now),
         NEW more, Tells(Stream', more, now, EndMoment'), BeginsLike(more, tags, Stream)
  PROVE  Understood(more, now)'
<1>1. Shows(now)'
  BY UnchangedShows DEF translatorVars, Understood
<1>2. Reading(more[1].phrase.codes, more[1].pos, at', i')
  <2>1. at' = at /\ i' = i
    BY DEF translatorVars
  <2>2. CASE Stream = <<>>
    BY <2>1, <2>2, Zenon DEF BeginsLike, Understood, Reading
  <2>3. CASE Stream # <<>>
    BY <2>1, <2>3, Zenon DEF BeginsLike, Understood
  <2>4. QED
    BY <2>2, <2>3
<1>3. QED
  BY <1>1, <1>2 DEF Understood

\* What the keyboard begins to send when nothing is on the wire.
Sent(codes) == wire = <<>> /\ wire' = codes /\ UNCHANGED <<translatorVars, queueVars, lost>>

\* What is sent comes after everything under way.
LEMMA SentExtends ==
  ASSUME PathInv, NEW codes \in Seq(Codes), Sent(codes)
  PROVE  Stream' = Stream \o codes
<1>1. handover \o rx_msg_que \in Seq(Codes)
  BY DEF PathInv, Queue!QueueTypeOK
<1>2. (handover \o rx_msg_que) \o <<>> = handover \o rx_msg_que
  BY <1>1
<1>3. QED
  BY <1>2 DEF Sent, Stream, Queue!InTransit, queueVars

\* The stream is understood when a phrase is sent ...
LEMMA OnePhraseIsUnderstood ==
  ASSUME PathInv, NEW codes \in Seq(Codes), Sent(codes),
         NEW tags, NEW now, Understood(tags, now),
         NEW b, NEW a, b = EndMoment, a = EndMoment', IsMoment(b), IsMoment(a),
         NEW op, NEW arg, Phrase(codes, op, arg), Changed(op, arg, b, a)
  PROVE  \E more, then : Understood(more, then)'
<1> DEFINE x == [codes |-> codes, op |-> op, arg |-> arg, before |-> b, after |-> a]
<1>1. IsPhrase(x) /\ x.before = b /\ x.after = a /\ x.codes = codes
  BY DEF IsPhrase
<1> HIDE DEF x
<1>2. Stream \in Seq(Codes) /\ Tells(Stream, tags, now, b) /\ Stream' = Stream \o codes
  BY StreamType, SentExtends DEF Understood
<1>3. PICK more : Tells(Stream \o x.codes, more, now, x.after) /\ BeginsLike(more, tags, Stream)
  <2>1. x.before = b /\ x.codes \in Seq(Codes)
    BY <1>1, Zenon
  <2>2. QED
    BY <1>1, <1>2, <2>1, TellsMore, Zenon
<1>4. Tells(Stream', more, now, EndMoment')
  BY <1>1, <1>2, <1>3, Zenon
<1>5. Stream' # <<>>
  <2>1. codes # <<>>
    BY PhraseNotEmpty, Zenon
  <2>2. QED
    BY <1>2, <2>1, NotEmpty, Zenon
<1>6. UNCHANGED translatorVars /\ lost' = lost
  BY DEF Sent
<1>7. QED
  BY <1>3, <1>4, <1>5, <1>6, SentIsUnderstood, Zenon

\* ... and when two are, the second of which changes nothing.
LEMMA TwoPhrasesAreUnderstood ==
  ASSUME PathInv, NEW first \in Seq(Codes), NEW second \in Seq(Codes), Sent(first \o second),
         NEW tags, NEW now, Understood(tags, now),
         NEW b, NEW a, b = EndMoment, a = EndMoment', IsMoment(b), IsMoment(a),
         NEW op, NEW arg, Phrase(first, op, arg), Changed(op, arg, b, a),
         Phrase(second, "release", KEY_UNKNOWN)
  PROVE  \E more, then : Understood(more, then)'
<1> DEFINE x == [codes |-> first, op |-> op, arg |-> arg, before |-> b, after |-> a]
           y == [codes |-> second, op |-> "release", arg |-> KEY_UNKNOWN, before |-> a, after |-> a]
<1>1. IsPhrase(x) /\ x.before = b /\ x.after = a /\ x.codes = first
  BY DEF IsPhrase
<1>2. IsPhrase(y) /\ y.before = a /\ y.after = a /\ y.codes = second
  BY Zenon DEF IsPhrase, Changed, Released
<1> HIDE DEF x, y
<1>3. /\ first \o second \in Seq(Codes) /\ Stream \in Seq(Codes)
      /\ Tells(Stream, tags, now, b)
  BY StreamType DEF Understood
<1>4. Stream' = Stream \o (first \o second)
  BY <1>3, SentExtends, Zenon
<1>5. PICK more :
        Tells(Stream \o (x.codes \o y.codes), more, now, y.after) /\ BeginsLike(more, tags, Stream)
  <2>1. x.before = b /\ x.codes \in Seq(Codes) /\ y.before = x.after /\ y.codes \in Seq(Codes)
    BY <1>1, <1>2
  <2>2. QED
    BY <1>1, <1>2, <1>3, <2>1, TellsTwice, Zenon
<1>6. Tells(Stream', more, now, EndMoment')
  BY <1>1, <1>2, <1>4, <1>5, Zenon
<1>7. Stream' # <<>>
  <2>1. first \o second # <<>>
    BY PhraseNotEmpty, NotEmpty, Zenon
  <2>2. QED
    BY <1>3, <1>4, <2>1, NotEmpty, Zenon
<1>8. UNCHANGED translatorVars /\ lost' = lost
  BY DEF Sent
<1>9. QED
  BY <1>5, <1>6, <1>7, <1>8, SentIsUnderstood, Zenon

\* The end of the stream is a moment.
LEMMA EndIsMoment == PathInv /\ held \subseteq Releasable => IsMoment(EndMoment)
<1> SUFFICES ASSUME PathInv, held \subseteq Releasable PROVE IsMoment(EndMoment)
  OBVIOUS
<1>1. lost \in Nat /\ crowded \in BOOLEAN
  BY KeyPathAssumption DEF PathInv
<1>2. EndMoment.held = held /\ (EndMoment.crowded <=> crowded \/ lost > 0)
      /\ EndMoment.crowded \in BOOLEAN /\ (lost = 0 => EndMoment.trusted = Key)
  BY <1>1, Zenon DEF EndMoment
<1>3. QED
  BY <1>1, <1>2 DEF IsMoment

\* The keys press adds to those held are keys release takes off again.
LEMMA PressedAreReleasable ==
  ASSUME held \subseteq Releasable, NEW k \in KeyNames, press(k)
  PROVE  held' \subseteq Releasable
<1>1. Break[k] # <<>> => k \in Releasable
  BY KeyFacts DEF PauseBreak
<1>2. QED
  BY <1>1, Zenon DEF press

\* press, repeat and release leave the stream understood.
LEMMA PressIsUnderstood ==
  ASSUME PathInv, PathInv', held \subseteq Releasable, NEW tags, NEW now, Understood(tags, now),
         NEW k \in KeyNames, press(k)
  PROVE  \E more, then : Understood(more, then)'
<1>1. held' \subseteq Releasable
  BY PressedAreReleasable
<1>2. PICK b, a : b = EndMoment /\ a = EndMoment'
  OBVIOUS
<1>3. IsMoment(b) /\ IsMoment(a)
  <2>1. (PathInv /\ held \subseteq Releasable => IsMoment(EndMoment))'
    BY <1>1, EndIsMoment, PTL
  <2>2. QED
    BY <1>1, <1>2, <2>1, EndIsMoment
<1>4. a.held = IF Break[k] = <<>> THEN b.held ELSE b.held \cup {k}
  BY <1>2, Zenon DEF press, EndMoment
<1>5. a.trusted \subseteq b.trusted
  BY <1>2, Zenon DEF press, EndMoment, UsagesOf, Plain
<1>6. a.crowded \/ (~b.crowded /\ ~TooMany(b.held \cup {k}))
  <2>1. lost \in Nat /\ lost' = lost
    BY KeyPathAssumption DEF PathInv, press
  <2>2. CASE lost = 0
    BY <1>2, <2>1, <2>2, Zenon DEF press, EndMoment
  <2>3. CASE lost > 0
    BY <1>2, <2>1, <2>3, Zenon DEF EndMoment
  <2>4. lost = 0 \/ lost > 0
    BY <2>1
  <2>5. QED
    BY <2>2, <2>3, <2>4, Zenon
<1>7. PICK op, arg : Phrase(Make[k], op, arg) /\ Changed(op, arg, b, a)
  BY <1>4, <1>5, <1>6, PressIsPhrase, Zenon
<1>8. Make[k] \in Seq(Codes) /\ Sent(Make[k])
  BY KeyPathAssumption DEF press, Sent
<1>9. QED
  BY <1>1, <1>2, <1>3, <1>7, <1>8, OnePhraseIsUnderstood

\* ... repeat ...
LEMMA RepeatIsUnderstood ==
  ASSUME PathInv, held \subseteq Releasable, NEW tags, NEW now, Understood(tags, now), repeat
  PROVE  \E more, then : Understood(more, then)'
<1>1. PICK k : k = last /\ k \in held /\ k \in Releasable /\ k \in KeyNames
  BY DEF PathInv, repeat
<1>2. PICK m : m = EndMoment
  OBVIOUS
<1>3. IsMoment(m) /\ k \in m.held
  BY <1>1, <1>2, EndIsMoment, Zenon DEF EndMoment
<1>4. m = EndMoment'
  BY <1>2, Zenon DEF EndMoment, repeat, history, UsagesOf, Plain
<1>5. PICK op, arg : Phrase(Repeat[k], op, arg) /\ Changed(op, arg, m, m)
  BY <1>1, <1>3, RepeatIsPhrase, Zenon DEF IsMoment
<1>6. Repeat[k] \in Seq(Codes) /\ Sent(Repeat[k])
  BY <1>1, KeyPathAssumption DEF repeat, Sent, history
<1>7. QED
  BY <1>2, <1>3, <1>4, <1>5, <1>6, OnePhraseIsUnderstood, Zenon

\* The parts of a sequence of the keyboard's codes.
LEMMA PartsAreCodes ==
  ASSUME NEW x \in Seq(0..255), NEW y \in Seq(0..255), x \o y \in Seq(Codes)
  PROVE  x \in Seq(Codes) /\ y \in Seq(Codes)
OBVIOUS

\* ... and release, whose sequence is one phrase or two.
LEMMA ReleaseIsUnderstood ==
  ASSUME PathInv, PathInv', held \subseteq Releasable, NEW tags, NEW now, Understood(tags, now),
         NEW k \in KeyNames, release(k)
  PROVE  \E more, then : Understood(more, then)'
<1>1. k \in held /\ k \in Releasable /\ held' \subseteq Releasable /\ held' = held \ {k}
  BY DEF release
<1>2. PICK b, a : b = EndMoment /\ a = EndMoment'
  OBVIOUS
<1>3. IsMoment(b) /\ IsMoment(a)
  <2>1. (PathInv /\ held \subseteq Releasable => IsMoment(EndMoment))'
    BY EndIsMoment, PTL
  <2>2. QED
    BY <1>1, <1>2, <2>1, EndIsMoment
<1>4. k \in b.held /\ a.held = b.held \ {k}
  BY <1>1, <1>2 DEF EndMoment
<1>5. a.trusted \subseteq b.trusted \cup {Usage[k]}
  <2>1. lost' = lost /\ clean' \subseteq clean \cup {k}
    BY DEF release
  <2>2. QED
    BY <1>2, <2>1 DEF EndMoment, UsagesOf, Plain
<1>6. a.crowded \/ ~b.crowded \/ a.held = {}
  <2>1. lost' = lost /\ (crowded' <=> crowded /\ held' # {})
    BY Zenon DEF release
  <2>2. QED
    BY <1>2, <2>1 DEF EndMoment
<1>7. PICK op, arg : OneOrTwo(Break[k], op, arg) /\ Changed(op, arg, b, a)
  BY <1>1, <1>4, <1>5, <1>6, ReleaseIsPhrase, Zenon
<1>8. Break[k] \in Seq(Codes) /\ Sent(Break[k])
  BY KeyPathAssumption DEF release, Sent
<1>9. CASE Phrase(Break[k], op, arg)
  BY <1>2, <1>3, <1>7, <1>8, <1>9, OnePhraseIsUnderstood
<1>10. ASSUME NEW x, NEW y, Phrase(x, op, arg), Phrase(y, "release", KEY_UNKNOWN), Break[k] = x \o y
       PROVE  \E more, then : Understood(more, then)'
  <2>1. x \in Seq(Codes) /\ y \in Seq(Codes)
    <3>1. x \in Seq(0..255) /\ y \in Seq(0..255)
      BY <1>10, PhraseTypes
    <3>2. x \o y \in Seq(Codes)
      BY <1>8, <1>10
    <3>3. QED
      BY <3>1, <3>2, PartsAreCodes
  <2>2. Sent(x \o y)
    BY <1>8, <1>10
  <2>3. QED
    BY <1>2, <1>3, <1>7, <1>10, <2>1, <2>2, TwoPhrasesAreUnderstood
<1>11. QED
  BY <1>7, <1>9, <1>10, Zenon DEF OneOrTwo
=============================================================================
