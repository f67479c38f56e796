--------------------------- MODULE KeyPathProofs ----------------------------
(***************************************************************************)
(* The translator keeps its type invariant, never has a key in two slots and *)
(* never keeps a change from the host, for all tables, any number of slots *)
(* and every sequence of codes.  Behind the queue it meets only codes the  *)
(* keyboard sends: KeyPath implements TranslatorSpec, so that all this holds *)
(* in the composition, losses included.                                    *)
(***************************************************************************)
EXTENDS KeyPath, TLAPS

\* The sequences parse_sequence matches, by name.
LEMMA MatchingFacts ==
  /\ DOMAIN Matching = {"pause", "make", "break"}
  /\ Len(Matching["pause"]) = 8 /\ Len(Matching["make"]) = 4 /\ Len(Matching["break"]) = 6
BY DEF Matching, pause_break_code, sys_req_make, sys_req_break

ReportVars == <<modifier, keycode, report>>

\* What all changes of the report keep.
ReportInv ==
  /\ modifier \subseteq 0..7
  /\ keycode \in [Slots -> Key]
  /\ NoKeyTwice
  /\ HostIsUpToDate

\* A change of the modifier byte.
LEMMA ModKeyKeepsReport ==
  ASSUME NEW key, ReportInv, press_mod_key(key) \/ release_mod_key(key)
  PROVE  ReportInv'
BY DEF ReportInv, press_mod_key, release_mod_key, hog_set_keyboard_input, Bits,
       NoKeyTwice, HostIsUpToDate

\* press_key looks for the key before it takes a slot.
LEMMA PressKeepsReport ==
  ASSUME NEW key \in Key, ReportInv, press_key(key)
  PROVE  ReportInv'
<1>1. CASE UNCHANGED ReportVars
  BY <1>1 DEF ReportInv, ReportVars, NoKeyTwice, HostIsUpToDate
<1>2. CASE /\ key # KEY_UNKNOWN /\ ~IsPressed(key)
           /\ \E s \in Slots : slot_for_key(s) /\ keycode' = [keycode EXCEPT ![s] = key]
           /\ UNCHANGED modifier
           /\ hog_set_keyboard_input
  <2>1. PICK s \in Slots : keycode' = [keycode EXCEPT ![s] = key]
    BY <1>2
  <2>2. keycode' \in [Slots -> Key]
    BY <2>1 DEF ReportInv
  <2>3. NoKeyTwice'
    BY <1>2, <2>1 DEF ReportInv, NoKeyTwice, IsPressed
  <2>4. QED
    BY <1>2, <2>2, <2>3 DEF ReportInv, HostIsUpToDate, hog_set_keyboard_input
<1>3. QED
  BY <1>1, <1>2 DEF press_key, ReportVars

\* release_key clears one slot.
LEMMA ReleaseKeepsReport ==
  ASSUME NEW key \in Key, ReportInv, release_key(key)
  PROVE  ReportInv'
<1>1. CASE UNCHANGED ReportVars
  BY <1>1 DEF ReportInv, ReportVars, NoKeyTwice, HostIsUpToDate
<1>2. CASE /\ \E s \in Slots : pos_at_pressed_keys(key, s)
                               /\ keycode' = [keycode EXCEPT ![s] = 0]
           /\ UNCHANGED modifier
           /\ hog_set_keyboard_input
  <2>1. PICK s \in Slots : keycode' = [keycode EXCEPT ![s] = 0]
    BY <1>2
  <2>2. keycode' \in [Slots -> Key]
    BY <2>1 DEF ReportInv, Key
  <2>3. NoKeyTwice'
    BY <2>1 DEF ReportInv, NoKeyTwice
  <2>4. QED
    BY <1>2, <2>2, <2>3 DEF ReportInv, HostIsUpToDate, hog_set_keyboard_input
<1>3. QED
  BY <1>1, <1>2 DEF release_key, ReportVars

LEMMA NoReportKeepsReport == ReportInv /\ NoReport => ReportInv'
BY DEF ReportInv, NoReport, NoKeyTwice, HostIsUpToDate

-----------------------------------------------------------------------------
\* Where the parser is, apart from the report.
ParserInv ==
  /\ at \in {"top", "ext", "ext_brk", "brk", "pausing"} \cup DOMAIN Matching
  /\ i \in IF at \in DOMAIN Matching THEN 1..(Len(Matching[at]) - 1) ELSE {0}

\* The inductive invariant.
IInv == ParserInv /\ ReportInv

LEMMA IInvImplies == IInv => TranslatorTypeOK /\ NoKeyTwice /\ HostIsUpToDate
BY DEF IInv, ParserInv, ReportInv, TranslatorTypeOK, HostIsUpToDate, Report

LEMMA InitIInv == TranslatorInit => IInv
<1> SUFFICES ASSUME TranslatorInit PROVE IInv
  OBVIOUS
<1>1. ParserInv
  BY MatchingFacts DEF ParserInv, TranslatorInit
<1>2. ReportInv
  BY DEF TranslatorInit, ReportInv, NoKeyTwice, HostIsUpToDate, Key, KEY_UNKNOWN
<1>3. QED
  BY <1>1, <1>2 DEF IInv

\* Every place the parser goes to has its index in range.
LEMMA GotoKeepsParser ==
  ASSUME NEW place \in {"top", "ext", "ext_brk", "brk", "pausing"}, Goto(place)
  PROVE  ParserInv'
BY MatchingFacts DEF Goto, ParserInv

LEMMA MatchKeepsParser ==
  ASSUME NEW sequence \in DOMAIN Matching,
         NEW n \in 1..(Len(Matching[sequence]) - 1), Match(sequence, n)
  PROVE  ParserInv'
BY MatchingFacts DEF Match, ParserInv

\* The three places where a sequence begins.
LEMMA MatchBegins ==
  ASSUME Match("pause", 1) \/ Match("make", 2) \/ Match("break", 3)
  PROVE  ParserInv'
<1>1. /\ 1 \in 1..(Len(Matching["pause"]) - 1)
      /\ 2 \in 1..(Len(Matching["make"]) - 1)
      /\ 3 \in 1..(Len(Matching["break"]) - 1)
  BY MatchingFacts
<1>2. QED
  BY <1>1, MatchKeepsParser, MatchingFacts, Zenon

LEMMA KeysLookedUp ==
  ASSUME NEW code \in 0..255
  PROVE  Looked(code) \subseteq Key /\ ExtTable[code] \in Key
<1>1. ExtTable[code] \in Key
  BY TranslatorAssumption
<1>2. CASE code = 255
  BY <1>1, <1>2, TranslatorAssumption DEF Looked
<1>3. CASE code # 255
  <2>1. code \in 0..254
    BY <1>3
  <2>2. ScanTable[code] \in Key
    BY <2>1, TranslatorAssumption
  <2>3. QED
    BY <1>1, <1>3, <2>2 DEF Looked
<1>4. QED
  BY <1>2, <1>3

\* Each call of ps2_connector_get_next_code, with any code it may return.
LEMMA ParseKeepsIInv ==
  ASSUME IInv, NEW code \in 0..255, parse_code(code)
  PROVE  IInv'
<1>0. ReportInv /\ ParserInv
  BY DEF IInv
<1>1. CASE parse_top(code)
  <2>1. ReportInv'
    BY <1>0, <1>1, KeysLookedUp, ModKeyKeepsReport, PressKeepsReport, NoReportKeepsReport
    DEF parse_top
  <2>2. ParserInv'
    BY <1>1, GotoKeepsParser, MatchBegins DEF parse_top
  <2>3. QED
    BY <2>1, <2>2 DEF IInv
<1>2. CASE parse_extended(code)
  <2>1. ReportInv'
    BY <1>0, <1>2, KeysLookedUp, ModKeyKeepsReport, PressKeepsReport, NoReportKeepsReport
    DEF parse_extended
  <2>2. ParserInv'
    BY <1>2, GotoKeepsParser, MatchBegins DEF parse_extended
  <2>3. QED
    BY <2>1, <2>2 DEF IInv
<1>3. CASE parse_extended_break(code)
  <2>1. ReportInv'
    BY <1>0, <1>3, KeysLookedUp, ModKeyKeepsReport, ReleaseKeepsReport, NoReportKeepsReport
    DEF parse_extended_break
  <2>2. ParserInv'
    BY <1>3, GotoKeepsParser, MatchBegins DEF parse_extended_break
  <2>3. QED
    BY <2>1, <2>2 DEF IInv
<1>4. CASE parse_break(code)
  <2>1. ReportInv'
    BY <1>0, <1>4, KeysLookedUp, ModKeyKeepsReport, ReleaseKeepsReport DEF parse_break
  <2>2. ParserInv'
    BY <1>4, GotoKeepsParser DEF parse_break
  <2>3. QED
    BY <2>1, <2>2 DEF IInv
<1>5. CASE parse_sequence(code)
  <2>1. ReportInv'
    BY <1>0, <1>5, PressKeepsReport, ReleaseKeepsReport, NoReportKeepsReport,
       TranslatorAssumption
    DEF parse_sequence
  <2>2. at \in DOMAIN Matching /\ i \in 1..(Len(Matching[at]) - 1)
    BY <1>0, <1>5 DEF parse_sequence, ParserInv
  <2>3. CASE Goto("top") \/ Goto("pausing")
    BY <2>1, <2>3, GotoKeepsParser DEF IInv
  <2>4. CASE i + 1 < Len(Matching[at]) /\ Match(at, i + 1)
    <3>1. i + 1 \in 1..(Len(Matching[at]) - 1)
      BY <2>2, <2>4, MatchingFacts
    <3>2. QED
      BY <2>1, <2>2, <2>4, <3>1, MatchKeepsParser DEF IInv
  <2>5. QED
    BY <1>5, <2>3, <2>4 DEF parse_sequence
<1>6. QED
  BY <1>1, <1>2, <1>3, <1>4, <1>5 DEF parse_code

LEMMA NextKeepsIInv == IInv /\ [TranslatorNext]_translatorVars => IInv'
<1> SUFFICES ASSUME IInv, [TranslatorNext]_translatorVars PROVE IInv'
  OBVIOUS
<1>1. CASE \E code \in Codes : parse_code(code)
  BY <1>1, ParseKeepsIInv, TranslatorAssumption
<1>2. CASE press_pause_break_ends
  BY <1>2, ReleaseKeepsReport, GotoKeepsParser, TranslatorAssumption
  DEF press_pause_break_ends, IInv
<1>3. CASE UNCHANGED translatorVars
  BY <1>3, MatchingFacts
  DEF translatorVars, IInv, ParserInv, ReportInv, NoKeyTwice, HostIsUpToDate
<1>4. QED
  BY <1>1, <1>2, <1>3 DEF TranslatorNext

-----------------------------------------------------------------------------
\* The parser and its report keep their types.
THEOREM TranslatorTypeCorrect == TranslatorSpec => []TranslatorTypeOK
BY InitIInv, NextKeepsIInv, IInvImplies, PTL DEF TranslatorSpec

\* No key is ever in two slots of the report (press_key, release_key).
THEOREM TranslatorNoKeyTwice == TranslatorSpec => []NoKeyTwice
BY InitIInv, NextKeepsIInv, IInvImplies, PTL DEF TranslatorSpec

\* key_report never differs from what hog_set_keyboard_input was last given.
THEOREM TranslatorHostIsUpToDate == TranslatorSpec => []HostIsUpToDate
BY InitIInv, NextKeepsIInv, IInvImplies, PTL DEF TranslatorSpec

-----------------------------------------------------------------------------
(***************************************************************************)
(* Which keys come into the report, and which of them can leave it again.  *)
(***************************************************************************)
HasBreak(key) ==
  \/ key \in {0, SysRqKey, PauseKey}
  \/ \E code \in 0..254 \ ModifierCodes : ScanTable[code] = key
  \/ \E code \in 0..255 \ {At(sys_req_break, 2)} : ExtTable[code] = key /\ key \notin ExtModifiers

\* A step brings at most this key into the report.
Brings(key) == \A s \in Slots : keycode'[s] \in {keycode[s], key}

LEMMA ReportBrings ==
  ASSUME ReportInv
  PROVE  /\ \A key : press_key(key) => Brings(key)
         /\ \A key : release_key(key) => Brings(0)
         /\ \A key : press_mod_key(key) => Brings(0)
         /\ \A key : release_mod_key(key) => Brings(0)
         /\ NoReport => Brings(0)
<1>1. ASSUME NEW key, press_key(key) PROVE Brings(key)
  BY <1>1 DEF press_key, Brings, ReportInv
<1>2. ASSUME NEW key, release_key(key) PROVE Brings(0)
  BY <1>2 DEF release_key, Brings, ReportInv
<1>3. ASSUME NEW key, press_mod_key(key) \/ release_mod_key(key) PROVE Brings(0)
  BY <1>3 DEF press_mod_key, release_mod_key, Brings
<1>4. ASSUME NoReport PROVE Brings(0)
  BY <1>4 DEF NoReport, Brings
<1>5. QED
  BY <1>1, <1>2, <1>3, <1>4

\* Keys a code can bring into the report by itself.
LEMMA LookedHaveBreak ==
  ASSUME NEW code \in Codes
  PROVE  /\ code \notin ModifierCodes => \A key \in Looked(code) : HasBreak(key) /\ key # PauseKey
         /\ ExtTable[code] \notin ExtModifiers => HasBreak(ExtTable[code])
         /\ ExtTable[code] # PauseKey
<1>1. code \in 0..255 /\ (code = 255 \/ code \in 0..254)
  BY TranslatorAssumption
<1>2. ASSUME code \notin ModifierCodes, NEW key \in Looked(code)
      PROVE  HasBreak(key) /\ key # PauseKey
  <2>1. CASE code = 255
    BY <1>2, <2>1, TableAssumption, TranslatorAssumption DEF Looked, HasBreak, KEY_UNKNOWN
  <2>2. CASE code # 255
    <3>1. code \in 0..254 \ ModifierCodes /\ key = ScanTable[code]
      BY <1>1, <1>2, <2>2 DEF Looked
    <3>2. QED
      BY <3>1, TableAssumption DEF HasBreak
  <2>3. QED
    BY <2>1, <2>2
<1>3. ASSUME ExtTable[code] \notin ExtModifiers PROVE HasBreak(ExtTable[code])
  <2>1. CASE code = At(sys_req_break, 2)
    BY <2>1, TableAssumption DEF HasBreak, KEY_UNKNOWN
  <2>2. CASE code # At(sys_req_break, 2)
    BY <1>1, <1>3, <2>2 DEF HasBreak
  <2>3. QED
    BY <2>1, <2>2
<1>4. QED
  BY <1>1, <1>2, <1>3, TableAssumption

\* A code brings a key that has a break sequence, and Pause only at the end of
\* its own sequence.
LEMMA ParseBrings ==
  ASSUME IInv, NEW code \in Codes, parse_code(code)
  PROVE  at # "pausing" /\ \E key : HasBreak(key) /\ Brings(key) /\ (key = PauseKey => at' = "pausing")
<1>0. HasBreak(0) /\ 0 # PauseKey /\ HasBreak(SysRqKey) /\ HasBreak(PauseKey) /\ SysRqKey # PauseKey
  BY TranslatorAssumption, TableAssumption DEF HasBreak, KEY_UNKNOWN
<1>1. ReportInv
  BY DEF IInv
<1>2. CASE parse_top(code)
  <2>1. at # "pausing"
    BY <1>2 DEF parse_top
  <2>2. CASE code \notin ModifierCodes /\ \E key \in Looked(code) : press_key(key)
    <3>1. PICK key \in Looked(code) : press_key(key)
      BY <2>2
    <3>2. HasBreak(key) /\ key # PauseKey
      BY <2>2, LookedHaveBreak
    <3>3. Brings(key)
      BY <1>1, <3>1, ReportBrings
    <3>4. QED
      BY <2>1, <3>2, <3>3
  <2>3. CASE NoReport \/ press_mod_key(ScanTable[code])
    BY <1>0, <1>1, <2>1, <2>3, ReportBrings, Zenon
  <2>4. QED
    BY <1>2, <2>2, <2>3 DEF parse_top
<1>3. CASE parse_extended(code)
  <2>1. at # "pausing"
    BY <1>3 DEF parse_extended
  <2>2. CASE ExtTable[code] \notin ExtModifiers /\ press_key(ExtTable[code])
    <3>1. HasBreak(ExtTable[code]) /\ ExtTable[code] # PauseKey
      BY <2>2, LookedHaveBreak
    <3>2. Brings(ExtTable[code])
      BY <1>1, <2>2, ReportBrings
    <3>3. QED
      BY <2>1, <3>1, <3>2
  <2>3. CASE NoReport \/ press_mod_key(ExtTable[code])
    BY <1>0, <1>1, <2>1, <2>3, ReportBrings, Zenon
  <2>4. QED
    BY <1>3, <2>2, <2>3 DEF parse_extended
<1>4. CASE parse_extended_break(code)
  <2>1. at # "pausing" /\ (NoReport \/ release_mod_key(ExtTable[code]) \/ release_key(ExtTable[code]))
    BY <1>4 DEF parse_extended_break
  <2>2. QED
    BY <1>0, <1>1, <2>1, ReportBrings, Zenon
<1>5. CASE parse_break(code)
  <2>1. at # "pausing" /\ (release_mod_key(ScanTable[code]) \/ \E key \in Looked(code) : release_key(key))
    BY <1>5 DEF parse_break
  <2>2. QED
    BY <1>0, <1>1, <2>1, ReportBrings, Zenon
<1>6. CASE parse_sequence(code)
  <2>1. at # "pausing"
    BY <1>6, MatchingFacts DEF parse_sequence
  <2>2. CASE NoReport \/ press_key(SysRqKey) \/ release_key(SysRqKey)
    BY <1>0, <1>1, <2>1, <2>2, ReportBrings, Zenon
  <2>3. CASE press_key(PauseKey) /\ Goto("pausing")
    <3>1. at' = "pausing"
      BY <2>3 DEF Goto
    <3>2. QED
      BY <1>0, <1>1, <2>1, <2>3, <3>1, ReportBrings, Zenon
  <2>4. QED
    BY <1>6, <2>2, <2>3 DEF parse_sequence
<1>7. QED
  BY <1>2, <1>3, <1>4, <1>5, <1>6 DEF parse_code

\* release_key(PauseKey) leaves no slot with the key.
LEMMA PauseIsReleased ==
  ASSUME ReportInv, release_key(PauseKey)
  PROVE  ~IsPressed(PauseKey)'
<1>1. PauseKey # 0
  BY TranslatorAssumption DEF KEY_UNKNOWN
<1>2. CASE ~IsPressed(PauseKey) /\ keycode' = keycode
  BY <1>2 DEF IsPressed
<1>3. ASSUME NEW s \in Slots, keycode[s] = PauseKey, keycode' = [keycode EXCEPT ![s] = 0]
      PROVE  ~IsPressed(PauseKey)'
  BY <1>1, <1>3 DEF IsPressed, ReportInv, NoKeyTwice
<1>4. QED
  BY <1>1, <1>2, <1>3 DEF release_key, pos_at_pressed_keys, KEY_UNKNOWN

KeysInv == IInv /\ EveryKeyHasABreak /\ PauseIsMomentary

LEMMA NextKeepsKeysInv == KeysInv /\ [TranslatorNext]_translatorVars => KeysInv'
<1> SUFFICES ASSUME KeysInv, [TranslatorNext]_translatorVars PROVE KeysInv'
  OBVIOUS
<1>1. IInv /\ IInv' /\ ReportInv /\ (IsPressed(PauseKey) => at = "pausing")
  BY NextKeepsIInv DEF KeysInv, IInv, PauseIsMomentary
<1>2. \A s \in Slots : HasBreak(keycode[s])
  BY DEF KeysInv, EveryKeyHasABreak, HasBreak
<1>3. ASSUME NEW key, HasBreak(key), Brings(key) PROVE EveryKeyHasABreak'
  <2>1. \A s \in Slots : HasBreak(keycode'[s])
    BY <1>2, <1>3 DEF Brings
  <2>2. QED
    BY <2>1 DEF EveryKeyHasABreak, HasBreak
<1>4. CASE \E code \in Codes : parse_code(code)
  <2>1. PICK key : HasBreak(key) /\ Brings(key) /\ (key = PauseKey => at' = "pausing")
    BY <1>1, <1>4, ParseBrings
  <2>2. at # "pausing"
    BY <1>1, <1>4, ParseBrings
  <2>3. PauseIsMomentary'
    BY <1>1, <2>1, <2>2 DEF PauseIsMomentary, IsPressed, Brings
  <2>4. QED
    BY <1>1, <1>3, <2>1, <2>3 DEF KeysInv
<1>5. CASE press_pause_break_ends
  <2>1. release_key(PauseKey)
    BY <1>5 DEF press_pause_break_ends
  <2>2. HasBreak(0) /\ Brings(0)
    BY <1>1, <2>1, ReportBrings DEF HasBreak
  <2>3. PauseIsMomentary'
    BY <1>1, <2>1, PauseIsReleased DEF PauseIsMomentary
  <2>4. QED
    BY <1>1, <1>3, <2>2, <2>3 DEF KeysInv
<1>6. CASE UNCHANGED translatorVars
  BY <1>1, <1>6 DEF translatorVars, KeysInv, EveryKeyHasABreak, PauseIsMomentary, IsPressed
<1>7. QED
  BY <1>4, <1>5, <1>6 DEF TranslatorNext

LEMMA InitKeysInv == TranslatorInit => KeysInv
<1> SUFFICES ASSUME TranslatorInit PROVE KeysInv
  OBVIOUS
<1>1. \A s \in Slots : keycode[s] = 0
  BY DEF TranslatorInit, KEY_UNKNOWN
<1>2. EveryKeyHasABreak
  BY <1>1 DEF EveryKeyHasABreak
<1>3. PauseIsMomentary
  BY <1>1, TranslatorAssumption DEF PauseIsMomentary, IsPressed, KEY_UNKNOWN
<1>4. QED
  BY <1>2, <1>3, InitIInv DEF KeysInv

\* The pause key, which has no break sequence, is in the report only while
\* press_pause_break sleeps.
THEOREM TranslatorPauseIsMomentary == TranslatorSpec => []PauseIsMomentary
<1>1. KeysInv => PauseIsMomentary
  BY DEF KeysInv
<1>2. QED
  BY <1>1, InitKeysInv, NextKeepsKeysInv, PTL DEF TranslatorSpec

\* No code can bring a key into the report that no code takes out again.
THEOREM TranslatorEveryKeyHasABreak == TranslatorSpec => []EveryKeyHasABreak
<1>1. KeysInv => EveryKeyHasABreak
  BY DEF KeysInv
<1>2. QED
  BY <1>1, InitKeysInv, NextKeepsKeysInv, PTL DEF TranslatorSpec

-----------------------------------------------------------------------------
(***************************************************************************)
(* From the keys to the report: KeyPath implements TranslatorSpec.         *)
(***************************************************************************)
\* Everything but the translator; a reader that was woken has its message.
PathInv ==
  /\ Queue!QueueTypeOK
  /\ reader = "handed" => handover # <<>>
  /\ held \subseteq KeyNames
  /\ last \in held \cup {None}
  /\ wire \in Seq(Codes)
  /\ lost \in 0..MaxLosses /\ crowded \in BOOLEAN
  /\ clean \subseteq KeyNames

LEMMA InitPathInv == Init => PathInv
<1> SUFFICES ASSUME Init PROVE PathInv
  OBVIOUS
<1>1. Queue!QueueTypeOK /\ reader # "handed"
  <2>1. rx_msg_que = <<>> /\ reader = "running" /\ handover = <<>> /\ QueueSize \in Nat
    BY KeyPathAssumption DEF Init
  <2>2. QED
    BY <2>1 DEF Queue!QueueTypeOK
<1>2. wire \in Seq(Codes) /\ lost \in 0..MaxLosses
  BY KeyPathAssumption DEF Init
<1>3. crowded \in BOOLEAN /\ clean \subseteq KeyNames /\ held \subseteq KeyNames
      /\ last \in held \cup {None}
  BY DEF Init
<1>4. QED
  BY <1>1, <1>2, <1>3 DEF PathInv

\* The queue changes by a put that is accepted or by a get.
LEMMA QueueKeeps ==
  ASSUME Queue!QueueTypeOK, reader = "handed" => handover # <<>>,
         \/ UNCHANGED queueVars
         \/ \E code \in Codes : Queue!PutAccepted(code)
         \/ Queue!Get
         \/ Queue!GetPends
  PROVE  Queue!QueueTypeOK' /\ (reader' = "handed" => handover' # <<>>)
<1>1. CASE UNCHANGED queueVars
  BY <1>1 DEF queueVars, Queue!QueueTypeOK
<1>2. ASSUME NEW code \in Codes, Queue!PutAccepted(code)
      PROVE  Queue!QueueTypeOK' /\ (reader' = "handed" => handover' # <<>>)
  <2>1. /\ rx_msg_que \in Seq(Codes) /\ handover \in Seq(Codes) /\ QueueSize \in Nat
        /\ Len(rx_msg_que) < QueueSize /\ Len(handover) <= 1
        /\ reader \in {"off", "running", "pended", "handed"}
    BY <1>2, KeyPathAssumption DEF Queue!PutAccepted, Queue!QueueFull, Queue!QueueTypeOK
  <2>2. CASE reader' = "handed" /\ handover' = <<code>> /\ rx_msg_que' = rx_msg_que
    BY <2>1, <2>2 DEF Queue!QueueTypeOK
  <2>3. CASE rx_msg_que' = Append(rx_msg_que, code) /\ reader' = reader /\ handover' = handover
    BY <2>1, <2>3 DEF Queue!QueueTypeOK
  <2>4. QED
    BY <1>2, <2>2, <2>3 DEF Queue!PutAccepted
<1>3. CASE Queue!GetQueued
  BY <1>3, KeyPathAssumption DEF Queue!GetQueued, Queue!QueueTypeOK
<1>4. CASE Queue!GetHanded
  BY <1>4 DEF Queue!GetHanded, Queue!QueueTypeOK
<1>5. CASE Queue!GetPends
  BY <1>5 DEF Queue!GetPends, Queue!QueueTypeOK
<1>6. QED
  BY <1>1, <1>2, <1>3, <1>4, <1>5 DEF Queue!Get

\* k_msgq_get returns a code.
LEMMA GetReturnsCode ==
  ASSUME PathInv, Queue!Get
  PROVE  Queue!GetResult \in Codes
<1>1. rx_msg_que \in Seq(Codes) /\ handover \in Seq(Codes)
  BY DEF PathInv, Queue!QueueTypeOK
<1>2. CASE Queue!GetQueued
  <2>1. rx_msg_que # <<>> /\ reader # "handed"
    BY <1>2 DEF Queue!GetQueued
  <2>2. Head(rx_msg_que) \in Codes
    BY <1>1, <2>1
  <2>3. QED
    BY <2>1, <2>2 DEF Queue!GetResult
<1>3. CASE Queue!GetHanded
  <2>1. reader = "handed" /\ handover # <<>>
    BY <1>3 DEF Queue!GetHanded, PathInv
  <2>2. handover[1] \in Codes
    BY <1>1, <2>1
  <2>3. QED
    BY <2>1, <2>2 DEF Queue!GetResult
<1>4. QED
  BY <1>2, <1>3 DEF Queue!Get

LEMMA NextPathInv == PathInv /\ [Next]_vars => PathInv'
<1> SUFFICES ASSUME PathInv, [Next]_vars PROVE PathInv'
  OBVIOUS
<1>0. /\ Queue!QueueTypeOK /\ (reader = "handed" => handover # <<>>)
      /\ held \subseteq KeyNames /\ last \in held \cup {None} /\ wire \in Seq(Codes)
      /\ lost \in 0..MaxLosses /\ crowded \in BOOLEAN /\ clean \subseteq KeyNames
  BY DEF PathInv
<1>1. \A k \in KeyNames : {Make[k], Break[k], Repeat[k]} \subseteq Seq(Codes)
  BY KeyPathAssumption
<1>2. ASSUME NEW k \in KeyNames, press(k) PROVE PathInv'
  <2>1. Queue!QueueTypeOK' /\ (reader' = "handed" => handover' # <<>>)
    BY <1>0, <1>2, QueueKeeps DEF press
  <2>2. held' \subseteq KeyNames /\ last' \in held' \cup {None} /\ clean' \subseteq KeyNames
    BY <1>0, <1>2 DEF press
  <2>3. wire' \in Seq(Codes) /\ lost' \in 0..MaxLosses /\ crowded' \in BOOLEAN
    BY <1>0, <1>1, <1>2 DEF press
  <2>4. QED
    BY <2>1, <2>2, <2>3 DEF PathInv
<1>3. ASSUME NEW k \in KeyNames, release(k) PROVE PathInv'
  <2>1. Queue!QueueTypeOK' /\ (reader' = "handed" => handover' # <<>>)
    BY <1>0, <1>3, QueueKeeps DEF release
  <2>2. held' \subseteq KeyNames /\ last' \in held' \cup {None} /\ clean' \subseteq KeyNames
    BY <1>0, <1>3 DEF release
  <2>3. wire' \in Seq(Codes) /\ lost' \in 0..MaxLosses /\ crowded' \in BOOLEAN
    BY <1>0, <1>1, <1>3 DEF release
  <2>4. QED
    BY <2>1, <2>2, <2>3 DEF PathInv
<1>4. CASE repeat
  <2>1. Queue!QueueTypeOK' /\ (reader' = "handed" => handover' # <<>>)
    BY <1>0, <1>4, QueueKeeps DEF repeat
  <2>2. last \in KeyNames
    BY <1>0, <1>4 DEF repeat
  <2>3. wire' \in Seq(Codes)
    BY <1>1, <1>4, <2>2 DEF repeat
  <2>4. QED
    BY <1>0, <1>4, <2>1, <2>3 DEF PathInv, repeat, history
<1>5. CASE receive
  <2>1. Head(wire) \in Codes /\ wire' \in Seq(Codes)
    BY <1>0, <1>5 DEF receive
  <2>2. UNCHANGED queueVars \/ Queue!PutAccepted(Head(wire))
    BY <1>5 DEF receive, Queue!PutRefused, Queue!queueVars, queueVars
  <2>3. Queue!QueueTypeOK' /\ (reader' = "handed" => handover' # <<>>)
    BY <1>0, <2>1, <2>2, QueueKeeps
  <2>4. lost' \in 0..MaxLosses /\ crowded' \in BOOLEAN /\ clean' \subseteq KeyNames
    <3>1. CASE UNCHANGED history
      BY <1>0, <3>1 DEF history
    <3>2. CASE lost < MaxLosses /\ lost' = lost + 1 /\ crowded' = FALSE /\ clean' = {}
      <4>1. lost' \in 0..MaxLosses
        BY <1>0, <3>2, KeyPathAssumption
      <4>2. QED
        BY <3>2, <4>1
    <3>3. QED
      BY <1>5, <3>1, <3>2 DEF receive
  <2>5. held' = held /\ last' = last
    BY <1>5 DEF receive
  <2>6. QED
    BY <1>0, <2>1, <2>3, <2>4, <2>5 DEF PathInv
<1>6. CASE ps2_keyboard_thread
  <2>1. UNCHANGED queueVars \/ Queue!Get \/ Queue!GetPends
    BY <1>6 DEF ps2_keyboard_thread, parse_next, wait_for_code, end_pause
  <2>2. Queue!QueueTypeOK' /\ (reader' = "handed" => handover' # <<>>)
    BY <1>0, <2>1, QueueKeeps
  <2>3. UNCHANGED <<keyboardVars, history>>
    BY <1>6 DEF ps2_keyboard_thread, parse_next, wait_for_code, end_pause
  <2>4. QED
    BY <1>0, <2>2, <2>3 DEF PathInv, keyboardVars, history
<1>7. CASE UNCHANGED vars
  <2>1. Queue!QueueTypeOK' /\ (reader' = "handed" => handover' # <<>>)
    BY <1>0, <1>7, QueueKeeps DEF vars
  <2>2. QED
    BY <1>0, <1>7, <2>1 DEF PathInv, vars, keyboardVars, history
<1>8. QED
  BY <1>2, <1>3, <1>4, <1>5, <1>6, <1>7 DEF Next

LEMMA StepOfTranslator == PathInv /\ [Next]_vars => [TranslatorNext]_translatorVars
<1> SUFFICES ASSUME PathInv, [Next]_vars PROVE [TranslatorNext]_translatorVars
  OBVIOUS
<1>1. CASE parse_next
  <2>1. Queue!GetResult \in Codes /\ parse_code(Queue!GetResult)
    BY <1>1, GetReturnsCode DEF parse_next
  <2>2. QED
    BY <2>1, Zenon DEF TranslatorNext
<1>2. CASE end_pause
  BY <1>2 DEF end_pause, TranslatorNext
<1>3. CASE UNCHANGED translatorVars
  BY <1>3
<1>4. QED
  BY <1>1, <1>2, <1>3 DEF Next, press, release, repeat, receive, ps2_keyboard_thread,
                          wait_for_code, vars

-----------------------------------------------------------------------------
\* The keyboard thread behind the queue does nothing that the translator, fed
\* any of the keyboard's codes, does not: ps2_connector_get_next_code never
\* returns with anything else.
THEOREM KeyPathImplementsTranslator == Spec => TranslatorSpec
<1>1. Init => TranslatorInit
  BY DEF Init
<1>2. QED
  BY <1>1, InitPathInv, NextPathInv, StepOfTranslator, PTL DEF Spec, TranslatorSpec

\* Keyboard, queue and translator keep their types: the queue stays within
\* PS2_MSG_QUE_SIZE and a reader is handed one code at a time.
THEOREM KeyPathTypeCorrect == Spec => []TypeOK
<1>1. PathInv /\ TranslatorTypeOK => TypeOK
  BY DEF PathInv, TypeOK
<1>2. Spec => []TranslatorTypeOK
  BY KeyPathImplementsTranslator, TranslatorTypeCorrect, PTL
<1>3. QED
  BY <1>1, <1>2, InitPathInv, NextPathInv, PTL DEF Spec

\* Whatever is typed and whichever codes the full queue refuses, no key is in
\* two slots of the report, and none that no code takes out again; Pause is
\* there during its sleep only.
THEOREM KeyPathKeepsReport == Spec => [](NoKeyTwice /\ EveryKeyHasABreak /\ PauseIsMomentary)
BY KeyPathImplementsTranslator, TranslatorNoKeyTwice, TranslatorEveryKeyHasABreak,
   TranslatorPauseIsMomentary, PTL
=============================================================================
