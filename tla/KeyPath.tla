------------------------------ MODULE KeyPath ------------------------------
(***************************************************************************)
(* From the physical keys to the report: a keyboard (external) that sends  *)
(* make, break and repeat sequences, the message queue of ps2_connector.c, *)
(* and the keyboard thread, which parses one code for each message.        *)
(* Framing and bit order are PS2Connector's; here a message is its code.   *)
(***************************************************************************)
EXTENDS HidTranslator, FiniteSets

CONSTANTS QueueSize,  \* PS2_MSG_QUE_SIZE
          KeyNames,   \* the keys of the keyboard
          Make, Break, Repeat,  \* the code sequences of each key
          Usage,      \* the HID usage each key stands for, 0 for a modifier
          Mask,       \* the modifier bits each key stands for
          MaxLosses   \* bound: codes the queue refuses because the thread lags

ASSUME KeyPathAssumption ==
  /\ QueueSize \in Nat \ {0}
  /\ {Make, Break, Repeat} \subseteq [KeyNames -> Seq(Codes)]
  /\ Usage \in [KeyNames -> Key]
  /\ Mask \in [KeyNames -> SUBSET (0..7)]
  /\ MaxLosses \in Nat

\* What a key of the keyboard stands for in the tables.
IsKey(k, key) == Usage[k] = key /\ key # KEY_UNKNOWN /\ Mask[k] = {}
IsModifier(k) == Usage[k] = KEY_UNKNOWN /\ Mask[k] # {}

Sends(k, make, break, again) == Make[k] = make /\ Break[k] = break /\ Repeat[k] = again

\* The keys by the shape of their sequences.
PlainKey(k) ==
  \E c \in 0..254 \ {EXTENDED_CODE, BREAK_CODE, PAUSE_CODE} :
    /\ Sends(k, <<c>>, <<BREAK_CODE, c>>, <<c>>)
    /\ IF c \in ModifierCodes THEN IsModifier(k) ELSE IsKey(k, ScanTable[c])

ExtendedKey(k) ==
  \E c \in 0..255 \ {BREAK_CODE, At(sys_req_make, 1), At(sys_req_make, 3)} :
    /\ Sends(k, <<EXTENDED_CODE, c>>, <<EXTENDED_CODE, BREAK_CODE, c>>, <<EXTENDED_CODE, c>>)
    /\ IF ExtTable[c] \in ExtModifiers THEN IsModifier(k) ELSE IsKey(k, ExtTable[c])

\* One that the keyboard wraps in a fake shift (Num Lock is on).
WrappedKey(k) ==
  \E c \in 0..255 \ {BREAK_CODE, At(sys_req_make, 1), At(sys_req_make, 3)} :
    /\ Sends(k, <<EXTENDED_CODE, At(sys_req_make, 1), EXTENDED_CODE, c>>,
             <<EXTENDED_CODE, BREAK_CODE, c, EXTENDED_CODE, BREAK_CODE, At(sys_req_make, 1)>>,
             <<EXTENDED_CODE, c>>)
    /\ ExtTable[c] \notin ExtModifiers /\ IsKey(k, ExtTable[c])

PrintScreen(k) ==
  /\ Sends(k, sys_req_make, sys_req_break, <<EXTENDED_CODE, At(sys_req_make, 3)>>)
  /\ IsKey(k, SysRqKey)

PauseBreak(k) == Make[k] = pause_break_code /\ Break[k] = <<>> /\ IsKey(k, PauseKey)

\* The keyboard has keys that the tables know, each with one make and one break
\* sequence; the tables keep prefixes, modifiers and keys apart.
ASSUME KeyboardAssumption ==
  /\ IsFiniteSet(KeyNames)
  /\ ModifierCodes \cap {EXTENDED_CODE, BREAK_CODE, PAUSE_CODE} = {}
  /\ ExtModifiers \cap {KEY_UNKNOWN, SysRqKey} = {}
  /\ ExtTable[At(sys_req_make, 1)] = KEY_UNKNOWN
  /\ \A k \in KeyNames :
       PlainKey(k) \/ ExtendedKey(k) \/ WrappedKey(k) \/ PrintScreen(k) \/ PauseBreak(k)

VARIABLES held,      \* keys the user holds down
          last,      \* the key that repeats, if any
          wire,      \* codes the keyboard has still to transmit
          rx_msg_que, reader, handover,
          lost,      \* history: how many codes the queue has refused
          crowded,   \* history: before any loss, more keys were held than a
                     \* report can show, or two of one usage, since all were
                     \* last up
          clean      \* history: keys released since the last loss, with
                     \* nothing else under way

Queue == INSTANCE RxQueue WITH Msg <- Codes

queueVars == <<rx_msg_que, reader, handover>>
keyboardVars == <<held, last, wire>>
history == <<lost, crowded, clean>>
vars == <<translatorVars, queueVars, keyboardVars, history>>

None == "none"

TypeOK ==
  /\ TranslatorTypeOK
  /\ Queue!QueueTypeOK
  /\ held \subseteq KeyNames
  /\ last \in held \cup {None}
  /\ wire \in Seq(Codes)
  /\ lost \in 0..MaxLosses /\ crowded \in BOOLEAN
  /\ clean \subseteq KeyNames

Init ==
  /\ TranslatorInit
  /\ rx_msg_que = <<>> /\ reader = "running" /\ handover = <<>>
  /\ held = {} /\ last = None /\ wire = <<>>
  /\ lost = 0 /\ crowded = FALSE /\ clean = {}

\* Nothing is under way between the keyboard and the report.
Settled == wire = <<>> /\ Queue!InTransit = <<>> /\ at = "top"

-----------------------------------------------------------------------------
(***************************************************************************)
(* The keyboard.  A key without a break sequence (Pause) is over as soon   *)
(* as it is pressed.                                                       *)
(***************************************************************************)
Plain(keys) == {k \in keys : Mask[k] = {}}
TooMany(keys) ==
  \/ Cardinality(Plain(keys)) > NSlots
  \/ \E k, l \in Plain(keys) : k # l /\ Usage[k] = Usage[l]

press(k) ==
  /\ wire = <<>> /\ k \notin held
  /\ wire' = Make[k]
  /\ held' = IF Break[k] = <<>> THEN held ELSE held \cup {k}
  /\ last' = IF Break[k] = <<>> THEN last ELSE k
  /\ crowded' = (lost = 0 /\ (crowded \/ TooMany(held \cup {k})))
  /\ clean' = clean \ {k}
  /\ UNCHANGED <<translatorVars, queueVars, lost>>

release(k) ==
  /\ wire = <<>> /\ k \in held
  /\ wire' = Break[k]
  /\ held' = held \ {k}
  /\ last' = IF last = k THEN None ELSE last
  /\ crowded' = (crowded /\ held' # {})
  /\ clean' = IF Settled /\ lost > 0 THEN clean \cup {k} ELSE clean
  /\ UNCHANGED <<translatorVars, queueVars, lost>>

repeat ==
  /\ wire = <<>> /\ last # None
  /\ wire' = Repeat[last]
  /\ UNCHANGED <<translatorVars, queueVars, held, last, history>>

\* A frame arrives and the interrupt puts its code in the queue.
receive ==
  /\ wire # <<>>
  /\ wire' = Tail(wire)
  /\ \/ /\ Queue!PutAccepted(Head(wire))
        /\ UNCHANGED history
     \/ /\ lost < MaxLosses
        /\ Queue!PutRefused
        /\ lost' = lost + 1 /\ crowded' = FALSE /\ clean' = {}
  /\ UNCHANGED <<translatorVars, held, last>>

-----------------------------------------------------------------------------
(***************************************************************************)
(* ps2_keyboard_thread.                                                    *)
(***************************************************************************)
parse_next ==
  /\ at # "pausing"
  /\ Queue!Get
  /\ parse_code(Queue!GetResult)
  /\ UNCHANGED <<keyboardVars, history>>

wait_for_code ==
  /\ at # "pausing"
  /\ Queue!GetPends
  /\ UNCHANGED <<translatorVars, keyboardVars, history>>

end_pause ==
  /\ press_pause_break_ends
  /\ UNCHANGED <<queueVars, keyboardVars, history>>

ps2_keyboard_thread == parse_next \/ wait_for_code \/ end_pause

Next ==
  \/ \E k \in KeyNames : press(k) \/ release(k)
  \/ repeat
  \/ receive
  \/ ps2_keyboard_thread

Spec == Init /\ [][Next]_vars

\* Codes that were begun are transmitted and parsed; the two together suffice.
FairSpec == Spec /\ WF_vars(receive \/ ps2_keyboard_thread)

-----------------------------------------------------------------------------
Reported == {report.keycode[s] : s \in Slots} \ {0}

\* When no code was lost and nothing is under way, the host is told of no key
\* that the user does not hold: press_key, release_key, the multi-byte
\* sequences and the overflow rule leave no key stuck.
NoPhantomKeys ==
  Settled /\ lost = 0 => Reported \subseteq {Usage[k] : k \in held}

\* A key the keyboard wraps in a fake shift: the parser takes the wrapping for
\* the start of sys_req_make and drops the key with it.
FakeShifted(k) ==
  /\ Len(Make[k]) > 2 /\ SubSeq(Make[k], 1, 2) = SubSeq(sys_req_make, 1, 2)
  /\ Make[k] # sys_req_make

\* ... and of every key the user holds, as long as no more were held at a time
\* than the report has slots, and no two of one usage; one in a fake shift shows
\* when it repeats, if not before.
HeldKeysAreReported ==
  Settled /\ lost = 0 /\ ~crowded =>
    {Usage[k] : k \in {l \in Plain(held) : ~FakeShifted(l)}} \subseteq Reported

\* The modifier byte has the mask of each modifier key that is held, in
\* whatever order modifiers were pressed and released.
ModifiersAreMasks ==
  Settled /\ lost = 0 => report.modifier = UNION {Mask[k] : k \in held}

\* Losses heal: after the queue has refused codes, and a key is left stuck,
\* pressing and releasing that key once more, on its own, clears it, unless the
\* user holds another key of the same usage.
RetypingClears ==
  Settled => \A k \in Plain(clean) :
               Usage[k] \in Reported => \E l \in held : Usage[l] = Usage[k]

\* When all keys are up the host is eventually told so, unless one is pressed
\* again first.
ReleaseIsReported ==
  (held = {} /\ lost = 0) ~> (held # {} \/ lost > 0 \/ Reported \cup report.modifier = {})
=============================================================================
