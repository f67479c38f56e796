-------------------------- MODULE KeyReportProofs --------------------------
(***************************************************************************)
(* What the report says of the keyboard: it shows the moment from which    *)
(* the codes on their way tell on, so once they are parsed it shows the    *)
(* keys that are held.                                                     *)
(***************************************************************************)
EXTENDS KeyStreamProofs, FiniteSetTheorems

\* There is a slot for one key more, if the keys are not too many: the keys the
\* report shows are held, and no key is in two slots.
LEMMA FreeSlot ==
  ASSUME ReportInv, NEW keys \in SUBSET KeyNames, ~TooMany(keys),
         NEW l \in Plain(keys), ~IsPressed(Usage[l]),
         \A s \in Slots : keycode[s] # 0 => keycode[s] \in UsagesOf(keys)
  PROVE  \E s \in Slots : keycode[s] = 0
<1> SUFFICES ASSUME \A s \in Slots : keycode[s] # 0 PROVE FALSE
  OBVIOUS
<1> DEFINE others == Plain(keys) \ {l}
           f == [s \in Slots |-> CHOOSE k \in others : Usage[k] = keycode[s]]
<1>1. ASSUME NEW s \in Slots PROVE \E k \in others : Usage[k] = keycode[s]
  <2>1. PICK k \in keys : Usage[k] = keycode[s]
    BY DEF UsagesOf
  <2>2. Mask[k] = {}
    BY <2>1, KeyFacts
  <2>3. k # l
    BY <2>1 DEF IsPressed
  <2>4. QED
    BY <2>1, <2>2, <2>3 DEF Plain
<1>2. f \in [Slots -> others] /\ \A s \in Slots : Usage[f[s]] = keycode[s]
  BY <1>1
<1>3. IsFiniteSet(Plain(keys)) /\ Cardinality(Plain(keys)) \in Nat /\ Cardinality(Plain(keys)) <= NSlots
  <2>1. IsFiniteSet(Plain(keys))
    BY FS_Subset, KeyboardAssumption DEF Plain
  <2>2. Cardinality(Plain(keys)) \in Nat
    BY <2>1, FS_CardinalityType
  <2>3. QED
    BY <2>1, <2>2, TranslatorAssumption DEF TooMany
<1>4. IsFiniteSet(others) /\ Cardinality(others) = Cardinality(Plain(keys)) - 1
  BY <1>3, FS_RemoveElement
<1>5. IsFiniteSet(Slots) /\ Cardinality(Slots) = NSlots
  <2>1. 0 \in Int /\ NSlots - 1 \in Int /\ ~(0 > NSlots - 1) /\ (NSlots - 1) - 0 + 1 = NSlots
    BY TranslatorAssumption
  <2>2. IsFiniteSet(0..(NSlots - 1)) /\ Cardinality(0..(NSlots - 1)) = (NSlots - 1) - 0 + 1
    BY <2>1, FS_Interval
  <2>3. QED
    BY <2>1, <2>2 DEF Slots
<1>6. Cardinality(others) < Cardinality(Slots)
  BY <1>3, <1>4, <1>5, TranslatorAssumption
<1>7. PICK s, t \in Slots : s # t /\ f[s] = f[t]
  <2> HIDE DEF f, others
  <2>1. QED
    BY <1>2, <1>4, <1>5, <1>6, FS_PigeonHole
<1>8. QED
  BY <1>2, <1>7 DEF ReportInv, NoKeyTwice

\* press_key, for a key that is pressed already or for which there is room.
LEMMA PressShows ==
  ASSUME ReportInv, NEW key \in Key, press_key(key),
         key # 0 /\ ~IsPressed(key) => \E s \in Slots : keycode[s] = 0
  PROVE  /\ key # 0 => IsPressed(key)'
         /\ \A other \in Key \ {0} : IsPressed(other) => IsPressed(other)'
<1>1. CASE keycode' = keycode /\ (key = 0 \/ IsPressed(key))
  BY <1>1 DEF IsPressed
<1>2. CASE /\ key # 0 /\ ~IsPressed(key)
           /\ \E s \in Slots : slot_for_key(s) /\ keycode' = [keycode EXCEPT ![s] = key]
  <2>1. PICK s \in Slots : slot_for_key(s) /\ keycode' = [keycode EXCEPT ![s] = key]
    BY <1>2, Zenon
  <2>2. keycode[s] = 0
    BY <1>2, <2>1 DEF slot_for_key
  <2>3. QED
    BY <2>1, <2>2 DEF IsPressed, ReportInv
<1>3. QED
  BY <1>1, <1>2 DEF press_key, KEY_UNKNOWN

\* press_key(key) brings the report from one moment to the next.
LEMMA PressedShows ==
  ASSUME ReportInv, at # "pausing", lost' = lost, NEW key \in Key, press_key(key),
         NEW b, NEW a, IsMoment(b), IsMoment(a), Pressed(key, b, a), Shows(b)
  PROVE  Shows(a)'
<1>1. Brings(key)
  BY ReportBrings, Zenon
<1>2. b.held \subseteq a.held /\ a.held \subseteq KeyNames /\ b.held \subseteq KeyNames
  BY DEF Pressed, IsMoment, Releasable
<1>3. UsagesOf(b.held) \subseteq UsagesOf(a.held)
  BY <1>2 DEF UsagesOf
<1>4. ShowsNoOther(a)'
  <2> SUFFICES ASSUME NEW s \in Slots, keycode'[s] # 0, keycode'[s] \in a.trusted
               PROVE  keycode'[s] \in UsagesOf(a.held)
    BY DEF ShowsNoOther, UsagesOf
  <2>1. CASE keycode'[s] = keycode[s]
    BY <1>3, <2>1 DEF Shows, ShowsNoOther, Pressed
  <2>2. CASE keycode'[s] = key
    BY <2>2 DEF Pressed, KEY_UNKNOWN
  <2>3. QED
    BY <1>1, <2>1, <2>2 DEF Brings
<1>5. ShowsMasks(a)'
  <2>1. modifier' = modifier
    BY DEF press_key
  <2>2. MasksOf(a.held) = MasksOf(b.held)
    BY <1>2 DEF MasksOf, Pressed
  <2>3. QED
    BY <2>1, <2>2 DEF Shows, ShowsMasks, MasksOf
<1>6. ASSUME ~a.crowded PROVE ~TooMany(a.held) /\ \A k \in Plain(a.held) : FakeShifted(k) \/ IsPressed(Usage[k])'
  <2>1. ~b.crowded /\ ~TooMany(b.held) /\ ~TooMany(a.held)
    BY <1>6 DEF Pressed, Shows, ShowsHeld
  <2>2. ASSUME key # 0, ~IsPressed(key) PROVE \E s \in Slots : keycode[s] = 0
    <3>1. PICK l \in a.held : Usage[l] = key
      BY <2>2 DEF Pressed, UsagesOf, KEY_UNKNOWN
    <3>2. l \in Plain(a.held)
      BY <1>2, <2>2, <3>1, KeyFacts DEF Plain
    <3>3. \A s \in Slots : keycode[s] # 0 => keycode[s] \in UsagesOf(a.held)
      BY <1>3, <2>1 DEF Shows, ShowsNoOther, IsMoment, ReportInv
    <3>4. QED
      BY <1>2, <2>1, <2>2, <3>1, <3>2, <3>3, FreeSlot
  <2>3. /\ key # 0 => IsPressed(key)'
        /\ \A other \in Key \ {0} : IsPressed(other) => IsPressed(other)'
    BY <2>2, PressShows
  <2>4. ASSUME NEW k \in Plain(a.held), ~FakeShifted(k) PROVE IsPressed(Usage[k])'
    <3>1. k \in KeyNames /\ Usage[k] \in Key \ {0}
      BY <1>2, KeyFacts, KeyPathAssumption DEF Plain
    <3>2. CASE k \in b.held
      <4>1. IsPressed(Usage[k])
        BY <2>1, <2>4, <3>2 DEF Plain, Shows, ShowsHeld
      <4>2. QED
        BY <2>3, <3>1, <4>1
    <3>3. CASE k \notin b.held
      BY <2>3, <2>4, <3>1, <3>3 DEF Pressed, Plain
    <3>4. QED
      BY <3>2, <3>3
  <2>5. QED
    BY <2>1, <2>4
<1>7. ShowsHeld(a)'
  BY <1>6 DEF ShowsHeld, TooMany, Plain, FakeShifted
<1>8. QED
  BY <1>4, <1>5, <1>7 DEF Shows

\* Fewer keys are not too many.
LEMMA TooManyMonotonic ==
  ASSUME NEW keys \in SUBSET KeyNames, NEW fewer \in SUBSET keys, ~TooMany(keys)
  PROVE  ~TooMany(fewer)
<1>1. IsFiniteSet(Plain(keys)) /\ Plain(fewer) \in SUBSET Plain(keys)
  BY FS_Subset, KeyboardAssumption DEF Plain
<1>2. /\ IsFiniteSet(Plain(fewer)) /\ Cardinality(Plain(fewer)) <= Cardinality(Plain(keys))
      /\ Cardinality(Plain(fewer)) \in Nat /\ Cardinality(Plain(keys)) \in Nat
  BY <1>1, FS_Subset, FS_CardinalityType
<1>3. ~(Cardinality(Plain(fewer)) > NSlots)
  BY <1>2, TranslatorAssumption DEF TooMany
<1>4. ~\E k, l \in Plain(fewer) : k # l /\ Usage[k] = Usage[l]
  BY <1>1 DEF TooMany
<1>5. QED
  BY <1>3, <1>4 DEF TooMany

\* No keys fit the report.
LEMMA NoneAreNotTooMany == ~TooMany({}) /\ Plain({}) = {}
<1>1. Plain({}) = {}
  BY DEF Plain
<1>2. Cardinality(Plain({})) = 0 /\ ~(0 > NSlots)
  BY <1>1, FS_EmptySet, TranslatorAssumption
<1>3. QED
  BY <1>1, <1>2 DEF TooMany

\* A modifier more or less.
LEMMA SwitchedOnShows ==
  ASSUME at # "pausing", lost' = lost, NEW key, press_mod_key(key),
         NEW b, NEW a, IsMoment(b), IsMoment(a), SwitchedOn(key, b, a), Shows(b)
  PROVE  Shows(a)'
<1>1. PICK k \in Releasable :
        a.held = b.held \cup {k} /\ IsModifier(k) /\ (MasksFit => Bits(key) = Mask[k])
  BY DEF SwitchedOn
<1>2. keycode' = keycode /\ modifier' = modifier \cup Bits(key)
  BY DEF press_mod_key
<1>3. ShowsNoOther(a)'
  <2>1. UsagesOf(b.held) \subseteq UsagesOf(a.held)
    BY <1>1 DEF UsagesOf
  <2>2. QED
    BY <1>2, <2>1 DEF Shows, ShowsNoOther, SwitchedOn, UsagesOf
<1>4. ShowsMasks(a)'
  <2>1. MasksOf(a.held) = MasksOf(b.held) \cup Mask[k]
    BY <1>1 DEF MasksOf
  <2>2. QED
    BY <1>1, <1>2, <2>1 DEF Shows, ShowsMasks, MasksOf
<1>5. ShowsHeld(a)'
  <2>1. Plain(a.held) = Plain(b.held)
    BY <1>1 DEF Plain, IsModifier
  <2>2. TooMany(a.held) <=> TooMany(b.held)
    BY <2>1 DEF TooMany
  <2>3. ~a.crowded => ~TooMany(a.held) /\ \A l \in Plain(a.held) : FakeShifted(l) \/ IsPressed(Usage[l])
    BY <2>1, <2>2 DEF Shows, ShowsHeld, SwitchedOn
  <2>4. QED
    BY <1>2, <2>3 DEF ShowsHeld, TooMany, Plain, FakeShifted, IsPressed
<1>6. QED
  BY <1>3, <1>4, <1>5 DEF Shows

\* release_mod_key takes the report from one moment to the next.
LEMMA SwitchedOffShows ==
  ASSUME at # "pausing", lost' = lost, NEW key, release_mod_key(key),
         NEW b, NEW a, IsMoment(b), IsMoment(a), SwitchedOff(key, b, a), Shows(b)
  PROVE  Shows(a)'
<1>1. PICK k \in b.held :
        a.held = b.held \ {k} /\ IsModifier(k) /\ (MasksFit => Bits(key) = Mask[k])
  BY DEF SwitchedOff
<1>2. keycode' = keycode /\ modifier' = modifier \ Bits(key) /\ b.held \subseteq KeyNames
  BY DEF release_mod_key, IsMoment, Releasable
<1>3. ShowsNoOther(a)'
  <2> SUFFICES ASSUME NEW s \in Slots, keycode[s] # 0, keycode[s] \in a.trusted
               PROVE  keycode[s] \in UsagesOf(a.held)
    BY <1>2 DEF ShowsNoOther, UsagesOf
  <2>1. keycode[s] \in UsagesOf(b.held)
    BY DEF Shows, ShowsNoOther, SwitchedOff, KEY_UNKNOWN
  <2>2. QED
    BY <1>1, <2>1 DEF UsagesOf, IsModifier, KEY_UNKNOWN
<1>4. ShowsMasks(a)'
  <2>1. MasksFit => MasksOf(a.held) = MasksOf(b.held) \ Mask[k]
    BY <1>1, <1>2 DEF MasksOf, MasksFit, IsModifier
  <2>2. QED
    BY <1>1, <1>2, <2>1 DEF Shows, ShowsMasks, MasksOf
<1>5. ShowsHeld(a)'
  <2>1. Plain(a.held) = Plain(b.held)
    BY <1>1 DEF Plain, IsModifier
  <2>2. TooMany(a.held) <=> TooMany(b.held)
    BY <2>1 DEF TooMany
  <2>3. ~a.crowded => ~TooMany(a.held) /\ \A l \in Plain(a.held) : FakeShifted(l) \/ IsPressed(Usage[l])
    BY <2>1, <2>2, NoneAreNotTooMany DEF Shows, ShowsHeld, SwitchedOff
  <2>4. QED
    BY <1>2, <2>3 DEF ShowsHeld, TooMany, Plain, FakeShifted, IsPressed
<1>6. QED
  BY <1>3, <1>4, <1>5 DEF Shows

\* release_key takes the key, and nothing else, out of the report.
LEMMA ReleaseShows ==
  ASSUME ReportInv, NEW key \in Key \ {0}, release_key(key)
  PROVE  /\ modifier' = modifier
         /\ \A s \in Slots : keycode'[s] \in {0, keycode[s]} \ {key}
         /\ \A other \in Key \ {0, key} : IsPressed(other) => IsPressed(other)'
<1>1. CASE ~IsPressed(key) /\ keycode' = keycode
  BY <1>1 DEF IsPressed, release_key, ReportInv
<1>2. ASSUME NEW s \in Slots, keycode[s] = key, keycode' = [keycode EXCEPT ![s] = 0]
      PROVE  /\ \A t \in Slots : keycode'[t] \in {0, keycode[t]} \ {key}
             /\ \A other \in Key \ {0, key} : IsPressed(other) => IsPressed(other)'
  <2>1. \A t \in Slots : keycode'[t] = IF t = s THEN 0 ELSE keycode[t]
    BY <1>2 DEF ReportInv
  <2>2. \A t \in Slots : keycode[t] = key => t = s
    BY <1>2 DEF ReportInv, NoKeyTwice
  <2>3. QED
    BY <1>2, <2>1, <2>2 DEF IsPressed
<1>3. QED
  BY <1>1, <1>2 DEF release_key, pos_at_pressed_keys, KEY_UNKNOWN

\* release_key takes the report from one moment to the next.
LEMMA ReleasedShows ==
  ASSUME ReportInv, at # "pausing", lost' = lost, NEW key \in Key, release_key(key),
         NEW b, NEW a, IsMoment(b), IsMoment(a), Released(key, b, a), Shows(b)
  PROVE  Shows(a)'
<1>1. CASE key = 0 /\ a = b
  <2>1. keycode' = keycode /\ modifier' = modifier
    BY <1>1 DEF release_key, KEY_UNKNOWN
  <2>2. QED
    BY <1>1, <2>1 DEF Shows, ShowsNoOther, ShowsMasks, ShowsHeld, UsagesOf, MasksOf, TooMany, Plain,
                      FakeShifted, IsPressed
<1>2. ASSUME NEW k \in b.held, IsKey(k, key), a.held = b.held \ {k},
             a.crowded \/ ~b.crowded \/ a.held = {}, a.trusted \subseteq b.trusted \cup {key}
      PROVE  Shows(a)'
  <2>1. /\ Usage[k] = key /\ key \in Key \ {0} /\ Mask[k] = {}
        /\ b.held \subseteq KeyNames /\ a.held \subseteq b.held
    BY <1>2 DEF IsKey, IsMoment, Releasable, KEY_UNKNOWN
  <2>2. /\ modifier' = modifier
        /\ \A s \in Slots : keycode'[s] \in {0, keycode[s]} \ {key}
        /\ \A other \in Key \ {0, key} : IsPressed(other) => IsPressed(other)'
    BY <2>1, ReleaseShows
  <2>3. ShowsNoOther(a)'
    <3> SUFFICES ASSUME NEW s \in Slots, keycode'[s] # 0, keycode'[s] \in a.trusted
                 PROVE  keycode'[s] \in UsagesOf(a.held)
      BY DEF ShowsNoOther, UsagesOf
    <3>1. keycode'[s] = keycode[s] /\ keycode[s] # key
      BY <2>2
    <3>2. keycode[s] \in UsagesOf(b.held)
      BY <1>2, <3>1 DEF Shows, ShowsNoOther
    <3>3. QED
      BY <1>2, <2>1, <3>1, <3>2 DEF UsagesOf
  <2>4. ShowsMasks(a)'
    <3>1. MasksOf(a.held) = MasksOf(b.held)
      BY <1>2, <2>1 DEF MasksOf
    <3>2. QED
      BY <2>2, <3>1 DEF Shows, ShowsMasks, MasksOf
  <2>5. ASSUME ~a.crowded, a.held # {}
        PROVE  ~TooMany(a.held) /\ \A l \in Plain(a.held) : FakeShifted(l) \/ IsPressed(Usage[l])'
    <3>1. ~TooMany(b.held) /\ \A l \in Plain(b.held) : FakeShifted(l) \/ IsPressed(Usage[l])
      BY <1>2, <2>5 DEF Shows, ShowsHeld
    <3>2. ~TooMany(a.held)
      BY <2>1, <3>1, TooManyMonotonic
    <3>3. ASSUME NEW l \in Plain(a.held), ~FakeShifted(l) PROVE IsPressed(Usage[l])'
      <4>1. l \in Plain(b.held) /\ k \in Plain(b.held) /\ l # k /\ l \in KeyNames
        BY <1>2, <2>1 DEF Plain
      <4>2. Usage[l] # key
        BY <2>1, <3>1, <4>1 DEF TooMany
      <4>3. Usage[l] \in Key \ {0, key}
        BY <4>1, <4>2, KeyFacts, KeyPathAssumption DEF Plain
      <4>4. QED
        BY <2>2, <3>1, <3>3, <4>1, <4>3
    <3>4. QED
      BY <3>2, <3>3
  <2>6. ShowsHeld(a)'
    BY <2>5, NoneAreNotTooMany, Zenon DEF ShowsHeld, TooMany, Plain, FakeShifted
  <2>7. QED
    BY <2>3, <2>4, <2>6 DEF Shows
<1>3. QED
  BY <1>1, <1>2 DEF Released, KEY_UNKNOWN

\* press_pause_break, before its sleep ...
LEMMA PausedShows ==
  ASSUME ReportInv, at # "pausing", at' = "pausing", lost' = lost, press_key(PauseKey),
         NEW b, NEW a, IsMoment(b), IsMoment(a), Paused(b, a), Shows(b)
  PROVE  Shows(a)'
<1>1. Brings(PauseKey) /\ PauseKey \in Key \ {0}
  BY ReportBrings, TranslatorAssumption DEF KEY_UNKNOWN
<1>2. PICK k \in KeyNames :
        IsKey(k, PauseKey) /\ (a.crowded \/ (~b.crowded /\ ~TooMany(b.held \cup {k})))
  BY DEF Paused
<1>3. a.held = b.held /\ b.held \subseteq KeyNames /\ a.trusted \subseteq b.trusted
  BY DEF Paused, IsMoment, Releasable
<1>4. ShowsNoOther(a)'
  BY <1>1, <1>3 DEF Brings, Shows, ShowsNoOther, UsagesOf
<1>5. ShowsMasks(a)'
  BY <1>3 DEF press_key, Shows, ShowsMasks, MasksOf
<1>6. ASSUME ~a.crowded
      PROVE  ~TooMany(a.held) /\ \A l \in Plain(a.held) : FakeShifted(l) \/ IsPressed(Usage[l])'
  <2>1. /\ ~b.crowded /\ ~TooMany(b.held) /\ ~TooMany(b.held \cup {k})
        /\ \A l \in Plain(b.held) : FakeShifted(l) \/ IsPressed(Usage[l])
    BY <1>2, <1>6 DEF Shows, ShowsHeld
  <2>2. ASSUME ~IsPressed(PauseKey) PROVE \E s \in Slots : keycode[s] = 0
    <3>1. k \in Plain(b.held \cup {k}) /\ Usage[k] = PauseKey
      BY <1>2 DEF Plain, IsKey
    <3>2. \A s \in Slots : keycode[s] # 0 => keycode[s] \in UsagesOf(b.held)
      BY <2>1 DEF Shows, ShowsNoOther, IsMoment, ReportInv
    <3>3. UsagesOf(b.held) \subseteq UsagesOf(b.held \cup {k})
      BY DEF UsagesOf
    <3>4. b.held \cup {k} \in SUBSET KeyNames
      BY <1>3
    <3>5. \A s \in Slots : keycode[s] # 0 => keycode[s] \in UsagesOf(b.held \cup {k})
      BY <3>2, <3>3
    <3>6. QED
      BY <2>1, <2>2, <3>1, <3>4, <3>5, FreeSlot, Zenon
  <2>3. \A other \in Key \ {0} : IsPressed(other) => IsPressed(other)'
    BY <1>1, <2>2, PressShows
  <2>4. ASSUME NEW l \in Plain(a.held), ~FakeShifted(l) PROVE IsPressed(Usage[l])'
    <3>1. Usage[l] \in Key \ {0} /\ l \in Plain(b.held)
      BY <1>3, KeyFacts, KeyPathAssumption DEF Plain
    <3>2. QED
      BY <2>1, <2>3, <2>4, <3>1
  <2>5. QED
    BY <1>3, <2>1, <2>4
<1>7. ShowsHeld(a)'
  BY <1>6 DEF ShowsHeld, TooMany, Plain, FakeShifted
<1>8. QED
  BY <1>4, <1>5, <1>7 DEF Shows

\* ... and after it.
LEMMA PauseEndsShows ==
  ASSUME ReportInv, lost' = lost, release_key(PauseKey), NEW m, IsMoment(m), Shows(m)
  PROVE  Shows(m)'
<1>1. PauseKey \in Key \ {0} /\ m.held \subseteq Releasable
  BY TranslatorAssumption DEF KEY_UNKNOWN, IsMoment
<1>2. /\ modifier' = modifier
      /\ \A s \in Slots : keycode'[s] \in {0, keycode[s]} \ {PauseKey}
      /\ \A other \in Key \ {0, PauseKey} : IsPressed(other) => IsPressed(other)'
  BY <1>1, ReleaseShows
<1>3. ShowsNoOther(m)'
  <2> SUFFICES ASSUME NEW s \in Slots, keycode'[s] # 0, keycode'[s] \in m.trusted
               PROVE  keycode'[s] \in UsagesOf(m.held)
    BY DEF ShowsNoOther, UsagesOf
  <2>1. keycode'[s] = keycode[s] /\ keycode[s] # PauseKey
    BY <1>2
  <2>2. QED
    BY <2>1 DEF Shows, ShowsNoOther
<1>4. ShowsMasks(m)'
  BY <1>2 DEF Shows, ShowsMasks, MasksOf
<1>5. ASSUME NEW l \in Plain(m.held), IsPressed(Usage[l]) PROVE IsPressed(Usage[l])'
  <2>1. Usage[l] \in Key \ {0, PauseKey}
    BY <1>1, KeyFacts, KeyPathAssumption DEF Plain, Releasable
  <2>2. QED
    BY <1>2, <1>5, <2>1
<1>6. ShowsHeld(m)'
  <2>1. ~m.crowded => ~TooMany(m.held) /\ \A l \in Plain(m.held) : FakeShifted(l) \/ IsPressed(Usage[l])'
    BY <1>5 DEF Shows, ShowsHeld
  <2>2. QED
    BY <2>1 DEF ShowsHeld, TooMany, Plain, FakeShifted
<1>7. QED
  BY <1>3, <1>4, <1>6 DEF Shows

\* Whatever the change, the report shows the next moment after it.
LEMMA DoesShows ==
  ASSUME ReportInv, at # "pausing", lost' = lost, NEW op, NEW key \in Key, Does(op, key),
         NEW b, NEW a, IsMoment(b), IsMoment(a), Changed(op, key, b, a), Shows(b)
  PROVE  Shows(a)'
<1>1. CASE op = "press"
  BY <1>1, PressedShows DEF Does, Changed
<1>2. CASE op = "release"
  BY <1>2, ReleasedShows DEF Does, Changed
<1>3. CASE op = "on"
  BY <1>3, SwitchedOnShows DEF Does, Changed
<1>4. CASE op = "off"
  BY <1>4, SwitchedOffShows DEF Does, Changed
<1>5. CASE op = "pause"
  <2>1. press_key(key) /\ key = PauseKey /\ at' = "pausing" /\ Paused(b, a)
    BY <1>5 DEF Does, Changed
  <2>2. press_key(PauseKey)
    BY <2>1
  <2>3. QED
    BY <2>1, <2>2, PausedShows
<1>6. QED
  BY <1>1, <1>2, <1>3, <1>4, <1>5 DEF Does

\* The parser reads a code.
LEMMA ParseUnderstands ==
  ASSUME ReportInv, PathInv, WaitInv, NEW tags, NEW now, Understood(tags, now), parse_next
  PROVE  \E rest, then : Understood(rest, then)'
<1>1. /\ Stream # <<>> /\ Queue!GetResult = Stream[1] /\ Stream' = Tail(Stream)
      /\ Stream \in Seq(Codes) /\ EndMoment' = EndMoment /\ lost' = lost /\ at # "pausing"
  <2>1. wire' = wire /\ Queue!Get /\ at # "pausing" /\ held' = held /\ UNCHANGED history
    BY DEF parse_next, keyboardVars
  <2>2. EndMoment' = EndMoment /\ lost' = lost
    BY <2>1 DEF EndMoment, history, Plain, UsagesOf
  <2>3. QED
    BY <2>1, <2>2, GetTakesFirst, StreamType
<1> DEFINE tag == tags[1]
           x == tag.phrase
<1>2. PICK code : code = Stream[1] /\ parse_code(code)
  BY <1>1 DEF parse_next
<1>3. /\ Tells(Stream, tags, now, EndMoment) /\ Shows(now) /\ IsMoment(now)
      /\ Reading(x.codes, tag.pos, at, i)
  BY <1>1 DEF Understood
<1>4. IsTag(tag, code) /\ now = x.before
  <2>1. 1 \in 1..Len(Stream)
    BY <1>1, HasFirst
  <2>2. QED
    BY <1>1, <1>2, <1>3, <2>1 DEF Tells
<1>5. /\ Phrase(x.codes, x.op, x.arg) /\ IsMoment(x.after) /\ Changed(x.op, x.arg, now, x.after)
      /\ tag.pos \in 1..Len(x.codes) /\ code = x.codes[tag.pos]
  BY <1>4 DEF IsTag, IsPhrase
<1>6. x.arg \in Key /\ Len(x.codes) \in 1..8
  BY <1>5, PhraseTypes
<1>7. Reads(x.codes, tag.pos, x.op, x.arg)
  BY <1>1, <1>2, <1>3, <1>5, ReadsPhrase, Zenon
<1>8. PICK rest :
        /\ Tells(Tail(Stream), rest, IF Ends(tag) THEN x.after ELSE now, EndMoment)
        /\ Tail(Stream) # <<>> => rest[1] = tags[2] /\ Follows(tag, tags[2])
        /\ Tail(Stream) = <<>> => Ends(tag)
  BY <1>1, <1>3, TellsTail
<1> HIDE DEF x, tag
<1>9. CASE Ends(tag)
  <2>1. Does(x.op, x.arg)
    BY <1>6, <1>7, <1>9 DEF Reads, Ends, x
  <2>2. Shows(x.after)'
    BY <1>1, <1>3, <1>5, <1>6, <2>1, DoesShows, Zenon
  <2>3. at' \in {"top", "pausing"}
    BY <2>1 DEF Does
  <2>4. Stream' # <<>> => rest[1].pos = 1
    BY <1>1, <1>8, <1>9 DEF Follows
  <2>5. Understood(rest, x.after)'
    BY <1>1, <1>5, <1>8, <1>9, <2>2, <2>3, <2>4, Zenon DEF Understood, Reading
  <2>6. QED
    BY <2>5
<1>10. CASE ~Ends(tag)
  <2>1. NoReport /\ at' # "pausing" /\ Reading(x.codes, tag.pos + 1, at', i')
    <3>1. tag.pos # Len(x.codes)
      BY <1>10 DEF Ends, x
    <3>2. tag.pos < Len(x.codes)
      BY <1>5, <1>6, <3>1
    <3>3. QED
      BY <1>7, <3>2, Zenon DEF Reads
  <2>2. Shows(now)'
    BY <1>1, <1>3, <2>1, UnchangedShows DEF NoReport
  <2>3. Stream' # <<>> /\ rest[1].pos = tag.pos + 1 /\ rest[1].phrase = x
    BY <1>1, <1>8, <1>10 DEF Follows, x
  <2>4. Understood(rest, now)'
    BY <1>1, <1>3, <1>8, <1>10, <2>1, <2>2, <2>3, Zenon DEF Understood
  <2>5. QED
    BY <2>4
<1>11. QED
  BY <1>9, <1>10

-----------------------------------------------------------------------------
(***************************************************************************)
(* The steps.                                                              *)
(***************************************************************************)
\* When the path is settled no code is under way.
LEMMA NothingUnderWay == Settled => Stream = <<>>
BY DEF Settled, Stream

\* With no usage to be trusted the report need not show anything: after losses
\* the stream is understood again from the first moment nothing is under way.
LEMMA FreshStart ==
  ASSUME PathInv, held \subseteq Releasable, Settled, lost # 0, clean = {}
  PROVE  \E tags, now : Understood(tags, now)
<1>1. PICK m : m = EndMoment
  OBVIOUS
<1>2. lost > 0 /\ Plain(clean) = {}
  BY KeyPathAssumption DEF PathInv, Plain
<1>3. m.trusted = {} /\ m.crowded
  BY <1>1, <1>2, Zenon DEF EndMoment, UsagesOf
<1>4. Shows(m)
  BY <1>3 DEF Shows, ShowsNoOther, ShowsMasks, ShowsHeld
<1>5. IsMoment(m)
  BY <1>1, EndIsMoment
<1>6. Stream = <<>> /\ at = "top"
  BY NothingUnderWay DEF Settled
<1>7. Understood(<<>>, m)
  <2>1. Tells(Stream, <<>>, m, m)
    BY <1>6 DEF Tells
  <2>2. QED
    BY <1>1, <1>4, <1>5, <1>6, <2>1 DEF Understood
<1>8. QED
  BY <1>7

\* The invariant holds at the start.
LEMMA InitStreamInv == Init => StreamInv
<1> SUFFICES ASSUME Init PROVE StreamInv
  OBVIOUS
<1>1. held = {} /\ lost = 0 /\ crowded = FALSE /\ at = "top" /\ modifier = {}
      /\ keycode = [s \in Slots |-> 0] /\ wire = <<>> /\ handover = <<>> /\ rx_msg_que = <<>>
      /\ reader = "running"
  BY DEF Init, TranslatorInit, KEY_UNKNOWN
<1>2. held \subseteq Releasable /\ WaitInv
  BY <1>1 DEF WaitInv
<1>3. PICK m : m = EndMoment
  OBVIOUS
<1>4. m.held = {}
  BY <1>1, <1>3 DEF EndMoment
<1>5. Shows(m)
  <2>1. ShowsNoOther(m)
    BY <1>1 DEF ShowsNoOther
  <2>2. ShowsMasks(m)
    BY <1>1, <1>4 DEF ShowsMasks, MasksOf
  <2>3. ShowsHeld(m)
    BY <1>4, NoneAreNotTooMany DEF ShowsHeld
  <2>4. QED
    BY <2>1, <2>2, <2>3 DEF Shows
<1>6. IsMoment(m)
  BY <1>2, <1>3, InitPathInv, EndIsMoment
<1>7. Settled
  BY <1>1 DEF Settled, Queue!InTransit
<1>8. Understood(<<>>, m)
  <2>1. Tells(Stream, <<>>, m, m)
    BY <1>7, NothingUnderWay DEF Tells
  <2>2. QED
    BY <1>1, <1>3, <1>5, <1>6, <1>7, <2>1, NothingUnderWay DEF Understood
<1>9. QED
  BY <1>2, <1>8 DEF StreamInv

\* A step that moves no code to or from the stream and leaves the parser alone.
LEMMA StreamUntouched ==
  ASSUME Stream' = Stream, UNCHANGED translatorVars, UNCHANGED history, held' = held,
         NEW tags, NEW now, Understood(tags, now)
  PROVE  Understood(tags, now)'
<1>1. at' = at /\ i' = i /\ keycode' = keycode /\ modifier' = modifier /\ lost' = lost
  BY DEF translatorVars, history
<1>2. Shows(now)'
  BY <1>1, UnchangedShows DEF Understood
<1>3. EndMoment' = EndMoment
  BY DEF EndMoment, history, UsagesOf, Plain
<1>4. QED
  BY <1>1, <1>2, <1>3 DEF Understood

\* The end of press_pause_break's sleep lets go of nothing that is held.
LEMMA PauseEndsUnderstood ==
  ASSUME ReportInv, NEW tags, NEW now, Understood(tags, now), end_pause
  PROVE  Understood(tags, now)'
<1>1. /\ at = "pausing" /\ at' = "top" /\ release_key(PauseKey)
      /\ UNCHANGED <<queueVars, keyboardVars, history>>
  BY DEF end_pause, press_pause_break_ends, Goto
<1>2. Stream' = Stream /\ EndMoment' = EndMoment /\ lost' = lost
  BY <1>1, Zenon DEF Stream, Queue!InTransit, queueVars, keyboardVars, history, EndMoment, UsagesOf, Plain
<1>3. Shows(now)'
  BY <1>1, <1>2, PauseEndsShows DEF Understood
<1>4. Stream # <<>> => tags[1].pos = 1
  BY <1>1, Zenon DEF Understood, Reading
<1>5. QED
  BY <1>1, <1>2, <1>3, <1>4, Zenon DEF Understood, Reading

\* Every step keeps the invariant.
LEMMA NextStreamInv ==
  ASSUME ReportInv, PathInv, PathInv', StreamInv, [Next]_vars
  PROVE  StreamInv'
<1>1. held \subseteq Releasable /\ WaitInv /\ (Heard => \E tags, now : Understood(tags, now))
  BY DEF StreamInv
<1>2. ASSUME NEW k \in KeyNames, press(k) PROVE StreamInv'
  <2>1. held' \subseteq Releasable
    BY <1>1, <1>2, PressedAreReleasable
  <2>2. WaitInv'
    BY <1>1, <1>2, Zenon DEF press, queueVars, WaitInv
  <2>3. Heard' => Heard
    BY <1>2 DEF press, Heard
  <2>4. Heard' => \E tags, now : Understood(tags, now)'
    BY <1>1, <1>2, <2>3, PressIsUnderstood
  <2>5. QED
    BY <2>1, <2>2, <2>4 DEF StreamInv
<1>3. ASSUME NEW k \in KeyNames, release(k) PROVE StreamInv'
  <2>1. held' \subseteq Releasable
    BY <1>1, <1>3 DEF release
  <2>2. WaitInv'
    BY <1>1, <1>3 DEF release, queueVars, WaitInv
  <2>3. Heard' => Heard \/ (Settled /\ lost # 0 /\ clean = {})
    BY <1>3 DEF release, Heard
  <2>4. Heard' => \E tags, now : Understood(tags, now)
    BY <1>1, <2>3, FreshStart
  <2>5. Heard' => \E tags, now : Understood(tags, now)'
    BY <1>1, <1>3, <2>4, ReleaseIsUnderstood
  <2>6. QED
    BY <2>1, <2>2, <2>5 DEF StreamInv
<1>4. CASE repeat
  <2>1. held' = held /\ WaitInv' /\ (Heard' => Heard)
    BY <1>1, <1>4 DEF repeat, queueVars, history, WaitInv, Heard
  <2>2. Heard' => \E tags, now : Understood(tags, now)'
    BY <1>1, <1>4, <2>1, RepeatIsUnderstood
  <2>3. QED
    BY <1>1, <2>1, <2>2 DEF StreamInv, Releasable
<1>5. CASE receive
  <2>1. wire # <<>> /\ wire' = Tail(wire) /\ UNCHANGED translatorVars /\ held' = held
    BY <1>5 DEF receive
  <2>2. CASE Queue!PutAccepted(Head(wire)) /\ UNCHANGED history
    <3>1. Stream' = Stream /\ WaitInv' /\ (Heard' => Heard)
      BY <1>1, <2>1, <2>2, PutKeepsStream DEF history, Heard
    <3>2. Heard' => \E tags, now : Understood(tags, now)'
      BY <1>1, <2>1, <2>2, <3>1, StreamUntouched
    <3>3. QED
      BY <1>1, <2>1, <3>1, <3>2 DEF StreamInv, Releasable
  <2>3. CASE Queue!PutRefused /\ lost' = lost + 1 /\ clean' = {}
    <3>1. lost' # 0
      BY <2>3, KeyPathAssumption DEF PathInv
    <3>2. ~Heard' /\ WaitInv'
      BY <1>1, <2>3, <3>1 DEF Heard, WaitInv, Queue!PutRefused, Queue!queueVars
    <3>3. QED
      BY <1>1, <2>1, <3>2 DEF StreamInv, Releasable
  <2>4. QED
    BY <1>5, <2>2, <2>3 DEF receive
<1>6. CASE parse_next
  <2>1. wire' = wire /\ Queue!Get /\ held' = held /\ (Heard' => Heard)
    BY <1>6 DEF parse_next, keyboardVars, history, Heard
  <2>2. WaitInv'
    BY <1>1, <2>1, GetTakesFirst
  <2>3. Heard' => \E tags, now : Understood(tags, now)'
    BY <1>1, <1>6, <2>1, ParseUnderstands
  <2>4. QED
    BY <1>1, <2>1, <2>2, <2>3 DEF StreamInv, Releasable
<1>7. CASE wait_for_code
  <2>1. UNCHANGED <<translatorVars, keyboardVars, history>> /\ Queue!GetPends
    BY <1>7 DEF wait_for_code
  <2>2. Stream' = Stream /\ WaitInv' /\ held' = held /\ (Heard' => Heard)
    BY <1>1, <2>1 DEF Queue!GetPends, Stream, Queue!InTransit, WaitInv, keyboardVars, history, Heard
  <2>3. Heard' => \E tags, now : Understood(tags, now)'
    BY <1>1, <2>1, <2>2, StreamUntouched
  <2>4. QED
    BY <1>1, <2>2, <2>3 DEF StreamInv, Releasable
<1>8. CASE end_pause
  <2>1. held' = held /\ WaitInv' /\ (Heard' => Heard)
    BY <1>1, <1>8 DEF end_pause, keyboardVars, queueVars, history, WaitInv, Heard
  <2>2. Heard' => \E tags, now : Understood(tags, now)'
    BY <1>1, <1>8, <2>1, PauseEndsUnderstood
  <2>3. QED
    BY <1>1, <2>1, <2>2 DEF StreamInv, Releasable
<1>9. CASE UNCHANGED vars
  <2>1. UNCHANGED <<translatorVars, queueVars, keyboardVars, history>>
    BY <1>9 DEF vars
  <2>2. Stream' = Stream /\ WaitInv' /\ held' = held /\ (Heard' => Heard)
    BY <1>1, <2>1 DEF Stream, Queue!InTransit, WaitInv, queueVars, keyboardVars, history, Heard
  <2>3. Heard' => \E tags, now : Understood(tags, now)'
    BY <1>1, <2>1, <2>2, StreamUntouched
  <2>4. QED
    BY <1>1, <2>2, <2>3 DEF StreamInv, Releasable
<1>10. QED
  BY <1>2, <1>3, <1>4, <1>5, <1>6, <1>7, <1>8, <1>9 DEF Next, ps2_keyboard_thread

-----------------------------------------------------------------------------
\* The inductive invariant of the key path.
LEMMA KeyPathInvariant == Spec => [](IInv /\ PathInv /\ StreamInv)
<1>1. Init => TranslatorInit
  BY DEF Init
<1>2. IInv => ReportInv
  BY DEF IInv
<1>3. PathInv /\ [Next]_vars => PathInv' /\ [TranslatorNext]_translatorVars
  BY NextPathInv, StepOfTranslator
<1>4. ReportInv /\ PathInv /\ PathInv' /\ StreamInv /\ [Next]_vars => StreamInv'
  BY NextStreamInv
<1>5. QED
  BY <1>1, <1>2, <1>3, <1>4, InitIInv, NextKeepsIInv, InitPathInv, InitStreamInv, PTL DEF Spec

\* The host has the report that the translator keeps.
LEMMA ReportedArePressed ==
  ASSUME IInv
  PROVE  report.modifier = modifier /\ \A key : key \in Reported <=> IsPressed(key) /\ key # 0
<1>1. report.modifier = modifier /\ report.keycode = keycode
  BY DEF IInv, ReportInv, HostIsUpToDate
<1>2. ASSUME NEW key PROVE key \in Reported <=> IsPressed(key) /\ key # 0
  BY <1>1 DEF Reported, IsPressed
<1>3. QED
  BY <1>1, <1>2

\* Once nothing is under way the report shows the keyboard as it is.
LEMMA SettledShows ==
  ASSUME StreamInv, Settled, Heard
  PROVE  \E m : m = EndMoment /\ Shows(m)
<1>1. PICK tags, now : Understood(tags, now)
  BY DEF StreamInv
<1>2. now = EndMoment /\ Shows(now)
  BY <1>1, NothingUnderWay DEF Understood, Tells
<1>3. QED
  BY <1>2, Zenon

\* What the report holds of the usages it can be trusted for is held.
LEMMA ReportedAreHeld ==
  ASSUME IInv, StreamInv, Settled, Heard, NEW key \in Reported,
         lost = 0 \/ key \in UsagesOf(Plain(clean))
  PROVE  \E k \in held : Usage[k] = key
<1>1. PICK m : m = EndMoment /\ Shows(m)
  BY SettledShows
<1>2. PICK s \in Slots : keycode[s] = key /\ key # 0
  BY ReportedArePressed DEF IsPressed
<1>3. key \in Key
  BY <1>2 DEF IInv, ReportInv
<1>4. key \in m.trusted /\ m.held = held
  BY <1>1, <1>3 DEF EndMoment
<1>5. at = "top"
  BY DEF Settled
<1>6. key \in UsagesOf(held)
  BY <1>1, <1>2, <1>4, <1>5 DEF Shows, ShowsNoOther
<1>7. QED
  BY <1>6 DEF UsagesOf

\* Whatever is typed on such a keyboard, in whatever order the interrupt and
\* the keyboard thread run, and however far the thread lags: if the queue
\* refused no code, no key stays in the report that the user has released
\* (press_key, release_key, the parser, Pause's sleep).
THEOREM KeyPathNoPhantomKeys == Spec => []NoPhantomKeys
<1>1. ASSUME IInv, StreamInv PROVE NoPhantomKeys
  BY <1>1, ReportedAreHeld DEF NoPhantomKeys, Heard
<1>2. QED
  BY <1>1, KeyPathInvariant, PTL

\* ... and each key that the user holds is in the report, unless more were held
\* than it has slots, or two of one usage, or its make sequence came in a fake
\* shift (slot_for_key).
THEOREM KeyPathHeldKeysAreReported == Spec => []HeldKeysAreReported
<1>1. ASSUME IInv, PathInv, StreamInv, Settled, lost = 0, ~crowded,
             NEW k \in Plain(held), ~FakeShifted(k)
      PROVE  Usage[k] \in Reported
  <2>1. PICK m : m = EndMoment /\ Shows(m)
    BY <1>1, SettledShows DEF Heard
  <2>2. m.held = held /\ ~m.crowded
    <3>1. ~(lost > 0)
      BY <1>1
    <3>2. m.crowded = (crowded \/ lost > 0) /\ m.held = held
      BY <2>1 DEF EndMoment
    <3>3. QED
      BY <1>1, <3>1, <3>2, Zenon
  <2>3. IsPressed(Usage[k])
    BY <1>1, <2>1, <2>2 DEF Shows, ShowsHeld
  <2>4. Usage[k] # 0
    BY <1>1, KeyFacts DEF PathInv, Plain
  <2>5. QED
    BY <1>1, <2>3, <2>4, ReportedArePressed
<1>2. IInv /\ PathInv /\ StreamInv => HeldKeysAreReported
  BY <1>1 DEF HeldKeysAreReported
<1>3. QED
  BY <1>2, KeyPathInvariant, PTL

\* If the tables' masks are the modifier keys' own, the modifier byte is the
\* union of the masks of the modifiers that are held, in whatever order they
\* were pressed and released (press_mod_key, release_mod_key).
THEOREM KeyPathModifiersAreMasks == Spec => [](MasksFit => ModifiersAreMasks)
<1>1. ASSUME IInv, StreamInv, MasksFit, Settled, lost = 0
      PROVE  report.modifier = UNION {Mask[k] : k \in held}
  <2>1. PICK m : m = EndMoment /\ Shows(m)
    BY <1>1, SettledShows DEF Heard
  <2>2. m.held = held /\ report.modifier = modifier
    BY <1>1, <2>1, ReportedArePressed DEF EndMoment
  <2>3. QED
    BY <1>1, <2>1, <2>2 DEF Shows, ShowsMasks, MasksOf
<1>2. IInv /\ StreamInv => (MasksFit => ModifiersAreMasks)
  BY <1>1 DEF ModifiersAreMasks
<1>3. QED
  BY <1>2, KeyPathInvariant, PTL

\* However many codes the full queue refused, and whatever the parser made of
\* the rest: a key that is released while nothing else is under way is out of
\* the report when the release has been parsed, and stays out until it is
\* pressed or the next code is lost.
THEOREM KeyPathRetypingClears == Spec => []RetypingClears
<1>1. ASSUME IInv, StreamInv, Settled, NEW k \in Plain(clean), Usage[k] \in Reported
      PROVE  \E l \in held : Usage[l] = Usage[k]
  BY <1>1, ReportedAreHeld DEF Heard, UsagesOf, Plain
<1>2. IInv /\ StreamInv => RetypingClears
  BY <1>1 DEF RetypingClears
<1>3. QED
  BY <1>2, KeyPathInvariant, PTL
=============================================================================
