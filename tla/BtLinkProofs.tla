---------------------------- MODULE BtLinkProofs ----------------------------
(***************************************************************************)
(* The gate opens on an authenticated link only, and the link, the table   *)
(* of subscriptions and the key pool keep their types, for any hosts,      *)
(* pairings and power failures.  Reports are sent to subscribers only, and *)
(* no subscription is lost or refused.                                     *)
(***************************************************************************)
EXTENDS BtLink, FiniteSetTheorems, TLAPS

-----------------------------------------------------------------------------
(***************************************************************************)
(* The gate opens on an authenticated link.                                *)
(***************************************************************************)
GateType == simulate_input \in {0, 1}

\* What a step does to the gate: it stays, closes, or opens at level 3.
GateStep ==
  \/ simulate_input' = simulate_input
  \/ simulate_input' = 0
  \/ simulate_input' = 1 /\ sec_level' = 3

LEMMA ChangedGate ==
  ASSUME NEW c, gatt_ccc_changed(c), sec_level' = 3
  PROVE  GateStep
BY DEF gatt_ccc_changed, GateStep

LEMMA EncryptGate ==
  ASSUME NEW level, encrypt_change(level)
  PROVE  GateStep
<1>1. sec_level' = level /\ update_ccc(level)
  BY DEF encrypt_change
<1>2. CASE level = 3 /\ gatt_ccc_changed(cfg)
  BY <1>1, <1>2, ChangedGate
<1>3. CASE UNCHANGED simulate_input
  BY <1>3 DEF GateStep
<1>4. QED
  BY <1>1, <1>2, <1>3 DEF update_ccc

LEMMA StepGate ==
  ASSUME [LinkNext]_linkVars
  PROVE  GateStep
<1>1. CASE bt_enable \/ register_callbacks \/ bt_ready
  BY <1>1 DEF bt_enable, register_callbacks, bt_ready, ccc, GateStep
<1>2. ASSUME NEW h \in Hosts, Connect(h) PROVE GateStep
  BY <1>2 DEF Connect, GateStep
<1>3. CASE Encrypt
  BY <1>3, EncryptGate DEF Encrypt
<1>4. ASSUME NEW p \in Pairings, Pair(p[1], p[2]) PROVE GateStep
  <2>1. PICK level : encrypt_change(level)
    BY <1>4 DEF Pair
  <2>2. QED
    BY <2>1, EncryptGate
<1>5. CASE PairingDone \/ PairingFails \/ Disconnect
  BY <1>5 DEF PairingDone, PairingFails, Disconnect, ccc, GateStep
<1>6. ASSUME NEW v \in Written, write_ccc(v) PROVE GateStep
  <2>1. sec_level' = 3
    BY <1>6 DEF write_ccc, MayWrite, connection
  <2>2. CASE UNCHANGED simulate_input
    BY <2>2 DEF GateStep
  <2>3. CASE gatt_ccc_changed(SetValue(cfg, conn, v))
    BY <2>1, <2>3, ChangedGate
  <2>4. QED
    BY <1>6, <2>2, <2>3 DEF write_ccc
<1>7. CASE Cleanup
  BY <1>7 DEF Cleanup, GateStep
<1>8. CASE PowerFails
  BY <1>8 DEF PowerFails, Reset, GateStep
<1>9. ASSUME NEW t \in Notifiers, Lookup(t) \/ Unref(t) PROVE GateStep
  BY <1>9 DEF Lookup, Unref, ccc, GateStep
<1>10. CASE UNCHANGED linkVars
  BY <1>10 DEF linkVars, ccc, GateStep
<1>11. QED
  BY <1>1, <1>2, <1>3, <1>4, <1>5, <1>6, <1>7, <1>8, <1>9, <1>10 DEF LinkNext, StackNext

\* hog.c begins to send reports on an authenticated link only, whatever hosts
\* do, and whatever the callbacks of the stack have remembered.
THEOREM LinkOpensWhenSecure == LinkSpec => OpensWhenSecure
<1>1. LinkInit => GateType
  BY DEF LinkInit, GateType
<1>2. GateType /\ [LinkNext]_linkVars => GateType'
  BY StepGate DEF GateType, GateStep
<1>3. GateType /\ [LinkNext]_linkVars => [simulate_input < simulate_input' => sec_level' = 3]_linkVars
  BY StepGate DEF GateType, GateStep
<1>4. QED
  BY <1>1, <1>2, <1>3, PTL DEF LinkSpec, OpensWhenSecure

-----------------------------------------------------------------------------
(***************************************************************************)
(* Types.  The key pool does not overflow when it is read from flash,      *)
(* because flash has keys of bonded hosts only, which keep their slots.    *)
(***************************************************************************)
Entry == [peer : Hosts \cup {None}, value : Values]
Tables == [1..CccMax -> Entry]

Less == {ss \in Nat \X Nat : ss[1] < ss[2]}

LEMMA LeastOf == ASSUME NEW S \in SUBSET Nat, S # {} PROVE Min(S) \in S
<1>1. IsWellFoundedOn(Less, Nat)
  BY NatLessThanWellFounded DEF OpToRel, Less
<1>2. PICK x \in S : \A y \in S : ~(<<y, x>> \in Less)
  BY <1>1, WFMin, Zenon
<1>3. ASSUME NEW y \in S PROVE x =< y
  <2>1. x \in Nat /\ y \in Nat /\ ~(<<y, x>> \in Less)
    BY <1>2
  <2>2. QED
    BY <2>1 DEF Less
<1>4. \E z \in S : \A y \in S : z =< y
  BY <1>3
<1>5. QED
  BY <1>4 DEF Min

LEMMA PlaceFound ==
  ASSUME NEW c, NEW h, EntriesOf(c, h) # {}
  PROVE  Min(EntriesOf(c, h)) \in 1..CccMax /\ c[Min(EntriesOf(c, h))].peer = h
<1>1. EntriesOf(c, h) \in SUBSET Nat
  BY LinkAssumption DEF EntriesOf
<1>2. Min(EntriesOf(c, h)) \in EntriesOf(c, h)
  BY <1>1, LeastOf
<1>3. QED
  BY <1>2 DEF EntriesOf

LEMMA SetValueType ==
  ASSUME NEW c \in Tables, NEW h \in Hosts, NEW v \in Values, HasPlace(c, h)
  PROVE  SetValue(c, h, v) \in Tables
<1>1. PICK i : i = IF EntriesOf(c, h) # {} THEN Min(EntriesOf(c, h)) ELSE Min(EntriesOf(c, None))
  OBVIOUS
<1>2. i \in 1..CccMax
  BY <1>1, PlaceFound DEF HasPlace
<1>3. SetValue(c, h, v) = [c EXCEPT ![i] = [peer |-> h, value |-> v]]
  BY <1>1 DEF SetValue
<1>4. QED
  BY <1>2, <1>3 DEF Tables, Entry

LEMMA WithoutType == ASSUME NEW c \in Tables, NEW h PROVE Without(c, h) \in Tables
BY DEF Tables, Without, Entry, FreeCfg, Values

LEMMA ValueOfType == ASSUME NEW c \in Tables, NEW h PROVE ValueOf(c, h) \in Values
<1>1. CASE EntriesOf(c, h) = {}
  BY <1>1 DEF ValueOf, Values
<1>2. CASE EntriesOf(c, h) # {}
  <2>1. PICK i \in 1..CccMax : i = Min(EntriesOf(c, h))
    BY <1>2, PlaceFound
  <2>2. ValueOf(c, h) = c[i].value
    BY <1>2, <2>1 DEF ValueOf
  <2>3. QED
    BY <2>2 DEF Tables, Entry
<1>3. QED
  BY <1>1, <1>2

LEMMA LargestValueType ==
  ASSUME NEW c \in Tables
  PROVE  LargestValue(c) \in Values
<1>1. ASSUME NEW S \in SUBSET Values, S # {} PROVE Max(S) \in Values
  <2>1. \E x \in S : \A y \in S : x >= y
    <3>1. S \subseteq {0, 1, 2}
      BY DEF Values
    <3>2. CASE 2 \in S
      BY <3>1, <3>2
    <3>3. CASE 2 \notin S /\ 1 \in S
      BY <3>1, <3>3
    <3>4. CASE 2 \notin S /\ 1 \notin S
      <4>1. S = {0}
        BY <1>1, <3>1, <3>4
      <4>2. QED
        BY <4>1
    <3>5. QED
      BY <3>2, <3>3, <3>4
  <2>2. QED
    BY <2>1 DEF Max
<1>2. {c[i].value : i \in 1..CccMax} \in SUBSET Values
  BY DEF Tables, Entry
<1>3. 1 \in 1..CccMax
  BY LinkAssumption
<1>4. QED
  BY <1>1, <1>2, <1>3 DEF LargestValue

\* The life of the connection: what is advertised, connected and held.
BootInv ==
  /\ main_pc \in {"start", "enabled", "conn_cb", "loop"}
  /\ ready_pc \in {"off", "init", "loaded", "up"}
  /\ conn \in Hosts \cup {None}
  /\ link \in {"none", "up", "closing", "down"}
  /\ conn = None <=> link = "none"
  /\ sec_level \in 1..3 /\ required_sec_level \in 1..3
  /\ holders \subseteq Notifiers
  /\ main_pc = "start" => ready_pc = "off"
  /\ adv \/ holders # {} \/ link # "none" => ready_pc = "up"
  /\ adv => link = "none" /\ holders = {}
  /\ pairing => link \in {"up", "closing"}

Flags == adv \in BOOLEAN /\ pairing \in BOOLEAN

\* The configurations, in RAM and in flash.
TableInv ==
  /\ cfg \in Tables
  /\ flash_ccc \in [Hosts -> Values \cup {None}]
  /\ ccc_value \in Values /\ simulate_input \in 0..1
  /\ wanted \in [Hosts -> Values]

LEMMA BootInit == ASSUME LinkInit PROVE BootInv
BY LinkAssumption DEF LinkInit, BootInv

LEMMA EncryptKeepsBoot ==
  ASSUME BootInv, NEW level \in 2..3, encrypt_change(level), link = "up",
         pairing' => link' \in {"up", "closing"}
  PROVE  BootInv'
BY DEF encrypt_change, BootInv, boot

LEMMA StepKeepsBoot == ASSUME BootInv, [LinkNext]_linkVars PROVE BootInv'
<1>1. CASE bt_enable \/ register_callbacks
  BY <1>1 DEF bt_enable, register_callbacks, connection, BootInv
<1>2. CASE bt_ready
  BY <1>2 DEF bt_ready, connection, BootInv
<1>3. ASSUME NEW h \in Hosts, Connect(h) PROVE BootInv'
  <2>1. h # None /\ required_sec_level' \in 1..3
    BY <1>3, LinkAssumption DEF Connect
  <2>2. QED
    BY <1>3, <2>1 DEF Connect, BootInv, boot
<1>4. CASE Encrypt
  <2>1. link = "up" /\ pairing' = FALSE /\ \E level \in 2..3 : encrypt_change(level)
    BY <1>4 DEF Encrypt, Level, BootInv
  <2>2. QED
    BY <2>1, EncryptKeepsBoot
<1>5. ASSUME NEW p \in Pairings, Pair(p[1], p[2]) PROVE BootInv'
  <2>1. link = "up" /\ pairing' = TRUE /\ \E level \in 2..3 : encrypt_change(level)
    BY <1>5 DEF Pair, Level
  <2>2. link' \in {"up", "closing"}
    BY <2>1 DEF encrypt_change
  <2>3. QED
    BY <2>1, <2>2, EncryptKeepsBoot
<1>6. CASE PairingDone \/ PairingFails \/ Disconnect
  BY <1>6 DEF PairingDone, PairingFails, Disconnect, boot, BootInv
<1>7. ASSUME NEW v \in Written, write_ccc(v) PROVE BootInv'
  BY <1>7 DEF write_ccc, boot, connection, BootInv
<1>8. CASE Cleanup
  <2>1. adv' => holders = {}
    BY <1>8, Zenon DEF Cleanup, bt_conn_unref
  <2>2. QED
    BY <1>8, <2>1 DEF Cleanup, boot, BootInv
<1>9. CASE PowerFails
  BY <1>9 DEF PowerFails, Reset, BootInv
<1>10. ASSUME NEW t \in Notifiers, Lookup(t) PROVE BootInv'
  BY <1>10 DEF Lookup, MayNotify, boot, connection, BootInv
<1>11. ASSUME NEW t \in Notifiers, Unref(t) PROVE BootInv'
  <2>1. (link = "none" /\ (adv' => holders' = {})) \/ (link # "none" /\ adv' = adv)
    BY <1>11, Zenon DEF Unref, bt_conn_unref
  <2>2. QED
    BY <1>11, <2>1 DEF Unref, boot, connection, BootInv
<1>12. CASE UNCHANGED linkVars
  BY <1>12 DEF linkVars, boot, connection, BootInv
<1>13. QED
  BY <1>1, <1>2, <1>3, <1>4, <1>5, <1>6, <1>7, <1>8, <1>9, <1>10, <1>11, <1>12, Zenon
  DEF LinkNext, StackNext


LEMMA StepKeepsFlags == ASSUME Flags, [LinkNext]_linkVars PROVE Flags'
<1>1. CASE bt_enable \/ register_callbacks \/ bt_ready
  BY <1>1, Zenon DEF bt_enable, register_callbacks, bt_ready, connection, Flags
<1>2. ASSUME NEW h \in Hosts, Connect(h) PROVE Flags'
  BY <1>2, Zenon DEF Connect, Flags
<1>3. CASE Encrypt
  BY <1>3, Zenon DEF Encrypt, encrypt_change, Flags
<1>4. ASSUME NEW p \in Pairings, Pair(p[1], p[2]) PROVE Flags'
  BY <1>4, Zenon DEF Pair, encrypt_change, Flags
<1>5. CASE PairingDone \/ PairingFails \/ Disconnect
  BY <1>5, Zenon DEF PairingDone, PairingFails, Disconnect, Flags
<1>6. ASSUME NEW v \in Written, write_ccc(v) PROVE Flags'
  BY <1>6, Zenon DEF write_ccc, connection, Flags
<1>7. CASE Cleanup
  BY <1>7, Zenon DEF Cleanup, bt_conn_unref, Flags
<1>8. CASE PowerFails
  BY <1>8, Zenon DEF PowerFails, Reset, Flags
<1>9. ASSUME NEW t \in Notifiers, Lookup(t) \/ Unref(t) PROVE Flags'
  BY <1>9, Zenon DEF Lookup, Unref, bt_conn_unref, connection, Flags
<1>10. CASE UNCHANGED linkVars
  BY <1>10, Zenon DEF linkVars, connection, Flags
<1>11. QED
  BY <1>1, <1>2, <1>3, <1>4, <1>5, <1>6, <1>7, <1>8, <1>9, <1>10, Zenon DEF LinkNext, StackNext

LEMMA TableInit == ASSUME LinkInit PROVE TableInv
BY DEF LinkInit, TableInv, Tables, Entry, FreeCfg, Values

LEMMA ChangedType ==
  ASSUME NEW c \in Tables, gatt_ccc_changed(c), simulate_input \in 0..1
  PROVE  ccc_value' \in Values /\ simulate_input' \in 0..1
BY LargestValueType DEF gatt_ccc_changed

LEMMA EncryptKeepsTable ==
  ASSUME TableInv, NEW level, encrypt_change(level)
  PROVE  TableInv'
<1>1. UNCHANGED <<cfg, flash_ccc, wanted>> /\ update_ccc(level)
  BY DEF encrypt_change
<1>2. ccc_value' \in Values /\ simulate_input' \in 0..1
  BY <1>1, ChangedType DEF update_ccc, TableInv
<1>3. QED
  BY <1>1, <1>2 DEF TableInv

LEMMA CleanupKeepsTable ==
  ASSUME TableInv, BootInv, Cleanup
  PROVE  TableInv'
<1>1. conn \in Hosts
  BY DEF Cleanup, BootInv
<1>2. PICK c \in Tables : c = disconnected_cb(cfg, conn)
  BY WithoutType DEF disconnected_cb, TableInv
<1>3. cfg' \in {c, Without(c, conn)}
  BY <1>2 DEF Cleanup
<1>4. cfg' \in Tables
  BY <1>3, WithoutType
<1>5. ValueOf(c, conn) \in Values
  BY ValueOfType
<1>6. flash_ccc' = flash_ccc \/
      flash_ccc' = [flash_ccc EXCEPT ![conn] = IF EntriesOf(c, conn) = {} THEN None
                                               ELSE ValueOf(c, conn)]
  BY <1>2 DEF Cleanup
<1>7. flash_ccc' \in [Hosts -> Values \cup {None}]
  BY <1>1, <1>5, <1>6 DEF TableInv
<1>8. wanted' \in [Hosts -> Values] /\ ccc_value' \in Values /\ simulate_input' \in 0..1
  BY <1>1 DEF Cleanup, TableInv, Values
<1>9. QED
  BY <1>4, <1>7, <1>8 DEF TableInv

LEMMA StepKeepsTable == ASSUME TableInv, BootInv, [LinkNext]_linkVars PROVE TableInv'
<1>1. CASE bt_enable \/ register_callbacks \/ bt_ready
  BY <1>1 DEF bt_enable, register_callbacks, bt_ready, ccc, TableInv
<1>2. ASSUME NEW h \in Hosts, Connect(h) PROVE TableInv'
  <2>1. \/ cfg' = cfg
        \/ HasPlace(cfg, h) /\ flash_ccc[h] # None /\ cfg' = SetValue(cfg, h, flash_ccc[h])
    BY <1>2 DEF Connect
  <2>2. flash_ccc[h] # None => flash_ccc[h] \in Values
    BY DEF TableInv
  <2>3. cfg' \in Tables
    BY <2>1, <2>2, SetValueType DEF TableInv
  <2>4. QED
    BY <1>2, <2>3 DEF Connect, TableInv
<1>3. CASE Encrypt
  BY <1>3, EncryptKeepsTable DEF Encrypt
<1>4. ASSUME NEW p \in Pairings, Pair(p[1], p[2]) PROVE TableInv'
  <2>1. \E level : encrypt_change(level)
    BY <1>4 DEF Pair
  <2>2. QED
    BY <2>1, EncryptKeepsTable
<1>5. CASE PairingDone \/ PairingFails \/ Disconnect
  BY <1>5 DEF PairingDone, PairingFails, Disconnect, ccc, TableInv
<1>6. ASSUME NEW v \in Written, write_ccc(v) PROVE TableInv'
  <2>1. conn \in Hosts /\ v \in Values
    BY <1>6, LinkAssumption DEF write_ccc, BootInv, Values
  <2>2. HasPlace(cfg, conn)
    BY <1>6 DEF write_ccc, HasPlace
  <2>3. PICK c \in Tables : c = SetValue(cfg, conn, v)
    BY <2>1, <2>2, SetValueType DEF TableInv
  <2>4. cfg' \in Tables
    BY <1>6, <2>3, WithoutType DEF write_ccc
  <2>5. gatt_ccc_changed(c) \/ UNCHANGED <<ccc_value, simulate_input>>
    BY <1>6, <2>3 DEF write_ccc
  <2>6. ccc_value' \in Values /\ simulate_input' \in 0..1
    BY <2>5, ChangedType DEF TableInv
  <2>7. wanted' \in [Hosts -> Values] /\ flash_ccc' = flash_ccc
    BY <1>6, <2>1 DEF write_ccc, TableInv
  <2>8. QED
    BY <2>4, <2>6, <2>7 DEF TableInv
<1>7. CASE Cleanup
  BY <1>7, CleanupKeepsTable
<1>8. CASE PowerFails
  <2>1. cfg' \in Tables
    BY <1>8 DEF PowerFails, Reset, Tables, Entry, FreeCfg, Values
  <2>2. \A h \in Hosts : StoredValue(h) \in Values
    BY DEF StoredValue, TableInv, Values
  <2>3. wanted' \in [Hosts -> Values]
    BY <1>8, <2>2 DEF PowerFails, TableInv, Values
  <2>4. QED
    BY <1>8, <2>1, <2>3 DEF PowerFails, Reset, TableInv, Values
<1>9. ASSUME NEW t \in Notifiers, Lookup(t) \/ Unref(t) PROVE TableInv'
  BY <1>9 DEF Lookup, Unref, ccc, TableInv
<1>10. CASE UNCHANGED linkVars
  BY <1>10 DEF linkVars, ccc, TableInv
<1>11. QED
  BY <1>1, <1>2, <1>3, <1>4, <1>5, <1>6, <1>7, <1>8, <1>9, <1>10, Zenon DEF LinkNext, StackNext

-----------------------------------------------------------------------------
(***************************************************************************)
(* The key pool.  It does not overflow when it is read from flash, because *)
(* flash has the keys of bonded hosts only, and these keep their slots.    *)
(***************************************************************************)
Used(k) == {h \in Hosts : k[h].used}
Fits(k) == IsFiniteSet(Used(k)) /\ Cardinality(Used(k)) <= MaxPaired

Loaded == ready_pc \in {"loaded", "up"}

KeysOf(h) ==
  /\ key_pool[h].bond => key_pool[h].used
  /\ flash_keys[h].bond <=> flash_keys[h].used
  /\ Loaded => (flash_keys[h].used => key_pool[h].bond)
  /\ ~Loaded => key_pool[h] = NoKeys

PoolInv ==
  /\ key_pool \in [Hosts -> Keys] /\ flash_keys \in [Hosts -> Keys]
  /\ Fits(key_pool) /\ Fits(flash_keys)
  /\ \A h \in Hosts : KeysOf(h)
  /\ pairing => flash_keys[conn] = NoKeys

LEMMA FewerFit == ASSUME NEW k, NEW m, Fits(k), Used(m) \subseteq Used(k) PROVE Fits(m)
<1>1. IsFiniteSet(Used(m)) /\ Cardinality(Used(m)) <= Cardinality(Used(k))
  BY FS_Subset DEF Fits
<1>2. Cardinality(Used(m)) \in Nat /\ Cardinality(Used(k)) \in Nat
  BY <1>1, FS_CardinalityType DEF Fits
<1>3. QED
  BY <1>1, <1>2, LinkAssumption DEF Fits

LEMMA OneMoreFits ==
  ASSUME NEW k, NEW m, NEW h, Fits(k), Used(m) \subseteq Used(k) \cup {h},
         h \in Used(k) \/ Cardinality(Used(k)) < MaxPaired
  PROVE  Fits(m)
<1>1. CASE h \in Used(k)
  BY <1>1, FewerFit
<1>2. CASE h \notin Used(k) /\ Cardinality(Used(k)) < MaxPaired
  <2>1. IsFiniteSet(Used(k) \cup {h}) /\ Cardinality(Used(k) \cup {h}) = Cardinality(Used(k)) + 1
    BY <1>2, FS_AddElement DEF Fits
  <2>2. IsFiniteSet(Used(m)) /\ Cardinality(Used(m)) <= Cardinality(Used(k) \cup {h})
    BY <2>1, FS_Subset
  <2>3. Cardinality(Used(m)) \in Nat /\ Cardinality(Used(k)) \in Nat
    BY <2>2, FS_CardinalityType DEF Fits
  <2>4. QED
    BY <1>2, <2>1, <2>2, <2>3, LinkAssumption DEF Fits
<1>3. QED
  BY <1>1, <1>2

LEMMA NoneFit == ASSUME NEW k, Used(k) = {} PROVE Fits(k)
BY FS_EmptySet, LinkAssumption DEF Fits

LEMMA PoolInit == ASSUME LinkInit PROVE PoolInv
<1>1. key_pool \in [Hosts -> Keys] /\ flash_keys = key_pool
  BY DEF LinkInit, Keys, NoKeys
<1>2. \A h \in Hosts : key_pool[h] = NoKeys
  BY DEF LinkInit
<1>3. Used(key_pool) = {}
  BY <1>2 DEF Used, NoKeys
<1>4. Fits(key_pool) /\ Fits(flash_keys)
  BY <1>1, <1>3, NoneFit
<1>5. \A h \in Hosts : KeysOf(h)
  BY <1>1, <1>2 DEF KeysOf, NoKeys, LinkInit, Loaded
<1>6. QED
  BY <1>1, <1>4, <1>5 DEF PoolInv, LinkInit

\* A step that changes the keys of one host h, which has or gets a slot.
LEMMA OneHostKeepsPool ==
  ASSUME PoolInv, Loaded, NEW h \in Hosts, NEW k \in Keys, NEW f \in Keys,
         key_pool' = [key_pool EXCEPT ![h] = k], flash_keys' = [flash_keys EXCEPT ![h] = f],
         k.used => HasKeySlot(h), k.bond => k.used, f.bond <=> f.used, f.used => k.bond,
         ready_pc' = ready_pc, pairing' => conn' = h /\ f = NoKeys
  PROVE  PoolInv'
<1>1. PICK kp \in [Hosts -> Keys] : kp = key_pool'
  BY DEF PoolInv
<1>2. PICK fk \in [Hosts -> Keys] : fk = flash_keys'
  BY DEF PoolInv
<1>3. \A g \in Hosts : kp[g] = IF g = h THEN k ELSE key_pool[g]
  BY <1>1 DEF PoolInv
<1>4. \A g \in Hosts : fk[g] = IF g = h THEN f ELSE flash_keys[g]
  BY <1>2 DEF PoolInv
<1>5. Fits(kp)
  <2>1. CASE k.used
    <3>1. Used(kp) \subseteq Used(key_pool) \cup {h}
      BY <1>3 DEF Used
    <3>2. h \in Used(key_pool) \/ Cardinality(Used(key_pool)) < MaxPaired
      BY <2>1 DEF HasKeySlot, Used
    <3>3. QED
      BY <3>1, <3>2, OneMoreFits DEF PoolInv
  <2>2. CASE ~k.used
    <3>1. Used(kp) \subseteq Used(key_pool)
      BY <1>3, <2>2 DEF Used
    <3>2. QED
      BY <3>1, FewerFit DEF PoolInv
  <2>3. QED
    BY <2>1, <2>2
<1>6. ASSUME NEW g \in Hosts PROVE /\ kp[g].bond => kp[g].used
                                   /\ fk[g].bond <=> fk[g].used
                                   /\ fk[g].used => kp[g].bond
  <2>1. CASE g = h
    <3>1. kp[g] = k /\ fk[g] = f
      BY <1>3, <1>4, <2>1
    <3>2. QED
      BY <3>1, Zenon
  <2>2. CASE g # h
    <3>1. kp[g] = key_pool[g] /\ fk[g] = flash_keys[g]
      BY <1>3, <1>4, <2>2
    <3>2. KeysOf(g)
      BY DEF PoolInv
    <3>3. QED
      BY <3>1, <3>2, Zenon DEF KeysOf
  <2>3. QED
    BY <2>1, <2>2
<1>7. Fits(fk)
  <2>1. Used(fk) \subseteq Used(kp)
    BY <1>6, Zenon DEF Used
  <2>2. QED
    BY <1>5, <2>1, FewerFit
<1>8. Fits(key_pool)' /\ Fits(flash_keys)'
  <2>1. Used(key_pool)' = Used(kp) /\ Used(flash_keys)' = Used(fk)
    BY <1>1, <1>2 DEF Used
  <2>2. QED
    BY <1>5, <1>7, <2>1 DEF Fits
<1>9. \A g \in Hosts : KeysOf(g)'
  <2>1. Loaded'
    BY DEF Loaded
  <2>2. QED
    BY <1>1, <1>2, <1>6, <2>1, Zenon DEF KeysOf
<1>10. pairing' => flash_keys'[conn'] = NoKeys
  BY <1>2, <1>4
<1>11. key_pool' \in [Hosts -> Keys] /\ flash_keys' \in [Hosts -> Keys]
  BY <1>1, <1>2
<1>12. QED
  BY <1>8, <1>9, <1>10, <1>11 DEF PoolInv

LEMMA SameKeysKeepPool ==
  ASSUME PoolInv, UNCHANGED <<key_pool, flash_keys>>, Loaded' = Loaded,
         pairing' => pairing /\ conn' = conn
  PROVE  PoolInv'
<1>1. Fits(key_pool)' /\ Fits(flash_keys)'
  BY DEF PoolInv, Fits, Used
<1>2. \A g \in Hosts : KeysOf(g)'
  BY Zenon DEF PoolInv, KeysOf
<1>3. QED
  BY <1>1, <1>2 DEF PoolInv

LEMMA StepKeepsPool == ASSUME PoolInv, BootInv, [LinkNext]_linkVars PROVE PoolInv'
<1> USE LinkAssumption
<1>1. CASE bt_enable \/ register_callbacks
  <2>1. Loaded' = Loaded
    BY <1>1 DEF bt_enable, register_callbacks, Loaded, BootInv
  <2>2. QED
    BY <1>1, <2>1, SameKeysKeepPool DEF bt_enable, register_callbacks, keys, connection
<1>2. CASE bt_ready
  <2>1. CASE ready_pc = "init" /\ ready_pc' = "loaded" /\ key_pool' = flash_keys /\ flash_keys' = flash_keys
    <3>1. Fits(key_pool)' /\ Fits(flash_keys)'
      BY <2>1 DEF PoolInv, Fits, Used
    <3>2. ASSUME NEW g \in Hosts PROVE KeysOf(g)'
      <4>1. KeysOf(g) /\ key_pool'[g] = flash_keys[g] /\ Loaded'
        BY <2>1 DEF PoolInv, Loaded
      <4>2. QED
        BY <2>1, <4>1, Zenon DEF KeysOf
    <3>3. pairing' = pairing /\ conn' = conn
      BY <1>2 DEF bt_ready, connection
    <3>4. QED
      BY <2>1, <3>1, <3>2, <3>3 DEF PoolInv
  <2>2. CASE ready_pc = "loaded" /\ ready_pc' = "up" /\ UNCHANGED key_pool
    <3>1. Loaded' = Loaded
      BY <2>2 DEF Loaded
    <3>2. QED
      BY <1>2, <2>2, <3>1, SameKeysKeepPool DEF bt_ready, connection
  <2>3. QED
    BY <1>2, <2>1, <2>2 DEF bt_ready
<1>3. ASSUME NEW h \in Hosts, Connect(h) PROVE PoolInv'
  <2>1. Loaded /\ ready_pc' = ready_pc /\ pairing' = FALSE
    BY <1>3 DEF Connect, BootInv, Loaded, boot
  <2>2. PICK asks \in BOOLEAN : /\ asks => HasKeySlot(h)
                               /\ key_pool' = [key_pool EXCEPT ![h].used = @ \/ asks]
    BY <1>3 DEF Connect
  <2>3. PICK k : k = [key_pool[h] EXCEPT !.used = @ \/ asks]
    OBVIOUS
  <2>4. k \in Keys /\ key_pool' = [key_pool EXCEPT ![h] = k]
    BY <2>2, <2>3 DEF PoolInv, Keys
  <2>5. k.used = (key_pool[h].used \/ asks) /\ k.bond = key_pool[h].bond
    BY <2>3 DEF PoolInv, Keys
  <2>6. flash_keys[h] \in Keys /\ flash_keys' = [flash_keys EXCEPT ![h] = flash_keys[h]]
    BY <1>3 DEF Connect, PoolInv
  <2>7. KeysOf(h)
    BY DEF PoolInv
  <2>8. /\ k.used => HasKeySlot(h)
        /\ k.bond => k.used
        /\ flash_keys[h].bond <=> flash_keys[h].used
        /\ flash_keys[h].used => k.bond
    BY <2>1, <2>2, <2>5, <2>7, Zenon DEF KeysOf, HasKeySlot
  <2>9. QED
    BY <2>1, <2>4, <2>6, <2>8, OneHostKeepsPool
<1>4. CASE Encrypt
  <2>1. UNCHANGED <<key_pool, flash_keys, conn, pairing, ready_pc>>
    BY <1>4 DEF Encrypt, encrypt_change, keys, boot
  <2>2. QED
    BY <2>1, SameKeysKeepPool DEF Loaded
<1>5. ASSUME NEW p \in Pairings, Pair(p[1], p[2]) PROVE PoolInv'
  <2>1. p[1] \in BOOLEAN /\ p[2] \in BOOLEAN
    OBVIOUS
  <2>2. PICK k \in Keys : k = [bond |-> p[1], auth |-> p[2], used |-> TRUE]
    BY <2>1 DEF Keys
  <2>3. /\ key_pool' = [key_pool EXCEPT ![conn] = k]
        /\ flash_keys' = [flash_keys EXCEPT ![conn] = NoKeys]
        /\ conn' = conn /\ ready_pc' = ready_pc
        /\ HasKeySlot(conn) /\ link = "up"
    BY <1>5, <2>2 DEF Pair, encrypt_change, boot
  <2>4. conn \in Hosts /\ Loaded
    BY <2>3 DEF BootInv, Loaded
  <2>5. NoKeys \in Keys /\ NoKeys.bond = FALSE /\ NoKeys.used = FALSE /\ k.used = TRUE
    BY <2>2 DEF NoKeys, Keys
  <2>6. QED
    BY <2>3, <2>4, <2>5, OneHostKeepsPool
<1>6. CASE PairingDone
  <2>1. /\ conn \in Hosts /\ Loaded /\ conn' = conn /\ ready_pc' = ready_pc
        /\ pairing' = FALSE /\ key_pool' = key_pool
        /\ flash_keys' = [flash_keys EXCEPT
                            ![conn] = IF key_pool[conn].bond THEN key_pool[conn] ELSE NoKeys]
    BY <1>6 DEF PairingDone, BootInv, Loaded, boot
  <2>2. key_pool[conn] \in Keys /\ key_pool' = [key_pool EXCEPT ![conn] = key_pool[conn]]
    BY <2>1 DEF PoolInv
  <2>3. PICK f \in Keys : f = IF key_pool[conn].bond THEN key_pool[conn] ELSE NoKeys
    BY <2>2 DEF NoKeys, Keys
  <2>4. KeysOf(conn)
    BY <2>1 DEF PoolInv
  <2>5. NoKeys.bond = FALSE /\ NoKeys.used = FALSE
    BY DEF NoKeys
  <2>6. /\ key_pool[conn].used => HasKeySlot(conn)
        /\ key_pool[conn].bond => key_pool[conn].used
        /\ f.bond <=> f.used
        /\ f.used => key_pool[conn].bond
    <3>1. CASE key_pool[conn].bond
      <4>1. f = key_pool[conn]
        BY <2>3, <3>1
      <4>2. QED
        BY <2>4, <3>1, <4>1, Zenon DEF KeysOf, HasKeySlot
    <3>2. CASE ~key_pool[conn].bond
      <4>1. f = NoKeys
        BY <2>3, <3>2
      <4>2. QED
        BY <2>4, <2>5, <3>2, <4>1, Zenon DEF KeysOf, HasKeySlot
    <3>3. QED
      BY <3>1, <3>2
  <2>7. flash_keys' = [flash_keys EXCEPT ![conn] = f]
    BY <2>1, <2>3
  <2>8. QED
    BY <2>1, <2>2, <2>6, <2>7, OneHostKeepsPool
<1>7. CASE PairingFails
  <2>1. /\ conn \in Hosts /\ Loaded /\ ready_pc' = ready_pc /\ flash_keys[conn] = NoKeys
        /\ pairing' = FALSE /\ key_pool' = [key_pool EXCEPT ![conn] = NoKeys]
        /\ flash_keys' = [flash_keys EXCEPT ![conn] = NoKeys]
    BY <1>7 DEF PairingFails, BootInv, PoolInv, Loaded, boot
  <2>2. NoKeys \in Keys /\ NoKeys.bond = FALSE /\ NoKeys.used = FALSE
    BY DEF NoKeys, Keys
  <2>3. QED
    BY <2>1, <2>2, OneHostKeepsPool
<1>8. CASE Disconnect \/ \E v \in Written : write_ccc(v)
  BY <1>8, SameKeysKeepPool DEF Disconnect, write_ccc, keys, boot, connection, Loaded
<1>9. CASE Cleanup
  <2>1. conn \in Hosts /\ Loaded /\ ready_pc' = ready_pc /\ pairing' = FALSE /\ flash_keys' = flash_keys
    BY <1>9 DEF Cleanup, BootInv, Loaded, boot
  <2>2. CASE key_pool[conn].bond
    BY <1>9, <2>1, <2>2, SameKeysKeepPool DEF Cleanup, bt_addr_le_is_bonded, Loaded
  <2>3. CASE ~key_pool[conn].bond
    <3>1. key_pool' = [key_pool EXCEPT ![conn] = NoKeys]
      BY <1>9, <2>3 DEF Cleanup, bt_addr_le_is_bonded
    <3>2. KeysOf(conn) /\ flash_keys[conn] \in Keys
      BY <2>1 DEF PoolInv
    <3>3. ~flash_keys[conn].used /\ ~flash_keys[conn].bond
      BY <2>1, <2>3, <3>2, Zenon DEF KeysOf
    <3>4. flash_keys' = [flash_keys EXCEPT ![conn] = flash_keys[conn]]
      BY <2>1 DEF PoolInv
    <3>5. NoKeys \in Keys /\ NoKeys.bond = FALSE /\ NoKeys.used = FALSE
      BY DEF NoKeys, Keys
    <3>6. QED
      BY <2>1, <3>1, <3>2, <3>3, <3>4, <3>5, OneHostKeepsPool
  <2>4. QED
    BY <2>2, <2>3
<1>10. CASE PowerFails
  <2>1. /\ key_pool' = [h \in Hosts |-> NoKeys] /\ flash_keys' = flash_keys
        /\ pairing' = FALSE /\ ~Loaded'
    BY <1>10 DEF PowerFails, Reset, Loaded
  <2>2. key_pool' \in [Hosts -> Keys] /\ \A h \in Hosts : key_pool'[h] = NoKeys
    BY <2>1 DEF NoKeys, Keys
  <2>3. Used(key_pool)' = {}
    BY <2>2 DEF Used, NoKeys
  <2>4. Fits(key_pool)' /\ Fits(flash_keys)'
    <3>1. Fits(key_pool)'
      BY <2>3, NoneFit, FS_EmptySet DEF Fits
    <3>2. Fits(flash_keys)'
      BY <2>1 DEF PoolInv, Fits, Used
    <3>3. QED
      BY <3>1, <3>2
  <2>5. NoKeys.bond = FALSE /\ NoKeys.used = FALSE
    BY DEF NoKeys
  <2>6. \A h \in Hosts : KeysOf(h)'
    BY <2>1, <2>2, <2>5, Zenon DEF PoolInv, KeysOf
  <2>7. QED
    BY <2>1, <2>2, <2>4, <2>6 DEF PoolInv
<1>11. ASSUME NEW t \in Notifiers, Lookup(t) \/ Unref(t) PROVE PoolInv'
  BY <1>11, SameKeysKeepPool DEF Lookup, Unref, keys, boot, connection, Loaded
<1>12. CASE UNCHANGED linkVars
  BY <1>12, SameKeysKeepPool DEF linkVars, keys, boot, connection, Loaded
<1>13. QED
  BY <1>1, <1>2, <1>3, <1>4, <1>5, <1>6, <1>7, <1>8, <1>9, <1>10, <1>11, <1>12, Zenon
  DEF LinkNext, StackNext

LinkInv == BootInv /\ Flags /\ TableInv /\ PoolInv

LEMMA LinkInvInit == ASSUME LinkInit PROVE LinkInv
<1>1. Flags
  BY Zenon DEF LinkInit, Flags
<1>2. QED
  BY <1>1, BootInit, TableInit, PoolInit DEF LinkInv

LEMMA StepKeepsLink == ASSUME LinkInv, [LinkNext]_linkVars PROVE LinkInv'
BY StepKeepsBoot, StepKeepsFlags, StepKeepsTable, StepKeepsPool DEF LinkInv

LEMMA LinkInvTypes == ASSUME LinkInv PROVE LinkTypeOK
<1>1. BootInv /\ Flags /\ TableInv /\ PoolInv
  BY DEF LinkInv
<1>2. key_pool \in [Hosts -> Keys] /\ flash_keys \in [Hosts -> Keys]
      /\ Cardinality({h \in Hosts : key_pool[h].used}) <= MaxPaired
  BY <1>1 DEF PoolInv, Fits, Used
<1>3. adv \in BOOLEAN /\ pairing \in BOOLEAN
  BY <1>1, Zenon DEF Flags
<1>4. /\ flash_ccc \in [Hosts -> Values \cup {None}]
      /\ cfg \in [1..CccMax -> [peer : Hosts \cup {None}, value : Values]]
      /\ ccc_value \in Values /\ simulate_input \in 0..1
      /\ wanted \in [Hosts -> Values]
  BY <1>1 DEF TableInv, Tables, Entry
<1>5. /\ main_pc \in {"start", "enabled", "conn_cb", "loop"}
      /\ ready_pc \in {"off", "init", "loaded", "up"}
      /\ conn \in Hosts \cup {None}
      /\ link \in {"none", "up", "closing", "down"}
      /\ (conn = None) <=> (link = "none")
      /\ sec_level \in 1..3 /\ required_sec_level \in 1..3
      /\ holders \subseteq Notifiers
  BY <1>1 DEF BootInv
<1>6. QED
  BY <1>2, <1>3, <1>4, <1>5, Zenon DEF LinkTypeOK

\* There is one connection at a time, and the key pool of bt_keys_get_addr
\* never holds more keys than it has slots, although settings_load fills it
\* from flash after every power failure: for any number of hosts, of key
\* slots and of CCC entries.
THEOREM LinkTypeCorrect == LinkSpec => []LinkTypeOK
<1>1. LinkInit => LinkInv
  BY LinkInvInit
<1>2. LinkInv /\ [LinkNext]_linkVars => LinkInv'
  BY StepKeepsLink
<1>3. LinkInv => LinkTypeOK
  BY LinkInvTypes
<1>4. QED
  BY <1>1, <1>2, <1>3, PTL DEF LinkSpec

-----------------------------------------------------------------------------
(***************************************************************************)
(* The gate, the table and flash agree.  The table holds the connected     *)
(* host's subscription and nothing else: a value that is switched off      *)
(* gives its entry back, and so does a host that leaves.  A subscription   *)
(* that has not taken effect yet is one that was loaded for a bonded host, *)
(* so that disconnected_cb, which looks at no entry while the value is     *)
(* off, need not clear it: bt_gatt_disconnected does.                      *)
(***************************************************************************)
\* The table with the subscription v of host h alone.
Table(h, v) ==
  [i \in 1..CccMax |-> IF i = 1 /\ v # 0 THEN [peer |-> h, value |-> v] ELSE FreeCfg]

BondedHosts == {h \in Hosts : IF Loaded THEN key_pool[h].bond ELSE flash_keys[h].bond}

GateInv ==
  /\ simulate_input = IF ccc_value = 1 THEN 1 ELSE 0
  /\ conn = None => ccc_value = 0 /\ cfg = Table(None, 0)
  /\ conn # None => cfg = Table(conn, wanted[conn])
  /\ ccc_value # 0 => ccc_value = wanted[conn]
  /\ conn # None /\ sec_level = 3 => ccc_value = wanted[conn]
  /\ conn # None /\ ccc_value = 0 /\ wanted[conn] # 0 => conn \in BondedHosts /\ ~pairing

\* What flash keeps of a host that is away.
StoredOf(h) ==
  /\ flash_ccc[h] # 0
  /\ conn # h => wanted[h] = IF h \in BondedHosts THEN StoredValue(h) ELSE 0

SubscriptionInv == GateInv /\ \A h \in Hosts : StoredOf(h)

LEMMA LargestOf ==
  ASSUME NEW S \in SUBSET Int, NEW v \in S, \A y \in S : v >= y
  PROVE  Max(S) = v
<1>1. \E x \in S : \A y \in S : x >= y
  OBVIOUS
<1>2. PICK m : m = Max(S)
  OBVIOUS
<1>3. m \in S /\ \A y \in S : m >= y
  BY <1>1, <1>2, Zenon DEF Max
<1>4. m \in Int /\ v \in Int /\ m >= v /\ v >= m
  BY <1>3
<1>5. QED
  BY <1>2, <1>4

\* A table with one entry, at the first place, which may have the value 0.
OneEntry(c, h, v) ==
  /\ c \in Tables
  /\ c[1] = [peer |-> h, value |-> v]
  /\ \A i \in 1..CccMax : i # 1 => c[i] = FreeCfg

LEMMA OneEntryFacts ==
  ASSUME NEW h \in Hosts, NEW v \in Values, NEW c, OneEntry(c, h, v)
  PROVE  /\ EntriesOf(c, h) = {1} /\ ValueOf(c, h) = v
         /\ LargestValue(c) = v
         /\ Without(c, h) = Table(h, 0)
         /\ v # 0 => c = Table(h, v)
<1>1. h # None /\ 1 \in 1..CccMax
  BY LinkAssumption
<1>2. EntriesOf(c, h) = {1}
  BY <1>1 DEF OneEntry, EntriesOf, FreeCfg
<1>3. ValueOf(c, h) = v
  <2>1. Min({1}) = 1
    BY DEF Min
  <2>2. QED
    BY <1>2, <2>1 DEF OneEntry, ValueOf
<1>4. LargestValue(c) = v
  <2>1. PICK S : S = {c[i].value : i \in 1..CccMax}
    BY Zenon
  <2>2. v \in S /\ S \subseteq {0, v}
    BY <1>1, <2>1 DEF OneEntry, FreeCfg
  <2>3. S \in SUBSET Int /\ \A y \in S : v >= y
    BY <2>2 DEF Values
  <2>4. QED
    BY <2>1, <2>2, <2>3, LargestOf DEF LargestValue
<1>5. Without(c, h) = Table(h, 0)
  BY <1>1 DEF OneEntry, Without, Table, FreeCfg
<1>6. v # 0 => c = Table(h, v)
  BY DEF OneEntry, Table, Tables
<1>7. QED
  BY <1>2, <1>3, <1>4, <1>5, <1>6

LEMMA TableFacts ==
  ASSUME NEW h \in Hosts, NEW v \in Values, NEW c, c = Table(h, v)
  PROVE  /\ c \in Tables /\ HasPlace(c, h)
         /\ EntriesOf(c, h) = IF v = 0 THEN {} ELSE {1}
         /\ ValueOf(c, h) = v
         /\ LargestValue(c) = v
         /\ Without(c, h) = Table(h, 0)
<1>1. c \in Tables
  BY DEF Table, Tables, Entry, FreeCfg, Values
<1>2. h # None /\ 1 \in 1..CccMax
  BY LinkAssumption
<1>3. CASE v = 0
  <2>1. \A i \in 1..CccMax : c[i] = FreeCfg
    BY <1>3 DEF Table
  <2>2. EntriesOf(c, h) = {} /\ EntriesOf(c, None) # {}
    BY <1>2, <2>1 DEF EntriesOf, FreeCfg
  <2>3. {c[i].value : i \in 1..CccMax} = {0}
    BY <1>2, <2>1 DEF FreeCfg
  <2>4. Max({0}) = 0
    BY LargestOf
  <2>5. Without(c, h) = Table(h, 0)
    BY <1>2, <2>1 DEF Without, Table, FreeCfg
  <2>6. QED
    <3>1. HasPlace(c, h) /\ ValueOf(c, h) = 0
      BY <2>2 DEF HasPlace, ValueOf
    <3>2. LargestValue(c) = 0
      BY <2>3, <2>4 DEF LargestValue
    <3>3. QED
      BY <1>1, <1>3, <2>2, <2>5, <3>1, <3>2
<1>4. CASE v # 0
  <2>1. OneEntry(c, h, v)
    BY <1>1, <1>2, <1>4 DEF OneEntry, Table
  <2>2. /\ EntriesOf(c, h) = {1} /\ ValueOf(c, h) = v
        /\ LargestValue(c) = v
        /\ Without(c, h) = Table(h, 0)
    BY <2>1, OneEntryFacts
  <2>3. HasPlace(c, h)
    BY <2>2 DEF HasPlace
  <2>4. QED
    BY <1>1, <1>4, <2>2, <2>3
<1>5. QED
  BY <1>3, <1>4

LEMMA SetValueGives ==
  ASSUME NEW h \in Hosts, NEW v \in Values, NEW w \in Values,
         NEW t, t = Table(h, v), NEW c, c = SetValue(t, h, w)
  PROVE  OneEntry(c, h, w)
<1>1. t \in Tables /\ EntriesOf(t, h) = IF v = 0 THEN {} ELSE {1}
  BY TableFacts
<1>2. 1 \in 1..CccMax
  BY LinkAssumption
<1>3. v = 0 => Min(EntriesOf(t, None)) = 1
  <2>1. ASSUME v = 0 PROVE EntriesOf(t, None) = 1..CccMax
    BY <2>1 DEF Table, EntriesOf, FreeCfg
  <2>2. Min(1..CccMax) = 1
    <3>1. \E x \in 1..CccMax : \A y \in 1..CccMax : x <= y
      BY <1>2, LinkAssumption
    <3>2. Min(1..CccMax) \in 1..CccMax /\ \A y \in 1..CccMax : Min(1..CccMax) <= y
      BY <3>1 DEF Min
    <3>3. QED
      BY <1>2, <3>2, LinkAssumption
  <2>3. QED
    BY <2>1, <2>2
<1>4. (IF EntriesOf(t, h) # {} THEN Min(EntriesOf(t, h)) ELSE Min(EntriesOf(t, None))) = 1
  <2>1. Min({1}) = 1
    BY DEF Min
  <2>2. QED
    BY <1>1, <1>3, <2>1
<1>5. c = [t EXCEPT ![1] = [peer |-> h, value |-> w]]
  BY <1>4 DEF SetValue
<1>6. c \in Tables
  BY <1>1, <1>2, <1>5 DEF Tables, Entry
<1>7. c[1] = [peer |-> h, value |-> w] /\ \A i \in 1..CccMax : i # 1 => c[i] = FreeCfg
  <2>1. \A i \in 1..CccMax : i # 1 => t[i] = FreeCfg
    BY DEF Table
  <2>2. QED
    BY <1>1, <1>2, <1>5, <2>1 DEF Tables
<1>8. QED
  BY <1>6, <1>7 DEF OneEntry

\* With nothing in it, whose table it is makes no difference.
LEMMA EmptyTable == ASSUME NEW g, NEW h PROVE Table(g, 0) = Table(h, 0)
BY DEF Table

LEMMA BondsInFlash ==
  ASSUME PoolInv, NEW h \in Hosts, flash_keys[h].bond
  PROVE  h \in BondedHosts
<1>1. KeysOf(h)
  BY DEF PoolInv
<1>2. QED
  BY <1>1, Zenon DEF KeysOf, BondedHosts

LEMMA SameBonds ==
  ASSUME UNCHANGED <<key_pool, flash_keys>>, Loaded' = Loaded
  PROVE  BondedHosts' = BondedHosts
BY DEF BondedHosts

LEMMA SubscriptionInvImplies ==
  ASSUME BootInv, TableInv, PoolInv, SubscriptionInv
  PROVE  GateMatchesSubscription /\ SubscriptionSurvives
<1>1. conn # None => conn \in Hosts /\ wanted[conn] \in Values /\ cfg = Table(conn, wanted[conn])
  BY DEF SubscriptionInv, GateInv, BootInv, TableInv
<1>2. conn # None => ValueOf(cfg, conn) = wanted[conn]
  BY <1>1, TableFacts
<1>3. GateMatchesSubscription
  BY <1>2 DEF SubscriptionInv, GateInv, GateMatchesSubscription, BootInv
<1>4. ASSUME NEW h \in Hosts
      PROVE  /\ conn # h /\ (flash_keys[h].bond \/ key_pool[h].bond) => StoredValue(h) = wanted[h]
             /\ conn = h /\ sec_level = 3 => ValueOf(cfg, h) = wanted[h]
  <2>1. StoredOf(h) /\ KeysOf(h)
    BY DEF SubscriptionInv, PoolInv
  <2>2. ASSUME flash_keys[h].bond \/ key_pool[h].bond PROVE h \in BondedHosts
    <3>1. NoKeys.bond = FALSE
      BY DEF NoKeys
    <3>2. CASE flash_keys[h].bond
      BY <3>2, BondsInFlash
    <3>3. CASE key_pool[h].bond
      <4>1. Loaded
        BY <2>1, <3>1, <3>3, Zenon DEF KeysOf
      <4>2. QED
        BY <3>3, <4>1, Zenon DEF BondedHosts
    <3>4. QED
      BY <2>2, <3>2, <3>3, Zenon
  <2>3. conn # h /\ h \in BondedHosts => StoredValue(h) = wanted[h]
    BY <2>1 DEF StoredOf
  <2>4. h # None
    BY LinkAssumption
  <2>5. QED
    BY <1>2, <2>2, <2>3, <2>4, Zenon
<1>5. QED
  BY <1>3, <1>4, Zenon DEF SubscriptionSurvives

LEMMA SubscriptionInit == ASSUME LinkInit PROVE SubscriptionInv
<1>1. cfg = Table(None, 0)
  BY DEF LinkInit, Table
<1>2. GateInv
  BY <1>1 DEF LinkInit, GateInv
<1>3. ASSUME NEW h \in Hosts PROVE StoredOf(h)
  <2>1. flash_ccc[h] = None /\ wanted[h] = 0 /\ None # 0
    BY LinkAssumption DEF LinkInit
  <2>2. QED
    BY <2>1 DEF StoredOf, StoredValue
<1>4. QED
  BY <1>2, <1>3 DEF SubscriptionInv

LEMMA SameSubscription ==
  ASSUME SubscriptionInv, BondedHosts' = BondedHosts, pairing' => pairing,
         UNCHANGED <<conn, sec_level, flash_ccc, cfg, ccc_value, simulate_input, wanted>>
  PROVE  SubscriptionInv'
<1>1. GateInv'
  BY DEF SubscriptionInv, GateInv, Table
<1>2. ASSUME NEW h \in Hosts PROVE StoredOf(h)'
  <2>1. StoredOf(h)
    BY DEF SubscriptionInv
  <2>2. QED
    BY <2>1 DEF StoredOf, StoredValue
<1>3. QED
  BY <1>1, <1>2 DEF SubscriptionInv

LEMMA ConnectKeepsSubscription ==
  ASSUME BootInv, TableInv, PoolInv, SubscriptionInv, NEW g \in Hosts, Connect(g)
  PROVE  SubscriptionInv'
<1>1. /\ conn = None /\ g # None /\ ~pairing /\ Loaded /\ ccc_value = 0 /\ cfg = Table(g, 0)
      /\ conn' = g /\ sec_level' = 1 /\ Loaded' /\ ~pairing'
      /\ UNCHANGED <<flash_ccc, ccc_value, simulate_input, wanted>>
  BY LinkAssumption, EmptyTable DEF Connect, BootInv, SubscriptionInv, GateInv, Loaded, boot
<1>2. BondedHosts' = BondedHosts
  <2>1. PICK asks : key_pool' = [key_pool EXCEPT ![g].used = @ \/ asks]
    BY DEF Connect
  <2>2. \A h \in Hosts : key_pool'[h].bond = key_pool[h].bond
    BY <2>1 DEF PoolInv, Keys
  <2>3. QED
    BY <1>1, <2>2, Zenon DEF BondedHosts
<1>3. bt_addr_le_is_bonded(g) <=> g \in BondedHosts
  BY <1>1, Zenon DEF BondedHosts, bt_addr_le_is_bonded
<1>4. StoredOf(g) /\ g # conn
  BY <1>1, LinkAssumption DEF SubscriptionInv
<1>5. cfg' = Table(g, wanted[g]) /\ (wanted[g] # 0 => g \in BondedHosts)
  <2>1. 0 \in Values /\ HasPlace(cfg, g)
    <3>1. 0 \in Values
      BY DEF Values
    <3>2. QED
      BY <1>1, <3>1, TableFacts
  <2>2. CASE g \in BondedHosts /\ flash_ccc[g] # None
    <3>1. cfg' = SetValue(cfg, g, flash_ccc[g])
      BY <1>1, <1>3, <2>1, <2>2 DEF Connect
    <3>2. flash_ccc[g] \in Values /\ flash_ccc[g] # 0 /\ wanted[g] = flash_ccc[g]
      BY <1>4, <2>2 DEF StoredOf, StoredValue, TableInv
    <3>3. cfg' = Table(g, flash_ccc[g])
      <4>1. PICK t, c : t = Table(g, 0) /\ c = SetValue(t, g, flash_ccc[g])
        OBVIOUS
      <4>2. OneEntry(c, g, flash_ccc[g])
        BY <2>1, <3>2, <4>1, SetValueGives
      <4>3. c = Table(g, flash_ccc[g])
        BY <3>2, <4>2, OneEntryFacts
      <4>4. QED
        BY <1>1, <3>1, <4>1, <4>3
    <3>4. QED
      BY <2>2, <3>2, <3>3
  <2>3. CASE g \notin BondedHosts \/ flash_ccc[g] = None
    <3>1. cfg' = cfg
      BY <1>3, <2>3 DEF Connect
    <3>2. wanted[g] = 0
      BY <1>4, <2>3 DEF StoredOf, StoredValue
    <3>3. QED
      BY <1>1, <3>1, <3>2
  <2>4. QED
    BY <2>2, <2>3
<1>6. GateInv'
  <2>1. simulate_input = IF ccc_value = 1 THEN 1 ELSE 0
    BY DEF SubscriptionInv, GateInv
  <2>2. cfg' = Table(conn, wanted[conn])'
    BY <1>1, <1>5 DEF Table
  <2>3. QED
    BY <1>1, <1>2, <1>5, <2>1, <2>2 DEF GateInv
<1>7. ASSUME NEW h \in Hosts PROVE StoredOf(h)'
  <2>1. StoredOf(h) /\ h # conn
    BY <1>1, LinkAssumption DEF SubscriptionInv
  <2>2. QED
    BY <1>1, <1>2, <2>1 DEF StoredOf, StoredValue
<1>8. QED
  BY <1>6, <1>7 DEF SubscriptionInv

\* A change of the link's security: of the keys, only those of the connected
\* host may change, and if it has no bond yet it had none.
LEMMA EncryptKeepsSubscription ==
  ASSUME BootInv, TableInv, SubscriptionInv,
         NEW level \in 2..3, encrypt_change(level), link = "up",
         \A h \in Hosts : h # conn => (h \in BondedHosts' <=> h \in BondedHosts),
         \/ BondedHosts' = BondedHosts /\ pairing' = FALSE
         \/ level = 3 \/ conn \notin BondedHosts
  PROVE  SubscriptionInv'
<1>1. conn \in Hosts /\ conn # None /\ wanted[conn] \in Values
  BY DEF BootInv, TableInv
<1>2. /\ sec_level' = level /\ UNCHANGED <<conn, cfg, flash_ccc, wanted>> /\ update_ccc(level)
  BY DEF encrypt_change
<1>3. GateInv
  BY DEF SubscriptionInv
<1>4. cfg = Table(conn, wanted[conn])
  BY <1>1, <1>3 DEF GateInv
<1>5. ValueOf(cfg, conn) = wanted[conn] /\ LargestValue(cfg) = wanted[conn]
  BY <1>1, <1>4, TableFacts, Zenon
<1>6. /\ simulate_input' = IF ccc_value' = 1 THEN 1 ELSE 0
      /\ ccc_value' = IF level = 3 THEN wanted[conn] ELSE ccc_value
  <2>1. CASE level = 3 /\ ValueOf(cfg, conn) # 0 /\ gatt_ccc_changed(cfg)
    BY <1>3, <1>5, <2>1 DEF gatt_ccc_changed, GateInv
  <2>2. CASE (ValueOf(cfg, conn) = 0 \/ level < 3) /\ UNCHANGED <<ccc_value, simulate_input>>
    BY <1>3, <1>5, <2>2 DEF GateInv
  <2>3. QED
    BY <1>2, <2>1, <2>2 DEF update_ccc
<1>7. GateInv'
  <2>1. cfg' = Table(conn, wanted[conn])'
    BY <1>2, <1>4 DEF Table
  <2>2. QED
    BY <1>1, <1>2, <1>3, <1>6, <2>1 DEF GateInv
<1>8. ASSUME NEW h \in Hosts PROVE StoredOf(h)'
  <2>1. StoredOf(h)
    BY DEF SubscriptionInv
  <2>2. QED
    BY <1>2, <2>1 DEF StoredOf, StoredValue
<1>9. QED
  BY <1>7, <1>8 DEF SubscriptionInv

LEMMA PairKeepsSubscription ==
  ASSUME BootInv, TableInv, PoolInv, SubscriptionInv, NEW p \in Pairings, Pair(p[1], p[2])
  PROVE  SubscriptionInv'
<1>1. p[1] \in BOOLEAN /\ p[2] \in BOOLEAN
  BY LinkAssumption
<1>2. /\ link = "up" /\ conn \in Hosts /\ Loaded /\ Loaded'
      /\ key_pool' = [key_pool EXCEPT ![conn] = [bond |-> p[1], auth |-> p[2], used |-> TRUE]]
  BY DEF Pair, encrypt_change, boot, BootInv, Loaded
<1>3. \A h \in Hosts : h # conn => (h \in BondedHosts' <=> h \in BondedHosts)
  <2>1. \A h \in Hosts : h # conn => key_pool'[h] = key_pool[h]
    BY <1>2 DEF PoolInv
  <2>2. QED
    BY <1>2, <2>1, Zenon DEF BondedHosts
<1>4. PICK level \in 2..3 :
        encrypt_change(level) /\ (level = 3 \/ ~bt_addr_le_is_bonded(conn))
  BY <1>1 DEF Pair, Level
<1>5. level = 3 \/ conn \notin BondedHosts
  BY <1>2, <1>4, Zenon DEF BondedHosts, bt_addr_le_is_bonded
<1>6. QED
  BY <1>2, <1>3, <1>4, <1>5, EncryptKeepsSubscription

LEMMA WriteKeepsSubscription ==
  ASSUME BootInv, TableInv, SubscriptionInv, NEW v \in Written, write_ccc(v)
  PROVE  SubscriptionInv'
<1>1. /\ conn \in Hosts /\ conn # None /\ v \in Values /\ wanted[conn] \in Values
      /\ wanted' = [wanted EXCEPT ![conn] = v]
      /\ UNCHANGED <<conn, sec_level, flash_ccc, pairing>>
  BY LinkAssumption DEF write_ccc, BootInv, TableInv, Values, connection
<1>2. wanted'[conn] = v /\ \A h \in Hosts : h # conn => wanted'[h] = wanted[h]
  BY <1>1 DEF TableInv
<1>3. BondedHosts' = BondedHosts
  BY SameBonds DEF write_ccc, keys, boot, Loaded
<1>4. GateInv
  BY DEF SubscriptionInv
<1>5. PICK c : c = SetValue(cfg, conn, v)
  BY Zenon
<1>6. OneEntry(c, conn, v)
  <2>1. PICK t : t = cfg
    OBVIOUS
  <2>2. t = Table(conn, wanted[conn]) /\ c = SetValue(t, conn, v)
    BY <1>1, <1>4, <1>5, <2>1 DEF GateInv
  <2>3. QED
    BY <1>1, <2>2, SetValueGives
<1>7. /\ LargestValue(c) = v
      /\ Without(c, conn) = Table(conn, 0)
      /\ v # 0 => c = Table(conn, v)
  BY <1>1, <1>6, OneEntryFacts, Zenon
<1>8. ccc_value' = v /\ simulate_input' = IF v = 1 THEN 1 ELSE 0
  <2>1. CASE v # ccc_value /\ gatt_ccc_changed(c)
    BY <1>7, <2>1 DEF gatt_ccc_changed
  <2>2. CASE v = ccc_value /\ UNCHANGED <<ccc_value, simulate_input>>
    BY <1>4, <2>2 DEF GateInv
  <2>3. QED
    BY <1>5, <2>1, <2>2 DEF write_ccc
<1>9. cfg' = Table(conn, v)
  BY <1>5, <1>7 DEF write_ccc
<1>10. GateInv'
  <2>1. cfg' = Table(conn, wanted[conn])'
    BY <1>1, <1>2, <1>9 DEF Table
  <2>2. QED
    BY <1>1, <1>2, <1>8, <2>1 DEF GateInv
<1>11. ASSUME NEW h \in Hosts PROVE StoredOf(h)'
  <2>1. StoredOf(h)
    BY DEF SubscriptionInv
  <2>2. QED
    BY <1>1, <1>2, <1>3, <2>1 DEF StoredOf, StoredValue
<1>12. QED
  BY <1>10, <1>11 DEF SubscriptionInv

LEMMA CleanupKeepsSubscription ==
  ASSUME BootInv, TableInv, PoolInv, SubscriptionInv, Cleanup
  PROVE  SubscriptionInv'
<1>1. /\ conn \in Hosts /\ conn # None /\ wanted[conn] \in Values
      /\ Loaded /\ Loaded' /\ conn' = None /\ ccc_value' = 0
  BY DEF Cleanup, BootInv, TableInv, Loaded, boot
<1>2. GateInv
  BY DEF SubscriptionInv
<1>3. cfg = Table(conn, wanted[conn])
  BY <1>1, <1>2 DEF GateInv
<1>4. /\ EntriesOf(cfg, conn) = IF wanted[conn] = 0 THEN {} ELSE {1}
      /\ ValueOf(cfg, conn) = wanted[conn]
      /\ Without(cfg, conn) = Table(conn, 0)
  BY <1>1, <1>3, TableFacts
<1>5. bt_addr_le_is_bonded(conn) <=> conn \in BondedHosts
  BY <1>1, Zenon DEF BondedHosts, bt_addr_le_is_bonded
<1>6. simulate_input' = 0
  BY <1>2 DEF Cleanup, GateInv
<1>7. CASE conn \in BondedHosts
  <2>1. disconnected_cb(cfg, conn) = cfg
    BY <1>5, <1>7 DEF disconnected_cb
  <2>2. /\ cfg' = Without(cfg, conn) /\ key_pool' = key_pool /\ wanted' = wanted
        /\ flash_keys' = flash_keys
        /\ flash_ccc' = [flash_ccc EXCEPT ![conn] = IF EntriesOf(cfg, conn) = {} THEN None
                                                     ELSE ValueOf(cfg, conn)]
    BY <1>5, <1>7, <2>1 DEF Cleanup
  <2>3. BondedHosts' = BondedHosts
    BY <1>1, <2>2 DEF BondedHosts
  <2>4. cfg' = Table(None, 0)
    BY <1>4, <2>2, EmptyTable
  <2>5. ASSUME NEW h \in Hosts PROVE StoredOf(h)'
    <3>1. StoredOf(h)
      BY DEF SubscriptionInv
    <3>2. CASE h = conn
      <4>1. flash_ccc'[h] = IF wanted[h] = 0 THEN None ELSE wanted[h]
        BY <1>4, <2>2, <3>2 DEF TableInv
      <4>2. wanted[h] # None /\ None # 0
        BY <1>1, <3>2, LinkAssumption DEF Values
      <4>3. QED
        BY <1>7, <2>2, <2>3, <3>2, <4>1, <4>2 DEF StoredOf, StoredValue
    <3>3. CASE h # conn
      <4>1. flash_ccc'[h] = flash_ccc[h]
        BY <2>2, <3>3 DEF TableInv
      <4>2. QED
        BY <2>2, <2>3, <3>1, <3>3, <4>1 DEF StoredOf, StoredValue
    <3>4. QED
      BY <3>2, <3>3
  <2>6. GateInv'
    BY <1>1, <1>6, <2>4 DEF GateInv, Table
  <2>7. QED
    BY <2>5, <2>6 DEF SubscriptionInv
<1>8. CASE conn \notin BondedHosts
  <2>1. /\ cfg' = disconnected_cb(cfg, conn) /\ flash_ccc' = flash_ccc
        /\ key_pool' = [key_pool EXCEPT ![conn] = NoKeys]
        /\ wanted' = [wanted EXCEPT ![conn] = 0]
    BY <1>5, <1>8 DEF Cleanup
  <2>2. \A h \in Hosts : h \in BondedHosts' <=> h \in BondedHosts /\ h # conn
    <3>1. \A h \in Hosts : key_pool'[h] = IF h = conn THEN NoKeys ELSE key_pool[h]
      BY <2>1 DEF PoolInv
    <3>2. NoKeys.bond = FALSE
      BY DEF NoKeys
    <3>3. QED
      BY <1>1, <3>1, <3>2, Zenon DEF BondedHosts
  <2>3. cfg' = Table(None, 0)
    <3>1. CASE wanted[conn] = 0
      <4>1. disconnected_cb(cfg, conn) = cfg
        BY <1>4, <3>1 DEF disconnected_cb
      <4>2. QED
        BY <1>3, <2>1, <3>1, <4>1, EmptyTable
    <3>2. CASE wanted[conn] # 0
      <4>1. ccc_value # 0
        BY <1>1, <1>2, <1>8, <3>2 DEF GateInv
      <4>2. disconnected_cb(cfg, conn) = Without(cfg, conn)
        BY <1>4, <1>5, <1>8, <3>2, <4>1 DEF disconnected_cb
      <4>3. QED
        BY <1>4, <2>1, <4>2, EmptyTable
    <3>3. QED
      BY <3>1, <3>2
  <2>4. ASSUME NEW h \in Hosts PROVE StoredOf(h)'
    <3>1. StoredOf(h)
      BY DEF SubscriptionInv
    <3>2. wanted'[h] = IF h = conn THEN 0 ELSE wanted[h]
      BY <2>1 DEF TableInv
    <3>3. QED
      BY <2>1, <2>2, <3>1, <3>2 DEF StoredOf, StoredValue
  <2>5. GateInv'
    BY <1>1, <1>6, <2>3 DEF GateInv, Table
  <2>6. QED
    BY <2>4, <2>5 DEF SubscriptionInv
<1>9. QED
  BY <1>7, <1>8

LEMMA PowerFailureKeepsSubscription ==
  ASSUME PoolInv, SubscriptionInv, PowerFails
  PROVE  SubscriptionInv'
<1>1. /\ conn' = None /\ ccc_value' = 0 /\ simulate_input' = 0 /\ ~Loaded'
      /\ cfg' = [i \in 1..CccMax |-> FreeCfg] /\ UNCHANGED <<flash_keys, flash_ccc>>
  BY DEF PowerFails, Reset, Loaded
<1>2. cfg' = Table(None, 0)
  BY <1>1 DEF Table
<1>3. GateInv'
  BY <1>1, <1>2 DEF GateInv, Table
<1>4. ASSUME NEW h \in Hosts PROVE StoredOf(h)'
  <2>1. StoredOf(h)
    BY DEF SubscriptionInv
  <2>2. h \in BondedHosts' <=> flash_keys[h].bond
    BY <1>1, Zenon DEF BondedHosts
  <2>3. flash_keys[h].bond => h \in BondedHosts
    BY BondsInFlash
  <2>4. wanted'[h] = IF ~flash_keys[h].bond THEN 0
                     ELSE IF h = conn THEN StoredValue(h) ELSE wanted[h]
    BY DEF PowerFails
  <2>5. StoredValue(h)' = StoredValue(h) /\ flash_ccc'[h] = flash_ccc[h]
    BY <1>1 DEF StoredValue
  <2>6. wanted'[h] = IF h \in BondedHosts' THEN StoredValue(h)' ELSE 0
    <3>1. conn # h /\ h \in BondedHosts => wanted[h] = StoredValue(h)
      BY <2>1 DEF StoredOf
    <3>2. CASE flash_keys[h].bond
      BY <2>2, <2>3, <2>4, <2>5, <3>1, <3>2
    <3>3. CASE ~flash_keys[h].bond
      BY <2>2, <2>4, <3>3
    <3>4. QED
      BY <3>2, <3>3
  <2>7. QED
    BY <2>1, <2>5, <2>6 DEF StoredOf
<1>5. QED
  BY <1>3, <1>4 DEF SubscriptionInv

LEMMA StepKeepsSubscription ==
  ASSUME BootInv, TableInv, PoolInv, SubscriptionInv, [LinkNext]_linkVars
  PROVE  SubscriptionInv'
<1>1. CASE bt_enable \/ register_callbacks
  <2>1. Loaded' = Loaded
    BY <1>1 DEF bt_enable, register_callbacks, Loaded, BootInv
  <2>2. QED
    BY <1>1, <2>1, SameBonds, SameSubscription
    DEF bt_enable, register_callbacks, keys, connection, ccc
<1>2. CASE bt_ready
  <2>1. CASE ready_pc = "init" /\ ready_pc' = "loaded" /\ key_pool' = flash_keys
    <3>1. ~Loaded /\ Loaded'
      BY <2>1 DEF Loaded
    <3>2. BondedHosts' = BondedHosts
      BY <2>1, <3>1 DEF BondedHosts
    <3>3. QED
      BY <1>2, <3>2, SameSubscription DEF bt_ready, connection, ccc
  <2>2. CASE ready_pc = "loaded" /\ ready_pc' = "up" /\ UNCHANGED key_pool
    <3>1. Loaded' = Loaded
      BY <2>2 DEF Loaded
    <3>2. QED
      BY <1>2, <2>2, <3>1, SameBonds, SameSubscription DEF bt_ready, connection, ccc
  <2>3. QED
    BY <1>2, <2>1, <2>2 DEF bt_ready
<1>3. ASSUME NEW h \in Hosts, Connect(h) PROVE SubscriptionInv'
  BY <1>3, ConnectKeepsSubscription
<1>4. CASE Encrypt
  <2>1. link = "up" /\ pairing' = FALSE /\ \E level \in 2..3 : encrypt_change(level)
    BY <1>4 DEF Encrypt, Level
  <2>2. BondedHosts' = BondedHosts
    BY <1>4, SameBonds DEF Encrypt, encrypt_change, keys, boot, Loaded
  <2>3. QED
    BY <2>1, <2>2, EncryptKeepsSubscription
<1>5. ASSUME NEW p \in Pairings, Pair(p[1], p[2]) PROVE SubscriptionInv'
  BY <1>5, PairKeepsSubscription
<1>6. CASE PairingDone
  <2>1. Loaded /\ Loaded' /\ key_pool' = key_pool
    BY <1>6 DEF PairingDone, BootInv, Loaded, boot
  <2>2. BondedHosts' = BondedHosts
    BY <2>1 DEF BondedHosts
  <2>3. QED
    BY <1>6, <2>2, SameSubscription DEF PairingDone, ccc
<1>7. CASE PairingFails
  <2>1. /\ conn \in Hosts /\ Loaded /\ Loaded' /\ key_pool' = [key_pool EXCEPT ![conn] = NoKeys]
        /\ pairing /\ ~pairing'
        /\ UNCHANGED <<conn, sec_level, flash_ccc, cfg, ccc_value, simulate_input, wanted>>
    BY <1>7 DEF PairingFails, BootInv, Loaded, boot, ccc
  <2>2. \A h \in Hosts : h # conn => (h \in BondedHosts' <=> h \in BondedHosts)
    <3>1. \A h \in Hosts : h # conn => key_pool'[h] = key_pool[h]
      BY <2>1 DEF PoolInv
    <3>2. QED
      BY <2>1, <3>1, Zenon DEF BondedHosts
  <2>3. GateInv'
    BY <2>1 DEF SubscriptionInv, GateInv, Table
  <2>4. ASSUME NEW h \in Hosts PROVE StoredOf(h)'
    <3>1. StoredOf(h)
      BY DEF SubscriptionInv
    <3>2. QED
      BY <2>1, <2>2, <3>1 DEF StoredOf, StoredValue
  <2>5. QED
    BY <2>3, <2>4 DEF SubscriptionInv
<1>8. CASE Disconnect
  BY <1>8, SameBonds, SameSubscription DEF Disconnect, keys, boot, ccc, Loaded
<1>9. ASSUME NEW v \in Written, write_ccc(v) PROVE SubscriptionInv'
  BY <1>9, WriteKeepsSubscription
<1>10. CASE Cleanup
  BY <1>10, CleanupKeepsSubscription
<1>11. CASE PowerFails
  BY <1>11, PowerFailureKeepsSubscription
<1>12. ASSUME NEW t \in Notifiers, Lookup(t) \/ Unref(t) PROVE SubscriptionInv'
  BY <1>12, SameBonds, SameSubscription DEF Lookup, Unref, keys, boot, connection, ccc, Loaded
<1>13. CASE UNCHANGED linkVars
  BY <1>13, SameBonds, SameSubscription DEF linkVars, keys, boot, connection, ccc, Loaded
<1>14. QED
  BY <1>1, <1>2, <1>3, <1>4, <1>5, <1>6, <1>7, <1>8, <1>9, <1>10, <1>11, <1>12, <1>13, Zenon
  DEF LinkNext, StackNext

\* The parts of LinkInv and SubscriptionInv are kept together.
LEMMA SubscriptionInvariant == LinkSpec => [](LinkInv /\ SubscriptionInv)
<1>1. LinkInit => LinkInv /\ SubscriptionInv
  BY LinkInvInit, SubscriptionInit
<1>2. LinkInv /\ SubscriptionInv /\ [LinkNext]_linkVars => LinkInv' /\ SubscriptionInv'
  BY StepKeepsLink, StepKeepsSubscription DEF LinkInv
<1>3. QED
  BY <1>1, <1>2, PTL DEF LinkSpec

\* hog.c sends reports when, and only when, the connected host has subscribed
\* on a link that is secure enough: for any number of hosts, of keys and of
\* CCC entries, whatever hosts write, pair and leave, with power failures.
THEOREM LinkGateMatchesSubscription == LinkSpec => []GateMatchesSubscription
<1>1. LinkInv /\ SubscriptionInv => GateMatchesSubscription
  BY SubscriptionInvImplies DEF LinkInv
<1>2. QED
  BY <1>1, SubscriptionInvariant, PTL

\* A bonded host that comes back finds the subscription it left, whatever
\* other hosts, pairings and power failures come between: for any number of
\* hosts, of keys and of CCC entries.
THEOREM LinkSubscriptionSurvives == LinkSpec => []SubscriptionSurvives
<1>1. LinkInv /\ SubscriptionInv => SubscriptionSurvives
  BY SubscriptionInvImplies DEF LinkInv
<1>2. QED
  BY <1>1, SubscriptionInvariant, PTL

\* The connected host has an entry of the table or finds a free one: "No space
\* to store CCC cfg" is said to no host, even with a single entry for any
\* number of hosts, because whoever unsubscribes or leaves gives its entry back.
THEOREM LinkHasRoomToSubscribe == LinkSpec => [](conn # None => HasPlace(cfg, conn))
<1>1. LinkInv /\ SubscriptionInv => (conn # None => HasPlace(cfg, conn))
  <2>1. ASSUME LinkInv, SubscriptionInv, conn # None PROVE HasPlace(cfg, conn)
    <3>1. conn \in Hosts /\ wanted[conn] \in Values /\ cfg = Table(conn, wanted[conn])
      BY <2>1 DEF LinkInv, BootInv, TableInv, SubscriptionInv, GateInv
    <3>2. QED
      BY <3>1, TableFacts
  <2>2. QED
    BY <2>1
<1>2. QED
  BY <1>1, SubscriptionInvariant, PTL
=============================================================================
