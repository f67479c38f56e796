------------------------------- MODULE BtLink -------------------------------
(***************************************************************************)
(* Which host the keyboard is connected to and whether it gets reports:    *)
(* main() and the callbacks of main.c, input_ccc_changed of hog.c, and     *)
(* what they rest on in the Bluetooth host stack: the table of client      *)
(* configurations (CCC) of gatt.c with its entries in flash, the key pool  *)
(* filled by pairing, and the life of a connection from advertising to     *)
(* clean-up.  The handlers run in cooperative threads, so each is one      *)
(* step; power may fail between any two.  One connection at a time         *)
(* (CONFIG_BT_MAX_CONN), the input report's CCC only.                      *)
(***************************************************************************)
EXTENDS Integers, FiniteSets, FiniteSetsExt

CONSTANTS Hosts,      \* hosts that may connect
          None,       \* BT_ADDR_LE_ANY, and no connection
          MaxPaired,  \* CONFIG_BT_MAX_PAIRED
          CccMax,     \* BT_GATT_CCC_MAX
          Notifiers,  \* threads that call bt_gatt_notify
          Pairings,   \* ways to pair: whether with a bond, whether with a passkey
          Written,    \* values that hosts write to the CCC
          Blackouts   \* whether power may fail

ASSUME LinkAssumption ==
  /\ None \notin Hosts \cup 0..2
  /\ MaxPaired \in Nat /\ CccMax \in Nat \ {0}
  /\ Pairings \subseteq BOOLEAN \X BOOLEAN
  /\ Written \subseteq 0..2
  /\ Blackouts \in BOOLEAN

VARIABLES
  main_pc,             \* main(): "start", "enabled", "conn_cb", "loop"
  ready_pc,            \* bt_ready: "off", "init", "loaded", "up"
  adv,                 \* BT_ADV_ENABLED
  conn, link,          \* the connection's host; "none", "up", "closing", "down"
  sec_level, required_sec_level,  \* 3 stands for 3 and above
  pairing,             \* SMP_FLAG_PAIRING: keys agreed, pairing not complete
  key_pool,            \* keys of each host in RAM
  flash_keys, flash_ccc,  \* settings bt/keys and bt/ccc
  cfg, ccc_value,      \* struct _bt_gatt_ccc: cfg[] and value
  simulate_input,      \* hog.c: reports are sent
  holders,             \* threads with a reference to the connection
  wanted               \* history: the subscription each host has left

boot == <<main_pc, ready_pc>>
connection == <<conn, link, sec_level, required_sec_level, pairing>>
keys == <<key_pool, flash_keys>>
ccc == <<cfg, ccc_value, simulate_input>>
linkVars == <<boot, adv, holders, connection, keys, flash_ccc, ccc, wanted>>

Values == 0..2   \* off, BT_GATT_CCC_NOTIFY, BT_GATT_CCC_INDICATE
NoKeys == [bond |-> FALSE, auth |-> FALSE, used |-> FALSE]
Keys == [bond : BOOLEAN, auth : BOOLEAN, used : BOOLEAN]
FreeCfg == [peer |-> None, value |-> 0]

\* One connection, and no more keys in RAM than the pool has slots.
LinkTypeOK ==
  /\ main_pc \in {"start", "enabled", "conn_cb", "loop"}
  /\ ready_pc \in {"off", "init", "loaded", "up"}
  /\ adv \in BOOLEAN
  /\ conn \in Hosts \cup {None}
  /\ link \in {"none", "up", "closing", "down"}
  /\ (conn = None) <=> (link = "none")
  /\ sec_level \in 1..3 /\ required_sec_level \in 1..3 /\ pairing \in BOOLEAN
  /\ key_pool \in [Hosts -> Keys] /\ flash_keys \in [Hosts -> Keys]
  /\ Cardinality({h \in Hosts : key_pool[h].used}) <= MaxPaired
  /\ flash_ccc \in [Hosts -> Values \cup {None}]
  /\ cfg \in [1..CccMax -> [peer : Hosts \cup {None}, value : Values]]
  /\ ccc_value \in Values /\ simulate_input \in 0..1
  /\ holders \subseteq Notifiers
  /\ wanted \in [Hosts -> Values]

\* What RAM holds after a reset.
Reset ==
  /\ main_pc' = "start" /\ ready_pc' = "off"
  /\ adv' = FALSE /\ holders' = {}
  /\ conn' = None /\ link' = "none" /\ sec_level' = 1 /\ required_sec_level' = 1
  /\ pairing' = FALSE
  /\ key_pool' = [h \in Hosts |-> NoKeys]
  /\ cfg' = [i \in 1..CccMax |-> FreeCfg]
  /\ ccc_value' = 0 /\ simulate_input' = 0

LinkInit ==
  /\ main_pc = "start" /\ ready_pc = "off"
  /\ adv = FALSE /\ holders = {}
  /\ conn = None /\ link = "none" /\ sec_level = 1 /\ required_sec_level = 1
  /\ pairing = FALSE
  /\ key_pool = [h \in Hosts |-> NoKeys] /\ flash_keys = key_pool
  /\ flash_ccc = [h \in Hosts |-> None]
  /\ cfg = [i \in 1..CccMax |-> FreeCfg]
  /\ ccc_value = 0 /\ simulate_input = 0
  /\ wanted = [h \in Hosts |-> 0]

-----------------------------------------------------------------------------
(***************************************************************************)
(* main() and bt_ready                                                     *)
(***************************************************************************)
bt_enable ==
  /\ main_pc = "start"
  /\ main_pc' = "enabled" /\ ready_pc' = "init"
  /\ UNCHANGED <<adv, holders, connection, keys, flash_ccc, ccc, wanted>>

\* bt_conn_cb_register, then bt_conn_auth_cb_register; nothing orders them
\* before bt_ready.
register_callbacks ==
  /\ \/ main_pc = "enabled" /\ main_pc' = "conn_cb"
     \/ main_pc = "conn_cb" /\ main_pc' = "loop"
  /\ UNCHANGED <<ready_pc, adv, holders, connection, keys, flash_ccc, ccc, wanted>>

\* bt_ready: settings_load reads the keys, the CCC entries are read on
\* connection; then advertising starts and will be resumed (BT_ADV_PERSIST).
bt_ready ==
  /\ \/ /\ ready_pc = "init" /\ ready_pc' = "loaded"
        /\ key_pool' = flash_keys
        /\ UNCHANGED adv
     \/ /\ ready_pc = "loaded" /\ ready_pc' = "up"
        /\ adv' = TRUE
        /\ UNCHANGED key_pool
  /\ UNCHANGED <<main_pc, holders, connection, flash_keys, flash_ccc, ccc, wanted>>

-----------------------------------------------------------------------------
(***************************************************************************)
(* The CCC table                                                           *)
(***************************************************************************)
bt_addr_le_is_bonded(h) == key_pool[h].bond

\* bt_keys_get_addr finds the host's slot of the pool or a free one.
HasKeySlot(h) ==
  key_pool[h].used \/ Cardinality({g \in Hosts : key_pool[g].used}) < MaxPaired

EntriesOf(c, h) == {i \in 1..CccMax : c[i].peer = h}
ValueOf(c, h) == IF EntriesOf(c, h) = {} THEN 0 ELSE c[Min(EntriesOf(c, h))].value
HasPlace(c, h) == EntriesOf(c, h) \cup EntriesOf(c, None) # {}

\* The entry of host h, or else a free one, gets value v (find_ccc_cfg).
SetValue(c, h, v) ==
  LET i == IF EntriesOf(c, h) # {} THEN Min(EntriesOf(c, h)) ELSE Min(EntriesOf(c, None))
  IN  [c EXCEPT ![i] = [peer |-> h, value |-> v]]

Without(c, h) == [i \in 1..CccMax |-> IF c[i].peer = h THEN FreeCfg ELSE c[i]]

LargestValue(c) == Max({c[i].value : i \in 1..CccMax})

\* Mutant: cfg_changed is left out.
gatt_ccc_changed_silent(c) ==
  /\ ccc_value' = LargestValue(c)
  /\ UNCHANGED simulate_input

\* gatt_ccc_changed on table c, with input_ccc_changed when the value changes.
gatt_ccc_changed(c) ==
  LET value == LargestValue(c)
  IN  /\ ccc_value' = value
      /\ simulate_input' = IF value = ccc_value THEN simulate_input
                           ELSE IF value = 1 THEN 1 ELSE 0

\* update_ccc: an active configuration takes effect once the link has the
\* security that writing it needs, BT_GATT_PERM_WRITE_AUTHEN.
update_ccc(level) ==
  \/ ValueOf(cfg, conn) # 0 /\ level = 3 /\ gatt_ccc_changed(cfg)
  \/ (ValueOf(cfg, conn) = 0 \/ level < 3) /\ UNCHANGED <<ccc_value, simulate_input>>

\* Mutant: bt_gatt_check_perm asks for encryption only.
MayWrite_encrypted == sec_level >= 2

\* bt_gatt_check_perm on the CCC, BT_GATT_PERM_WRITE_AUTHEN.
MayWrite == sec_level = 3

\* Mutant: a value that has been switched off keeps its entry.
write_ccc_keeps(v) ==
  LET c == SetValue(cfg, conn, v)
  IN  /\ link = "up" /\ MayWrite
      /\ EntriesOf(cfg, conn) = {} => v # 0 /\ HasPlace(cfg, conn)
      /\ \/ v # ccc_value /\ gatt_ccc_changed(c)
         \/ v = ccc_value /\ UNCHANGED <<ccc_value, simulate_input>>
      /\ cfg' = c
      /\ wanted' = [wanted EXCEPT ![conn] = v]
      /\ UNCHANGED <<boot, adv, holders, connection, keys, flash_ccc>>

\* bt_gatt_attr_write_ccc from the connected host: refused by
\* bt_gatt_check_perm below level 3, and when no entry is left.  A value that
\* has been switched off gives its entry back (clear_ccc_cfg).
write_ccc(v) ==
  LET c == SetValue(cfg, conn, v)
  IN  /\ link = "up" /\ MayWrite
      /\ EntriesOf(cfg, conn) = {} => v # 0 /\ HasPlace(cfg, conn)
      /\ \/ v # ccc_value /\ gatt_ccc_changed(c)
         \/ v = ccc_value /\ UNCHANGED <<ccc_value, simulate_input>>
      /\ cfg' = IF v = 0 THEN Without(c, conn) ELSE c
      /\ wanted' = [wanted EXCEPT ![conn] = v]
      /\ UNCHANGED <<boot, adv, holders, connection, keys, flash_ccc>>

\* disconnected_cb: with the value off the entries are not looked
\* at; otherwise an unpaired host's entry is cleared.
disconnected_cb(c, h) ==
  IF ccc_value # 0 /\ ValueOf(c, h) # 0 /\ ~bt_addr_le_is_bonded(h)
    THEN Without(c, h) ELSE c

-----------------------------------------------------------------------------
(***************************************************************************)
(* The connection                                                          *)
(***************************************************************************)
\* enh_conn_complete: connected() asks for level 2, which takes a slot of the
\* key pool; then bt_gatt_connected loads a bonded host's configuration and,
\* if it is active, asks for level 3.  A request that cannot be made resets
\* the required level.
Connect(h) ==
  LET asks == main_pc \in {"conn_cb", "loop"} /\ HasKeySlot(h)
      loads == bt_addr_le_is_bonded(h) /\ flash_ccc[h] # None /\ HasPlace(cfg, h)
      c == IF loads THEN SetValue(cfg, h, flash_ccc[h]) ELSE cfg
      reachable == main_pc = "loop" \/ (bt_addr_le_is_bonded(h) /\ key_pool[h].auth)
  IN  /\ adv /\ adv' = FALSE
      /\ conn' = h /\ link' = "up"
      /\ sec_level' = 1
      /\ required_sec_level' = IF ValueOf(c, h) # 0 THEN IF reachable THEN 3 ELSE 1
                               ELSE IF asks THEN 2 ELSE 1
      /\ key_pool' = [key_pool EXCEPT ![h].used = @ \/ asks]
      /\ cfg' = c
      /\ UNCHANGED <<boot, holders, pairing, flash_keys, flash_ccc, ccc_value, simulate_input,
                     wanted>>

\* hci_encrypt_change: update_sec_level closes a link that is not as secure
\* as was asked for; then update_ccc.
encrypt_change(level) ==
  /\ sec_level' = level
  /\ link' = IF required_sec_level > level THEN "closing" ELSE "up"
  /\ update_ccc(level)
  /\ UNCHANGED <<boot, adv, holders, conn, required_sec_level, cfg, flash_ccc, wanted>>

Level(k) == IF k.auth THEN 3 ELSE 2

\* The host encrypts with the key of its bond.
Encrypt ==
  /\ link = "up" /\ sec_level = 1 /\ ~pairing
  /\ bt_addr_le_is_bonded(conn)
  /\ encrypt_change(Level(key_pool[conn]))
  /\ UNCHANGED <<pairing, keys>>

\* The host pairs: the pool needs room for its keys, a bond is not replaced
\* by a pairing without authentication (update_keys_check), and a passkey can
\* be shown only once auth_cb_display is registered (get_io_capa).  The link is
\* encrypted and bt_smp_update_keys clears the old keys, in flash too.
Pair(bond, passkey) ==
  LET k == [bond |-> bond, auth |-> passkey, used |-> TRUE]
  IN  /\ link = "up" /\ ~pairing
      /\ passkey => main_pc = "loop"
      /\ HasKeySlot(conn)
      /\ bt_addr_le_is_bonded(conn) => passkey
      /\ pairing' = TRUE
      /\ key_pool' = [key_pool EXCEPT ![conn] = k]
      /\ flash_keys' = [flash_keys EXCEPT ![conn] = NoKeys]
      /\ encrypt_change(Level(k))

\* smp_pairing_complete after key distribution: a bond is stored.
PairingDone ==
  /\ pairing /\ link = "up"
  /\ pairing' = FALSE
  /\ flash_keys' = [flash_keys EXCEPT
                      ![conn] = IF key_pool[conn].bond THEN key_pool[conn] ELSE NoKeys]
  /\ UNCHANGED <<boot, adv, holders, conn, link, sec_level, required_sec_level, key_pool, flash_ccc,
                 ccc, wanted>>

\* smp_pairing_complete with an error, or after smp_timeout: the keys go.
PairingFails ==
  /\ pairing /\ link = "up"
  /\ pairing' = FALSE
  /\ key_pool' = [key_pool EXCEPT ![conn] = NoKeys]
  /\ UNCHANGED <<boot, adv, holders, conn, link, sec_level, required_sec_level, flash_keys, flash_ccc,
                 ccc, wanted>>

\* hci_disconn_complete
Disconnect ==
  /\ link \in {"up", "closing"}
  /\ link' = "down"
  /\ pairing' = FALSE
  /\ UNCHANGED <<boot, adv, holders, conn, sec_level, required_sec_level, keys, flash_ccc, ccc,
                 wanted>>

\* Mutant: only the stack's own reference counts.
bt_conn_unref_early(others) == adv' = TRUE

\* Mutant: advertising is not resumed.
bt_conn_unref_deaf(others) == UNCHANGED adv

\* bt_conn_unref: without other references the connection's place is free and
\* bt_le_adv_resume starts advertising.
bt_conn_unref(others) == adv' = (others = {})

\* conn_update_timeout: bt_gatt_disconnected switches reports off, stores a
\* bonded host's configuration and removes it from the table;
\* bt_smp_disconnected frees keys without a bond; bt_conn_unref resumes
\* advertising.
Cleanup ==
  LET bonded == bt_addr_le_is_bonded(conn)
      c == disconnected_cb(cfg, conn)
  IN  /\ link = "down"
      /\ conn' = None /\ link' = "none" /\ sec_level' = 1 /\ required_sec_level' = 1
      /\ cfg' = IF bonded THEN Without(c, conn) ELSE c
      /\ ccc_value' = 0
      /\ simulate_input' = IF ccc_value = 0 THEN simulate_input ELSE 0
      /\ flash_ccc' = IF ~bonded THEN flash_ccc
                      ELSE [flash_ccc EXCEPT ![conn] = IF EntriesOf(c, conn) = {} THEN None
                                                       ELSE ValueOf(c, conn)]
      /\ key_pool' = IF bonded THEN key_pool ELSE [key_pool EXCEPT ![conn] = NoKeys]
      /\ bt_conn_unref(holders)
      /\ wanted' = IF bonded THEN wanted ELSE [wanted EXCEPT ![conn] = 0]
      /\ UNCHANGED <<boot, holders, pairing, flash_keys>>

(***************************************************************************)
(* bt_gatt_notify: notify_cb looks up the connection of the subscriber and *)
(* keeps a reference while it builds and sends the notification.           *)
(***************************************************************************)
MayNotify == simulate_input = 1 /\ link = "up" /\ ValueOf(cfg, conn) = 1

Lookup(t) ==
  /\ MayNotify /\ t \notin holders
  /\ holders' = holders \cup {t}
  /\ UNCHANGED <<boot, adv, connection, keys, flash_ccc, ccc, wanted>>

Unref(t) ==
  /\ t \in holders
  /\ holders' = holders \ {t}
  /\ \/ link = "none" /\ bt_conn_unref(holders')
     \/ link # "none" /\ UNCHANGED adv
  /\ UNCHANGED <<boot, connection, keys, flash_ccc, ccc, wanted>>

StoredValue(h) == IF flash_ccc[h] = None THEN 0 ELSE flash_ccc[h]

\* A host whose bond is not in flash is forgotten; the connected one falls back
\* to what was stored.
PowerFails ==
  /\ Blackouts
  /\ Reset
  /\ wanted' = [h \in Hosts |-> IF ~flash_keys[h].bond THEN 0
                               ELSE IF h = conn THEN StoredValue(h) ELSE wanted[h]]
  /\ UNCHANGED <<flash_keys, flash_ccc>>

StackNext ==
  \/ bt_enable \/ register_callbacks \/ bt_ready
  \/ \E h \in Hosts : Connect(h)
  \/ Encrypt
  \/ \E p \in Pairings : Pair(p[1], p[2])
  \/ PairingDone \/ PairingFails
  \/ \E v \in Written : write_ccc(v)
  \/ Disconnect \/ Cleanup

LinkNext == StackNext \/ PowerFails \/ \E t \in Notifiers : Lookup(t) \/ Unref(t)

\* The firmware's threads run; hosts do as they like.
Booting == bt_enable \/ register_callbacks \/ bt_ready
LinkSpec ==
  /\ LinkInit /\ [][LinkNext]_linkVars
  /\ WF_linkVars(Booting) /\ WF_linkVars(Cleanup)
  /\ \A t \in Notifiers : WF_linkVars(Unref(t))

-----------------------------------------------------------------------------
\* hog.c sends reports when, and only when, the connected host has subscribed
\* to notifications on a link that is secure enough: what simulate_input
\* remembers from callbacks agrees with the table.
GateMatchesSubscription ==
  /\ simulate_input = 1 => conn # None /\ ValueOf(cfg, conn) = 1
  /\ link = "up" /\ sec_level = 3 /\ ValueOf(cfg, conn) = 1 => simulate_input = 1

\* "security requirements must be checked against the configuration upon a
\* reconnection before sending indications or notifications" (gatt.c): the
\* gate opens on an authenticated link only.
OpensWhenSecure == [][simulate_input < simulate_input' => sec_level' = 3]_linkVars

\* A bonded host that comes back finds the subscription it left, in flash
\* while it is away and in the table once its link is authenticated.
SubscriptionSurvives ==
  \A h \in Hosts :
    /\ conn # h /\ (flash_keys[h].bond \/ key_pool[h].bond) => StoredValue(h) = wanted[h]
    /\ conn = h /\ sec_level = 3 => ValueOf(cfg, h) = wanted[h]

\* Unless power fails for ever, the keyboard is connected or can be found.
BecomesConnectable == <>[][~PowerFails]_linkVars => []<>(adv \/ link \in {"up", "closing"})
=============================================================================
