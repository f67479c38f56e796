---------------------------- MODULE SettingsNvs -----------------------------
(***************************************************************************)
(* Settings on NVS (subsys/settings/src/settings_nvs.c).  A setting takes  *)
(* two entries, name and value, and a third holds the largest name id in   *)
(* use.  They are written one after the other; each write is atomic, as    *)
(* module Nvs shows, and finds room.  Power may fail between two of them.  *)
(***************************************************************************)
EXTENDS Integers, FiniteSets, FiniteSetsExt

CONSTANTS Names, Vals, None,
          MaxId      \* NVS_NAME_ID_OFFSET - 1: the number of name ids

ASSUME SettingsAssumption == MaxId \in Nat /\ None \notin Names \cup Vals

VARIABLES
  namecnt, name, value,  \* the entries in NVS
  last_name_id,
  pc,          \* "idle", "load", "return", or the entry that is written next
  name_id,     \* write_name_id of a save, name_id of a deletion or a load
  write_name,
  rc,          \* what the call in progress is going to return
  request,     \* the call of settings_nvs_save: a name and its value, <<>> if none
  answer       \* what the last one returned

settingsVars == <<namecnt, name, value, last_name_id, pc, name_id, write_name, rc, request,
                  answer>>

IdsUpTo(n) == 1..n

-----------------------------------------------------------------------------
SettingsInit ==
  /\ namecnt = 0 /\ last_name_id = 0
  /\ name = [id \in IdsUpTo(MaxId) |-> None] /\ value = [id \in IdsUpTo(MaxId) |-> None]
  /\ pc = "idle" /\ name_id = 0 /\ write_name = FALSE
  /\ rc = "ok" /\ request = <<>> /\ answer = "none"

\* Mutant: ids of deleted settings are not used again.
FreeId_above == last_name_id + 1

\* The loop over the names in settings_nvs_save.
IdsOf(n) == {id \in IdsUpTo(last_name_id) : name[id] = n}
FreeId == Min({id \in IdsUpTo(last_name_id) : name[id] = None} \cup {last_name_id + 1})

\* A call of settings_nvs_save; the settings lock keeps others out.
Begin(n, v) ==
  /\ pc = "idle"
  /\ request' = <<n, v>> /\ answer' = "none"
  /\ UNCHANGED <<namecnt, name, value, last_name_id>>

\* The largest id in use goes first if it is the one.
DeleteFrom(id) == IF id = last_name_id THEN "uncount" ELSE "unname"

\* settings_nvs_save without a value
Delete(n) ==
  /\ Begin(n, None)
  /\ \/ IdsOf(n) = {} /\ pc' = "return" /\ UNCHANGED name_id
     \/ /\ IdsOf(n) # {}
        /\ name_id' = Max(IdsOf(n)) /\ pc' = DeleteFrom(name_id')
  /\ rc' = "ok" /\ UNCHANGED write_name

settings_nvs_save(n, v) ==
  /\ Begin(n, v)
  /\ write_name' = (IdsOf(n) = {})
  /\ name_id' = IF IdsOf(n) = {} THEN FreeId ELSE Max(IdsOf(n))
  /\ \/ name_id' <= MaxId /\ pc' = "value" /\ rc' = "ok"
     \/ name_id' > MaxId /\ pc' = "return" /\ rc' = "failed"   \* no free ids left

\* Mutant: the largest id is not written.
Counting_forgotten == "return"

\* The largest id is written if it grows.
Counting == IF name_id > last_name_id THEN "count" ELSE "return"

WriteValue ==
  /\ pc = "value" /\ pc' = IF write_name THEN "name" ELSE Counting
  /\ value' = [value EXCEPT ![name_id] = request[2]]
  /\ UNCHANGED <<namecnt, name, last_name_id, name_id, write_name, rc, request, answer>>

WriteName ==
  /\ pc = "name" /\ pc' = Counting
  /\ name' = [name EXCEPT ![name_id] = request[1]]
  /\ UNCHANGED <<namecnt, value, last_name_id, name_id, write_name, rc, request, answer>>

\* Mutant: last_name_id stays behind.
SetLast_not(id) == UNCHANGED last_name_id

SetLast(id) == last_name_id' = id

WriteCount ==
  /\ \/ pc = "count" /\ pc' = "return" /\ SetLast(name_id) /\ namecnt' = name_id
     \/ pc = "uncount" /\ pc' = "unname" /\ SetLast(last_name_id - 1) /\ namecnt' = last_name_id - 1
  /\ UNCHANGED <<name, value, name_id, write_name, rc, request, answer>>

\* nvs_delete of the name, then of the value
DeleteName ==
  /\ pc = "unname" /\ pc' = "unvalue"
  /\ name' = [name EXCEPT ![name_id] = None]
  /\ UNCHANGED <<namecnt, value, last_name_id, name_id, write_name, rc, request, answer>>

DeleteValue ==
  /\ pc = "unvalue" /\ pc' = IF request = <<>> THEN "load" ELSE "return"
  /\ value' = [value EXCEPT ![name_id] = None]
  /\ UNCHANGED <<namecnt, name, last_name_id, name_id, write_name, rc, request, answer>>

Return ==
  /\ pc = "return" /\ pc' = "idle"
  /\ request' = <<>> /\ answer' = rc
  /\ UNCHANGED <<namecnt, name, value, last_name_id, name_id, write_name, rc>>

-----------------------------------------------------------------------------
\* settings_nvs_load, on a new connection
Load ==
  /\ pc = "idle" /\ pc' = "load"
  /\ name_id' = last_name_id + 1
  /\ UNCHANGED <<namecnt, name, value, last_name_id, write_name, rc, request, answer>>

\* What the loop does with the entry id: one that has lost its name or its value
\* is deleted; a handler may refuse a whole one, which ends the loop.
Visit(id) ==
  \/ name[id] = None /\ value[id] = None /\ pc' = "load"
  \/ (name[id] = None) # (value[id] = None) /\ pc' = DeleteFrom(id)
  \/ name[id] # None /\ value[id] # None /\ pc' \in {"load", "idle"}

LoadNext ==
  /\ pc = "load"
  /\ name_id' = name_id - 1
  /\ \/ name_id' = 0 /\ pc' = "idle"
     \/ name_id' # 0 /\ Visit(name_id')
  /\ UNCHANGED <<namecnt, name, value, last_name_id, write_name, rc, request, answer>>

\* Power fails; settings_nvs_backend_init, and settings_load in bt_ready.
Reset ==
  /\ last_name_id' = namecnt
  /\ pc' = "load" /\ name_id' = namecnt + 1 /\ write_name' = FALSE
  /\ rc' = "ok" /\ request' = <<>> /\ answer' = "none"
  /\ UNCHANGED <<namecnt, name, value>>

SettingsNext ==
  \/ \E n \in Names : Delete(n) \/ \E v \in Vals : settings_nvs_save(n, v)
  \/ WriteValue \/ WriteName \/ WriteCount \/ DeleteName \/ DeleteValue \/ Return
  \/ Load \/ LoadNext \/ Reset

SettingsSpec == SettingsInit /\ [][SettingsNext]_settingsVars

-----------------------------------------------------------------------------
\* What settings_load would hand over after a reset.
Loaded(n) ==
  LET ids == {id \in IdsUpTo(namecnt) : name[id] = n /\ value[id] # None}
  IN  IF ids = {} THEN None ELSE value[Min(ids)]

Kv == INSTANCE KvStore WITH Keys <- Names, Values <- Vals \cup {None}, Absent <- None,
                            store <- [n \in Names |-> Loaded(n)]

\* A setting that was saved is there after a reset, whenever that comes: name,
\* value and largest id are three entries, and still a save or a deletion
\* happens at once or not at all, and changes no other setting.
ImplementsKvStore == Kv!KvSpec

\* A name has one place only, and the ids above the largest are out of use for
\* good: otherwise an old value could come back when the largest id grows.  No
\* name is written under an id that stands for a value.
OnePlace ==
  /\ namecnt \in 0..MaxId /\ (pc \in {"value", "name"} => name_id \in 1..MaxId)
  /\ \A i, j \in IdsUpTo(namecnt) : name[i] = name[j] /\ name[i] # None => i = j
  /\ pc = "idle" => namecnt = last_name_id

\* No id is lost to deletions and interrupted saves: a save is refused only
\* when each id holds a setting.
RefusedMeansFull ==
  (request # <<>> /\ rc = "failed") => Cardinality({n \in Names : Loaded(n) # None}) = MaxId
=============================================================================
