--------------------------- MODULE SettingsProofs ---------------------------
(***************************************************************************)
(* Settings on NVS implement a store whose calls are atomic, for any       *)
(* names, values and number of ids.                                        *)
(***************************************************************************)
EXTENDS SettingsNvs, FiniteSetTheorems, TLAPS

USE SettingsAssumption

Labels == {"idle", "load", "return", "value", "name", "count", "uncount", "unname", "unvalue"}
Ids == IdsUpTo(MaxId)

\* Id i is in use, and has the name n or, if n = None, no name.
Holds(i, n) == i \in IdsUpTo(namecnt) /\ name[i] = n

Nowhere(n) == \A i \in Ids : ~Holds(i, n)

SettingsTypes ==
  /\ namecnt \in 0..MaxId /\ last_name_id = namecnt
  /\ name \in [Ids -> Names \cup {None}] /\ value \in [Ids -> Vals \cup {None}]
  /\ pc \in Labels /\ name_id \in 0..(MaxId + 1)
  /\ \/ request = <<>>
     \/ /\ request \in Names \X (Vals \cup {None})
        /\ pc \notin {"idle", "load"}

\* The entries: what has a name has a value, and a name is found once.
EntriesInv ==
  /\ \A i \in Ids : name[i] # None => value[i] # None
  /\ \A i, j \in IdsUpTo(namecnt) : name[i] = name[j] /\ name[i] # None => i = j

\* The id a new name goes to.
Free == name_id = namecnt + 1 \/ Holds(name_id, None)

\* Where a save stands.
SaveInv ==
  /\ pc \in {"value", "name", "count"} => /\ request # <<>> /\ request[2] \in Vals
                                          /\ name_id \in Ids
  /\ pc = "value" /\ ~write_name => Holds(name_id, request[1])
  /\ pc = "value" /\ write_name => Nowhere(request[1]) /\ Free
  /\ pc = "name" => Nowhere(request[1]) /\ Free /\ value[name_id] = request[2]
  /\ pc = "count" => /\ Nowhere(request[1]) /\ name_id = namecnt + 1
                     /\ name[name_id] = request[1] /\ value[name_id] = request[2]

\* Where a deletion stands, and the deletion of what a save has left, in a load.
DeleteInv ==
  /\ pc \in {"uncount", "unname", "unvalue"} => name_id \in Ids
  /\ pc = "uncount" => name_id = namecnt
  /\ pc \in {"uncount", "unname", "unvalue"} /\ request = <<>> => name[name_id] = None
  /\ pc \in {"uncount", "unname", "unvalue"} /\ request # <<>> => request[2] = None
  /\ pc = "uncount" /\ request # <<>> => name[name_id] = request[1]
  /\ pc = "unname" /\ request # <<>> =>
       \/ Holds(name_id, request[1])
       \/ name_id = namecnt + 1 /\ Nowhere(request[1])
  /\ pc = "unvalue" => name[name_id] = None
  /\ pc = "unvalue" /\ request # <<>> => Nowhere(request[1])
  /\ pc = "load" => name_id \in 1..(MaxId + 1)

\* What a call is going to return is true.
ReturnInv ==
  /\ request # <<>> => rc = "ok" \/ (rc = "failed" /\ pc = "return")
  /\ pc = "return" => request # <<>>
  /\ pc = "return" /\ rc = "ok" =>
       \/ request[2] = None /\ Nowhere(request[1])
       \/ request[2] \in Vals /\ \E i \in Ids : Holds(i, request[1]) /\ value[i] = request[2]
  /\ pc = "return" /\ rc = "failed" => namecnt = MaxId /\ \A i \in Ids : name[i] # None

SettingsInv == SettingsTypes /\ EntriesInv /\ SaveInv /\ DeleteInv /\ ReturnInv

-----------------------------------------------------------------------------
(* Operators *)

LEMMA NotNothing == ASSUME NEW n, NEW v PROVE <<n, v>> # <<>> /\ <<n, v>>[1] = n /\ <<n, v>>[2] = v
OBVIOUS

Less == {ss \in Nat \X Nat : ss[1] < ss[2]}

\* A nonempty set of ids has a least one.
LEMMA LeastOf ==
  ASSUME NEW S \in SUBSET Nat, S # {}
  PROVE  Min(S) \in S /\ \A x \in S : Min(S) <= x
<1>1. IsWellFoundedOn(Less, Nat)
  BY NatLessThanWellFounded DEF OpToRel, Less
<1>2. PICK x \in S : \A y \in S : ~(<<y, x>> \in Less)
  BY <1>1, WFMin, Zenon
<1>3. ASSUME NEW y \in S PROVE x =< y
  <2>1. x \in Nat /\ y \in Nat /\ ~(<<y, x>> \in Less)
    BY <1>2
  <2>2. QED
    BY <2>1 DEF Less
<1>4. \E z \in S : \A y \in S : z =< y
  BY <1>3
<1>5. QED
  BY <1>4 DEF Min

\* The largest and the least of the only id there is.
LEMMA OnlyOne ==
  ASSUME NEW S \in SUBSET Nat, NEW i \in S, \A j \in S : j = i
  PROVE  Max(S) = i /\ Min(S) = i
<1>1. i >= i /\ \A y \in S : i >= y /\ i <= y
  OBVIOUS
<1>2. (\E x \in S : \A y \in S : x >= y) /\ (\E x \in S : \A y \in S : x <= y)
  BY <1>1
<1>3. Max(S) \in S /\ Min(S) \in S
  BY <1>2 DEF Max, Min
<1>4. QED
  BY <1>3

-----------------------------------------------------------------------------
(* The loop of settings_nvs_save *)

LEMMA IdsFound ==
  ASSUME SettingsTypes, EntriesInv, NEW n \in Names, IdsOf(n) # {}
  PROVE  Max(IdsOf(n)) \in Ids /\ Holds(Max(IdsOf(n)), n)
<1>1. PICK i : i \in IdsOf(n)
  OBVIOUS
<1>2. IdsOf(n) \in SUBSET Nat /\ n # None
  BY DEF IdsOf, IdsUpTo, SettingsTypes
<1>3. \A j \in IdsOf(n) : j = i
  BY <1>1, <1>2 DEF IdsOf, IdsUpTo, SettingsTypes, EntriesInv
<1>4. Max(IdsOf(n)) = i
  BY <1>1, <1>2, <1>3, OnlyOne
<1>5. QED
  BY <1>1, <1>4 DEF IdsOf, IdsUpTo, SettingsTypes, Ids, Holds

LEMMA IdsNotFound ==
  ASSUME SettingsTypes, NEW n \in Names
  PROVE  IdsOf(n) = {} <=> Nowhere(n)
BY DEF IdsOf, IdsUpTo, SettingsTypes, Nowhere, Holds, Ids

LEMMA FreeFound ==
  ASSUME SettingsTypes
  PROVE  /\ FreeId \in 1..(namecnt + 1)
         /\ FreeId = namecnt + 1 \/ Holds(FreeId, None)
         /\ \A i \in IdsUpTo(namecnt) : name[i] = None => FreeId <= i
<1> DEFINE S == {id \in IdsUpTo(last_name_id) : name[id] = None} \cup {last_name_id + 1}
<1>1. S \in SUBSET Nat /\ S # {} /\ FreeId = Min(S)
  BY DEF IdsUpTo, SettingsTypes, FreeId
<1>2. FreeId \in S /\ \A x \in S : FreeId <= x
  <2> HIDE DEF S
  <2> QED
    BY <1>1, LeastOf
<1>3. QED
  BY <1>2 DEF IdsUpTo, SettingsTypes, Holds

-----------------------------------------------------------------------------
(* The inductive invariant *)

LEMMA SettingsInitInv == SettingsInit => SettingsInv
BY DEF SettingsInit, SettingsInv, SettingsTypes, EntriesInv, SaveInv, DeleteInv, ReturnInv, Labels,
       IdsUpTo, Ids

LEMMA DeleteKeeps ==
  ASSUME SettingsInv, NEW n \in Names, Delete(n)
  PROVE  SettingsInv'
<1>1. /\ pc = "idle" /\ request' = <<n, None>> /\ rc' = "ok"
      /\ UNCHANGED <<namecnt, name, value, last_name_id>>
  BY DEF Delete, Begin
<1>2. request' # <<>> /\ request'[1] = n /\ request'[2] = None
  BY <1>1, NotNothing
<1>3. CASE IdsOf(n) = {} /\ pc' = "return" /\ UNCHANGED name_id
  <2>1. Nowhere(n)'
    BY <1>1, <1>3, IdsNotFound DEF SettingsInv, Nowhere, Holds
  <2>2. QED
    BY <1>1, <1>2, <1>3, <2>1
       DEF SettingsInv, SettingsTypes, EntriesInv, SaveInv, DeleteInv, ReturnInv, Labels
<1>4. CASE IdsOf(n) # {} /\ name_id' = Max(IdsOf(n)) /\ pc' = DeleteFrom(name_id')
  <2>1. name_id' \in Ids /\ Holds(name_id', n)
    BY <1>4, IdsFound DEF SettingsInv
  <2>2. Holds(name_id, n)'
    BY <1>1, <2>1 DEF Holds
  <2>3. \/ pc' = "uncount" /\ name_id' = namecnt
        \/ pc' = "unname"
    BY <1>4 DEF DeleteFrom, SettingsInv, SettingsTypes
  <2>4. SettingsTypes'
    BY <1>1, <2>1, <2>3 DEF SettingsInv, SettingsTypes, Labels, Ids, IdsUpTo
  <2>5. QED
    BY <1>1, <1>2, <2>1, <2>2, <2>3, <2>4
       DEF SettingsInv, EntriesInv, SaveInv, DeleteInv, ReturnInv, Holds
<1>5. QED
  BY <1>3, <1>4 DEF Delete

LEMMA SaveKeeps ==
  ASSUME SettingsInv, NEW n \in Names, NEW v \in Vals, settings_nvs_save(n, v)
  PROVE  SettingsInv'
<1>1. /\ pc = "idle" /\ request' = <<n, v>>
      /\ UNCHANGED <<namecnt, name, value, last_name_id>>
  BY DEF settings_nvs_save, Begin
<1>2. request' # <<>> /\ request'[1] = n /\ request'[2] = v
  BY <1>1, NotNothing
<1>3. CASE IdsOf(n) = {}
  <2>1. name_id' = FreeId /\ write_name' /\ Nowhere(n)'
    <3>1. name_id' = FreeId /\ write_name'
      BY <1>3, Zenon DEF settings_nvs_save
    <3>2. QED
      BY <1>1, <1>3, <3>1, IdsNotFound DEF SettingsInv, Nowhere, Holds
  <2>2. Free' /\ name_id' \in 1..(namecnt + 1)
    BY <1>1, <2>1, FreeFound DEF SettingsInv, Free, Holds
  <2>3. CASE name_id' <= MaxId /\ pc' = "value" /\ rc' = "ok"
    <3>1. name_id' \in Ids
      BY <2>2, <2>3 DEF Ids, IdsUpTo, SettingsInv, SettingsTypes
    <3>2. SettingsTypes'
      BY <1>1, <2>3, <3>1 DEF SettingsInv, SettingsTypes, Labels, Ids, IdsUpTo
    <3>3. QED
      BY <1>1, <1>2, <2>1, <2>2, <2>3, <3>1, <3>2
         DEF SettingsInv, EntriesInv, SaveInv, DeleteInv, ReturnInv
  <2>4. CASE name_id' > MaxId /\ pc' = "return" /\ rc' = "failed"
    <3>1. namecnt = MaxId /\ name_id' = MaxId + 1
      BY <2>2, <2>4 DEF SettingsInv, SettingsTypes
    <3>2. \A i \in Ids : name[i] # None
      BY <2>1, <3>1, FreeFound DEF Ids, IdsUpTo, SettingsInv
    <3>3. QED
      BY <1>1, <1>2, <2>4, <3>1, <3>2
         DEF SettingsInv, SettingsTypes, EntriesInv, SaveInv, DeleteInv, ReturnInv, Labels
  <2>5. QED
    BY <2>3, <2>4 DEF settings_nvs_save
<1>4. CASE IdsOf(n) # {}
  <2>1. name_id' = Max(IdsOf(n)) /\ ~write_name'
    BY <1>4, Zenon DEF settings_nvs_save
  <2>2. name_id' \in Ids /\ Holds(name_id', n)
    BY <1>4, <2>1, IdsFound DEF SettingsInv
  <2>3. pc' = "value" /\ rc' = "ok"
    BY <2>2 DEF settings_nvs_save, Ids, IdsUpTo
  <2>4. SettingsTypes'
    BY <1>1, <2>2, <2>3 DEF SettingsInv, SettingsTypes, Labels, Ids, IdsUpTo
  <2>5. QED
    BY <1>1, <1>2, <2>1, <2>2, <2>3, <2>4
       DEF SettingsInv, EntriesInv, SaveInv, DeleteInv, ReturnInv, Holds
<1>5. QED
  BY <1>3, <1>4

LEMMA WriteValueKeeps ==
  ASSUME SettingsInv, WriteValue
  PROVE  SettingsInv'
<1>1. /\ pc = "value" /\ value' = [value EXCEPT ![name_id] = request[2]]
      /\ UNCHANGED <<namecnt, name, last_name_id, name_id, write_name, rc, request>>
  BY DEF WriteValue
<1>2. request # <<>> /\ request[2] \in Vals /\ name_id \in Ids /\ rc = "ok"
  BY <1>1 DEF SettingsInv, SaveInv, ReturnInv
<1>3. value'[name_id] = request[2] /\ value' \in [Ids -> Vals \cup {None}]
  BY <1>1, <1>2 DEF SettingsInv, SettingsTypes
<1>4. \A i \in Ids : name[i] # None => value'[i] # None
  BY <1>1, <1>2, <1>3 DEF SettingsInv, SettingsTypes, EntriesInv
<1>5. CASE write_name
  <2>1. pc' = "name" /\ Nowhere(request[1]) /\ Free
    BY <1>1, <1>5 DEF WriteValue, SettingsInv, SaveInv
  <2>2. Nowhere(request[1])' /\ Free'
    BY <1>1, <2>1 DEF Nowhere, Free, Holds
  <2>3. QED
    BY <1>1, <1>2, <1>3, <1>4, <2>1, <2>2
       DEF SettingsInv, SettingsTypes, EntriesInv, SaveInv, DeleteInv, ReturnInv, Labels
<1>6. CASE ~write_name
  <2>1. Holds(name_id, request[1])
    BY <1>1, <1>6 DEF SettingsInv, SaveInv
  <2>2. pc' = "return"
    BY <1>6, <2>1 DEF WriteValue, Counting, SettingsInv, SettingsTypes, Holds, IdsUpTo
  <2>3. Holds(name_id, request[1])'
    BY <1>1, <2>1 DEF Holds
  <2>4. \E i \in Ids : Holds(i, request[1])' /\ value'[i] = request'[2]
    BY <1>1, <1>2, <1>3, <2>3
  <2>5. QED
    BY <1>1, <1>2, <1>3, <1>4, <2>2, <2>4
       DEF SettingsInv, SettingsTypes, EntriesInv, SaveInv, DeleteInv, ReturnInv, Labels
<1>7. QED
  BY <1>5, <1>6

LEMMA WriteNameKeeps ==
  ASSUME SettingsInv, WriteName
  PROVE  SettingsInv'
<1>1. /\ pc = "name" /\ name' = [name EXCEPT ![name_id] = request[1]] /\ pc' = Counting
      /\ UNCHANGED <<namecnt, value, last_name_id, name_id, write_name, rc, request>>
  BY DEF WriteName
<1>2. /\ request # <<>> /\ request[2] \in Vals /\ name_id \in Ids /\ rc = "ok"
      /\ Nowhere(request[1]) /\ Free /\ value[name_id] = request[2]
  BY <1>1 DEF SettingsInv, SaveInv, ReturnInv
<1>3. request[1] \in Names /\ request[1] # None
  BY <1>2 DEF SettingsInv, SettingsTypes
<1>4. /\ name'[name_id] = request[1] /\ name' \in [Ids -> Names \cup {None}]
      /\ \A i \in Ids : i # name_id => name'[i] = name[i]
  BY <1>1, <1>2, <1>3 DEF SettingsInv, SettingsTypes
<1>5. \A i \in Ids : name'[i] # None => value'[i] # None
  BY <1>1, <1>2, <1>4 DEF SettingsInv, EntriesInv
<1>6. \A i, j \in IdsUpTo(namecnt) : name'[i] = name'[j] /\ name'[i] # None => i = j
  BY <1>2, <1>3, <1>4
     DEF SettingsInv, SettingsTypes, EntriesInv, Nowhere, Holds, IdsUpTo, Ids
<1>7. SettingsTypes'
  BY <1>1, <1>2, <1>4 DEF SettingsInv, SettingsTypes, Counting, Labels
<1>8. EntriesInv'
  BY <1>1, <1>5, <1>6 DEF EntriesInv
<1>9. CASE name_id = namecnt + 1
  <2>1. pc' = "count"
    BY <1>1, <1>9 DEF Counting, SettingsInv, SettingsTypes
  <2>2. Nowhere(request[1])'
    BY <1>1, <1>2, <1>4, <1>9 DEF Nowhere, Holds, SettingsInv, SettingsTypes, IdsUpTo
  <2>3. QED
    BY <1>1, <1>2, <1>4, <1>7, <1>8, <1>9, <2>1, <2>2
       DEF SettingsInv, SaveInv, DeleteInv, ReturnInv
<1>10. CASE Holds(name_id, None)
  <2>1. pc' = "return"
    BY <1>1, <1>10 DEF Counting, SettingsInv, SettingsTypes, Holds, IdsUpTo
  <2>2. Holds(name_id, request[1])'
    BY <1>1, <1>4, <1>10 DEF Holds
  <2>3. \E i \in Ids : Holds(i, request[1])' /\ value'[i] = request'[2]
    BY <1>1, <1>2, <2>2
  <2>4. QED
    BY <1>1, <1>2, <1>7, <1>8, <2>1, <2>3
       DEF SettingsInv, SaveInv, DeleteInv, ReturnInv
<1>11. QED
  BY <1>2, <1>9, <1>10 DEF Free

LEMMA WriteCountKeeps ==
  ASSUME SettingsInv, WriteCount
  PROVE  SettingsInv'
<1>1. UNCHANGED <<name, value, name_id, write_name, rc, request>>
  BY DEF WriteCount
<1>2. CASE pc = "count" /\ pc' = "return" /\ SetLast(name_id) /\ namecnt' = name_id
  <2>1. /\ request # <<>> /\ request[2] \in Vals /\ name_id \in Ids /\ rc = "ok"
        /\ Nowhere(request[1]) /\ name_id = namecnt + 1
        /\ name[name_id] = request[1] /\ value[name_id] = request[2]
    BY <1>2 DEF SettingsInv, SaveInv, ReturnInv
  <2>2. SettingsTypes'
    BY <1>1, <1>2, <2>1 DEF SetLast, SettingsInv, SettingsTypes, Labels, Ids, IdsUpTo
  <2>3. EntriesInv'
    BY <1>1, <1>2, <2>1
       DEF SettingsInv, SettingsTypes, EntriesInv, Nowhere, Holds, IdsUpTo, Ids
  <2>4. Holds(name_id, request[1])'
    BY <1>1, <1>2, <2>1 DEF Holds, IdsUpTo, Ids
  <2>5. \E i \in Ids : Holds(i, request[1])' /\ value'[i] = request'[2]
    BY <1>1, <2>1, <2>4
  <2>6. QED
    BY <1>1, <1>2, <2>1, <2>2, <2>3, <2>5 DEF SettingsInv, SaveInv, DeleteInv, ReturnInv
<1>3. CASE /\ pc = "uncount" /\ pc' = "unname" /\ SetLast(last_name_id - 1)
           /\ namecnt' = last_name_id - 1
  <2>1. /\ name_id \in Ids /\ name_id = namecnt
        /\ request = <<>> => name[name_id] = None
        /\ request # <<>> => name[name_id] = request[1] /\ request[2] = None /\ rc = "ok"
    BY <1>3 DEF SettingsInv, DeleteInv, ReturnInv
  <2>2. SettingsTypes'
    BY <1>1, <1>3, <2>1 DEF SetLast, SettingsInv, SettingsTypes, Labels, Ids, IdsUpTo
  <2>3. EntriesInv'
    BY <1>1, <1>3, <2>1 DEF SettingsInv, SettingsTypes, EntriesInv, IdsUpTo, Ids
  <2>4. name_id' = namecnt' + 1
    BY <1>1, <1>3, <2>1 DEF SettingsInv, SettingsTypes
  <2>5. ASSUME request # <<>> PROVE Nowhere(request[1])'
    <3>1. request[1] # None
      BY <2>5 DEF SettingsInv, SettingsTypes
    <3>2. QED
      BY <1>1, <1>3, <2>1, <2>5, <3>1
         DEF SettingsInv, SettingsTypes, EntriesInv, Nowhere, Holds, IdsUpTo, Ids
  <2>6. QED
    BY <1>1, <1>3, <2>1, <2>2, <2>3, <2>4, <2>5 DEF SettingsInv, SaveInv, DeleteInv, ReturnInv
<1>4. QED
  BY <1>2, <1>3 DEF WriteCount

LEMMA DeleteNameKeeps ==
  ASSUME SettingsInv, DeleteName
  PROVE  SettingsInv'
<1>1. /\ pc = "unname" /\ pc' = "unvalue" /\ name' = [name EXCEPT ![name_id] = None]
      /\ UNCHANGED <<namecnt, value, last_name_id, name_id, write_name, rc, request>>
  BY DEF DeleteName
<1>2. /\ name_id \in Ids
      /\ request = <<>> => name[name_id] = None
      /\ request # <<>> => /\ request[2] = None /\ rc = "ok"
                           /\ Holds(name_id, request[1]) \/ Nowhere(request[1])
  BY <1>1 DEF SettingsInv, DeleteInv, ReturnInv
<1>3. /\ name'[name_id] = None /\ name' \in [Ids -> Names \cup {None}]
      /\ \A i \in Ids : i # name_id => name'[i] = name[i]
  BY <1>1, <1>2 DEF SettingsInv, SettingsTypes
<1>4. SettingsTypes'
  BY <1>1, <1>3 DEF SettingsInv, SettingsTypes, Labels
<1>5. EntriesInv'
  BY <1>1, <1>2, <1>3 DEF SettingsInv, SettingsTypes, EntriesInv, IdsUpTo, Ids
<1>6. ASSUME request # <<>> PROVE Nowhere(request[1])'
  <2>1. request[1] # None
    BY <1>6 DEF SettingsInv, SettingsTypes
  <2>2. QED
    BY <1>1, <1>2, <1>3, <1>6, <2>1
       DEF SettingsInv, SettingsTypes, EntriesInv, Nowhere, Holds, IdsUpTo, Ids
<1>7. QED
  BY <1>1, <1>2, <1>3, <1>4, <1>5, <1>6 DEF SettingsInv, SaveInv, DeleteInv, ReturnInv

LEMMA DeleteValueKeeps ==
  ASSUME SettingsInv, DeleteValue
  PROVE  SettingsInv'
<1>1. /\ pc = "unvalue" /\ pc' = (IF request = <<>> THEN "load" ELSE "return")
      /\ value' = [value EXCEPT ![name_id] = None]
      /\ UNCHANGED <<namecnt, name, last_name_id, name_id, write_name, rc, request>>
  BY DEF DeleteValue
<1>2. /\ name_id \in Ids /\ name[name_id] = None
      /\ request # <<>> => request[2] = None /\ rc = "ok" /\ Nowhere(request[1])
  BY <1>1 DEF SettingsInv, DeleteInv, ReturnInv
<1>3. /\ value' \in [Ids -> Vals \cup {None}]
      /\ \A i \in Ids : i # name_id => value'[i] = value[i]
  BY <1>1, <1>2 DEF SettingsInv, SettingsTypes
<1>4. SettingsTypes'
  BY <1>1, <1>3 DEF SettingsInv, SettingsTypes, Labels
<1>5. EntriesInv'
  BY <1>1, <1>2, <1>3 DEF SettingsInv, EntriesInv
<1>6. name_id \in 1..(MaxId + 1)
  BY <1>2 DEF Ids, IdsUpTo
<1>7. request # <<>> => Nowhere(request[1])'
  BY <1>1, <1>2 DEF Nowhere, Holds
<1>8. QED
  BY <1>1, <1>2, <1>4, <1>5, <1>6, <1>7 DEF SettingsInv, SaveInv, DeleteInv, ReturnInv

LEMMA ReturnKeeps ==
  ASSUME SettingsInv, Return
  PROVE  SettingsInv'
BY DEF Return, SettingsInv, SettingsTypes, EntriesInv, SaveInv, DeleteInv, ReturnInv, Labels

LEMMA LoadKeeps ==
  ASSUME SettingsInv, Load \/ Reset
  PROVE  SettingsInv'
<1>1. /\ pc' = "load" /\ name_id' = namecnt + 1 /\ request' = <<>> /\ last_name_id' = namecnt
      /\ UNCHANGED <<namecnt, name, value>>
  BY DEF Load, Reset, SettingsInv, SettingsTypes
<1>2. name_id' \in 1..(MaxId + 1)
  BY <1>1 DEF SettingsInv, SettingsTypes
<1>3. QED
  BY <1>1, <1>2 DEF SettingsInv, SettingsTypes, EntriesInv, SaveInv, DeleteInv, ReturnInv, Labels

LEMMA LoadNextKeeps ==
  ASSUME SettingsInv, LoadNext
  PROVE  SettingsInv'
<1>1. /\ pc = "load" /\ name_id' = name_id - 1
      /\ UNCHANGED <<namecnt, name, value, last_name_id, write_name, rc, request>>
  BY DEF LoadNext
<1>2. request = <<>> /\ name_id' \in 0..MaxId
  BY <1>1 DEF SettingsInv, SettingsTypes, DeleteInv
<1>3. EntriesInv'
  BY <1>1 DEF SettingsInv, EntriesInv
<1>4. CASE pc' = "idle"
  BY <1>1, <1>2, <1>3, <1>4
     DEF SettingsInv, SettingsTypes, SaveInv, DeleteInv, ReturnInv, Labels
<1>5. CASE name_id' # 0 /\ Visit(name_id') /\ pc' # "idle"
  <2>1. name_id' \in Ids
    BY <1>2, <1>5 DEF Ids, IdsUpTo
  <2>2. CASE pc' = "load"
    BY <1>1, <1>2, <1>3, <2>1, <2>2
       DEF SettingsInv, SettingsTypes, SaveInv, DeleteInv, ReturnInv, Labels, Ids, IdsUpTo
  <2>3. CASE (name[name_id'] = None) # (value[name_id'] = None) /\ pc' = DeleteFrom(name_id')
    <3>1. ~(name[name_id'] = None /\ value[name_id'] = None)
      BY <2>3, Zenon
    <3>2. name[name_id'] = None \/ value[name_id'] = None
      BY <2>3, Zenon
    <3>3. name[name_id'] = None
      BY <2>1, <3>2 DEF SettingsInv, EntriesInv
    <3>4. \/ pc' = "uncount" /\ name_id' = namecnt
          \/ pc' = "unname"
      BY <2>3 DEF DeleteFrom, SettingsInv, SettingsTypes
    <3>5. QED
      BY <1>1, <1>2, <1>3, <2>1, <3>3, <3>4
         DEF SettingsInv, SettingsTypes, SaveInv, DeleteInv, ReturnInv, Labels
  <2>4. QED
    BY <1>5, <2>2, <2>3 DEF Visit
<1>6. QED
  BY <1>4, <1>5 DEF LoadNext

LEMMA SettingsStepInv == SettingsInv /\ [SettingsNext]_settingsVars => SettingsInv'
<1> SUFFICES ASSUME SettingsInv, [SettingsNext]_settingsVars PROVE SettingsInv'
  OBVIOUS
<1>1. CASE UNCHANGED settingsVars
  BY <1>1 DEF settingsVars, SettingsInv, SettingsTypes, EntriesInv, SaveInv, DeleteInv, ReturnInv,
              Nowhere, Free, Holds
<1>2. CASE SettingsNext
  BY <1>2, DeleteKeeps, SaveKeeps, WriteValueKeeps, WriteNameKeeps, WriteCountKeeps,
     DeleteNameKeeps, DeleteValueKeeps, ReturnKeeps, LoadKeeps, LoadNextKeeps, Zenon
     DEF SettingsNext
<1>3. QED
  BY <1>1, <1>2

LEMMA SettingsInvariant == SettingsSpec => []SettingsInv
BY SettingsInitInv, SettingsStepInv, PTL DEF SettingsSpec

\* Whatever is saved, deleted and interrupted, a name is found at one id only,
\* names and values keep to their own ids, and the largest id in RAM is the
\* one in flash between calls: the loops of settings_nvs_save and
\* settings_nvs_load see each setting once.
THEOREM SettingsOnePlace == SettingsSpec => []OnePlace
<1>1. SettingsInv => OnePlace
  BY DEF SettingsInv, SettingsTypes, EntriesInv, SaveInv, OnePlace, Ids, IdsUpTo
<1>2. QED
  BY <1>1, SettingsInvariant, PTL

-----------------------------------------------------------------------------
(* What a load finds *)

\* Loaded, as a function of the entries.
Found(cnt, nm, val, n) ==
  LET ids == {id \in IdsUpTo(cnt) : nm[id] = n /\ val[id] # None}
  IN  IF ids = {} THEN None ELSE val[Min(ids)]

OnceEach(cnt, nm, val) ==
  /\ cnt \in 0..MaxId
  /\ \A i \in Ids : nm[i] # None => val[i] # None
  /\ \A i, j \in IdsUpTo(cnt) : nm[i] = nm[j] /\ nm[i] # None => i = j

LEMMA FoundIs ==
  ASSUME NEW cnt, NEW nm, NEW val, OnceEach(cnt, nm, val), NEW n, n # None
  PROVE  /\ \A i \in IdsUpTo(cnt) : nm[i] = n => Found(cnt, nm, val, n) = val[i]
         /\ (\A i \in IdsUpTo(cnt) : nm[i] # n) => Found(cnt, nm, val, n) = None
<1> DEFINE ids == {id \in IdsUpTo(cnt) : nm[id] = n /\ val[id] # None}
<1>1. ASSUME NEW i \in IdsUpTo(cnt), nm[i] = n PROVE Found(cnt, nm, val, n) = val[i]
  <2>1. ids \in SUBSET Nat /\ i \in ids /\ \A j \in ids : j = i
    BY <1>1 DEF OnceEach, IdsUpTo, Ids
  <2>2. Min(ids) = i /\ ids # {}
    <3> HIDE DEF ids
    <3> QED
      BY <2>1, OnlyOne
  <2>3. QED
    BY <2>2 DEF Found
<1>2. ASSUME \A i \in IdsUpTo(cnt) : nm[i] # n PROVE Found(cnt, nm, val, n) = None
  <2>1. ids = {}
    BY <1>2
  <2>2. QED
    BY <2>1 DEF Found
<1>3. QED
  BY <1>1, <1>2

\* A name that is at the same ids with the same value is loaded as before.
LEMMA FoundSame ==
  ASSUME NEW cnt, NEW nm, NEW val, OnceEach(cnt, nm, val),
         NEW cnt2, NEW nm2, NEW val2, OnceEach(cnt2, nm2, val2),
         NEW n, n # None,
         \A i \in Ids : (i \in IdsUpTo(cnt) /\ nm[i] = n) <=> (i \in IdsUpTo(cnt2) /\ nm2[i] = n),
         \A i \in IdsUpTo(cnt) : nm[i] = n => val2[i] = val[i]
  PROVE  Found(cnt2, nm2, val2, n) = Found(cnt, nm, val, n)
<1>1. IdsUpTo(cnt) \subseteq Ids /\ IdsUpTo(cnt2) \subseteq Ids
  BY DEF OnceEach, IdsUpTo, Ids
<1>2. CASE \E i \in IdsUpTo(cnt) : nm[i] = n
  <2>1. PICK i \in IdsUpTo(cnt) : nm[i] = n
    BY <1>2
  <2>2. i \in IdsUpTo(cnt2) /\ nm2[i] = n /\ val2[i] = val[i]
    BY <1>1, <2>1
  <2>3. QED
    BY <2>1, <2>2, FoundIs
<1>3. CASE \A i \in IdsUpTo(cnt) : nm[i] # n
  <2>1. \A i \in IdsUpTo(cnt2) : nm2[i] # n
    BY <1>1, <1>3
  <2>2. QED
    BY <1>3, <2>1, FoundIs
<1>4. QED
  BY <1>2, <1>3

LEMMA LoadedFound ==
  /\ \A n : Loaded(n) = Found(namecnt, name, value, n)
  /\ \A n : Loaded(n)' = Found(namecnt', name', value', n)
  /\ SettingsInv => OnceEach(namecnt, name, value)
  /\ SettingsInv' => OnceEach(namecnt', name', value')
<1>1. \A n : Loaded(n) = Found(namecnt, name, value, n)
  BY DEF Loaded, Found
<1>2. \A n : Loaded(n)' = Found(namecnt', name', value', n)
  BY DEF Loaded, Found
<1>3. SettingsInv => OnceEach(namecnt, name, value)
  BY DEF SettingsInv, SettingsTypes, EntriesInv, OnceEach
<1>4. SettingsInv' => OnceEach(namecnt', name', value')
  BY DEF SettingsInv, SettingsTypes, EntriesInv, OnceEach
<1>5. QED
  BY <1>1, <1>2, <1>3, <1>4

\* No id is lost, whatever was deleted or interrupted before: settings_nvs_save
\* returns -ENOMEM only when there are as many settings as ids.
THEOREM SettingsRefusedMeansFull == SettingsSpec => []RefusedMeansFull
<1>1. SettingsInv => RefusedMeansFull
  <2> SUFFICES ASSUME SettingsInv, request # <<>>, rc = "failed"
               PROVE  Cardinality({n \in Names : Loaded(n) # None}) = MaxId
    BY DEF RefusedMeansFull
  <2> DEFINE Kept == {n \in Names : Loaded(n) # None}
             At == [i \in 1..MaxId |-> name[i]]
  <2>1. namecnt = MaxId /\ \A i \in Ids : name[i] # None
    BY DEF SettingsInv, ReturnInv
  <2>2. OnceEach(namecnt, name, value)
    BY LoadedFound
  <2>3. ASSUME NEW i \in 1..MaxId PROVE At[i] \in Kept
    <3>1. name[i] \in Names /\ name[i] # None /\ i \in IdsUpTo(namecnt) /\ value[i] # None
      BY <2>1 DEF SettingsInv, SettingsTypes, EntriesInv, Ids, IdsUpTo
    <3>2. Loaded(name[i]) = value[i]
      BY <2>2, <3>1, FoundIs, LoadedFound
    <3>3. QED
      BY <3>1, <3>2
  <2>4. \A i, j \in 1..MaxId : At[i] = At[j] => i = j
    BY <2>1 DEF SettingsInv, EntriesInv, Ids, IdsUpTo
  <2>5. ASSUME NEW n \in Kept PROVE \E i \in 1..MaxId : At[i] = n
    <3>1. n # None /\ Found(namecnt, name, value, n) # None
      BY LoadedFound
    <3>2. ~ \A i \in IdsUpTo(namecnt) : name[i] # n
      BY <2>2, <3>1, FoundIs
    <3>3. QED
      BY <2>1, <3>2 DEF IdsUpTo
  <2>6. At \in Bijection(1..MaxId, Kept)
    <3> HIDE DEF Kept
    <3>1. At \in [1..MaxId -> Kept]
      BY <2>3
    <3> HIDE DEF At
    <3>2. At \in Injection(1..MaxId, Kept)
      BY <2>4, <3>1 DEF Injection, IsInjective
    <3>3. At \in Surjection(1..MaxId, Kept)
      BY <2>5, <3>1 DEF Surjection
    <3>4. QED
      BY <3>2, <3>3 DEF Bijection
  <2>7. IsFiniteSet(1..MaxId) /\ Cardinality(1..MaxId) = MaxId
    BY FS_Interval
  <2>8. Cardinality(1..MaxId) = Cardinality(Kept)
    <3> HIDE DEF At, Kept
    <3> QED
      BY <2>6, <2>7, FS_Bijection, Zenon DEF ExistsBijection
  <2>9. QED
    BY <2>7, <2>8
<1>2. QED
  BY <1>1, SettingsInvariant, PTL

-----------------------------------------------------------------------------
(* The steps of the refinement *)

Store == [n \in Names |-> Loaded(n)]

\* A step that leaves each name at its ids with its value changes nothing that
\* a load would find.
LEMMA StoreStays ==
  ASSUME SettingsInv, SettingsInv',
         \A n \in Names, i \in Ids :
           /\ Holds(i, n)' <=> Holds(i, n)
           /\ Holds(i, n) => value'[i] = value[i]
  PROVE  Store' = Store
<1>1. ASSUME NEW n \in Names PROVE Loaded(n)' = Loaded(n)
  <2>1. n # None /\ OnceEach(namecnt, name, value) /\ OnceEach(namecnt', name', value')
    BY LoadedFound
  <2>2. IdsUpTo(namecnt) \subseteq Ids
    BY <2>1 DEF OnceEach, IdsUpTo, Ids
  <2>3. /\ \A i \in Ids : (i \in IdsUpTo(namecnt) /\ name[i] = n)
                            <=> (i \in IdsUpTo(namecnt') /\ name'[i] = n)
        /\ \A i \in IdsUpTo(namecnt) : name[i] = n => value'[i] = value[i]
    BY <2>2 DEF Holds
  <2>4. Found(namecnt', name', value', n) = Found(namecnt, name, value, n)
    BY <2>1, <2>3, FoundSame, SMT
  <2>5. QED
    BY <2>4, LoadedFound
<1>2. QED
  BY <1>1 DEF Store

\* A step that gives the name k the value w, and leaves each other name alone.
LEMMA StoreTakes ==
  ASSUME SettingsInv, SettingsInv', NEW k \in Names, NEW w,
         \A n \in Names \ {k}, i \in Ids :
           /\ Holds(i, n)' <=> Holds(i, n)
           /\ Holds(i, n) => value'[i] = value[i],
         \/ w = None /\ \A i \in Ids : ~Holds(i, k)'
         \/ \E i \in Ids : Holds(i, k)' /\ value'[i] = w
  PROVE  Store' = [Store EXCEPT ![k] = w]
<1>0. OnceEach(namecnt, name, value) /\ OnceEach(namecnt', name', value')
  BY LoadedFound
<1>1. ASSUME NEW n \in Names, n # k PROVE Loaded(n)' = Loaded(n)
  <2>2. n # None /\ IdsUpTo(namecnt) \subseteq Ids
    BY <1>0 DEF OnceEach, IdsUpTo, Ids
  <2>3. /\ \A i \in Ids : (i \in IdsUpTo(namecnt) /\ name[i] = n)
                            <=> (i \in IdsUpTo(namecnt') /\ name'[i] = n)
        /\ \A i \in IdsUpTo(namecnt) : name[i] = n => value'[i] = value[i]
    BY <1>1, <2>2 DEF Holds
  <2>4. Found(namecnt', name', value', n) = Found(namecnt, name, value, n)
    BY <1>0, <2>2, <2>3, FoundSame, SMT
  <2>5. QED
    BY <2>4, LoadedFound
<1>2. Loaded(k)' = w
  <2>1. k # None /\ IdsUpTo(namecnt') \subseteq Ids
    BY <1>0 DEF OnceEach, IdsUpTo, Ids
  <2>2. CASE w = None /\ \A i \in Ids : ~Holds(i, k)'
    <3>1. \A i \in IdsUpTo(namecnt') : name'[i] # k
      BY <2>1, <2>2 DEF Holds
    <3>2. QED
      BY <1>0, <2>1, <2>2, <3>1, FoundIs, LoadedFound
  <2>3. CASE \E i \in Ids : Holds(i, k)' /\ value'[i] = w
    <3>1. PICK i \in Ids : Holds(i, k)' /\ value'[i] = w
      BY <2>3
    <3>2. i \in IdsUpTo(namecnt') /\ name'[i] = k
      BY <3>1 DEF Holds
    <3>3. QED
      BY <1>0, <2>1, <3>1, <3>2, FoundIs, LoadedFound
  <2>4. QED
    BY <2>2, <2>3
<1>3. QED
  BY <1>1, <1>2 DEF Store

\* The steps that write an entry: one of them gives the call its effect, the
\* others change nothing.
LEMMA WriteEffect ==
  ASSUME SettingsInv, SettingsInv', NEW n, NEW v, request = <<n, v>>,
         WriteValue \/ WriteName \/ WriteCount \/ DeleteName \/ DeleteValue
  PROVE  Store' = Store \/ Store' = [Store EXCEPT ![n] = v]
<1>0. /\ request # <<>> /\ request[1] = n /\ request[2] = v
      /\ n \in Names /\ n # None /\ v \in Vals \cup {None}
  BY NotNothing DEF SettingsInv, SettingsTypes
<1>1. CASE WriteValue
  <2>1. /\ UNCHANGED <<namecnt, name>> /\ name_id \in Ids
        /\ value' = [value EXCEPT ![name_id] = v]
    BY <1>0, <1>1 DEF WriteValue, SettingsInv, SaveInv
  <2>2. \A i \in Ids : i # name_id => value'[i] = value[i]
    BY <2>1 DEF SettingsInv, SettingsTypes
  <2>3. CASE write_name
    <3>1. Free
      BY <1>1, <2>3 DEF WriteValue, SettingsInv, SaveInv
    <3>2. \A m \in Names : ~Holds(name_id, m)
      BY <3>1 DEF Free, Holds, IdsUpTo, SettingsInv, SettingsTypes
    <3>3. QED
      BY <2>1, <2>2, <3>2, StoreStays DEF Holds
  <2>4. CASE ~write_name
    <3>1. Holds(name_id, n)
      BY <1>0, <1>1, <2>4 DEF WriteValue, SettingsInv, SaveInv
    <3>2. value'[name_id] = v
      BY <2>1 DEF SettingsInv, SettingsTypes
    <3>3. \E i \in Ids : Holds(i, n)' /\ value'[i] = v
      BY <2>1, <3>1, <3>2 DEF Holds
    <3>4. \A m \in Names \ {n}, i \in Ids :
            (Holds(i, m)' <=> Holds(i, m)) /\ (Holds(i, m) => value'[i] = value[i])
      BY <2>1, <2>2, <3>1 DEF Holds
    <3>5. QED
      BY <1>0, <3>3, <3>4, StoreTakes
  <2>5. QED
    BY <2>3, <2>4
<1>2. CASE WriteName
  <2>1. /\ UNCHANGED <<namecnt, value, name_id>> /\ name_id \in Ids
        /\ name' = [name EXCEPT ![name_id] = n]
        /\ Free /\ value[name_id] = v
    BY <1>0, <1>2 DEF WriteName, SettingsInv, SaveInv
  <2>2. name'[name_id] = n /\ \A i \in Ids : i # name_id => name'[i] = name[i]
    BY <2>1 DEF SettingsInv, SettingsTypes
  <2>3. CASE name_id = namecnt + 1
    <3>1. \A m \in Names, i \in Ids : Holds(i, m)' <=> Holds(i, m)
      BY <2>1, <2>2, <2>3 DEF Holds, IdsUpTo, SettingsInv, SettingsTypes
    <3>2. QED
      BY <2>1, <3>1, StoreStays
  <2>4. CASE Holds(name_id, None)
    <3>1. \A m \in Names \ {n}, i \in Ids : Holds(i, m)' <=> Holds(i, m)
      BY <2>1, <2>2, <2>4 DEF Holds
    <3>2. Holds(name_id, n)' /\ value'[name_id] = v
      BY <2>1, <2>2, <2>4 DEF Holds
    <3>3. \E i \in Ids : Holds(i, n)' /\ value'[i] = v
      BY <2>1, <3>2
    <3>4. QED
      BY <1>0, <2>1, <3>1, <3>3, StoreTakes
  <2>5. QED
    BY <2>1, <2>3, <2>4 DEF Free
<1>3. CASE WriteCount
  <2>1. UNCHANGED <<name, value, name_id>>
    BY <1>3 DEF WriteCount
  <2>2. CASE pc = "count" /\ namecnt' = name_id
    <3>1. name_id \in Ids /\ name_id = namecnt + 1 /\ name[name_id] = n /\ value[name_id] = v
      BY <1>0, <2>2 DEF SettingsInv, SaveInv
    <3>2. \A m \in Names \ {n}, i \in Ids : Holds(i, m)' <=> Holds(i, m)
      BY <2>1, <2>2, <3>1 DEF Holds, IdsUpTo, Ids, SettingsInv, SettingsTypes
    <3>3. Holds(name_id, n)' /\ value'[name_id] = v
      BY <2>1, <2>2, <3>1 DEF Holds, IdsUpTo, Ids
    <3>4. \E i \in Ids : Holds(i, n)' /\ value'[i] = v
      BY <2>1, <3>1, <3>3
    <3>5. QED
      BY <1>0, <2>1, <3>2, <3>4, StoreTakes
  <2>3. CASE pc = "uncount" /\ namecnt' = last_name_id - 1 /\ pc' = "unname"
    <3>1. /\ name_id \in Ids /\ name_id = namecnt /\ name[name_id] = n /\ v = None
          /\ last_name_id = namecnt
      BY <1>0, <2>3 DEF SettingsInv, SettingsTypes, DeleteInv
    <3>2. \A m \in Names \ {n}, i \in Ids : Holds(i, m)' <=> Holds(i, m)
      BY <2>1, <2>3, <3>1 DEF Holds, IdsUpTo, Ids, SettingsInv, SettingsTypes
    <3>3. \A i \in Ids : ~Holds(i, n)'
      BY <1>0, <2>1, <2>3, <3>1 DEF Holds, IdsUpTo, Ids, SettingsInv, SettingsTypes, EntriesInv
    <3>4. QED
      BY <1>0, <2>1, <3>1, <3>2, <3>3, StoreTakes
  <2>4. QED
    BY <1>3, <2>2, <2>3 DEF WriteCount
<1>4. CASE DeleteName
  <2>1. /\ UNCHANGED <<namecnt, value, request>> /\ name_id \in Ids
        /\ name' = [name EXCEPT ![name_id] = None]
        /\ Holds(name_id, n) \/ name_id = namecnt + 1
    BY <1>0, <1>4 DEF DeleteName, SettingsInv, DeleteInv
  <2>2. name'[name_id] = None /\ \A i \in Ids : i # name_id => name'[i] = name[i]
    BY <2>1 DEF SettingsInv, SettingsTypes
  <2>3. CASE name_id = namecnt + 1
    <3>1. \A m \in Names, i \in Ids : Holds(i, m)' <=> Holds(i, m)
      BY <2>1, <2>2, <2>3 DEF Holds, IdsUpTo, SettingsInv, SettingsTypes
    <3>2. QED
      BY <2>1, <3>1, StoreStays
  <2>4. CASE Holds(name_id, n)
    <3>1. \A m \in Names \ {n}, i \in Ids : Holds(i, m)' <=> Holds(i, m)
      BY <2>1, <2>2, <2>4 DEF Holds
    <3>2. \A i \in Ids : ~Holds(i, n)'
      BY <1>0, <2>1, <2>2, <2>4
         DEF Holds, SettingsInv, EntriesInv
    <3>3. v = None
      BY <1>0, <1>4 DEF DeleteName, SettingsInv, DeleteInv
    <3>4. QED
      BY <1>0, <2>1, <3>1, <3>2, <3>3, StoreTakes
  <2>5. QED
    BY <2>1, <2>3, <2>4
<1>5. CASE DeleteValue
  <2>1. /\ UNCHANGED <<namecnt, name>> /\ name_id \in Ids /\ name[name_id] = None
        /\ value' = [value EXCEPT ![name_id] = None]
    BY <1>5 DEF DeleteValue, SettingsInv, DeleteInv
  <2>2. \A i \in Ids : i # name_id => value'[i] = value[i]
    BY <2>1 DEF SettingsInv, SettingsTypes
  <2>3. QED
    BY <2>1, <2>2, StoreStays DEF Holds
<1>6. QED
  BY <1>1, <1>2, <1>3, <1>4, <1>5

\* A load deletes only what has no name: it changes nothing.
LEMMA CleaningEffect ==
  ASSUME SettingsInv, SettingsInv', request = <<>>,
         WriteValue \/ WriteName \/ WriteCount \/ DeleteName \/ DeleteValue
  PROVE  Store' = Store /\ UNCHANGED <<request, answer>>
<1>1. UNCHANGED <<request, answer>>
  BY DEF WriteValue, WriteName, WriteCount, DeleteName, DeleteValue
<1>2. /\ pc \in {"uncount", "unname", "unvalue"}
      /\ ~WriteValue /\ ~WriteName
  BY DEF WriteValue, WriteName, WriteCount, DeleteName, DeleteValue, SettingsInv, SaveInv
<1>3. name_id \in Ids /\ name[name_id] = None /\ (pc = "uncount" => name_id = namecnt)
  BY <1>2 DEF SettingsInv, DeleteInv
<1>4. CASE WriteCount
  <2>1. UNCHANGED <<name, value>> /\ namecnt' = namecnt - 1 /\ name_id = namecnt
    BY <1>2, <1>3, <1>4 DEF WriteCount, SettingsInv, SettingsTypes
  <2>2. \A n \in Names, i \in Ids : Holds(i, n)' <=> Holds(i, n)
    BY <1>3, <2>1 DEF Holds, IdsUpTo, Ids, SettingsInv, SettingsTypes
  <2>3. QED
    BY <1>1, <2>1, <2>2, StoreStays
<1>5. CASE DeleteName
  <2>1. UNCHANGED <<namecnt, value>> /\ name' = [name EXCEPT ![name_id] = None]
    BY <1>5 DEF DeleteName
  <2>2. name' = name
    BY <1>3, <2>1 DEF SettingsInv, SettingsTypes
  <2>3. QED
    BY <1>1, <2>1, <2>2, StoreStays DEF Holds
<1>6. CASE DeleteValue
  <2>1. UNCHANGED <<namecnt, name>> /\ value' = [value EXCEPT ![name_id] = None]
    BY <1>6 DEF DeleteValue
  <2>2. \A i \in Ids : i # name_id => value'[i] = value[i]
    BY <1>3, <2>1 DEF SettingsInv, SettingsTypes
  <2>3. QED
    BY <1>1, <1>3, <2>1, <2>2, StoreStays DEF Holds
<1>7. QED
  BY <1>2, <1>4, <1>5, <1>6

\* A call that is about to return success has taken effect.
LEMMA EffectTaken ==
  ASSUME SettingsInv, NEW n, NEW v, request = <<n, v>>, pc = "return", rc = "ok"
  PROVE  Store[n] = v
<1>1. request # <<>> /\ request[1] = n /\ request[2] = v /\ n \in Names /\ n # None
  BY NotNothing DEF SettingsInv, SettingsTypes
<1>2. OnceEach(namecnt, name, value) /\ IdsUpTo(namecnt) \subseteq Ids
  BY LoadedFound DEF OnceEach, IdsUpTo, Ids
<1>3. Store[n] = Found(namecnt, name, value, n)
  <2>1. Store[n] = Loaded(n)
    BY <1>1 DEF Store
  <2>2. QED
    BY <2>1, LoadedFound, Zenon
<1>4. CASE v = None /\ Nowhere(n)
  <2>1. \A i \in IdsUpTo(namecnt) : name[i] # n
    BY <1>2, <1>4 DEF Nowhere, Holds
  <2>2. QED
    <3>1. Found(namecnt, name, value, n) = None
      BY <1>1, <1>2, <2>1, FoundIs, SMT
    <3>2. QED
      BY <1>4, <1>3, <3>1, Zenon
<1>5. CASE \E i \in Ids : Holds(i, n) /\ value[i] = v
  <2>1. PICK i \in Ids : Holds(i, n) /\ value[i] = v
    BY <1>5
  <2>2. i \in IdsUpTo(namecnt) /\ name[i] = n
    BY <2>1 DEF Holds
  <2>3. QED
    <3>1. Found(namecnt, name, value, n) = value[i]
      BY <1>1, <1>2, <2>2, FoundIs, SMT
    <3>2. QED
      BY <1>3, <2>1, <3>1, Zenon
<1>6. QED
  BY <1>1, <1>4, <1>5 DEF SettingsInv, ReturnInv

LEMMA KvInitially == SettingsInit => Kv!KvInit
<1> SUFFICES ASSUME SettingsInit PROVE Kv!KvInit
  OBVIOUS
<1>1. SettingsInv
  BY SettingsInitInv
<1>2. \A n \in Names : Loaded(n) = None
  BY DEF SettingsInit, Loaded, IdsUpTo
<1>3. QED
  BY <1>2 DEF SettingsInit, Kv!KvInit

LEMMA KvStep ==
  ASSUME SettingsInv, SettingsInv', [SettingsNext]_settingsVars
  PROVE  [Kv!KvNext]_(Kv!kvVars)
<1> USE DEF Store
<1>1. ASSUME NEW n \in Names, NEW v \in Vals \cup {None}, Begin(n, v) PROVE Kv!Ask
  <2>1. request = <<>> /\ request' = <<n, v>> /\ answer' = "none"
    BY <1>1 DEF Begin, SettingsInv, SettingsTypes
  <2>2. Store' = Store
    BY <1>1, StoreStays DEF Begin, Holds
  <2>3. QED
    BY <2>1, <2>2 DEF Kv!Ask
<1>2. ASSUME WriteValue \/ WriteName \/ WriteCount \/ DeleteName \/ DeleteValue
      PROVE  Kv!TakeEffect \/ UNCHANGED Kv!kvVars
  <2>1. CASE request = <<>>
    BY <1>2, <2>1, CleaningEffect DEF Kv!kvVars
  <2>2. CASE request # <<>>
    <3>1. PICK n, v : request = <<n, v>>
      BY <2>2 DEF SettingsInv, SettingsTypes
    <3>2. Store' = Store \/ Store' = [Store EXCEPT ![n] = v]
      BY <1>2, <3>1, WriteEffect
    <3>3. request[1] = n /\ request[2] = v /\ UNCHANGED <<request, answer>>
      BY <1>2, <3>1 DEF WriteValue, WriteName, WriteCount, DeleteName, DeleteValue
    <3>4. QED
      BY <2>2, <3>2, <3>3 DEF Kv!TakeEffect, Kv!kvVars
  <2>3. QED
    BY <2>1, <2>2
<1>3. ASSUME Return PROVE Kv!Answer
  <2>1. request # <<>> /\ rc \in {"ok", "failed"} /\ pc = "return" /\ request' = <<>> /\ answer' = rc
    BY <1>3 DEF Return, SettingsInv, ReturnInv
  <2>2. PICK n, v : request = <<n, v>>
    BY <2>1 DEF SettingsInv, SettingsTypes
  <2>3. request[1] = n /\ request[2] = v
    BY <2>2
  <2>4. rc = "ok" => Store[request[1]] = request[2]
    BY <2>1, <2>2, <2>3, EffectTaken
  <2>5. Store' = Store
    BY <1>3, StoreStays DEF Return, Holds
  <2>6. QED
    BY <2>1, <2>4, <2>5 DEF Kv!Answer
<1>4. ASSUME Load \/ LoadNext \/ UNCHANGED settingsVars PROVE UNCHANGED Kv!kvVars
  <2>1. UNCHANGED <<namecnt, name, value, request, answer>>
    BY <1>4 DEF Load, LoadNext, settingsVars
  <2>2. Store' = Store
    BY <2>1, StoreStays DEF Holds
  <2>3. QED
    BY <2>1, <2>2 DEF Kv!kvVars
<1>5. ASSUME Reset PROVE Kv!PowerFails
  <2>1. Store' = Store
    BY <1>5, StoreStays DEF Reset, Holds
  <2>2. QED
    BY <1>5, <2>1 DEF Reset, Kv!PowerFails
<1>6. (\E n \in Names : Delete(n) \/ \E v \in Vals : settings_nvs_save(n, v)) => Kv!Ask
  <2>1. ASSUME NEW n \in Names, Delete(n) PROVE Kv!Ask
    BY <1>1, <2>1 DEF Delete
  <2>2. ASSUME NEW n \in Names, NEW v \in Vals, settings_nvs_save(n, v) PROVE Kv!Ask
    BY <1>1, <2>2 DEF settings_nvs_save
  <2>3. QED
    BY <2>1, <2>2
<1>7. QED
  BY <1>2, <1>3, <1>4, <1>5, <1>6, Zenon DEF SettingsNext, Kv!KvNext

\* A setting is three entries, written one after the other, and power may fail
\* between any two: for any names, values and number of ids, settings_nvs_save
\* still takes effect at once or not at all, changes no other setting, returns
\* success only after it took effect, and settings_nvs_load loses nothing.
THEOREM SettingsImplementsKvStore == SettingsSpec => ImplementsKvStore
<1>1. SettingsInit => Kv!KvInit
  BY KvInitially
<1>2. SettingsInv /\ SettingsInv' /\ [SettingsNext]_settingsVars => [Kv!KvNext]_(Kv!kvVars)
  BY KvStep
<1>3. QED
  BY <1>1, <1>2, SettingsInvariant, PTL DEF SettingsSpec, ImplementsKvStore, Kv!KvSpec
=============================================================================
