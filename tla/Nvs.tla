-------------------------------- MODULE Nvs ---------------------------------
(***************************************************************************)
(* The flash store under the settings (subsys/fs/nvs/nvs.c), where bonds   *)
(* and subscriptions are kept.  A sector is filled with data from the      *)
(* bottom and allocation entries (ate) from the top, the last of which     *)
(* closes it; nvs_write, nvs_gc and nvs_startup are operators on the file  *)
(* system that log what they do to the flash.  The flash then goes through *)
(* the log one operation per step, and power may fail at any of them.      *)
(*                                                                         *)
(* A cell has the size of an ate and a datum fits in one.  crc8 tells a    *)
(* complete ate from everything else.  A sector has more cells than there  *)
(* are ids, so that deletions alone do not run over its bottom.  An erase  *)
(* is not cut short; a write may be, and an ate may then keep its first    *)
(* word, id and offset, without its length and its crc8.                   *)
(***************************************************************************)
EXTENDS Integers, Sequences, FiniteSets

CONSTANTS Ids, Data,
          Nothing,                  \* no data: what nvs_delete writes
          NewData,                  \* what is written: some of Data, perhaps Nothing
          SectorCount, SectorSize,  \* the size in cells
          Faults   \* where power may fail: within a write of data or an ate ("write"),
                   \* where the first ate of a sector may keep its id ("first_ate"), or
                   \* of a closing ate ("close"), also when the sector ends with a
                   \* deletion right above the data ("low_close").  Between two flash
                   \* operations it may always fail.

ASSUME NvsAssumption ==
  /\ SectorCount \in Nat /\ SectorCount >= 2
  /\ SectorSize \in Nat /\ SectorSize >= 4 /\ Cardinality(Ids) < SectorSize - 1
  /\ Faults \subseteq {"write", "first_ate", "close", "low_close"}
  /\ Nothing \notin Data /\ NewData \subseteq Data \cup {Nothing}

Sectors == 0..(SectorCount - 1)
Last == SectorSize - 1

Erased == [kind |-> "erased"]
Torn == [kind |-> "torn"]
TornAte(id, offset) == [kind |-> "torn_ate", id |-> id, offset |-> offset]
Datum(v) == [kind |-> "data", value |-> v]
Ate(id, offset, len) == [kind |-> "ate", id |-> id, offset |-> offset, len |-> len]
CloseId == "close"
Overlong == "overlong"   \* what a read returns for a length that was not written, 0xFFFF

IsAte(c) == c.kind = "ate"
BlankSector == [o \in 0..Last |-> Erased]

-----------------------------------------------------------------------------
(***************************************************************************)
(* struct nvs_fs: the flash, the sector being written with its two write   *)
(* positions, and the log.  err is the reason a function gives up.         *)
(***************************************************************************)
Fs(flash) == [flash |-> flash, sector |-> 0, ate_wra |-> 0, data_wra |-> 0, log |-> <<>>,
              err |-> "no"]

AteWra(fs) == <<fs.sector, fs.ate_wra>>
At(fs, a) == fs.flash[a[1]][a[2]]
Following(s) == (s + 1) % SectorCount
Preceding(s) == (s + SectorCount - 1) % SectorCount

\* A write clears bits only: over anything but erased cells it leaves a mixture.
Programmed(f, s, o, c) == [f EXCEPT ![s][o] = IF @ = Erased THEN c ELSE Torn]

Write(fs, s, o, c) ==
  [fs EXCEPT !.flash = Programmed(@, s, o, c),
             !.log = Append(@, [op |-> "write", sector |-> s, offset |-> o, cell |-> c])]

nvs_flash_ate_wrt(fs, ate) ==
  [Write(fs, fs.sector, fs.ate_wra, ate) EXCEPT !.ate_wra = @ - 1]

nvs_flash_data_wrt(fs, d) ==
  [Write(fs, fs.sector, fs.data_wra, d) EXCEPT !.data_wra = @ + 1]

nvs_flash_erase_sector(fs, s) ==
  IF fs.flash[s] = BlankSector THEN fs
  ELSE [fs EXCEPT !.flash[s] = BlankSector,
                  !.log = Append(@, [op |-> "erase", sector |-> s])]

\* nvs_recover_last_ate: the lowest valid ate above the data.
RECURSIVE Recover(_, _, _, _, _)
Recover(fs, s, o, data_end, found) ==
  IF o <= data_end THEN <<s, found>>
  ELSE LET c == fs.flash[s][o]
       IN  IF IsAte(c) THEN Recover(fs, s, o - 1, c.offset + c.len, o)
           ELSE Recover(fs, s, o - 1, data_end, found)

nvs_recover_last_ate(fs, s) == Recover(fs, s, Last - 1, 0, Last - 1)

\* nvs_prev_ate: the address of the ate before the one at a.
nvs_prev_ate(fs, a) ==
  LET s == Preceding(a[1])
      close == fs.flash[s][Last]
  IN  IF a[2] + 1 # Last THEN <<a[1], a[2] + 1>>
      ELSE IF close = Erased THEN AteWra(fs)
      ELSE IF IsAte(close) /\ close.offset < Last THEN <<s, close.offset>>
      ELSE nvs_recover_last_ate(fs, s)

\* The walk of nvs_write, nvs_read_hist and nvs_gc: the newest ate of id, or
\* the oldest of the file system if there is none.
RECURSIVE Walk(_, _, _)
Walk(fs, a, id) ==
  LET c == At(fs, a)
      before == nvs_prev_ate(fs, a)
  IN  IF (IsAte(c) /\ c.id = id) \/ before = AteWra(fs) THEN a
      ELSE Walk(fs, before, id)

Newest(fs, id) == Walk(fs, AteWra(fs), id)

\* What nvs_write compares with: the data of the newest ate of id.
Previous(fs, id) ==
  LET a == Newest(fs, id)
      c == At(fs, a)
  IN  IF IsAte(c) /\ c.id = id /\ c.len # 0 THEN fs.flash[a[1]][c.offset].value
      ELSE Nothing

\* nvs_read: at the end of its walk it looks at the id only, not at crc8.
nvs_read(fs, id) ==
  LET c == At(fs, Newest(fs, id))
  IN  IF c.kind = "torn_ate" /\ c.id = id THEN Overlong ELSE Previous(fs, id)

-----------------------------------------------------------------------------
\* Mutant: data_wra keeps its offset.
nvs_sector_close_keeps_offset(fs) ==
  [Write(fs, fs.sector, Last, Ate(CloseId, fs.ate_wra + 1, 0)) EXCEPT
     !.sector = Following(@), !.ate_wra = Last - 1]

\* nvs_sector_close: the last cell points to the last ate; the next sector is
\* the one to write.
nvs_sector_close(fs) ==
  [Write(fs, fs.sector, Last, Ate(CloseId, fs.ate_wra + 1, 0)) EXCEPT
     !.sector = Following(@), !.ate_wra = Last - 1, !.data_wra = 0]

\* nvs_gc from address a on: what is still current is copied.
RECURSIVE GcFrom(_, _, _)
GcFrom(fs, a, stop) ==
  LET c == At(fs, a)
      moved == nvs_flash_ate_wrt(nvs_flash_data_wrt(fs, fs.flash[a[1]][c.offset]),
                                 Ate(c.id, fs.data_wra, c.len))
      after == IF IsAte(c) /\ Newest(fs, c.id) = a /\ c.len # 0 THEN moved ELSE fs
  IN  IF a = stop THEN after ELSE GcFrom(after, nvs_prev_ate(fs, a), stop)

\* Mutant: the sector is not erased.
nvs_gc_keeps_sector(fs) ==
  LET s == Following(fs.sector)
      close == fs.flash[s][Last]
  IN  IF close = Erased THEN fs
      ELSE GcFrom(fs, <<s, IF IsAte(close) THEN close.offset ELSE Last - 1>>, <<s, Last - 1>>)

\* nvs_gc.  A closing ate that points to itself sends gc_addr up and out of the
\* sector to the end of the flash, where flash_read fails.
nvs_gc(fs) ==
  LET s == Following(fs.sector)
      close == fs.flash[s][Last]
      start == IF IsAte(close) THEN <<s, close.offset>> ELSE nvs_recover_last_ate(fs, s)
  IN  IF close = Erased THEN nvs_flash_erase_sector(fs, s)
      ELSE IF start[2] = Last THEN [fs EXCEPT !.err = "EINVAL"]
      ELSE nvs_flash_erase_sector(GcFrom(fs, start, <<s, Last - 1>>), s)

\* The loop of nvs_write: sectors are closed and collected until the entry fits.
RECURSIVE MakeRoom(_, _, _)
MakeRoom(fs, space, gc_count) ==
  IF gc_count = SectorCount THEN [fs EXCEPT !.err = "ENOSPC"]
  ELSE IF fs.err # "no" \/ fs.ate_wra >= fs.data_wra + space THEN fs
  ELSE MakeRoom(nvs_gc(nvs_sector_close(fs)), space, gc_count + 1)

\* nvs_flash_wrt_entry: the data first.
nvs_flash_wrt_entry(fs, id, v) ==
  IF v = Nothing THEN nvs_flash_ate_wrt(fs, Ate(id, fs.data_wra, 0))
  ELSE nvs_flash_ate_wrt(nvs_flash_data_wrt(fs, Datum(v)), Ate(id, fs.data_wra, 1))

\* Mutant: no space is kept for the ate of a deletion.
nvs_write_no_reserve(fs, id, v) ==
  LET ready == MakeRoom(fs, IF v = Nothing THEN 0 ELSE 1, 0)
  IN  IF Previous(fs, id) = v THEN fs
      ELSE IF ready.err # "no" THEN ready
      ELSE nvs_flash_wrt_entry(ready, id, v)

\* nvs_write and nvs_delete: nothing is written that is there already.
nvs_write(fs, id, v) ==
  LET ready == MakeRoom(fs, IF v = Nothing THEN 0 ELSE 2, 0)
  IN  IF Previous(fs, id) = v THEN fs
      ELSE IF ready.err # "no" THEN ready
      ELSE nvs_flash_wrt_entry(ready, id, v)

-----------------------------------------------------------------------------
(***************************************************************************)
(* nvs_startup                                                             *)
(***************************************************************************)
Closed(flash, s) == flash[s][Last] # Erased

\* The sector to write: an open one after a closed one; if none is closed the
\* first, or the last if it has an ate.
WriteSector(flash) ==
  LET ends == {s \in Sectors : Closed(flash, s) /\ ~Closed(flash, Following(s))}
      last == SectorCount - 1
  IN  IF ends # {} THEN Following(CHOOSE s \in ends : \A r \in ends : s <= r)
      ELSE IF flash[last][Last - 1] = Erased THEN 0 ELSE last

\* ate_wra: the first erased ate from the top; data_wra follows the data of
\* the last valid one.
RECURSIVE FindAteWra(_)
FindAteWra(fs) ==
  LET c == At(fs, AteWra(fs))
      used == IF IsAte(c) THEN c.offset + c.len ELSE fs.data_wra
  IN  IF fs.ate_wra < fs.data_wra \/ c = Erased THEN fs
      ELSE IF IsAte(c) /\ fs.ate_wra = used /\ c.len # 0 THEN [fs EXCEPT !.err = "ESPIPE"]
      ELSE FindAteWra([fs EXCEPT !.ate_wra = @ - 1, !.data_wra = used])

\* data_wra also skips data whose ate was not written.
RECURSIVE SkipData(_)
SkipData(fs) ==
  IF fs.ate_wra <= fs.data_wra
     \/ \A o \in fs.data_wra..(fs.ate_wra - 1) : fs.flash[fs.sector][o] = Erased
  THEN fs ELSE SkipData([fs EXCEPT !.data_wra = @ + 1])

\* Mutant: gc goes on where it was.
RestartGc_resumes(fs) == nvs_gc(fs)

\* gc was interrupted: it starts again with an empty sector.
RestartGc(fs) ==
  nvs_gc([nvs_flash_erase_sector(fs, fs.sector) EXCEPT !.ate_wra = Last - 1, !.data_wra = 0])

nvs_startup(flash) ==
  LET s == WriteSector(flash)
      fs == SkipData(FindAteWra([Fs(flash) EXCEPT !.sector = s, !.ate_wra = Last - 1]))
  IN  IF \A r \in Sectors : Closed(flash, r) THEN [Fs(flash) EXCEPT !.err = "EDEADLK"]
      ELSE IF fs.err # "no" \/ flash[Following(s)] = BlankSector THEN fs
      ELSE RestartGc(fs)

-----------------------------------------------------------------------------
VARIABLES
  flash,    \* what the flash holds
  fs,       \* the file system once the log is done
  log,      \* flash operations to come
  request,  \* the call in progress, an id and its new value
  answer,   \* what the last call returned
  store     \* history: what nvs_init and nvs_read would find if power failed now

nvsVars == <<flash, fs, log, request, answer, store>>

Recovered(f) == [id \in Ids |-> nvs_read(nvs_startup(f), id)]

NvsInit ==
  /\ flash = [s \in Sectors |-> BlankSector]
  /\ fs = [nvs_startup(flash) EXCEPT !.log = <<>>]
  /\ log = <<>>
  /\ request = <<>>
  /\ answer = "none"
  /\ store = Recovered(flash)

\* A call of nvs_write or nvs_delete; the settings lock keeps others out.
Call(id, v) ==
  LET after == nvs_write([fs EXCEPT !.err = "no"], id, v)
  IN  /\ request = <<>> /\ log = <<>>
      /\ request' = <<id, v>>
      /\ fs' = [after EXCEPT !.log = <<>>] /\ log' = after.log
      /\ answer' = "none"
      /\ UNCHANGED <<flash, store>>

\* flash_write or flash_erase
Apply(f, e) ==
  IF e.op = "erase" THEN [f EXCEPT ![e.sector] = BlankSector]
  ELSE Programmed(f, e.sector, e.offset, e.cell)

FlashStep ==
  /\ log # <<>>
  /\ flash' = Apply(flash, Head(log)) /\ store' = Recovered(flash')
  /\ log' = Tail(log)
  /\ UNCHANGED <<fs, request, answer>>

Return ==
  /\ request # <<>> /\ log = <<>>
  /\ request' = <<>>
  /\ answer' = IF fs.err = "no" THEN "ok" ELSE "failed"
  /\ UNCHANGED <<flash, fs, log, store>>

\* The last ate of the sector that e closes is a deletion right above the data.
LowDeletion(f, e) ==
  LET c == f[e.sector][e.cell.offset] IN IsAte(c) /\ c.offset = e.cell.offset

\* A flash operation that may be cut short.
MayFail(f, e) ==
  /\ e.op = "write"
  /\ IF e.offset = Last
       THEN (IF LowDeletion(f, e) THEN "low_close" ELSE "close") \in Faults
       ELSE "write" \in Faults

\* What a write that is cut short may leave.  The first ate of a sector is the
\* end of a walk later on, unless gc is copying and will start again.
CutShort(f, e) ==
  {Torn} \cup
  IF /\ IsAte(e.cell) /\ e.offset # Last
     /\ (e.offset = Last - 1 /\ f[Following(e.sector)] = BlankSector) => "first_ate" \in Faults
    THEN {TornAte(e.cell.id, e.cell.offset)} ELSE {}

\* Assumed not to come about: a sector that failed writes have filled without
\* one datum of its own.  nvs_sector_close would give it an offset that points to
\* the closing ate, and gc would fail.
FullOfJunk(n) ==
  /\ \A o \in 0..(Last - 1) : LET c == n.flash[n.sector][o] IN IsAte(c) => c.len = 0
  /\ n.ate_wra < n.data_wra + 2

\* Power fails, perhaps within a flash operation; nvs_init after the reset.
Crash ==
  LET e == Head(log)
      left == {flash} \cup IF log # <<>> /\ MayFail(flash, e)
                             THEN {[flash EXCEPT ![e.sector][e.offset] = c] :
                                     c \in CutShort(flash, e)}
                             ELSE {}
  IN  /\ \E f \in left :
           LET mounted == nvs_startup(f)
           IN  /\ ~FullOfJunk(mounted)
               /\ flash' = f /\ store' = Recovered(f)
               /\ fs' = [mounted EXCEPT !.log = <<>>] /\ log' = mounted.log
      /\ request' = <<>> /\ answer' = "none"

NvsNext == (\E id \in Ids, v \in NewData : Call(id, v)) \/ FlashStep \/ Return \/ Crash

NvsSpec == NvsInit /\ [][NvsNext]_nvsVars

-----------------------------------------------------------------------------
\* nvs_init succeeds after power failed between two flash operations or within a
\* write that Faults allows, as long as failed writes alone never fill a sector
\* (FullOfJunk) and no erase is cut short.
AlwaysMounts == nvs_startup(flash).err = "no"

\* Between calls the file system in RAM reads what a restart would find.
ReadsWhatSurvives ==
  log = <<>> => \A id \in Ids : nvs_read(fs, id) = store[id]

\* As long as what is stored and one entry more fit in a single sector,
\* nvs_write finds room: collecting sectors does not end in -ENOSPC.
FitsInOneSector ==
  (log = <<>> /\ 2 * (Cardinality({id \in Ids : store[id] # Nothing}) + 1) < Last)
    => \A id \in Ids, v \in Data : nvs_write([fs EXCEPT !.err = "no"], id, v).err = "no"

\* A faulty closing ate costs nothing: nvs_recover_last_ate finds "the last
\* valid ate" of its sector.
RecoversLastAte ==
  \A s \in Sectors :
    LET ates == {o \in 0..(Last - 1) : IsAte(flash[s][o])}
    IN  (flash[s][Last] = Torn /\ ates # {})
          => \A o \in ates : nvs_recover_last_ate([Fs(flash) EXCEPT !.sector = s], s)[2] <= o

Kv == INSTANCE KvStore WITH Keys <- Ids, Values <- Data \cup {Nothing}, Absent <- Nothing

\* nvs_write and nvs_delete are atomic and durable, also in gc and in a gc that
\* startup repeats, at the power failures of AlwaysMounts.  With "first_ate" or
\* "low_close" among the Faults they are not.
ImplementsKvStore == Kv!KvSpec
=============================================================================
