----------------------------- MODULE Bootstage -----------------------------
(***************************************************************************)
(* Time stamps of the boot: SBL-S1, ddrinit, SBL-S2 and SBL-S3 each keep a *)
(* table of the stages reached and hand it on in memory; clients of the    *)
(* bootstage service add the stages of TF-A, U-Boot and the operating      *)
(* system and read the table.                                              *)
(***************************************************************************)
EXTENDS Integers, FiniteSetsExt, Sequences

CONSTANTS Count,     \* PLAT_BOOTSTAGE_RECORD_COUNT
          AreaBytes, \* PLAT_BOOTSTAGE_SIZE
          OsIds,     \* ids clients of the service mark
          MaxClock,  \* bound on the clock
          MaxBoots   \* bound on the number of boots

HdrBytes == 16
RecBytes == 24
SblIds == {"S1_START", "DDRINIT_START", "S2_START", "S2_LOAD_START",
           "S2_LOAD_COMPLETE", "S3_START"}
Ids == SblIds \cup OsIds
Never == -1

\* platform-def-common.h has nine records and 0x800 bytes: room for the stages of the
\* boot loader, and for the five of them the last export hands on.
ASSUME BootstageAssumption ==
  /\ Count \in Nat /\ AreaBytes \in Nat /\ MaxClock \in Nat /\ MaxBoots \in Nat
  /\ Count >= 6 /\ AreaBytes >= HdrBytes + RecBytes * 5
  /\ IsFiniteSet(OsIds)

VARIABLES
  at,      \* the next thing the boot does, an index of Flow
  table,   \* bootstage: the records of the running stage
  area,    \* what is in the memory the table is handed on in
  clock,   \* timer_get_us
  boots,   \* boots so far
  marked   \* history: when each stage was reached first in this boot

stampVars == <<at, table, area, clock, boots, marked>>

-----------------------------------------------------------------------------
\* find_id: the index of the first record of a stage, 0 when there is none.
FindId(t, id) ==
  LET found == {i \in 1..Len(t) : t[i].id = id} IN
  IF found = {} THEN 0 ELSE Min(found)

\* Mutant: the last record of the table is never used.
AddRecordShort(t, i, time) ==
  IF FindId(t, i) = 0 /\ Len(t) < Count - 1 THEN Append(t, [id |-> i, time |-> time]) ELSE t

\* Mutant: a full table starts again with the oldest record.
AddRecordRing(t, i, time) ==
  IF FindId(t, i) # 0 THEN t
  ELSE Append(IF Len(t) < Count THEN t ELSE Tail(t), [id |-> i, time |-> time])

\* bootstage_add_record
AddRecord(t, i, time) ==
  IF FindId(t, i) = 0 /\ Len(t) < Count THEN Append(t, [id |-> i, time |-> time]) ELSE t

GetTimestamp(id) == IF FindId(table, id) = 0 THEN Never ELSE table[FindId(table, id)].time

\* bootstage_export: records that do not fit are left out, and the size stays 0.
Exported(t) ==
  LET fit == (AreaBytes - HdrBytes) \div RecBytes IN
  [magic |-> TRUE, count |-> Len(t), recs |-> SubSeq(t, 1, IF Len(t) < fit THEN Len(t) ELSE fit),
   size |-> IF Len(t) <= fit THEN HdrBytes + RecBytes * Len(t) ELSE 0]

\* bootstage_import: the checks of the header, then the copy.
Acceptable(t, a) ==
  /\ a.magic /\ a.size <= AreaBytes
  /\ a.count * RecBytes <= a.size
  /\ Len(t) + a.count <= Count

Imported(t, a) == IF Acceptable(t, a) THEN t \o SubSeq(a.recs, 1, a.count) ELSE t
-----------------------------------------------------------------------------
\* Marks and hand-overs in the order of the boot.  ddrinit is outside the
\* repository; it hands the table of SBL-S1 on.
Flow == <<"S1_START", "export", "new stage", "DDRINIT_START", "export", "new stage",
          "S2_START", "S2_LOAD_START", "S2_LOAD_COMPLETE", "export", "new stage", "S3_START">>

Booted == at > Len(Flow)

Noted(id, time) == marked' = IF marked[id] = Never THEN [marked EXCEPT ![id] = time] ELSE marked

\* bootstage_mark; bootstage_init marks the first stage at time 0.
Mark(id) ==
  LET time == IF id = "S1_START" THEN 0 ELSE clock IN
  /\ table' = AddRecord(table, id, time)
  /\ Noted(id, time)
  /\ UNCHANGED <<area, boots>>

BootMark ==
  /\ ~Booted /\ Flow[at] \in SblIds
  /\ Mark(Flow[at])
  /\ at' = at + 1
  /\ UNCHANGED clock

Export ==
  /\ ~Booted /\ Flow[at] = "export"
  /\ area' = Exported(table)
  /\ at' = at + 1
  /\ UNCHANGED <<table, clock, boots, marked>>

\* The next stage starts with an empty table and imports.
Import ==
  /\ ~Booted /\ Flow[at] = "new stage"
  /\ table' = Imported(<<>>, area)
  /\ at' = at + 1
  /\ UNCHANGED <<area, clock, boots, marked>>

\* RISC0_IPC_BOOTSTAGE_FUNC_SET_STAGE
IpcSetStage(id) ==
  /\ Booted
  /\ Mark(id)
  /\ UNCHANGED <<at, clock>>

ClockTick ==
  /\ clock < MaxClock /\ clock' = clock + 1
  /\ UNCHANGED <<at, table, area, boots, marked>>

\* A reset, by the watchdog or on request; what is in memory may stay or not.
Reset ==
  /\ boots < MaxBoots /\ boots' = boots + 1
  /\ at' = 1 /\ table' = <<>> /\ clock' = 0
  /\ marked' = [id \in Ids |-> Never]
  /\ \/ UNCHANGED area
     \/ area' = [magic |-> FALSE, count |-> 0, size |-> 0, recs |-> <<>>]

StampInit ==
  /\ at = 1 /\ table = <<>> /\ clock = 0 /\ boots = 1
  /\ area = [magic |-> FALSE, count |-> 0, size |-> 0, recs |-> <<>>]
  /\ marked = [id \in Ids |-> Never]

StampNext ==
  \/ BootMark \/ Export \/ Import \/ ClockTick \/ Reset
  \/ \E id \in OsIds : IpcSetStage(id)

StampSpec == StampInit /\ [][StampNext]_stampVars
-----------------------------------------------------------------------------
\* Once SBL-S3 runs, the service reports for every stage when it was reached
\* first in this boot, and nothing else: no stage is lost on the way through four
\* programs and none is taken from an earlier boot.  A table of
\* PLAT_BOOTSTAGE_RECORD_COUNT records has room for as many stages.
Reached == {id \in Ids : marked[id] # Never}
ReportsFirstMark ==
  Booted /\ Cardinality(Reached) <= Count => \A id \in Ids : GetTimestamp(id) = marked[id]

\* Clients that mark stages of their own until the table is full do not displace
\* what the boot loader has recorded.
SblStagesKept ==
  Booted => \A id \in SblIds : GetTimestamp(id) = marked[id]
=============================================================================
