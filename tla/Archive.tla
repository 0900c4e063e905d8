------------------------------- MODULE Archive -------------------------------
(***************************************************************************)
(* The archive of one task: archive_once of archive.py and the queries of   *)
(* archive_store.py, run as a subprocess by the worker's archiver thread    *)
(* and by an operator's archive-once command, possibly at the same time.    *)
(*                                                                         *)
(* A run reads the store in three statements, each of which sees its own    *)
(* snapshot, publishes a file and commits the manifest with the purge; it   *)
(* may die between any two of these.  What labels and models decide about   *)
(* an observation is one bit here, done, which EventStore and Learner show  *)
(* to stay set while the observation is stored.                             *)
(*                                                                         *)
(* Time runs in the ticks of the database clock, whole seconds.  SQLite     *)
(* compares "00:00:00", as it stamps a row, with "00:00:00.000000", as a    *)
(* bound is passed, by characters, and finds the row smaller.               *)
(***************************************************************************)
EXTENDS Naturals, FiniteSets

CONSTANTS
  Ids,                \* event ids
  Archivers,          \* processes that run archive-once
  Worker,             \* the one the worker runs
  DirectoryArchivers, \* those that may run where no bucket is configured
  WeekLength,
  Retention,          \* at least a day, whatever the policy and the configuration
  CommitDelay,        \* a row is visible this long after it is stamped at most
  RunTime,            \* and a run of archive-once is over after this long
  MaxTime,            \* bound on the clock
  MaxFaults           \* bound on archivers that die

ASSUME ArchiveAssumption ==
  /\ Worker \in Archivers /\ Worker \in DirectoryArchivers
  /\ WeekLength \in Nat \ {0} /\ Retention \in Nat
  /\ CommitDelay \in Nat /\ RunTime \in Nat /\ CommitDelay + RunTime < Retention
  /\ MaxTime \in Nat /\ MaxFaults \in Nat

VARIABLES
  now,
  event,     \* inserted_at of each stored observation
  done,      \* stored observations that have a label and that no model holds
  manifest,  \* archive_manifest: the rows archived for each week
  remote,    \* whether a bucket is configured; if not, files go to a directory
  files,     \* contents of each published file, by its name
  temp,      \* and of each temporary file
  run,       \* what each archiver is doing
  faults     \* archivers that died so far

store == <<event, done, manifest>>
storage == <<files, temp>>
vars == <<now, event, done, manifest, remote, files, temp, run, faults>>

Put(f, x, y) == [z \in DOMAIN f \cup {x} |-> IF z = x THEN y ELSE f[z]]

WeekOf(at) == at \div WeekLength
EndOf(week) == (week + 1) * WeekLength

(* inserted_at >= start AND inserted_at < end, with the comparison of SQLite. *)
InRange(week, at) == week * WeekLength < at /\ at <= EndOf(week)

EventsOf(week) == {id \in DOMAIN event : InRange(week, event[id])}

Idle == [step |-> "idle"]
Moved(a, step) == [run EXCEPT ![a].step = step]
Ended(a) == [run EXCEPT ![a] = Idle]

(* A file is named by its week and a hash of its rows. *)
Name(a) == [week |-> run[a].week, rows |-> run[a].rows]

-----------------------------------------------------------------------------
Init ==
  /\ now = 0
  /\ event = [id \in {} |-> 0] /\ done = {} /\ manifest = [w \in {} |-> {}]
  /\ remote \in BOOLEAN
  /\ files = [f \in {} |-> ""] /\ temp = [f \in {} |-> ""]
  /\ run = [a \in Archivers |-> Idle]
  /\ faults = 0

(* A collector's transaction: CURRENT_TIMESTAMP is earlier than the commit.  An *)
(* id that was archived before is stored again if the source repeats it.        *)
Admit ==
  \E id \in Ids \ DOMAIN event, at \in 0..now :
    /\ now <= at + CommitDelay
    /\ event' = Put(event, id, at)
    /\ UNCHANGED <<now, done, manifest, remote, storage, run, faults>>

(* The observation has its label, and every model is through with it. *)
Complete ==
  \E id \in DOMAIN event \ done :
    /\ done' = done \cup {id}
    /\ UNCHANGED <<now, event, manifest, remote, storage, run, faults>>

Tick ==
  /\ now < MaxTime
  /\ \A a \in Archivers : run[a] # Idle => now < run[a].since + RunTime
  /\ now' = now + 1
  /\ UNCHANGED <<store, remote, storage, run, faults>>

-----------------------------------------------------------------------------
(* archive_once, step by step                                               *)

(* Mutant: no retention. *)
ClosedAtOnce(week) == EndOf(week) <= now

(* archive_week_closed for the cutoff of archive_cutoff. *)
Closed(week) == EndOf(week) + Retention <= now

(* Mutant: the newest observation comes first. *)
IsNewest(id) == \A other \in DOMAIN event : event[other] <= event[id]

(* ORDER BY inserted_at LIMIT 1 *)
IsOldest(id) == \A other \in DOMAIN event : event[id] <= event[other]

(* next_archive_week: the week of the oldest observation, if it has closed. *)
NextWeek == {WeekOf(event[id]) : id \in {id \in DOMAIN event : IsOldest(id)}}

Choose(a) ==
  /\ run[a] = Idle
  /\ remote \/ a \in DirectoryArchivers
  /\ \/ \E week \in NextWeek :
          /\ Closed(week)
          /\ run' = [run EXCEPT ![a] = [step |-> "checking", since |-> now, week |-> week, rows |-> {}, file |-> "none"]]
     \/ (\A week \in NextWeek : ~Closed(week)) /\ UNCHANGED run
  /\ UNCHANGED <<now, store, remote, storage, faults>>

(* Mutant: the week is not asked whether it is complete. *)
AlwaysReady(week) == TRUE

(* archive_week_ready *)
Ready(week) == EventsOf(week) \subseteq done

CheckReady(a) ==
  /\ run[a].step = "checking"
  /\ run' = IF Ready(run[a].week) THEN Moved(a, "reading") ELSE Ended(a)
  /\ UNCHANGED <<now, store, remote, storage, faults>>

(* archive_rows *)
ReadRows(a) ==
  /\ run[a].step = "reading"
  /\ LET rows == {[id |-> id, at |-> event[id]] : id \in EventsOf(run[a].week) \cap done} IN
     run' = IF rows = {} THEN Ended(a)
            ELSE [run EXCEPT ![a].step = "publishing", ![a].rows = rows]
  /\ UNCHANGED <<now, store, remote, storage, faults>>

(* _publish to the bucket, where an object appears at once. *)
PutObject(a) ==
  /\ run[a].step = "publishing" /\ remote
  /\ files' = Put(files, Name(a), "whole")
  /\ run' = Moved(a, "recording")
  /\ UNCHANGED <<now, store, remote, temp, faults>>

(* _publish to the directory: a file of that name is taken as it is. *)
LookForFile(a) ==
  /\ run[a].step = "publishing" /\ ~remote
  /\ run' = Moved(a, IF Name(a) \in DOMAIN files THEN "recording" ELSE "opening")
  /\ UNCHANGED <<now, store, remote, storage, faults>>

(* Mutant: no temporary file. *)
OpenFile(a) ==
  /\ run[a].step = "opening"
  /\ files' = Put(files, Name(a), "partial")
  /\ run' = [run EXCEPT ![a].step = "writing", ![a].file = "final"]
  /\ UNCHANGED <<now, store, remote, temp, faults>>

(* write_bytes empties what is there, *)
OpenTemporary(a) ==
  /\ run[a].step = "opening"
  /\ temp' = Put(temp, Name(a), "partial")
  /\ run' = [run EXCEPT ![a].step = "writing", ![a].file = "temp"]
  /\ UNCHANGED <<now, store, remote, files, faults>>

(* then writes into the file it opened, by whatever name that goes by now. *)
WriteFile(a) ==
  /\ run[a].step = "writing"
  /\ temp' = IF run[a].file = "temp" THEN Put(temp, Name(a), "whole") ELSE temp
  /\ files' = IF run[a].file = "final" THEN Put(files, Name(a), "whole") ELSE files
  /\ run' = Moved(a, "renaming")
  /\ UNCHANGED <<now, store, remote, faults>>

(* Those with the temporary file open have the published one open after a rename. *)
Renamed(b, a) ==
  IF run[b].step = "writing" /\ run[b].file = "temp" /\ Name(b) = Name(a)
  THEN [run[b] EXCEPT !.file = "final"] ELSE run[b]

(* temporary.replace(output), which fails if another archiver has moved it. *)
Rename(a) ==
  /\ run[a].step = "renaming"
  /\ IF Name(a) \in DOMAIN temp
     THEN /\ files' = Put(files, Name(a), temp[Name(a)])
          /\ temp' = [f \in DOMAIN temp \ {Name(a)} |-> temp[f]]
          /\ run' = [b \in Archivers |-> IF b = a THEN [run[a] EXCEPT !.step = "recording"] ELSE Renamed(b, a)]
     ELSE run' = Ended(a) /\ UNCHANGED storage
  /\ UNCHANGED <<now, store, remote, faults>>

(* Mutant: the purge takes the days of the week. *)
EventsOfDays(a) == {id \in DOMAIN event : WeekOf(event[id]) = run[a].week}

ArchivedBy(a) == {row.id : row \in run[a].rows}

(* Mutant: the labels stay. *)
PurgeEventsOnly(gone) == event' = [id \in DOMAIN event \ gone |-> event[id]] /\ UNCHANGED done

(* purge_archived_events *)
Purge(gone) == event' = [id \in DOMAIN event \ gone |-> event[id]] /\ done' = done \ gone

(* The recording transaction: the week's first manifest stays, and a run with *)
(* another file for it raises an error.                                       *)
Record(a) ==
  /\ run[a].step = "recording"
  /\ manifest' = IF run[a].week \in DOMAIN manifest THEN manifest ELSE Put(manifest, run[a].week, run[a].rows)
  /\ IF manifest'[run[a].week] = run[a].rows THEN Purge(ArchivedBy(a)) ELSE UNCHANGED <<event, done>>
  /\ run' = Ended(a)
  /\ UNCHANGED <<now, remote, storage, faults>>

(* The process dies, or an error ends it; the next one starts over. *)
Crash(a) ==
  /\ run[a] # Idle /\ faults < MaxFaults
  /\ faults' = faults + 1
  /\ run' = Ended(a)
  /\ UNCHANGED <<now, store, remote, storage>>

ArchiveOnce(a) ==
  \/ Choose(a) \/ CheckReady(a) \/ ReadRows(a) \/ PutObject(a) \/ LookForFile(a)
  \/ OpenTemporary(a) \/ WriteFile(a) \/ Rename(a) \/ Record(a)

Next == Admit \/ Complete \/ Tick \/ \E a \in Archivers : ArchiveOnce(a) \/ Crash(a)

Spec == Init /\ [][Next]_vars

(* The clock runs, resolutions and models go on, the worker archives at every  *)
(* interval, and a run that was started goes on or dies.                       *)
FairSpec ==
  /\ Spec
  /\ WF_vars(Tick) /\ WF_vars(Complete) /\ WF_vars(ArchiveOnce(Worker))
  /\ \A a \in Archivers : WF_vars(run[a] # Idle /\ ArchiveOnce(a))
-----------------------------------------------------------------------------
RowSets == SUBSET [id : Ids, at : Nat]
Steps == {"idle", "checking", "reading", "publishing", "opening", "writing", "renaming", "recording"}

IsRun(r) ==
  /\ r.step \in Steps
  /\ r.step # "idle" =>
       /\ r.since \in 0..now /\ r.week \in 0..MaxTime
       /\ r.rows \in RowSets /\ r.file \in {"none", "temp", "final"}

TypeOK ==
  /\ now \in 0..MaxTime /\ faults \in 0..MaxFaults /\ remote \in BOOLEAN
  /\ DOMAIN event \subseteq Ids /\ \A id \in DOMAIN event : event[id] \in 0..now
  /\ done \subseteq DOMAIN event
  /\ DOMAIN manifest \subseteq 0..MaxTime /\ \A w \in DOMAIN manifest : manifest[w] \in RowSets
  /\ \A f \in DOMAIN files : files[f] \in {"partial", "whole"}
  /\ \A f \in DOMAIN temp : temp[f] \in {"partial", "whole"}
  /\ \A a \in Archivers : IsRun(run[a])

(* Once a week has its file, no observation of that week is left or comes in   *)
(* later: late commits, a second archiver and restarts included.  So no run    *)
(* ever has a different file for a week, which would stop archiving for good.  *)
WeeksAreWhole ==
  /\ \A week \in DOMAIN manifest : EventsOf(week) = {}
  /\ \A a \in Archivers :
       run[a].step = "recording" /\ run[a].week \in DOMAIN manifest => run[a].rows = manifest[run[a].week]

(* A run that died after it published, and the one that tries again, make the  *)
(* same file: a week has one replay dataset.                                   *)
OneDataset == \A f, g \in DOMAIN files : f.week = g.week => f = g

(* The file a manifest names is there to the last byte.                        *)
PublishedIsWhole ==
  \A w \in DOMAIN manifest :
    LET f == [week |-> w, rows |-> manifest[w]] IN f \in DOMAIN files /\ files[f] = "whole"

(* An observation leaves the store only once a manifest has it.                *)
NothingIsLost ==
  [][\A id \in DOMAIN event :
       \/ id \in DOMAIN event'
       \/ \E w \in DOMAIN manifest' : \E row \in manifest'[w] : row.id = id]_vars

(* Every observation of a week that closes is archived in the end, *)
StoredInClosingWeek(id) == id \in DOMAIN event /\ EndOf(WeekOf(event[id])) + Retention <= MaxTime

EveryWeekIsArchived ==
  \A id \in Ids : StoredInClosingWeek(id) ~> id \notin DOMAIN event

(* unless the oldest of all was stamped in the first second of a week, which   *)
(* next_archive_week counts to that week and archive_rows to the week before.  *)
HeldByFirstSecond == \E id \in DOMAIN event : IsOldest(id) /\ event[id] % WeekLength = 0

OtherWeeksAreArchived ==
  \A id \in Ids : StoredInClosingWeek(id) ~> id \notin DOMAIN event \/ HeldByFirstSecond
=============================================================================
