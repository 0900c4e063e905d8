---------------------------- MODULE Archive_proofs ----------------------------
(***************************************************************************)
(* What holds of archive runs for any number of them, any sources and times. *)
(*                                                                         *)
(* The types and the invariants rest on one fact: the dataset of a closed   *)
(* week is settled (WeekStays).  A closed week admits nothing, as no        *)
(* transaction takes as long as the retention; and a run purges what its    *)
(* week has left or, if it is the second one to record the week, rows that  *)
(* came in again after it began, which are younger than any closed week.    *)
(***************************************************************************)
EXTENDS Archive, TLAPS

(* ------------------------- Weeks and their ranges ----------------------- *)

(* The bounds of a week are times, and the week is not past its end. *)
LEMMA WeekTypes ==
  ASSUME NEW w \in Nat
  PROVE  /\ EndOf(w) \in Nat /\ w * WeekLength \in Nat
         /\ w < EndOf(w) /\ EndOf(w) = w * WeekLength + WeekLength
BY ArchiveAssumption DEF EndOf, ArchiveAssumption

(* A time lies in a week. *)
LEMMA WeekOfType ==
  ASSUME NEW at \in Nat
  PROVE  WeekOf(at) \in Nat
BY ArchiveAssumption DEF WeekOf, ArchiveAssumption

(* The ranges that archive_rows selects by do not overlap. *)
LEMMA OneRange ==
  ASSUME NEW w \in Nat, NEW v \in Nat, NEW at \in Nat, InRange(w, at), InRange(v, at)
  PROVE  w = v
<1>1. ASSUME NEW x \in Nat, NEW y \in Nat, x < y PROVE EndOf(x) <= y * WeekLength
  <2>1. PICK k \in Nat : y = x + 1 + k
    <3>1. y - (x + 1) \in Nat /\ y = x + 1 + (y - (x + 1))
      BY <1>1
    <3>. QED BY <3>1
  <2>2. /\ y * WeekLength = (x + 1) * WeekLength + k * WeekLength
        /\ k * WeekLength \in Nat /\ (x + 1) * WeekLength \in Nat /\ y * WeekLength \in Nat
    BY <2>1, ArchiveAssumption DEF ArchiveAssumption
  <2>. QED BY <2>2 DEF EndOf
<1>2. CASE w < v
  BY <1>2, <1>1, WeekTypes DEF InRange
<1>3. CASE v < w
  BY <1>3, <1>1, WeekTypes DEF InRange
<1>. QED BY <1>2, <1>3

(* The constants in the form the leaves below use. *)
LEMMA Times ==
  /\ Retention \in Nat /\ CommitDelay \in Nat /\ RunTime \in Nat
  /\ CommitDelay + RunTime < Retention /\ MaxTime \in Nat /\ MaxFaults \in Nat
BY ArchiveAssumption DEF ArchiveAssumption

(* ------------------------------- Types ---------------------------------- *)

Runs == [step : Steps \ {"idle"}, since : Nat, week : Nat, rows : RowSets,
         file : {"none", "temp", "final"}]

Names == [week : Nat, rows : RowSets]

EventsOK ==
  /\ now \in Nat
  /\ DOMAIN event \subseteq Ids
  /\ \A id \in DOMAIN event : event[id] \in Nat /\ event[id] <= now
  /\ done \subseteq DOMAIN event

RunsOK == run \in [Archivers -> Runs \cup {Idle}]

ManifestOK ==
  /\ DOMAIN manifest \subseteq Nat /\ \A w \in DOMAIN manifest : manifest[w] \in RowSets

FilesOK ==
  /\ remote \in BOOLEAN
  /\ DOMAIN files \subseteq Names /\ \A f \in DOMAIN files : files[f] \in {"partial", "whole"}
  /\ DOMAIN temp \subseteq Names /\ \A f \in DOMAIN temp : temp[f] \in {"partial", "whole"}

BoundsOK == now <= MaxTime /\ faults \in 0..MaxFaults

TypeInv == EventsOK /\ RunsOK /\ ManifestOK /\ FilesOK /\ BoundsOK

(* An archiver's run goes on, and ends. *)
LEMMA MovedType ==
  ASSUME RunsOK, NEW a \in Archivers, run[a] # Idle, NEW step \in Steps \ {"idle"}
  PROVE  /\ Moved(a, step) \in [Archivers -> Runs \cup {Idle}]
         /\ Moved(a, step)[a] = [run[a] EXCEPT !.step = step]
         /\ Moved(a, step)[a] \in Runs
         /\ Moved(a, step)[a].step = step /\ Moved(a, step)[a].since = run[a].since
         /\ Moved(a, step)[a].week = run[a].week /\ Moved(a, step)[a].rows = run[a].rows
         /\ Moved(a, step)[a].file = run[a].file
         /\ \A b \in Archivers : b # a => Moved(a, step)[b] = run[b]
<1>1. run[a] \in Runs
  BY DEF RunsOK
<1>. QED
  BY <1>1 DEF RunsOK, Moved, Runs

(* A run that ends leaves the others alone. *)
LEMMA EndedType ==
  ASSUME RunsOK, NEW a \in Archivers
  PROVE  /\ Ended(a) \in [Archivers -> Runs \cup {Idle}] /\ Ended(a)[a] = Idle
         /\ \A b \in Archivers : b # a => Ended(a)[b] = run[b]
BY DEF RunsOK, Ended

(* A run that has a step is not idle. *)
LEMMA RunFields ==
  ASSUME RunsOK, NEW a \in Archivers, run[a] # Idle
  PROVE  /\ run[a] \in Runs /\ run[a].step \in Steps \ {"idle"} /\ run[a].since \in Nat
         /\ run[a].week \in Nat /\ run[a].rows \in RowSets /\ run[a].file \in {"none", "temp", "final"}
         /\ Name(a) \in Names /\ Name(a).week = run[a].week /\ Name(a).rows = run[a].rows
BY DEF RunsOK, Runs, Name, Names

(* Idle is the step of no run. *)
LEMMA IdleStep == Idle.step = "idle"
BY DEF Idle

(* Every step keeps the types. *)
LEMMA TypeSteps == TypeInv /\ [Next]_vars => TypeInv'
<1> SUFFICES ASSUME TypeInv, [Next]_vars PROVE TypeInv'
  OBVIOUS
<1> USE DEF TypeInv
<1>1. CASE UNCHANGED vars
  BY <1>1 DEF vars, EventsOK, RunsOK, ManifestOK, FilesOK, BoundsOK
<1>2. CASE Admit
  <2>1. PICK id \in Ids \ DOMAIN event, at \in 0..now : event' = Put(event, id, at)
    BY <1>2 DEF Admit
  <2>2. UNCHANGED <<now, done, manifest, remote, files, temp, run, faults>>
    BY <1>2 DEF Admit, storage
  <2>3. EventsOK'
    BY <2>1, <2>2 DEF Put, EventsOK
  <2>. QED
    BY <2>2, <2>3 DEF RunsOK, ManifestOK, FilesOK, BoundsOK
<1>3. CASE Complete
  BY <1>3 DEF Complete, storage, EventsOK, RunsOK, ManifestOK, FilesOK, BoundsOK
<1>4. CASE Tick
  BY <1>4, Times DEF Tick, store, storage, EventsOK, RunsOK, ManifestOK, FilesOK, BoundsOK
<1>5. ASSUME NEW a \in Archivers, Choose(a) PROVE TypeInv'
  <2>1. UNCHANGED <<now, event, done, manifest, remote, files, temp, faults>>
    BY <1>5 DEF Choose, store, storage
  <2>2. RunsOK'
    <3>1. CASE run' = run
      BY <3>1 DEF RunsOK
    <3>2. ASSUME NEW week \in NextWeek,
                 run' = [run EXCEPT ![a] = [step |-> "checking", since |-> now, week |-> week, rows |-> {}, file |-> "none"]]
          PROVE  RunsOK'
      <4>1. week \in Nat
        BY WeekOfType DEF NextWeek, EventsOK
      <4>. QED
        BY <4>1, <3>2 DEF RunsOK, Runs, Steps, RowSets, EventsOK
    <3>. QED
      BY <1>5, <3>1, <3>2 DEF Choose
  <2>. QED
    BY <2>1, <2>2 DEF EventsOK, ManifestOK, FilesOK, BoundsOK
<1>6. ASSUME NEW a \in Archivers, CheckReady(a) PROVE TypeInv'
  <2>1. UNCHANGED <<now, event, done, manifest, remote, files, temp, faults>>
    BY <1>6 DEF CheckReady, store, storage
  <2>2. RunsOK'
    BY <1>6, IdleStep, MovedType, EndedType DEF CheckReady, RunsOK, Steps
  <2>. QED
    BY <2>1, <2>2 DEF EventsOK, ManifestOK, FilesOK, BoundsOK
<1>7. ASSUME NEW a \in Archivers, ReadRows(a) PROVE TypeInv'
  <2> DEFINE rows == {[id |-> id, at |-> event[id]] : id \in EventsOf(run[a].week) \cap done}
  <2>1. UNCHANGED <<now, event, done, manifest, remote, files, temp, faults>>
    BY <1>7 DEF ReadRows, store, storage
  <2>2. rows \in RowSets
    BY DEF RowSets, EventsOf, EventsOK
  <2>3. run[a] # Idle /\ run[a] \in Runs
    BY <1>7, IdleStep, RunFields DEF ReadRows
  <2>4. run' = Ended(a) \/ run' = [run EXCEPT ![a].step = "publishing", ![a].rows = rows]
    BY <1>7 DEF ReadRows
  <2> HIDE DEF rows
  <2>5. [run[a] EXCEPT !.step = "publishing", !.rows = rows] \in Runs
    BY <2>2, <2>3 DEF Runs, Steps
  <2>6. RunsOK'
    BY <2>4, <2>5, EndedType DEF RunsOK
  <2>. QED
    BY <2>1, <2>6 DEF EventsOK, ManifestOK, FilesOK, BoundsOK
<1>8. ASSUME NEW a \in Archivers, PutObject(a) PROVE TypeInv'
  <2>1. UNCHANGED <<now, event, done, manifest, remote, temp, faults>>
    BY <1>8 DEF PutObject, store
  <2>2. RunsOK'
    BY <1>8, IdleStep, MovedType DEF PutObject, RunsOK, Steps
  <2>3. FilesOK'
    BY <1>8, <2>1, IdleStep, RunFields DEF Put, PutObject, FilesOK
  <2>. QED
    BY <2>1, <2>2, <2>3 DEF EventsOK, ManifestOK, BoundsOK
<1>9. ASSUME NEW a \in Archivers, LookForFile(a) PROVE TypeInv'
  <2>1. UNCHANGED <<now, event, done, manifest, remote, files, temp, faults>>
    BY <1>9 DEF LookForFile, store, storage
  <2>2. RunsOK'
    BY <1>9, IdleStep, MovedType DEF LookForFile, RunsOK, Steps
  <2>. QED
    BY <2>1, <2>2 DEF EventsOK, ManifestOK, FilesOK, BoundsOK
<1>10. ASSUME NEW a \in Archivers, OpenTemporary(a) PROVE TypeInv'
  <2>1. UNCHANGED <<now, event, done, manifest, remote, files, faults>>
    BY <1>10 DEF OpenTemporary, store
  <2>2. run[a] # Idle /\ run[a] \in Runs /\ Name(a) \in Names
    BY <1>10, IdleStep, RunFields DEF OpenTemporary
  <2>3. [run[a] EXCEPT !.step = "writing", !.file = "temp"] \in Runs
    BY <2>2 DEF Runs, Steps
  <2>4. RunsOK'
    BY <1>10, <2>3 DEF OpenTemporary, RunsOK
  <2>5. FilesOK'
    BY <1>10, <2>1, <2>2 DEF Put, OpenTemporary, FilesOK
  <2>. QED
    BY <2>1, <2>4, <2>5 DEF EventsOK, ManifestOK, BoundsOK
<1>11. ASSUME NEW a \in Archivers, WriteFile(a) PROVE TypeInv'
  <2>1. UNCHANGED <<now, event, done, manifest, remote, faults>>
    BY <1>11 DEF WriteFile, store
  <2>2. run[a] # Idle /\ Name(a) \in Names
    BY <1>11, IdleStep, RunFields DEF WriteFile
  <2>3. RunsOK'
    BY <1>11, <2>2, MovedType DEF WriteFile, RunsOK, Steps
  <2>4. FilesOK'
    BY <1>11, <2>1, <2>2 DEF Put, WriteFile, FilesOK
  <2>. QED
    BY <2>1, <2>3, <2>4 DEF EventsOK, ManifestOK, BoundsOK
<1>12. ASSUME NEW a \in Archivers, Rename(a) PROVE TypeInv'
  <2>1. UNCHANGED <<now, event, done, manifest, remote, faults>>
    BY <1>12 DEF Rename, store
  <2>2. run[a] # Idle /\ run[a] \in Runs /\ Name(a) \in Names
    BY <1>12, IdleStep, RunFields DEF Rename
  <2>3. CASE Name(a) \in DOMAIN temp
    <3>1. /\ files' = Put(files, Name(a), temp[Name(a)])
          /\ temp' = [f \in DOMAIN temp \ {Name(a)} |-> temp[f]]
          /\ run' = [b \in Archivers |-> IF b = a THEN [run[a] EXCEPT !.step = "recording"] ELSE Renamed(b, a)]
      BY <1>12, <2>3 DEF Rename
    <3>2. FilesOK'
      BY <2>1, <2>2, <2>3, <3>1 DEF Put, FilesOK
    <3>3. [run[a] EXCEPT !.step = "recording"] \in Runs
      BY <2>2 DEF Runs, Steps
    <3>4. \A b \in Archivers : Renamed(b, a) \in Runs \cup {Idle}
      <4> SUFFICES ASSUME NEW b \in Archivers PROVE Renamed(b, a) \in Runs \cup {Idle}
        OBVIOUS
      <4>1. run[b] \in Runs => [run[b] EXCEPT !.file = "final"] \in Runs
        BY DEF Runs
      <4>2. run[b] = Idle => Renamed(b, a) = Idle
        BY IdleStep DEF Renamed
      <4>. QED
        BY <4>1, <4>2 DEF Renamed, RunsOK
    <3>5. RunsOK'
      BY <3>1, <3>3, <3>4 DEF RunsOK
    <3>. QED
      BY <2>1, <3>2, <3>5 DEF EventsOK, ManifestOK, BoundsOK
  <2>4. CASE Name(a) \notin DOMAIN temp
    BY <1>12, <2>1, <2>4, EndedType DEF Rename, storage, EventsOK, RunsOK, ManifestOK, FilesOK, BoundsOK
  <2>. QED
    BY <2>3, <2>4
<1>13. ASSUME NEW a \in Archivers, Record(a) PROVE TypeInv'
  <2>1. UNCHANGED <<now, remote, files, temp, faults>> /\ run' = Ended(a)
    BY <1>13 DEF Record, storage
  <2>2. run[a].week \in Nat /\ run[a].rows \in RowSets
    BY <1>13, IdleStep, RunFields DEF Record
  <2>3. ManifestOK'
    <3>1. CASE manifest' = manifest
      BY <3>1 DEF ManifestOK
    <3>2. CASE manifest' = Put(manifest, run[a].week, run[a].rows)
      BY <2>2, <3>2 DEF Put, ManifestOK
    <3>. QED
      BY <1>13, <3>1, <3>2 DEF Record
  <2>4. EventsOK'
    <3>1. CASE UNCHANGED <<event, done>>
      BY <2>1, <3>1 DEF EventsOK
    <3>2. CASE Purge(ArchivedBy(a))
      BY <2>1, <3>2 DEF Purge, EventsOK
    <3>. QED
      BY <1>13, <3>1, <3>2 DEF Record
  <2>. QED
    BY <2>1, <2>3, <2>4, EndedType DEF RunsOK, FilesOK, BoundsOK
<1>14. ASSUME NEW a \in Archivers, Crash(a) PROVE TypeInv'
  BY <1>14, EndedType, Times DEF Crash, store, storage, EventsOK, RunsOK, ManifestOK, FilesOK, BoundsOK
<1>. QED
  BY <1>1, <1>2, <1>3, <1>4, <1>5, <1>6, <1>7, <1>8, <1>9, <1>10, <1>11, <1>12, <1>13, <1>14
     DEF Next, ArchiveOnce

(* --------------------- The dataset of a closed week --------------------- *)

RowsOf(week) == {[id |-> id, at |-> event[id]] : id \in EventsOf(week)}

(* What archives a week: once it has a manifest, that; before, its rows. *)
Dataset(week) == IF week \in DOMAIN manifest THEN manifest[week] ELSE RowsOf(week)

HasRows(r) == r.step \in {"publishing", "opening", "writing", "renaming", "recording"}

(* Observations of the run's rows that are stored came in again after it began. *)
IsYoung(r) == \A row \in r.rows : row.id \in DOMAIN event => r.since <= event[row.id] + CommitDelay

WeeksInv == \A w \in DOMAIN manifest : Closed(w) /\ EventsOf(w) = {}

RunInv(r) ==
  /\ Closed(r.week) /\ r.since <= now /\ now <= r.since + RunTime
  /\ r.step = "reading" => EventsOf(r.week) \subseteq done
  /\ HasRows(r) => /\ r.rows = Dataset(r.week)
                   /\ r.week \in DOMAIN manifest => IsYoung(r)

RunsInv == \A a \in Archivers : run[a] # Idle => RunInv(run[a])

FilesInv == \A f \in DOMAIN files : Closed(f.week) /\ f.rows = Dataset(f.week)

Inv == TypeInv /\ WeeksInv /\ RunsInv /\ FilesInv

(* The rows of a week, by the ids of its events. *)
LEMMA RowsOfFacts ==
  ASSUME NEW w
  PROVE  /\ {row.id : row \in RowsOf(w)} = EventsOf(w)
         /\ EventsOf(w) = {} <=> RowsOf(w) = {}
<1> DEFINE row(id) == [id |-> id, at |-> event[id]]
<1>1. \A id : row(id).id = id
  OBVIOUS
<1>2. RowsOf(w) = {row(id) : id \in EventsOf(w)}
  BY DEF RowsOf
<1> HIDE DEF row
<1>. QED
  BY <1>1, <1>2

(* What a recording transaction takes is what its week has left, or younger   *)
(* than every closed week.                                                    *)
LEMMA RecordSpares ==
  ASSUME Inv, NEW a \in Archivers, Record(a), NEW w \in Nat, Closed(w),
         w # run[a].week \/ w \in DOMAIN manifest,
         NEW id \in EventsOf(w)
  PROVE  id \notin ArchivedBy(a)
<1> DEFINE r == run[a]
           u == run[a].week
<1>1. run[a] # Idle /\ u \in Nat /\ r.since \in Nat
  BY IdleStep, RunFields DEF Record, Inv, TypeInv
<1>2. r.rows = Dataset(u) /\ (u \in DOMAIN manifest => IsYoung(r)) /\ now <= r.since + RunTime
  BY <1>1 DEF Inv, RunsInv, RunInv, HasRows, Record
<1>3. id \in DOMAIN event /\ event[id] \in Nat /\ now \in Nat /\ InRange(w, event[id])
  BY DEF EventsOf, Inv, TypeInv, EventsOK
<1>4. w \notin DOMAIN manifest
  BY DEF Inv, WeeksInv
<1>5. CASE u \in DOMAIN manifest
  <2> SUFFICES ASSUME NEW row \in r.rows, row.id = id PROVE FALSE
    BY DEF ArchivedBy
  <2>1. r.since <= event[id] + CommitDelay
    BY <1>2, <1>3, <1>5 DEF IsYoung
  <2>2. event[id] <= EndOf(w) /\ EndOf(w) \in Nat /\ EndOf(w) + Retention <= now
    BY <1>3, WeekTypes DEF InRange, Closed
  <2>. QED
    BY <1>1, <1>2, <1>3, <2>1, <2>2, Times
<1>6. CASE u \notin DOMAIN manifest
  <2>1. ArchivedBy(a) = EventsOf(u)
    BY <1>2, <1>6, RowsOfFacts DEF Dataset, ArchivedBy
  <2>2. id \in EventsOf(u) => InRange(u, event[id])
    BY DEF EventsOf
  <2>3. u # w
    BY <1>4
  <2>. QED
    BY <1>1, <1>3, <2>1, <2>2, <2>3, OneRange
<1>. QED
  BY <1>5, <1>6

(* A closed week admits nothing. *)
LEMMA AdmitsYoung ==
  ASSUME Inv, NEW at \in 0..now, now <= at + CommitDelay, NEW w \in Nat, Closed(w)
  PROVE  ~InRange(w, at)
<1>1. now \in Nat /\ EndOf(w) \in Nat /\ EndOf(w) + Retention <= now
  BY WeekTypes DEF Inv, TypeInv, EventsOK, Closed
<1>. QED
  BY <1>1, Times DEF InRange

(* Time opens no week again. *)
LEMMA ClosedStays ==
  ASSUME Inv, [Next]_vars, NEW w \in Nat, Closed(w)
  PROVE  Closed(w)'
<1>1. now' = now \/ now' = now + 1
  BY DEF Next, Admit, Complete, Tick, ArchiveOnce, Choose, CheckReady, ReadRows, PutObject,
         LookForFile, OpenTemporary, WriteFile, Rename, Record, Crash, vars
<1>2. EndOf(w) \in Nat /\ now \in Nat
  BY WeekTypes DEF Inv, TypeInv, EventsOK
<1>. QED
  BY <1>1, <1>2, Times DEF Closed, EndOf

(* Nothing but a recording transaction and an admission changes the store. *)
LEMMA StoreSteps ==
  ASSUME [Next]_vars
  PROVE  \/ UNCHANGED <<event, manifest>> /\ done \subseteq done'
         \/ Admit
         \/ \E a \in Archivers : Record(a)
BY DEF Next, Complete, Tick, ArchiveOnce, Choose, CheckReady, ReadRows, PutObject,
       LookForFile, OpenTemporary, WriteFile, Rename, Crash, vars, store

(* The dataset of a closed week is settled: whatever is admitted, recorded or *)
(* purged, a run that starts over makes the same.  Only its own recording     *)
(* takes its events.                                                          *)
LEMMA WeekStays ==
  ASSUME Inv, [Next]_vars, NEW w \in Nat, Closed(w)
  PROVE  /\ Dataset(w)' = Dataset(w)
         /\ w \in DOMAIN manifest => w \in DOMAIN manifest'
         /\ EventsOf(w)' = EventsOf(w) \/ (EventsOf(w)' = {} /\ w \in DOMAIN manifest')
         /\ EventsOf(w) \cap done \subseteq done' \/ EventsOf(w)' = {}
         /\ w \in DOMAIN manifest => EventsOf(w)' = {}
<1>0. w \in DOMAIN manifest => EventsOf(w) = {}
  BY DEF Inv, WeeksInv
<1>1. CASE UNCHANGED <<event, manifest>> /\ done \subseteq done'
  BY <1>0, <1>1 DEF Dataset, RowsOf, EventsOf
<1>2. CASE Admit
  <2>1. PICK id \in Ids \ DOMAIN event, at \in 0..now :
          now <= at + CommitDelay /\ event' = Put(event, id, at)
    BY <1>2 DEF Admit
  <2>2. UNCHANGED <<now, done, manifest>>
    BY <1>2 DEF Admit
  <2>3. ~InRange(w, at)
    BY <2>1, AdmitsYoung
  <2>4. EventsOf(w)' = EventsOf(w) /\ \A x \in EventsOf(w) : event'[x] = event[x]
    BY <2>1, <2>3 DEF EventsOf, Put
  <2>5. RowsOf(w)' = RowsOf(w)
    BY <2>4 DEF RowsOf
  <2>. QED
    BY <1>0, <2>2, <2>4, <2>5 DEF Dataset
<1>3. ASSUME NEW a \in Archivers, Record(a)
      PROVE  /\ Dataset(w)' = Dataset(w)
             /\ w \in DOMAIN manifest => w \in DOMAIN manifest'
             /\ EventsOf(w)' = EventsOf(w) \/ (EventsOf(w)' = {} /\ w \in DOMAIN manifest')
             /\ EventsOf(w) \cap done \subseteq done' \/ EventsOf(w)' = {}
             /\ w \in DOMAIN manifest => EventsOf(w)' = {}
  <2> DEFINE u == run[a].week
             gone == ArchivedBy(a)
  <2>1. run[a] # Idle /\ u \in Nat
    BY <1>3, IdleStep, RunFields DEF Record, Inv, TypeInv
  <2>2. run[a].rows = Dataset(u)
    BY <1>3, <2>1 DEF Inv, RunsInv, RunInv, HasRows, Record
  <2>3. /\ manifest' = IF u \in DOMAIN manifest THEN manifest ELSE Put(manifest, u, run[a].rows)
        /\ manifest'[u] = run[a].rows
    BY <1>3, <2>2 DEF Record, Put, Dataset
  <2>4. event' = [id \in DOMAIN event \ gone |-> event[id]] /\ done' = done \ gone
    BY <1>3, <2>3 DEF Record, Purge
  <2>5. DOMAIN manifest' = DOMAIN manifest \cup {u}
    BY <2>3 DEF Put
  <2>6. CASE w # u \/ w \in DOMAIN manifest
    <3>1. \A id \in EventsOf(w) : id \notin gone
      BY <1>3, <2>6, RecordSpares
    <3>2. EventsOf(w)' = EventsOf(w) /\ \A id \in EventsOf(w) : event'[id] = event[id]
      BY <2>4, <3>1 DEF EventsOf
    <3>3. RowsOf(w)' = RowsOf(w)
      BY <3>2 DEF RowsOf
    <3>4. w \in DOMAIN manifest' <=> w \in DOMAIN manifest
      BY <2>5, <2>6
    <3>5. w \in DOMAIN manifest => manifest'[w] = manifest[w]
      BY <2>3 DEF Put
    <3>. QED
      BY <1>0, <2>4, <3>1, <3>2, <3>3, <3>4, <3>5 DEF Dataset
  <2>7. CASE w = u /\ w \notin DOMAIN manifest
    <3>1. run[a].rows = RowsOf(u) /\ gone = EventsOf(u)
      BY <2>2, <2>7, RowsOfFacts DEF Dataset, ArchivedBy
    <3>2. EventsOf(w)' = {}
      BY <2>4, <2>7, <3>1 DEF EventsOf
    <3>. QED
      BY <2>3, <2>5, <2>7, <3>1, <3>2 DEF Dataset
  <2>. QED
    BY <2>6, <2>7
<1>. QED
  BY <1>1, <1>2, <1>3, StoreSteps

(* What is stored after a step was stored before, or has just come in. *)
LEMMA NewEventsAreYoung ==
  ASSUME Inv, [Next]_vars, NEW id \in DOMAIN event'
  PROVE  \/ id \in DOMAIN event /\ event'[id] = event[id]
         \/ event'[id] \in Nat /\ now <= event'[id] + CommitDelay
<1>1. CASE UNCHANGED event
  BY <1>1
<1>2. CASE Admit
  BY <1>2 DEF Admit, Put
<1>3. ASSUME NEW a \in Archivers, Record(a)
      PROVE  id \in DOMAIN event /\ event'[id] = event[id]
  BY <1>3 DEF Record, Purge
<1>. QED
  BY <1>1, <1>2, <1>3, StoreSteps

(* A run that does not read keeps what is known of its rows, whatever other   *)
(* runs record and whatever is admitted meanwhile.                            *)
LEMMA RunCarries ==
  ASSUME Inv, TypeInv', [Next]_vars, NEW b \in Archivers, run[b] # Idle, run'[b] # Idle,
         run'[b].since = run[b].since, run'[b].week = run[b].week, run'[b].rows = run[b].rows,
         now' <= run[b].since + RunTime, now <= now',
         HasRows(run'[b]) => HasRows(run[b]),
         run'[b].step = "reading" => run[b].step = "reading"
  PROVE  RunInv(run[b])'
<1> DEFINE r == run[b]
<1>0. PICK w \in Nat : w = run[b].week
  BY RunFields DEF Inv, TypeInv
<1>1. /\ w \in Nat /\ r.since \in Nat /\ Closed(w) /\ r.since <= now /\ now \in Nat
      /\ r.step = "reading" => EventsOf(w) \subseteq done
      /\ HasRows(r) => r.rows = Dataset(w) /\ (w \in DOMAIN manifest => IsYoung(r))
  BY <1>0, RunFields DEF Inv, TypeInv, EventsOK, RunsInv, RunInv
<1>2. /\ Closed(w)' /\ Dataset(w)' = Dataset(w)
      /\ w \in DOMAIN manifest => w \in DOMAIN manifest'
  BY <1>1, ClosedStays, WeekStays
<1>3. r.step = "reading" => EventsOf(w)' \subseteq done'
  <2> SUFFICES ASSUME r.step = "reading" PROVE EventsOf(w)' \subseteq done'
    OBVIOUS
  <2>. QED BY <1>1, WeekStays
<1>4. ASSUME HasRows(r), w \in DOMAIN manifest', NEW row \in r.rows, row.id \in DOMAIN event'
      PROVE  r.since <= event'[row.id] + CommitDelay
  <2>1. CASE w \in DOMAIN manifest
    <3>1. row.id \in DOMAIN event => r.since <= event[row.id] + CommitDelay
      BY <1>1, <1>4, <2>1 DEF IsYoung
    <3>. QED
      BY <1>1, <1>4, <3>1, NewEventsAreYoung, Times
  <2>2. CASE w \notin DOMAIN manifest
    <3>1. ~UNCHANGED manifest /\ ~Admit
      BY <1>4, <2>2 DEF Admit
    <3>2. PICK a \in Archivers : Record(a)
      BY <3>1, StoreSteps
    <3>3. run[a] # Idle
      BY <3>2, IdleStep DEF Record
    <3>4. run[a].week = w
      BY <1>4, <2>2, <3>2 DEF Record, Put
    <3>5. run[a].rows = r.rows
      BY <1>0, <1>1, <1>4, <3>2, <3>3, <3>4 DEF Inv, RunsInv, RunInv, HasRows, Record
    <3>6. manifest'[w] = run[a].rows
      BY <2>2, <3>2, <3>4 DEF Record, Put
    <3>7. row.id \notin DOMAIN event'
      BY <3>2, <3>4, <3>5, <3>6 DEF Record, Purge, ArchivedBy
    <3>. QED
      BY <1>4, <3>7
  <2>. QED
    BY <2>1, <2>2
<1>. QED
  <2>1. run'[b].week = w /\ run'[b].rows = r.rows /\ run'[b].since = r.since
    BY <1>0
  <2>2. Closed(run[b].week)' /\ Dataset(run[b].week)' = Dataset(w)
    BY <1>2, <2>1 DEF Closed, Dataset, RowsOf, EventsOf
  <2>3. EventsOf(run[b].week)' = EventsOf(w)'
    BY <2>1 DEF EventsOf
  <2>4. run'[b].step = "reading" => EventsOf(run[b].week)' \subseteq done'
    BY <1>3, <2>3
  <2>5. ASSUME HasRows(run'[b]) PROVE run'[b].rows = Dataset(run[b].week)'
    BY <1>1, <2>1, <2>2, <2>5
  <2>6. ASSUME HasRows(run'[b]), run'[b].week \in DOMAIN manifest' PROVE IsYoung(run[b])'
    BY <1>4, <2>1, <2>6 DEF IsYoung
  <2>7. run'[b].since <= now' /\ now' <= run'[b].since + RunTime
    BY <1>1, <2>1 DEF TypeInv, EventsOK
  <2>. QED
    BY <2>2, <2>4, <2>5, <2>6, <2>7 DEF RunInv, HasRows

(* A recording transaction adds the manifest of its week, and no other. *)
LEMMA WeeksSteps ==
  ASSUME Inv, [Next]_vars, TypeInv'
  PROVE  WeeksInv'
<1> SUFFICES ASSUME NEW w \in DOMAIN manifest' PROVE (Closed(w) /\ EventsOf(w) = {})'
  BY DEF WeeksInv
<1>0. w \in Nat
  BY DEF TypeInv, ManifestOK
<1>1. CASE w \in DOMAIN manifest
  BY <1>0, <1>1, ClosedStays, WeekStays DEF Inv, WeeksInv
<1>2. CASE w \notin DOMAIN manifest
  <2>1. ~UNCHANGED manifest /\ ~Admit
    BY <1>2 DEF Admit
  <2>2. PICK a \in Archivers : Record(a)
    BY <2>1, StoreSteps
  <2>3. run[a] # Idle
    BY <2>2, IdleStep DEF Record
  <2>4. run[a].week = w
    BY <1>2, <2>2 DEF Record, Put
  <2>5. Closed(w) /\ run[a].rows = RowsOf(w)
    BY <1>2, <2>2, <2>3, <2>4 DEF Inv, RunsInv, RunInv, HasRows, Record, Dataset
  <2>6. manifest'[w] = run[a].rows
    BY <1>2, <2>2, <2>4 DEF Record, Put
  <2>7. ArchivedBy(a) = EventsOf(w)
    BY <2>5, RowsOfFacts DEF ArchivedBy
  <2>8. EventsOf(w)' = {}
    BY <2>2, <2>4, <2>6, <2>7 DEF Record, Purge, EventsOf
  <2>. QED
    BY <1>0, <2>5, <2>8, ClosedStays
<1>. QED
  BY <1>1, <1>2

(* A file holds the dataset of its week. *)
LEMMA FilesSteps ==
  ASSUME Inv, [Next]_vars
  PROVE  FilesInv'
<1> SUFFICES ASSUME NEW f \in DOMAIN files' PROVE (Closed(f.week) /\ f.rows = Dataset(f.week))'
  BY DEF FilesInv
<1>1. f \in DOMAIN files \/ \E a \in Archivers : f = Name(a) /\ run[a] # Idle /\ HasRows(run[a])
  <2>1. CASE UNCHANGED files
    BY <2>1
  <2>2. ASSUME NEW a \in Archivers, PutObject(a) \/ WriteFile(a) \/ Rename(a)
        PROVE  f \in DOMAIN files \/ (f = Name(a) /\ run[a] # Idle /\ HasRows(run[a]))
    BY <2>2, IdleStep DEF PutObject, WriteFile, Rename, storage, HasRows, Put
  <2>. QED
    BY <2>1, <2>2 DEF Next, Admit, Complete, Tick, ArchiveOnce, Choose, CheckReady, ReadRows,
         LookForFile, OpenTemporary, Record, Crash, vars, storage
<1>2. f.week \in Nat /\ Closed(f.week) /\ f.rows = Dataset(f.week)
  <2>1. CASE f \in DOMAIN files
    BY <2>1 DEF Inv, TypeInv, FilesOK, Names, FilesInv
  <2>2. ASSUME NEW a \in Archivers, f = Name(a), run[a] # Idle, HasRows(run[a])
        PROVE  f.week \in Nat /\ Closed(f.week) /\ f.rows = Dataset(f.week)
    <3>1. Closed(run[a].week) /\ run[a].rows = Dataset(run[a].week)
      BY <2>2 DEF Inv, RunsInv, RunInv
    <3>. QED
      BY <2>2, <3>1, RunFields DEF Inv, TypeInv
  <2>. QED
    BY <1>1, <2>1, <2>2
<1>. QED
  BY <1>2, ClosedStays, WeekStays

(* A run that starts or goes on keeps to its week; one that reads finds in a  *)
(* ready week all there is.                                                   *)
LEMMA RunsSteps ==
  ASSUME Inv, [Next]_vars, TypeInv'
  PROVE  RunsInv'
<1> SUFFICES ASSUME NEW b \in Archivers, run'[b] # Idle PROVE RunInv(run[b])'
  BY DEF RunsInv
<1> DEFINE r == run[b]
<1>b. run[b] # Idle => /\ r \in Runs /\ r.week \in Nat /\ r.since \in Nat /\ RunInv(r)
                       /\ now <= r.since + RunTime
  BY RunFields DEF Inv, TypeInv, RunsInv, RunInv
<1>t. now \in Nat /\ run \in [Archivers -> Runs \cup {Idle}]
  BY DEF Inv, TypeInv, EventsOK, RunsOK
<1>1. ASSUME UNCHANGED run, now' = now
      PROVE  RunInv(run[b])'
  BY <1>1, <1>b, <1>t, RunCarries
<1>2. CASE Tick
  <2>1. UNCHANGED run /\ now' = now + 1 /\ (run[b] # Idle => now < run[b].since + RunTime)
    BY <1>2 DEF Tick
  <2>. QED
    BY <2>1, <1>b, <1>t, Times, RunCarries
<1>3. ASSUME NEW a \in Archivers, ArchiveOnce(a) \/ Crash(a), a # b, ~Rename(a)
      PROVE  RunInv(run[b])'
  <2>1. run'[b] = run[b] /\ now' = now
    BY <1>3, <1>t DEF ArchiveOnce, Choose, CheckReady, ReadRows, PutObject, LookForFile,
                 OpenTemporary, WriteFile, Record, Crash, Moved, Ended
  <2>. QED
    BY <2>1, <1>b, <1>t, RunCarries
<1>4. ASSUME NEW a \in Archivers, Rename(a)
      PROVE  RunInv(run[b])'
  <2>1. now' = now /\ run[a] # Idle
    BY <1>4, IdleStep DEF Rename
  <2>2. CASE Name(a) \in DOMAIN temp
    <3>1. run' = [x \in Archivers |-> IF x = a THEN [run[a] EXCEPT !.step = "recording"] ELSE Renamed(x, a)]
      BY <1>4, <2>2 DEF Rename
    <3>2. CASE b = a
      <4>1. run'[b] = [run[b] EXCEPT !.step = "recording"] /\ r \in Runs /\ r.step = "renaming"
        BY <1>4, <2>1, <3>1, <3>2, <1>b DEF Rename
      <4>2. /\ run'[b].since = r.since /\ run'[b].week = r.week /\ run'[b].rows = r.rows
            /\ run'[b].step = "recording"
        BY <4>1 DEF Runs
      <4>3. HasRows(r) /\ run[b] # Idle /\ run'[b].step # "reading"
        BY <2>1, <3>2, <4>1, <4>2 DEF HasRows
      <4>4. now' <= r.since + RunTime /\ now <= now'
        BY <2>1, <1>b, <1>t, <4>3
      <4>. QED
        BY <4>2, <4>3, <4>4, RunCarries
    <3>3. CASE b # a
      <4>1. run'[b] = Renamed(b, a) /\ run[b] # Idle
        BY <3>1, <3>3, IdleStep DEF Renamed
      <4>2. /\ run'[b].since = r.since /\ run'[b].week = r.week /\ run'[b].rows = r.rows
            /\ run'[b].step = r.step
        BY <4>1, <1>b DEF Renamed, Runs
      <4>. QED
        BY <2>1, <4>1, <4>2, <1>b, <1>t, RunCarries DEF HasRows
    <3>. QED
      BY <3>2, <3>3
  <2>3. CASE Name(a) \notin DOMAIN temp
    <3>1. run' = Ended(a)
      BY <1>4, <2>3 DEF Rename
    <3>2. b # a /\ run'[b] = run[b]
      BY <3>1, EndedType DEF Inv, TypeInv
    <3>. QED
      BY <2>1, <3>2, <1>b, <1>t, RunCarries
  <2>. QED
    BY <2>2, <2>3
<1>5. CASE Choose(b)
  <2>1. UNCHANGED <<now, event, done, manifest>>
    BY <1>5 DEF Choose, store
  <2>2. CASE UNCHANGED run
    BY <2>1, <2>2, <1>1
  <2>3. ASSUME NEW week \in NextWeek, Closed(week),
          run' = [run EXCEPT ![b] = [step |-> "checking", since |-> now, week |-> week, rows |-> {}, file |-> "none"]]
        PROVE  RunInv(run[b])'
    <3>1. run'[b] = [step |-> "checking", since |-> now, week |-> week, rows |-> {}, file |-> "none"]
      BY <2>3, <1>t
    <3>2. run'[b].step = "checking" /\ run'[b].since = now /\ run'[b].week = week
      BY <3>1
    <3>3. Closed(run[b].week)'
      BY <2>1, <2>3, <3>2 DEF Closed
    <3>. QED
      BY <2>1, <3>2, <3>3, <1>t, Times DEF RunInv, HasRows
  <2>. QED
    BY <1>5, <2>2, <2>3 DEF Choose
<1>6. CASE CheckReady(b)
  <2>1. UNCHANGED <<now, event, done, manifest>> /\ run[b] # Idle
    BY <1>6, IdleStep DEF CheckReady, store
  <2>2. Ready(r.week) /\ run' = Moved(b, "reading")
    BY <1>6, EndedType DEF CheckReady, Inv, TypeInv
  <2>3. run'[b].step = "reading" /\ run'[b].since = r.since /\ run'[b].week = r.week
    BY <2>1, <2>2, MovedType DEF Inv, TypeInv, Steps
  <2>4. EventsOf(run[b].week)' \subseteq done' /\ Closed(run[b].week)'
    BY <2>1, <2>2, <2>3, <1>b DEF Ready, EventsOf, RunInv, Closed
  <2>. QED
    BY <2>1, <2>3, <2>4, <1>b DEF RunInv, HasRows
<1>7. CASE ReadRows(b)
  <2> DEFINE rows == {[id |-> id, at |-> event[id]] : id \in EventsOf(r.week) \cap done}
  <2>1. UNCHANGED <<now, event, done, manifest>> /\ run[b] # Idle /\ r.step = "reading"
    BY <1>7, IdleStep DEF ReadRows, store
  <2>2. rows # {} /\ run' = [run EXCEPT ![b].step = "publishing", ![b].rows = rows]
    BY <1>7, EndedType DEF ReadRows, Inv, TypeInv
  <2>3. rows = RowsOf(r.week)
    BY <2>1, <1>b DEF RunInv, RowsOf
  <2> HIDE DEF rows
  <2>4. run'[b].week = r.week /\ run'[b].since = r.since /\ run'[b].rows = rows
    BY <2>1, <2>2, <1>b, <1>t DEF Runs
  <2>5. run'[b].step = "publishing"
    BY <2>1, <2>2, <1>b, <1>t DEF Runs
  <2>6. r.week \notin DOMAIN manifest
    BY <2>2, <2>3, RowsOfFacts DEF Inv, WeeksInv
  <2>7. /\ Closed(run[b].week)' /\ Dataset(run[b].week)' = rows
        /\ run'[b].week \notin DOMAIN manifest'
    BY <2>1, <2>3, <2>4, <2>6, <1>b DEF RunInv, Closed, Dataset, RowsOf, EventsOf
  <2>. QED
    BY <2>1, <2>4, <2>5, <2>7, <1>b DEF RunInv
<1>8. CASE PutObject(b) \/ LookForFile(b) \/ WriteFile(b)
  <2>1. now' = now /\ run[b] # Idle /\ HasRows(r)
    BY <1>8, IdleStep DEF PutObject, LookForFile, WriteFile, HasRows
  <2>2. PICK step \in {"recording", "opening", "renaming"} : run' = Moved(b, step)
    BY <1>8 DEF PutObject, LookForFile, WriteFile
  <2>3. run'[b].since = r.since /\ run'[b].week = r.week /\ run'[b].rows = r.rows /\ run'[b].step = step
    BY <2>1, <2>2, <1>b, <1>t DEF Moved, Runs
  <2>4. run'[b] # Idle /\ run'[b].step # "reading" /\ now' <= r.since + RunTime /\ now <= now'
    BY <2>1, <2>3, <1>b, <1>t
  <2>. QED
    BY <2>1, <2>3, <2>4, RunCarries
<1>9. CASE OpenTemporary(b)
  <2>1. now' = now /\ run[b] # Idle /\ HasRows(r)
    BY <1>9, IdleStep DEF OpenTemporary, HasRows
  <2>2. run' = [run EXCEPT ![b].step = "writing", ![b].file = "temp"]
    BY <1>9 DEF OpenTemporary
  <2>3. run'[b].since = r.since /\ run'[b].week = r.week /\ run'[b].rows = r.rows /\ run'[b].step = "writing"
    BY <2>1, <2>2, <1>b, <1>t DEF Runs
  <2>. QED
    BY <2>1, <2>3, <1>b, <1>t, RunCarries
<1>10. CASE Record(b) \/ Crash(b)
  BY <1>10, EndedType DEF Record, Crash, Inv, TypeInv
<1>11. CASE Admit \/ Complete \/ UNCHANGED vars
  BY <1>11, <1>1 DEF Admit, Complete, vars
<1>. QED
  BY <1>2, <1>3, <1>4, <1>5, <1>6, <1>7, <1>8, <1>9, <1>10, <1>11 DEF Next, ArchiveOnce

(* The invariant holds. *)
LEMMA Invariance == Spec => []Inv
<1>1. Init => Inv
  BY Times DEF Init, Inv, TypeInv, EventsOK, RunsOK, ManifestOK, FilesOK, BoundsOK, WeeksInv, RunsInv, FilesInv
<1>2. Inv /\ [Next]_vars => Inv'
  BY TypeSteps, WeeksSteps, RunsSteps, FilesSteps DEF Inv
<1>. QED
  BY <1>1, <1>2, PTL DEF Spec

(* TypeOK: every state has the types of the module.                           *)
THEOREM TypesHold == Spec => []TypeOK
<1>1. Inv => TypeOK
  <2> SUFFICES ASSUME Inv PROVE TypeOK
    OBVIOUS
  <2>1. \A w \in Nat : Closed(w) => w \in 0..MaxTime
    BY WeekTypes, Times DEF Closed, Inv, TypeInv, BoundsOK, EventsOK
  <2>2. \A a \in Archivers : IsRun(run[a])
    <3> SUFFICES ASSUME NEW a \in Archivers PROVE IsRun(run[a])
      OBVIOUS
    <3>1. CASE run[a] = Idle
      BY <3>1, IdleStep DEF IsRun, Steps
    <3>2. CASE run[a] # Idle
      <4>1. Closed(run[a].week) /\ run[a].since <= now /\ now \in Nat
        BY <3>2 DEF Inv, RunsInv, RunInv, TypeInv, EventsOK
      <4>2. run[a].since \in 0..now /\ run[a].week \in 0..MaxTime
        BY <2>1, <3>2, <4>1, RunFields DEF Inv, TypeInv
      <4>. QED
        BY <3>2, <4>2, RunFields DEF Inv, TypeInv, IsRun
    <3>. QED
      BY <3>1, <3>2
  <2>3. DOMAIN manifest \subseteq 0..MaxTime
    BY <2>1 DEF Inv, TypeInv, ManifestOK, WeeksInv
  <2>4. now \in 0..MaxTime /\ \A id \in DOMAIN event : event[id] \in 0..now
    BY Times DEF Inv, TypeInv, EventsOK, BoundsOK
  <2>. QED
    BY <2>2, <2>3, <2>4 DEF TypeOK, Inv, TypeInv, EventsOK, ManifestOK, FilesOK, BoundsOK
<1>. QED
  BY <1>1, Invariance, PTL

(* WeeksAreWhole: a week that has its file has no observation left and gets   *)
(* none, and no run has other rows for it.                                    *)
THEOREM WeeksStayWhole == Spec => []WeeksAreWhole
<1>1. Inv => WeeksAreWhole
  <2> SUFFICES ASSUME Inv PROVE WeeksAreWhole
    OBVIOUS
  <2>1. ASSUME NEW a \in Archivers, run[a].step = "recording", run[a].week \in DOMAIN manifest
        PROVE  run[a].rows = manifest[run[a].week]
    BY <2>1, IdleStep DEF Inv, RunsInv, RunInv, HasRows, Dataset
  <2>. QED
    BY <2>1 DEF WeeksAreWhole, Inv, WeeksInv
<1>. QED
  BY <1>1, Invariance, PTL

(* OneDataset: whatever runs die or overlap, a week has one file.             *)
THEOREM WeeksHaveOneDataset == Spec => []OneDataset
<1>1. Inv => OneDataset
  BY DEF Inv, TypeInv, FilesOK, FilesInv, Names, OneDataset
<1>. QED
  BY <1>1, Invariance, PTL

(* ------------------------ Files that are published ---------------------- *)

(* One archiver at most works in the directory. *)
OneDirectoryArchiver == \A a, b \in DirectoryArchivers : a = b

RunFiles(a) ==
  /\ remote \/ a \in DirectoryArchivers
  /\ run[a].step \in {"opening", "writing", "renaming"} => ~remote
  /\ run[a].step = "writing" => run[a].file = "temp" /\ Name(a) \in DOMAIN temp
  /\ run[a].step = "renaming" => Name(a) \in DOMAIN temp /\ temp[Name(a)] = "whole"
  /\ run[a].step = "recording" => Name(a) \in DOMAIN files

WholeInv ==
  /\ \A f \in DOMAIN files : files[f] = "whole"
  /\ \A w \in DOMAIN manifest : [week |-> w, rows |-> manifest[w]] \in DOMAIN files
  /\ \A a \in Archivers : run[a] # Idle => RunFiles(a)

(* No step takes a file away, and one who works in the directory works alone. *)
LEMMA WholeSteps ==
  ASSUME OneDirectoryArchiver, TypeInv, WholeInv, [Next]_vars
  PROVE  WholeInv'
<1> USE DEF TypeInv
<1>r. \A a \in Archivers : run[a].step # "idle" => run[a] # Idle /\ run[a] \in Runs
  BY RunFields, IdleStep
<1>a. ASSUME ~remote, NEW a \in Archivers, NEW b \in Archivers, run[a] # Idle, run[b] # Idle
      PROVE  a = b
  BY <1>a DEF WholeInv, RunFiles, OneDirectoryArchiver
<1>1. CASE UNCHANGED <<storage, manifest, remote, run>>
  BY <1>1 DEF storage, WholeInv, RunFiles, Name
<1>2. ASSUME NEW a \in Archivers, Choose(a) \/ CheckReady(a) \/ ReadRows(a) \/ LookForFile(a)
      PROVE  WholeInv'
  <2>1. UNCHANGED <<files, temp, manifest, remote>> /\ \A b \in Archivers : b # a => run'[b] = run[b]
    BY <1>2, MovedType, EndedType DEF Choose, CheckReady, ReadRows, LookForFile, store, storage, Moved, RunsOK
  <2>2. ASSUME run'[a] # Idle PROVE RunFiles(a)'
    <3>1. CASE Choose(a)
      <4>1. CASE UNCHANGED run
        BY <2>1, <2>2, <4>1 DEF WholeInv, RunFiles, Name
      <4>2. CASE ~UNCHANGED run
        <5>1. run'[a].step = "checking"
          BY <3>1, <4>2 DEF Choose, RunsOK
        <5>. QED
          BY <2>1, <3>1, <5>1 DEF Choose, RunFiles
      <4>. QED
        BY <4>1, <4>2
    <3>2. CASE CheckReady(a) \/ ReadRows(a)
      <4>1. run[a] # Idle /\ run[a] \in Runs /\ run' # Ended(a)
        BY <3>2, <2>2, <1>r, EndedType DEF CheckReady, ReadRows
      <4>2. run'[a].step \in {"reading", "publishing"}
        BY <3>2, <4>1 DEF CheckReady, ReadRows, Moved, RunsOK, Runs
      <4>. QED
        BY <2>1, <4>1, <4>2 DEF WholeInv, RunFiles
    <3>3. CASE LookForFile(a)
      <4>1. run[a] # Idle /\ Name(a)' = Name(a)
            /\ run'[a].step = IF Name(a) \in DOMAIN files THEN "recording" ELSE "opening"
        BY <3>3, <1>r DEF LookForFile, Moved, RunsOK, Runs, Name
      <4>. QED
        BY <2>1, <3>3, <4>1 DEF LookForFile, WholeInv, RunFiles
    <3>. QED
      BY <1>2, <3>1, <3>2, <3>3
  <2>. QED
    BY <2>1, <2>2 DEF WholeInv, RunFiles, Name
<1>3. ASSUME NEW a \in Archivers, PutObject(a) PROVE WholeInv'
  <2>1. /\ run[a] # Idle /\ remote /\ UNCHANGED <<temp, manifest, remote>>
        /\ files' = Put(files, Name(a), "whole") /\ run' = Moved(a, "recording")
    BY <1>3, IdleStep DEF PutObject, store
  <2>2. run'[a].step = "recording" /\ Name(a)' = Name(a) /\ \A b \in Archivers : b # a => run'[b] = run[b]
    <3>1. /\ run'[a].step = "recording" /\ run'[a].week = run[a].week /\ run'[a].rows = run[a].rows
          /\ \A b \in Archivers : b # a => run'[b] = run[b]
      BY <1>3, <1>r, <2>1 DEF PutObject, Moved, RunsOK, Runs
    <3>. QED
      BY <3>1 DEF Name
  <2>3. RunFiles(a)'
    BY <2>1, <2>2 DEF RunFiles, Put
  <2>4. ASSUME NEW b \in Archivers, b # a, run'[b] # Idle PROVE RunFiles(b)'
    BY <2>1, <2>2, <2>4 DEF WholeInv, RunFiles, Name, Put
  <2>. QED
    BY <2>1, <2>3, <2>4 DEF WholeInv, Put
<1>4. ASSUME NEW a \in Archivers, OpenTemporary(a) \/ WriteFile(a) \/ Rename(a) PROVE WholeInv'
  <2>1. run[a] # Idle /\ run[a] \in Runs /\ ~remote /\ a \in DirectoryArchivers
        /\ UNCHANGED <<manifest, remote>>
    BY <1>4, <1>r DEF OpenTemporary, WriteFile, Rename, WholeInv, RunFiles, store
  <2>2. \A b \in Archivers : b # a => run[b] = Idle
    BY <1>a, <2>1
  <2>3. CASE OpenTemporary(a)
    <3>1. run' = [run EXCEPT ![a].step = "writing", ![a].file = "temp"]
      BY <2>3 DEF OpenTemporary
    <3>2. /\ run'[a].step = "writing" /\ run'[a].file = "temp" /\ Name(a)' = Name(a)
          /\ \A b \in Archivers : b # a => run'[b] = Idle
      BY <2>1, <2>2, <3>1 DEF Runs, RunsOK, Name
    <3>3. files' = files /\ temp' = Put(temp, Name(a), "partial")
      BY <2>3 DEF OpenTemporary
    <3>4. RunFiles(a)'
      BY <2>1, <3>2, <3>3 DEF RunFiles, Put
    <3>. QED
      BY <2>1, <3>2, <3>3, <3>4 DEF WholeInv
  <2>4. CASE WriteFile(a)
    <3>1. /\ run'[a].step = "renaming" /\ Name(a)' = Name(a)
          /\ \A b \in Archivers : b # a => run'[b] = Idle
      <4>1. run' = Moved(a, "renaming")
        BY <2>4 DEF WriteFile
      <4>2. /\ run'[a].step = "renaming" /\ run'[a].week = run[a].week /\ run'[a].rows = run[a].rows
            /\ \A b \in Archivers : b # a => run'[b] = run[b]
        BY <2>1, <4>1 DEF Moved, RunsOK, Runs
      <4>. QED
        BY <2>2, <4>2 DEF Name
    <3>2. run[a].file = "temp"
      BY <2>1, <2>4 DEF WriteFile, WholeInv, RunFiles
    <3>. QED
      BY <2>1, <2>4, <3>1, <3>2 DEF WriteFile, WholeInv, RunFiles, Put
  <2>5. CASE Rename(a)
    <3>1. Name(a) \in DOMAIN temp /\ temp[Name(a)] = "whole"
      BY <2>1, <2>5 DEF Rename, WholeInv, RunFiles
    <3>2. /\ files' = Put(files, Name(a), "whole")
          /\ run' = [b \in Archivers |-> IF b = a THEN [run[a] EXCEPT !.step = "recording"] ELSE Renamed(b, a)]
      BY <2>5, <3>1 DEF Rename
    <3>3. /\ run'[a].step = "recording" /\ Name(a)' = Name(a)
          /\ \A b \in Archivers : b # a => run'[b] = Idle
      BY <2>1, <2>2, <3>2, IdleStep DEF Runs, Name, Renamed
    <3>4. RunFiles(a)'
      BY <2>1, <3>2, <3>3 DEF RunFiles, Put
    <3>. QED
      BY <2>1, <3>2, <3>3, <3>4 DEF WholeInv, Put
  <2>. QED
    BY <1>4, <2>3, <2>4, <2>5
<1>5. ASSUME NEW a \in Archivers, Record(a) PROVE WholeInv'
  <2>1. run[a] # Idle /\ UNCHANGED <<files, temp, remote>> /\ run' = Ended(a)
    BY <1>5, IdleStep DEF Record, storage
  <2>2. Name(a) \in DOMAIN files
    BY <1>5, <2>1 DEF Record, WholeInv, RunFiles
  <2>3. \A w \in DOMAIN manifest' : [week |-> w, rows |-> manifest'[w]] \in DOMAIN files
    BY <1>5, <2>2 DEF Record, WholeInv, Put, Name
  <2>. QED
    BY <2>1, <2>3, EndedType DEF WholeInv, RunFiles, Name
<1>6. ASSUME NEW a \in Archivers, Crash(a) PROVE WholeInv'
  BY <1>6, EndedType DEF Crash, store, storage, WholeInv, RunFiles, Name
<1>. QED
  BY <1>1, <1>2, <1>3, <1>4, <1>5, <1>6
     DEF Next, ArchiveOnce, Admit, Complete, Tick, vars, store, storage

(* PublishedIsWhole: the file of a manifest is there to the last byte, in a   *)
(* bucket always, and in a directory while one archiver at most works in it.  *)
(* Two of them can spoil it: the run ArchiveSharedDirectory shows how.        *)
THEOREM ManifestsNameWholeFiles ==
  ASSUME OneDirectoryArchiver PROVE Spec => []PublishedIsWhole
<1>1. Init => TypeInv /\ WholeInv
  BY Times DEF Init, TypeInv, EventsOK, RunsOK, ManifestOK, FilesOK, BoundsOK, WholeInv
<1>2. TypeInv /\ WholeInv /\ [Next]_vars => (TypeInv /\ WholeInv)'
  BY TypeSteps, WholeSteps
<1>3. WholeInv => PublishedIsWhole
  BY DEF WholeInv, PublishedIsWhole
<1>. QED
  BY <1>1, <1>2, <1>3, PTL DEF Spec

(* ------------------------------ The purge ------------------------------- *)

(* The purge of a recording transaction takes only what its manifest has. *)
LEMMA RecordKeeps ==
  ASSUME NEW a \in Archivers, Record(a), NEW id \in DOMAIN event, id \notin DOMAIN event'
  PROVE  \E w \in DOMAIN manifest' : \E row \in manifest'[w] : row.id = id
<1> DEFINE w == run[a].week
<1>1. w \in DOMAIN manifest'
  BY DEF Record, Put
<1>2. manifest'[w] = run[a].rows /\ id \in ArchivedBy(a)
  BY DEF Record, Purge
<1>3. PICK row \in run[a].rows : row.id = id
  BY <1>2 DEF ArchivedBy
<1>. QED
  BY <1>1, <1>2, <1>3

(* NothingIsLost: whatever runs overlap or die, an observation leaves the     *)
(* store only in the transaction of a manifest that has it.                   *)
THEOREM ArchivedBeforePurged == Spec => NothingIsLost
<1> DEFINE Kept ==
  \A id \in DOMAIN event :
    \/ id \in DOMAIN event'
    \/ \E w \in DOMAIN manifest' : \E row \in manifest'[w] : row.id = id
<1>1. [Next]_vars => [Kept]_vars
  <2> SUFFICES ASSUME Next PROVE Kept
    OBVIOUS
  <2>1. CASE Admit
    BY <2>1 DEF Admit, Put
  <2>2. CASE UNCHANGED event
    BY <2>2
  <2>3. ASSUME NEW a \in Archivers, Record(a) PROVE Kept
    BY <2>3, RecordKeeps
  <2>4. Complete \/ Tick => UNCHANGED event
    BY DEF Complete, Tick, store
  <2>5. ASSUME NEW a \in Archivers, Crash(a) PROVE UNCHANGED event
    BY <2>5 DEF Crash, store
  <2>6. ASSUME NEW a \in Archivers, ArchiveOnce(a), ~Record(a) PROVE UNCHANGED event
    BY <2>6 DEF ArchiveOnce, Choose, CheckReady, ReadRows, PutObject, LookForFile,
                OpenTemporary, WriteFile, Rename, store
  <2>. QED
    BY <2>1, <2>2, <2>3, <2>4, <2>5, <2>6 DEF Next
<1>. QED
  BY <1>1, PTL DEF Spec, NothingIsLost
=============================================================================
