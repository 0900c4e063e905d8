----------------------------- MODULE EventStore -----------------------------
(***************************************************************************)
(* The durable event store of one task: src/everbench/event_store.py, the  *)
(* transactions collectors.py and archive.py run over it, and the tables   *)
(* of schema.py they touch.                                                *)
(*                                                                         *)
(* Every transaction holds SQLite's single writer lock from its first      *)
(* statement (lock_task_ingest), so each is one action.  A function of the *)
(* source that a transaction calls is an operator from store to store, and *)
(* an action composes the operators in the order of the calls.             *)
(*                                                                         *)
(* A table is a function whose domain is the set of keys of its rows.  A   *)
(* label schedule row holds nothing that the observation does not          *)
(* determine, so that table is the set of its keys.                        *)
(***************************************************************************)
EXTENDS Naturals, FiniteSets

CONSTANTS
  Ids,          \* event ids of the task's sources
  Source,       \* the observation behind each id: its ts, entity and value
  LabelInputs,  \* resolutions the sources may report: id, y and available
  Entities,     \* stations and the like, of which later observations report again
  Values,       \* known targets
  Unavailable,  \* the explicit "no target" outcome (y is None)
  NoEntity,     \* an observation without an entity_key
  Delay, Tolerance, Grace, Default,   \* the policy's fields
  Retention,    \* label_inbox_retention_days, in ticks
  BatchSize,    \* ingest_batch_size
  Orders        \* orders in which a SELECT may return the rows of a table

CONSTANTS
  MaxTime,      \* bound on the clock
  MaxBatch,     \* bound on the records of one flush
  MaxRecords    \* bound on the records the sources deliver

Targets == Values \cup {Unavailable}

(* LabelPolicy.__post_init__ asks for a positive delay; orders number the ids. *)
ASSUME StoreAssumption ==
  /\ IsFiniteSet(Ids)
  /\ Source \in [Ids -> [ts : Nat, entity : Entities \cup {NoEntity}, value : Targets]]
  /\ LabelInputs \subseteq [id : Ids, y : Targets, available : Nat]
  /\ Delay \in Nat \ {0} /\ Tolerance \in Nat /\ Grace \in Nat
  /\ Default \in Targets
  /\ Retention \in Nat /\ BatchSize \in Nat \ {0}
  /\ MaxTime \in Nat /\ MaxBatch \in Nat /\ MaxRecords \in Nat
  /\ \A order \in Orders :
       /\ order \in [Ids -> Nat]
       /\ \A id, other \in Ids : order[id] = order[other] => id = other

VARIABLES
  policy,  \* whether the task has a LabelPolicy; it never changes
  now,     \* the clock the database and the worker share
  db       \* the committed tables and sequences

vars == <<policy, now, db>>

Reasons == {"source", "forecast-snapshot", "target-unavailable", "deadline-default"}
LabelRows == [y : Targets, reason : Reasons, available : Nat, inserted : Nat]
EventRows == [sequence : Nat, inserted : Nat]

(* f is a table of such rows, keyed by event id. *)
IsTable(f, rows) == DOMAIN f \subseteq Ids /\ f \in [DOMAIN f -> rows]

IsStore(store) ==
  /\ store = [event |-> store.event, label |-> store.label, ready |-> store.ready,
              schedule |-> store.schedule, eventSequence |-> store.eventSequence,
              readySequence |-> store.readySequence]
  /\ IsTable(store.event, EventRows) /\ IsTable(store.label, LabelRows)
  /\ IsTable(store.ready, Nat) /\ store.schedule \subseteq Ids
  /\ store.eventSequence \in Nat /\ store.readySequence \in Nat

(* Rows of a table without those of the given keys (DELETE ... WHERE id IN keys). *)
Without(table, keys) == [id \in DOMAIN table \ keys |-> table[id]]

(* Mutant: ON CONFLICT DO UPDATE. *)
InsertOrReplace(table, rows) ==
  [id \in DOMAIN table \cup DOMAIN rows |->
     IF id \in DOMAIN rows THEN rows[id] ELSE table[id]]

(* INSERT ... ON CONFLICT DO NOTHING. *)
InsertNew(table, rows) ==
  [id \in DOMAIN table \cup DOMAIN rows |->
     IF id \in DOMAIN table THEN table[id] ELSE rows[id]]

(* Mutant: every row gets the end of the range that was drawn. *)
EndOfRange(keys, low, order) == [id \in keys |-> low + Cardinality(keys)]

(* The numbers of keys from low on, as zip(rows, allocate_sequence(...)) gives *)
(* them to the rows in the order a SELECT returned them.                       *)
Numbering(keys, low, order) ==
  [id \in keys |-> low + Cardinality({other \in keys : order[other] <= order[id]})]

TargetAt(id) == Source[id].ts + Delay
Horizon(id) == Source[id].ts + Delay + Tolerance
DueAt(id) == Source[id].ts + Delay + Tolerance + Grace

(* Mutant: the horizon is the deadline. *)
LateByGrace(id, row) == row.available > DueAt(id)

(* The horizon test on an explicit label, which add_labels and add_events make. *)
Late(id, row) == row.available > Horizon(id)

-----------------------------------------------------------------------------
(* Mutant: the deadline of a resolved observation stays scheduled. *)
EnqueueStillDue(store, matched, order) ==
  [store EXCEPT
     !.ready = InsertNew(@, Numbering(matched, store.readySequence, order)),
     !.readySequence = @ + Cardinality(matched)]

(* The writes of _mark_ready_labels.  The sequence advances for rows that turn *)
(* out to be queued already too.                                               *)
Enqueue(store, matched, order) ==
  [store EXCEPT
     !.schedule = @ \ matched,
     !.ready = InsertNew(@, Numbering(matched, store.readySequence, order)),
     !.readySequence = @ + Cardinality(matched)]

(* _mark_ready_labels: queue the resolutions whose observation exists. *)
MarkReady(store, keys, order) ==
  Enqueue(store, keys \cap DOMAIN store.event \cap DOMAIN store.label, order)

(* add_labels.  rows holds, for each id of the batch, the first resolution  *)
(* that passes the horizon test; later ones have no effect.                 *)
AddLabels(store, rows, enforce, order) ==
  LET late == {id \in DOMAIN rows \cap DOMAIN store.event : Late(id, rows[id])}
      kept == IF enforce THEN DOMAIN rows \ late ELSE DOMAIN rows
      inserted == kept \ DOMAIN store.label
  IN  MarkReady([store EXCEPT !.label = InsertNew(@, [id \in kept |-> rows[id]])], inserted, order)

SnapshotResolves(snapshot, id) ==
  /\ Source[snapshot].entity = Source[id].entity
  /\ Source[snapshot].entity # NoEntity
  /\ TargetAt(id) <= Source[snapshot].ts
  /\ Source[snapshot].ts <= TargetAt(id) + Tolerance

(* The accepted snapshots that could supply the target of id, and the first of *)
(* them: the oldest, or of equally old ones the first in the batch.            *)
Supplies(accepted, id) == {snapshot \in accepted : SnapshotResolves(snapshot, id)}

Precedes(s, t, position) ==
  \/ Source[s].ts < Source[t].ts
  \/ Source[s].ts = Source[t].ts /\ position[s] <= position[t]

FirstSupply(accepted, id, position) ==
  CHOOSE s \in Supplies(accepted, id) : \A t \in Supplies(accepted, id) : Precedes(s, t, position)

(* match_forecasts: the first accepted snapshot in the window of a pending *)
(* forecast of the same entity supplies its target.  No horizon test.      *)
MatchForecasts(store, accepted, position, order) ==
  LET rows == [id \in {id \in store.schedule : Supplies(accepted, id) # {}} |->
                 [y |-> Source[FirstSupply(accepted, id, position)].value,
                  reason |-> "forecast-snapshot", available |-> now, inserted |-> now]]
  IN  AddLabels(store, rows, FALSE, order)

(* Mutant: a batch draws one number less than it has records. *)
StoreEventsShort(store, position, count) ==
  [store EXCEPT
     !.event = InsertNew(@, [id \in DOMAIN position |->
                 [sequence |-> store.eventSequence + position[id], inserted |-> now]]),
     !.eventSequence = IF count = 0 THEN @ ELSE @ + count - 1]

(* The insert of add_events.  position gives the first place of each id in a *)
(* batch of count records; every record draws a number, repeats included.    *)
StoreEvents(store, position, count) ==
  [store EXCEPT
     !.event = InsertNew(@, [id \in DOMAIN position |->
                 [sequence |-> store.eventSequence + position[id], inserted |-> now]]),
     !.eventSequence = @ + count]

(* The policy's part: inbox labels past the horizon go, deadlines are set. *)
Schedule(store, accepted) ==
  [store EXCEPT
     !.label = Without(@, {id \in accepted \cap DOMAIN @ : Late(id, @[id])}),
     !.schedule = @ \cup accepted]

(* Mutant: earlier forecasts are matched before the batch's own are scheduled. *)
AddEventsMatchFirst(store, position, count, order) ==
  LET accepted == DOMAIN position \ DOMAIN store.event
      stored == StoreEvents(store, position, count)
  IN  MarkReady(IF policy /\ accepted # {}
                THEN Schedule(MatchForecasts(stored, accepted, position, order), accepted)
                ELSE stored,
                accepted, order)

(* add_events *)
AddEvents(store, position, count, order) ==
  LET accepted == DOMAIN position \ DOMAIN store.event
      stored == StoreEvents(store, position, count)
  IN  MarkReady(IF policy /\ accepted # {}
                THEN MatchForecasts(Schedule(stored, accepted), accepted, position, order)
                ELSE stored,
                accepted, order)

DefaultRow ==
  [y |-> Default, available |-> now, inserted |-> now,
   reason |-> IF Default = Unavailable THEN "target-unavailable" ELSE "deadline-default"]

(* resolve_due for the deadlines its LIMIT query picked. *)
ResolveDue(store, due, order) == AddLabels(store, [id \in due |-> DefaultRow], FALSE, order)

(* Mutant: retention counts from the time the source gave. *)
PurgeBySourceTime(store) ==
  [store EXCEPT !.label =
     Without(@, {id \in DOMAIN @ \ DOMAIN store.event : @[id].available + Retention < now})]

(* purge_orphan_labels, with its cutoff "Retention ago". *)
PurgeOrphanLabels(store) ==
  [store EXCEPT !.label =
     Without(@, {id \in DOMAIN @ \ DOMAIN store.event : @[id].inserted + Retention < now})]

(* purge_archived_events: the ready and schedule rows go with their event. *)
PurgeArchivedEvents(store, gone) ==
  [store EXCEPT !.label = Without(@, gone), !.event = Without(@, gone),
                !.ready = Without(@, gone), !.schedule = @ \ gone]
-----------------------------------------------------------------------------
Init ==
  /\ policy \in BOOLEAN
  /\ now = 0
  /\ db = [event |-> [id \in {} |-> 0], label |-> [id \in {} |-> 0], ready |-> [id \in {} |-> 0],
           schedule |-> {}, eventSequence |-> 0, readySequence |-> 0]

(* First places of the ids in some batch of count records. *)
Positions(keys, count) ==
  {position \in [keys -> 1..count] :
     /\ \A id, other \in keys : position[id] = position[other] => id = other
     /\ count > 0 => \E id \in keys : position[id] = 1}

(* The first resolutions of the ids labelled in some batch, and their rows. *)
Inputs(labelled) == {input \in [labelled -> LabelInputs] : \A id \in labelled : input[id].id = id}

SourceRows(input) ==
  [id \in DOMAIN input |-> [y |-> input[id].y, reason |-> "source",
                            available |-> input[id].available, inserted |-> now]]

(* collect_source's flush: the observations, then the labels, of one batch. *)
Flush ==
  \E keys \in SUBSET Ids, labelled \in SUBSET Ids, count \in 0..MaxBatch, order \in Orders :
    \E position \in Positions(keys, count), input \in Inputs(labelled) :
      /\ count + Cardinality(labelled) <= MaxBatch
      /\ db' = AddLabels(AddEvents(db, position, count, order), SourceRows(input), policy, order)
      /\ db'.eventSequence <= MaxRecords
      /\ UNCHANGED <<policy, now>>

Due == {id \in db.schedule : DueAt(id) <= now}

(* Mutant: LIMIT takes the newest deadlines, of which the due ones are kept. *)
FirstDueNewest(due) ==
  due = {id \in Due : Cardinality({other \in db.schedule : DueAt(other) > DueAt(id)}) < BatchSize}

(* The rows of "ORDER BY due_at LIMIT BatchSize". *)
FirstDue(due) ==
  /\ due \subseteq Due /\ Cardinality(due) <= BatchSize
  /\ due # Due => Cardinality(due) = BatchSize
  /\ \A id \in due, other \in Due \ due : DueAt(id) <= DueAt(other)

(* One pass of maintain_resolutions. *)
MaintainResolutions ==
  \E due \in SUBSET Due, order \in Orders :
    /\ FirstDue(due)
    /\ db' = PurgeOrphanLabels(IF policy THEN ResolveDue(db, due, order) ELSE db)
    /\ UNCHANGED <<policy, now>>

(* archive_once's second transaction; archive_rows returned only matched rows. *)
ArchivePurge ==
  \E gone \in SUBSET (DOMAIN db.event \cap DOMAIN db.label) :
    /\ gone # {}
    /\ db' = PurgeArchivedEvents(db, gone)
    /\ UNCHANGED <<policy, now>>

Tick == now < MaxTime /\ now' = now + 1 /\ UNCHANGED <<policy, db>>

Next == Flush \/ MaintainResolutions \/ ArchivePurge \/ Tick

Spec == Init /\ [][Next]_vars

(* The resolution thread loops until shutdown. *)
FairSpec == Spec /\ WF_vars(MaintainResolutions)
-----------------------------------------------------------------------------
(* Every table holds rows of its type keyed by ids of the task, and every     *)
(* number in use was drawn from its sequence.                                 *)
Numbered(store) ==
  /\ \A id \in DOMAIN store.event : store.event[id].sequence \in 1..store.eventSequence
  /\ \A id \in DOMAIN store.ready : store.ready[id] \in 1..store.readySequence

TypeOK == policy \in BOOLEAN /\ now \in 0..MaxTime /\ IsStore(db) /\ Numbered(db)

(* Whatever order an observation and its label arrive in, and whichever of    *)
(* the four ways of resolving it comes first, the ready queue holds exactly   *)
(* the observations with both, and a deadline is pending for exactly those    *)
(* that have none: nothing a learner waits for, or a default is owed to, is   *)
(* lost between add_events, add_labels, resolve_due and the purges.           *)
QueueIsExact ==
  /\ DOMAIN db.ready = DOMAIN db.event \cap DOMAIN db.label
  /\ db.schedule = IF policy THEN DOMAIN db.event \ DOMAIN db.label ELSE {}

(* Each stored observation is resolved by something the policy admits: a      *)
(* source label from within the horizon even when it waited in the inbox, the *)
(* value of an observation of the same entity from the target window, or the  *)
(* default once every grace period is over.                                   *)
Justified(id, row) ==
  CASE row.reason = "source" -> row.available <= Horizon(id)
    [] row.reason = "forecast-snapshot" ->
         \E snapshot \in Ids : SnapshotResolves(snapshot, id) /\ Source[snapshot].value = row.y
    [] OTHER -> row.y = Default /\ DueAt(id) <= row.inserted

ResolutionsAreJustified ==
  policy => \A id \in DOMAIN db.event \cap DOMAIN db.label : Justified(id, db.label[id])

(* An observation left pending has seen every later snapshot of its entity: a *)
(* stored observation that could supply its target came in before it did.     *)
NoSnapshotMissed ==
  \A id \in db.schedule, snapshot \in DOMAIN db.event :
    SnapshotResolves(snapshot, id) => db.event[snapshot].sequence < db.event[id].sequence

(* First resolution wins.  A label never changes; it goes only with its       *)
(* archived observation, when the observation turns out to precede it by more *)
(* than the horizon, or from the inbox after the retention period.            *)
MayLeave(id) ==
  \/ id \in DOMAIN db.event /\ id \notin DOMAIN db'.event
  \/ id \notin DOMAIN db.event /\ policy /\ id \in DOMAIN db'.event /\ db.label[id].available > Horizon(id)
  \/ id \notin DOMAIN db.event /\ db.label[id].inserted + Retention < now

LabelsEndure ==
  [][\A id \in DOMAIN db.label :
       \/ id \in DOMAIN db'.label /\ db'.label[id] = db.label[id]
       \/ MayLeave(id)]_vars

(* The numberings the learners' cursors run over are append-only: a resolved  *)
(* observation never changes place, and nothing appears below a place already *)
(* taken, so "above my cursor" misses nothing.                                *)
Queue == INSTANCE ResolutionQueue WITH
  Outcomes <- Targets,
  admitted <- [id \in DOMAIN db.event |-> db.event[id].sequence],
  settled <- [id \in DOMAIN db.event \cap DOMAIN db.label |-> db.label[id].y],
  place <- db.ready,
  admissions <- db.eventSequence,
  placements <- db.readySequence

ImplementsResolutionQueue == Queue!Spec

(* Deadlines that have passed do not pile up: however many more fall due at   *)
(* once than one LIMIT takes, and whatever is scheduled beside them, again    *)
(* and again a time comes at which all of them have been honoured.            *)
DeadlinesAreHonoured == []<>(Due = {})

(* The inbox is bounded: again and again it holds no label past its retention *)
(* whose observation has not come.                                            *)
Expired == {id \in DOMAIN db.label \ DOMAIN db.event : db.label[id].inserted + Retention < now}

InboxDrains == []<>(Expired = {})
=============================================================================
