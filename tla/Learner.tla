------------------------------- MODULE Learner -------------------------------
(***************************************************************************)
(* The learner of one task (src/everbench/learner.py), the rows it keeps   *)
(* for every model (model_store.py and the second half of event_store.py), *)
(* and the operations of the API, of auto promotion and of the archive     *)
(* that change those rows between its cycles.                              *)
(*                                                                         *)
(* learn_once takes SQLite's writer lock first and commits once, so a      *)
(* whole cycle over every model is one action.  What survives a cycle      *)
(* outside the database is the cache of resident models; it is dropped     *)
(* when a cycle rolls back or the process restarts, and it goes stale when *)
(* other processes commit.  That is what makes the learner hard.           *)
(*                                                                         *)
(* An event is named by its sequence number.  The event store commits any  *)
(* transaction that ResolutionQueue allows (module LearnerOnStore).  A     *)
(* model's state is the artifact it started from and what it learned, in   *)
(* order.                                                                  *)
(***************************************************************************)
EXTENDS Naturals, FiniteSets, FiniteSetsExt, SequencesExt

CONSTANTS
  Models,          \* model ids
  LearningModels,  \* the models that implement learn_one
  BatchSize,       \* learner_batch_size
  SharedUploads,   \* whether an upload may repeat the bytes of a registered artifact
  MaxNumber,       \* bound on the sequence numbers of events and of ready places
  MaxUploads,      \* bound on the artifacts uploaded or promoted
  MaxFaults        \* bound on model failures and lost caches

ASSUME LearnerAssumption ==
  /\ LearningModels \subseteq Models
  /\ BatchSize \in Nat \ {0}
  /\ SharedUploads \in BOOLEAN
  /\ MaxNumber \in Nat /\ MaxUploads \in Nat /\ MaxFaults \in Nat

VARIABLES
  stored,      \* events in the store
  ready,       \* place in the ready queue of each resolved event
  known,       \* resolved events that have a target
  admissions,  \* last event sequence number
  placements,  \* last ready sequence number
  model,       \* registration, event rows, snapshot and metric state by model id
  cache,       \* resident models of the learner process
  uploads,     \* artifacts stored so far
  faults       \* faults so far

queue == <<stored, ready, known, admissions, placements>>
vars == <<stored, ready, known, admissions, placements, model, cache, uploads, faults>>

Events == 1..MaxNumber

(* A learned or scored label: its event, and its place in the ready queue. *)
Labels == [event : Events, place : Nat]
Rows == [status : {"predicted", "skipped"}, evaluated : BOOLEAN, trained : {"no", "yes", "skipped"}]
Snapshots == [artifact : Nat, learned : Seq(Labels), checkpoint : Nat]
Metrics == [scored : Seq(Labels), predictions : Nat]

-----------------------------------------------------------------------------
(* Reading the two queues                                                   *)

(* ORDER BY pos: which row of the result e is. *)
Rank(e, events, pos) == Cardinality({other \in events : pos[other] <= pos[e]})

(* SELECT ... ORDER BY pos LIMIT BatchSize *)
FirstBatch(events, pos) == {e \in events : Rank(e, events, pos) <= BatchSize}

Itself == [e \in Events |-> e]

(* events_after_cursor *)
EventsAfterCursor(r) ==
  FirstBatch({e \in stored : e > r.predictionCursor /\ e >= r.start}, Itself)

(* Mutant: the labels of earlier generations are read too. *)
ReadyOfAnyGeneration(r) == FirstBatch({e \in DOMAIN ready : ready[e] > r.labelCursor}, ready)

(* ready_labels_after_cursor *)
ReadyAfterCursor(r) ==
  FirstBatch({e \in DOMAIN ready : ready[e] > r.labelCursor /\ e >= r.start}, ready)

(* Mutant: the cursor moves to the end of the table. *)
CursorAtEnd(cursor, batch, pos) == Max({pos[e] : e \in DOMAIN pos} \cup {cursor})

(* Where a cursor stands after a batch. *)
CursorAfter(cursor, batch, pos) == IF batch = {} THEN cursor ELSE Max({pos[e] : e \in batch})

(* The labels of events as a query gives them. *)
LabelsBy(events, pos) ==
  LET row(n) == CHOOSE e \in events : Rank(e, events, pos) = n
  IN  [n \in 1..Cardinality(events) |-> [event |-> row(n), place |-> ready[row(n)]]]

(* Mutant: labels are taken in the order of their events. *)
InAdmissionOrder(events) == LabelsBy(events, Itself)

(* ORDER BY ready.sequence *)
InQueueOrder(events) == LabelsBy(events, ready)

-----------------------------------------------------------------------------
(* A model's rows                                                           *)

NewRow(status) == [status |-> status, evaluated |-> FALSE, trained |-> "no"]

(* add_predictions and add_prediction_skips: existing rows stay. *)
AddRows(rows, predicted, skipped) ==
  [e \in DOMAIN rows \cup predicted \cup skipped |->
     IF e \in DOMAIN rows THEN rows[e]
     ELSE NewRow(IF e \in predicted THEN "predicted" ELSE "skipped")]

(* Mutant: training_skipped is not set. *)
SettledAsTrained(row, trained) ==
  [row EXCEPT !.evaluated = @ \/ row.status = "predicted", !.trained = IF @ = "no" THEN "yes" ELSE @]

(* add_metric_updates and add_trainings on one row. *)
Settled(row, trained) ==
  [row EXCEPT !.evaluated = @ \/ row.status = "predicted", !.trained = IF @ = "no" THEN trained ELSE @]

(* The rows after a batch of labels, which a row is added for if it is missing. *)
Settle(rows, batch, trained) ==
  LET all == AddRows(rows, {}, batch) IN
  [e \in DOMAIN all |-> IF e \in batch THEN Settled(all[e], trained) ELSE all[e]]

Checkpoint(r) == IF r.snapshot = {} THEN 0 ELSE (CHOOSE s \in r.snapshot : TRUE).checkpoint

(* Mutant: learning that a checkpoint missed is not replayed. *)
ReplaysNothing(r) == {}

(* trained_examples_since_checkpoint *)
TrainedSinceCheckpoint(r) ==
  {e \in DOMAIN r.rows \cap DOMAIN ready \cap known :
     r.rows[e].trained = "yes" /\ e >= r.start /\ ready[e] > Checkpoint(r)}

(* Mutant: a model that is loaded counts as checkpointed. *)
NeverBehind(r) == FALSE

(* Labels were processed that the snapshot does not cover. *)
Behind(r) == r.labelCursor > Checkpoint(r)

(* The cached model that _active_models builds from the database: _load_model, *)
(* _restore_uncheckpointed_learning and the metric state.                      *)
Load(m) ==
  LET r == model[m]
      base == IF r.snapshot = {} THEN [artifact |-> r.artifact, learned |-> <<>>]
              ELSE CHOOSE s \in r.snapshot : TRUE
      tracker == IF r.metric # {} THEN CHOOSE t \in r.metric : TRUE
                 ELSE [scored |-> <<>>,
                       predictions |-> Cardinality({e \in DOMAIN r.rows : r.rows[e].status = "predicted"})]
  IN  [fingerprint |-> r.artifact,
       artifact |-> base.artifact,
       learned |-> IF m \in LearningModels
                   THEN base.learned \o InQueueOrder(TrainedSinceCheckpoint(r))
                   ELSE base.learned,
       tracker |-> tracker,
       needsCheckpoint |-> Behind(r)]

Resident(m) == m \in DOMAIN cache /\ cache[m].fingerprint = model[m].artifact

-----------------------------------------------------------------------------
(* One model in one cycle.  Each operator takes the registration r and, for a *)
(* runnable model, the cached model c, and gives what they become.            *)

(* _predict_pending *)
PredictPending(r, c) ==
  LET batch == EventsAfterCursor(r)
      fresh == batch \ DOMAIN r.rows
      predicted == fresh \ DOMAIN ready
  IN  [r |-> [r EXCEPT !.rows = AddRows(@, predicted, fresh \cap DOMAIN ready),
                       !.predictionCursor = CursorAfter(@, batch, Itself)],
       c |-> [c EXCEPT !.tracker.predictions = @ + Cardinality(predicted)],
       count |-> Cardinality(predicted)]

(* _process_resolutions *)
ProcessResolutions(m, r, c) ==
  LET batch == ReadyAfterCursor(r)
      has(e) == e \in DOMAIN r.rows
      evaluable == {e \in batch \cap known : has(e) /\ r.rows[e].status = "predicted" /\ ~r.rows[e].evaluated}
      learnable == {e \in batch \cap known : has(e) => r.rows[e].trained = "no"}
  IN  [r |-> [r EXCEPT !.rows = Settle(@, batch, "yes"), !.labelCursor = CursorAfter(@, batch, ready)],
       c |-> [c EXCEPT !.tracker.scored = @ \o InQueueOrder(evaluable),
                       !.learned = IF m \in LearningModels THEN @ \o InQueueOrder(learnable) ELSE @,
                       !.needsCheckpoint = @ \/ batch # {}],
       count |-> Cardinality(batch)]

(* Mutant: the checkpoint claims the last place given out. *)
CheckpointAtEnd(r, c) ==
  [r EXCEPT !.snapshot = {[artifact |-> c.artifact, learned |-> c.learned, checkpoint |-> placements]}]

(* save_pickle_snapshot, as _checkpoint calls it. *)
SavePickleSnapshot(r, c) ==
  [r EXCEPT !.snapshot = {[artifact |-> c.artifact, learned |-> c.learned, checkpoint |-> r.labelCursor]}]

(* _learn_model.  due: model_checkpoint_seconds have passed since the last one. *)
LearnModel(m, r, c, due) ==
  LET p == PredictPending(r, c)
      q == ProcessResolutions(m, p.r, p.c)
      saved == IF p.count > 0 \/ q.count > 0 THEN [q.r EXCEPT !.metric = {q.c.tracker}] ELSE q.r
  IN  IF q.c.needsCheckpoint /\ due
      THEN [r |-> SavePickleSnapshot(saved, q.c), c |-> {[q.c EXCEPT !.needsCheckpoint = FALSE]}]
      ELSE [r |-> saved, c |-> {q.c}]

(* Mutant: the checkpoint moves over learning that lived in RAM only. *)
AdvanceOverLearning(r, place) ==
  IF r.snapshot = {}
  THEN [r EXCEPT !.snapshot = {[artifact |-> r.artifact, learned |-> <<>>, checkpoint |-> place]}]
  ELSE [r EXCEPT !.snapshot = {[s EXCEPT !.checkpoint = Max({@, place})] : s \in @}]

(* advance_model_checkpoint; r still has the previous label cursor. *)
AdvanceModelCheckpoint(r, place) ==
  IF Behind(r) THEN r
  ELSE IF r.snapshot = {}
  THEN [r EXCEPT !.snapshot = {[artifact |-> r.artifact, learned |-> <<>>, checkpoint |-> place]}]
  ELSE [r EXCEPT !.snapshot = {[s EXCEPT !.checkpoint = Max({@, place})] : s \in @}]

(* record_disabled_work *)
RecordDisabledWork(r) ==
  LET events == EventsAfterCursor(r)
      labels == ReadyAfterCursor(r)
      skipped == [r EXCEPT !.rows = Settle(AddRows(@, {}, events), labels, "skipped"),
                           !.predictionCursor = CursorAfter(@, events, Itself)]
      last == CursorAfter(r.labelCursor, labels, ready)
  IN  IF labels = {} THEN skipped
      ELSE [AdvanceModelCheckpoint(skipped, last) EXCEPT !.labelCursor = last]

(* The part of learn_once about model m.  A fault is an exception while the   *)
(* model is loaded, or while it predicts, learns or is pickled: the savepoint *)
(* undoes its rows, record_model_failure pauses it, and the second pass over  *)
(* the disabled models of the same cycle skips its work.                      *)
CycleOf(m, fault, due) ==
  IF model[m].paused THEN [r |-> RecordDisabledWork(model[m]), c |-> {}]
  ELSE IF fault THEN [r |-> RecordDisabledWork([model[m] EXCEPT !.paused = TRUE]), c |-> {}]
  ELSE LearnModel(m, model[m], IF Resident(m) THEN cache[m] ELSE Load(m), due)

-----------------------------------------------------------------------------
Init ==
  /\ stored = {} /\ ready = [e \in {} |-> 0] /\ known = {}
  /\ admissions = 0 /\ placements = 0
  /\ model = [m \in {} |-> 0] /\ cache = [m \in {} |-> 0]
  /\ uploads = 0 /\ faults = 0

(* A committed transaction of the store.  It admits any new events and settles *)
(* any stored ones, with or without a target.  Numbers only grow; some stay    *)
(* out, for the sequences are shared by all tasks and numbers drawn for what   *)
(* turns out to be stored already are lost.                                    *)
Transaction(new, settling, place, found) ==
  /\ stored' = stored \cup new
  /\ ready' = [e \in DOMAIN ready \cup settling |-> IF e \in settling THEN place[e] ELSE ready[e]]
  /\ known' = known \cup found
  /\ admissions' = Max(new \cup {admissions})
  /\ placements' = Max(Range(place) \cup {placements})
  /\ UNCHANGED <<model, cache, uploads, faults>>

StoreCommits ==
  \E new \in SUBSET ((admissions + 1)..MaxNumber) :
  \E settling \in SUBSET ((stored \cup new) \ DOMAIN ready) :
  \E place \in Injection(settling, (placements + 1)..MaxNumber), found \in SUBSET settling :
    Transaction(new, settling, place, found)

(* A committed learn_once: which models fail, and whose checkpoint is due. *)
Cycle(failing, due) ==
  LET out == [m \in DOMAIN model |-> CycleOf(m, m \in failing, m \in due)] IN
  /\ model' = [m \in DOMAIN model |-> out[m].r]
  /\ cache' = [m \in {m \in DOMAIN model : out[m].c # {}} |-> CHOOSE c \in out[m].c : TRUE]
  /\ faults' = faults + Cardinality(failing)
  /\ UNCHANGED <<stored, ready, known, admissions, placements, uploads>>

LearnOnce ==
  \E failing \in SUBSET DOMAIN model, due \in SUBSET DOMAIN model :
    /\ failing \subseteq {m \in DOMAIN model : ~model[m].paused}
    /\ faults + Cardinality(failing) <= MaxFaults
    /\ Cycle(failing, due)

(* learner: the cycle's transaction fails, or the process restarts. *)
LoseCache ==
  /\ cache # [m \in {} |-> 0] /\ faults < MaxFaults
  /\ cache' = [m \in {} |-> 0]
  /\ faults' = faults + 1
  /\ UNCHANGED <<stored, ready, known, admissions, placements, model, uploads>>

(* disabled_until passes. *)
RetryElapses ==
  \E m \in DOMAIN model :
    /\ model[m].paused
    /\ model' = [model EXCEPT ![m].paused = FALSE]
    /\ UNCHANGED <<queue, cache, uploads, faults>>

(* Mutant: a generation starts with the last event that is stored. *)
AtLastEvent(r) ==
  [r EXCEPT !.start = Max(stored \cup {1}), !.predictionCursor = Max(stored \cup {0}),
            !.labelCursor = Max({ready[e] : e \in DOMAIN ready} \cup {0})]

(* start_live_generation, and the same boundary in register_model. *)
AtFrontier(r) ==
  [r EXCEPT !.start = Max(stored \cup {0}) + 1,
            !.predictionCursor = Max(stored \cup {0}),
            !.labelCursor = Max({ready[e] : e \in DOMAIN ready} \cup {0})]

NewModel(artifact) ==
  AtFrontier([artifact |-> artifact, start |-> 0, predictionCursor |-> 0, labelCursor |-> 0,
              paused |-> FALSE, rows |-> [e \in {} |-> 0], snapshot |-> {}, metric |-> {}])

Add(m, r) == model' = [x \in DOMAIN model \cup {m} |-> IF x = m THEN r ELSE model[x]]

(* upload_model.  store_artifact finds the artifact of an upload it has seen. *)
Register ==
  \E m \in Models \ DOMAIN model, artifact \in 1..MaxUploads :
    /\ \/ artifact = uploads + 1
       \/ SharedUploads /\ \E other \in DOMAIN model : artifact = model[other].artifact
    /\ uploads' = Max({uploads, artifact})
    /\ Add(m, NewModel(artifact))
    /\ UNCHANGED <<queue, cache, faults>>

(* The registration of _bootstrap_auto_model, which comes with a snapshot. *)
Bootstrap ==
  \E m \in Models \ DOMAIN model :
    /\ uploads < MaxUploads
    /\ uploads' = uploads + 1
    /\ Add(m, SavePickleSnapshot(NewModel(uploads'), [artifact |-> uploads', learned |-> <<>>]))
    /\ UNCHANGED <<queue, cache, faults>>

(* remove_model: the rows go with the registration. *)
Delete ==
  \E m \in DOMAIN model :
    /\ model' = [x \in DOMAIN model \ {m} |-> model[x]]
    /\ UNCHANGED <<queue, cache, uploads, faults>>

(* What a promotion writes to the champion's rows. *)
Promoted(r, artifact) ==
  LET next == AtFrontier([r EXCEPT !.artifact = artifact, !.metric = {[scored |-> <<>>, predictions |-> 0]}]) IN
  SavePickleSnapshot(next, [artifact |-> artifact, learned |-> <<>>])

(* The promotion of _reflect_prepared_once.  It reads the registration before *)
(* its first write takes the lock, and writes only what it changed: a pause   *)
(* recorded in between stays.                                                 *)
Promote ==
  \E m \in DOMAIN model, paused \in BOOLEAN :
    /\ uploads < MaxUploads
    /\ uploads' = uploads + 1
    /\ paused => model[m].paused
    /\ model' = [model EXCEPT ![m] = [Promoted(@, uploads') EXCEPT !.paused = paused]]
    /\ UNCHANGED <<queue, cache, faults>>

(* Mutant: learning does not have to be in a snapshot. *)
PendingUntilSettled(m, e) ==
  ~ /\ e \in DOMAIN model[m].rows
    /\ model[m].rows[e].trained # "no"
    /\ model[m].rows[e].status = "skipped" \/ model[m].rows[e].evaluated

(* _model_processing_pending_clause *)
ProcessingPending(m, e) ==
  LET r == model[m] IN
  \/ ~ /\ e \in DOMAIN r.rows
       /\ r.rows[e].trained # "no"
       /\ r.rows[e].status = "skipped" \/ r.rows[e].evaluated
  \/ r.snapshot = {}
  \/ Checkpoint(r) < ready[e]

(* completed_labelled_events *)
Completed(e) ==
  /\ e \in DOMAIN ready
  /\ \A m \in DOMAIN model : e >= model[m].start => ~ProcessingPending(m, e)

(* archive_once: purge_archived_events for rows that archive_rows released. *)
ArchivePurge ==
  \E gone \in SUBSET {e \in stored : Completed(e)} :
    /\ gone # {}
    /\ stored' = stored \ gone
    /\ ready' = [e \in DOMAIN ready \ gone |-> ready[e]]
    /\ known' = known \ gone
    /\ model' = [m \in DOMAIN model |->
                   [model[m] EXCEPT !.rows = [e \in DOMAIN @ \ gone |-> @[e]]]]
    /\ UNCHANGED <<admissions, placements, cache, uploads, faults>>

Next == \/ StoreCommits
        \/ LearnOnce \/ LoseCache \/ RetryElapses
        \/ Register \/ Bootstrap \/ Delete \/ Promote \/ ArchivePurge

Spec == Init /\ [][Next]_vars

(* A fault-free cycle would change nothing. *)
Idle ==
  /\ DOMAIN cache \subseteq DOMAIN model
  /\ \A m \in DOMAIN model :
       CycleOf(m, FALSE, TRUE) = [r |-> model[m], c |-> {cache[x] : x \in DOMAIN cache \cap {m}}]

(* The learner loop never stops and its checkpoint interval passes; faults are *)
(* finitely many (MaxFaults), and every retry time comes.  The first fairness  *)
(* condition is WF_vars(Cycle({}, DOMAIN model)) with its ENABLED written out. *)
FairSpec ==
  /\ Spec
  /\ []<>Idle \/ []<><<Cycle({}, DOMAIN model)>>_vars
  /\ WF_vars(RetryElapses)
-----------------------------------------------------------------------------
(* Rows have their types, and no cursor leads what it runs over: a checkpoint *)
(* is never past the label cursor, nor that past the ready queue.             *)
TypeOK ==
  /\ stored \subseteq 1..admissions /\ admissions \in 0..MaxNumber
  /\ DOMAIN ready \subseteq stored /\ known \subseteq DOMAIN ready
  /\ \A e \in DOMAIN ready : ready[e] \in 1..placements
  /\ uploads \in 0..MaxUploads /\ faults \in 0..MaxFaults
  /\ DOMAIN model \subseteq Models /\ DOMAIN cache \subseteq Models
  /\ \A m \in DOMAIN model :
       LET r == model[m] IN
       /\ r.artifact \in 1..uploads /\ r.paused \in BOOLEAN
       /\ r.start \in 1..(admissions + 1) /\ r.predictionCursor \in 0..admissions
       /\ r.labelCursor \in 0..placements /\ Checkpoint(r) <= r.labelCursor
       /\ DOMAIN r.rows \subseteq stored /\ r.rows \in [DOMAIN r.rows -> Rows]
       /\ r.snapshot \subseteq Snapshots /\ Cardinality(r.snapshot) <= 1
       /\ r.metric \subseteq Metrics /\ Cardinality(r.metric) <= 1

(* A resident model is what a restart would rebuild: the last snapshot, with  *)
(* the labels learned since replayed in order, and the stored scores.  This   *)
(* is what allows the learner to keep models in memory, drop them at any      *)
(* moment and write snapshots rarely.                                         *)
RestartEquivalence ==
  \A m \in DOMAIN cache \cap DOMAIN model : Resident(m) => cache[m] = Load(m)

(* Every label is learned at most once and scored at most once, in the order  *)
(* of the ready queue, and none is of an event before the model's generation. *)
InOrder(labels) == \A i, j \in 1..Len(labels) : i < j => labels[i].place < labels[j].place

CleanLearning ==
  \A m \in DOMAIN model :
    \A labels \in {Load(m).learned, Load(m).tracker.scored} :
      InOrder(labels) /\ \A i \in 1..Len(labels) : labels[i].event >= model[m].start

(* The rows the archive trusts tell what the model went through: an event of  *)
(* this generation is scored exactly when it was predicted and its label was  *)
(* not skipped, and learned exactly when its label was not skipped.           *)
EventsOf(labels) == {labels[i].event : i \in 1..Len(labels)}

RowsTellTheState ==
  \A m \in DOMAIN model :
    \A e \in DOMAIN model[m].rows \cap known :
      LET row == model[m].rows[e] IN
      e >= model[m].start =>
        /\ e \in EventsOf(Load(m).tracker.scored) <=> row.status = "predicted" /\ row.trained = "yes"
        /\ e \in EventsOf(Load(m).learned) <=> m \in LearningModels /\ row.trained = "yes"

(* A cursor never passes over work: behind it every stored event of the       *)
(* generation has its row, and every label is settled.                        *)
CursorsSkipNothing ==
  \A m \in DOMAIN model :
    LET r == model[m] IN
    \A e \in stored :
      e >= r.start =>
        /\ e <= r.predictionCursor => e \in DOMAIN r.rows
        /\ e \in DOMAIN ready /\ ready[e] <= r.labelCursor =>
             /\ e \in DOMAIN r.rows /\ r.rows[e].trained # "no"
             /\ r.rows[e].status = "predicted" => r.rows[e].evaluated

(* Learning is durable once its cycle commits: whatever fails, is skipped, is *)
(* checkpointed or is archived later, the state a restart rebuilds only grows *)
(* until the model is deleted or replaced.                                    *)
LearningSurvives ==
  [][\A m \in DOMAIN model \cap DOMAIN model' :
       model'[m].artifact = model[m].artifact => IsPrefix(Load(m).learned, Load(m)'.learned)]_vars

(* What the archive was told of an event stays true while the event is there: *)
(* no registration, promotion, retry or checkpoint takes a release back.      *)
CompletedStays ==
  [][\A e \in stored \cap stored' : Completed(e) => Completed(e)']_vars

(* A model that has learned nothing in its generation holds nothing in memory *)
(* that a snapshot lacks: while it is paused, the work it skips is released,  *)
(* and a broken model does not keep events from the archive.                  *)
SkippedWorkIsReleased ==
  \A m \in DOMAIN model :
    model[m].paused /\ (\A e \in DOMAIN model[m].rows : model[m].rows[e].trained # "yes") =>
      \A e \in DOMAIN ready :
        e >= model[m].start /\ ready[e] <= model[m].labelCursor => ~ProcessingPending(m, e)

(* An id that is registered again is a new model: until it has processed      *)
(* anything, the resident model behind it has learned nothing.                *)
NewModelsStartFresh ==
  \A m \in DOMAIN cache \cap DOMAIN model :
    Resident(m) /\ model[m].rows = [e \in {} |-> 0] /\ model[m].snapshot = {} => cache[m].learned = <<>>

(* No resolved event waits for ever for some model to let go of it: again and *)
(* again a time comes at which every one of them is free to be archived.      *)
ResolvedEventsAreReleased == []<>(\A e \in DOMAIN ready : Completed(e))
=============================================================================
