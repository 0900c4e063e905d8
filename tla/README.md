# A TLA+ development of Everbench

Everbench runs never-ending benchmarks over live streams. Collectors store the
observations of a task and the labels that come for them later; a learner lets every
registered model predict an observation, score it and learn from it once its label is
there; an archiver moves finished weeks to files; a research service promotes better
models. All of these are threads and processes over one SQLite file, and most of what
can go wrong is in the order in which they meet there. This directory models that order:
TLA+ modules for the parts that share state, TLC configurations that check them, and
proofs of the safety properties for every value of the constants.

Source paths below are relative to `src/everbench/` of the repository.

## The system

| part | state | operations | meets |
|---|---|---|---|
| event store (`event_store.py`, `db.py`, `schema.py`, `records.py`, `tasks.py`) | events, labels (also the inbox of labels without an event), schedule of deadlines, ready queue, two sequences | `add_events`, `add_labels`, `match_forecasts`, `resolve_due`, `purge_orphan_labels` | called by collectors, resolution thread, archive |
| collector (`collectors.py`, `batching.py`, `sse.py`, `sources.py`) | batch in memory, latest and durable cursor, connection | `observe`, `tick`, `flush`, drain, reconnect | reader and timer thread share the batch; one transaction saves records and cursor |
| learner (`learner.py`, `model_store.py`, second half of `event_store.py`) | row per model and event, two cursors per model, snapshot, metric state, registrations; resident models in memory | `learn_once`: predict, resolve, checkpoint, skip the work of paused models | reads the two numberings of the store; API and research change its registrations |
| HTTP API (`api.py`) | none of its own | upload, delete; read-only pages | registrations |
| research (`auto/`) | experiments; in memory the champion, the week and the candidates of a pass | bootstrap, begin, search, promote, record a failure | archive files, registrations, snapshots and their artifacts; may run twice at a time |
| archive (`archive.py`, `archive_store.py`) | manifest, published and temporary files | `archive_once` | store, models' rows; may run twice at a time |
| supervisor (`runtime.py`, `heartbeat.py`, `src/scripts/railway-start.sh`, `src/railway.toml`) | stop event, queues of failures, threads, two processes | start, fail, drain, stop, restart | runs all of the above |
| hot store (`hotstore.py`) | payloads in memory | put, discard, evict | collectors and learner |
| replay (`replay.py`, `metrics.py`) | none | delayed replay of an archive | research, API backtests |
| reports, configuration, command line, artifacts, task adapters | none decided here | | |

Hard to test, and therefore modelled: which of four resolutions reaches an observation
first; labels before observations; a flush by the timer in the middle of a message;
failed transactions, reconnects and kills; model state that is newer in memory than on
disk; models that fail, are paused, deleted, registered again or replaced between two
cycles; archive runs that die or overlap; research that is overtaken by checkpoints,
promotions and deletions; failures on their way out of a process that drains. Every hazard is listed with its line in
`PROJECT.json`.

What makes the parts correct:

* *event store*: an observation resolves once, for good, by something the policy admits,
  and is then in the ready queue; until then it has a deadline. The two numberings only
  grow at their end.
* *collector*: once there is a cursor, it never passes a record the database lacks and every
  connection resumes from it; everything published since arrives; memory is bounded.
* *learner*: what is in memory is what a restart would rebuild; every label is learned and
  scored at most once, in order, by the right generation; the rows tell the archive the
  truth; no cursor passes over work.
* *research*: nothing names an artifact that is gone, and no artifact stays that nothing names;
  every champion is accounted for by an experiment; an experiment ends once, by its own pass; the
  proposal is the best candidate measured.
* *supervisor*: no failure is swallowed, an orderly stop drains, and the container comes to its end.
* *archive*: a week is archived whole, once, in one file; nothing leaves the store before;
  every week that closes is archived.

## The modules

`ResolutionQueue` is the abstract specification of the event store: observations are
admitted with increasing numbers, settle once and take increasing places in a queue;
settled ones may leave. `EventStore` implements it (property
`ImplementsResolutionQueue`). `Learner` takes as steps of the store all that the abstract
specification allows: `LearnerOnStore` puts the two side by side, and `StoreTransactionsAreTaken`
proves that every commit of `ResolutionQueue`, seen through the sequence numbers that queries
give, is a `StoreCommits` of `Learner`. With the refinement this is how the two are composed: no
transaction of the event store is one the learner was not checked with. `Archive` abstracts what
labels and models decide to one bit per observation that stays set; that it does stay is
`LabelsEndure` of `EventStore` and `CompletedStays` of `Learner`. `Research` extends `CandidateSearch`,
whose outcomes are what a pass may decide. It and `Learner` see a promotion from two sides: `Learner` what
it does to queues and learning, `Research` what it does to artifacts and experiments.

**EventStore.** `db` holds the tables as functions from event ids to rows, and the two
sequences. `lock_task_ingest` makes a transaction hold SQLite's writer lock from its first
statement, so a transaction is one action: `Flush` (`collect_source.flush`),
`MaintainResolutions`, `ArchivePurge`. Each function they call is an operator from store to
store of the same name (`AddEvents`, `AddLabels`, `MatchForecasts`, `MarkReady`,
`ResolveDue`, `PurgeOrphanLabels`, ...), composed in the order of the calls. The content
of an observation is a function of its id (`Source`): the code keeps the first row of an id,
and a source that reused an id for other content is outside the model. `Orders` are the
orders in which an unordered SELECT may return rows, as sequence numbers are zipped to them.
A batch with an id twice is modelled by `Positions` (first places; every record draws a
number). The inputs are observations and labels of any ids in any batch, so redelivery and
reordering need no actions of their own. `FirstSupply` and `Numbering` carry the two places
where order decides. `policy` says whether the task has a label policy: `Init` chooses and no step changes it.
`Tick` is the clock.

**Learner.** `learn_once` takes the writer lock first and commits once, so `LearnOnce` is
one action over all models, `CycleOf` per model, with `PredictPending`,
`ProcessResolutions`, `LearnModel`, `RecordDisabledWork`, `AdvanceModelCheckpoint` named as
in the code. A model's state is its artifact and the sequence of labels it learned; metrics
are the sequence of labels scored. `cache` is the learner's dictionary of resident models,
`Load` what `_active_models` builds from the database. A failure may hit any runnable model
in any cycle (its savepoint is rolled back and its work skipped in the same cycle); `LoseCache`
is a rolled back cycle or a restart, `due` which checkpoints are due. A query is what its rows are ranked by:
`Rank` counts the rows up to one, `FirstBatch` is LIMIT, `LabelsBy` the result as a sequence. (A rank can be reasoned about;
the provers see nothing in a sort by CHOOSE over permutations.) API and research are
`Register`, `Delete`, `Bootstrap`, `Promote`; `Promote` reads the registration before the
lock, which leaves the pause a choice. The retry time of a paused model is a choice
(`RetryElapses`). The event store appears as `StoreCommits`, a `Transaction` of any number of admissions and
resolutions at once, of new and of stored events, with gaps in both numberings where redelivered rows drew
numbers; and as `ArchivePurge`.

**Collector.** A reader thread (`Request`, `Connect`, `Receive`, `Observe`, `ObserveCursor`,
`Disconnect`), a timer thread (`Tick`) and the drain at exit (`Drain`) share `items`, `latest`
and `durable` under one lock; each locked call is an action. `Flush` commits records and cursor
or fails and keeps the batch. `End` ends the process at any moment, `Start` starts it from the
saved cursor. The database is reduced to the set of records stored. The server publishes at any time (`Publish`); a
request with a
`Last-Event-ID` is answered with all that follows it, which is assumed of the server, and one without is live:
`sse.py:36` sends none while there is no durable cursor. `live` remembers where the last such connection
began. The cursor is read in `Request` and the answer comes in `Connect`, as the timer may save the first cursor in
between. Ages are choices: a batch
may be due at any size. `PollingSource` has no cursor and is not modelled.

**Archive.** Every archiver runs `archive_once` step by step: `Choose`, `CheckReady`, `ReadRows`
(three statements, three snapshots), publication (`PutObject` in a bucket; `LookForFile`,
`OpenTemporary`, `WriteFile`, `Rename` in a directory, where an open file follows its rename),
and `Record`, the transaction of manifest and purge. `Crash` ends a run anywhere. `InRange`
compares timestamps the way SQLite does, which differs from `WeekOf` in the first second of a
week. `Complete` stands for labels and models.

**CandidateSearch.** `OpenAICodeResearcher.research` as a fold: `Answer` is one tool call, `Round` one response,
`SearchesAfter` all searches that so many rounds can lead to. The agent is external, so a response is
any short sequence of calls, and a candidate is named by what the loop ranks it by: whether its constraints
pass, and its improvement, which may be infinite or not a number. `Accepts` and `Verdicts` are the promotion criteria,
applied to a second measurement of the proposal, whose constraint on prediction time may come out
otherwise. `Searches` does not depend on the state.

**Research.** Each runner is a process that may run passes. A pass is a record whose `step` says where it is:
a reflection goes from `finding` (registration read) over `loading` (champion's artifact id known) and
`beginning` (all prepared) to `searching`, `committing` and perhaps `failing`; a bootstrap has one step,
`training`. SQLite gives reads outside a write no common snapshot, so a read before a transaction's first
write and the writes are steps of their own: `Search` ends with the reads of the commit, `Commit` writes;
`DeleteRead` and `DeleteCommit` are `delete_model`. Artifacts are numbers in the order they were stored;
bytes that recur matter for seeds only (`StoredSeeds`). A week stands for the range of sequence numbers that
keys an experiment; `archived` is the latest complete one and only grows. Work in memory is merged with the
read before it: opening the archive file, summarizing and building the champion with the read of the week, the
agent's conversation and the final comparison in `Search`. `Checkpoint` is the learner, `Publish` the archive.

**Supervisor.** A tree: `run_tasks` on the main thread watches one thread per task and the research scheduler,
each `run_task` watches the threads of its task (`Children`). A thread that fails puts its failure into the queue
of its supervisor (`Puts`) and then sets the event (`Alarm`), two steps as in `_supervised`. `TakeFailure` and
`EndLoop` are the two ways out of `_run_threads`'s loop, `LeaveTask` and `LeaveMain` the end of its joins, at any
time after, as the deadline may pass. `ExitWorker` waits for all threads. `TermWorker` is SIGTERM, whose
handler goes when `run_tasks` ends. `NoticeExit`, `Terminate` and `ExitScript` are `railway-start.sh`, `Restart` is
the platform. Threads are taken as started together, and the platform's stop is asked once.

`MC*` modules give the constants values; `*_proofs` and `*_promises` modules hold the theorems. Definitions
commented as *Mutant* are the changes `PROJECT.json` uses to show that each property can fail.

## The runs

| run | states | what it shows |
|---|---|---|
| EventStore | 218,481 | four observations, three of one station, two of them at the ends of the target window of the first, a fourth due with it, labels within and past the horizon, with a policy and without: types, `QueueIsExact`, `ResolutionsAreJustified`, `NoSnapshotMissed`, `LabelsEndure`, refinement; deadlines are honoured, the inbox drains |
| LearnerSafety | 504,918 | one online model, three events, two faults, batches of two, store transactions of any size: types, `RestartEquivalence`, `CleanLearning`, `RowsTellTheState`, `CursorsSkipNothing`, `LearningSurvives` |
| LearnerGenerations | 468,495 | a learning and a static model over the same queues, the learning one promoted or replaced, batches of one: restarts, `CompletedStays`, and every resolved event is released |
| Collector | 35,564 | four messages, published at any time, four faults, with a cursor and without: `NothingSkipped`, `ResumesForGood`, `BatchIsBounded`, `EverythingArrives` |
| Archive | 81,954 | two archivers, two observations, three weeks, one death: `WeeksAreWhole`, `OneDataset`, `PublishedIsWhole`, `NothingIsLost`, `OtherWeeksAreArchived` |
| Research | 445,926 | two processes, three weeks of which the first is too small, a checkpoint, a deletion, a death: `ReferencesResolve`, `ChampionIsAccountedFor`, `GarbageIsCollected`, `OnlyDeathLeavesRunning`, `PassesFinishTheirOwn`, `ExperimentsEnd`; every conversation with a budget of two: `ProposalIsBest` |
| Supervisor | 53,272 | two tasks of two threads, two failures, one restart: `NoFailureIsSwallowed`, `OrderlyStopDrains`, `ContainerEnds` |
| LearnerPausedRelease, LearnerReupload, ArchiveFirstSecond, ArchiveSharedDirectory, ResearchStaleChampion | | violations, see below |

**Bounds.** `MaxTime` of EventStore reaches the deadline of the first observation (timestamp 0; delay,
tolerance and grace 1), so that a source label, a snapshot and a default can each come first, late or never;
`MaxRecords` 3 includes redelivery; flushes have at most two records (`MaxBatch`), which is what an
observation and its label, two competing snapshots and a repeated id need. `BatchSize`, the LIMIT
of a pass, is one: the first and the fourth observation are due together while others, due later, are scheduled and
records still come in, so that a pass leaves a due one behind. Of four observations any three records come in. One
order of unordered rows is
checked (`OneOrder`), since the proofs of the queue hold for all; what may differ with it is which number a row
gets. In
Learner, `MaxNumber` bounds both sequences, with gaps or without: three events and batches of two give a batch, a partial
batch and a label order that differs from the event order; with batches of one, work of an old generation is still queued when
the next one starts; two faults are a failure and a cache loss in either order. In Collector the
batch limit 2 and outage limit 3 are both reached inside a message and across messages; one
message repeats a record, one has none; four faults allow two disconnects or process ends before the first cursor and two after
it. In Archive a week is two ticks and retention three, so that a
row can commit late, a run can span a tick, and a source can repeat what has just been archived. In
Research the seed is one of two artifacts, so that one checkpoint happens, before, during or after a preparation (what more of
them do is in the theorems), three weeks for two passes
that are on different weeks after one that is refused; the candidate budget is two, with two calls in a
response, so that a second candidate competes, attempts run out, and `finish` comes before, between and after;
improvements are 0, 1, both infinities and not a number. In
Supervisor two failures are one that stops the process and one while it drains; two threads of a task are one
that has ended and one that has not.

**Fairness.** The resolution thread runs (`EventStore`): `maintain_resolutions` loops until shutdown; the clock
needs no fairness, as the properties speak of deadlines that have come. The learner's loop never stops and
`model_checkpoint_seconds` pass, failures
are finitely many (`MaxFaults`), and a retry time comes (`LearnerGenerations`); the fairness of the
cycle is written with its enabling condition spelled out, `Idle`, because TLC cannot evaluate
ENABLED there. The collector's reader reads or times out, a request is answered, the timer comes round, and the
supervisor starts a worker that ended. The worker's archiver runs at every interval; a run that was
started takes its steps or dies; nothing makes an operator start one. A research pass goes on (`Research`): the
service is called with a timeout, a candidate's process is killed at one, SQLite's busy timeout ends a wait; no
pass has to start. In Supervisor every thread comes to see the stop event, the loops poll, the script polls and
waits, and the platform restarts; that a thread returns is an assumption on the archive's subprocess and a
research pass, which look at nothing while they run. No fairness is assumed of faults, uploads, promotions,
deletions or requests to stop.

**Assumptions about time.** `CommitDelay + RunTime < Retention` in Archive: a transaction commits and an
archive run ends within the day that `archive_cutoff` adds. Nothing in the code enforces it (busy
timeouts are two minutes); with slower runs `OneDataset` fails when a source repeats an archived
observation.

## Where the code and its documentation differ

* *LearnerPausedRelease*: a model registered over a non-empty ready queue that fails before it
  learned anything never gets a checkpoint (`model_store.py:245`), and the archive waits for it,
  against the docstring of `advance_model_checkpoint` and the test of a failed model.
* *LearnerReupload*: an id deleted and registered again between two cycles with the same bytes, which
  another registration kept in store, goes on with the trained resident model (`learner.py:112`).
* *ArchiveFirstSecond*: a row stamped in the first second of a week, with no row in the week before,
  is picked by `next_archive_week` and missed by `archive_rows` for ever; all later weeks wait
  (`archive_store.py:68-74, 118`). `OtherWeeksAreArchived` states what does hold.
* *ArchiveSharedDirectory*: two archivers over one directory share a temporary name (`archive.py:69`);
  with one archiver, or a bucket, `PublishedIsWhole` holds.
* *ResearchStaleChampion*: a checkpoint of the learner during a preparation collects the champion's artifact, the
  insert of the experiment fails on its foreign key, and the failure is recorded nowhere
  (`auto/service.py:371-397`); the pass of the week is lost.

Observations without a run, because no document says otherwise. Two passes on different weeks (the scheduled one
and an operator's) may both find their champion in place and both promote, the second over a champion it was not
compared with (`auto/service.py:445-454`; FOR UPDATE is nothing to SQLite). A candidate that passes its constraints
with an improvement that is not a number stays the best for the rest of a search (`code_researcher.py:220`;
`ProposalIsBest` compares numbers only). A seed that was replaced is never collected, nor is what is committed between the
reads and the writes of a deletion (`GarbageIsCollected` excepts both). A week whose pass died stays `running` and is
not evaluated again. The error for workers that miss the shutdown deadline (`runtime.py:126`) is unreachable: after a
normal end of the loop all threads are dead, after a failure that failure is raised. SIGTERM after `run_tasks` ended
kills a worker that still waits for a thread. A collector without a durable cursor (a new task, or one whose first
flush is still to come)
connects live (`sse.py:36`): a disconnect or an end before its first cursor loses what is published meanwhile, and so
does a read timeout
of a quiet stream; a live request that is under way while the timer saves the first cursor starts behind records of
the gap, and later cursors
pass them. `NothingSkipped` and `EverythingArrives` speak of what follows the last live connection, and
`ResumesForGood` says when
there is no other.

## What is proved

All theorems are of the form `Spec => []Inv`, `Spec => [][A]_v` or, for a refinement, `Spec => Abstract!Spec`
(two are not: `BestIsProposed` is about data and needs no `Spec`, `StoreTransactionsAreTaken` starts from the
specification of the store), for every value of the constants that satisfies the module's ASSUME, checked by TLAPS to
the last leaf. Two places need a hypothesis
more, in both because a finding shows that the property fails without it: `ManifestsNameWholeFiles` a condition on the
constants, `Learner_promises` a condition on the behaviour, `NoReunion`. TLC checked the larger strengthenings on the bounds of
the runs before they were proved.

*EventStore_proofs.* `TypeCorrect` and `QueueExact`. Neither invariant is inductive alone: that the queue
is exact needs the tables to be functions on known ids, and that numbers stay within their sequences
needs each transaction to draw enough. The inductive invariant is their conjunction. Every operator on
the store has a lemma that says it keeps `IsStore`, `Numbered` and the exactness of the queue, or
breaks it in a stated way that the next call repairs (`StoreEvents` leaves accepted observations
unscheduled, `Schedule` schedules them all, `MarkReady` takes back those with a label); an action composes
the lemmas in the order of the calls.
What others rely on is in the second half. `Refinement`: every transaction is a `Commit` of `ResolutionQueue`, because
what it adds to either numbering it numbers above everything before, and what was settled stays; the archive's is an
`Archive`. `FirstResolutionWins` (`LabelsEndure`) reads the same facts as an action property. `Justification` and
`SnapshotsAreSeen` are about `JInv`, which adds two facts to the invariant of the queue: a label in the inbox, whose
observation is still to come, is one of the source, so that the horizon is all it has to meet when the observation comes
(`LabelsOK`); and no stored observation could supply one that is pending.

*Collector_proofs.* `TypeCorrect`, `NothingIsSkipped`, `ResumingLasts` and `OutageIsBounded`. The saved cursor is safe
because every record
of a message after `live` and up to `latest` is stored or in the batch, because `durable` equals the saved cursor while the
process is up, and because the records of the message being observed that are no longer in `left` are
known too: these three are the strengthening. That resuming lasts (`ResumesForGood`) rests on the second of them: what
a request asks for is the saved cursor. For the bound on memory (`BoundInv`), a batch that
outgrew it belongs to a reader that is draining and adds nothing more.

*Archive_proofs.* `ArchivedBeforePurged` (`NothingIsLost`): a step that removes an observation is a `Record` whose rows
have it and whose manifest is in place. `WeeksStayWhole` and `WeeksHaveOneDataset` rest on what a closed week is: one that no
transaction can add to any more (this is where `CommitDelay` is used), so that its dataset (what its
manifest has, or before there is one its stored rows) does not change. Every file and every run that has read its rows has
exactly that dataset (`FilesInv`, `RunsInv`). A run that records a week another has already recorded can only purge
observations that came in again after it began (`IsYoung`), and with `CommitDelay + RunTime < Retention` these are too young
for any closed week. `ManifestsNameWholeFiles` (`PublishedIsWhole`) has the hypothesis
that at most one archiver writes to the directory: without it the property is false, as the run ArchiveSharedDirectory
shows.

*Research_proofs.* `ReferencesAlwaysResolve`, `ResearchTypes` and `ExperimentsEndOnce`. That references resolve is
inductive alone: a pass between its reads and its writes may hold ids that are gone, but what a transaction names it
has stored, or has found to be there (`MayInsert`), and its collection spares what the rows then name. Types need that
ids of artifacts and experiments were given out, and that a pass that prepared has a week (`TypeInv`). For the end of
experiments `OwnInv` adds that two passes never hold the same experiment, and that one whose row is still stored
finds it running.
The other three, `ChampionHasAHistory`, `NothingIsHoarded` and `OnlyDeathOrphans`, share the facts that a
stored artifact never changes and that an experiment's row changes only as it ends; each has an invariant of its own.
`ChampInv`: seeds are generation 0, the parent in an experiment's row is the champion its pass found, and a registration
changes together with the snapshot that serves it. `GarbageInv`: as long as nothing was deleted, no deletion is between its read
and its writes, and an artifact that no row names is a replaced seed. `OrphansInv`: the running experiments that no pass
owns are no more than the faults, by cardinality: only a crash adds one, and it adds at most one.

*Learner_proofs.* `LearnerTypes`, `NothingIsSkipped`, `ReleasesHold` and `StoreTransactionsAreTaken`. The lemmas on queries say
that ranks are the places of a result, so that a batch is a prefix of what its query selects and the cursor ends between
the batch and what it left (`BatchPassesNothing`). One relation then serves the first three theorems: `GoesOn` says that a
step of a cycle keeps artifact and generation, that rows only gain, and that the checkpoint does not move back.
`Progress` shows what a step has to do to keep a registration in order (`RegOK`, `SkipsNothing`) and to go on; prediction,
resolution, metrics, checkpoint, skipping and pausing each have a lemma that says they do, and `CycleGoesOn` puts a whole
cycle together, with or without a failure. Registrations and promotions need none of it: their generation starts above
every stored event. That a release stays (`CompletedStays`) is then `GoesOn` read at a settled row.
`StoreTransactionsAreTaken` is the composition with the event store: from `Store!Spec`, from `Sees` (the learner sees
the store's numbers, and
the bound `MaxNumber` is above them) and from `LearnerFollows` (a commit of the store changes nothing of the models),
every commit is a `StoreCommits`.
A commit may admit and settle any number of observations, so the transaction is read off the difference of the store's
variables (`TransactionIsTaken`); that new numbers lie above all the learner has seen is `StoreNumbersStay`.

*Learner_promises.* `ModelsSurviveRestarts`, `LearningIsClean`, `RowsAreTrue` and `LearningLasts`, about the sequences of
labels. `MemoryInv` says of every registration that it `Remembers`: what a load would have learned and scored is in the order
of the queue and of this generation, the rows tell exactly which labels these are (`Tells`), an event that is not
resolved, or whose label is ahead of the cursor, has not been learned or scored (`Untouched`), and a registration without
metric state has no prediction that it would forget (`MetricKept`); and that what is resident is what a load would
give. The central fact about queries is
`ListedJoins`: the labels of two sets, one of which precedes the other in the queue, are the labels of the first
followed by those
of the second. So a batch appends to what a replay gives (`MovesReplay`), and a checkpoint puts the model in memory in
the place of
replay and old snapshot (`PickleCarries`). `Untouched` is why a batch takes no label again; `SkipsNothing`, from
*Learner_proofs*, is why every label behind the cursor has a row that tells of it. `CycleRemembers` composes a cycle,
`GrowingRemembers` and `PurgingRemembers` say that the store's steps change no sequence. The hypothesis of these
theorems, `NoReunion`, is that no id is registered with the artifact its
resident model is of. It excludes no more than the violation of LearnerReupload needs (`NewModelsAreFresh` is that
property under it), and `UnsharedNeverReunite` proves it from `Spec` where uploads do not repeat registered bytes, as in
LearnerSafety and LearnerGenerations. Another id with the same bytes, and the same id after the next cycle, are covered.

*Supervisor_proofs.* `FailuresReachMain`, `DrainsBeforeItEnds` and `SupervisorTypes`. The strengthening follows a failure
up the tree: who failed is in the supervisor's queue; a loop that ended normally left no failure and no living child;
one that raised has a failure; a task's thread ends well only with its loop. The last two link the levels.

*CandidateSearch_proofs.* `BestIsProposed` is about data alone: two recursive functions, the fold of a response and
`SearchesAfter`. TLA+ defines each by CHOOSE, so each is first shown to exist: one on a smaller domain extends to the next
(`FoldExtends`, `RoundsExtend`), and `Climb`, an induction over a set of numbers, does the rest. `FoldSteps` then gives the
state after each call. The invariant of the loop (`SearchOK`) is that `best` leads all candidates measured so far
(`Leads`), and that an empty `best` means that none passed or had a number above minus infinity; `LeadPasses` is the
step. *Research_proofs*
makes it the property of its runs (`ProposalsAreBest`).

Only model-checked: liveness (fairness and ENABLED are out of the prover's reach). The other properties
without a theorem are those the code violates; what does hold of `PublishedIsWhole` and `NewModelsStartFresh` is proved.

## Not modelled

* *Hot store*: a read-through cache; a miss reads the row from SQLite, so no other property depends on it, and its
  bound is its trimming loop. What it may keep too long is in the list of hazards.
* *Replay*: a sequential fold over a file in the order of an external library; nothing interleaves.
* `PollingSource` (no cursor, nothing replayed), heartbeats and the reclaiming of file cache (they write a time, or
  nothing), reports, authentication and upload validation, serialization, configuration, command line, migrations and
  task adapters: formatting, reading and checking of inputs.
* The start script before its trap is set, and SIGKILL after the platform's grace period, which is the end of a process
  that `Collector`, `Learner`, `Archive` and `Research` have at any step.

* `RecordFailure` in `Research` cannot fail by itself: a process that dies there has the same effect on the rows. The
  first collector thread to leave
  sets the stop event itself before it drains (`collect_source`); in `Supervisor` the event is set after the thread's failure
  or by a signal.

Payloads, predictions and metric values are abstracted to what the properties tell apart.

## Plan

1. Done: `ResolutionQueue`, `EventStore`, `Learner`, `Collector`, `Archive`, `CandidateSearch`, `Research`, `Supervisor`.
2. Done: proofs of every safety property of EventStore, Collector, Archive, Learner, Research,
   CandidateSearch and Supervisor, the refinement of ResolutionQueue included.
3. Next: what holds where the code falls short of its documentation, as `NewModelsAreFresh` does for LearnerReupload: when
   the skipped work of a paused model is released, and which rows of the first second of a week are archived.
