------------------------------- MODULE Research -------------------------------
(***************************************************************************)
(* Autonomous research of one model (src/everbench/auto/service.py,        *)
(* auto/store.py) with what the learner, the archive and the API change    *)
(* around it: artifacts and their garbage, the registration, its snapshot  *)
(* and the experiments.                                                    *)
(*                                                                         *)
(* A pass takes minutes to hours between its transactions: it reads the    *)
(* champion, prepares, inserts a running experiment, searches, reads what  *)
(* it compares the champion with, and commits.  The scheduled process and  *)
(* an operator's command may run passes at once.  SQLite gives a SELECT    *)
(* outside a write no transaction, so two reads may see different commits. *)
(*                                                                         *)
(* An archive week stands for the sequence range that keys an experiment.  *)
(***************************************************************************)
EXTENDS CandidateSearch, FiniteSets, Functions

CONSTANTS
  Runners,       \* processes that run passes
  Weeks,         \* number of archive weeks
  LargeWeeks,    \* the weeks with min_archive_observations observations
  MaxArtifacts,  \* bound on the artifacts at which the learner checkpoints
  MaxDeletions,  \* bound on the deletions of the model
  MaxFaults      \* bound on crashes and failed preparations

ASSUME ResearchAssumption ==
  /\ Weeks \in Nat /\ LargeWeeks \subseteq 1..Weeks
  /\ MaxArtifacts \in Nat /\ MaxDeletions \in Nat /\ MaxFaults \in Nat

VARIABLES
  artifacts,    \* stored artifacts: where each comes from, and its generation
  drawn,        \* artifact ids given out
  registration, \* artifact of the registration, 0 without one
  snapshot,     \* artifact of the model's snapshot, 0 without one
  experiments,  \* experiment of each week
  begun,        \* experiment ids given out
  archived,     \* the latest complete archive week
  pass,         \* what each runner's pass remembers
  deletion,     \* artifact ids a deletion has read, as {} or {ids}
  deletions,    \* deletions so far
  faults        \* faults so far

rows == <<artifacts, drawn, registration, snapshot, experiments, begun>>
vars == <<rows, archived, pass, deletion, deletions, faults>>

None == 0

Idle == [step |-> "idle", week |-> None, registered |-> None, champion |-> None,
         generation |-> 0, experiment |-> None, promoted |-> FALSE]

Init ==
  /\ artifacts = [a \in {} |-> 0] /\ drawn = 0
  /\ registration = None /\ snapshot = None
  /\ experiments = [w \in {} |-> 0] /\ begun = 0
  /\ archived = None
  /\ pass = [r \in Runners |-> Idle]
  /\ deletion = {} /\ deletions = 0 /\ faults = 0
-----------------------------------------------------------------------------
(* Artifacts                                                                *)

(* Artifacts that registrations, snapshots and experiments name. *)
Referenced(reg, snap, exps) ==
  ({reg, snap} \cup UNION {{exps[w].champion, exps[w].candidate} : w \in DOMAIN exps}) \ {None}

(* Mutant: the registration's artifact does not count. *)
SparesNoRegistration(stored, ids, reg, snap, exps) ==
  Restrict(stored, DOMAIN stored \ (ids \ Referenced(None, snap, exps)))

(* _delete_unreferenced_artifacts *)
DeleteUnreferenced(stored, ids, reg, snap, exps) ==
  Restrict(stored, DOMAIN stored \ (ids \ Referenced(reg, snap, exps)))

(* store_artifact of bytes that no stored artifact has. *)
WithArtifact(source, generation) ==
  [a \in DOMAIN artifacts \cup {drawn + 1} |->
     IF a = drawn + 1 THEN [source |-> source, generation |-> generation] ELSE artifacts[a]]

(* Mutant: the snapshot that is replaced stays. *)
KeepsStale(stored, reg, snap, exps) == stored

(* save_pickle_snapshot: the snapshot before it goes, unless something names it. *)
ReplaceSnapshot(stored, reg, snap, exps) ==
  DeleteUnreferenced(stored, {snapshot} \ {snap}, reg, snap, exps)

-----------------------------------------------------------------------------
(* Steps of a pass                                                          *)

At(r, step) == pass[r].step = step

Goes(r, step) == pass' = [pass EXCEPT ![r].step = step]

Ends(r) == pass' = [pass EXCEPT ![r] = Idle]

(* A pass begins with the read of the registration: reflect ends without one,  *)
(* bootstrap with one.  auto_worker runs bootstrap and then reflect, the       *)
(* command line either; after bootstrap the next pass reflects.                *)
StartReflection(r) ==
  /\ At(r, "idle") /\ registration # None
  /\ pass' = [pass EXCEPT ![r].step = "finding", ![r].registered = registration]
  /\ UNCHANGED <<rows, archived, deletion, deletions, faults>>

(* _bootstrap_auto_model, first session: the seed will be trained on the week. *)
StartBootstrap(r) ==
  /\ At(r, "idle") /\ registration = None
  /\ pass' = [pass EXCEPT ![r].step = "training", ![r].week = archived]
  /\ UNCHANGED <<rows, archived, deletion, deletions, faults>>

(* A new seed may have the bytes of a stored one, which store_artifact reuses. *)
StoredSeeds == {a \in DOMAIN artifacts : artifacts[a].source = "auto-bootstrap"}

(* The seed is refused for a week that is too small; building it may fail, and *)
(* so may the limits on its size and on the task's models.                     *)
RefuseSeed(r) ==
  /\ At(r, "training")
  /\ \/ pass[r].week \notin LargeWeeks \cup {None} /\ UNCHANGED faults
     \/ pass[r].week \in LargeWeeks \cup {None} /\ faults < MaxFaults /\ faults' = faults + 1
  /\ Ends(r)
  /\ UNCHANGED <<rows, archived, deletion, deletions>>

(* _bootstrap_auto_model, second session: under the lock, unless another pass  *)
(* was first.                                                                  *)
StoreBootstrap(r) ==
  /\ At(r, "training") /\ pass[r].week \in LargeWeeks \cup {None}
  /\ Ends(r)
  /\ \/ /\ registration # None
        /\ UNCHANGED <<artifacts, drawn, registration, snapshot>>
     \/ /\ registration = None
        /\ drawn' = drawn + 1
        /\ artifacts' = WithArtifact("auto-bootstrap", 0)
        /\ registration' = drawn' /\ snapshot' = drawn'
     \/ /\ registration = None
        /\ \E seed \in StoredSeeds : registration' = seed /\ snapshot' = seed
        /\ UNCHANGED <<artifacts, drawn>>
  /\ UNCHANGED <<experiments, begun, archived, deletion, deletions, faults>>

(* The artifact that serves the registration (_model_artifact), *)
FindChampion(r) ==
  /\ At(r, "finding")
  /\ pass' = [pass EXCEPT ![r].step = "loading",
                          ![r].champion = IF snapshot # None THEN snapshot ELSE pass[r].registered]
  /\ UNCHANGED <<rows, archived, deletion, deletions, faults>>

(* Mutant: a week is not waited for. *)
NeedsNoWeek(p) == {p.champion, p.registered} \subseteq DOMAIN artifacts

(* its bytes, the source of the registered one, and the latest week. *)
MayPrepare(p) == {p.champion, p.registered} \subseteq DOMAIN artifacts /\ archived \in LargeWeeks

(* Then, outside the database, the archive file is opened, counted and         *)
(* summarized, and the champion is built: any of it may fail.                  *)
PrepareReflection(r) ==
  /\ At(r, "loading")
  /\ \/ /\ MayPrepare(pass[r])
        /\ pass' = [pass EXCEPT ![r].step = "beginning", ![r].week = archived,
                                ![r].generation = artifacts[pass[r].champion].generation]
        /\ UNCHANGED faults
     \/ ~MayPrepare(pass[r]) /\ Ends(r) /\ UNCHANGED faults
     \/ faults < MaxFaults /\ Ends(r) /\ faults' = faults + 1
  /\ UNCHANGED <<rows, archived, deletion, deletions>>

(* The row refers to the model and to the champion, or is not inserted. *)
MayInsert(p) == registration # None /\ p.champion \in DOMAIN artifacts

(* experiment_for_cohort *)
Evaluated(week) == week \in DOMAIN experiments

(* Under the lock: no second experiment for a week (begin_experiment). *)
BeginExperiment(r) ==
  LET p == pass[r] IN
  /\ At(r, "beginning")
  /\ IF Evaluated(p.week) \/ ~MayInsert(p)
     THEN Ends(r) /\ UNCHANGED <<experiments, begun>>
     ELSE /\ begun' = begun + 1
          /\ experiments' =
               [w \in DOMAIN experiments \cup {p.week} |->
                  IF w = p.week
                  THEN [id |-> begun + 1, status |-> "running", parent |-> p.generation,
                        champion |-> p.champion, candidate |-> None]
                  ELSE experiments[w]]
          /\ pass' = [pass EXCEPT ![r].step = "searching", ![r].experiment = begun + 1]
  /\ UNCHANGED <<artifacts, drawn, registration, snapshot, archived, deletion, deletions, faults>>

(* The row of an experiment is there. *)
IsStored(p) == p.week \in DOMAIN experiments /\ experiments[p.week].id = p.experiment

(* Two reads of the commit, taken together: a row that is deleted between them *)
(* takes its registration with it.  FOR UPDATE locks nothing in SQLite.        *)
Confirms(p) == IsStored(p) /\ registration = p.registered

(* Mutant: a pass whose champion changed waits for it to come back. *)
WaitsForChampion(r) ==
  /\ At(r, "searching") /\ Confirms(pass[r])
  /\ \E verdict \in Verdicts :
       pass' = [pass EXCEPT ![r].step = IF verdict = "error" THEN "failing" ELSE "committing",
                            ![r].promoted = verdict = "promoted"]
  /\ UNCHANGED <<rows, archived, deletion, deletions, faults>>

(* backend.research, the final comparison and AutoClassifier.consider; then    *)
(* the reads at the start of the commit.                                       *)
Search(r) ==
  /\ At(r, "searching")
  /\ \E verdict \in Verdicts :
       pass' = [pass EXCEPT ![r].step = IF verdict # "error" /\ Confirms(pass[r])
                                        THEN "committing" ELSE "failing",
                            ![r].promoted = verdict = "promoted"]
  /\ UNCHANGED <<rows, archived, deletion, deletions, faults>>

(* Mutant: the candidate keeps the generation of its parent. *)
SameGeneration(p) == p.generation

NextGeneration(p) == p.generation + 1

(* finish_experiment of a pass that got to its end. *)
Decided(p, candidate) ==
  [experiments EXCEPT ![p.week].status = IF p.promoted THEN "promoted" ELSE "rejected",
                      ![p.week].candidate = candidate]

(* The writes of the commit, which miss rows that were deleted meanwhile. *)
Commit(r) ==
  LET p == pass[r] IN
  /\ At(r, "committing")
  /\ UNCHANGED <<begun, archived, deletion, deletions, faults>>
  /\ IF ~IsStored(p) \/ (p.promoted /\ registration = None)
     THEN Goes(r, "failing") /\ UNCHANGED <<artifacts, drawn, registration, snapshot, experiments>>
     ELSE /\ Ends(r)
          /\ IF p.promoted
             THEN /\ drawn' = drawn + 1
                  /\ registration' = drawn' /\ snapshot' = drawn'
                  /\ experiments' = Decided(p, drawn')
                  /\ artifacts' = ReplaceSnapshot(WithArtifact("auto-promotion", NextGeneration(p)),
                                                  drawn', drawn', experiments)
             ELSE /\ experiments' = Decided(p, None)
                  /\ UNCHANGED <<artifacts, drawn, registration, snapshot>>

(* Mutant: the failure is recorded on whatever experiment the week has. *)
FailsTheWeek(p) == p.week \in DOMAIN experiments

(* Mutant: the failure is recorded only while the champion is the same. *)
RunningForChampion(p) ==
  Confirms(p) /\ experiments[p.week].status = "running"

(* The row, if it is still there and running. *)
StillRunning(p) == IsStored(p) /\ experiments[p.week].status = "running"

(* except Exception: the failure is recorded. *)
RecordFailure(r) ==
  LET p == pass[r] IN
  /\ At(r, "failing")
  /\ experiments' = IF StillRunning(p) THEN [experiments EXCEPT ![p.week].status = "failed"]
                    ELSE experiments
  /\ Ends(r)
  /\ UNCHANGED <<artifacts, drawn, registration, snapshot, begun, archived, deletion, deletions, faults>>

Step(r) ==
  \/ RefuseSeed(r) \/ StoreBootstrap(r) \/ FindChampion(r) \/ PrepareReflection(r)
  \/ BeginExperiment(r) \/ Search(r) \/ Commit(r) \/ RecordFailure(r)

(* The process dies. *)
Crash(r) ==
  /\ ~At(r, "idle") /\ faults < MaxFaults
  /\ faults' = faults + 1
  /\ Ends(r)
  /\ UNCHANGED <<rows, archived, deletion, deletions>>
-----------------------------------------------------------------------------
(* The environment                                                          *)

(* The learner checkpoints what it learned (save_pickle_snapshot): its cycle   *)
(* holds the lock and has loaded the registered generation.                    *)
Checkpoint ==
  /\ registration # None /\ drawn < MaxArtifacts
  /\ drawn' = drawn + 1
  /\ snapshot' = drawn'
  /\ artifacts' = ReplaceSnapshot(WithArtifact("worker-snapshot", artifacts[registration].generation),
                                  registration, drawn', experiments)
  /\ UNCHANGED <<registration, experiments, begun, archived, pass, deletion, deletions, faults>>

(* The archive publishes the next week. *)
Publish ==
  /\ archived < Weeks
  /\ archived' = archived + 1
  /\ UNCHANGED <<rows, pass, deletion, deletions, faults>>

(* The artifacts a deletion looks up before it writes: three reads, with no    *)
(* lock, so that what is committed after them is missed.                       *)
ArtifactsOfModel == Referenced(registration, snapshot, experiments)

(* DELETE /api/tasks/<task>/models/<model>, delete_model: its reads, *)
DeleteRead ==
  /\ registration # None /\ deletion = {} /\ deletions < MaxDeletions
  /\ deletion' = {ArtifactsOfModel}
  /\ deletions' = deletions + 1
  /\ UNCHANGED <<rows, archived, pass, faults>>

(* and its writes.  The experiments go with the registration (ON DELETE CASCADE). *)
DeleteCommit ==
  /\ deletion # {}
  /\ deletion' = {}
  /\ registration' = None /\ snapshot' = None
  /\ experiments' = [w \in {} |-> 0]
  /\ artifacts' = DeleteUnreferenced(artifacts, UNION deletion, registration', snapshot', experiments')
  /\ UNCHANGED <<drawn, begun, archived, pass, deletions, faults>>

Next ==
  \/ \E r \in Runners : StartReflection(r) \/ StartBootstrap(r) \/ Step(r) \/ Crash(r)
  \/ Checkpoint \/ Publish \/ DeleteRead \/ DeleteCommit

Spec == Init /\ [][Next]_vars

(* A pass goes on: the service, the candidate's process and the database are   *)
(* all called with a timeout.                                                  *)
FairSpec == Spec /\ \A r \in Runners : WF_vars(Step(r))
-----------------------------------------------------------------------------
Sources == {"auto-bootstrap", "auto-promotion", "worker-snapshot"}

PassSteps == {"idle", "training", "finding", "loading", "beginning", "searching", "committing", "failing"}

Passes == [step : PassSteps, week : Nat, registered : Nat, champion : Nat, generation : Nat,
           experiment : Nat, promoted : BOOLEAN]

Experiments == [id : Nat, status : {"running", "rejected", "promoted", "failed"}, parent : Nat,
                champion : Nat, candidate : Nat]

IsRow(p) == p.step \in {"searching", "committing", "failing"}

TypeOK ==
  /\ drawn \in Nat /\ begun \in Nat /\ deletions \in Nat /\ faults \in Nat
  /\ DOMAIN artifacts \subseteq 1..drawn
  /\ \A a \in DOMAIN artifacts : artifacts[a] \in [source : Sources, generation : Nat]
  /\ registration \in 0..drawn /\ snapshot \in 0..drawn
  /\ archived \in 0..Weeks
  /\ DOMAIN experiments \subseteq 1..Weeks
  /\ \A w \in DOMAIN experiments : experiments[w] \in Experiments /\ experiments[w].id \in 1..begun
  /\ pass \in [Runners -> Passes]
  /\ \A ids \in deletion : ids \subseteq 1..drawn

(* Whatever the learner, promotions, deletions and their garbage collection    *)
(* interleave to, the model and its experiments never name an artifact that is *)
(* gone: the two artifact columns of a model have no foreign key.              *)
ReferencesResolve == Referenced(registration, snapshot, experiments) \subseteq DOMAIN artifacts

(* The registered champion is a seed of generation 0, or the candidate of an   *)
(* experiment that was promoted, one generation above its parent; and the      *)
(* snapshot that serves it is of its generation, whoever wrote it last.        *)
ChampionIsAccountedFor ==
  registration # None =>
    /\ \/ artifacts[registration] = [source |-> "auto-bootstrap", generation |-> 0]
       \/ \E w \in DOMAIN experiments :
            /\ experiments[w].status = "promoted" /\ experiments[w].candidate = registration
            /\ artifacts[registration].generation = experiments[w].parent + 1
    /\ artifacts[snapshot].generation = artifacts[registration].generation

(* No artifact is kept that nothing names, so that the database stays bounded; *)
(* except seeds that were replaced, which no experiment names, and what was    *)
(* committed while a deletion was between its reads and its writes.            *)
GarbageIsCollected ==
  deletions = 0 =>
    \A a \in DOMAIN artifacts \ Referenced(registration, snapshot, experiments) :
      artifacts[a].source = "auto-bootstrap"

(* An experiment is left running only by a process that died: a champion that  *)
(* changes, a deleted model or a failing agent ends it.                        *)
Orphaned(w) ==
  /\ experiments[w].status = "running"
  /\ \A r \in Runners : ~(IsRow(pass[r]) /\ pass[r].experiment = experiments[w].id)

OnlyDeathLeavesRunning ==
  Cardinality({w \in DOMAIN experiments : Orphaned(w)}) <= faults

(* "Freeze the best constraint-passing candidate evaluated so far" is what the *)
(* tool promises the agent, for every conversation there can be.  It does not  *)
(* depend on the state, so the first state is enough.                          *)
ProposalIsBest == begun = 0 => SearchesAreSound

(* An experiment that ended never changes, and one that is running is ended by *)
(* the pass that began it, after deletions and new experiments of its week too. *)
PassesFinishTheirOwn ==
  [][\A w \in DOMAIN experiments \cap DOMAIN experiments' :
       experiments[w] # experiments'[w] =>
         \/ experiments'[w].id # experiments[w].id
         \/ /\ experiments[w].status = "running"
            /\ \E r \in Runners : IsRow(pass[r]) /\ pass[r].experiment = experiments[w].id
                                  /\ pass'[r] = Idle]_vars

(* A pass that began an experiment gets to its end, and so does the experiment, *)
(* whatever becomes of the champion, the model and the row meanwhile.           *)
ExperimentsEnd ==
  \A r \in Runners :
    IsRow(pass[r]) ~> ~IsRow(pass[r])

(* "Create the durable running row only once all local preparation has         *)
(* succeeded.  From here onward, every failure is recorded below."  (The       *)
(* comment in _reflect_prepared_once.)                                         *)
PreparedPassIsRecorded ==
  [][\A r \in Runners :
       At(r, "beginning") /\ pass'[r] = Idle => pass[r].week \in DOMAIN experiments']_vars
=============================================================================
