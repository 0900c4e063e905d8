---------------------------- MODULE Research_proofs ----------------------------
(* What holds of research for any number of runners, weeks, deletions and faults. *)
EXTENDS Research, CandidateSearch_proofs, FiniteSetTheorems

(* Garbage collection spares what is named, and deletes nothing it was not asked to. *)
LEMMA CollectionSpares ==
  ASSUME NEW stored, NEW ids, NEW reg, NEW snap, NEW exps, NEW a \in DOMAIN stored,
         a \in Referenced(reg, snap, exps) \/ a \notin ids
  PROVE  a \in DOMAIN DeleteUnreferenced(stored, ids, reg, snap, exps)
BY DEF DeleteUnreferenced, Restrict

(* A new artifact joins the stored ones. *)
LEMMA StoredJoins ==
  ASSUME NEW source, NEW generation
  PROVE  DOMAIN WithArtifact(source, generation) = DOMAIN artifacts \cup {drawn + 1}
BY DEF WithArtifact

(* Replacing the snapshot loses nothing that is named afterwards. *)
LEMMA ReplacementKeeps ==
  ASSUME NEW source, NEW generation, NEW reg, NEW snap,
         {reg, snap} \subseteq DOMAIN artifacts \cup {drawn + 1, None},
         ReferencesResolve
  PROVE  Referenced(reg, snap, experiments)
           \subseteq DOMAIN ReplaceSnapshot(WithArtifact(source, generation), reg, snap, experiments)
<1> SUFFICES ASSUME NEW a \in Referenced(reg, snap, experiments)
             PROVE  a \in DOMAIN ReplaceSnapshot(WithArtifact(source, generation), reg, snap, experiments)
  OBVIOUS
<1>1. a \in {reg, snap} \cup Referenced(registration, snapshot, experiments) /\ a # None
  BY DEF Referenced
<1>2. a \in DOMAIN WithArtifact(source, generation)
  BY <1>1, StoredJoins DEF ReferencesResolve
<1>. QED
  BY <1>2, CollectionSpares DEF ReplaceSnapshot

(* A step of a pass, and every other step, keeps what is named. *)
LEMMA StepsResolve ==
  ASSUME ReferencesResolve, [Next]_vars
  PROVE  ReferencesResolve'
<1> DEFINE Named == Referenced(registration, snapshot, experiments)
<1>1. CASE UNCHANGED <<artifacts, registration, snapshot, experiments>>
  BY <1>1 DEF ReferencesResolve, Referenced
<1>2. ASSUME NEW r \in Runners, StoreBootstrap(r) PROVE ReferencesResolve'
  <2>1. CASE registration # None
    BY <2>1, <1>2, <1>1 DEF StoreBootstrap
  <2>2. CASE registration = None
    <3>1. /\ registration' = snapshot' /\ registration' \in DOMAIN artifacts'
          /\ DOMAIN artifacts \subseteq DOMAIN artifacts' /\ experiments' = experiments
      BY <2>2, <1>2, StoredJoins DEF StoreBootstrap, StoredSeeds
    <3>. QED
      BY <3>1 DEF ReferencesResolve, Referenced
  <2>. QED
    BY <2>1, <2>2
<1>3. ASSUME NEW r \in Runners, BeginExperiment(r) PROVE ReferencesResolve'
  <2> DEFINE p == pass[r]
  <2>1. UNCHANGED <<artifacts, registration, snapshot>>
    BY <1>3 DEF BeginExperiment
  <2>2. CASE Evaluated(p.week) \/ ~MayInsert(p)
    BY <2>1, <2>2, <1>3, <1>1 DEF BeginExperiment
  <2>3. CASE ~Evaluated(p.week) /\ MayInsert(p)
    <3>1. /\ DOMAIN experiments' = DOMAIN experiments \cup {p.week}
          /\ experiments'[p.week].champion = p.champion /\ experiments'[p.week].candidate = None
          /\ \A w \in DOMAIN experiments \ {p.week} : experiments'[w] = experiments[w]
      BY <2>3, <1>3 DEF BeginExperiment
    <3>2. p.week \notin DOMAIN experiments /\ p.champion \in DOMAIN artifacts
      BY <2>3 DEF Evaluated, MayInsert
    <3>3. \A w \in DOMAIN experiments' :
            {experiments'[w].champion, experiments'[w].candidate} \subseteq Named \cup {p.champion, None}
      BY <3>1, <3>2 DEF Referenced
    <3>4. Referenced(registration, snapshot, experiments)' \subseteq Named \cup {p.champion}
      BY <3>3, <2>1 DEF Referenced
    <3>. QED
      BY <3>4, <3>2, <2>1 DEF ReferencesResolve
  <2>. QED
    BY <2>2, <2>3
<1>4. ASSUME NEW r \in Runners, Commit(r) PROVE ReferencesResolve'
  <2> DEFINE p == pass[r]
  <2>1. CASE ~IsStored(p) \/ (p.promoted /\ registration = None)
    BY <2>1, <1>4, <1>1 DEF Commit
  <2>2. CASE IsStored(p) /\ p.promoted /\ registration # None
    <3> DEFINE n == drawn + 1
    <3>1. /\ registration' = n /\ snapshot' = n /\ experiments' = Decided(p, n)
          /\ artifacts' = ReplaceSnapshot(WithArtifact("auto-promotion", NextGeneration(p)), n, n, experiments)
      BY <2>2, <1>4 DEF Commit
    <3>2. Referenced(n, n, experiments) \subseteq DOMAIN artifacts'
      BY <3>1, ReplacementKeeps
    <3>3. n # None => n \in Referenced(n, n, experiments)
      BY DEF Referenced
    <3>4. /\ DOMAIN experiments' = DOMAIN experiments
          /\ \A w \in DOMAIN experiments' :
               /\ experiments'[w].champion = experiments[w].champion
               /\ experiments'[w].candidate \in {n, experiments[w].candidate}
      BY <3>1, <2>2 DEF Decided, IsStored
    <3>5. Referenced(registration, snapshot, experiments)' \subseteq Referenced(n, n, experiments)
      BY <3>1, <3>3, <3>4 DEF Referenced
    <3>. QED
      BY <3>2, <3>5 DEF ReferencesResolve
  <2>3. CASE IsStored(p) /\ ~p.promoted
    <3>1. experiments' = Decided(p, None) /\ UNCHANGED <<artifacts, registration, snapshot>>
      BY <2>3, <1>4 DEF Commit
    <3>2. /\ DOMAIN experiments' = DOMAIN experiments
          /\ \A w \in DOMAIN experiments' :
               /\ experiments'[w].champion = experiments[w].champion
               /\ experiments'[w].candidate \in {None, experiments[w].candidate}
      BY <3>1, <2>3 DEF Decided, IsStored
    <3>. QED
      BY <3>1, <3>2 DEF ReferencesResolve, Referenced
  <2>. QED
    BY <2>1, <2>2, <2>3
<1>5. ASSUME NEW r \in Runners, RecordFailure(r) PROVE ReferencesResolve'
  <2>1. UNCHANGED <<artifacts, registration, snapshot>> /\ DOMAIN experiments' = DOMAIN experiments
    BY <1>5 DEF RecordFailure
  <2>2. \A w \in DOMAIN experiments :
          /\ experiments'[w].champion = experiments[w].champion
          /\ experiments'[w].candidate = experiments[w].candidate
    BY <1>5 DEF RecordFailure, StillRunning, IsStored
  <2>. QED
    BY <2>1, <2>2 DEF ReferencesResolve, Referenced
<1>6. CASE Checkpoint
  <2>1. /\ UNCHANGED <<registration, experiments>> /\ snapshot' = drawn + 1
        /\ artifacts' = ReplaceSnapshot(WithArtifact("worker-snapshot", artifacts[registration].generation),
                                        registration, drawn + 1, experiments)
    BY <1>6 DEF Checkpoint
  <2>2. registration \in DOMAIN artifacts \cup {None}
    BY DEF ReferencesResolve, Referenced
  <2>. QED
    BY <2>1, <2>2, ReplacementKeeps DEF ReferencesResolve
<1>7. CASE DeleteCommit
  BY <1>7 DEF DeleteCommit, ReferencesResolve, Referenced
<1>8. ASSUME NEW r \in Runners,
             StartReflection(r) \/ StartBootstrap(r) \/ RefuseSeed(r) \/ FindChampion(r)
               \/ PrepareReflection(r) \/ Search(r) \/ Crash(r)
      PROVE  ReferencesResolve'
  BY <1>8, <1>1 DEF StartReflection, StartBootstrap, RefuseSeed, FindChampion, PrepareReflection,
                    Search, Crash, rows
<1>9. CASE Publish \/ DeleteRead \/ UNCHANGED vars
  BY <1>9, <1>1 DEF Publish, DeleteRead, rows, vars
<1>. QED
  BY <1>2, <1>3, <1>4, <1>5, <1>6, <1>7, <1>8, <1>9 DEF Next, Step

(* ReferencesResolve: the model and its experiments never name an artifact     *)
(* that is gone, whatever passes, checkpoints and deletions interleave.        *)
THEOREM ReferencesAlwaysResolve == Spec => []ReferencesResolve
<1>1. Init => ReferencesResolve
  BY DEF Init, ReferencesResolve, Referenced
<1>. QED
  BY <1>1, StepsResolve, PTL DEF Spec
-----------------------------------------------------------------------------
(* Types                                                                    *)

HasWeek(p) == p.step \in {"beginning", "searching", "committing", "failing"}

(* A pass that prepared has a week. *)
TypeInv == TypeOK /\ \A r \in Runners : HasWeek(pass[r]) => pass[r].week \in 1..Weeks

StoreOK ==
  /\ drawn \in Nat /\ begun \in Nat
  /\ DOMAIN artifacts \subseteq 1..drawn
  /\ \A a \in DOMAIN artifacts : artifacts[a] \in [source : Sources, generation : Nat]
  /\ registration \in 0..drawn /\ snapshot \in 0..drawn
  /\ DOMAIN experiments \subseteq 1..Weeks
  /\ \A w \in DOMAIN experiments : experiments[w] \in Experiments /\ experiments[w].id \in 1..begun

PassOK ==
  /\ pass \in [Runners -> Passes]
  /\ \A r \in Runners : HasWeek(pass[r]) => pass[r].week \in 1..Weeks

RestOK ==
  /\ deletions \in Nat /\ faults \in Nat /\ archived \in 0..Weeks
  /\ \A ids \in deletion : ids \subseteq 1..drawn

LEMMA TypeParts == TypeInv <=> StoreOK /\ PassOK /\ RestOK
BY DEF TypeInv, TypeOK, StoreOK, PassOK, RestOK

(* A runner's pass becomes another. *)
LEMMA PassBecomes ==
  ASSUME PassOK, NEW r \in Runners, NEW p \in Passes, pass' = [pass EXCEPT ![r] = p],
         HasWeek(p) => p.week \in 1..Weeks
  PROVE  PassOK'
BY DEF PassOK, HasWeek

LEMMA IdleIsPass == Idle \in Passes /\ ~HasWeek(Idle)
BY DEF Idle, Passes, PassSteps, HasWeek, None

LEMMA PassEnds ==
  ASSUME PassOK, NEW r \in Runners, Ends(r)
  PROVE  PassOK'
BY IdleIsPass, PassBecomes DEF Ends

LEMMA PassGoes ==
  ASSUME PassOK, NEW r \in Runners, NEW step \in PassSteps, Goes(r, step),
         HasWeek(pass[r])
  PROVE  PassOK'
<1> DEFINE p == [pass[r] EXCEPT !.step = step]
<1>1. p \in Passes /\ p.week = pass[r].week /\ pass' = [pass EXCEPT ![r] = p]
  BY DEF PassOK, Passes, Goes
<1>2. p.week \in 1..Weeks
  BY <1>1 DEF PassOK
<1>. QED
  BY <1>1, <1>2, PassBecomes

(* What garbage collection leaves is what was stored. *)
LEMMA CollectionTypes ==
  ASSUME NEW stored, NEW ids, NEW reg, NEW snap, NEW exps
  PROVE  LET left == DeleteUnreferenced(stored, ids, reg, snap, exps) IN
         DOMAIN left \subseteq DOMAIN stored /\ \A a \in DOMAIN left : left[a] = stored[a]
BY DEF DeleteUnreferenced, Restrict

LEMMA ArtifactTypes ==
  ASSUME StoreOK, NEW source \in Sources, NEW generation \in Nat
  PROVE  LET all == WithArtifact(source, generation) IN
         /\ DOMAIN all \subseteq 1..(drawn + 1)
         /\ \A a \in DOMAIN all : all[a] \in [source : Sources, generation : Nat]
BY DEF StoreOK, WithArtifact

LEMMA ReplacementTypes ==
  ASSUME StoreOK, NEW source \in Sources, NEW generation \in Nat, NEW reg, NEW snap, NEW exps
  PROVE  LET all == ReplaceSnapshot(WithArtifact(source, generation), reg, snap, exps) IN
         /\ DOMAIN all \subseteq 1..(drawn + 1)
         /\ \A a \in DOMAIN all : all[a] \in [source : Sources, generation : Nat]
BY ArtifactTypes, CollectionTypes DEF ReplaceSnapshot

(* A decision changes a row, not its type or its id. *)
LEMMA DecisionTypes ==
  ASSUME StoreOK, NEW p, NEW candidate \in Nat, p.promoted \in BOOLEAN
  PROVE  LET all == Decided(p, candidate) IN
         /\ DOMAIN all = DOMAIN experiments
         /\ \A w \in DOMAIN all : all[w] \in Experiments /\ all[w].id = experiments[w].id
<1> DEFINE all == Decided(p, candidate)
           status == IF p.promoted THEN "promoted" ELSE "rejected"
<1>1. DOMAIN all = DOMAIN experiments
  BY DEF Decided
<1>2. ASSUME NEW w \in DOMAIN experiments
      PROVE  all[w] \in Experiments /\ all[w].id = experiments[w].id
  <2>1. experiments[w] \in Experiments
    BY DEF StoreOK
  <2>2. CASE w # p.week
    BY <2>1, <2>2 DEF Decided
  <2>3. CASE w = p.week
    <3>1. all[w] = [experiments[w] EXCEPT !.status = status, !.candidate = candidate]
      BY <2>3 DEF Decided
    <3> HIDE DEF all
    <3>. QED
      BY <2>1, <3>1 DEF Experiments
  <2>. QED
    BY <2>2, <2>3
<1>. QED
  BY <1>1, <1>2

LEMMA RestFrame ==
  ASSUME RestOK, UNCHANGED <<archived, deletion, deletions>>, faults' \in Nat,
         drawn \in Nat, drawn' \in Nat, drawn' >= drawn
  PROVE  RestOK'
<1>1. \A ids \in deletion' : ids \subseteq 1..drawn'
  BY DEF RestOK
<1>. QED
  BY <1>1 DEF RestOK

LEMMA TypeSteps ==
  ASSUME TypeInv, ReferencesResolve, [Next]_vars
  PROVE  TypeInv'
<1>1. StoreOK /\ PassOK /\ RestOK
  BY TypeParts
<1>p. StoreOK' /\ PassOK' /\ RestOK' => TypeInv'
  BY DEF TypeInv, TypeOK, StoreOK, PassOK, RestOK
<1>. USE <1>p
<1>s. UNCHANGED rows => StoreOK'
  BY <1>1 DEF rows, StoreOK
<1>f. faults \in Nat /\ drawn \in Nat /\ drawn >= drawn /\ drawn + 1 >= drawn /\ drawn + 1 \in Nat
      /\ faults + 1 \in Nat
  BY <1>1 DEF RestOK, StoreOK
<1>2. ASSUME NEW r \in Runners, StartReflection(r) PROVE TypeInv'
  <2> DEFINE p == [pass[r] EXCEPT !.step = "finding", !.registered = registration]
  <2>1. p \in Passes /\ ~HasWeek(p)
    <3>1. pass[r] \in Passes /\ registration \in Nat /\ "finding" \in PassSteps
      BY <1>1 DEF PassOK, StoreOK, PassSteps
    <3>. QED
      BY <3>1 DEF Passes, HasWeek
  <2>2. pass' = [pass EXCEPT ![r] = p] /\ UNCHANGED <<rows, archived, deletion, deletions, faults>>
    BY <1>2, <1>1 DEF StartReflection, PassOK
  <2>3. PassOK'
    BY <1>1, <2>1, <2>2, PassBecomes
  <2>. QED
    BY <1>1, <2>2, <2>3, <1>s, <1>f, RestFrame DEF rows
<1>3. ASSUME NEW r \in Runners, StartBootstrap(r) PROVE TypeInv'
  <2> DEFINE p == [pass[r] EXCEPT !.step = "training", !.week = archived]
  <2>1. p \in Passes /\ ~HasWeek(p)
    <3>1. pass[r] \in Passes /\ archived \in Nat /\ "training" \in PassSteps
      BY <1>1, ResearchAssumption DEF PassOK, RestOK, PassSteps
    <3>. QED
      BY <3>1 DEF Passes, HasWeek
  <2>2. pass' = [pass EXCEPT ![r] = p] /\ UNCHANGED <<rows, archived, deletion, deletions, faults>>
    BY <1>3, <1>1 DEF StartBootstrap, PassOK
  <2>3. PassOK'
    BY <1>1, <2>1, <2>2, PassBecomes
  <2>. QED
    BY <1>1, <2>2, <2>3, <1>s, <1>f, RestFrame DEF rows
<1>4. ASSUME NEW r \in Runners, RefuseSeed(r) PROVE TypeInv'
  BY <1>4, <1>1, <1>s, <1>f, PassEnds, RestFrame DEF RefuseSeed, rows
<1>5. ASSUME NEW r \in Runners, StoreBootstrap(r) PROVE TypeInv'
  <2>1. PassOK' /\ UNCHANGED <<experiments, begun, archived, deletion, deletions, faults>>
    BY <1>5, <1>1, PassEnds DEF StoreBootstrap
  <2>2. CASE registration # None
    BY <2>1, <2>2, <1>5, <1>1, <1>s, <1>f, RestFrame DEF StoreBootstrap, rows
  <2>3. CASE /\ drawn' = drawn + 1 /\ artifacts' = WithArtifact("auto-bootstrap", 0)
             /\ registration' = drawn' /\ snapshot' = drawn'
    <3>1. /\ DOMAIN artifacts' \subseteq 1..(drawn + 1)
          /\ \A a \in DOMAIN artifacts' : artifacts'[a] \in [source : Sources, generation : Nat]
      BY <2>3, <1>1, ArtifactTypes DEF Sources
    <3>2. StoreOK'
      BY <2>1, <2>3, <3>1, <1>1, <1>f DEF StoreOK
    <3>. QED
      BY <2>1, <2>3, <3>2, <1>1, <1>f, RestFrame
  <2>4. CASE /\ \E seed \in StoredSeeds : registration' = seed /\ snapshot' = seed
             /\ UNCHANGED <<artifacts, drawn>>
    <3>1. registration' \in 0..drawn /\ snapshot' \in 0..drawn
      BY <2>4, <1>1 DEF StoredSeeds, StoreOK
    <3>2. StoreOK'
      BY <2>1, <2>4, <3>1, <1>1 DEF StoreOK
    <3>. QED
      BY <2>1, <2>4, <3>2, <1>1, <1>f, RestFrame
  <2>. QED
    BY <2>2, <2>3, <2>4, <1>5 DEF StoreBootstrap
<1>6. ASSUME NEW r \in Runners, FindChampion(r) PROVE TypeInv'
  <2> DEFINE c == IF snapshot # None THEN snapshot ELSE pass[r].registered
             p == [pass[r] EXCEPT !.step = "loading", !.champion = c]
  <2>1. c \in Nat
    BY <1>1 DEF StoreOK, PassOK, Passes
  <2>2. p \in Passes /\ ~HasWeek(p)
    BY <2>1, <1>1 DEF PassOK, Passes, PassSteps, HasWeek
  <2>3. pass' = [pass EXCEPT ![r] = p] /\ UNCHANGED <<rows, archived, deletion, deletions, faults>>
    BY <1>6, <1>1 DEF FindChampion, PassOK
  <2>4. PassOK'
    BY <1>1, <2>2, <2>3, PassBecomes
  <2>. QED
    BY <1>1, <2>3, <2>4, <1>s, <1>f, RestFrame DEF rows
<1>7. ASSUME NEW r \in Runners, PrepareReflection(r) PROVE TypeInv'
  <2>1. UNCHANGED <<rows, archived, deletion, deletions>> /\ faults' \in Nat
    BY <1>7, <1>f DEF PrepareReflection
  <2>2. CASE Ends(r)
    BY <2>1, <2>2, <1>1, <1>s, <1>f, PassEnds, RestFrame DEF rows
  <2>3. CASE ~Ends(r)
    <3> DEFINE g == artifacts[pass[r].champion].generation
               p == [pass[r] EXCEPT !.step = "beginning", !.week = archived, !.generation = g]
    <3>1. MayPrepare(pass[r]) /\ pass' = [pass EXCEPT ![r] = p]
      BY <2>3, <1>7, <1>1 DEF PrepareReflection, PassOK
    <3>2. g \in Nat /\ archived \in 1..Weeks
      BY <3>1, <1>1, ResearchAssumption DEF MayPrepare, StoreOK, RestOK
    <3>3. p \in Passes /\ p.week \in 1..Weeks
      <4>1. pass[r] \in Passes /\ archived \in Nat /\ "beginning" \in PassSteps
        BY <3>2, <1>1, ResearchAssumption DEF PassOK, PassSteps
      <4>. HIDE DEF g
      <4>. QED
        BY <3>2, <4>1 DEF Passes
    <3>4. PassOK'
      BY <1>1, <3>1, <3>3, PassBecomes
    <3>. QED
      BY <1>1, <2>1, <3>4, <1>s, <1>f, RestFrame DEF rows
  <2>. QED
    BY <2>2, <2>3
<1>8. ASSUME NEW r \in Runners, BeginExperiment(r) PROVE TypeInv'
  <2> DEFINE p == pass[r]
  <2>1. UNCHANGED <<artifacts, drawn, registration, snapshot, archived, deletion, deletions, faults>>
    BY <1>8 DEF BeginExperiment
  <2>2. CASE Evaluated(p.week) \/ ~MayInsert(p)
    BY <2>1, <2>2, <1>8, <1>1, <1>s, <1>f, PassEnds, RestFrame DEF BeginExperiment, rows
  <2>3. CASE ~Evaluated(p.week) /\ MayInsert(p)
    <3> DEFINE q == [p EXCEPT !.step = "searching", !.experiment = begun + 1]
               row == [id |-> begun + 1, status |-> "running", parent |-> p.generation,
                       champion |-> p.champion, candidate |-> None]
    <3>1. /\ begun' = begun + 1
          /\ experiments' = [w \in DOMAIN experiments \cup {p.week} |->
                               IF w = p.week THEN row ELSE experiments[w]]
          /\ pass' = [pass EXCEPT ![r] = q]
      BY <2>3, <1>8, <1>1 DEF BeginExperiment, PassOK
    <3>2. p \in Passes /\ p.week \in 1..Weeks
      BY <1>8, <1>1 DEF BeginExperiment, PassOK, HasWeek, At
    <3>3. q \in Passes /\ q.week \in 1..Weeks
      <4>1. begun + 1 \in Nat /\ "searching" \in PassSteps
        BY <1>1 DEF StoreOK, PassSteps
      <4>. QED
        BY <3>2, <4>1 DEF Passes
    <3>4. PassOK'
      BY <1>1, <3>1, <3>3, PassBecomes
    <3>5. row \in Experiments /\ row.id \in 1..(begun + 1)
      BY <3>2, <1>1 DEF Experiments, Passes, StoreOK, None
    <3>6. StoreOK'
      BY <2>1, <3>1, <3>2, <3>5, <1>1 DEF StoreOK
    <3>. QED
      BY <2>1, <3>4, <3>6, <1>1, <1>f, RestFrame
  <2>. QED
    BY <2>2, <2>3
<1>9. ASSUME NEW r \in Runners, Search(r) PROVE TypeInv'
  <2>1. PICK verdict \in Verdicts :
          pass' = [pass EXCEPT ![r].step = IF verdict # "error" /\ Confirms(pass[r])
                                           THEN "committing" ELSE "failing",
                               ![r].promoted = verdict = "promoted"]
    BY <1>9 DEF Search
  <2> DEFINE step == IF verdict # "error" /\ Confirms(pass[r]) THEN "committing" ELSE "failing"
             b == verdict = "promoted"
             p == [pass[r] EXCEPT !.step = step, !.promoted = b]
  <2>2. step \in PassSteps /\ b \in BOOLEAN
    BY DEF PassSteps
  <2>3. pass[r] \in Passes /\ pass[r].week \in 1..Weeks
    BY <1>9, <1>1 DEF Search, PassOK, HasWeek, At
  <2>4. p \in Passes /\ p.week \in 1..Weeks
    <3>. HIDE DEF step, b
    <3>. QED
      BY <2>2, <2>3 DEF Passes
  <2>5. pass' = [pass EXCEPT ![r] = p] /\ UNCHANGED <<rows, archived, deletion, deletions, faults>>
    BY <2>1, <1>9, <1>1 DEF Search, PassOK
  <2>6. PassOK'
    BY <1>1, <2>4, <2>5, PassBecomes
  <2>. QED
    BY <1>1, <2>5, <2>6, <1>s, <1>f, RestFrame DEF rows
<1>10. ASSUME NEW r \in Runners, Commit(r) PROVE TypeInv'
  <2> DEFINE p == pass[r]
  <2>1. UNCHANGED <<begun, archived, deletion, deletions, faults>>
    BY <1>10 DEF Commit
  <2>2. p \in Passes /\ HasWeek(p)
    BY <1>10, <1>1 DEF Commit, PassOK, HasWeek, At
  <2>3. CASE ~IsStored(p) \/ (p.promoted /\ registration = None)
    <3>1. PassOK' /\ UNCHANGED rows
      BY <2>1, <2>2, <2>3, <1>10, <1>1, PassGoes DEF Commit, rows, PassSteps
    <3>. QED
      BY <3>1, <2>1, <1>1, <1>s, <1>f, RestFrame DEF rows
  <2>4. CASE IsStored(p) /\ p.promoted /\ registration # None
    <3> DEFINE n == drawn + 1
    <3>1. /\ drawn' = n /\ registration' = n /\ snapshot' = n /\ experiments' = Decided(p, n)
          /\ artifacts' = ReplaceSnapshot(WithArtifact("auto-promotion", NextGeneration(p)), n, n, experiments)
          /\ Ends(r)
      BY <2>4, <1>10 DEF Commit
    <3>2. NextGeneration(p) \in Nat /\ "auto-promotion" \in Sources
      BY <2>2 DEF NextGeneration, Passes, Sources
    <3>3. /\ DOMAIN artifacts' \subseteq 1..n
          /\ \A a \in DOMAIN artifacts' : artifacts'[a] \in [source : Sources, generation : Nat]
      BY <3>1, <3>2, <1>1, ReplacementTypes
    <3>4. /\ DOMAIN experiments' = DOMAIN experiments
          /\ \A w \in DOMAIN experiments' :
               experiments'[w] \in Experiments /\ experiments'[w].id = experiments[w].id
      BY <3>1, <2>2, <1>1, <1>f, DecisionTypes DEF Passes
    <3>5. StoreOK'
      BY <2>1, <3>1, <3>3, <3>4, <1>1, <1>f DEF StoreOK
    <3>. QED
      BY <2>1, <3>1, <3>5, <1>1, <1>f, PassEnds, RestFrame
  <2>5. CASE IsStored(p) /\ ~p.promoted
    <3>1. experiments' = Decided(p, None) /\ UNCHANGED <<artifacts, drawn, registration, snapshot>> /\ Ends(r)
      BY <2>5, <1>10 DEF Commit
    <3>2. /\ DOMAIN experiments' = DOMAIN experiments
          /\ \A w \in DOMAIN experiments' :
               experiments'[w] \in Experiments /\ experiments'[w].id = experiments[w].id
      BY <3>1, <2>2, <1>1, DecisionTypes DEF Passes, None
    <3>3. StoreOK'
      BY <2>1, <3>1, <3>2, <1>1 DEF StoreOK
    <3>. QED
      BY <2>1, <3>1, <3>3, <1>1, <1>f, PassEnds, RestFrame
  <2>. QED
    BY <2>3, <2>4, <2>5
<1>11. ASSUME NEW r \in Runners, RecordFailure(r) PROVE TypeInv'
  <2>1. /\ UNCHANGED <<artifacts, drawn, registration, snapshot, begun, archived, deletion, deletions, faults>>
        /\ Ends(r)
    BY <1>11 DEF RecordFailure
  <2>2. /\ DOMAIN experiments' = DOMAIN experiments
        /\ \A w \in DOMAIN experiments' :
             experiments'[w] \in Experiments /\ experiments'[w].id = experiments[w].id
    BY <1>11, <1>1 DEF RecordFailure, StoreOK, Experiments
  <2>3. StoreOK'
    BY <2>1, <2>2, <1>1 DEF StoreOK
  <2>. QED
    BY <2>1, <2>3, <1>1, <1>f, PassEnds, RestFrame
<1>12. ASSUME NEW r \in Runners, Crash(r) PROVE TypeInv'
  BY <1>12, <1>1, <1>s, <1>f, PassEnds, RestFrame DEF Crash, rows
<1>13. CASE Checkpoint
  <2> DEFINE n == drawn + 1
             g == artifacts[registration].generation
  <2>1. /\ UNCHANGED <<registration, experiments, begun, archived, pass, deletion, deletions, faults>>
        /\ drawn' = n /\ snapshot' = n
        /\ artifacts' = ReplaceSnapshot(WithArtifact("worker-snapshot", g), registration, n, experiments)
    BY <1>13 DEF Checkpoint
  <2>2. registration \in DOMAIN artifacts
    BY <1>13 DEF Checkpoint, ReferencesResolve, Referenced
  <2>3. g \in Nat /\ "worker-snapshot" \in Sources
    BY <2>2, <1>1 DEF StoreOK, Sources
  <2>4. /\ DOMAIN artifacts' \subseteq 1..n
        /\ \A a \in DOMAIN artifacts' : artifacts'[a] \in [source : Sources, generation : Nat]
    BY <2>1, <2>3, <1>1, ReplacementTypes
  <2>5. StoreOK'
    BY <2>1, <2>4, <1>1, <1>f DEF StoreOK
  <2>6. PassOK'
    BY <2>1, <1>1 DEF PassOK
  <2>. QED
    BY <2>1, <2>5, <2>6, <1>1, <1>f, RestFrame
<1>14. CASE Publish
  <2>1. StoreOK' /\ PassOK'
    BY <1>14, <1>1, <1>s DEF Publish, PassOK
  <2>2. RestOK'
    BY <1>14, <1>1, ResearchAssumption DEF Publish, RestOK, rows
  <2>. QED
    BY <2>1, <2>2
<1>15. CASE DeleteRead
  <2>1. StoreOK' /\ PassOK'
    BY <1>15, <1>1, <1>s DEF DeleteRead, PassOK
  <2>2. ArtifactsOfModel \subseteq 1..drawn
    BY <1>1 DEF ArtifactsOfModel, ReferencesResolve, StoreOK
  <2>3. RestOK'
    <3>1. deletion' = {ArtifactsOfModel} /\ deletions' \in Nat /\ UNCHANGED <<drawn, archived, faults>>
      BY <1>15, <1>1 DEF DeleteRead, RestOK, rows
    <3>2. \A ids \in deletion' : ids \subseteq 1..drawn'
      BY <2>2, <3>1
    <3>. QED
      BY <3>1, <3>2, <1>1 DEF RestOK
  <2>. QED
    BY <2>1, <2>3
<1>16. CASE DeleteCommit
  <2>1. /\ DOMAIN artifacts' \subseteq DOMAIN artifacts
        /\ \A a \in DOMAIN artifacts' : artifacts'[a] = artifacts[a]
    BY <1>16, CollectionTypes DEF DeleteCommit
  <2>2. StoreOK'
    <3>1. /\ UNCHANGED <<drawn, begun>> /\ registration' = 0 /\ snapshot' = 0
          /\ experiments' = [w \in {} |-> 0]
      BY <1>16 DEF DeleteCommit, None
    <3>2. DOMAIN experiments' = {}
      BY <3>1
    <3>3. 0 \in 0..drawn
      BY <1>1 DEF StoreOK
    <3>. QED
      BY <2>1, <3>1, <3>2, <3>3, <1>1 DEF StoreOK
  <2>3. PassOK' /\ RestOK'
    BY <1>16, <1>1 DEF DeleteCommit, PassOK, RestOK
  <2>. QED
    BY <2>2, <2>3
<1>17. CASE UNCHANGED vars
  BY <1>17, <1>1, <1>s DEF vars, rows, PassOK, RestOK
<1>. QED
  BY <1>2, <1>3, <1>4, <1>5, <1>6, <1>7, <1>8, <1>9, <1>10, <1>11, <1>12, <1>13, <1>14, <1>15,
     <1>16, <1>17 DEF Next, Step

LEMMA TypeInvHolds == Spec => []TypeInv
<1>1. Init => TypeInv
  BY ResearchAssumption DEF Init, TypeInv, TypeOK, Idle, Passes, PassSteps, HasWeek, None
<1>. QED
  BY <1>1, TypeSteps, ReferencesAlwaysResolve, PTL DEF Spec
(* TypeOK: what a pass remembers, the rows and the artifacts keep their types. *)
THEOREM ResearchTypes == Spec => []TypeOK
<1>1. TypeInv => TypeOK
  BY DEF TypeInv
<1>. QED
  BY <1>1, TypeInvHolds, PTL

-----------------------------------------------------------------------------
(* Experiments and the passes that began them                               *)

(* Two passes never hold the same experiment, and one whose row is still there *)
(* finds it running.                                                           *)
OwnInv ==
  /\ \A r \in Runners :
       IsRow(pass[r]) =>
         /\ pass[r].experiment \in 1..begun
         /\ IsStored(pass[r]) => experiments[pass[r].week].status = "running"
  /\ \A r, s \in Runners :
       IsRow(pass[r]) /\ IsRow(pass[s]) /\ pass[r].experiment = pass[s].experiment => r = s

(* What a step does to the experiments, as an action. *)
OwnRows(w) ==
  experiments[w] # experiments'[w] =>
    \/ experiments'[w].id # experiments[w].id
    \/ /\ experiments[w].status = "running"
       /\ \E r \in Runners : IsRow(pass[r]) /\ pass[r].experiment = experiments[w].id
                             /\ pass'[r] = Idle

Own == \A w \in DOMAIN experiments \cap DOMAIN experiments' : OwnRows(w)

(* Steps that leave experiments alone, and begin no row. *)
LEMMA OwnFrame ==
  ASSUME OwnInv, UNCHANGED <<experiments, begun>>,
         \A r \in Runners : IsRow(pass'[r]) =>
           /\ IsRow(pass[r]) /\ pass'[r].experiment = pass[r].experiment
           /\ pass'[r].week = pass[r].week
  PROVE  OwnInv' /\ Own
BY DEF OwnInv, Own, OwnRows, IsStored

(* The pass of r ends with its row: it alone may have changed. *)
LEMMA OwnEnd ==
  ASSUME TypeInv, OwnInv, NEW r \in Runners, IsRow(pass[r]), Ends(r), UNCHANGED begun,
         DOMAIN experiments' = DOMAIN experiments,
         \A w \in DOMAIN experiments :
           /\ experiments'[w].id = experiments[w].id
           /\ ~(IsStored(pass[r]) /\ w = pass[r].week) => experiments'[w] = experiments[w]
  PROVE  OwnInv' /\ Own
<1>1. pass'[r] = Idle /\ ~IsRow(Idle) /\ \A s \in Runners \ {r} : pass'[s] = pass[s]
  BY DEF TypeInv, TypeOK, Ends, Idle, IsRow
<1>2. ASSUME NEW s \in Runners, IsRow(pass'[s])
      PROVE  /\ s # r /\ pass'[s] = pass[s]
             /\ pass[s].experiment \in 1..begun'
             /\ IsStored(pass[s])' => experiments'[pass[s].week].status = "running"
  <2>1. s # r /\ pass'[s] = pass[s] /\ IsRow(pass[s])
    BY <1>1, <1>2
  <2>2. pass[s].experiment # pass[r].experiment /\ pass[s].experiment \in 1..begun'
    BY <2>1 DEF OwnInv
  <2>3. ASSUME IsStored(pass[s])' PROVE experiments'[pass[s].week].status = "running"
    <3> DEFINE w == pass[s].week
    <3>1. w \in DOMAIN experiments /\ experiments[w].id = pass[s].experiment
      BY <2>1, <2>3 DEF IsStored
    <3>2. experiments'[w] = experiments[w]
      BY <3>1, <2>2 DEF IsStored
    <3>. QED
      BY <3>1, <3>2, <2>1 DEF OwnInv, IsStored
  <2>. QED
    BY <2>1, <2>2, <2>3
<1>3. OwnInv'
  <2>1. \A s \in Runners : IsRow(pass'[s]) =>
          /\ pass'[s].experiment \in 1..begun'
          /\ IsStored(pass[s])' => experiments'[pass'[s].week].status = "running"
    BY <1>2
  <2>2. \A s, t \in Runners :
          IsRow(pass'[s]) /\ IsRow(pass'[t]) /\ pass'[s].experiment = pass'[t].experiment => s = t
    BY <1>2 DEF OwnInv
  <2>. QED
    BY <2>1, <2>2 DEF OwnInv
<1>4. ASSUME NEW w \in DOMAIN experiments \cap DOMAIN experiments' PROVE OwnRows(w)
  <2>1. CASE IsStored(pass[r]) /\ w = pass[r].week
    <3>1. experiments[w].status = "running" /\ pass[r].experiment = experiments[w].id
      BY <2>1 DEF OwnInv, IsStored
    <3>. QED
      BY <3>1, <1>1 DEF OwnRows
  <2>2. CASE ~(IsStored(pass[r]) /\ w = pass[r].week)
    BY <2>2 DEF OwnRows
  <2>. QED
    BY <2>1, <2>2
<1>. QED
  BY <1>3, <1>4 DEF Own

LEMMA OwnSteps ==
  ASSUME TypeInv, OwnInv, [Next]_vars
  PROVE  OwnInv' /\ Own
<1>t. pass \in [Runners -> Passes] /\ begun \in Nat
  BY DEF TypeInv, TypeOK
<1>1. ASSUME NEW r \in Runners,
             StartReflection(r) \/ StartBootstrap(r) \/ FindChampion(r) \/ PrepareReflection(r)
               \/ RefuseSeed(r) \/ StoreBootstrap(r) \/ Crash(r)
      PROVE  OwnInv' /\ Own
  <2>1. UNCHANGED <<experiments, begun>> /\ \A s \in Runners \ {r} : pass'[s] = pass[s]
    BY <1>1, <1>t DEF StartReflection, StartBootstrap, FindChampion, PrepareReflection, RefuseSeed,
                      StoreBootstrap, Crash, Ends, rows
  <2>2. ~IsRow(pass'[r])
    BY <1>1, <1>t DEF StartReflection, StartBootstrap, FindChampion, PrepareReflection, RefuseSeed,
                      StoreBootstrap, Crash, Ends, Idle, IsRow, Passes
  <2>. QED
    BY <2>1, <2>2, OwnFrame
<1>2. ASSUME NEW r \in Runners, BeginExperiment(r) PROVE OwnInv' /\ Own
  <2> DEFINE p == pass[r]
  <2>1. CASE Evaluated(p.week) \/ ~MayInsert(p)
    <3>1. UNCHANGED <<experiments, begun>> /\ Ends(r)
      BY <2>1, <1>2 DEF BeginExperiment
    <3>2. ~IsRow(pass'[r]) /\ \A s \in Runners \ {r} : pass'[s] = pass[s]
      BY <3>1, <1>t DEF Ends, Idle, IsRow
    <3>. QED
      BY <3>1, <3>2, OwnFrame
  <2>2. CASE ~Evaluated(p.week) /\ MayInsert(p)
    <3> DEFINE row == [id |-> begun + 1, status |-> "running", parent |-> p.generation,
                       champion |-> p.champion, candidate |-> None]
    <3>1. /\ begun' = begun + 1
          /\ experiments' = [w \in DOMAIN experiments \cup {p.week} |->
                               IF w = p.week THEN row ELSE experiments[w]]
          /\ pass' = [pass EXCEPT ![r].step = "searching", ![r].experiment = begun + 1]
      BY <2>2, <1>2 DEF BeginExperiment
    <3>2. /\ pass'[r].experiment = begun + 1 /\ pass'[r].week = p.week
          /\ \A s \in Runners \ {r} : pass'[s] = pass[s]
      BY <3>1, <1>t DEF Passes
    <3>3. p.week \notin DOMAIN experiments
      BY <2>2 DEF Evaluated
    <3>4. /\ experiments'[p.week].status = "running" /\ experiments'[p.week].id = begun + 1
          /\ \A w \in DOMAIN experiments : w # p.week /\ experiments'[w] = experiments[w]
          /\ DOMAIN experiments' = DOMAIN experiments \cup {p.week}
      BY <3>1, <3>3
    <3>5. Own
      BY <3>4 DEF Own, OwnRows
    <3>6. \A s \in Runners \ {r} : IsRow(pass'[s]) =>
            /\ pass'[s].experiment \in 1..begun
            /\ IsStored(pass[s])' => experiments'[pass'[s].week].status = "running"
      <4> SUFFICES ASSUME NEW s \in Runners \ {r}, IsRow(pass'[s])
                   PROVE  /\ pass'[s].experiment \in 1..begun
                          /\ IsStored(pass[s])' => experiments'[pass'[s].week].status = "running"
        OBVIOUS
      <4>1. pass'[s] = pass[s] /\ pass[s].experiment \in 1..begun
        BY <3>2 DEF OwnInv
      <4>2. ASSUME IsStored(pass[s])' PROVE IsStored(pass[s]) /\ pass[s].week # p.week
        BY <4>1, <4>2, <3>4, <1>t DEF IsStored
      <4>. QED
        BY <4>1, <4>2, <3>4 DEF OwnInv, IsStored
    <3>7. OwnInv'
      <4>1. begun + 1 \in 1..begun' /\ 1..begun \subseteq 1..begun' /\ begun + 1 \notin 1..begun
        BY <3>1, <1>t
      <4>2. \A s \in Runners : IsRow(pass'[s]) =>
              /\ pass'[s].experiment \in 1..begun'
              /\ IsStored(pass[s])' => experiments'[pass'[s].week].status = "running"
        BY <4>1, <3>2, <3>4, <3>6
      <4>3. \A s, t \in Runners :
              IsRow(pass'[s]) /\ IsRow(pass'[t]) /\ pass'[s].experiment = pass'[t].experiment => s = t
        BY <4>1, <3>2, <3>6 DEF OwnInv
      <4>. QED
        BY <4>2, <4>3 DEF OwnInv
    <3>. QED
      BY <3>5, <3>7
  <2>. QED
    BY <2>1, <2>2
<1>3. ASSUME NEW r \in Runners, Search(r) PROVE OwnInv' /\ Own
  <2>1. /\ UNCHANGED <<experiments, begun>> /\ IsRow(pass[r])
        /\ \A s \in Runners \ {r} : pass'[s] = pass[s]
    BY <1>3, <1>t DEF Search, rows, At, IsRow
  <2>2. pass'[r].experiment = pass[r].experiment /\ pass'[r].week = pass[r].week
    BY <1>3, <1>t DEF Search, Passes
  <2>. QED
    BY <2>1, <2>2, OwnFrame
<1>4. ASSUME NEW r \in Runners, Commit(r) PROVE OwnInv' /\ Own
  <2> DEFINE p == pass[r]
  <2>1. UNCHANGED begun /\ IsRow(p)
    BY <1>4 DEF Commit, At, IsRow
  <2>2. CASE ~IsStored(p) \/ (p.promoted /\ registration = None)
    <3>1. UNCHANGED experiments /\ pass' = [pass EXCEPT ![r].step = "failing"]
      BY <2>2, <1>4 DEF Commit, Goes
    <3>2. \A s \in Runners : pass'[s].experiment = pass[s].experiment /\ pass'[s].week = pass[s].week
      BY <3>1, <1>t DEF Passes
    <3>3. \A s \in Runners : IsRow(pass'[s]) => IsRow(pass[s])
      BY <3>1, <2>1, <1>t
    <3>. QED
      BY <3>1, <3>2, <3>3, <2>1, OwnFrame
  <2>3. CASE IsStored(p) /\ ~(p.promoted /\ registration = None)
    <3>1. Ends(r) /\ \E candidate : experiments' = Decided(p, candidate)
      BY <2>3, <1>4 DEF Commit
    <3>2. /\ DOMAIN experiments' = DOMAIN experiments
          /\ \A w \in DOMAIN experiments :
               /\ experiments'[w].id = experiments[w].id
               /\ w # p.week => experiments'[w] = experiments[w]
      BY <3>1 DEF Decided, TypeInv, TypeOK, Experiments
    <3>. QED
      BY <3>1, <3>2, <2>1, <2>3, OwnEnd
  <2>. QED
    BY <2>2, <2>3
<1>5. ASSUME NEW r \in Runners, RecordFailure(r) PROVE OwnInv' /\ Own
  <2>1. Ends(r) /\ UNCHANGED begun /\ IsRow(pass[r])
    BY <1>5 DEF RecordFailure, At, IsRow
  <2>2. /\ DOMAIN experiments' = DOMAIN experiments
        /\ \A w \in DOMAIN experiments :
             /\ experiments'[w].id = experiments[w].id
             /\ ~(IsStored(pass[r]) /\ w = pass[r].week) => experiments'[w] = experiments[w]
    BY <1>5 DEF RecordFailure, StillRunning, TypeInv, TypeOK, Experiments
  <2>. QED
    BY <2>1, <2>2, OwnEnd
<1>6. CASE Checkpoint \/ Publish \/ DeleteRead \/ UNCHANGED vars
  <2>1. UNCHANGED <<experiments, begun, pass>>
    BY <1>6 DEF Checkpoint, Publish, DeleteRead, rows, vars
  <2>. QED
    BY <2>1, OwnFrame
<1>7. CASE DeleteCommit
  <2>1. UNCHANGED <<begun, pass>> /\ experiments' = [w \in {} |-> 0]
    BY <1>7 DEF DeleteCommit
  <2>2. DOMAIN experiments' = {}
    BY <2>1
  <2>. QED
    BY <2>1, <2>2 DEF OwnInv, Own, IsStored
<1>. QED
  BY <1>1, <1>2, <1>3, <1>4, <1>5, <1>6, <1>7 DEF Next, Step

(* PassesFinishTheirOwn: an experiment is ended once, by the pass that began   *)
(* it, whatever other passes, deletions and crashes do meanwhile.              *)
THEOREM ExperimentsEndOnce == Spec => PassesFinishTheirOwn
<1>1. Init => OwnInv
  BY DEF Init, OwnInv, Idle, IsRow
<1>2. TypeInv /\ OwnInv /\ [Next]_vars => OwnInv' /\ [Own]_vars
  BY OwnSteps
<1>3. Spec => []OwnInv
  BY <1>1, <1>2, TypeInvHolds, PTL DEF Spec
<1>. QED
  BY <1>2, <1>3, TypeInvHolds, PTL DEF Spec, PassesFinishTheirOwn, Own, OwnRows

-----------------------------------------------------------------------------
(* What research keeps between the champion, its artifacts and the experiments, *)
(* for any number of runners, weeks, deletions and faults.                      *)

(* OwnInv: two passes never hold one experiment, and a row that is there runs. *)
LEMMA OwnInvHolds == Spec => []OwnInv
<1>1. Init => OwnInv
  BY DEF Init, OwnInv, Idle, IsRow
<1>2. TypeInv /\ OwnInv /\ [Next]_vars => OwnInv'
  BY OwnSteps
<1>. QED
  BY <1>1, <1>2, TypeInvHolds, PTL DEF Spec
-----------------------------------------------------------------------------
(* What a step does to artifacts and experiments                            *)

(* An artifact that stays is what it was; a new one has the next id. *)
Endures(a) == a \in DOMAIN artifacts /\ artifacts'[a] = artifacts[a]

Joins(a) ==
  /\ a = drawn + 1
  /\ artifacts'[a].source = "auto-bootstrap" => artifacts'[a].generation = 0

ArtifactsEndure == \A a \in DOMAIN artifacts' : Endures(a) \/ Joins(a)

(* A row that stays keeps what it was begun with, and changes only as it ends. *)
RowEndures(w) ==
  /\ experiments'[w].id = experiments[w].id
  /\ experiments'[w].parent = experiments[w].parent
  /\ experiments'[w].champion = experiments[w].champion
  /\ experiments'[w] # experiments[w] =>
       experiments[w].status = "running" /\ experiments'[w].status # "running"

RowsEndure == \A w \in DOMAIN experiments \cap DOMAIN experiments' : RowEndures(w)

(* A new artifact is stored, and the snapshot it replaces goes unless it is named: *)
LEMMA ReplacementDomain ==
  ASSUME NEW source, NEW generation, NEW reg, NEW snap, NEW exps, NEW left,
         left = ReplaceSnapshot(WithArtifact(source, generation), reg, snap, exps)
  PROVE  DOMAIN left = (DOMAIN artifacts \cup {drawn + 1})
                         \ (({snapshot} \ {snap}) \ Referenced(reg, snap, exps))
BY StoredJoins DEF ReplaceSnapshot, DeleteUnreferenced, Restrict

(* what was stored is as it was, *)
LEMMA ReplacementOld ==
  ASSUME NEW source, NEW generation, NEW reg, NEW snap, NEW exps, NEW left,
         left = ReplaceSnapshot(WithArtifact(source, generation), reg, snap, exps),
         NEW a \in DOMAIN left, a # drawn + 1
  PROVE  a \in DOMAIN artifacts /\ left[a] = artifacts[a]
<1> DEFINE stored == WithArtifact(source, generation)
<1>1. a \in DOMAIN stored => a \in DOMAIN artifacts /\ stored[a] = artifacts[a]
  BY DEF WithArtifact
<1> HIDE DEF stored
<1>2. a \in DOMAIN stored /\ left[a] = stored[a]
  BY DEF ReplaceSnapshot, DeleteUnreferenced, Restrict, stored
<1>. QED
  BY <1>1, <1>2

(* and the new one is what was asked for. *)
LEMMA ReplacementNew ==
  ASSUME NEW source, NEW generation, NEW reg, NEW snap, NEW exps, NEW left,
         left = ReplaceSnapshot(WithArtifact(source, generation), reg, snap, exps),
         drawn + 1 \in DOMAIN left
  PROVE  left[drawn + 1] = [source |-> source, generation |-> generation]
<1> DEFINE stored == WithArtifact(source, generation)
<1>1. stored[drawn + 1] = [source |-> source, generation |-> generation]
  BY DEF WithArtifact
<1> HIDE DEF stored
<1>2. left[drawn + 1] = stored[drawn + 1]
  BY DEF ReplaceSnapshot, DeleteUnreferenced, Restrict, stored
<1>. QED
  BY <1>1, <1>2

(* The ids of stored artifacts and of the model are given out already. *)
LEMMA NextIsFresh ==
  ASSUME TypeInv
  PROVE  /\ drawn + 1 \notin DOMAIN artifacts /\ drawn + 1 # None
         /\ registration # drawn + 1 /\ snapshot # drawn + 1
<1>1. drawn \in Nat /\ DOMAIN artifacts \subseteq 1..drawn /\ registration \in 0..drawn /\ snapshot \in 0..drawn
  BY DEF TypeInv, TypeOK
<1>. QED
  BY <1>1 DEF None

(* The bytes and the origin of an artifact never change, whoever stores others. *)
LEMMA ArtifactsSteps ==
  ASSUME TypeInv, [Next]_vars
  PROVE  ArtifactsEndure
<1>. USE DEF ArtifactsEndure, Endures, Joins
<1>1. CASE UNCHANGED artifacts
  BY <1>1
<1>2. ASSUME NEW r \in Runners, StoreBootstrap(r) PROVE ArtifactsEndure
  <2>1. CASE artifacts' = WithArtifact("auto-bootstrap", 0)
    BY <2>1 DEF WithArtifact
  <2>. QED
    BY <2>1, <1>2, <1>1 DEF StoreBootstrap
<1>3. ASSUME NEW source \in {"auto-promotion", "worker-snapshot"}, NEW generation, NEW reg, NEW snap,
             artifacts' = ReplaceSnapshot(WithArtifact(source, generation), reg, snap, experiments)
      PROVE  ArtifactsEndure
  <2>1. drawn + 1 \in DOMAIN artifacts' =>
          artifacts'[drawn + 1] = [source |-> source, generation |-> generation]
    BY <1>3, ReplacementNew
  <2>2. \A a \in DOMAIN artifacts' : a # drawn + 1 => a \in DOMAIN artifacts /\ artifacts'[a] = artifacts[a]
    BY <1>3, ReplacementOld
  <2>. QED
    BY <2>1, <2>2
<1>4. ASSUME NEW r \in Runners, Commit(r) PROVE ArtifactsEndure
  BY <1>4, <1>3, <1>1 DEF Commit
<1>5. CASE Checkpoint
  BY <1>5, <1>3 DEF Checkpoint
<1>6. CASE DeleteCommit
  BY <1>6, CollectionTypes DEF DeleteCommit
<1>7. ASSUME NEW r \in Runners,
             StartReflection(r) \/ StartBootstrap(r) \/ RefuseSeed(r) \/ FindChampion(r)
               \/ PrepareReflection(r) \/ BeginExperiment(r) \/ Search(r) \/ RecordFailure(r) \/ Crash(r)
      PROVE  ArtifactsEndure
  BY <1>7, <1>1 DEF StartReflection, StartBootstrap, RefuseSeed, FindChampion, PrepareReflection,
                    BeginExperiment, Search, RecordFailure, Crash, rows
<1>8. CASE Publish \/ DeleteRead \/ UNCHANGED vars
  BY <1>8, <1>1 DEF Publish, DeleteRead, rows, vars
<1>. QED
  BY <1>2, <1>4, <1>5, <1>6, <1>7, <1>8 DEF Next, Step

(* A decision leaves every other row alone, and of its own what it was begun with. *)
LEMMA DecisionEndures ==
  ASSUME TypeInv, NEW p, NEW candidate
  PROVE  LET all == Decided(p, candidate) IN
         /\ DOMAIN all = DOMAIN experiments
         /\ \A w \in DOMAIN experiments :
              /\ all[w].id = experiments[w].id /\ all[w].parent = experiments[w].parent
              /\ all[w].champion = experiments[w].champion
              /\ w # p.week => all[w] = experiments[w]
              /\ w = p.week => /\ all[w].candidate = candidate
                               /\ all[w].status = IF p.promoted THEN "promoted" ELSE "rejected"
<1> DEFINE all == Decided(p, candidate)
           status == IF p.promoted THEN "promoted" ELSE "rejected"
<1>1. DOMAIN all = DOMAIN experiments
  BY DEF Decided
<1>2. ASSUME NEW w \in DOMAIN experiments
      PROVE  /\ all[w].id = experiments[w].id /\ all[w].parent = experiments[w].parent
             /\ all[w].champion = experiments[w].champion
             /\ w # p.week => all[w] = experiments[w]
             /\ w = p.week => all[w].candidate = candidate /\ all[w].status = status
  <2>1. experiments[w] \in Experiments
    BY DEF TypeInv, TypeOK
  <2>2. CASE w # p.week
    BY <2>1, <2>2 DEF Decided
  <2>3. CASE w = p.week
    <3>1. all[w] = [experiments[w] EXCEPT !.status = status, !.candidate = candidate]
      BY <2>3 DEF Decided
    <3> HIDE DEF all, status
    <3>. QED
      BY <2>1, <2>3, <3>1 DEF Experiments
  <2>. QED
    BY <2>2, <2>3
<1>. QED
  BY <1>1, <1>2

(* A failure leaves every other row alone, and of its own all but the status. *)
LEMMA FailureEndures ==
  ASSUME TypeInv, NEW r \in Runners, RecordFailure(r)
  PROVE  /\ DOMAIN experiments' = DOMAIN experiments
         /\ \A w \in DOMAIN experiments :
              /\ experiments'[w].id = experiments[w].id /\ experiments'[w].parent = experiments[w].parent
              /\ experiments'[w].champion = experiments[w].champion
              /\ experiments'[w].candidate = experiments[w].candidate
              /\ ~(StillRunning(pass[r]) /\ w = pass[r].week) => experiments'[w] = experiments[w]
              /\ StillRunning(pass[r]) /\ w = pass[r].week => experiments'[w].status = "failed"
<1>1. CASE ~StillRunning(pass[r])
  BY <1>1 DEF RecordFailure
<1>2. CASE StillRunning(pass[r])
  <2>1. experiments' = [experiments EXCEPT ![pass[r].week].status = "failed"]
    BY <1>2 DEF RecordFailure
  <2>2. \A w \in DOMAIN experiments : experiments[w] \in Experiments
    BY DEF TypeInv, TypeOK
  <2>. QED
    BY <1>2, <2>1, <2>2 DEF Experiments
<1>. QED
  BY <1>1, <1>2

(* Rows: what a step does to the experiment of a week that has one before and after it. *)
LEMMA RowsSteps ==
  ASSUME TypeInv, OwnInv, [Next]_vars
  PROVE  RowsEndure
<1> DEFINE Begun(w) == /\ experiments'[w].id = experiments[w].id
                       /\ experiments'[w].parent = experiments[w].parent
                       /\ experiments'[w].champion = experiments[w].champion
                       /\ experiments'[w] # experiments[w] => experiments'[w].status # "running"
<1>1. \A w \in DOMAIN experiments \cap DOMAIN experiments' : Begun(w)
  <2>1. CASE UNCHANGED experiments
    BY <2>1
  <2>2. ASSUME NEW r \in Runners, BeginExperiment(r)
        PROVE  \A w \in DOMAIN experiments \cap DOMAIN experiments' : Begun(w)
    BY <2>2 DEF BeginExperiment, Evaluated
  <2>3. ASSUME NEW r \in Runners, Commit(r)
        PROVE  \A w \in DOMAIN experiments \cap DOMAIN experiments' : Begun(w)
    <3>1. UNCHANGED experiments \/ \E candidate : experiments' = Decided(pass[r], candidate)
      BY <2>3 DEF Commit
    <3>2. CASE UNCHANGED experiments
      BY <3>2
    <3>3. ASSUME NEW candidate, experiments' = Decided(pass[r], candidate)
          PROVE  \A w \in DOMAIN experiments \cap DOMAIN experiments' : Begun(w)
      <4>1. \A w \in DOMAIN experiments :
              LET all == Decided(pass[r], candidate) IN
              /\ all[w].id = experiments[w].id /\ all[w].parent = experiments[w].parent
              /\ all[w].champion = experiments[w].champion
              /\ all[w] # experiments[w] => all[w].status # "running"
        BY DecisionEndures
      <4>. QED
        BY <3>3, <4>1
    <3>. QED
      BY <3>1, <3>2, <3>3
  <2>4. ASSUME NEW r \in Runners, RecordFailure(r)
        PROVE  \A w \in DOMAIN experiments \cap DOMAIN experiments' : Begun(w)
    BY <2>4, FailureEndures
  <2>5. ASSUME NEW r \in Runners,
               StartReflection(r) \/ StartBootstrap(r) \/ RefuseSeed(r) \/ StoreBootstrap(r)
                 \/ FindChampion(r) \/ PrepareReflection(r) \/ Search(r) \/ Crash(r)
        PROVE  UNCHANGED experiments
    BY <2>5 DEF StartReflection, StartBootstrap, RefuseSeed, StoreBootstrap, FindChampion,
                PrepareReflection, Search, Crash, rows
  <2>6. CASE Checkpoint \/ Publish \/ DeleteRead \/ UNCHANGED vars
    BY <2>6, <2>1 DEF Checkpoint, Publish, DeleteRead, rows, vars
  <2>7. CASE DeleteCommit
    BY <2>7 DEF DeleteCommit
  <2>. QED
    BY <2>1, <2>2, <2>3, <2>4, <2>5, <2>6, <2>7 DEF Next, Step
<1>2. Own
  BY OwnSteps
<1>3. ASSUME NEW w \in DOMAIN experiments \cap DOMAIN experiments' PROVE RowEndures(w)
  <2>1. OwnRows(w) /\ Begun(w)
    BY <1>1, <1>2 DEF Own
  <2>. QED
    BY <2>1 DEF OwnRows, RowEndures
<1>. QED
  BY <1>3 DEF RowsEndure

(* A pass goes on with its row, *)
Continues(r) ==
  /\ IsRow(pass[r])
  /\ pass'[r].week = pass[r].week /\ pass'[r].experiment = pass[r].experiment
  /\ pass'[r].generation = pass[r].generation

(* or has begun one, in a week that had none. *)
Begins(r) ==
  LET w == pass'[r].week IN
  /\ pass'[r].experiment = begun + 1
  /\ w \notin DOMAIN experiments /\ DOMAIN experiments' = DOMAIN experiments \cup {w}
  /\ experiments'[w].id = begun + 1 /\ experiments'[w].status = "running"
  /\ experiments'[w].parent = pass'[r].generation /\ experiments'[w].candidate = None

(* Beginning an experiment: the pass ends, or its row is a new one of its week. *)
LEMMA BeginSteps ==
  ASSUME TypeInv, NEW r \in Runners, BeginExperiment(r)
  PROVE  /\ \A s \in Runners \ {r} : pass'[s] = pass[s]
         /\ \/ ~IsRow(pass'[r]) /\ UNCHANGED experiments
            \/ IsRow(pass'[r]) /\ Begins(r)
<1> DEFINE p == pass[r]
<1>t. pass \in [Runners -> Passes]
  BY DEF TypeInv, TypeOK
<1>1. CASE Evaluated(p.week) \/ ~MayInsert(p)
  <2>1. UNCHANGED experiments /\ pass' = [pass EXCEPT ![r] = Idle]
    BY <1>1 DEF BeginExperiment, Ends
  <2>. QED
    BY <2>1, <1>t DEF Idle, IsRow
<1>2. CASE ~Evaluated(p.week) /\ MayInsert(p)
  <2> DEFINE row == [id |-> begun + 1, status |-> "running", parent |-> p.generation,
                     champion |-> p.champion, candidate |-> None]
             q == [p EXCEPT !.step = "searching", !.experiment = begun + 1]
  <2>1. /\ experiments' = [w \in DOMAIN experiments \cup {p.week} |->
                             IF w = p.week THEN row ELSE experiments[w]]
        /\ pass' = [pass EXCEPT ![r].step = "searching", ![r].experiment = begun + 1]
    BY <1>2 DEF BeginExperiment
  <2>2. /\ pass'[r].step = "searching" /\ pass'[r].experiment = begun + 1 /\ pass'[r].week = p.week
        /\ pass'[r].generation = p.generation
        /\ \A s \in Runners \ {r} : pass'[s] = pass[s]
    BY <2>1, <1>t DEF Passes
  <2>3. p.week \notin DOMAIN experiments /\ DOMAIN experiments' = DOMAIN experiments \cup {p.week}
        /\ experiments'[p.week] = row
    BY <2>1, <1>2 DEF Evaluated
  <2>. QED
    BY <2>2, <2>3 DEF Begins, IsRow
<1>. QED
  BY <1>1, <1>2

(* Passes: every row a pass holds after a step it held before, or has begun. *)
LEMMA PassesSteps ==
  ASSUME TypeInv, [Next]_vars, NEW r \in Runners, IsRow(pass'[r])
  PROVE  Continues(r) \/ Begins(r)
<1>t. pass \in [Runners -> Passes]
  BY DEF TypeInv, TypeOK
<1>0. CASE pass'[r] = pass[r]
  BY <1>0 DEF Continues
<1>1. ASSUME NEW s \in Runners,
             StartReflection(s) \/ StartBootstrap(s) \/ FindChampion(s) \/ PrepareReflection(s)
               \/ RefuseSeed(s) \/ StoreBootstrap(s) \/ RecordFailure(s) \/ Crash(s)
      PROVE  pass'[r] = pass[r]
  <2>1. s # r => pass'[r] = pass[r]
    BY <1>1, <1>t DEF StartReflection, StartBootstrap, FindChampion, PrepareReflection, RefuseSeed,
                      StoreBootstrap, RecordFailure, Crash, Ends
  <2>2. ~IsRow(pass'[s])
    BY <1>1, <1>t DEF StartReflection, StartBootstrap, FindChampion, PrepareReflection, RefuseSeed,
                      StoreBootstrap, RecordFailure, Crash, Ends, Idle, IsRow, Passes
  <2>. QED
    BY <2>1, <2>2
<1>2. ASSUME NEW s \in Runners, BeginExperiment(s) PROVE pass'[r] = pass[r] \/ Begins(r)
  BY <1>2, BeginSteps
<1>3. ASSUME NEW s \in Runners, Search(s) PROVE pass'[r] = pass[r] \/ Continues(r)
  <2>1. s # r => pass'[r] = pass[r]
    BY <1>3, <1>t DEF Search
  <2>2. s = r => Continues(r)
    BY <1>3, <1>t DEF Search, Continues, At, IsRow, Passes
  <2>. QED
    BY <2>1, <2>2
<1>4. ASSUME NEW s \in Runners, Commit(s) PROVE pass'[r] = pass[r] \/ Continues(r)
  <2>1. Goes(s, "failing") \/ Ends(s)
    BY <1>4 DEF Commit
  <2>2. s # r => pass'[r] = pass[r]
    BY <2>1, <1>t DEF Goes, Ends
  <2>3. ASSUME s = r PROVE Continues(r)
    <3>1. ~Ends(s)
      BY <2>3, <1>t DEF Ends, Idle, IsRow
    <3>2. IsRow(pass[r])
      BY <2>3, <1>4 DEF Commit, At, IsRow
    <3>. QED
      BY <2>1, <2>3, <3>1, <3>2, <1>t DEF Goes, Continues, Passes
  <2>. QED
    BY <2>2, <2>3
<1>5. CASE Checkpoint \/ Publish \/ DeleteRead \/ DeleteCommit \/ UNCHANGED vars
  BY <1>5, <1>0 DEF Checkpoint, Publish, DeleteRead, DeleteCommit, vars
<1>. QED
  BY <1>0, <1>1, <1>2, <1>3, <1>4, <1>5 DEF Next, Step

(* Every new row is one a pass has just begun. *)
LEMMA RowsBegin ==
  ASSUME TypeInv, [Next]_vars, NEW w \in DOMAIN experiments' \ DOMAIN experiments
  PROVE  \E r \in Runners : IsRow(pass'[r]) /\ Begins(r) /\ w = pass'[r].week
<1>0. ASSUME DOMAIN experiments' \subseteq DOMAIN experiments PROVE FALSE
  BY <1>0
<1>1. ASSUME NEW r \in Runners, BeginExperiment(r)
      PROVE  IsRow(pass'[r]) /\ Begins(r) /\ w = pass'[r].week
  <2>1. IsRow(pass'[r]) /\ Begins(r)
    BY <1>1, BeginSteps
  <2>. QED
    BY <2>1 DEF Begins
<1>2. ASSUME NEW r \in Runners,
             StartReflection(r) \/ StartBootstrap(r) \/ RefuseSeed(r) \/ StoreBootstrap(r)
               \/ FindChampion(r) \/ PrepareReflection(r) \/ Search(r) \/ Crash(r)
      PROVE  FALSE
  BY <1>2, <1>0 DEF StartReflection, StartBootstrap, RefuseSeed, StoreBootstrap, FindChampion,
                    PrepareReflection, Search, Crash, rows
<1>3. ASSUME NEW r \in Runners, Commit(r) \/ RecordFailure(r) PROVE FALSE
  <2>1. DOMAIN experiments' = DOMAIN experiments
    BY <1>3 DEF Commit, RecordFailure, Decided
  <2>. QED
    BY <2>1, <1>0
<1>4. CASE DeleteCommit
  <2>1. experiments' = [v \in {} |-> 0]
    BY <1>4 DEF DeleteCommit
  <2>. QED
    BY <2>1, <1>0
<1>5. CASE Checkpoint \/ Publish \/ DeleteRead \/ UNCHANGED vars
  BY <1>5, <1>0 DEF Checkpoint, Publish, DeleteRead, rows, vars
<1>. QED
  BY <1>1, <1>2, <1>3, <1>4, <1>5 DEF Next, Step
-----------------------------------------------------------------------------
(* Passes and their rows                                                    *)

(* A pass whose row is there was begun with the row's generation; no other week *)
(* has its experiment; and what is running has no candidate yet.                *)
ParentsMatch ==
  \A r \in Runners :
    IsRow(pass[r]) /\ IsStored(pass[r]) => experiments[pass[r].week].parent = pass[r].generation

RowsMatch ==
  \A r \in Runners : IsRow(pass[r]) =>
    \A w \in DOMAIN experiments : experiments[w].id = pass[r].experiment => w = pass[r].week

Undecided ==
  \A w \in DOMAIN experiments : experiments[w].status = "running" => experiments[w].candidate = None

RowsInv == ParentsMatch /\ RowsMatch /\ Undecided

(* RowsInv holds after every step: new ids are fresh, and rows keep what they were begun with. *)
LEMMA RowsInvSteps ==
  ASSUME TypeInv, OwnInv, RowsInv, [Next]_vars
  PROVE  RowsInv'
<1>t. begun \in Nat /\ begun + 1 \notin 1..begun
  BY DEF TypeInv, TypeOK
<1>i. \A w \in DOMAIN experiments : experiments[w].id \in 1..begun
  BY DEF TypeInv, TypeOK
<1>o. \A r \in Runners : IsRow(pass[r]) => pass[r].experiment \in 1..begun
  BY DEF OwnInv
<1>e. \A w \in DOMAIN experiments \cap DOMAIN experiments' : RowEndures(w)
  BY RowsSteps DEF RowsEndure
<1>n. \A w \in DOMAIN experiments' \ DOMAIN experiments :
        \E r \in Runners : IsRow(pass'[r]) /\ Begins(r) /\ w = pass'[r].week
  BY RowsBegin
<1>m. \A w \in DOMAIN experiments' \ DOMAIN experiments :
        experiments'[w].id = begun + 1 /\ experiments'[w].status = "running" /\ experiments'[w].candidate = None
  BY <1>n DEF Begins
<1>p. \A r \in Runners : IsRow(pass'[r]) => Continues(r) \/ Begins(r)
  BY PassesSteps
<1>1. ASSUME NEW r \in Runners, IsRow(pass'[r])
      PROVE  /\ IsStored(pass[r])' => experiments'[pass'[r].week].parent = pass'[r].generation
             /\ \A w \in DOMAIN experiments' : experiments'[w].id = pass'[r].experiment => w = pass'[r].week
  <2>1. CASE Begins(r)
    <3>1. experiments'[pass'[r].week].parent = pass'[r].generation
      BY <2>1 DEF Begins
    <3>2. ASSUME NEW w \in DOMAIN experiments', w # pass'[r].week PROVE experiments'[w].id # pass'[r].experiment
      <4>1. w \in DOMAIN experiments /\ pass'[r].experiment = begun + 1
        BY <2>1, <3>2 DEF Begins
      <4>2. experiments'[w].id = experiments[w].id
        BY <4>1, <1>e DEF RowEndures
      <4>. QED
        BY <4>1, <4>2, <1>i, <1>t
    <3>. QED
      BY <3>1, <3>2
  <2>2. CASE Continues(r)
    <3>1. /\ IsRow(pass[r]) /\ pass[r].experiment \in 1..begun
          /\ pass'[r].week = pass[r].week /\ pass'[r].experiment = pass[r].experiment
          /\ pass'[r].generation = pass[r].generation
      BY <2>2, <1>o DEF Continues
    <3>2. ASSUME NEW w \in DOMAIN experiments', experiments'[w].id = pass'[r].experiment
          PROVE  /\ w \in DOMAIN experiments /\ experiments[w].id = pass[r].experiment
                 /\ experiments'[w].parent = experiments[w].parent /\ w = pass[r].week
      <4>1. w \in DOMAIN experiments
        BY <3>1, <3>2, <1>m, <1>t
      <4>2. experiments'[w].id = experiments[w].id /\ experiments'[w].parent = experiments[w].parent
        BY <4>1, <1>e DEF RowEndures
      <4>. QED
        BY <3>1, <3>2, <4>1, <4>2 DEF RowsInv, RowsMatch
    <3>3. IsStored(pass[r])' => experiments'[pass'[r].week].parent = pass'[r].generation
      BY <3>1, <3>2 DEF IsStored, RowsInv, ParentsMatch
    <3>. QED
      BY <3>1, <3>2, <3>3
  <2>. QED
    BY <1>1, <1>p, <2>1, <2>2
<1>2. ParentsMatch' /\ RowsMatch'
  BY <1>1 DEF ParentsMatch, RowsMatch
<1>3. Undecided'
  <2>1. ASSUME NEW w \in DOMAIN experiments', experiments'[w].status = "running"
        PROVE  experiments'[w].candidate = None
    <3>1. CASE w \in DOMAIN experiments
      BY <2>1, <3>1, <1>e DEF RowEndures, RowsInv, Undecided
    <3>. QED
      BY <3>1, <1>m
  <2>. QED
    BY <2>1 DEF Undecided
<1>. QED
  BY <1>2, <1>3 DEF RowsInv

(* RowsInv in every reachable state. *)
LEMMA RowsInvHolds == Spec => []RowsInv
<1>1. Init => RowsInv
  BY DEF Init, RowsInv, ParentsMatch, RowsMatch, Undecided, Idle, IsRow
<1>2. TypeInv /\ OwnInv /\ RowsInv /\ [Next]_vars => RowsInv'
  BY RowsInvSteps
<1>. QED
  BY <1>1, <1>2, TypeInvHolds, OwnInvHolds, PTL DEF Spec
-----------------------------------------------------------------------------
(* The champion                                                             *)

(* A new seed is of generation 0, and a registration has a snapshot. *)
SeedsAreFirst ==
  \A a \in DOMAIN artifacts : artifacts[a].source = "auto-bootstrap" => artifacts[a].generation = 0

SnapshotServes == registration = None <=> snapshot = None

(* Where a registered artifact may come from. *)
IsSeed(a) == artifacts[a] = [source |-> "auto-bootstrap", generation |-> 0]

WasPromoted(a) ==
  \E w \in DOMAIN experiments :
    /\ experiments[w].status = "promoted" /\ experiments[w].candidate = a
    /\ artifacts[a].generation = experiments[w].parent + 1

ChampInv ==
  /\ SeedsAreFirst /\ SnapshotServes
  /\ registration # None =>
       /\ IsSeed(registration) \/ WasPromoted(registration)
       /\ artifacts[snapshot].generation = artifacts[registration].generation

(* Every step keeps seeds at generation 0, as artifacts never change. *)
LEMMA SeedsSteps ==
  ASSUME TypeInv, SeedsAreFirst, [Next]_vars
  PROVE  SeedsAreFirst'
BY ArtifactsSteps DEF ArtifactsEndure, Endures, Joins, SeedsAreFirst

(* Registration and snapshot are written, and deleted, together. *)
LEMMA ServesSteps ==
  ASSUME TypeInv, SnapshotServes, [Next]_vars
  PROVE  SnapshotServes'
<1>1. CASE UNCHANGED <<registration, snapshot>>
  BY <1>1 DEF SnapshotServes
<1>2. drawn + 1 # None /\ None \notin DOMAIN artifacts
  BY DEF TypeInv, TypeOK, None
<1>3. ASSUME NEW r \in Runners, StoreBootstrap(r) PROVE SnapshotServes'
  BY <1>3, <1>1 DEF StoreBootstrap, SnapshotServes
<1>4. ASSUME NEW r \in Runners, Commit(r) PROVE SnapshotServes'
  BY <1>4, <1>1 DEF Commit, SnapshotServes
<1>5. CASE Checkpoint
  BY <1>5, <1>2 DEF Checkpoint, SnapshotServes
<1>6. CASE DeleteCommit
  BY <1>6 DEF DeleteCommit, SnapshotServes
<1>7. ASSUME NEW r \in Runners,
             StartReflection(r) \/ StartBootstrap(r) \/ RefuseSeed(r) \/ FindChampion(r)
               \/ PrepareReflection(r) \/ BeginExperiment(r) \/ Search(r) \/ RecordFailure(r) \/ Crash(r)
      PROVE  SnapshotServes'
  BY <1>7, <1>1 DEF StartReflection, StartBootstrap, RefuseSeed, FindChampion, PrepareReflection,
                    BeginExperiment, Search, RecordFailure, Crash, rows
<1>8. CASE Publish \/ DeleteRead \/ UNCHANGED vars
  BY <1>8, <1>1 DEF Publish, DeleteRead, rows, vars
<1>. QED
  BY <1>3, <1>4, <1>5, <1>6, <1>7, <1>8 DEF Next, Step

(* Steps that leave the registration alone: its artifact and the experiment it *)
(* was promoted by stay what they are.                                         *)
LEMMA ChampionFrame ==
  ASSUME TypeInv, OwnInv, ChampInv, ReferencesResolve', [Next]_vars, UNCHANGED registration,
         registration # None, DOMAIN experiments \subseteq DOMAIN experiments'
  PROVE  /\ artifacts'[registration] = artifacts[registration]
         /\ IsSeed(registration)' \/ WasPromoted(registration)'
<1>1. registration \in DOMAIN artifacts'
  BY DEF ReferencesResolve, Referenced
<1>2. registration # drawn + 1
  BY NextIsFresh
<1>3. artifacts'[registration] = artifacts[registration]
  BY <1>1, <1>2, ArtifactsSteps DEF ArtifactsEndure, Endures, Joins
<1>4. CASE IsSeed(registration)
  BY <1>3, <1>4 DEF IsSeed
<1>5. CASE WasPromoted(registration)
  <2>1. PICK w \in DOMAIN experiments :
          /\ experiments[w].status = "promoted" /\ experiments[w].candidate = registration
          /\ artifacts[registration].generation = experiments[w].parent + 1
    BY <1>5 DEF WasPromoted
  <2>2. w \in DOMAIN experiments' /\ experiments'[w] = experiments[w]
    BY <2>1, RowsSteps DEF RowsEndure, RowEndures
  <2>. QED
    BY <1>3, <2>1, <2>2 DEF WasPromoted
<1>. QED
  BY <1>3, <1>4, <1>5 DEF ChampInv

(* ChampInv holds after every step: a promotion moves both columns at once. *)
LEMMA ChampSteps ==
  ASSUME TypeInv, OwnInv, RowsInv, ReferencesResolve, ChampInv, [Next]_vars
  PROVE  ChampInv'
<1> DEFINE Serves == artifacts[snapshot].generation = artifacts[registration].generation
           Accounted == registration # None =>
                          /\ IsSeed(registration) \/ WasPromoted(registration)
                          /\ Serves
<1>. SUFFICES Accounted'
  BY SeedsSteps, ServesSteps DEF ChampInv
<1>r. ReferencesResolve'
  BY StepsResolve
<1>1. ASSUME UNCHANGED <<registration, snapshot>>, DOMAIN experiments \subseteq DOMAIN experiments'
      PROVE  Accounted'
  <2>. SUFFICES ASSUME registration # None
                PROVE  (IsSeed(registration) \/ WasPromoted(registration))' /\ Serves'
    BY <1>1
  <2>1. /\ artifacts'[registration] = artifacts[registration]
        /\ IsSeed(registration)' \/ WasPromoted(registration)'
    BY <1>1, <1>r, ChampionFrame
  <2>2. snapshot \in DOMAIN artifacts'
    <3>1. snapshot # None
      BY DEF ChampInv, SnapshotServes
    <3>. QED
      BY <3>1, <1>1, <1>r DEF ReferencesResolve, Referenced
  <2>3. artifacts'[snapshot] = artifacts[snapshot]
    BY <2>2, NextIsFresh, ArtifactsSteps DEF ArtifactsEndure, Endures, Joins
  <2>. QED
    BY <1>1, <2>1, <2>3 DEF ChampInv
<1>2. ASSUME NEW r \in Runners, StoreBootstrap(r) PROVE Accounted'
  <2>1. CASE registration # None
    BY <2>1, <1>2, <1>1 DEF StoreBootstrap
  <2>2. CASE /\ drawn' = drawn + 1 /\ artifacts' = WithArtifact("auto-bootstrap", 0)
             /\ registration' = drawn' /\ snapshot' = drawn'
    <3>1. artifacts'[registration'] = [source |-> "auto-bootstrap", generation |-> 0]
      BY <2>2 DEF WithArtifact
    <3>. QED
      BY <2>2, <3>1 DEF IsSeed
  <2>3. ASSUME NEW seed \in StoredSeeds, registration' = seed, snapshot' = seed, UNCHANGED artifacts
        PROVE  Accounted'
    <3>1. /\ artifacts[seed].source = "auto-bootstrap" /\ artifacts[seed].generation = 0
          /\ artifacts[seed] \in [source : Sources, generation : Nat]
      BY DEF StoredSeeds, ChampInv, SeedsAreFirst, TypeInv, TypeOK
    <3>2. artifacts[seed] = [source |-> "auto-bootstrap", generation |-> 0]
      BY <3>1
    <3>. QED
      BY <2>3, <3>2 DEF IsSeed
  <2>. QED
    BY <2>1, <2>2, <2>3, <1>2 DEF StoreBootstrap
<1>3. ASSUME NEW r \in Runners, Commit(r) PROVE Accounted'
  <2> DEFINE p == pass[r]
             n == drawn + 1
  <2>1. CASE ~IsStored(p) \/ (p.promoted /\ registration = None)
    BY <2>1, <1>3, <1>1 DEF Commit
  <2>2. CASE IsStored(p) /\ ~p.promoted
    <3>1. UNCHANGED <<registration, snapshot>> /\ experiments' = Decided(p, None)
      BY <2>2, <1>3 DEF Commit
    <3>2. DOMAIN experiments' = DOMAIN experiments
      BY <3>1 DEF Decided
    <3>. QED
      BY <3>1, <3>2, <1>1
  <2>3. CASE IsStored(p) /\ p.promoted /\ registration # None
    <3>1. /\ registration' = n /\ snapshot' = n /\ experiments' = Decided(p, n)
          /\ artifacts' = ReplaceSnapshot(WithArtifact("auto-promotion", NextGeneration(p)), n, n, experiments)
      BY <2>3, <1>3 DEF Commit
    <3>2. n \in DOMAIN artifacts'
      BY <3>1, <1>r, NextIsFresh DEF ReferencesResolve, Referenced
    <3>3. artifacts'[n] = [source |-> "auto-promotion", generation |-> NextGeneration(p)]
      BY <3>1, <3>2, ReplacementNew
    <3>4. artifacts'[n].generation = p.generation + 1
      BY <3>3 DEF NextGeneration
    <3>5. p.week \in DOMAIN experiments /\ experiments[p.week].parent = p.generation
      BY <2>3, <1>3 DEF Commit, At, IsRow, IsStored, RowsInv, ParentsMatch
    <3>6. LET all == Decided(p, n) IN
          /\ DOMAIN all = DOMAIN experiments /\ all[p.week].parent = experiments[p.week].parent
          /\ all[p.week].candidate = n
          /\ all[p.week].status = IF p.promoted THEN "promoted" ELSE "rejected"
      BY <3>5, DecisionEndures
    <3>7. /\ p.week \in DOMAIN experiments' /\ experiments'[p.week].parent = p.generation
          /\ experiments'[p.week].candidate = n /\ experiments'[p.week].status = "promoted"
      BY <3>1, <3>5, <3>6, <2>3
    <3>8. WasPromoted(registration)'
      BY <3>1, <3>4, <3>7 DEF WasPromoted
    <3>. QED
      BY <3>1, <3>8
  <2>. QED
    BY <2>1, <2>2, <2>3
<1>4. CASE Checkpoint
  <2> DEFINE n == drawn + 1
  <2>1. /\ UNCHANGED <<registration, experiments>> /\ snapshot' = n /\ registration # None
        /\ artifacts' = ReplaceSnapshot(WithArtifact("worker-snapshot", artifacts[registration].generation),
                                        registration, n, experiments)
    BY <1>4 DEF Checkpoint
  <2>2. /\ artifacts'[registration] = artifacts[registration]
        /\ IsSeed(registration)' \/ WasPromoted(registration)'
    BY <2>1, <1>r, ChampionFrame
  <2>3. n \in DOMAIN artifacts'
    BY <2>1, <1>r, NextIsFresh DEF ReferencesResolve, Referenced
  <2>4. artifacts'[n] = [source |-> "worker-snapshot", generation |-> artifacts[registration].generation]
    BY <2>1, <2>3, ReplacementNew
  <2>5. artifacts'[n].generation = artifacts[registration].generation
    BY <2>4
  <2>. QED
    BY <2>1, <2>2, <2>5
<1>5. CASE DeleteCommit
  BY <1>5 DEF DeleteCommit
<1>6. ASSUME NEW r \in Runners,
             StartReflection(r) \/ StartBootstrap(r) \/ RefuseSeed(r) \/ FindChampion(r)
               \/ PrepareReflection(r) \/ Search(r) \/ Crash(r)
      PROVE  Accounted'
  BY <1>6, <1>1 DEF StartReflection, StartBootstrap, RefuseSeed, FindChampion, PrepareReflection,
                    Search, Crash, rows
<1>7. ASSUME NEW r \in Runners, BeginExperiment(r) PROVE Accounted'
  <2>1. UNCHANGED <<registration, snapshot>>
    BY <1>7 DEF BeginExperiment
  <2>2. DOMAIN experiments \subseteq DOMAIN experiments'
    BY <1>7, BeginSteps DEF Begins
  <2>. QED
    BY <2>1, <2>2, <1>1
<1>8. ASSUME NEW r \in Runners, RecordFailure(r) PROVE Accounted'
  <2>1. UNCHANGED <<registration, snapshot>> /\ DOMAIN experiments' = DOMAIN experiments
    BY <1>8 DEF RecordFailure
  <2>. QED
    BY <2>1, <1>1
<1>9. CASE Publish \/ DeleteRead \/ UNCHANGED vars
  BY <1>9, <1>1 DEF Publish, DeleteRead, rows, vars
<1>. QED
  BY <1>2, <1>3, <1>4, <1>5, <1>6, <1>7, <1>8, <1>9 DEF Next, Step

(* ChampInv in every reachable state. *)
LEMMA ChampInvHolds == Spec => []ChampInv
<1>1. Init => ChampInv
  BY DEF Init, ChampInv, SeedsAreFirst, SnapshotServes
<1>2. TypeInv /\ OwnInv /\ RowsInv /\ ReferencesResolve /\ ChampInv /\ [Next]_vars => ChampInv'
  BY ChampSteps
<1>. QED
  BY <1>1, <1>2, TypeInvHolds, OwnInvHolds, RowsInvHolds, ReferencesAlwaysResolve, PTL DEF Spec

(* ChampionIsAccountedFor: whatever passes, checkpoints, deletions and crashes *)
(* interleave, the champion is a seed of generation 0 or one generation above  *)
(* the parent of the experiment that promoted it, and its snapshot serves it.  *)
THEOREM ChampionHasAHistory == Spec => []ChampionIsAccountedFor
<1>1. ChampInv => ChampionIsAccountedFor
  BY DEF ChampInv, ChampionIsAccountedFor, IsSeed, WasPromoted
<1>. QED
  BY <1>1, ChampInvHolds, PTL
-----------------------------------------------------------------------------
(* Garbage                                                                  *)

(* Without deletions nothing is kept but what is named, and replaced seeds. *)
GarbageInv ==
  deletions = 0 =>
    /\ deletion = {}
    /\ \A a \in DOMAIN artifacts \ Referenced(registration, snapshot, experiments) :
         artifacts[a].source = "auto-bootstrap"

(* A step that keeps the artifacts and stops naming none of them. *)
LEMMA GarbageFrame ==
  ASSUME GarbageInv, deletions = 0, UNCHANGED <<artifacts, deletion>>,
         Referenced(registration, snapshot, experiments)
           \subseteq Referenced(registration', snapshot', experiments')
  PROVE  GarbageInv'
BY DEF GarbageInv, Referenced

(* The snapshot that is replaced goes; what is kept and no longer named was    *)
(* the registration's, a seed that no experiment promoted.                     *)
LEMMA ReplacementCollects ==
  ASSUME TypeInv, ChampInv, GarbageInv, deletions = 0,
         NEW source, NEW generation, NEW reg, reg \in {registration, drawn + 1}, registration # None,
         artifacts' = ReplaceSnapshot(WithArtifact(source, generation), reg, drawn + 1, experiments),
         NEW a \in DOMAIN artifacts', a \notin Referenced(reg, drawn + 1, experiments)
  PROVE  artifacts'[a].source = "auto-bootstrap"
<1> DEFINE named == Referenced(reg, drawn + 1, experiments)
<1>1. a # drawn + 1
  BY NextIsFresh DEF Referenced
<1>2. a \in DOMAIN artifacts /\ artifacts'[a] = artifacts[a]
  BY <1>1, ReplacementOld
<1>3. a \notin {snapshot} \ {drawn + 1}
  <2>1. DOMAIN artifacts' = (DOMAIN artifacts \cup {drawn + 1}) \ (({snapshot} \ {drawn + 1}) \ named)
    BY ReplacementDomain
  <2>. QED
    BY <2>1
<1>4. a # snapshot /\ a # None
  BY <1>1, <1>2, <1>3 DEF TypeInv, TypeOK, None
<1>5. CASE a \notin Referenced(registration, snapshot, experiments)
  BY <1>2, <1>5 DEF GarbageInv
<1>6. CASE a \in Referenced(registration, snapshot, experiments)
  <2>1. a = registration
    BY <1>4, <1>6 DEF Referenced
  <2>2. ~WasPromoted(registration)
    BY <2>1, <1>4 DEF WasPromoted, Referenced
  <2>3. IsSeed(registration)
    BY <2>2 DEF ChampInv
  <2>. QED
    BY <2>1, <2>3, <1>2 DEF IsSeed
<1>. QED
  BY <1>5, <1>6

(* GarbageInv holds after every step: what is no longer named is deleted with the step. *)
LEMMA GarbageSteps ==
  ASSUME TypeInv, RowsInv, OwnInv, ChampInv, GarbageInv, [Next]_vars
  PROVE  GarbageInv'
<1>. SUFFICES ASSUME deletions' = 0 PROVE GarbageInv'
  BY DEF GarbageInv
<1> DEFINE Named == Referenced(registration, snapshot, experiments)
<1>z. deletions \in Nat
  BY DEF TypeInv, TypeOK
<1>1. ASSUME NEW r \in Runners, StoreBootstrap(r) PROVE GarbageInv'
  <2>0. deletions = 0 /\ UNCHANGED <<experiments, deletion>>
    BY <1>1 DEF StoreBootstrap
  <2>1. CASE registration # None
    BY <2>0, <2>1, <1>1, GarbageFrame DEF StoreBootstrap
  <2>2. CASE registration = None
    <3>1. Named \subseteq Referenced(registration', snapshot', experiments')
      BY <2>0, <2>2 DEF Referenced, ChampInv, SnapshotServes
    <3>2. CASE UNCHANGED artifacts
      BY <2>0, <3>1, <3>2, GarbageFrame
    <3>3. CASE artifacts' = WithArtifact("auto-bootstrap", 0)
      <4>1. \A a \in DOMAIN artifacts' : a \in DOMAIN artifacts \/ artifacts'[a].source = "auto-bootstrap"
        BY <3>3 DEF WithArtifact
      <4>2. \A a \in DOMAIN artifacts : a \in DOMAIN artifacts' =>
              artifacts'[a] = artifacts[a] \/ artifacts'[a].source = "auto-bootstrap"
        BY <3>3 DEF WithArtifact
      <4>3. \A a \in DOMAIN artifacts' \ Referenced(registration', snapshot', experiments') :
              artifacts'[a].source = "auto-bootstrap"
        BY <4>1, <4>2, <3>1, <2>0 DEF GarbageInv
      <4>. QED
        BY <4>3, <2>0 DEF GarbageInv, Referenced
    <3>. QED
      BY <2>2, <3>2, <3>3, <1>1 DEF StoreBootstrap
  <2>. QED
    BY <2>1, <2>2
<1>2. ASSUME NEW r \in Runners, BeginExperiment(r) PROVE GarbageInv'
  <2>0. deletions = 0 /\ UNCHANGED <<artifacts, registration, snapshot, deletion>>
    BY <1>2 DEF BeginExperiment
  <2>1. DOMAIN experiments \subseteq DOMAIN experiments'
        /\ \A w \in DOMAIN experiments : experiments'[w] = experiments[w]
    BY <1>2 DEF BeginExperiment, Evaluated
  <2>2. Named \subseteq Referenced(registration', snapshot', experiments')
    BY <2>0, <2>1 DEF Referenced
  <2>. QED
    BY <2>0, <2>2, GarbageFrame
<1>3. ASSUME NEW r \in Runners, RecordFailure(r) PROVE GarbageInv'
  <2>0. deletions = 0 /\ UNCHANGED <<artifacts, registration, snapshot, deletion>>
    BY <1>3 DEF RecordFailure
  <2>1. DOMAIN experiments' = DOMAIN experiments
        /\ \A w \in DOMAIN experiments : /\ experiments'[w].champion = experiments[w].champion
                                         /\ experiments'[w].candidate = experiments[w].candidate
    BY <1>3, FailureEndures
  <2>2. Named \subseteq Referenced(registration', snapshot', experiments')
    BY <2>0, <2>1 DEF Referenced
  <2>. QED
    BY <2>0, <2>2, GarbageFrame
<1>4. ASSUME NEW r \in Runners, Commit(r) PROVE GarbageInv'
  <2> DEFINE p == pass[r]
             n == drawn + 1
  <2>0. deletions = 0 /\ UNCHANGED deletion
    BY <1>4 DEF Commit
  <2>1. CASE ~IsStored(p) \/ (p.promoted /\ registration = None)
    BY <2>0, <2>1, <1>4, GarbageFrame DEF Commit
  <2>2. ASSUME IsStored(p), NEW candidate, NEW all, all = Decided(p, candidate)
        PROVE  /\ DOMAIN all = DOMAIN experiments
               /\ \A w \in DOMAIN experiments : all[w].champion = experiments[w].champion
               /\ \A w \in DOMAIN experiments :
                    experiments[w].candidate = None \/ all[w].candidate = experiments[w].candidate
    <3>1. \A w \in DOMAIN experiments : w # p.week => all[w] = experiments[w]
      BY <2>2, DecisionEndures
    <3>2. DOMAIN all = DOMAIN experiments
      BY <2>2, DecisionEndures
    <3>3. \A w \in DOMAIN experiments : all[w].champion = experiments[w].champion
      BY <2>2, DecisionEndures
    <3>4. experiments[p.week].candidate = None
      BY <2>2, <1>4 DEF Commit, At, IsRow, IsStored, OwnInv, RowsInv, Undecided
    <3>. QED
      BY <3>1, <3>2, <3>3, <3>4
  <2>3. CASE IsStored(p) /\ ~p.promoted
    <3>1. experiments' = Decided(p, None) /\ UNCHANGED <<artifacts, registration, snapshot>>
      BY <2>3, <1>4 DEF Commit
    <3>2. Named \subseteq Referenced(registration', snapshot', experiments')
      BY <2>2, <2>3, <3>1 DEF Referenced
    <3>. QED
      BY <2>0, <3>1, <3>2, GarbageFrame
  <2>4. CASE IsStored(p) /\ p.promoted /\ registration # None
    <3>1. /\ registration' = n /\ snapshot' = n /\ experiments' = Decided(p, n)
          /\ artifacts' = ReplaceSnapshot(WithArtifact("auto-promotion", NextGeneration(p)), n, n, experiments)
      BY <2>4, <1>4 DEF Commit
    <3>2. Referenced(n, n, experiments) \subseteq Referenced(registration', snapshot', experiments')
      BY <2>2, <2>4, <3>1 DEF Referenced
    <3>3. \A a \in DOMAIN artifacts' : a \notin Referenced(n, n, experiments) =>
            artifacts'[a].source = "auto-bootstrap"
      BY <2>0, <2>4, <3>1, ReplacementCollects
    <3>4. \A a \in DOMAIN artifacts' \ Referenced(registration', snapshot', experiments') :
            artifacts'[a].source = "auto-bootstrap"
      BY <3>2, <3>3
    <3>. QED
      BY <2>0, <3>4 DEF GarbageInv, Referenced
  <2>. QED
    BY <2>1, <2>3, <2>4
<1>5. CASE Checkpoint
  <2> DEFINE n == drawn + 1
  <2>1. /\ UNCHANGED <<registration, experiments, deletion, deletions>> /\ snapshot' = n
        /\ registration # None
        /\ artifacts' = ReplaceSnapshot(WithArtifact("worker-snapshot", artifacts[registration].generation),
                                        registration, n, experiments)
    BY <1>5 DEF Checkpoint
  <2>2. \A a \in DOMAIN artifacts' : a \notin Referenced(registration, n, experiments) =>
          artifacts'[a].source = "auto-bootstrap"
    BY <2>1, ReplacementCollects
  <2>3. \A a \in DOMAIN artifacts' \ Referenced(registration', snapshot', experiments') :
          artifacts'[a].source = "auto-bootstrap"
    BY <2>1, <2>2
  <2>. QED
    BY <2>1, <2>3 DEF GarbageInv, Referenced
<1>6. CASE DeleteRead
  BY <1>6, <1>z DEF DeleteRead
<1>7. CASE DeleteCommit
  BY <1>7 DEF DeleteCommit, GarbageInv
<1>8. ASSUME NEW r \in Runners,
             StartReflection(r) \/ StartBootstrap(r) \/ RefuseSeed(r) \/ FindChampion(r)
               \/ PrepareReflection(r) \/ Search(r) \/ Crash(r)
      PROVE  UNCHANGED <<artifacts, registration, snapshot, experiments, deletion, deletions>>
  BY <1>8 DEF StartReflection, StartBootstrap, RefuseSeed, FindChampion, PrepareReflection,
              Search, Crash, rows
<1>9. CASE Publish \/ UNCHANGED vars
  BY <1>9, GarbageFrame DEF Publish, rows, vars
<1>. QED
  BY <1>1, <1>2, <1>3, <1>4, <1>5, <1>6, <1>7, <1>8, <1>9, GarbageFrame DEF Next, Step

(* GarbageIsCollected: as long as no model is deleted, every stored artifact is *)
(* named by the model or by an experiment, or is a seed that was replaced.      *)
THEOREM NothingIsHoarded == Spec => []GarbageIsCollected
<1>1. Init => GarbageInv
  BY DEF Init, GarbageInv
<1>2. TypeInv /\ RowsInv /\ OwnInv /\ ChampInv /\ GarbageInv /\ [Next]_vars => GarbageInv'
  BY GarbageSteps
<1>3. GarbageInv => GarbageIsCollected
  BY DEF GarbageInv, GarbageIsCollected
<1>. QED
  BY <1>1, <1>2, <1>3, TypeInvHolds, RowsInvHolds, OwnInvHolds, ChampInvHolds, PTL DEF Spec
-----------------------------------------------------------------------------
(* Experiments that no pass holds any more                                  *)

Orphans == {w \in DOMAIN experiments : Orphaned(w)}

OrphansInv == Cardinality(Orphans) <= faults

(* The row of a pass goes with it, or has ended, unless the process died. *)
LEMMA RowsEnd ==
  ASSUME TypeInv, OwnInv, RowsInv, [Next]_vars, NEW r \in Runners, IsRow(pass[r]),
         NEW w \in DOMAIN experiments \cap DOMAIN experiments', experiments[w].id = pass[r].experiment
  PROVE  \/ IsRow(pass'[r]) /\ pass'[r].experiment = pass[r].experiment
         \/ experiments'[w].status # "running"
         \/ Crash(r)
<1>t. pass \in [Runners -> Passes]
  BY DEF TypeInv, TypeOK
<1>w. w = pass[r].week /\ IsStored(pass[r]) /\ experiments[w].status = "running"
  BY DEF RowsInv, RowsMatch, IsStored, OwnInv
<1> DEFINE Held == IsRow(pass'[r]) /\ pass'[r].experiment = pass[r].experiment
<1>0. CASE pass'[r] = pass[r]
  BY <1>0
<1>1. ASSUME NEW s \in Runners,
             StartReflection(s) \/ StartBootstrap(s) \/ FindChampion(s) \/ PrepareReflection(s)
               \/ RefuseSeed(s) \/ StoreBootstrap(s) \/ BeginExperiment(s)
      PROVE  pass'[r] = pass[r]
  <2>1. s # r
    BY <1>1, <1>t DEF StartReflection, StartBootstrap, FindChampion, PrepareReflection, RefuseSeed,
                      StoreBootstrap, BeginExperiment, At, IsRow
  <2>2. CASE BeginExperiment(s)
    BY <2>1, <2>2, BeginSteps
  <2>. QED
    BY <2>1, <2>2, <1>1, <1>t DEF StartReflection, StartBootstrap, FindChampion, PrepareReflection,
                                  RefuseSeed, StoreBootstrap, Ends
<1>2. ASSUME NEW s \in Runners, Search(s) PROVE Held
  <2>1. s # r => pass'[r] = pass[r]
    BY <1>2, <1>t DEF Search
  <2>2. s = r => Held
    BY <1>2, <1>t DEF Search, IsRow, Passes
  <2>. QED
    BY <2>1, <2>2
<1>3. ASSUME NEW s \in Runners, Commit(s) PROVE Held \/ experiments'[w].status # "running"
  <2>1. CASE s # r
    BY <2>1, <1>3, <1>t DEF Commit, Goes, Ends
  <2>2. CASE s = r /\ Goes(r, "failing")
    BY <2>2, <1>t DEF Goes, IsRow, Passes
  <2>3. CASE s = r /\ \E candidate : experiments' = Decided(pass[r], candidate)
    <3>1. PICK candidate : experiments' = Decided(pass[r], candidate)
      BY <2>3
    <3>2. experiments'[w].status = IF pass[r].promoted THEN "promoted" ELSE "rejected"
      BY <3>1, <1>w, DecisionEndures
    <3>. QED
      BY <3>2
  <2>. QED
    BY <2>1, <2>2, <2>3, <1>3 DEF Commit
<1>4. ASSUME NEW s \in Runners, RecordFailure(s) PROVE Held \/ experiments'[w].status # "running"
  <2>1. CASE s # r
    BY <2>1, <1>4, <1>t DEF RecordFailure, Ends
  <2>2. CASE s = r
    <3>1. StillRunning(pass[r])
      BY <1>w DEF StillRunning
    <3>. QED
      BY <3>1, <2>2, <1>4, <1>w, FailureEndures
  <2>. QED
    BY <2>1, <2>2
<1>5. ASSUME NEW s \in Runners, Crash(s) PROVE Held \/ Crash(r)
  BY <1>5, <1>t DEF Crash, Ends
<1>6. CASE Checkpoint \/ Publish \/ DeleteRead \/ DeleteCommit \/ UNCHANGED vars
  BY <1>6, <1>0 DEF Checkpoint, Publish, DeleteRead, DeleteCommit, vars
<1>. QED
  BY <1>0, <1>1, <1>2, <1>3, <1>4, <1>5, <1>6 DEF Next, Step

(* An orphan of the next state was one already, or is the row of a process that died. *)
LEMMA OrphansAppear ==
  ASSUME TypeInv, OwnInv, RowsInv, [Next]_vars, NEW w \in DOMAIN experiments', Orphaned(w)'
  PROVE  w \in Orphans \/ \E r \in Runners : Crash(r) /\ w = pass[r].week
<1>1. /\ experiments'[w].status = "running"
      /\ \A r \in Runners : IsRow(pass'[r]) => pass'[r].experiment # experiments'[w].id
  BY DEF Orphaned
<1>2. w \in DOMAIN experiments
  <2>1. ASSUME w \notin DOMAIN experiments PROVE FALSE
    <3>1. PICK r \in Runners : IsRow(pass'[r]) /\ Begins(r) /\ w = pass'[r].week
      BY <2>1, RowsBegin
    <3>. QED
      BY <3>1, <1>1 DEF Begins
  <2>. QED
    BY <2>1
<1>3. experiments'[w] = experiments[w]
  BY <1>1, <1>2, RowsSteps DEF RowsEndure, RowEndures
<1>4. ASSUME NEW r \in Runners, IsRow(pass[r]), pass[r].experiment = experiments[w].id
      PROVE  Crash(r) /\ w = pass[r].week
  BY <1>1, <1>2, <1>3, <1>4, RowsEnd DEF RowsInv, RowsMatch
<1>. QED
  BY <1>1, <1>2, <1>3, <1>4 DEF Orphaned, Orphans

(* Every crash adds one orphan at most, and nothing else adds any. *)
LEMMA OrphansSteps ==
  ASSUME TypeInv, OwnInv, RowsInv, OrphansInv, [Next]_vars
  PROVE  OrphansInv'
<1>f. faults \in Nat /\ faults' \in Nat /\ faults' >= faults
  <2>1. faults \in Nat
    BY DEF TypeInv, TypeOK
  <2>2. faults' = faults \/ faults' = faults + 1
    BY DEF Next, Step, StartReflection, StartBootstrap, RefuseSeed, StoreBootstrap, FindChampion,
           PrepareReflection, BeginExperiment, Search, Commit, RecordFailure, Crash, Checkpoint,
           Publish, DeleteRead, DeleteCommit, vars
  <2>. QED
    BY <2>1, <2>2
<1>1. IsFiniteSet(Orphans) /\ Cardinality(Orphans) \in Nat
  <2>1. Orphans \subseteq 1..Weeks
    BY DEF Orphans, TypeInv, TypeOK
  <2>2. IsFiniteSet(1..Weeks)
    BY FS_Interval, ResearchAssumption
  <2>. QED
    BY <2>1, <2>2, FS_Subset, FS_CardinalityType
<1>2. CASE Orphans' \subseteq Orphans
  <2>1. Cardinality(Orphans') <= Cardinality(Orphans) /\ Cardinality(Orphans') \in Nat
    BY <1>1, <1>2, FS_Subset, FS_CardinalityType
  <2>. QED
    BY <1>1, <1>f, <2>1 DEF OrphansInv
<1>3. ASSUME NEW r \in Runners, Crash(r) PROVE OrphansInv'
  <2> DEFINE more == Orphans \cup {pass[r].week}
  <2>1. faults' = faults + 1
    BY <1>3 DEF Crash
  <2>2. Orphans' \subseteq more
    <3>1. \A s \in Runners : Crash(s) => s = r
      BY <1>3 DEF Crash, Ends, At, Idle, TypeInv, TypeOK
    <3>. QED
      BY <3>1, OrphansAppear DEF Orphans
  <2>3. IsFiniteSet(more) /\ Cardinality(more) \in Nat /\ Cardinality(more) <= Cardinality(Orphans) + 1
    <3>1. /\ IsFiniteSet(more)
          /\ Cardinality(more) = IF pass[r].week \in Orphans THEN Cardinality(Orphans)
                                 ELSE Cardinality(Orphans) + 1
      BY <1>1, FS_AddElement
    <3>. QED
      BY <3>1, <1>1
  <2>4. Cardinality(Orphans') <= Cardinality(more) /\ Cardinality(Orphans') \in Nat
    BY <2>2, <2>3, FS_Subset, FS_CardinalityType
  <2>. QED
    BY <1>1, <1>f, <2>1, <2>3, <2>4 DEF OrphansInv
<1>. QED
  <2>1. CASE \A r \in Runners : ~Crash(r)
    <3>1. Orphans' \subseteq Orphans
      BY <2>1, OrphansAppear DEF Orphans
    <3>. QED
      BY <3>1, <1>2
  <2>. QED
    BY <2>1, <1>3

(* OnlyDeathLeavesRunning: an experiment that no pass holds is not running,    *)
(* but for one each process that died: champions that change, models that are  *)
(* deleted and searches that fail leave none behind.                           *)
THEOREM OnlyDeathOrphans == Spec => []OnlyDeathLeavesRunning
<1>1. Init => OrphansInv
  <2>. SUFFICES ASSUME Init PROVE OrphansInv
    OBVIOUS
  <2>1. Orphans = {} /\ faults = 0
    BY DEF Init, Orphans
  <2>. QED
    BY <2>1, FS_EmptySet DEF OrphansInv
<1>2. TypeInv /\ OwnInv /\ RowsInv /\ OrphansInv /\ [Next]_vars => OrphansInv'
  BY OrphansSteps
<1>3. OrphansInv => OnlyDeathLeavesRunning
  BY DEF OrphansInv, Orphans, OnlyDeathLeavesRunning
<1>. QED
  BY <1>1, <1>2, <1>3, TypeInvHolds, OwnInvHolds, RowsInvHolds, PTL DEF Spec

(* ProposalIsBest: whatever the agent answers, the candidate that a search       *)
(* freezes is the best it measured.                                              *)
THEOREM ProposalsAreBest == Spec => []ProposalIsBest
<1>1. ProposalIsBest
  BY BestIsProposed DEF ProposalIsBest
<1>. QED
  BY <1>1, PTL
================================================================================
