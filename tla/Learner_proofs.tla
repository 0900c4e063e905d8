---------------------------- MODULE Learner_proofs ----------------------------
(* What holds of the learner for any models, events, batches and faults. *)
EXTENDS LearnerOnStore, FiniteSetTheorems, WellFoundedInduction, TLAPS

(***************************************************************************)
(* Queries.  A query's result is a finite set of events with a number each. *)
(***************************************************************************)
Numbers(events, pos) == \A e \in events : pos[e] \in Nat

Distinct(events, pos) == \A e, other \in events : pos[e] = pos[other] => e = other

UpTo(e, events, pos) == {other \in events : pos[other] <= pos[e]}

(* A rank is a place in the result. *)
LEMMA RankType ==
  ASSUME NEW events, NEW pos, IsFiniteSet(events), Numbers(events, pos), NEW e \in events
  PROVE  Rank(e, events, pos) \in 1..Cardinality(events)
<1> DEFINE T == UpTo(e, events, pos)
<1>1. T \in SUBSET events /\ e \in T
  BY DEF Numbers, UpTo
<1> HIDE DEF T
<1>2. IsFiniteSet(T) /\ Cardinality(T) <= Cardinality(events)
  BY <1>1, FS_Subset
<1>3. Cardinality(T) # 0
  BY <1>1, <1>2, FS_EmptySet
<1>4. Cardinality(T) \in Nat /\ Cardinality(events) \in Nat
  BY <1>2, FS_CardinalityType
<1>5. Rank(e, events, pos) = Cardinality(T)
  BY DEF Rank, T, UpTo
<1>. QED
  BY <1>2, <1>3, <1>4, <1>5

(* Ranks are in the order of the numbers. *)
LEMMA RankOrder ==
  ASSUME NEW events, NEW pos, IsFiniteSet(events), Numbers(events, pos),
         NEW e \in events, NEW other \in events, pos[other] <= pos[e]
  PROVE  /\ Rank(other, events, pos) <= Rank(e, events, pos)
         /\ pos[other] < pos[e] => Rank(other, events, pos) < Rank(e, events, pos)
<1> DEFINE T == UpTo(e, events, pos)
           U == UpTo(other, events, pos)
<1>1. U \in SUBSET T /\ T \in SUBSET events
  BY DEF UpTo, Numbers
<1>2. pos[other] < pos[e] => e \in T /\ e \notin U
  BY DEF UpTo, Numbers
<1> HIDE DEF T, U
<1>3. IsFiniteSet(T) /\ IsFiniteSet(U)
  BY <1>1, FS_Subset
<1>4. Cardinality(U) <= Cardinality(T) /\ (Cardinality(T) = Cardinality(U) => T = U)
  BY <1>1, <1>3, FS_Subset
<1>5. Cardinality(T) \in Nat /\ Cardinality(U) \in Nat
  BY <1>3, FS_CardinalityType
<1>6. Rank(e, events, pos) = Cardinality(T) /\ Rank(other, events, pos) = Cardinality(U)
  BY DEF Rank, T, U, UpTo
<1>. QED
  BY <1>2, <1>4, <1>5, <1>6

(* If the numbers are distinct, every place in the result has one event. *)
LEMMA RanksFill ==
  ASSUME NEW events, NEW pos, IsFiniteSet(events), Numbers(events, pos), Distinct(events, pos)
  PROVE  /\ \A e, other \in events : Rank(e, events, pos) = Rank(other, events, pos) => e = other
         /\ \A n \in 1..Cardinality(events) : \E e \in events : Rank(e, events, pos) = n
<1> DEFINE N == Cardinality(events)
           rank == [e \in events |-> Rank(e, events, pos)]
<1>0. N \in Nat
  BY FS_CardinalityType
<1>1. \A e \in events : Rank(e, events, pos) \in 1..N
  BY RankType
<1>2. ASSUME NEW e \in events, NEW other \in events, Rank(e, events, pos) = Rank(other, events, pos)
      PROVE  e = other
  <2>1. pos[e] \in Nat /\ pos[other] \in Nat /\ Rank(e, events, pos) \in Nat
    BY <1>0, <1>1 DEF Numbers
  <2>2. ~(pos[e] < pos[other]) /\ ~(pos[other] < pos[e])
    BY <1>2, <2>1, RankOrder
  <2>. QED
    BY <2>1, <2>2 DEF Distinct
<1>3. rank \in [events -> 1..N] /\ \A e, other \in events : rank[e] = rank[other] => e = other
  BY <1>1, <1>2
<1>4. rank \in Injection(events, 1..N)
  BY <1>3 DEF Injection, IsInjective
<1>5. IsFiniteSet(1..N) /\ Cardinality(1..N) = N
  BY <1>0, FS_Interval
<1>6. rank \in Surjection(events, 1..N)
  BY <1>4, <1>5, FS_Injection
<1>7. \A n \in 1..N : \E e \in events : rank[e] = n
  BY <1>6 DEF Surjection
<1>. QED
  BY <1>2, <1>7

(* The labels of events, sorted by pos. *)
Listed(events, pos) ==
  LET row(n) == CHOOSE e \in events : Rank(e, events, pos) = n
  IN  [n \in 1..Cardinality(events) |-> [event |-> row(n), place |-> pos[row(n)]]]

(* The label of each event is at its rank. *)
LEMMA ListedRanks ==
  ASSUME NEW events, NEW pos, IsFiniteSet(events), Numbers(events, pos), Distinct(events, pos)
  PROVE  LET labels == Listed(events, pos) IN
         /\ DOMAIN labels = 1..Cardinality(events) /\ labels = [n \in 1..Cardinality(events) |-> labels[n]]
         /\ \A e \in events : labels[Rank(e, events, pos)] = [event |-> e, place |-> pos[e]]
         /\ \A n \in 1..Cardinality(events) :
              \E e \in events : Rank(e, events, pos) = n /\ labels[n] = [event |-> e, place |-> pos[e]]
<1> DEFINE N == Cardinality(events)
           row(n) == CHOOSE e \in events : Rank(e, events, pos) = n
           labels == Listed(events, pos)
<1>1. \A n \in 1..N : row(n) \in events /\ Rank(row(n), events, pos) = n
  BY RanksFill
<1>2. \A e \in events : Rank(e, events, pos) \in 1..N
  BY RankType
<1>3. \A e \in events : row(Rank(e, events, pos)) = e
  BY <1>1, <1>2, RanksFill
<1>4. labels = [n \in 1..N |-> [event |-> row(n), place |-> pos[row(n)]]]
  BY DEF Listed
<1> HIDE DEF labels, row
<1>5. DOMAIN labels = 1..N /\ \A n \in 1..N : labels[n] = [event |-> row(n), place |-> pos[row(n)]]
  BY <1>4
<1>6. labels = [n \in 1..N |-> labels[n]]
  BY <1>4, <1>5
<1>. QED
  BY <1>1, <1>2, <1>3, <1>5, <1>6 DEF labels

(* It is a sequence of labels. *)
LEMMA ListedType ==
  ASSUME NEW events \in SUBSET Events, NEW pos, IsFiniteSet(events),
         Numbers(events, pos), Distinct(events, pos)
  PROVE  Listed(events, pos) \in Seq(Labels) /\ Len(Listed(events, pos)) = Cardinality(events)
<1> DEFINE N == Cardinality(events)
<1>0. PICK labels : labels = Listed(events, pos)
  OBVIOUS
<1>1. /\ DOMAIN labels = 1..N /\ labels = [n \in 1..N |-> labels[n]]
      /\ \A n \in 1..N : \E e \in events : labels[n] = [event |-> e, place |-> pos[e]]
  BY <1>0, ListedRanks
<1>2. N \in Nat
  BY FS_CardinalityType
<1>4. \A n \in 1..N : labels[n] \in Labels
  BY <1>1 DEF Labels, Numbers
<1> HIDE DEF N
<1>5. labels \in [1..N -> Labels]
  BY <1>1, <1>4
<1>6. labels \in Seq(Labels) /\ Len(labels) = N
  BY <1>2, <1>5
<1>. QED
  BY <1>0, <1>6 DEF N

(* A set of numbers has a least one. *)
LEMMA LeastOne ==
  ASSUME NEW S \in SUBSET Nat, S # {}
  PROVE  \E m \in S : \A n \in S : m <= n
<1>1. \E m \in S : \A n \in S : ~(<<n, m>> \in OpToRel(<, Nat))
  BY NatLessThanWellFounded, WFMin
<1>2. PICK m \in S : \A n \in S : ~(<<n, m>> \in OpToRel(<, Nat))
  BY <1>1
<1>3. m \in S /\ \A n \in S : ~(n < m)
  BY <1>2 DEF OpToRel
<1>. QED
  BY <1>3

(* A finite set of numbers has a greatest one, which Max is. *)
LEMMA MaxIsGreatest ==
  ASSUME NEW S \in SUBSET Nat, S # {}, NEW bound \in Nat, \A n \in S : n <= bound
  PROVE  Max(S) \in S /\ \A n \in S : n <= Max(S)
<1> DEFINE gaps == {k \in Nat : bound - k \in S}
<1>1. PICK n \in S : TRUE
  OBVIOUS
<1>2. bound - n \in gaps /\ gaps \in SUBSET Nat
  <2>1. n \in Nat /\ n <= bound
    OBVIOUS
  <2>2. bound - n \in Nat /\ bound - (bound - n) = n
    BY <2>1
  <2>. QED
    BY <2>2
<1>3. \E k \in gaps : \A j \in gaps : k <= j
  <2>1. gaps # {} /\ gaps \in SUBSET Nat
    BY <1>2
  <2> HIDE DEF gaps
  <2>. QED
    BY <2>1, LeastOne
<1>5. PICK k \in gaps : \A j \in gaps : k <= j
  BY <1>3
<1>6. \A m \in S : bound - m \in gaps /\ m \in Nat
  <2>1. \A m \in S : m \in Nat /\ m <= bound
    OBVIOUS
  <2>2. \A m \in S : bound - m \in Nat /\ bound - (bound - m) = m
    BY <2>1
  <2>. QED
    BY <2>1, <2>2
<1>7. bound - k \in S /\ \A m \in S : bound - k >= m
  <2>1. \A m \in S : k <= bound - m
    BY <1>5, <1>6
  <2>. QED
    BY <2>1, <1>6
<1>8. \E x \in S : \A y \in S : x >= y
  BY <1>7
<1>9. Max(S) \in S /\ \A y \in S : Max(S) >= y
  BY <1>8, Zenon DEF Max
<1> HIDE DEF gaps
<1>. QED
  BY <1>9
-----------------------------------------------------------------------------
(* Batches and rows                                                         *)

(* A cursor moves to the last number of its batch and passes nothing outside it. *)
LEMMA BatchPassesNothing ==
  ASSUME NEW events, NEW pos, NEW cursor \in Nat, NEW bound \in Nat, IsFiniteSet(events), cursor <= bound,
         \A e \in events : pos[e] \in Nat /\ cursor < pos[e] /\ pos[e] <= bound,
         NEW batch, batch = FirstBatch(events, pos),
         NEW last, last = CursorAfter(cursor, batch, pos)
  PROVE  /\ batch \in SUBSET events
         /\ last \in Nat /\ cursor <= last /\ last <= bound
         /\ \A e \in batch : pos[e] <= last
         /\ \A e \in events : pos[e] <= last => e \in batch
<1>1. batch \in SUBSET events
  BY DEF FirstBatch
<1>2. CASE batch = {}
  <2>1. last = cursor
    BY <1>2 DEF CursorAfter
  <2>. QED
    BY <1>1, <1>2, <2>1
<1>3. CASE batch # {}
  <2> DEFINE S == {pos[e] : e \in batch}
  <2>1. S \in SUBSET Nat /\ S # {} /\ \A n \in S : n <= bound
    BY <1>1, <1>3
  <2>2. last = Max(S)
    BY <1>3 DEF CursorAfter
  <2> HIDE DEF S
  <2>3. last \in S /\ \A n \in S : n <= last
    BY <2>1, <2>2, MaxIsGreatest
  <2>4. PICK b \in batch : last = pos[b]
    BY <2>3 DEF S
  <2>5. \A e \in batch : pos[e] <= last
    BY <2>3 DEF S
  <2>6. last \in Nat /\ cursor <= last /\ last <= bound
    BY <1>1, <2>4
  <2>7. ASSUME NEW e \in events, pos[e] <= last PROVE e \in batch
    <3>1. Numbers(events, pos) /\ b \in events
      BY <1>1 DEF Numbers
    <3>2. Rank(e, events, pos) <= Rank(b, events, pos)
      BY <2>4, <2>7, <3>1, RankOrder
    <3>3. Rank(e, events, pos) \in Nat /\ Rank(b, events, pos) \in Nat
      BY <3>1, RankType, FS_CardinalityType
    <3>4. Rank(b, events, pos) <= BatchSize
      BY DEF FirstBatch
    <3>. QED
      BY <3>2, <3>3, <3>4, LearnerAssumption DEF FirstBatch
  <2>. QED
    BY <1>1, <2>5, <2>6, <2>7
<1>. QED
  BY <1>2, <1>3

RowMaps == UNION {[D -> Rows] : D \in SUBSET Events}

(* The archive may have an event whose row is settled. *)
IsSettled(row) == row.trained # "no" /\ (row.status = "predicted" => row.evaluated)

(* Rows only gain: no row goes, and what was done to one is not undone. *)
RowsGain(rows, more) ==
  /\ DOMAIN rows \subseteq DOMAIN more
  /\ \A e \in DOMAIN rows :
       /\ more[e].status = rows[e].status
       /\ rows[e].evaluated => more[e].evaluated
       /\ rows[e].trained # "no" => more[e].trained = rows[e].trained

(* A map of rows is one by its domain and its rows. *)
LEMMA RowMapsAre ==
  /\ \A rows \in RowMaps : DOMAIN rows \in SUBSET Events /\ \A e \in DOMAIN rows : rows[e] \in Rows
  /\ \A D \in SUBSET Events : \A rows \in [D -> Rows] : rows \in RowMaps
BY DEF RowMaps

(* AddRows adds what is missing. *)
LEMMA AddingRows ==
  ASSUME NEW rows \in RowMaps, NEW predicted \in SUBSET Events, NEW skipped \in SUBSET Events,
         NEW more, more = AddRows(rows, predicted, skipped)
  PROVE  /\ more \in RowMaps
         /\ DOMAIN more = DOMAIN rows \cup predicted \cup skipped
         /\ \A e \in DOMAIN rows : more[e] = rows[e]
<1> DEFINE D == DOMAIN rows \cup predicted \cup skipped
<1>1. D \in SUBSET Events
  BY RowMapsAre
<1>2. \A e \in D : more[e] \in Rows
  BY RowMapsAre DEF AddRows, NewRow, Rows
<1>3. more \in [D -> Rows]
  BY <1>2 DEF AddRows
<1>. QED
  BY <1>1, <1>3, RowMapsAre DEF AddRows

(* Settle adds what is missing, and settles the batch. *)
LEMMA SettlingRows ==
  ASSUME NEW rows \in RowMaps, NEW batch \in SUBSET Events, NEW trained \in {"yes", "skipped"},
         NEW more, more = Settle(rows, batch, trained)
  PROVE  /\ more \in RowMaps
         /\ DOMAIN more = DOMAIN rows \cup batch
         /\ RowsGain(rows, more)
         /\ \A e \in batch : IsSettled(more[e])
         /\ \A e \in DOMAIN rows \ batch : more[e] = rows[e]
<1> DEFINE D == DOMAIN rows \cup batch
<1>0. PICK all : all = AddRows(rows, {}, batch)
  OBVIOUS
<1>1. /\ all \in RowMaps /\ DOMAIN all = D
      /\ \A e \in DOMAIN rows : all[e] = rows[e]
  <2>1. {} \in SUBSET Events
    OBVIOUS
  <2>2. all \in RowMaps
    BY <1>0, <2>1, AddingRows
  <2>3. DOMAIN all = D
    BY <1>0 DEF AddRows
  <2>4. \A e \in DOMAIN rows : all[e] = rows[e]
    BY <1>0 DEF AddRows
  <2>. QED
    BY <2>2, <2>3, <2>4
<1>2. more = [e \in DOMAIN all |-> IF e \in batch THEN Settled(all[e], trained) ELSE all[e]]
  BY <1>0 DEF Settle
<1>3. \A e \in D : all[e] \in Rows
  BY <1>1, RowMapsAre
<1>4. \A row \in Rows : /\ Settled(row, trained) \in Rows
                        /\ IsSettled(Settled(row, trained))
                        /\ Settled(row, trained).status = row.status
                        /\ row.evaluated => Settled(row, trained).evaluated
                        /\ row.trained # "no" => Settled(row, trained).trained = row.trained
  <2> SUFFICES ASSUME NEW row \in Rows
               PROVE  /\ Settled(row, trained) \in Rows
                      /\ IsSettled(Settled(row, trained))
                      /\ Settled(row, trained).status = row.status
                      /\ row.evaluated => Settled(row, trained).evaluated
                      /\ row.trained # "no" => Settled(row, trained).trained = row.trained
    OBVIOUS
  <2>. QED
    BY DEF Settled, Rows, IsSettled
<1>5. DOMAIN more = D /\ \A e \in D : more[e] \in Rows
  BY <1>1, <1>2, <1>3, <1>4
<1>6. more \in [D -> Rows]
  BY <1>1, <1>2, <1>5
<1>7. D \in SUBSET Events
  BY RowMapsAre
<1>8. RowsGain(rows, more)
  BY <1>1, <1>2, <1>3, <1>4 DEF RowsGain
<1>. QED
  BY <1>1, <1>2, <1>3, <1>4, <1>5, <1>6, <1>7, <1>8, RowMapsAre

(* What rows gain adds up. *)
LEMMA GainsAdd ==
  ASSUME NEW rows, NEW more, NEW most, RowsGain(rows, more), RowsGain(more, most)
  PROVE  RowsGain(rows, most)
BY DEF RowsGain
-----------------------------------------------------------------------------
(* Registrations and resident models                                        *)

Registrations ==
  [artifact : Nat, start : Nat, predictionCursor : Nat, labelCursor : Nat, paused : BOOLEAN,
   rows : RowMaps, snapshot : SUBSET Snapshots, metric : SUBSET Metrics]

Residents ==
  [fingerprint : Nat, artifact : Nat, learned : Seq(Labels), tracker : Metrics, needsCheckpoint : BOOLEAN]

(* The event store under the learner. *)
QueueOK ==
  /\ admissions \in 0..MaxNumber /\ placements \in Nat
  /\ stored \subseteq 1..admissions
  /\ DOMAIN ready \subseteq stored /\ known \subseteq DOMAIN ready
  /\ \A e \in DOMAIN ready : ready[e] \in 1..placements
  /\ Distinct(DOMAIN ready, ready)

(* At most one row of its key. *)
One(S) == S = {} \/ \E x \in S : S = {x}

(* A registration has its types, and no cursor leads what it runs over. *)
RegOK(r) ==
  /\ r \in Registrations
  /\ r.artifact \in 1..uploads
  /\ r.start \in 1..(admissions + 1) /\ r.predictionCursor <= admissions /\ r.labelCursor <= placements
  /\ Checkpoint(r) <= r.labelCursor
  /\ DOMAIN r.rows \subseteq stored
  /\ One(r.snapshot) /\ One(r.metric)

(* CursorsSkipNothing of one model. *)
SkipsNothing(r) ==
  \A e \in stored :
    e >= r.start =>
      /\ e <= r.predictionCursor => e \in DOMAIN r.rows
      /\ e \in DOMAIN ready /\ ready[e] <= r.labelCursor => e \in DOMAIN r.rows /\ IsSettled(r.rows[e])

(* What a cycle does to a registration. *)
GoesOn(r, q) ==
  /\ q.artifact = r.artifact /\ q.start = r.start
  /\ RowsGain(r.rows, q.rows)
  /\ Checkpoint(r) <= Checkpoint(q)
  /\ r.snapshot # {} => q.snapshot # {}

(* Events of the store are finitely many numbers. *)
LEMMA StoreIsFinite ==
  ASSUME QueueOK
  PROVE  /\ IsFiniteSet(stored) /\ stored \subseteq Events /\ Events \subseteq Nat
         /\ \A S : S \subseteq stored => IsFiniteSet(S)
         /\ \A e \in stored : Itself[e] = e /\ e \in Nat /\ e <= admissions
         /\ admissions \in Nat
<1>1. admissions \in Nat /\ stored \subseteq Events /\ Events \subseteq Nat /\ Events = 1..MaxNumber
  BY LearnerAssumption DEF QueueOK, Events
<1>2. IsFiniteSet(Events)
  BY <1>1, FS_Interval, LearnerAssumption
<1>3. IsFiniteSet(stored)
  BY <1>1, <1>2, FS_Subset
<1>4. \A S : S \subseteq stored => IsFiniteSet(S)
  BY <1>3, FS_Subset
<1>5. \A e \in stored : Itself[e] = e /\ e \in Nat /\ e <= admissions
  BY <1>1 DEF Itself, QueueOK
<1>. QED
  BY <1>1, <1>3, <1>4, <1>5

(* Labels in the order of the queue are sorted by their places. *)
LEMMA QueueOrderLists == \A events : InQueueOrder(events) = Listed(events, ready)
BY Zenon DEF InQueueOrder, LabelsBy, Listed

(* Labels of resolved events, in the order of the queue. *)
LEMMA QueueOrderType ==
  ASSUME QueueOK, NEW events \in SUBSET DOMAIN ready
  PROVE  InQueueOrder(events) \in Seq(Labels)
<1>1. IsFiniteSet(events) /\ events \in SUBSET Events
  BY StoreIsFinite DEF QueueOK
<1>2. Numbers(events, ready) /\ Distinct(events, ready)
  BY DEF QueueOK, Numbers, Distinct
<1>. QED
  BY <1>1, <1>2, ListedType, QueueOrderLists

(* A checkpoint is a place, and that of the snapshot there is. *)
LEMMA CheckpointIs ==
  ASSUME NEW r \in Registrations, One(r.snapshot)
  PROVE  /\ Checkpoint(r) \in Nat
         /\ r.snapshot = {} => Checkpoint(r) = 0
         /\ \A s : r.snapshot = {s} => Checkpoint(r) = s.checkpoint
<1>1. CASE r.snapshot = {}
  BY <1>1 DEF Checkpoint
<1>2. CASE \E s \in r.snapshot : r.snapshot = {s}
  <2>1. PICK s \in r.snapshot : r.snapshot = {s}
    BY <1>2
  <2>2. s \in Snapshots
    BY <2>1 DEF Registrations
  <2>3. (CHOOSE t \in r.snapshot : TRUE) = s
    BY <2>1
  <2>4. Checkpoint(r) = s.checkpoint
    BY <2>1, <2>3 DEF Checkpoint
  <2>5. s.checkpoint \in Nat
    BY <2>2 DEF Snapshots
  <2>. QED
    BY <2>1, <2>4, <2>5
<1>. QED
  BY <1>1, <1>2 DEF One

(* Only the snapshot has the checkpoint. *)
LEMMA SameCheckpoint ==
  ASSUME NEW r, NEW q, q.snapshot = r.snapshot
  PROVE  Checkpoint(q) = Checkpoint(r)
BY DEF Checkpoint
-----------------------------------------------------------------------------
(* One model in one cycle                                                   *)

(* A settled row stays settled. *)
LEMMA SettledStays ==
  ASSUME NEW rows, NEW more, RowsGain(rows, more), NEW e \in DOMAIN rows, IsSettled(rows[e])
  PROVE  IsSettled(more[e])
BY DEF RowsGain, IsSettled

(* How a step of a cycle keeps a registration: cursors advance over what has its row. *)
LEMMA Progress ==
  ASSUME QueueOK, NEW r, RegOK(r), SkipsNothing(r), NEW q \in Registrations,
         q.artifact = r.artifact, q.start = r.start, One(q.snapshot), One(q.metric),
         q.predictionCursor <= admissions, q.labelCursor <= placements,
         RowsGain(r.rows, q.rows), DOMAIN q.rows \subseteq stored,
         Checkpoint(r) <= Checkpoint(q), Checkpoint(q) <= q.labelCursor,
         r.snapshot # {} => q.snapshot # {},
         \A e \in stored : e >= r.start /\ e > r.predictionCursor /\ e <= q.predictionCursor =>
           e \in DOMAIN q.rows,
         \A e \in DOMAIN ready : e >= r.start /\ ready[e] > r.labelCursor /\ ready[e] <= q.labelCursor =>
           e \in DOMAIN q.rows /\ IsSettled(q.rows[e])
  PROVE  RegOK(q) /\ SkipsNothing(q) /\ GoesOn(r, q)
<1>1. RegOK(q) /\ GoesOn(r, q)
  BY DEF RegOK, GoesOn
<1>2. ASSUME NEW e \in stored, e >= q.start, e <= q.predictionCursor PROVE e \in DOMAIN q.rows
  <2>1. CASE e <= r.predictionCursor
    BY <1>2, <2>1 DEF SkipsNothing, RowsGain
  <2>2. e \in Nat /\ r.predictionCursor \in Nat
    BY StoreIsFinite DEF RegOK, Registrations
  <2>. QED
    BY <1>2, <2>1, <2>2
<1>3. ASSUME NEW e \in DOMAIN ready, e >= q.start, ready[e] <= q.labelCursor
      PROVE  e \in DOMAIN q.rows /\ IsSettled(q.rows[e])
  <2>1. CASE ready[e] <= r.labelCursor
    <3>1. e \in DOMAIN r.rows /\ IsSettled(r.rows[e])
      BY <1>3, <2>1 DEF SkipsNothing, QueueOK
    <3>. QED
      BY <3>1, SettledStays DEF RowsGain
  <2>2. ready[e] \in Nat /\ r.labelCursor \in Nat
    BY DEF QueueOK, RegOK, Registrations
  <2>. QED
    BY <1>3, <2>1, <2>2
<1>4. SkipsNothing(q)
  BY <1>2, <1>3 DEF SkipsNothing
<1>. QED
  BY <1>1, <1>4

(* The two queries of a registration. *)
LEMMA EventsQuery ==
  ASSUME QueueOK, NEW r, RegOK(r), NEW batch, batch = EventsAfterCursor(r),
         NEW last, last = CursorAfter(r.predictionCursor, batch, Itself)
  PROVE  /\ batch \in SUBSET stored /\ last \in Nat /\ r.predictionCursor <= last /\ last <= admissions
         /\ \A e \in stored : e >= r.start /\ e > r.predictionCursor /\ e <= last => e \in batch
<1> DEFINE events == {e \in stored : e > r.predictionCursor /\ e >= r.start}
<1>1. /\ r.predictionCursor \in Nat /\ r.predictionCursor <= admissions /\ admissions \in Nat
  BY StoreIsFinite DEF RegOK, Registrations
<1>2. IsFiniteSet(events) /\ events \in SUBSET stored
  BY StoreIsFinite
<1>3. \A e \in events : Itself[e] \in Nat /\ r.predictionCursor < Itself[e] /\ Itself[e] <= admissions
  BY <1>1, StoreIsFinite
<1>4. batch = FirstBatch(events, Itself)
  BY DEF EventsAfterCursor
<1>5. \A e \in events : Itself[e] = e
  BY StoreIsFinite
<1>6. \A e \in stored : e >= r.start /\ e > r.predictionCursor => e \in events
  OBVIOUS
<1> HIDE DEF events
<1>7. batch \in SUBSET events
  BY <1>4 DEF FirstBatch
<1>8. last \in Nat /\ r.predictionCursor <= last /\ last <= admissions
  BY <1>1, <1>2, <1>3, <1>4, BatchPassesNothing
<1>9. \A e \in events : Itself[e] <= last => e \in batch
  BY <1>1, <1>2, <1>3, <1>4, BatchPassesNothing
<1>. QED
  BY <1>2, <1>5, <1>6, <1>7, <1>8, <1>9

(* ... and of labels: the cursor ends behind the batch, and before what it left. *)
LEMMA LabelsQuery ==
  ASSUME QueueOK, NEW r, RegOK(r), NEW batch, batch = ReadyAfterCursor(r),
         NEW last, last = CursorAfter(r.labelCursor, batch, ready)
  PROVE  /\ batch \in SUBSET DOMAIN ready /\ last \in Nat /\ r.labelCursor <= last /\ last <= placements
         /\ \A e \in DOMAIN ready : e >= r.start /\ ready[e] > r.labelCursor /\ ready[e] <= last => e \in batch
         /\ \A e \in batch : ready[e] > r.labelCursor /\ ready[e] <= last /\ e >= r.start
<1> DEFINE events == {e \in DOMAIN ready : ready[e] > r.labelCursor /\ e >= r.start}
<1>1. /\ r.labelCursor \in Nat /\ r.labelCursor <= placements /\ placements \in Nat
  BY DEF RegOK, Registrations, QueueOK
<1>2. IsFiniteSet(events) /\ events \in SUBSET DOMAIN ready
  BY StoreIsFinite DEF QueueOK
<1>3. \A e \in events : ready[e] \in Nat /\ r.labelCursor < ready[e] /\ ready[e] <= placements
  BY <1>1 DEF QueueOK
<1>4. batch = FirstBatch(events, ready)
  BY DEF ReadyAfterCursor
<1>5. \A e \in events : e >= r.start
  OBVIOUS
<1>6. \A e \in DOMAIN ready : e >= r.start /\ ready[e] > r.labelCursor => e \in events
  OBVIOUS
<1> HIDE DEF events
<1>7. batch \in SUBSET events
  BY <1>4 DEF FirstBatch
<1>8. last \in Nat /\ r.labelCursor <= last /\ last <= placements
  BY <1>1, <1>2, <1>3, <1>4, BatchPassesNothing
<1>9. \A e \in events : ready[e] <= last => e \in batch
  BY <1>1, <1>2, <1>3, <1>4, BatchPassesNothing
<1>10. \A e \in batch : ready[e] <= last
  BY <1>1, <1>2, <1>3, <1>4, BatchPassesNothing
<1>. QED
  BY <1>2, <1>3, <1>5, <1>6, <1>7, <1>8, <1>9, <1>10

(* _predict_pending: every event up to the new cursor has its row. *)
LEMMA PredictingGoesOn ==
  ASSUME QueueOK, NEW r, RegOK(r), SkipsNothing(r), NEW c \in Residents,
         NEW p, p = PredictPending(r, c)
  PROVE  /\ RegOK(p.r) /\ SkipsNothing(p.r) /\ GoesOn(r, p.r)
         /\ p.r.labelCursor = r.labelCursor /\ p.r.snapshot = r.snapshot /\ p.r.paused = r.paused
         /\ p.c \in Residents /\ p.count \in Nat
<1>1. PICK batch : batch = EventsAfterCursor(r)
  OBVIOUS
<1>2. PICK last : last = CursorAfter(r.predictionCursor, batch, Itself)
  OBVIOUS
<1>3. batch \in SUBSET stored /\ last \in Nat /\ last <= admissions
  BY <1>1, <1>2, EventsQuery
<1>4. \A e \in stored : e >= r.start /\ e > r.predictionCursor /\ e <= last => e \in batch
  BY <1>1, <1>2, EventsQuery
<1>5. PICK fresh : fresh = batch \ DOMAIN r.rows
  OBVIOUS
<1>6. PICK more : more = AddRows(r.rows, fresh \ DOMAIN ready, fresh \cap DOMAIN ready)
  OBVIOUS
<1>7. r \in Registrations /\ r.rows \in RowMaps
  BY DEF RegOK, Registrations
<1>8. stored \subseteq Events
  BY StoreIsFinite
<1>9. more \in RowMaps
  <2>1. fresh \ DOMAIN ready \in SUBSET Events /\ fresh \cap DOMAIN ready \in SUBSET Events
    BY <1>3, <1>5, <1>8
  <2>. QED
    BY <1>6, <1>7, <2>1, AddingRows
<1>10. DOMAIN more = DOMAIN r.rows \cup batch /\ RowsGain(r.rows, more)
  BY <1>5, <1>6 DEF AddRows, RowsGain
<1>11. PICK n : n = Cardinality(fresh \ DOMAIN ready)
  OBVIOUS
<1>12. n \in Nat
  <2>1. fresh \ DOMAIN ready \subseteq stored
    BY <1>3, <1>5
  <2>. QED
    BY <1>11, <2>1, StoreIsFinite, FS_CardinalityType
<1>13. p = [r |-> [r EXCEPT !.rows = more, !.predictionCursor = last],
            c |-> [c EXCEPT !.tracker.predictions = @ + n], count |-> n]
  BY <1>1, <1>2, <1>5, <1>6, <1>11 DEF PredictPending
<1>14. PICK q : q = [r EXCEPT !.rows = more, !.predictionCursor = last]
  OBVIOUS
<1>15. /\ q \in Registrations /\ q.rows = more /\ q.predictionCursor = last
       /\ q.artifact = r.artifact /\ q.start = r.start /\ q.labelCursor = r.labelCursor
       /\ q.snapshot = r.snapshot /\ q.metric = r.metric /\ q.paused = r.paused
  BY <1>3, <1>7, <1>9, <1>14 DEF Registrations
<1>16. Checkpoint(q) = Checkpoint(r) /\ Checkpoint(r) \in Nat
  BY <1>7, <1>15, SameCheckpoint, CheckpointIs DEF RegOK
<1>17. \A e \in DOMAIN ready : ready[e] \in Nat
  BY DEF QueueOK
<1>18. r.labelCursor \in Nat
  BY <1>7 DEF Registrations
<1>19. RegOK(q) /\ SkipsNothing(q) /\ GoesOn(r, q)
  <2>1. DOMAIN q.rows \subseteq stored
    BY <1>3, <1>10, <1>15 DEF RegOK
  <2>2. One(q.snapshot) /\ One(q.metric) /\ q.labelCursor <= placements /\ Checkpoint(q) <= q.labelCursor
    BY <1>15, <1>16 DEF RegOK
  <2>3. \A e \in stored : e >= r.start /\ e > r.predictionCursor /\ e <= q.predictionCursor =>
          e \in DOMAIN q.rows
    BY <1>4, <1>10, <1>15
  <2>4. \A e \in DOMAIN ready : ~(ready[e] > r.labelCursor /\ ready[e] <= q.labelCursor)
    BY <1>15, <1>17, <1>18
  <2>5. RowsGain(r.rows, q.rows) /\ q.predictionCursor <= admissions /\ Checkpoint(r) <= Checkpoint(q)
    BY <1>3, <1>10, <1>15, <1>16
  <2>. QED
    BY <1>15, <2>1, <2>2, <2>3, <2>4, <2>5, Progress
<1>20. [c EXCEPT !.tracker.predictions = @ + n] \in Residents
  <2>1. c.tracker \in Metrics
    BY DEF Residents
  <2>2. [c.tracker EXCEPT !.predictions = @ + n] \in Metrics
    BY <1>12, <2>1 DEF Metrics
  <2>3. [c EXCEPT !.tracker = [c.tracker EXCEPT !.predictions = @ + n]] \in Residents
    BY <2>2 DEF Residents
  <2>4. [c EXCEPT !.tracker.predictions = @ + n] = [c EXCEPT !.tracker = [c.tracker EXCEPT !.predictions = @ + n]]
    BY <2>1 DEF Residents
  <2>. QED
    BY <2>3, <2>4
<1>21. p.r = q /\ p.count = n
  BY <1>13, <1>14
<1>22. p.c = [c EXCEPT !.tracker.predictions = @ + n]
  BY <1>13
<1>23. p.c \in Residents
  BY <1>20, <1>22
<1>. QED
  BY <1>12, <1>15, <1>19, <1>21, <1>23

(* _process_resolutions: every label up to the new cursor is settled. *)
LEMMA ResolvingGoesOn ==
  ASSUME QueueOK, NEW m, NEW r, RegOK(r), SkipsNothing(r), NEW c \in Residents,
         NEW p, p = ProcessResolutions(m, r, c)
  PROVE  /\ RegOK(p.r) /\ SkipsNothing(p.r) /\ GoesOn(r, p.r) /\ p.r.paused = r.paused
         /\ p.c \in Residents
<1>1. PICK batch : batch = ReadyAfterCursor(r)
  OBVIOUS
<1>2. PICK last : last = CursorAfter(r.labelCursor, batch, ready)
  OBVIOUS
<1>3. batch \in SUBSET DOMAIN ready /\ last \in Nat /\ r.labelCursor <= last /\ last <= placements
  BY <1>1, <1>2, LabelsQuery
<1>4. \A e \in DOMAIN ready : e >= r.start /\ ready[e] > r.labelCursor /\ ready[e] <= last => e \in batch
  BY <1>1, <1>2, LabelsQuery
<1>5. PICK evaluable : evaluable = {e \in batch \cap known : e \in DOMAIN r.rows /\ r.rows[e].status = "predicted"
                                                               /\ ~r.rows[e].evaluated}
  OBVIOUS
<1>6. PICK learnable : learnable = {e \in batch \cap known : e \in DOMAIN r.rows => r.rows[e].trained = "no"}
  OBVIOUS
<1>7. r \in Registrations /\ r.rows \in RowMaps
  BY DEF RegOK, Registrations
<1>8. PICK more : more = Settle(r.rows, batch, "yes")
  OBVIOUS
<1>9. batch \in SUBSET Events
  BY <1>3, StoreIsFinite DEF QueueOK
<1>10. more \in RowMaps /\ DOMAIN more = DOMAIN r.rows \cup batch
  BY <1>7, <1>8, <1>9, SettlingRows
<1>11. RowsGain(r.rows, more) /\ \A e \in batch : IsSettled(more[e])
  BY <1>7, <1>8, <1>9, SettlingRows
<1>12. PICK scored : scored = InQueueOrder(evaluable)
  OBVIOUS
<1>13. PICK learned : learned = InQueueOrder(learnable)
  OBVIOUS
<1>14. scored \in Seq(Labels) /\ learned \in Seq(Labels)
  <2>1. evaluable \in SUBSET DOMAIN ready /\ learnable \in SUBSET DOMAIN ready
    BY <1>3, <1>5, <1>6
  <2>. QED
    BY <1>12, <1>13, <2>1, QueueOrderType
<1>15. p = [r |-> [r EXCEPT !.rows = more, !.labelCursor = last],
            c |-> [c EXCEPT !.tracker.scored = @ \o scored,
                            !.learned = IF m \in LearningModels THEN @ \o learned ELSE @,
                            !.needsCheckpoint = @ \/ batch # {}],
            count |-> Cardinality(batch)]
  BY <1>1, <1>2, <1>5, <1>6, <1>8, <1>12, <1>13, Zenon DEF ProcessResolutions
<1>16. PICK q : q = [r EXCEPT !.rows = more, !.labelCursor = last]
  OBVIOUS
<1>17. /\ q \in Registrations /\ q.rows = more /\ q.predictionCursor = r.predictionCursor
       /\ q.artifact = r.artifact /\ q.start = r.start /\ q.labelCursor = last
       /\ q.snapshot = r.snapshot /\ q.metric = r.metric /\ q.paused = r.paused
  BY <1>3, <1>7, <1>10, <1>16 DEF Registrations
<1>18. Checkpoint(q) = Checkpoint(r) /\ Checkpoint(r) \in Nat /\ Checkpoint(r) <= r.labelCursor
  BY <1>7, <1>17, SameCheckpoint, CheckpointIs DEF RegOK
<1>19. r.labelCursor \in Nat /\ r.predictionCursor \in Nat
  BY <1>7 DEF Registrations
<1>20. RegOK(q) /\ SkipsNothing(q) /\ GoesOn(r, q)
  <2>1. DOMAIN q.rows \subseteq stored
    BY <1>3, <1>10, <1>17 DEF RegOK, QueueOK
  <2>2. One(q.snapshot) /\ One(q.metric) /\ q.labelCursor <= placements /\ Checkpoint(q) <= q.labelCursor
    BY <1>3, <1>17, <1>18, <1>19 DEF RegOK
  <2>3. \A e \in stored : ~(e > r.predictionCursor /\ e <= q.predictionCursor)
    BY <1>17, <1>19, StoreIsFinite
  <2>4. \A e \in DOMAIN ready : e >= r.start /\ ready[e] > r.labelCursor /\ ready[e] <= q.labelCursor =>
          e \in DOMAIN q.rows /\ IsSettled(q.rows[e])
    BY <1>4, <1>10, <1>11, <1>17
  <2>5. RowsGain(r.rows, q.rows) /\ q.predictionCursor <= admissions /\ Checkpoint(r) <= Checkpoint(q)
    BY <1>11, <1>17, <1>18 DEF RegOK
  <2>. QED
    BY <1>17, <2>1, <2>2, <2>3, <2>4, <2>5, Progress
<1>21. p.c \in Residents
  <2>1. /\ c.tracker \in Metrics /\ c.learned \in Seq(Labels) /\ c.needsCheckpoint \in BOOLEAN
    BY DEF Residents
  <2>2. PICK tracker : tracker = [c.tracker EXCEPT !.scored = @ \o scored]
    OBVIOUS
  <2>3. tracker \in Metrics
    <3>1. c.tracker.scored \in Seq(Labels)
      BY <2>1 DEF Metrics
    <3>2. c.tracker.scored \o scored \in Seq(Labels)
      BY <3>1, <1>14
    <3>. QED
      BY <2>1, <2>2, <3>2 DEF Metrics
  <2>4. PICK all : all = IF m \in LearningModels THEN c.learned \o learned ELSE c.learned
    OBVIOUS
  <2>5. all \in Seq(Labels)
    BY <1>14, <2>1, <2>4
  <2>6. PICK needs \in BOOLEAN : needs = (c.needsCheckpoint \/ batch # {})
    BY <2>1
  <2>7. p.c = [c EXCEPT !.tracker = tracker, !.learned = all, !.needsCheckpoint = needs]
    BY <1>15, <2>1, <2>2, <2>4, <2>6 DEF Residents
  <2>. QED
    BY <2>3, <2>5, <2>7 DEF Residents
<1>22. p.r = q
  BY <1>15, <1>16
<1>. QED
  BY <1>17, <1>20, <1>21, <1>22

(* Cursors and rows stay: only what is stored of the model changes. *)
LEMMA SavingGoesOn ==
  ASSUME QueueOK, NEW r, RegOK(r), SkipsNothing(r), NEW q \in Registrations,
         q.artifact = r.artifact, q.start = r.start, q.predictionCursor = r.predictionCursor,
         q.labelCursor = r.labelCursor, q.rows = r.rows, One(q.snapshot), One(q.metric),
         Checkpoint(r) <= Checkpoint(q), Checkpoint(q) <= r.labelCursor,
         r.snapshot # {} => q.snapshot # {}
  PROVE  RegOK(q) /\ SkipsNothing(q) /\ GoesOn(r, q)
<1>1. RowsGain(r.rows, q.rows) /\ DOMAIN q.rows \subseteq stored
  BY DEF RowsGain, RegOK
<1>2. q.predictionCursor <= admissions /\ q.labelCursor <= placements /\ Checkpoint(q) <= q.labelCursor
  BY DEF RegOK
<1>3. r.predictionCursor \in Nat /\ r.labelCursor \in Nat
  BY DEF RegOK, Registrations
<1>4. \A e \in stored : ~(e > r.predictionCursor /\ e <= q.predictionCursor)
  BY <1>3, StoreIsFinite
<1>5. \A e \in DOMAIN ready : ~(ready[e] > r.labelCursor /\ ready[e] <= q.labelCursor)
  BY <1>3 DEF QueueOK
<1>. QED
  BY <1>1, <1>2, <1>4, <1>5, Progress

(* The metric state. *)
LEMMA MetricGoesOn ==
  ASSUME QueueOK, NEW r, RegOK(r), SkipsNothing(r), NEW t \in Metrics,
         NEW q, q = [r EXCEPT !.metric = {t}]
  PROVE  RegOK(q) /\ SkipsNothing(q) /\ GoesOn(r, q) /\ q.paused = r.paused
<1>1. /\ q \in Registrations /\ q.artifact = r.artifact /\ q.start = r.start
      /\ q.predictionCursor = r.predictionCursor /\ q.labelCursor = r.labelCursor /\ q.rows = r.rows
      /\ q.snapshot = r.snapshot /\ q.metric = {t} /\ q.paused = r.paused
  BY DEF RegOK, Registrations
<1>2. Checkpoint(q) = Checkpoint(r) /\ Checkpoint(r) \in Nat /\ Checkpoint(r) <= r.labelCursor
  BY <1>1, SameCheckpoint, CheckpointIs DEF RegOK
<1>3. One(q.snapshot) /\ One(q.metric)
  BY <1>1 DEF One, RegOK
<1>4. Checkpoint(r) <= Checkpoint(q) /\ Checkpoint(q) <= r.labelCursor
  BY <1>2
<1>5. r.snapshot # {} => q.snapshot # {}
  BY <1>1
<1>6. RegOK(q) /\ SkipsNothing(q) /\ GoesOn(r, q)
  BY <1>1, <1>3, <1>4, <1>5, SavingGoesOn
<1>. QED
  BY <1>1, <1>6

(* save_pickle_snapshot: a registration with the snapshot it writes. *)
LEMMA PickleSaves ==
  ASSUME NEW r \in Registrations, NEW c, c.artifact \in Nat, c.learned \in Seq(Labels),
         NEW q, q = SavePickleSnapshot(r, c)
  PROVE  /\ q \in Registrations /\ q.artifact = r.artifact /\ q.start = r.start
         /\ q.predictionCursor = r.predictionCursor /\ q.labelCursor = r.labelCursor /\ q.rows = r.rows
         /\ q.metric = r.metric /\ q.paused = r.paused
         /\ One(q.snapshot) /\ q.snapshot # {} /\ Checkpoint(q) = r.labelCursor
<1>1. PICK s : s = [artifact |-> c.artifact, learned |-> c.learned, checkpoint |-> r.labelCursor]
  OBVIOUS
<1>2. s \in Snapshots /\ s.checkpoint = r.labelCursor
  BY <1>1 DEF Snapshots, Registrations
<1>3. q = [r EXCEPT !.snapshot = {s}]
  BY <1>1 DEF SavePickleSnapshot
<1>4. /\ q \in Registrations /\ q.artifact = r.artifact /\ q.start = r.start
      /\ q.predictionCursor = r.predictionCursor /\ q.labelCursor = r.labelCursor /\ q.rows = r.rows
      /\ q.metric = r.metric /\ q.paused = r.paused /\ q.snapshot = {s}
  BY <1>2, <1>3 DEF Registrations
<1>5. One(q.snapshot) /\ q.snapshot # {}
  BY <1>4 DEF One
<1>6. Checkpoint(q) = s.checkpoint
  BY <1>4, <1>5, CheckpointIs
<1>. QED
  BY <1>2, <1>4, <1>5, <1>6

(* _checkpoint: the snapshot covers all labels processed. *)
LEMMA PickleGoesOn ==
  ASSUME QueueOK, NEW r, RegOK(r), SkipsNothing(r), NEW c \in Residents,
         NEW q, q = SavePickleSnapshot(r, c)
  PROVE  RegOK(q) /\ SkipsNothing(q) /\ GoesOn(r, q) /\ q.paused = r.paused
<1>1. r \in Registrations /\ c.artifact \in Nat /\ c.learned \in Seq(Labels)
  BY DEF RegOK, Residents
<1>2. /\ q \in Registrations /\ q.artifact = r.artifact /\ q.start = r.start
      /\ q.predictionCursor = r.predictionCursor /\ q.labelCursor = r.labelCursor /\ q.rows = r.rows
      /\ q.metric = r.metric /\ q.paused = r.paused
      /\ One(q.snapshot) /\ q.snapshot # {} /\ Checkpoint(q) = r.labelCursor
  BY <1>1, PickleSaves
<1>3. Checkpoint(r) <= r.labelCursor /\ r.labelCursor \in Nat /\ One(r.metric)
  BY <1>1 DEF RegOK, Registrations
<1>. QED
  BY <1>2, <1>3, SavingGoesOn

(* Steps of a cycle add up. *)
LEMMA GoesOnAdds ==
  ASSUME NEW r, NEW q, NEW s, RegOK(r), RegOK(q), RegOK(s), GoesOn(r, q), GoesOn(q, s)
  PROVE  GoesOn(r, s)
<1>1. Checkpoint(r) \in Nat /\ Checkpoint(q) \in Nat /\ Checkpoint(s) \in Nat
  BY CheckpointIs DEF RegOK
<1>2. RowsGain(r.rows, s.rows)
  BY GainsAdd DEF GoesOn
<1>. QED
  BY <1>1, <1>2 DEF GoesOn

(* _learn_model *)
LEMMA LearningGoesOn ==
  ASSUME QueueOK, NEW m, NEW r, RegOK(r), SkipsNothing(r), NEW c \in Residents, NEW due,
         NEW out, out = LearnModel(m, r, c, due)
  PROVE  RegOK(out.r) /\ SkipsNothing(out.r) /\ GoesOn(r, out.r) /\ out.c \in SUBSET Residents
<1>1. PICK p : p = PredictPending(r, c)
  OBVIOUS
<1>2. RegOK(p.r) /\ SkipsNothing(p.r) /\ GoesOn(r, p.r) /\ p.c \in Residents
  BY <1>1, PredictingGoesOn
<1>3. PICK q : q = ProcessResolutions(m, p.r, p.c)
  OBVIOUS
<1>4. RegOK(q.r) /\ SkipsNothing(q.r) /\ GoesOn(p.r, q.r) /\ q.c \in Residents
  BY <1>2, <1>3, ResolvingGoesOn
<1>5. GoesOn(r, q.r)
  BY <1>2, <1>4, GoesOnAdds
<1>6. PICK saved : saved = IF p.count > 0 \/ q.count > 0 THEN [q.r EXCEPT !.metric = {q.c.tracker}] ELSE q.r
  OBVIOUS
<1>7. RegOK(saved) /\ SkipsNothing(saved) /\ GoesOn(r, saved)
  <2>1. CASE saved = q.r
    BY <2>1, <1>4, <1>5
  <2>2. CASE saved = [q.r EXCEPT !.metric = {q.c.tracker}]
    <3>1. q.c.tracker \in Metrics
      BY <1>4 DEF Residents
    <3>2. RegOK(saved) /\ SkipsNothing(saved) /\ GoesOn(q.r, saved)
      BY <2>2, <3>1, <1>4, MetricGoesOn
    <3>. QED
      BY <3>2, <1>4, <1>5, GoesOnAdds
  <2>. QED
    BY <1>6, <2>1, <2>2
<1>8. PICK pickled : pickled = SavePickleSnapshot(saved, q.c)
  OBVIOUS
<1>9. RegOK(pickled) /\ SkipsNothing(pickled) /\ GoesOn(r, pickled)
  <2>1. RegOK(pickled) /\ SkipsNothing(pickled) /\ GoesOn(saved, pickled)
    BY <1>4, <1>7, <1>8, PickleGoesOn
  <2>. QED
    BY <2>1, <1>7, GoesOnAdds
<1>10. [q.c EXCEPT !.needsCheckpoint = FALSE] \in Residents
  BY <1>4 DEF Residents
<1>11. out = IF q.c.needsCheckpoint /\ due
             THEN [r |-> pickled, c |-> {[q.c EXCEPT !.needsCheckpoint = FALSE]}]
             ELSE [r |-> saved, c |-> {q.c}]
  BY <1>1, <1>3, <1>6, <1>8, Zenon DEF LearnModel
<1>12. CASE q.c.needsCheckpoint /\ due
  <2>1. out.r = pickled /\ out.c = {[q.c EXCEPT !.needsCheckpoint = FALSE]}
    BY <1>11, <1>12
  <2>. QED
    BY <2>1, <1>9, <1>10
<1>13. CASE ~(q.c.needsCheckpoint /\ due)
  <2>1. out.r = saved /\ out.c = {q.c}
    BY <1>11, <1>13
  <2>. QED
    BY <2>1, <1>4, <1>7
<1>. QED
  BY <1>12, <1>13
(* advance_model_checkpoint: the snapshot's place moves up to place, if at all. *)
LEMMA CheckpointAdvances ==
  ASSUME NEW r \in Registrations, One(r.snapshot), Checkpoint(r) <= r.labelCursor,
         NEW place \in Nat, r.labelCursor <= place,
         NEW q, q = AdvanceModelCheckpoint(r, place)
  PROVE  /\ q \in Registrations /\ q.artifact = r.artifact /\ q.start = r.start
         /\ q.predictionCursor = r.predictionCursor /\ q.labelCursor = r.labelCursor /\ q.rows = r.rows
         /\ q.metric = r.metric /\ q.paused = r.paused
         /\ One(q.snapshot)
         /\ r.snapshot # {} => q.snapshot # {}
         /\ Checkpoint(r) <= Checkpoint(q) /\ Checkpoint(q) <= place
<1>1. Checkpoint(r) \in Nat /\ r.labelCursor \in Nat
  BY CheckpointIs DEF Registrations
<1>2. ASSUME NEW s \in Snapshots, Checkpoint(r) <= s.checkpoint, s.checkpoint <= place,
             q = [r EXCEPT !.snapshot = {s}]
      PROVE  /\ q \in Registrations /\ q.artifact = r.artifact /\ q.start = r.start
             /\ q.predictionCursor = r.predictionCursor /\ q.labelCursor = r.labelCursor /\ q.rows = r.rows
             /\ q.metric = r.metric /\ q.paused = r.paused
             /\ One(q.snapshot) /\ q.snapshot # {}
             /\ Checkpoint(r) <= Checkpoint(q) /\ Checkpoint(q) <= place
  <2>1. /\ q \in Registrations /\ q.artifact = r.artifact /\ q.start = r.start
        /\ q.predictionCursor = r.predictionCursor /\ q.labelCursor = r.labelCursor /\ q.rows = r.rows
        /\ q.metric = r.metric /\ q.paused = r.paused /\ q.snapshot = {s}
    BY <1>2 DEF Registrations
  <2>2. One(q.snapshot)
    BY <2>1 DEF One
  <2>3. Checkpoint(q) = s.checkpoint
    BY <2>1, <2>2, CheckpointIs
  <2>. QED
    BY <1>2, <2>1, <2>2, <2>3
<1>3. CASE Behind(r)
  <2>1. q = r
    BY <1>3 DEF AdvanceModelCheckpoint
  <2>. QED
    BY <1>1, <2>1
<1>4. CASE ~Behind(r) /\ r.snapshot = {}
  <2>1. PICK s : s = [artifact |-> r.artifact, learned |-> <<>>, checkpoint |-> place]
    OBVIOUS
  <2>2. q = [r EXCEPT !.snapshot = {s}]
    BY <1>4, <2>1 DEF AdvanceModelCheckpoint
  <2>3. s \in Snapshots /\ s.checkpoint = place
    BY <2>1 DEF Snapshots, Registrations
  <2>4. Checkpoint(r) <= place
    BY <1>1
  <2>. QED
    BY <1>2, <2>2, <2>3, <2>4
<1>5. CASE ~Behind(r) /\ r.snapshot # {}
  <2>1. PICK old \in r.snapshot : r.snapshot = {old}
    BY <1>5 DEF One
  <2>2. old \in Snapshots /\ Checkpoint(r) = old.checkpoint
    BY <2>1, CheckpointIs DEF Registrations
  <2>3. PICK top : top = Max({old.checkpoint, place})
    OBVIOUS
  <2>4. top \in Nat /\ old.checkpoint <= top /\ top <= place
    <3>1. {old.checkpoint, place} \in SUBSET Nat /\ {old.checkpoint, place} # {}
          /\ \A n \in {old.checkpoint, place} : n <= place
      BY <1>1, <2>2
    <3>2. Max({old.checkpoint, place}) \in {old.checkpoint, place}
          /\ \A n \in {old.checkpoint, place} : n <= Max({old.checkpoint, place})
      BY <3>1, MaxIsGreatest
    <3>. QED
      BY <2>3, <3>1, <3>2
  <2>5. PICK s : s = [old EXCEPT !.checkpoint = top]
    OBVIOUS
  <2>6. s \in Snapshots /\ s.checkpoint = top
    BY <2>2, <2>4, <2>5 DEF Snapshots
  <2>7. s = [old EXCEPT !.checkpoint = Max({@, place})]
    BY <2>2, <2>3, <2>5 DEF Snapshots
  <2>8. {[t EXCEPT !.checkpoint = Max({@, place})] : t \in r.snapshot} = {s}
    BY <2>1, <2>7
  <2>9. q = [r EXCEPT !.snapshot = {s}]
    BY <1>5, <2>1, <2>8 DEF AdvanceModelCheckpoint
  <2>. QED
    BY <1>2, <2>2, <2>4, <2>6, <2>9
<1>. QED
  BY <1>3, <1>4, <1>5

(* record_disabled_work: a paused model's cursors pass over what gets its row. *)
LEMMA SkippingGoesOn ==
  ASSUME QueueOK, NEW r, RegOK(r), SkipsNothing(r), NEW q, q = RecordDisabledWork(r)
  PROVE  RegOK(q) /\ SkipsNothing(q) /\ GoesOn(r, q)
<1>1. PICK events : events = EventsAfterCursor(r)
  OBVIOUS
<1>2. PICK labels : labels = ReadyAfterCursor(r)
  OBVIOUS
<1>3. PICK seen : seen = CursorAfter(r.predictionCursor, events, Itself)
  OBVIOUS
<1>4. PICK last : last = CursorAfter(r.labelCursor, labels, ready)
  OBVIOUS
<1>5. events \in SUBSET stored /\ seen \in Nat /\ seen <= admissions
  BY <1>1, <1>3, EventsQuery
<1>6. \A e \in stored : e >= r.start /\ e > r.predictionCursor /\ e <= seen => e \in events
  BY <1>1, <1>3, EventsQuery
<1>7. labels \in SUBSET DOMAIN ready /\ last \in Nat /\ r.labelCursor <= last /\ last <= placements
  BY <1>2, <1>4, LabelsQuery
<1>8. \A e \in DOMAIN ready : e >= r.start /\ ready[e] > r.labelCursor /\ ready[e] <= last => e \in labels
  BY <1>2, <1>4, LabelsQuery
<1>9. r \in Registrations /\ r.rows \in RowMaps /\ r.labelCursor \in Nat /\ r.predictionCursor \in Nat
  BY DEF RegOK, Registrations
<1>10. events \in SUBSET Events /\ labels \in SUBSET Events /\ {} \in SUBSET Events
  BY <1>5, <1>7, StoreIsFinite DEF QueueOK
<1>11. PICK more : more = AddRows(r.rows, {}, events)
  OBVIOUS
<1>12. more \in RowMaps /\ DOMAIN more = DOMAIN r.rows \cup events
  <2>1. more \in RowMaps
    BY <1>9, <1>10, <1>11, AddingRows
  <2>2. DOMAIN more = DOMAIN r.rows \cup events
    BY <1>11 DEF AddRows
  <2>. QED
    BY <2>1, <2>2
<1>13. RowsGain(r.rows, more)
  BY <1>11 DEF AddRows, RowsGain
<1>14. PICK all : all = Settle(more, labels, "skipped")
  OBVIOUS
<1>15. all \in RowMaps /\ DOMAIN all = DOMAIN more \cup labels
  BY <1>10, <1>12, <1>14, SettlingRows
<1>16. RowsGain(more, all) /\ \A e \in labels : IsSettled(all[e])
  BY <1>10, <1>12, <1>14, SettlingRows
<1>17. RowsGain(r.rows, all)
  BY <1>13, <1>16, GainsAdd
<1>18. PICK skipped : skipped = [r EXCEPT !.rows = all, !.predictionCursor = seen]
  OBVIOUS
<1>19. /\ skipped \in Registrations /\ skipped.rows = all /\ skipped.predictionCursor = seen
       /\ skipped.artifact = r.artifact /\ skipped.start = r.start /\ skipped.labelCursor = r.labelCursor
       /\ skipped.snapshot = r.snapshot /\ skipped.metric = r.metric
  BY <1>5, <1>9, <1>15, <1>18 DEF Registrations
<1>20. PICK advanced : advanced = AdvanceModelCheckpoint(skipped, last)
  OBVIOUS
<1>21. q = IF labels = {} THEN skipped ELSE [advanced EXCEPT !.labelCursor = last]
  BY <1>1, <1>2, <1>3, <1>4, <1>11, <1>14, <1>18, <1>20, Zenon DEF RecordDisabledWork
<1>22. Checkpoint(skipped) = Checkpoint(r) /\ Checkpoint(r) \in Nat /\ Checkpoint(r) <= r.labelCursor
  BY <1>9, <1>19, SameCheckpoint, CheckpointIs DEF RegOK
<1>23. One(r.snapshot) /\ One(r.metric)
  BY DEF RegOK
<1>24. /\ q \in Registrations /\ q.rows = all /\ q.predictionCursor = seen /\ q.labelCursor = last
       /\ q.artifact = r.artifact /\ q.start = r.start
       /\ One(q.snapshot) /\ One(q.metric)
       /\ r.snapshot # {} => q.snapshot # {}
       /\ Checkpoint(r) <= Checkpoint(q) /\ Checkpoint(q) <= last
  <2>1. CASE labels = {}
    <3>1. q = skipped /\ last = r.labelCursor
      BY <1>4, <1>21, <2>1 DEF CursorAfter
    <3>. QED
      BY <1>19, <1>22, <1>23, <3>1
  <2>2. CASE labels # {}
    <3>1. One(skipped.snapshot) /\ Checkpoint(skipped) <= skipped.labelCursor /\ skipped.labelCursor <= last
      BY <1>7, <1>19, <1>22, <1>23
    <3>2. /\ advanced \in Registrations /\ advanced.artifact = r.artifact /\ advanced.start = r.start
          /\ advanced.predictionCursor = seen /\ advanced.rows = all
          /\ One(advanced.snapshot) /\ advanced.metric = r.metric
      BY <1>7, <1>19, <1>20, <3>1, CheckpointAdvances
    <3>3. /\ r.snapshot # {} => advanced.snapshot # {}
          /\ Checkpoint(r) <= Checkpoint(advanced) /\ Checkpoint(advanced) <= last
      BY <1>7, <1>19, <1>20, <1>22, <3>1, CheckpointAdvances
    <3>4. q = [advanced EXCEPT !.labelCursor = last]
      BY <1>21, <2>2
    <3>5. /\ q \in Registrations /\ q.artifact = r.artifact /\ q.start = r.start
          /\ q.predictionCursor = seen /\ q.rows = all /\ q.labelCursor = last
          /\ q.metric = r.metric /\ q.snapshot = advanced.snapshot
      BY <1>7, <3>2, <3>4 DEF Registrations
    <3>6. Checkpoint(q) = Checkpoint(advanced)
      BY <3>5, SameCheckpoint
    <3>. QED
      BY <1>23, <3>2, <3>3, <3>5, <3>6
  <2>. QED
    BY <2>1, <2>2
<1>25. DOMAIN q.rows \subseteq stored
  BY <1>5, <1>7, <1>12, <1>15, <1>24 DEF RegOK, QueueOK
<1>26. \A e \in stored : e >= r.start /\ e > r.predictionCursor /\ e <= q.predictionCursor => e \in DOMAIN q.rows
  BY <1>6, <1>12, <1>15, <1>24
<1>27. \A e \in DOMAIN ready : e >= r.start /\ ready[e] > r.labelCursor /\ ready[e] <= q.labelCursor =>
         e \in DOMAIN q.rows /\ IsSettled(q.rows[e])
  BY <1>8, <1>15, <1>16, <1>24
<1>28. /\ q.predictionCursor <= admissions /\ q.labelCursor <= placements
       /\ RowsGain(r.rows, q.rows) /\ Checkpoint(q) <= q.labelCursor
  BY <1>5, <1>7, <1>17, <1>24
<1>. QED
  BY <1>24, <1>25, <1>26, <1>27, <1>28, Progress

(* record_model_failure: the pause alone. *)
LEMMA PausingGoesOn ==
  ASSUME QueueOK, NEW r, RegOK(r), SkipsNothing(r), NEW paused \in BOOLEAN,
         NEW q, q = [r EXCEPT !.paused = paused]
  PROVE  RegOK(q) /\ SkipsNothing(q) /\ GoesOn(r, q)
<1>1. /\ q \in Registrations /\ q.artifact = r.artifact /\ q.start = r.start
      /\ q.predictionCursor = r.predictionCursor /\ q.labelCursor = r.labelCursor /\ q.rows = r.rows
      /\ q.snapshot = r.snapshot /\ q.metric = r.metric
  BY DEF RegOK, Registrations
<1>2. Checkpoint(q) = Checkpoint(r) /\ Checkpoint(r) \in Nat /\ Checkpoint(r) <= r.labelCursor
  BY <1>1, SameCheckpoint, CheckpointIs DEF RegOK
<1>3. One(q.snapshot) /\ One(q.metric)
  BY <1>1 DEF RegOK
<1>4. Checkpoint(r) <= Checkpoint(q) /\ Checkpoint(q) <= r.labelCursor
  BY <1>2
<1>5. r.snapshot # {} => q.snapshot # {}
  BY <1>1
<1>. QED
  BY <1>1, <1>3, <1>4, <1>5, SavingGoesOn

(* What _active_models builds of a registration: Load, by its parts. *)
BaseOf(r) ==
  IF r.snapshot = {} THEN [artifact |-> r.artifact, learned |-> <<>>] ELSE CHOOSE s \in r.snapshot : TRUE

TrackerOf(r) ==
  IF r.metric # {} THEN CHOOSE t \in r.metric : TRUE
  ELSE [scored |-> <<>>,
        predictions |-> Cardinality({e \in DOMAIN r.rows : r.rows[e].status = "predicted"})]

LearnedOf(m, r) ==
  IF m \in LearningModels THEN BaseOf(r).learned \o InQueueOrder(TrainedSinceCheckpoint(r)) ELSE BaseOf(r).learned

LoadOf(m, r) ==
  [fingerprint |-> r.artifact, artifact |-> BaseOf(r).artifact, learned |-> LearnedOf(m, r),
   tracker |-> TrackerOf(r), needsCheckpoint |-> Behind(r)]

LEMMA LoadIs == \A m : Load(m) = LoadOf(m, model[m])
BY Zenon DEF Load, LoadOf, LearnedOf, TrackerOf, BaseOf

(* The model to start from: the snapshot, or the artifact. *)
LEMMA BaseIs ==
  ASSUME NEW r \in Registrations
  PROVE  /\ BaseOf(r).artifact \in Nat /\ BaseOf(r).learned \in Seq(Labels)
         /\ r.snapshot = {} => BaseOf(r).artifact = r.artifact /\ BaseOf(r).learned = <<>>
         /\ \A s : r.snapshot = {s} => BaseOf(r) = s
<1>1. CASE r.snapshot = {}
  BY <1>1 DEF BaseOf, Registrations
<1>2. CASE r.snapshot # {}
  <2>1. BaseOf(r) \in r.snapshot
    BY <1>2 DEF BaseOf
  <2>2. BaseOf(r) \in Snapshots
    BY <2>1 DEF Registrations
  <2>. QED
    BY <1>2, <2>1, <2>2 DEF Snapshots
<1>. QED
  BY <1>1, <1>2

(* The metric state: what is stored, or the predictions counted. *)
LEMMA TrackerIs ==
  ASSUME QueueOK, NEW r \in Registrations, DOMAIN r.rows \subseteq stored
  PROVE  /\ TrackerOf(r) \in Metrics
         /\ \A t : r.metric = {t} => TrackerOf(r) = t
<1>1. CASE r.metric # {}
  <2>1. TrackerOf(r) \in r.metric
    BY <1>1 DEF TrackerOf
  <2>. QED
    BY <2>1 DEF Registrations
<1>2. CASE r.metric = {}
  <2> DEFINE predicted == {e \in DOMAIN r.rows : r.rows[e].status = "predicted"}
  <2>1. predicted \subseteq stored
    OBVIOUS
  <2>2. TrackerOf(r) = [scored |-> <<>>, predictions |-> Cardinality(predicted)]
    BY <1>2 DEF TrackerOf
  <2> HIDE DEF predicted
  <2>3. Cardinality(predicted) \in Nat
    BY <2>1, StoreIsFinite, FS_CardinalityType
  <2>. QED
    BY <1>2, <2>2, <2>3 DEF Metrics
<1>. QED
  BY <1>1, <1>2

(* Whether labels were processed since the checkpoint is a truth value. *)
LEMMA BehindIs ==
  ASSUME NEW r \in Registrations, One(r.snapshot)
  PROVE  Behind(r) \in BOOLEAN
<1>1. Checkpoint(r) \in Nat /\ r.labelCursor \in Nat
  BY CheckpointIs DEF Registrations
<1>2. CASE r.labelCursor > Checkpoint(r)
  <2>1. Behind(r) = TRUE
    BY <1>1, <1>2 DEF Behind
  <2>. QED
    BY <2>1
<1>3. CASE ~(r.labelCursor > Checkpoint(r))
  <2>1. Behind(r) = FALSE
    BY <1>1, <1>3 DEF Behind
  <2>. QED
    BY <2>1
<1>. QED
  BY <1>2, <1>3

(* What _load_model builds is a resident model. *)
LEMMA LoadIsResident ==
  ASSUME QueueOK, NEW m, NEW r, RegOK(r)
  PROVE  LoadOf(m, r) \in Residents
<1>1. r \in Registrations /\ One(r.snapshot) /\ r.artifact \in Nat /\ DOMAIN r.rows \subseteq stored
  BY DEF RegOK, Registrations
<1>2. BaseOf(r).artifact \in Nat /\ BaseOf(r).learned \in Seq(Labels) /\ TrackerOf(r) \in Metrics
  BY <1>1, BaseIs, TrackerIs
<1>3. LearnedOf(m, r) \in Seq(Labels)
  <2>1. TrainedSinceCheckpoint(r) \in SUBSET DOMAIN ready
    BY DEF TrainedSinceCheckpoint
  <2>2. PICK replayed : replayed = InQueueOrder(TrainedSinceCheckpoint(r))
    OBVIOUS
  <2>3. replayed \in Seq(Labels)
    BY <2>1, <2>2, QueueOrderType
  <2>. QED
    BY <1>2, <2>2, <2>3 DEF LearnedOf
<1>4. \A behind \in BOOLEAN :
        [fingerprint |-> r.artifact, artifact |-> BaseOf(r).artifact, learned |-> LearnedOf(m, r),
         tracker |-> TrackerOf(r), needsCheckpoint |-> behind] \in Residents
  BY <1>1, <1>2, <1>3 DEF Residents
<1>. QED
  BY <1>1, <1>4, BehindIs, Zenon DEF LoadOf

(* What learn_once does to one model, whether it fails or not. *)
LEMMA CycleGoesOn ==
  ASSUME QueueOK, NEW m \in DOMAIN model, RegOK(model[m]), SkipsNothing(model[m]),
         m \in DOMAIN cache => cache[m] \in Residents, NEW fault, NEW due,
         NEW out, out = CycleOf(m, fault, due)
  PROVE  RegOK(out.r) /\ SkipsNothing(out.r) /\ GoesOn(model[m], out.r) /\ out.c \in SUBSET Residents
<1>1. CASE model[m].paused
  <2>1. out = [r |-> RecordDisabledWork(model[m]), c |-> {}]
    BY <1>1 DEF CycleOf
  <2>2. out.r = RecordDisabledWork(model[m]) /\ out.c = {}
    BY <2>1
  <2>3. RegOK(out.r) /\ SkipsNothing(out.r) /\ GoesOn(model[m], out.r)
    BY <2>2, SkippingGoesOn
  <2>. QED
    BY <2>2, <2>3
<1>2. CASE ~model[m].paused /\ fault
  <2>1. PICK failed : failed = [model[m] EXCEPT !.paused = TRUE]
    OBVIOUS
  <2>2. out = [r |-> RecordDisabledWork(failed), c |-> {}]
    BY <1>2, <2>1 DEF CycleOf
  <2>3. out.r = RecordDisabledWork(failed) /\ out.c = {}
    BY <2>2
  <2>4. RegOK(failed) /\ SkipsNothing(failed) /\ GoesOn(model[m], failed)
    BY <2>1, PausingGoesOn
  <2>5. RegOK(out.r) /\ SkipsNothing(out.r) /\ GoesOn(failed, out.r)
    BY <2>3, <2>4, SkippingGoesOn
  <2>6. GoesOn(model[m], out.r)
    BY <2>4, <2>5, GoesOnAdds
  <2>. QED
    BY <2>3, <2>5, <2>6
<1>3. CASE ~model[m].paused /\ ~fault
  <2>1. PICK c : c = IF Resident(m) THEN cache[m] ELSE Load(m)
    OBVIOUS
  <2>2. c \in Residents
    BY <2>1, LoadIsResident, LoadIs DEF Resident
  <2>3. out = LearnModel(m, model[m], c, due)
    BY <1>3, <2>1 DEF CycleOf
  <2>. QED
    BY <2>2, <2>3, LearningGoesOn
<1>. QED
  BY <1>1, <1>2, <1>3
-----------------------------------------------------------------------------
(* The invariant                                                            *)

(* What a run reaches: the event store is in order, every model's rows are    *)
(* where its cursors say, and the resident models are well formed.  Cursors   *)
(* may skip nothing only because rows, ready places and cursors fit together, *)
(* which is what RegOK and QueueOK add.                                       *)
LearnerInv ==
  /\ QueueOK
  /\ uploads \in 0..MaxUploads /\ faults \in 0..MaxFaults
  /\ DOMAIN model \subseteq Models /\ IsFiniteSet(DOMAIN model)
  /\ \A m \in DOMAIN model : RegOK(model[m]) /\ SkipsNothing(model[m])
  /\ DOMAIN cache \subseteq Models
  /\ \A m \in DOMAIN cache : cache[m] \in Residents

(* The next registration of a model, by its value. *)
LEMMA NextModel ==
  ASSUME NEW m, NEW r, r = model'[m], RegOK(r)', SkipsNothing(r)'
  PROVE  RegOK(model[m])' /\ SkipsNothing(model[m])'
BY DEF RegOK, SkipsNothing

(* The queue is in order as long as nobody touches it. *)
LEMMA QueueStays == ASSUME QueueOK, UNCHANGED queue PROVE QueueOK'
BY DEF QueueOK, queue, Distinct

(* A registration stays in order while the event store and the uploads grow. *)
LEMMA GrowingKeeps ==
  ASSUME NEW r, RegOK(r), SkipsNothing(r), QueueOK, uploads \in Nat, uploads' \in Nat, uploads <= uploads',
         admissions' \in Nat, admissions <= admissions', placements' \in Nat, placements <= placements',
         stored \subseteq stored', \A e \in stored' \ stored : e \in Nat /\ e > admissions,
         \A e \in DOMAIN ready : e \in DOMAIN ready' /\ ready'[e] = ready[e],
         \A e \in DOMAIN ready' \ DOMAIN ready : ready'[e] \in Nat /\ ready'[e] > placements
  PROVE  RegOK(r)' /\ SkipsNothing(r)'
<1>1. /\ r \in Registrations /\ r.artifact \in 1..uploads
      /\ r.start \in 1..(admissions + 1) /\ r.predictionCursor <= admissions /\ r.labelCursor <= placements
      /\ Checkpoint(r) <= r.labelCursor
      /\ DOMAIN r.rows \subseteq stored
      /\ One(r.snapshot) /\ One(r.metric)
  BY DEF RegOK
<1>2. r.artifact \in Nat /\ r.start \in Nat /\ r.predictionCursor \in Nat /\ r.labelCursor \in Nat
  BY <1>1 DEF Registrations
<1>3. admissions \in Nat /\ placements \in Nat
  BY DEF QueueOK
<1>4. RegOK(r)'
  <2>1. r.artifact \in 1..uploads' /\ r.start \in 1..(admissions' + 1)
    BY <1>1, <1>2, <1>3
  <2>2. r.predictionCursor <= admissions' /\ r.labelCursor <= placements'
    BY <1>1, <1>2, <1>3
  <2>. QED
    BY <1>1, <2>1, <2>2 DEF RegOK
<1>5. ASSUME NEW e \in stored', e >= r.start, e <= r.predictionCursor PROVE e \in DOMAIN r.rows
  <2>1. e \in stored
    BY <1>1, <1>2, <1>3, <1>5
  <2>. QED
    BY <1>5, <2>1 DEF SkipsNothing
<1>6. ASSUME NEW e \in stored', e >= r.start, e \in DOMAIN ready', ready'[e] <= r.labelCursor
      PROVE  e \in DOMAIN r.rows /\ IsSettled(r.rows[e])
  <2>1. e \in DOMAIN ready
    BY <1>1, <1>2, <1>3, <1>6
  <2>2. e \in stored /\ ready[e] <= r.labelCursor
    BY <1>6, <2>1 DEF QueueOK
  <2>. QED
    BY <1>6, <2>1, <2>2 DEF SkipsNothing
<1>7. SkipsNothing(r)'
  BY <1>5, <1>6 DEF SkipsNothing
<1>. QED
  BY <1>4, <1>7

(* The greatest of no numbers or some, up to a bound. *)
LEMMA MaxOrZero ==
  ASSUME NEW S \in SUBSET Nat, NEW bound \in Nat, \A n \in S : n <= bound
  PROVE  Max(S \cup {0}) \in 0..bound /\ \A n \in S : n <= Max(S \cup {0})
<1>1. S \cup {0} \in SUBSET Nat /\ S \cup {0} # {} /\ \A n \in S \cup {0} : n <= bound
  OBVIOUS
<1> DEFINE T == S \cup {0}
<1> HIDE DEF T
<1>2. Max(T) \in T /\ \A n \in T : n <= Max(T)
  BY <1>1, MaxIsGreatest DEF T
<1>3. T \in SUBSET Nat /\ S \subseteq T /\ \A n \in T : n <= bound
  BY <1>1 DEF T
<1>4. Max(T) \in 0..bound /\ \A n \in S : n <= Max(T)
  <2>1. PICK top : top = Max(T)
    OBVIOUS
  <2>2. top \in T /\ \A n \in T : n <= top
    BY <1>2, <2>1
  <2>3. top \in 0..bound /\ \A n \in S : n <= top
    BY <1>3, <2>2
  <2>. QED
    BY <2>1, <2>3
<1>. QED
  BY <1>4 DEF T

(* start_live_generation: a generation starts above all there is.             *)
LEMMA FrontierIs ==
  ASSUME QueueOK, NEW r \in Registrations, NEW q, q = AtFrontier(r)
  PROVE  /\ q \in Registrations /\ q.artifact = r.artifact /\ q.paused = r.paused
         /\ q.rows = r.rows /\ q.snapshot = r.snapshot /\ q.metric = r.metric
         /\ q.start \in 1..(admissions + 1) /\ q.predictionCursor <= admissions /\ q.labelCursor <= placements
         /\ \A e \in stored : e < q.start
<1> DEFINE places == {ready[e] : e \in DOMAIN ready}
<1>1. admissions \in Nat /\ placements \in Nat
  BY DEF QueueOK
<1>2. stored \in SUBSET Nat /\ \A n \in stored : n <= admissions
  BY DEF QueueOK
<1>3. places \in SUBSET Nat /\ \A n \in places : n <= placements
  BY DEF QueueOK
<1>4. PICK seen : seen = Max(stored \cup {0})
  OBVIOUS
<1>5. PICK last : last = Max(places \cup {0})
  OBVIOUS
<1>6. seen \in 0..admissions /\ \A n \in stored : n <= seen
  BY <1>1, <1>2, <1>4, MaxOrZero
<1>7. last \in 0..placements
  <2> HIDE DEF places
  <2>. QED
    BY <1>1, <1>3, <1>5, MaxOrZero
<1>8. q = [r EXCEPT !.start = seen + 1, !.predictionCursor = seen, !.labelCursor = last]
  BY <1>4, <1>5 DEF AtFrontier
<1>9. seen \in Nat /\ last \in Nat /\ seen + 1 \in 1..(admissions + 1) /\ seen <= admissions /\ last <= placements
  BY <1>1, <1>6, <1>7
<1>10. \A e \in stored : e < seen + 1
  BY <1>2, <1>6
<1>0. PICK first \in Nat : first = seen + 1
  BY <1>9
<1>11. /\ q \in Registrations /\ q.artifact = r.artifact /\ q.paused = r.paused
       /\ q.rows = r.rows /\ q.snapshot = r.snapshot /\ q.metric = r.metric
       /\ q.start = first /\ q.predictionCursor = seen /\ q.labelCursor = last
  <2>1. q = [r EXCEPT !.start = first, !.predictionCursor = seen, !.labelCursor = last]
    BY <1>0, <1>8
  <2>. QED
    BY <1>9, <2>1 DEF Registrations
<1>. QED
  BY <1>0, <1>9, <1>10, <1>11

(* A registration whose generation starts above all events skips nothing. *)
LEMMA FreshModel ==
  ASSUME QueueOK, NEW r \in Registrations, r.artifact \in 1..uploads',
         r.start \in 1..(admissions + 1), r.predictionCursor <= admissions, r.labelCursor <= placements,
         Checkpoint(r) <= r.labelCursor, DOMAIN r.rows \subseteq stored,
         One(r.snapshot), One(r.metric), \A e \in stored : e < r.start, UNCHANGED queue
  PROVE  RegOK(r)' /\ SkipsNothing(r)'
<1>1. RegOK(r)'
  BY DEF RegOK, queue
<1>2. \A e \in stored : ~(e >= r.start)
  BY StoreIsFinite DEF Registrations
<1>. QED
  BY <1>1, <1>2 DEF SkipsNothing, queue

(* register_model: a row of its own, at the frontier. *)
LEMMA NewModelIs ==
  ASSUME QueueOK, NEW artifact \in Nat, NEW q, q = NewModel(artifact)
  PROVE  /\ q \in Registrations /\ q.artifact = artifact
         /\ q.start \in 1..(admissions + 1) /\ q.predictionCursor <= admissions /\ q.labelCursor <= placements
         /\ DOMAIN q.rows = {} /\ q.snapshot = {} /\ q.metric = {}
         /\ \A e \in stored : e < q.start
<1>1. PICK r : r = [artifact |-> artifact, start |-> 0, predictionCursor |-> 0, labelCursor |-> 0,
                    paused |-> FALSE, rows |-> [e \in {} |-> 0], snapshot |-> {}, metric |-> {}]
  OBVIOUS
<1>2. q = AtFrontier(r)
  BY <1>1 DEF NewModel
<1>3. PICK none : none = [e \in {} |-> 0]
  OBVIOUS
<1>4. none \in RowMaps /\ DOMAIN none = {}
  <2>1. none \in [{} -> Rows] /\ {} \in SUBSET Events
    BY <1>3
  <2>. QED
    BY <1>3, <2>1, RowMapsAre
<1>5. r = [artifact |-> artifact, start |-> 0, predictionCursor |-> 0, labelCursor |-> 0,
           paused |-> FALSE, rows |-> none, snapshot |-> {}, metric |-> {}]
  BY <1>1, <1>3
<1>6. r \in Registrations
  BY <1>4, <1>5 DEF Registrations
<1>7. r.artifact = artifact /\ r.rows = none /\ r.snapshot = {} /\ r.metric = {}
  BY <1>5
<1>. QED
  BY <1>2, <1>4, <1>6, <1>7, FrontierIs
(* ------------------------------ The steps ------------------------------ *)

(* What every step but the archive's does: resolved events keep their places, *)
(* and a model goes on, or its generation starts above all events.            *)
Upkeep ==
  /\ \A e \in DOMAIN ready : e \in DOMAIN ready' /\ ready'[e] = ready[e]
  /\ \A m \in DOMAIN model' :
       \/ m \in DOMAIN model /\ GoesOn(model[m], model'[m])
       \/ \A e \in stored : e < model'[m].start

(* A registration that stays goes on. *)
LEMMA StayingGoesOn ==
  ASSUME NEW r, RegOK(r)
  PROVE  GoesOn(r, r)
<1>1. Checkpoint(r) \in Nat
  BY CheckpointIs DEF RegOK
<1>. QED
  BY <1>1 DEF GoesOn, RowsGain

(* A step of the event store. *)
LEMMA QueueStepKeeps ==
  ASSUME LearnerInv, QueueOK', uploads' = uploads, model' = model, cache' = cache, faults' = faults,
         admissions <= admissions', placements <= placements',
         stored \subseteq stored', \A e \in stored' \ stored : e > admissions,
         \A e \in DOMAIN ready : e \in DOMAIN ready' /\ ready'[e] = ready[e],
         \A e \in DOMAIN ready' \ DOMAIN ready : ready'[e] > placements
  PROVE  LearnerInv' /\ Upkeep
<1>1. /\ uploads \in Nat /\ admissions' \in Nat /\ placements' \in Nat
      /\ \A e \in stored' : e \in Nat /\ \A x \in DOMAIN ready' : ready'[x] \in Nat
  BY LearnerAssumption DEF LearnerInv, QueueOK
<1>2. ASSUME NEW m \in DOMAIN model' PROVE RegOK(model[m])' /\ SkipsNothing(model[m])' /\ GoesOn(model[m], model'[m])
  <2>1. PICK r : r = model'[m]
    OBVIOUS
  <2>2. RegOK(r) /\ SkipsNothing(r) /\ r = model[m]
    BY <2>1 DEF LearnerInv
  <2>3. RegOK(r)' /\ SkipsNothing(r)'
    <3>1. QueueOK /\ uploads' \in Nat /\ uploads <= uploads'
      BY <1>1 DEF LearnerInv
    <3>2. \A e \in stored' \ stored : e \in Nat /\ e > admissions
      BY <1>1
    <3>3. \A e \in DOMAIN ready' \ DOMAIN ready : ready'[e] \in Nat /\ ready'[e] > placements
      BY DEF QueueOK
    <3>. QED
      BY <1>1, <2>2, <3>1, <3>2, <3>3, GrowingKeeps
  <2>. QED
    BY <2>1, <2>2, <2>3, NextModel, StayingGoesOn
<1>. QED
  BY <1>2 DEF LearnerInv, Upkeep

(* A transaction of the store only adds, and numbers what it adds upwards. *)
LEMMA StoreGrows ==
  ASSUME LearnerInv, StoreCommits
  PROVE  /\ QueueOK' /\ UNCHANGED <<model, cache, uploads, faults>>
         /\ admissions <= admissions' /\ placements <= placements'
         /\ stored \subseteq stored' /\ \A e \in stored' \ stored : e > admissions
         /\ \A e \in DOMAIN ready : e \in DOMAIN ready' /\ ready'[e] = ready[e]
         /\ \A e \in DOMAIN ready' \ DOMAIN ready : ready'[e] > placements
         /\ \A e \in DOMAIN ready : e \in known' <=> e \in known
<1>1. PICK new, settling, place, found :
        /\ new \in SUBSET ((admissions + 1)..MaxNumber)
        /\ settling \in SUBSET ((stored \cup new) \ DOMAIN ready)
        /\ place \in Injection(settling, (placements + 1)..MaxNumber) /\ found \in SUBSET settling
        /\ Transaction(new, settling, place, found)
  BY Zenon DEF StoreCommits
<1>2. /\ stored' = stored \cup new
      /\ ready' = [e \in DOMAIN ready \cup settling |-> IF e \in settling THEN place[e] ELSE ready[e]]
      /\ known' = known \cup found
      /\ admissions' = Max(new \cup {admissions})
      /\ placements' = Max(Range(place) \cup {placements})
      /\ UNCHANGED <<model, cache, uploads, faults>>
  BY <1>1, Zenon DEF Transaction
<1>3. /\ MaxNumber \in Nat /\ admissions \in 0..MaxNumber /\ placements \in Nat
      /\ stored \subseteq 1..admissions /\ DOMAIN ready \subseteq stored /\ known \subseteq DOMAIN ready
      /\ \A e \in DOMAIN ready : ready[e] \in 1..placements
      /\ Distinct(DOMAIN ready, ready)
  BY LearnerAssumption DEF LearnerInv, QueueOK
<1>4. /\ \A e \in settling : place[e] \in (placements + 1)..MaxNumber
      /\ \A e, other \in settling : place[e] = place[other] => e = other
      /\ Range(place) = {place[e] : e \in settling}
  BY <1>1 DEF Injection, IsInjective, Range
<1>5. /\ admissions' \in new \cup {admissions}
      /\ \A n \in new \cup {admissions} : n <= admissions'
  <2>1. /\ new \cup {admissions} \in SUBSET Nat /\ new \cup {admissions} # {}
        /\ \A n \in new \cup {admissions} : n <= MaxNumber
    BY <1>1, <1>3
  <2>. QED
    BY <1>2, <1>3, <2>1, MaxIsGreatest
<1>6. placements' \in Nat /\ placements <= placements' /\ \A e \in settling : place[e] <= placements'
  <2> DEFINE given_ == Range(place) \cup {placements}
  <2>1. /\ given_ \in SUBSET Nat /\ given_ # {} /\ placements \in given_
        /\ \A e \in settling : place[e] \in given_
        /\ \A n \in given_ : n <= MaxNumber + placements
    BY <1>3, <1>4
  <2>2. placements' = Max(given_)
    BY <1>2
  <2>3. MaxNumber + placements \in Nat
    BY <1>3
  <2> HIDE DEF given_
  <2>. QED
    BY <2>1, <2>2, <2>3, MaxIsGreatest
<1>7. /\ DOMAIN ready' = DOMAIN ready \cup settling
      /\ \A e \in DOMAIN ready : ready'[e] = ready[e]
      /\ \A e \in settling : ready'[e] = place[e]
  BY <1>1, <1>2
<1>8. QueueOK'
  <2>1. admissions' \in 0..MaxNumber /\ stored' \subseteq 1..admissions'
    <3>1. admissions' \in 0..MaxNumber /\ admissions <= admissions'
      BY <1>1, <1>3, <1>5
    <3>2. \A e \in new : e \in 1..admissions'
      <4>1. \A e \in new : e \in (admissions + 1)..MaxNumber /\ e <= admissions'
        BY <1>1, <1>5
      <4>. QED
        BY <1>3, <3>1, <4>1
    <3>3. \A e \in stored : e \in 1..admissions'
      <4>1. \A e \in stored : e \in 1..admissions
        BY <1>3
      <4>. QED
        BY <1>3, <3>1, <4>1
    <3>4. stored' = stored \cup new
      BY <1>2
    <3>. QED
      BY <3>1, <3>2, <3>3, <3>4
  <2>2. \A e \in DOMAIN ready' : ready'[e] \in 1..placements'
    BY <1>3, <1>4, <1>6, <1>7
  <2>3. Distinct(DOMAIN ready, ready)'
    <3>1. \A e \in DOMAIN ready, other \in settling : ready'[e] # ready'[other]
      BY <1>1, <1>3, <1>4, <1>7
    <3>. QED
      BY <1>3, <1>4, <1>7, <3>1 DEF Distinct
  <2>4. known' \subseteq DOMAIN ready' /\ DOMAIN ready' \subseteq stored'
    BY <1>1, <1>2, <1>3, <1>7
  <2>. QED
    BY <1>6, <2>1, <2>2, <2>3, <2>4 DEF QueueOK
<1>9. admissions <= admissions' /\ \A e \in new : e > admissions
  BY <1>1, <1>3, <1>5
<1>10. /\ \A e \in stored' \ stored : e \in new
       /\ \A e \in DOMAIN ready' \ DOMAIN ready : e \in settling
       /\ \A e \in DOMAIN ready : e \in known' <=> e \in known
  BY <1>1, <1>2, <1>7
<1>11. \A e \in settling : place[e] > placements
  BY <1>3, <1>4
<1>. QED
  BY <1>2, <1>6, <1>7, <1>8, <1>9, <1>10, <1>11

(* StoreCommits *)
LEMMA StoreCommitsKeeps == ASSUME LearnerInv, StoreCommits PROVE LearnerInv' /\ Upkeep
BY StoreGrows, QueueStepKeeps

(* Steps that leave the event store and the uploads, and change registrations *)
(* only for ones that are in order.                                           *)
LEMMA ModelStepKeeps ==
  ASSUME LearnerInv, UNCHANGED queue, uploads \in Nat, uploads' \in 0..MaxUploads, uploads <= uploads',
         faults' \in 0..MaxFaults, DOMAIN model' \subseteq Models, IsFiniteSet(DOMAIN model'),
         DOMAIN cache' \subseteq Models, \A m \in DOMAIN cache' : cache'[m] \in Residents,
         \A m \in DOMAIN model' :
           \/ m \in DOMAIN model /\ RegOK(model'[m]) /\ SkipsNothing(model'[m]) /\ GoesOn(model[m], model'[m])
           \/ /\ RegOK(model[m])' /\ SkipsNothing(model[m])'
              /\ \A e \in stored : e < model'[m].start
  PROVE  LearnerInv' /\ Upkeep
<1>1. QueueOK /\ QueueOK' /\ uploads' \in Nat /\ admissions \in Nat /\ placements \in Nat
  BY QueueStays, LearnerAssumption DEF LearnerInv, QueueOK
<1>2. ASSUME NEW m \in DOMAIN model' PROVE RegOK(model[m])' /\ SkipsNothing(model[m])'
  <2>1. CASE RegOK(model'[m]) /\ SkipsNothing(model'[m])
    <3>1. PICK r : r = model'[m]
      OBVIOUS
    <3>2. RegOK(r) /\ SkipsNothing(r)
      BY <2>1, <3>1
    <3>3. RegOK(r)' /\ SkipsNothing(r)'
      BY <1>1, <3>2, GrowingKeeps DEF queue
    <3>. QED
      BY <3>1, <3>3, NextModel
  <2>. QED
    BY <2>1
<1>3. Upkeep
  BY DEF Upkeep, queue
<1>. QED
  BY <1>1, <1>2, <1>3 DEF LearnerInv

(* LearnOnce *)
LEMMA LearnOnceKeeps == ASSUME LearnerInv, LearnOnce PROVE LearnerInv' /\ Upkeep
<1>1. PICK failing \in SUBSET DOMAIN model, due \in SUBSET DOMAIN model :
        faults + Cardinality(failing) <= MaxFaults /\ Cycle(failing, due)
  BY DEF LearnOnce
<1> DEFINE out == [m \in DOMAIN model |-> CycleOf(m, m \in failing, m \in due)]
<1>2. /\ model' = [m \in DOMAIN model |-> out[m].r]
      /\ cache' = [m \in {m \in DOMAIN model : out[m].c # {}} |-> CHOOSE c \in out[m].c : TRUE]
      /\ faults' = faults + Cardinality(failing)
      /\ UNCHANGED <<stored, ready, known, admissions, placements, uploads>>
  BY <1>1, Zenon DEF Cycle
<1>3. faults' \in 0..MaxFaults
  <2>1. Cardinality(failing) \in Nat
    BY FS_Subset, FS_CardinalityType DEF LearnerInv
  <2>. QED
    BY <1>1, <1>2, <2>1 DEF LearnerInv
<1>4. ASSUME NEW m \in DOMAIN model
      PROVE  /\ RegOK(out[m].r) /\ SkipsNothing(out[m].r) /\ GoesOn(model[m], out[m].r)
             /\ out[m].c \in SUBSET Residents
  <2>1. out[m] = CycleOf(m, m \in failing, m \in due)
    OBVIOUS
  <2> HIDE DEF out
  <2>2. PICK o : o = CycleOf(m, m \in failing, m \in due)
    OBVIOUS
  <2>3. /\ QueueOK /\ RegOK(model[m]) /\ SkipsNothing(model[m])
        /\ m \in DOMAIN cache => cache[m] \in Residents
    BY DEF LearnerInv
  <2>4. RegOK(o.r) /\ SkipsNothing(o.r) /\ GoesOn(model[m], o.r) /\ o.c \in SUBSET Residents
    BY <2>2, <2>3, CycleGoesOn
  <2>. QED
    BY <2>1, <2>2, <2>4
<1> HIDE DEF out
<1>5. \A m \in DOMAIN model' :
        m \in DOMAIN model /\ RegOK(model'[m]) /\ SkipsNothing(model'[m]) /\ GoesOn(model[m], model'[m])
  BY <1>2, <1>4
<1>6. /\ DOMAIN cache' \subseteq Models /\ \A m \in DOMAIN cache' : cache'[m] \in Residents
      /\ DOMAIN model' \subseteq Models /\ IsFiniteSet(DOMAIN model')
  BY <1>2, <1>4 DEF LearnerInv
<1>7. uploads \in Nat /\ uploads' \in 0..MaxUploads /\ uploads <= uploads' /\ UNCHANGED queue
  BY <1>2, LearnerAssumption DEF LearnerInv, queue
<1>. QED
  BY <1>3, <1>5, <1>6, <1>7, ModelStepKeeps

(* LoseCache *)
LEMMA LoseCacheKeeps == ASSUME LearnerInv, LoseCache PROVE LearnerInv' /\ Upkeep
<1>1. /\ faults < MaxFaults /\ cache' = [m \in {} |-> 0] /\ faults' = faults + 1
      /\ UNCHANGED <<stored, ready, known, admissions, placements, model, uploads>>
  BY DEF LoseCache
<1>2. \A m \in DOMAIN model' :
        m \in DOMAIN model /\ RegOK(model'[m]) /\ SkipsNothing(model'[m]) /\ GoesOn(model[m], model'[m])
  BY <1>1, StayingGoesOn DEF LearnerInv
<1>3. /\ DOMAIN cache' = {} /\ faults' \in 0..MaxFaults /\ UNCHANGED queue
      /\ uploads \in Nat /\ uploads' \in 0..MaxUploads /\ uploads <= uploads'
      /\ DOMAIN model' \subseteq Models /\ IsFiniteSet(DOMAIN model')
  BY <1>1, LearnerAssumption DEF LearnerInv, queue
<1>. QED
  BY <1>2, <1>3, ModelStepKeeps

(* RetryElapses *)
LEMMA RetryElapsesKeeps == ASSUME LearnerInv, RetryElapses PROVE LearnerInv' /\ Upkeep
<1>1. PICK m \in DOMAIN model :
        /\ model' = [model EXCEPT ![m].paused = FALSE]
        /\ UNCHANGED <<queue, cache, uploads, faults>>
  BY DEF RetryElapses
<1>2. PICK q : q = [model[m] EXCEPT !.paused = FALSE]
  OBVIOUS
<1>3. DOMAIN model' = DOMAIN model /\ model'[m] = q /\ \A x \in DOMAIN model \ {m} : model'[x] = model[x]
  BY <1>1, <1>2
<1>4. RegOK(q) /\ SkipsNothing(q) /\ GoesOn(model[m], q)
  BY <1>2, PausingGoesOn DEF LearnerInv
<1>5. \A x \in DOMAIN model' :
        x \in DOMAIN model /\ RegOK(model'[x]) /\ SkipsNothing(model'[x]) /\ GoesOn(model[x], model'[x])
  BY <1>3, <1>4, StayingGoesOn DEF LearnerInv
<1>6. /\ faults' \in 0..MaxFaults /\ UNCHANGED queue
      /\ uploads \in Nat /\ uploads' \in 0..MaxUploads /\ uploads <= uploads'
      /\ DOMAIN model' \subseteq Models /\ IsFiniteSet(DOMAIN model')
      /\ DOMAIN cache' \subseteq Models /\ \A x \in DOMAIN cache' : cache'[x] \in Residents
  BY <1>1, <1>3, LearnerAssumption DEF LearnerInv
<1>. QED
  BY <1>5, <1>6, ModelStepKeeps

(* A registration that is added, or takes the place of one. *)
LEMMA AddingKeeps ==
  ASSUME LearnerInv, NEW m \in Models, NEW r \in Registrations, UNCHANGED <<queue, cache, faults>>,
         uploads' \in 0..MaxUploads, uploads <= uploads', r.artifact \in 1..uploads',
         DOMAIN model' = DOMAIN model \cup {m}, model'[m] = r,
         \A x \in DOMAIN model \ {m} : model'[x] = model[x],
         r.start \in 1..(admissions + 1), r.predictionCursor <= admissions, r.labelCursor <= placements,
         Checkpoint(r) <= r.labelCursor, DOMAIN r.rows \subseteq stored,
         One(r.snapshot), One(r.metric), \A e \in stored : e < r.start
  PROVE  LearnerInv' /\ Upkeep
<1>1. QueueOK
  BY DEF LearnerInv
<1>2. RegOK(r)' /\ SkipsNothing(r)'
  BY <1>1, FreshModel
<1>3. RegOK(model[m])' /\ SkipsNothing(model[m])' /\ \A e \in stored : e < model'[m].start
  BY <1>2, NextModel
<1>4. \A x \in DOMAIN model \ {m} : RegOK(model'[x]) /\ SkipsNothing(model'[x]) /\ GoesOn(model[x], model'[x])
  BY StayingGoesOn DEF LearnerInv
<1>5. IsFiniteSet(DOMAIN model') /\ DOMAIN model' \subseteq Models
  BY FS_AddElement DEF LearnerInv
<1>6. /\ faults' \in 0..MaxFaults /\ UNCHANGED queue /\ uploads \in Nat
      /\ DOMAIN cache' \subseteq Models /\ \A x \in DOMAIN cache' : cache'[x] \in Residents
  BY LearnerAssumption DEF LearnerInv
<1>7. \A x \in DOMAIN model' :
        \/ x \in DOMAIN model /\ RegOK(model'[x]) /\ SkipsNothing(model'[x]) /\ GoesOn(model[x], model'[x])
        \/ RegOK(model[x])' /\ SkipsNothing(model[x])' /\ \A e \in stored : e < model'[x].start
  <2> TAKE x \in DOMAIN model'
  <2>1. CASE x = m
    BY <1>3, <2>1
  <2>2. CASE x # m
    BY <1>4, <2>2
  <2>. QED
    BY <2>1, <2>2
<1>. QED
  BY <1>5, <1>6, <1>7, ModelStepKeeps

(* Register *)
LEMMA RegisterKeeps == ASSUME LearnerInv, Register PROVE LearnerInv' /\ Upkeep
<1>1. PICK m \in Models \ DOMAIN model, artifact \in 1..MaxUploads :
        /\ uploads' = Max({uploads, artifact}) /\ Add(m, NewModel(artifact))
        /\ UNCHANGED <<queue, cache, faults>>
  BY DEF Register
<1>2. uploads \in 0..MaxUploads /\ MaxUploads \in Nat
  BY LearnerAssumption DEF LearnerInv
<1>3. uploads' \in 0..MaxUploads /\ uploads <= uploads' /\ artifact \in 1..uploads' /\ artifact \in Nat
  <2>1. /\ {uploads, artifact} \in SUBSET Nat /\ {uploads, artifact} # {}
        /\ \A n \in {uploads, artifact} : n <= MaxUploads
    BY <1>2
  <2>2. PICK top : top = Max({uploads, artifact})
    OBVIOUS
  <2>3. top \in {uploads, artifact} /\ \A n \in {uploads, artifact} : n <= top
    BY <1>2, <2>1, <2>2, MaxIsGreatest
  <2>4. top \in 0..MaxUploads /\ uploads <= top /\ artifact \in 1..top
    BY <1>2, <2>3
  <2>. QED
    BY <1>1, <2>2, <2>4
<1>4. PICK r : r = NewModel(artifact)
  OBVIOUS
<1>5. /\ r \in Registrations /\ r.artifact = artifact
      /\ r.start \in 1..(admissions + 1) /\ r.predictionCursor <= admissions /\ r.labelCursor <= placements
      /\ DOMAIN r.rows = {} /\ r.snapshot = {} /\ r.metric = {}
      /\ \A e \in stored : e < r.start
  BY <1>3, <1>4, NewModelIs DEF LearnerInv
<1>6. One(r.snapshot) /\ One(r.metric) /\ Checkpoint(r) <= r.labelCursor
  <2>1. One(r.snapshot) /\ One(r.metric)
    BY <1>5 DEF One
  <2>2. Checkpoint(r) = 0 /\ r.labelCursor \in Nat
    BY <1>5, <2>1, CheckpointIs DEF Registrations
  <2>. QED
    BY <2>1, <2>2
<1>7. /\ DOMAIN model' = DOMAIN model \cup {m} /\ model'[m] = r
      /\ \A x \in DOMAIN model \ {m} : model'[x] = model[x]
  BY <1>1, <1>4 DEF Add
<1>8. DOMAIN r.rows \subseteq stored /\ UNCHANGED <<queue, cache, faults>> /\ m \in Models
  BY <1>1, <1>5
<1>. QED
  BY <1>3, <1>5, <1>6, <1>7, <1>8, AddingKeeps

(* Bootstrap *)
LEMMA BootstrapKeeps == ASSUME LearnerInv, Bootstrap PROVE LearnerInv' /\ Upkeep
<1>1. PICK m \in Models \ DOMAIN model :
        /\ uploads < MaxUploads /\ uploads' = uploads + 1
        /\ Add(m, SavePickleSnapshot(NewModel(uploads'), [artifact |-> uploads', learned |-> <<>>]))
        /\ UNCHANGED <<queue, cache, faults>>
  BY DEF Bootstrap
<1>2. uploads' \in 0..MaxUploads /\ uploads <= uploads' /\ uploads' \in 1..uploads' /\ uploads' \in Nat
  BY <1>1, LearnerAssumption DEF LearnerInv
<1>3. PICK base : base = NewModel(uploads')
  OBVIOUS
<1>4. /\ base \in Registrations /\ base.artifact = uploads'
      /\ base.start \in 1..(admissions + 1) /\ base.predictionCursor <= admissions
      /\ base.labelCursor <= placements
      /\ DOMAIN base.rows = {} /\ base.metric = {}
      /\ \A e \in stored : e < base.start
  BY <1>2, <1>3, NewModelIs DEF LearnerInv
<1>5. PICK c : c = [artifact |-> uploads', learned |-> <<>>]
  OBVIOUS
<1>6. c.artifact \in Nat /\ c.learned \in Seq(Labels)
  BY <1>2, <1>5
<1>7. PICK r : r = SavePickleSnapshot(base, c)
  OBVIOUS
<1>8. /\ r \in Registrations /\ r.artifact = base.artifact /\ r.start = base.start
      /\ r.predictionCursor = base.predictionCursor /\ r.labelCursor = base.labelCursor /\ r.rows = base.rows
      /\ r.metric = base.metric /\ One(r.snapshot) /\ Checkpoint(r) = base.labelCursor
  BY <1>4, <1>6, <1>7, PickleSaves
<1>9. One(r.metric) /\ Checkpoint(r) <= r.labelCursor /\ DOMAIN r.rows \subseteq stored
  BY <1>4, <1>8 DEF One, Registrations
<1>10. /\ DOMAIN model' = DOMAIN model \cup {m} /\ model'[m] = r
       /\ \A x \in DOMAIN model \ {m} : model'[x] = model[x]
  BY <1>1, <1>3, <1>5, <1>7 DEF Add
<1>11. UNCHANGED <<queue, cache, faults>> /\ m \in Models
  BY <1>1
<1>. QED
  BY <1>2, <1>4, <1>8, <1>9, <1>10, <1>11, AddingKeeps

(* Delete *)
LEMMA DeleteKeeps == ASSUME LearnerInv, Delete PROVE LearnerInv' /\ Upkeep
<1>1. PICK m \in DOMAIN model :
        /\ model' = [x \in DOMAIN model \ {m} |-> model[x]]
        /\ UNCHANGED <<queue, cache, uploads, faults>>
  BY DEF Delete
<1>2. \A x \in DOMAIN model' :
        x \in DOMAIN model /\ RegOK(model'[x]) /\ SkipsNothing(model'[x]) /\ GoesOn(model[x], model'[x])
  BY <1>1, StayingGoesOn DEF LearnerInv
<1>3. IsFiniteSet(DOMAIN model') /\ DOMAIN model' \subseteq Models
  BY <1>1, FS_Subset DEF LearnerInv
<1>4. /\ faults' \in 0..MaxFaults /\ UNCHANGED queue
      /\ uploads \in Nat /\ uploads' \in 0..MaxUploads /\ uploads <= uploads'
      /\ DOMAIN cache' \subseteq Models /\ \A x \in DOMAIN cache' : cache'[x] \in Residents
  BY <1>1, LearnerAssumption DEF LearnerInv
<1>. QED
  BY <1>2, <1>3, <1>4, ModelStepKeeps

(* Promote *)
LEMMA PromoteKeeps == ASSUME LearnerInv, Promote PROVE LearnerInv' /\ Upkeep
<1>1. PICK m \in DOMAIN model, paused \in BOOLEAN :
        /\ uploads < MaxUploads /\ uploads' = uploads + 1
        /\ model' = [model EXCEPT ![m] = [Promoted(model[m], uploads') EXCEPT !.paused = paused]]
        /\ UNCHANGED <<queue, cache, faults>>
  BY DEF Promote
<1>2. uploads' \in 0..MaxUploads /\ uploads <= uploads' /\ uploads' \in 1..uploads' /\ uploads' \in Nat
  BY <1>1, LearnerAssumption DEF LearnerInv
<1>3. PICK t : t = [scored |-> <<>>, predictions |-> 0]
  OBVIOUS
<1>4. PICK replaced : replaced = [model[m] EXCEPT !.artifact = uploads', !.metric = {t}]
  OBVIOUS
<1>5. model[m] \in Registrations /\ DOMAIN model[m].rows \subseteq stored /\ t \in Metrics
  BY <1>3 DEF LearnerInv, RegOK, Metrics
<1>6. /\ replaced \in Registrations /\ replaced.artifact = uploads' /\ replaced.metric = {t}
      /\ replaced.rows = model[m].rows
  BY <1>2, <1>4, <1>5 DEF Registrations
<1>7. PICK next : next = AtFrontier(replaced)
  OBVIOUS
<1>8. /\ next \in Registrations /\ next.artifact = uploads'
      /\ next.rows = model[m].rows /\ next.metric = {t}
      /\ next.start \in 1..(admissions + 1) /\ next.predictionCursor <= admissions
      /\ next.labelCursor <= placements
      /\ \A e \in stored : e < next.start
  BY <1>6, <1>7, FrontierIs DEF LearnerInv
<1>9. PICK c : c = [artifact |-> uploads', learned |-> <<>>]
  OBVIOUS
<1>10. c.artifact \in Nat /\ c.learned \in Seq(Labels)
  BY <1>2, <1>9
<1>11. PICK saved : saved = SavePickleSnapshot(next, c)
  OBVIOUS
<1>12. /\ saved \in Registrations /\ saved.artifact = next.artifact /\ saved.start = next.start
       /\ saved.predictionCursor = next.predictionCursor /\ saved.labelCursor = next.labelCursor
       /\ saved.rows = next.rows /\ saved.metric = next.metric
       /\ One(saved.snapshot) /\ Checkpoint(saved) = next.labelCursor
  BY <1>8, <1>10, <1>11, PickleSaves
<1>13. saved = Promoted(model[m], uploads')
  BY <1>3, <1>4, <1>7, <1>9, <1>11 DEF Promoted
<1>14. PICK r : r = [saved EXCEPT !.paused = paused]
  OBVIOUS
<1>15. /\ r \in Registrations /\ r.artifact = uploads' /\ r.start = next.start
       /\ r.predictionCursor = next.predictionCursor /\ r.labelCursor = next.labelCursor
       /\ r.rows = model[m].rows /\ r.metric = {t} /\ r.snapshot = saved.snapshot
  BY <1>8, <1>12, <1>14 DEF Registrations
<1>16. Checkpoint(r) = r.labelCursor /\ r.labelCursor \in Nat
  BY <1>12, <1>15, SameCheckpoint DEF Registrations
<1>17. One(r.snapshot) /\ One(r.metric) /\ Checkpoint(r) <= r.labelCursor /\ DOMAIN r.rows \subseteq stored
  BY <1>5, <1>12, <1>15, <1>16 DEF One
<1>18. /\ DOMAIN model' = DOMAIN model \cup {m} /\ model'[m] = r
       /\ \A x \in DOMAIN model \ {m} : model'[x] = model[x]
  BY <1>1, <1>13, <1>14
<1>19. UNCHANGED <<queue, cache, faults>> /\ m \in Models
  BY <1>1 DEF LearnerInv
<1>. QED
  BY <1>2, <1>8, <1>15, <1>17, <1>18, <1>19, AddingKeeps

(* purge_archived_events, on the event store and on a model's rows. *)
PurgeFacts(gone) ==
  /\ gone \in SUBSET stored
  /\ \A e \in gone : Completed(e)
  /\ stored' = stored \ gone
  /\ ready' = [e \in DOMAIN ready \ gone |-> ready[e]]
  /\ known' = known \ gone
  /\ UNCHANGED <<admissions, placements, cache, uploads, faults>>
  /\ DOMAIN model' = DOMAIN model
  /\ \A m \in DOMAIN model :
       /\ model'[m].artifact = model[m].artifact /\ model'[m].start = model[m].start
       /\ model'[m].predictionCursor = model[m].predictionCursor
       /\ model'[m].labelCursor = model[m].labelCursor
       /\ model'[m].snapshot = model[m].snapshot /\ model'[m].metric = model[m].metric
       /\ DOMAIN model'[m].rows = DOMAIN model[m].rows \ gone
       /\ \A e \in DOMAIN model'[m].rows : model'[m].rows[e] = model[m].rows[e]
       /\ model'[m] \in Registrations

(* ArchivePurge changes nothing else. *)
LEMMA PurgeSteps == ASSUME LearnerInv, ArchivePurge PROVE \E gone : PurgeFacts(gone)
<1>1. PICK gone \in SUBSET {e \in stored : Completed(e)} :
        /\ stored' = stored \ gone
        /\ ready' = [e \in DOMAIN ready \ gone |-> ready[e]]
        /\ known' = known \ gone
        /\ model' = [m \in DOMAIN model |->
                       [model[m] EXCEPT !.rows = [e \in DOMAIN model[m].rows \ gone |-> model[m].rows[e]]]]
        /\ UNCHANGED <<admissions, placements, cache, uploads, faults>>
  BY DEF ArchivePurge
<1>2. ASSUME NEW m \in DOMAIN model
      PROVE  /\ model'[m].artifact = model[m].artifact /\ model'[m].start = model[m].start
             /\ model'[m].predictionCursor = model[m].predictionCursor
             /\ model'[m].labelCursor = model[m].labelCursor
             /\ model'[m].snapshot = model[m].snapshot /\ model'[m].metric = model[m].metric
             /\ DOMAIN model'[m].rows = DOMAIN model[m].rows \ gone
             /\ \A e \in DOMAIN model'[m].rows : model'[m].rows[e] = model[m].rows[e]
             /\ model'[m] \in Registrations
  <2>1. PICK r : r = model[m]
    OBVIOUS
  <2>2. r \in Registrations /\ r.rows \in RowMaps
    BY <2>1 DEF LearnerInv, RegOK, Registrations
  <2>3. PICK left : left = [e \in DOMAIN r.rows \ gone |-> r.rows[e]]
    OBVIOUS
  <2>4. left \in RowMaps
    <3>1. DOMAIN r.rows \ gone \in SUBSET Events /\ left \in [DOMAIN r.rows \ gone -> Rows]
      BY <2>2, <2>3, RowMapsAre
    <3>. QED
      BY <3>1, RowMapsAre
  <2>5. model'[m] = [r EXCEPT !.rows = left]
    BY <1>1, <2>1, <2>3
  <2>6. PICK q : q = model'[m]
    OBVIOUS
  <2>7. /\ q \in Registrations /\ q.artifact = r.artifact /\ q.start = r.start
        /\ q.predictionCursor = r.predictionCursor /\ q.labelCursor = r.labelCursor
        /\ q.snapshot = r.snapshot /\ q.metric = r.metric /\ q.rows = left
    BY <2>2, <2>4, <2>5, <2>6 DEF Registrations
  <2>8. DOMAIN left = DOMAIN r.rows \ gone /\ \A e \in DOMAIN left : left[e] = r.rows[e]
    BY <2>3
  <2>. QED
    BY <2>1, <2>6, <2>7, <2>8
<1>3. DOMAIN model' = DOMAIN model
  BY <1>1
<1>4. PurgeFacts(gone)
  BY <1>1, <1>2, <1>3 DEF PurgeFacts
<1>. QED
  BY <1>4

(* What the archive takes leaves the rest in order. *)
LEMMA PurgeKeeps == ASSUME LearnerInv, NEW gone, PurgeFacts(gone) PROVE LearnerInv'
<1>1. QueueOK'
  <2>1. DOMAIN ready' = DOMAIN ready \ gone /\ \A e \in DOMAIN ready' : ready'[e] = ready[e]
    BY DEF PurgeFacts
  <2>. QED
    BY <2>1 DEF PurgeFacts, LearnerInv, QueueOK, Distinct
<1>2. ASSUME NEW m \in DOMAIN model' PROVE RegOK(model[m])' /\ SkipsNothing(model[m])'
  <2>1. m \in DOMAIN model /\ RegOK(model[m]) /\ SkipsNothing(model[m])
    BY DEF PurgeFacts, LearnerInv
  <2>2. PICK r : r = model[m]
    OBVIOUS
  <2>3. PICK q : q = model'[m]
    OBVIOUS
  <2>4. /\ q.artifact = r.artifact /\ q.start = r.start
        /\ q.predictionCursor = r.predictionCursor /\ q.labelCursor = r.labelCursor
        /\ q.snapshot = r.snapshot /\ q.metric = r.metric
        /\ DOMAIN q.rows = DOMAIN r.rows \ gone
        /\ \A e \in DOMAIN q.rows : q.rows[e] = r.rows[e]
        /\ q \in Registrations
    BY <2>1, <2>2, <2>3 DEF PurgeFacts
  <2>5. RegOK(r) /\ SkipsNothing(r)
    BY <2>1, <2>2
  <2>6. Checkpoint(q) = Checkpoint(r)
    BY <2>4, SameCheckpoint
  <2>7. /\ stored' = stored \ gone /\ DOMAIN ready' = DOMAIN ready \ gone
        /\ \A e \in DOMAIN ready' : ready'[e] = ready[e]
        /\ UNCHANGED <<admissions, placements, uploads>>
    BY DEF PurgeFacts
  <2>8. RegOK(q)'
    BY <2>4, <2>5, <2>6, <2>7 DEF RegOK
  <2>9. SkipsNothing(q)'
    BY <2>4, <2>5, <2>7 DEF SkipsNothing
  <2>. QED
    BY <2>3, <2>8, <2>9, NextModel
<1>. QED
  BY <1>1, <1>2 DEF LearnerInv, PurgeFacts

(* Every step but the archive's is upkeep. *)
LEMMA StepKeeps == ASSUME LearnerInv, Next PROVE LearnerInv' /\ (ArchivePurge \/ Upkeep)
<1>1. CASE StoreCommits
  BY <1>1, StoreCommitsKeeps
<1>3. CASE LearnOnce
  BY <1>3, LearnOnceKeeps
<1>4. CASE LoseCache
  BY <1>4, LoseCacheKeeps
<1>5. CASE RetryElapses
  BY <1>5, RetryElapsesKeeps
<1>6. CASE Register
  BY <1>6, RegisterKeeps
<1>7. CASE Bootstrap
  BY <1>7, BootstrapKeeps
<1>8. CASE Delete
  BY <1>8, DeleteKeeps
<1>9. CASE Promote
  BY <1>9, PromoteKeeps
<1>10. CASE ArchivePurge
  BY <1>10, PurgeSteps, PurgeKeeps
<1>. QED
  BY <1>1, <1>3, <1>4, <1>5, <1>6, <1>7, <1>8, <1>9, <1>10 DEF Next

(* The invariant is one. *)
LEMMA Invariance == Spec => []LearnerInv
<1>1. Init => LearnerInv
  <2> SUFFICES ASSUME Init PROVE LearnerInv
    OBVIOUS
  <2>1. /\ stored = {} /\ DOMAIN ready = {} /\ known = {} /\ admissions = 0 /\ placements = 0
        /\ DOMAIN model = {} /\ DOMAIN cache = {} /\ uploads = 0 /\ faults = 0
    BY DEF Init
  <2>2. IsFiniteSet(DOMAIN model)
    BY <2>1, FS_EmptySet
  <2>. QED
    BY <2>1, <2>2, LearnerAssumption DEF LearnerInv, QueueOK, Distinct
<1>2. LearnerInv /\ [Next]_vars => LearnerInv'
  <2> SUFFICES ASSUME LearnerInv, [Next]_vars PROVE LearnerInv'
    OBVIOUS
  <2>1. CASE Next
    BY <2>1, StepKeeps
  <2>2. CASE UNCHANGED vars
    BY <2>2 DEF vars, LearnerInv, QueueOK, Distinct, RegOK, SkipsNothing
  <2>. QED
    BY <2>1, <2>2
<1>. QED
  BY <1>1, <1>2, PTL DEF Spec
-----------------------------------------------------------------------------
(* The theorems                                                             *)

(* TypeOK: a model's rows are typed, and no cursor leads what it runs over,   *)
(* for any models, events, batch size and faults.                             *)
THEOREM LearnerTypes == Spec => []TypeOK
<1>1. LearnerInv => TypeOK
  <2> SUFFICES ASSUME LearnerInv PROVE TypeOK
    OBVIOUS
  <2>1. ASSUME NEW m \in DOMAIN model
        PROVE  LET r == model[m] IN
               /\ r.artifact \in 1..uploads /\ r.paused \in BOOLEAN
               /\ r.start \in 1..(admissions + 1) /\ r.predictionCursor \in 0..admissions
               /\ r.labelCursor \in 0..placements /\ Checkpoint(r) <= r.labelCursor
               /\ DOMAIN r.rows \subseteq stored /\ r.rows \in [DOMAIN r.rows -> Rows]
               /\ r.snapshot \subseteq Snapshots /\ Cardinality(r.snapshot) <= 1
               /\ r.metric \subseteq Metrics /\ Cardinality(r.metric) <= 1
    <3>1. PICK r : r = model[m]
      OBVIOUS
    <3>2. RegOK(r) /\ r \in Registrations
      BY <3>1 DEF LearnerInv, RegOK
    <3>3. r.rows \in [DOMAIN r.rows -> Rows]
      BY <3>2 DEF Registrations, RowMaps
    <3>4. \A S : One(S) => Cardinality(S) <= 1
      <4> SUFFICES ASSUME NEW S, One(S) PROVE Cardinality(S) <= 1
        OBVIOUS
      <4>1. CASE S = {}
        BY <4>1, FS_EmptySet
      <4>2. CASE \E x \in S : S = {x}
        <5>1. PICK x : S = {x}
          BY <4>2
        <5>. QED
          BY <5>1, FS_Singleton
      <4>. QED
        BY <4>1, <4>2 DEF One
    <3>5. r.predictionCursor \in 0..admissions /\ r.labelCursor \in 0..placements
      BY <3>2 DEF RegOK, Registrations, LearnerInv, QueueOK
    <3>6. /\ r.artifact \in 1..uploads /\ r.paused \in BOOLEAN /\ r.start \in 1..(admissions + 1)
          /\ Checkpoint(r) <= r.labelCursor /\ DOMAIN r.rows \subseteq stored
          /\ r.snapshot \subseteq Snapshots /\ r.metric \subseteq Metrics /\ One(r.snapshot) /\ One(r.metric)
      BY <3>2 DEF RegOK, Registrations
    <3>. QED
      BY <3>1, <3>3, <3>4, <3>5, <3>6
  <2>. QED
    BY <2>1 DEF TypeOK, LearnerInv, QueueOK
<1>. QED
  BY <1>1, Invariance, PTL

(* CursorsSkipNothing: learner batches, failures, promotions and the archive  *)
(* leave no event or label of a generation behind a cursor unprocessed.       *)
THEOREM NothingIsSkipped == Spec => []CursorsSkipNothing
<1>1. LearnerInv => CursorsSkipNothing
  BY DEF LearnerInv, CursorsSkipNothing, SkipsNothing, IsSettled
<1>. QED
  BY <1>1, Invariance, PTL

(* A released event stays released through upkeep. *)
LEMMA UpkeepHoldsReleases ==
  ASSUME LearnerInv, LearnerInv', Upkeep, NEW e \in stored \cap stored', Completed(e)
  PROVE  Completed(e)'
<1>1. e \in DOMAIN ready /\ e \in DOMAIN ready' /\ ready'[e] = ready[e] /\ ready[e] \in Nat /\ e \in Nat
  <2>1. e \in DOMAIN ready
    BY DEF Completed
  <2>2. e \in DOMAIN ready' /\ ready'[e] = ready[e]
    BY <2>1 DEF Upkeep
  <2>3. QueueOK
    BY DEF LearnerInv
  <2>4. ready[e] \in Nat
    BY <2>1, <2>3 DEF QueueOK
  <2>5. e \in Nat
    BY <2>3, StoreIsFinite
  <2>. QED
    BY <2>1, <2>2, <2>4, <2>5
<1>2. ASSUME NEW m \in DOMAIN model', e >= model'[m].start
      PROVE  ~ProcessingPending(m, e)'
  <2>1. PICK q : q = model'[m]
    OBVIOUS
  <2>2. q \in Registrations /\ One(q.snapshot)
    BY <2>1 DEF LearnerInv, RegOK
  <2>3. q.start \in Nat /\ Checkpoint(q) \in Nat
    BY <2>2, CheckpointIs DEF Registrations
  <2>4. m \in DOMAIN model /\ GoesOn(model[m], q)
    BY <1>1, <1>2, <2>1, <2>3 DEF Upkeep
  <2>5. PICK r : r = model[m]
    OBVIOUS
  <2>6. Checkpoint(r) \in Nat
    BY <2>4, <2>5, CheckpointIs DEF LearnerInv, RegOK
  <2>7. ~ProcessingPending(m, e)
    BY <1>2, <2>1, <2>4 DEF Completed, GoesOn
  <2>8. /\ e \in DOMAIN r.rows /\ r.rows[e].trained # "no"
        /\ r.rows[e].status = "skipped" \/ r.rows[e].evaluated
        /\ r.snapshot # {} /\ ~(Checkpoint(r) < ready[e])
    BY <2>5, <2>7 DEF ProcessingPending
  <2>9. /\ e \in DOMAIN q.rows /\ q.rows[e].trained # "no"
        /\ q.rows[e].status = "skipped" \/ q.rows[e].evaluated
        /\ q.snapshot # {}
    BY <2>4, <2>5, <2>8 DEF GoesOn, RowsGain
  <2>10. ~(Checkpoint(q) < ready'[e])
    BY <1>1, <2>3, <2>4, <2>5, <2>6, <2>8 DEF GoesOn
  <2>. QED
    BY <2>1, <2>9, <2>10 DEF ProcessingPending
<1>. QED
  BY <1>1, <1>2 DEF Completed

(* ... and when others are archived. *)
LEMMA PurgeHoldsReleases ==
  ASSUME LearnerInv, NEW gone, PurgeFacts(gone), NEW e \in stored \cap stored', Completed(e)
  PROVE  Completed(e)'
<1>1. e \in DOMAIN ready /\ e \in DOMAIN ready' /\ ready'[e] = ready[e] /\ e \notin gone
  BY DEF Completed, PurgeFacts
<1>2. ASSUME NEW m \in DOMAIN model', e >= model'[m].start
      PROVE  ~ProcessingPending(m, e)'
  <2>1. m \in DOMAIN model /\ model'[m].start = model[m].start /\ model'[m].snapshot = model[m].snapshot
        /\ DOMAIN model'[m].rows = DOMAIN model[m].rows \ gone
        /\ \A x \in DOMAIN model'[m].rows : model'[m].rows[x] = model[m].rows[x]
    BY DEF PurgeFacts
  <2>2. ~ProcessingPending(m, e)
    BY <1>2, <2>1 DEF Completed
  <2>3. Checkpoint(model'[m]) = Checkpoint(model[m])
    BY <2>1, SameCheckpoint
  <2>. QED
    BY <1>1, <2>1, <2>2, <2>3 DEF ProcessingPending
<1>. QED
  BY <1>1, <1>2 DEF Completed

(* CompletedStays: what the archive read before its writes is still true when *)
(* it makes them, whatever commits in between.                                *)
THEOREM ReleasesHold == Spec => CompletedStays
<1> DEFINE Holds == \A e \in stored \cap stored' : Completed(e) => Completed(e)'
<1>1. LearnerInv /\ LearnerInv' /\ [Next]_vars => [Holds]_vars
  <2> SUFFICES ASSUME LearnerInv, LearnerInv', Next PROVE Holds
    OBVIOUS
  <2>1. CASE Upkeep
    BY <2>1, UpkeepHoldsReleases
  <2>2. CASE ArchivePurge
    <3>1. PICK gone : PurgeFacts(gone)
      BY <2>2, PurgeSteps
    <3>. QED
      BY <3>1, PurgeHoldsReleases
  <2>. QED
    BY <2>1, <2>2, StepKeeps
<1>. QED
  BY <1>1, Invariance, PTL DEF Spec, CompletedStays

(* What ResolutionQueue keeps of its numbers. *)
StoreNumbers ==
  /\ \A id \in DOMAIN admitted : admitted[id] \in 1..drawn
  /\ \A id, other \in DOMAIN admitted : admitted[id] = admitted[other] => id = other
  /\ DOMAIN settled = DOMAIN placed /\ DOMAIN placed \subseteq DOMAIN admitted

Drawn == drawn \in Nat /\ given \in Nat

LEMMA StoreNumbersStay ==
  ASSUME StoreNumbers, Drawn, Drawn', [Store!Next]_(Store!vars)
  PROVE  StoreNumbers'
<1>1. CASE Store!Commit
  <2>1. /\ DOMAIN admitted \subseteq DOMAIN admitted' /\ drawn <= drawn'
        /\ \A id \in DOMAIN admitted : admitted'[id] = admitted[id]
        /\ \A id \in DOMAIN admitted' \ DOMAIN admitted : admitted'[id] \in (drawn + 1)..drawn'
        /\ \A id, other \in DOMAIN admitted' \ DOMAIN admitted :
             admitted'[id] = admitted'[other] => id = other
    BY <1>1 DEF Store!Commit, Store!Appends, Drawn
  <2>2. DOMAIN settled' = DOMAIN placed' /\ DOMAIN placed' \subseteq DOMAIN admitted'
    BY <1>1 DEF Store!Commit
  <2>3. \A id \in DOMAIN admitted' : admitted'[id] \in 1..drawn'
    BY <2>1 DEF StoreNumbers, Drawn
  <2>4. \A id \in DOMAIN admitted, other \in DOMAIN admitted' \ DOMAIN admitted : admitted'[id] # admitted'[other]
    BY <2>1 DEF StoreNumbers, Drawn
  <2>5. \A id, other \in DOMAIN admitted' : admitted'[id] = admitted'[other] => id = other
    BY <2>1, <2>4 DEF StoreNumbers
  <2>. QED
    BY <2>2, <2>3, <2>5 DEF StoreNumbers
<1>2. CASE Store!Archive
  BY <1>2 DEF Store!Archive, StoreNumbers
<1>3. CASE UNCHANGED Store!vars
  BY <1>3 DEF Store!vars, StoreNumbers
<1>. QED
  BY <1>1, <1>2, <1>3 DEF Store!Next

(* The numbers a transaction is seen to give out are above the old ones. *)
LEMMA TransactionIsTaken ==
  ASSUME StoreNumbers, StoreNumbers', Sees, Sees', Store!Commit, LearnerFollows
  PROVE  StoreCommits
<1> DEFINE new == stored' \ stored
           settling == DOMAIN ready' \ DOMAIN ready
           place == [e \in settling |-> ready'[e]]
           found == known' \ known
<1>1. /\ MaxNumber \in Nat /\ drawn \in 0..MaxNumber /\ drawn' \in 0..MaxNumber /\ admissions \in 0..drawn
      /\ given \in 0..MaxNumber /\ given' \in 0..MaxNumber /\ placements \in 0..given
  BY LearnerAssumption DEF Sees
<1>2. /\ DOMAIN admitted \subseteq DOMAIN admitted' /\ DOMAIN placed \subseteq DOMAIN placed'
      /\ \A id \in DOMAIN admitted : admitted'[id] = admitted[id]
      /\ \A id \in DOMAIN admitted' \ DOMAIN admitted : admitted'[id] \in (drawn + 1)..drawn'
      /\ \A id \in DOMAIN placed : placed'[id] = placed[id]
      /\ \A id \in DOMAIN placed' \ DOMAIN placed : placed'[id] \in (given + 1)..given'
      /\ \A id, other \in DOMAIN placed' \ DOMAIN placed : placed'[id] = placed'[other] => id = other
      /\ \A id \in DOMAIN settled : settled'[id] = settled[id]
  BY Zenon DEF Store!Commit, Store!Appends
<1>3. /\ DOMAIN settled = DOMAIN placed /\ DOMAIN placed \subseteq DOMAIN admitted
      /\ DOMAIN settled' = DOMAIN placed' /\ DOMAIN placed' \subseteq DOMAIN admitted'
      /\ \A id, other \in DOMAIN admitted' : admitted'[id] = admitted'[other] => id = other
  BY DEF StoreNumbers
<1>4. /\ \A e : e \in stored <=> \E id \in DOMAIN admitted : e = admitted[id]
      /\ \A e : e \in stored' <=> \E id \in DOMAIN admitted' : e = admitted'[id]
      /\ \A e : e \in DOMAIN ready <=> \E id \in DOMAIN placed : e = admitted[id]
      /\ \A e : e \in DOMAIN ready' <=> \E id \in DOMAIN placed' : e = admitted'[id]
      /\ \A id \in DOMAIN placed : ready[admitted[id]] = placed[id]
      /\ \A id \in DOMAIN placed' : ready'[admitted'[id]] = placed'[id]
      /\ \A e : e \in known <=> \E id \in DOMAIN settled : settled[id] \in Targets /\ e = admitted[id]
      /\ \A e : e \in known' <=> \E id \in DOMAIN settled' : settled'[id] \in Targets /\ e = admitted'[id]
      /\ ready' = [e \in DOMAIN ready' |-> ready'[e]]
  BY DEF Sees, Numbered
<1>5. stored' = stored \cup new /\ new \in SUBSET ((admissions + 1)..MaxNumber)
  <2>1. stored \subseteq stored'
    BY <1>2, <1>4
  <2>2. ASSUME NEW e \in new PROVE e \in (admissions + 1)..MaxNumber
    <3>1. PICK id \in DOMAIN admitted' : e = admitted'[id]
      BY <1>4
    <3>2. id \notin DOMAIN admitted
      BY <1>2, <1>4, <3>1
    <3>3. e \in (drawn + 1)..drawn'
      BY <1>2, <3>1, <3>2
    <3>. QED
      BY <1>1, <3>3
  <2>. QED
    BY <2>1, <2>2
<1>6. DOMAIN ready \subseteq DOMAIN ready' /\ \A e \in DOMAIN ready : ready'[e] = ready[e]
  <2>1. ASSUME NEW e \in DOMAIN ready PROVE e \in DOMAIN ready' /\ ready'[e] = ready[e]
    <3>1. PICK id \in DOMAIN placed : e = admitted[id]
      BY <1>4
    <3>2. id \in DOMAIN placed' /\ admitted'[id] = e /\ placed'[id] = placed[id]
      BY <1>2, <1>3, <3>1
    <3>. QED
      BY <1>4, <3>1, <3>2
  <2>. QED
    BY <2>1
<1>7. ASSUME NEW e \in settling
      PROVE  \E id \in DOMAIN placed' \ DOMAIN placed : e = admitted'[id] /\ place[e] = placed'[id]
  <2>1. PICK id \in DOMAIN placed' : e = admitted'[id]
    BY <1>4
  <2>2. id \notin DOMAIN placed
    BY <1>2, <1>3, <1>4, <2>1
  <2>3. ready'[e] = placed'[id]
    BY <1>4, <2>1
  <2>. QED
    BY <2>1, <2>2, <2>3
<1>8. settling \in SUBSET ((stored \cup new) \ DOMAIN ready)
  <2>1. DOMAIN ready' \subseteq stored'
    BY <1>3, <1>4
  <2>. QED
    BY <1>5, <2>1
<1>9. place \in Injection(settling, (placements + 1)..MaxNumber)
  <2>1. ASSUME NEW e \in settling PROVE place[e] \in (placements + 1)..MaxNumber
    <3>1. PICK id \in DOMAIN placed' \ DOMAIN placed : place[e] = placed'[id]
      BY <1>7
    <3>2. place[e] \in (given + 1)..given'
      BY <1>2, <3>1
    <3>. QED
      BY <1>1, <3>2
  <2>2. ASSUME NEW e \in settling, NEW other \in settling, place[e] = place[other] PROVE e = other
    <3>1. PICK id \in DOMAIN placed' \ DOMAIN placed : e = admitted'[id] /\ place[e] = placed'[id]
      BY <1>7
    <3>2. PICK jd \in DOMAIN placed' \ DOMAIN placed : other = admitted'[jd] /\ place[other] = placed'[jd]
      BY <1>7
    <3>3. id = jd
      BY <1>2, <2>2, <3>1, <3>2
    <3>. QED
      BY <3>1, <3>2, <3>3
  <2>3. place \in [settling -> (placements + 1)..MaxNumber]
    BY <2>1
  <2>. QED
    BY <2>2, <2>3 DEF Injection, IsInjective
<1>10. known' = known \cup found /\ found \in SUBSET settling
  <2>1. ASSUME NEW e \in known PROVE e \in known'
    <3>1. PICK id \in DOMAIN settled : settled[id] \in Targets /\ e = admitted[id]
      BY <1>4
    <3>2. id \in DOMAIN settled' /\ settled'[id] = settled[id] /\ admitted'[id] = e
      BY <1>2, <1>3, <3>1
    <3>. QED
      BY <1>4, <3>1, <3>2
  <2>2. ASSUME NEW e \in found PROVE e \in settling
    <3>1. PICK id \in DOMAIN settled' : settled'[id] \in Targets /\ e = admitted'[id]
      BY <1>4
    <3>2. e \in DOMAIN ready'
      BY <1>3, <1>4, <3>1
    <3>3. ASSUME e \in DOMAIN ready PROVE FALSE
      <4>1. PICK jd \in DOMAIN placed : e = admitted[jd]
        BY <1>4, <3>3
      <4>2. jd \in DOMAIN admitted' /\ admitted'[jd] = e
        BY <1>2, <1>3, <4>1
      <4>3. jd = id
        BY <1>3, <3>1, <4>2
      <4>4. id \in DOMAIN settled /\ settled[id] \in Targets /\ e = admitted[id]
        BY <1>2, <1>3, <3>1, <4>1, <4>3
      <4>. QED
        BY <1>4, <4>4
    <3>. QED
      BY <3>2, <3>3
  <2>. QED
    BY <2>1, <2>2
<1>11. ready' = [e \in DOMAIN ready \cup settling |-> IF e \in settling THEN place[e] ELSE ready[e]]
  <2>1. DOMAIN ready' = DOMAIN ready \cup settling
    BY <1>6
  <2>2. \A e \in DOMAIN ready' : ready'[e] = IF e \in settling THEN place[e] ELSE ready[e]
    BY <1>6
  <2>. QED
    BY <1>4, <2>1, <2>2
<1>12. /\ admissions' = Max(new \cup {admissions})
       /\ placements' = Max(Range(place) \cup {placements})
       /\ UNCHANGED <<model, cache, uploads, faults>>
  <2>1. Range(place) = {ready'[e] : e \in settling}
    BY DEF Range
  <2>. QED
    BY <2>1, Zenon DEF LearnerFollows
<1> HIDE DEF new, settling, place, found
<1>13. Transaction(new, settling, place, found)
  BY <1>5, <1>10, <1>11, <1>12, Zenon DEF Transaction
<1>. QED
  BY <1>5, <1>8, <1>9, <1>10, <1>13, Zenon DEF StoreCommits

(* Whatever transaction the store of ResolutionQueue commits under a learner  *)
(* that sees it, the learner is checked with: it is a step of StoreCommits.   *)
(* With the refinement that EventStore_proofs shows, no commit of the event   *)
(* store (its admissions, resolutions and redeliveries in any combination,    *)
(* with whatever numbers the shared sequences leave out) is left out of what  *)
(* is said of Learner.                                                        *)
THEOREM StoreTransactionsAreTaken ==
  Store!Spec /\ []Sees /\ [][Store!Commit => LearnerFollows]_(Store!vars)
    => [][Store!Commit => StoreCommits]_(Store!vars)
<1>1. Store!Init => StoreNumbers
  BY DEF Store!Init, StoreNumbers
<1>2. Sees => Drawn
  BY LearnerAssumption DEF Sees, Drawn
<1>3. StoreNumbers /\ Drawn /\ Drawn' /\ [Store!Next]_(Store!vars) => StoreNumbers'
  BY StoreNumbersStay
<1>4. /\ StoreNumbers /\ StoreNumbers' /\ Sees /\ Sees'
      /\ [Store!Commit => LearnerFollows]_(Store!vars)
      => [Store!Commit => StoreCommits]_(Store!vars)
  BY TransactionIsTaken
<1>. QED
  BY <1>1, <1>2, <1>3, <1>4, PTL DEF Store!Spec
=============================================================================
