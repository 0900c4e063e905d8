--------------------------- MODULE Learner_promises ---------------------------
(***************************************************************************)
(* What a model remembers: a restart rebuilds the model that was in memory, *)
(* what it learned and what it was scored on are in the order of the queue,  *)
(* its rows tell both, and neither is lost.  All of it holds as long as no   *)
(* id that was deleted is registered with the bytes its resident model is    *)
(* still of (NoReunion): nothing else can go wrong, and when artifacts are   *)
(* not shared this cannot either.                                           *)
(***************************************************************************)
EXTENDS Learner_proofs, SequenceTheorems

(***************************************************************************)
(* Labels sorted by their places.                                           *)
(***************************************************************************)
Sortable(events, pos) ==
  events \in SUBSET Events /\ IsFiniteSet(events) /\ Numbers(events, pos) /\ Distinct(events, pos)

(* A query of no events. *)
LEMMA ListedNone == ASSUME NEW pos PROVE Listed({}, pos) = <<>>
<1>1. Cardinality({}) = 0
  BY FS_EmptySet
<1>2. DOMAIN Listed({}, pos) = 1..0
  BY <1>1 DEF Listed
<1>3. Listed({}, pos) \in Seq(Labels)
  BY FS_EmptySet, ListedType DEF Numbers, Distinct
<1>. QED
  BY <1>2, <1>3

(* The labels are in order, and they are those of the events. *)
LEMMA ListedIs ==
  ASSUME NEW events, NEW pos, Sortable(events, pos), NEW labels, labels = Listed(events, pos)
  PROVE  /\ labels \in Seq(Labels) /\ InOrder(labels) /\ EventsOf(labels) = events
         /\ \A i \in 1..Len(labels) : labels[i].event \in events /\ labels[i].place = pos[labels[i].event]
<1> DEFINE N == Cardinality(events)
<1>1. labels \in Seq(Labels) /\ Len(labels) = N
  BY ListedType DEF Sortable
<1>2. N \in Nat
  BY FS_CardinalityType DEF Sortable
<1>3. \A n \in 1..N : \E e \in events : Rank(e, events, pos) = n /\ labels[n] = [event |-> e, place |-> pos[e]]
  BY ListedRanks DEF Sortable
<1>4. \A e \in events : Rank(e, events, pos) \in 1..N /\ labels[Rank(e, events, pos)] = [event |-> e, place |-> pos[e]]
  BY ListedRanks, RankType DEF Sortable
<1> HIDE DEF N
<1>5. ASSUME NEW i \in 1..Len(labels), NEW j \in 1..Len(labels), i < j PROVE labels[i].place < labels[j].place
  <2>1. PICK d \in events : Rank(d, events, pos) = i /\ labels[i] = [event |-> d, place |-> pos[d]]
    BY <1>1, <1>3
  <2>2. PICK e \in events : Rank(e, events, pos) = j /\ labels[j] = [event |-> e, place |-> pos[e]]
    BY <1>1, <1>3
  <2>3. pos[d] \in Nat /\ pos[e] \in Nat
    BY DEF Sortable, Numbers
  <2>4. ~(pos[e] <= pos[d])
    <3> SUFFICES ASSUME pos[e] <= pos[d] PROVE FALSE
      OBVIOUS
    <3>1. j <= i
      BY <2>1, <2>2, RankOrder DEF Sortable
    <3>. QED
      BY <1>1, <1>2, <1>5, <3>1
  <2>. QED
    BY <2>1, <2>2, <2>3, <2>4
<1>6. InOrder(labels)
  BY <1>5 DEF InOrder
<1>7. \A i \in 1..Len(labels) : labels[i].event \in events /\ labels[i].place = pos[labels[i].event]
  BY <1>1, <1>3
<1>8. EventsOf(labels) = events
  <2>1. EventsOf(labels) \subseteq events
    BY <1>7 DEF EventsOf
  <2>2. ASSUME NEW e \in events PROVE e \in EventsOf(labels)
    <3>1. PICK n : n = Rank(e, events, pos)
      OBVIOUS
    <3>2. n \in 1..N /\ labels[n] = [event |-> e, place |-> pos[e]]
      BY <1>4, <3>1
    <3>. QED
      BY <1>1, <3>2 DEF EventsOf
  <2>. QED
    BY <2>1, <2>2
<1>. QED
  BY <1>1, <1>6, <1>7, <1>8

(* Only the places of the events matter. *)
LEMMA ListedAgrees ==
  ASSUME NEW events, NEW pos, NEW places, Sortable(events, pos), \A e \in events : places[e] = pos[e]
  PROVE  Sortable(events, places) /\ Listed(events, places) = Listed(events, pos)
<1>1. Sortable(events, places)
  BY DEF Sortable, Numbers, Distinct
<1>2. \A e \in events : Rank(e, events, places) = Rank(e, events, pos)
  <2> SUFFICES ASSUME NEW e \in events PROVE Rank(e, events, places) = Rank(e, events, pos)
    OBVIOUS
  <2>1. {other \in events : places[other] <= places[e]} = {other \in events : pos[other] <= pos[e]}
    OBVIOUS
  <2>. QED
    BY <2>1 DEF Rank
<1>3. PICK a : a = Listed(events, pos)
  OBVIOUS
<1>4. PICK b : b = Listed(events, places)
  OBVIOUS
<1>5. a \in Seq(Labels) /\ b \in Seq(Labels) /\ Len(a) = Cardinality(events) /\ Len(b) = Cardinality(events)
  BY <1>1, <1>3, <1>4, ListedType DEF Sortable
<1>6. \A n \in 1..Cardinality(events) :
        \E e \in events : Rank(e, events, pos) = n /\ a[n] = [event |-> e, place |-> pos[e]]
  BY <1>3, ListedRanks DEF Sortable
<1>7. \A e \in events : b[Rank(e, events, places)] = [event |-> e, place |-> places[e]]
  BY <1>1, <1>4, ListedRanks DEF Sortable
<1>8. ASSUME NEW n \in 1..Len(a) PROVE a[n] = b[n]
  <2>1. PICK e \in events : Rank(e, events, pos) = n /\ a[n] = [event |-> e, place |-> pos[e]]
    BY <1>5, <1>6
  <2>2. b[Rank(e, events, places)] = [event |-> e, place |-> places[e]]
    BY <1>7
  <2>. QED
    BY <1>2, <2>1, <2>2
<1>. QED
  BY <1>1, <1>3, <1>4, <1>5, <1>8, SeqEqual

(* Events all of which come before others are listed before them. *)
Then(labels, more) == labels \o more

Precede(first, second, pos) == \A d \in first : \A e \in second : pos[d] < pos[e]

LEMMA ListedJoins ==
  ASSUME NEW first, NEW second, NEW pos, NEW all, all = first \cup second, Sortable(all, pos),
         Precede(first, second, pos)
  PROVE  Listed(all, pos) = Then(Listed(first, pos), Listed(second, pos))
<1> DEFINE M == Cardinality(first)
           N == Cardinality(second)
<1>1. Sortable(first, pos) /\ Sortable(second, pos)
  <2>1. IsFiniteSet(first) /\ IsFiniteSet(second)
    BY FS_Subset DEF Sortable
  <2>. QED
    BY <2>1 DEF Sortable, Numbers, Distinct
<1>2. M \in Nat /\ N \in Nat /\ IsFiniteSet(first) /\ IsFiniteSet(second)
  BY <1>1, FS_CardinalityType DEF Sortable
<1>3. \A d \in first : pos[d] \in Nat
  BY <1>1 DEF Sortable, Numbers
<1>4. \A e \in second : pos[e] \in Nat
  BY <1>1 DEF Sortable, Numbers
<1>5. first \cap second = {} /\ \A d \in first : \A e \in second : pos[d] < pos[e]
  BY <1>3 DEF Precede
<1>6. Cardinality(all) = M + N
  <2>1. Cardinality(first \cup second) = M + N - Cardinality(first \cap second)
    BY <1>2, FS_Union
  <2>2. Cardinality(first \cap second) = 0
    BY <1>5, FS_EmptySet
  <2> HIDE DEF M, N
  <2>. QED
    BY <1>2, <2>1, <2>2
<1>7. ASSUME NEW d \in first PROVE Rank(d, all, pos) = Rank(d, first, pos)
  <2>1. {x \in all : pos[x] <= pos[d]} = {x \in first : pos[x] <= pos[d]}
    BY <1>3, <1>4, <1>5
  <2>. QED
    BY <2>1 DEF Rank
<1>8. ASSUME NEW e \in second PROVE Rank(e, all, pos) = M + Rank(e, second, pos)
  <2> DEFINE U == {x \in second : pos[x] <= pos[e]}
  <2>1. {x \in all : pos[x] <= pos[e]} = first \cup U
    BY <1>3, <1>4, <1>5
  <2>2. IsFiniteSet(U)
    <3>1. U \subseteq second
      OBVIOUS
    <3> HIDE DEF U
    <3>. QED
      BY <1>2, <3>1, FS_Subset
  <2>3. first \cap U = {}
    BY <1>5
  <2>4. Rank(e, all, pos) = Cardinality(first \cup U) /\ Rank(e, second, pos) = Cardinality(U)
    BY <2>1 DEF Rank
  <2> HIDE DEF U
  <2>5. Cardinality(first \cup U) = M + Cardinality(U) - 0
    BY <1>2, <2>2, <2>3, FS_Union, FS_EmptySet
  <2>6. Cardinality(U) \in Nat
    BY <2>2, FS_CardinalityType
  <2> HIDE DEF M
  <2>. QED
    BY <1>2, <2>4, <2>5, <2>6
<1>9. PICK a : a = Listed(first, pos)
  OBVIOUS
<1>10. PICK b : b = Listed(second, pos)
  OBVIOUS
<1>11. PICK c : c = Listed(all, pos)
  OBVIOUS
<1>12. /\ a \in Seq(Labels) /\ Len(a) = M /\ b \in Seq(Labels) /\ Len(b) = N
       /\ c \in Seq(Labels) /\ Len(c) = M + N
  BY <1>1, <1>6, <1>9, <1>10, <1>11, ListedType DEF Sortable
<1>13. a \o b \in Seq(Labels) /\ Len(a \o b) = M + N
       /\ \A i \in 1..(M + N) : (a \o b)[i] = IF i <= M THEN a[i] ELSE b[i - M]
  <2>1. /\ a \o b \in Seq(Labels) /\ Len(a \o b) = Len(a) + Len(b)
        /\ \A i \in 1..(Len(a) + Len(b)) : (a \o b)[i] = IF i <= Len(a) THEN a[i] ELSE b[i - Len(a)]
    BY <1>12, ConcatProperties
  <2> HIDE DEF M, N
  <2>. QED
    BY <1>12, <2>1, Zenon
<1>14. \A d \in first : c[Rank(d, first, pos)] = [event |-> d, place |-> pos[d]]
  <2> SUFFICES ASSUME NEW d \in first PROVE c[Rank(d, first, pos)] = [event |-> d, place |-> pos[d]]
    OBVIOUS
  <2>1. c[Rank(d, all, pos)] = [event |-> d, place |-> pos[d]]
    BY <1>11, ListedRanks DEF Sortable
  <2>. QED
    BY <1>7, <2>1
<1>15. \A e \in second : c[M + Rank(e, second, pos)] = [event |-> e, place |-> pos[e]]
  <2> SUFFICES ASSUME NEW e \in second PROVE c[M + Rank(e, second, pos)] = [event |-> e, place |-> pos[e]]
    OBVIOUS
  <2>1. c[Rank(e, all, pos)] = [event |-> e, place |-> pos[e]]
    BY <1>11, ListedRanks DEF Sortable
  <2>. QED
    BY <1>8, <2>1
<1>16. \A n \in 1..M : \E d \in first : Rank(d, first, pos) = n /\ a[n] = [event |-> d, place |-> pos[d]]
  BY <1>1, <1>9, ListedRanks DEF Sortable
<1>17. \A n \in 1..N : \E e \in second : Rank(e, second, pos) = n /\ b[n] = [event |-> e, place |-> pos[e]]
  BY <1>1, <1>10, ListedRanks DEF Sortable
<1> HIDE DEF M, N
<1>18. ASSUME NEW i \in 1..Len(c) PROVE c[i] = (a \o b)[i]
  <2>1. CASE i <= M
    <3>1. i \in 1..M
      BY <1>2, <1>12, <2>1
    <3>2. PICK d \in first : Rank(d, first, pos) = i /\ a[i] = [event |-> d, place |-> pos[d]]
      BY <1>16, <3>1
    <3>3. c[i] = a[i]
      BY <1>14, <3>2
    <3>. QED
      BY <1>12, <1>13, <2>1, <3>3
  <2>2. CASE ~(i <= M)
    <3>1. i - M \in 1..N /\ M + (i - M) = i
      BY <1>2, <1>12, <2>2
    <3>2. PICK e \in second : Rank(e, second, pos) = i - M /\ b[i - M] = [event |-> e, place |-> pos[e]]
      BY <1>17, <3>1
    <3>3. c[M + Rank(e, second, pos)] = b[i - M]
      BY <1>15, <3>2
    <3>. QED
      BY <1>12, <1>13, <2>2, <3>1, <3>2, <3>3
  <2>. QED
    BY <2>1, <2>2
<1>19. c = a \o b
  BY <1>12, <1>13, <1>18, SeqEqual
<1>. QED
  BY <1>9, <1>10, <1>11, <1>19 DEF Then
-----------------------------------------------------------------------------
(* What a registration and the event store say of a model's memory          *)

(* The learner has only marked what its label cursor passed. *)
Untouched(r) ==
  \A e \in DOMAIN r.rows :
    e >= r.start /\ ~(e \in DOMAIN ready /\ ready[e] <= r.labelCursor) =>
      r.rows[e].trained = "no" /\ ~r.rows[e].evaluated

(* The metric state is stored with the first prediction. *)
MetricKept(r) == r.metric = {} => \A e \in DOMAIN r.rows : r.rows[e].status # "predicted"

(* Labels of the generation up to the cursor, in the order of the queue. *)
Placed(labels, r) ==
  /\ labels \in Seq(Labels) /\ InOrder(labels)
  /\ \A i \in 1..Len(labels) :
       /\ labels[i].event <= admissions /\ labels[i].event >= r.start /\ labels[i].place <= r.labelCursor
       /\ labels[i].event \in stored => labels[i].event \in DOMAIN ready /\ ready[labels[i].event] = labels[i].place

(* The rows tell what was learned and what was scored. *)
Tells(m, r, learned, scored) ==
  /\ Placed(learned, r) /\ Placed(scored, r)
  /\ \A e \in DOMAIN r.rows \cap known :
       e >= r.start =>
         /\ e \in EventsOf(scored) <=> r.rows[e].status = "predicted" /\ r.rows[e].trained = "yes"
         /\ e \in EventsOf(learned) <=> m \in LearningModels /\ r.rows[e].trained = "yes"

Remembers(m, r) ==
  /\ Untouched(r) /\ MetricKept(r)
  /\ Tells(m, r, LearnedOf(m, r), TrackerOf(r).scored)

(* Events can be sorted by their places in the queue. *)
LEMMA ReadySorts == ASSUME QueueOK, NEW events \in SUBSET DOMAIN ready PROVE Sortable(events, ready)
<1>1. IsFiniteSet(events) /\ events \in SUBSET Events
  BY StoreIsFinite DEF QueueOK
<1>. QED
  BY <1>1 DEF QueueOK, Sortable, Numbers, Distinct

(* A label the cursor has not reached is not among those it passed. *)
LEMMA NotYet ==
  ASSUME QueueOK, NEW r, NEW labels, Placed(labels, r), NEW e \in DOMAIN ready, e \in EventsOf(labels)
  PROVE  ready[e] <= r.labelCursor
<1>1. PICK i \in 1..Len(labels) : labels[i].event = e
  BY DEF EventsOf
<1>2. e \in stored
  BY DEF QueueOK
<1>. QED
  BY <1>1, <1>2 DEF Placed

(* Labels behind the cursor stay behind it. *)
LEMMA PlacedStays ==
  ASSUME NEW r, NEW q, NEW labels, Placed(labels, r), q.start = r.start,
         r.labelCursor \in Nat, q.labelCursor \in Nat, r.labelCursor <= q.labelCursor
  PROVE  Placed(labels, q)
<1>1. \A i \in 1..Len(labels) : labels[i].place \in Nat
  <2>1. \A i \in 1..Len(labels) : labels[i] \in Labels
    BY ElementOfSeq DEF Placed
  <2>. QED
    BY <2>1 DEF Labels
<1>. QED
  BY <1>1 DEF Placed

(* Labels of a batch follow those the cursor passed before. *)
CursorPasses(r, q, events) ==
  /\ q.start = r.start /\ r.labelCursor \in Nat /\ q.labelCursor \in Nat /\ r.labelCursor <= q.labelCursor
  /\ events \subseteq DOMAIN ready
  /\ \A e \in events : e >= r.start /\ ready[e] > r.labelCursor /\ ready[e] <= q.labelCursor

LEMMA PlacedAppends ==
  ASSUME QueueOK, NEW r, NEW q, NEW labels, NEW events, CursorPasses(r, q, events), Placed(labels, r)
  PROVE  /\ Placed(Then(labels, InQueueOrder(events)), q)
         /\ \A e : e \in EventsOf(Then(labels, InQueueOrder(events))) <=> e \in EventsOf(labels) \/ e \in events
<1> USE DEF CursorPasses
<1>0. PICK all : all = labels \o InQueueOrder(events)
  OBVIOUS
<1>13. all = Then(labels, InQueueOrder(events))
  BY <1>0 DEF Then
<1>1. PICK more : more = InQueueOrder(events)
  OBVIOUS
<1>2. /\ more \in Seq(Labels) /\ InOrder(more) /\ EventsOf(more) = events
      /\ \A i \in 1..Len(more) : more[i].event \in events /\ more[i].place = ready[more[i].event]
  BY <1>1, ReadySorts, ListedIs, QueueOrderLists
<1>3. labels \in Seq(Labels) /\ Placed(labels, q)
  BY PlacedStays DEF Placed
<1>4. Len(labels) \in Nat /\ Len(more) \in Nat
  BY <1>2, <1>3
<1>5. /\ all \in Seq(Labels) /\ Len(all) = Len(labels) + Len(more)
      /\ \A i \in 1..(Len(labels) + Len(more)) :
           all[i] = IF i <= Len(labels) THEN labels[i] ELSE more[i - Len(labels)]
  BY <1>0, <1>1, <1>2, <1>3, ConcatProperties
<1>6. /\ \A i \in 1..Len(labels) : i \in 1..Len(all) /\ all[i] = labels[i]
      /\ \A i \in 1..Len(more) : Len(labels) + i \in 1..Len(all) /\ all[Len(labels) + i] = more[i]
      /\ \A i \in 1..Len(all) : \/ i \in 1..Len(labels) /\ all[i] = labels[i]
                                \/ i - Len(labels) \in 1..Len(more) /\ all[i] = more[i - Len(labels)]
  BY <1>4, <1>5
<1>7. \A i \in 1..Len(labels) : labels[i].place \in Nat /\ labels[i].place <= r.labelCursor
  <2>1. \A i \in 1..Len(labels) : labels[i] \in Labels
    BY <1>3, ElementOfSeq
  <2>. QED
    BY <2>1 DEF Labels, Placed
<1>8. \A i \in 1..Len(more) : more[i].place \in Nat /\ more[i].place > r.labelCursor /\ more[i].place <= q.labelCursor
  BY <1>2 DEF QueueOK
<1>9. ASSUME NEW i \in 1..Len(all), NEW j \in 1..Len(all), i < j PROVE all[i].place < all[j].place
  <2>1. CASE j <= Len(labels)
    <3>1. i \in 1..Len(labels) /\ j \in 1..Len(labels) /\ all[i] = labels[i] /\ all[j] = labels[j]
      BY <1>4, <1>5, <1>9, <2>1
    <3>. QED
      BY <1>9, <3>1 DEF Placed, InOrder
  <2>2. CASE i <= Len(labels) /\ ~(j <= Len(labels))
    <3>1. i \in 1..Len(labels) /\ j - Len(labels) \in 1..Len(more)
          /\ all[i] = labels[i] /\ all[j] = more[j - Len(labels)]
      BY <1>4, <1>5, <1>9, <2>2
    <3>2. labels[i].place \in Nat /\ labels[i].place <= r.labelCursor
      BY <1>7, <3>1
    <3>3. more[j - Len(labels)].place \in Nat /\ more[j - Len(labels)].place > r.labelCursor
      BY <1>8, <3>1
    <3>. QED
      BY <3>1, <3>2, <3>3
  <2>3. CASE ~(i <= Len(labels))
    <3>1. /\ i - Len(labels) \in 1..Len(more) /\ j - Len(labels) \in 1..Len(more)
          /\ i - Len(labels) < j - Len(labels)
          /\ all[i] = more[i - Len(labels)] /\ all[j] = more[j - Len(labels)]
      <4>1. ~(i \in 1..Len(labels)) /\ ~(j \in 1..Len(labels))
        BY <1>4, <1>5, <1>9, <2>3
      <4>2. i - Len(labels) < j - Len(labels)
        BY <1>4, <1>5, <1>9
      <4>. QED
        BY <1>6, <4>1, <4>2
    <3>. QED
      BY <1>2, <3>1 DEF InOrder
  <2>. QED
    BY <2>1, <2>2, <2>3
<1>10. ASSUME NEW i \in 1..Len(all)
       PROVE  /\ all[i].event <= admissions /\ all[i].event >= q.start /\ all[i].place <= q.labelCursor
              /\ all[i].event \in stored => all[i].event \in DOMAIN ready /\ ready[all[i].event] = all[i].place
  <2>1. CASE i \in 1..Len(labels) /\ all[i] = labels[i]
    BY <1>3, <2>1 DEF Placed
  <2>2. CASE i - Len(labels) \in 1..Len(more) /\ all[i] = more[i - Len(labels)]
    <3>1. all[i].event \in events /\ all[i].place = ready[all[i].event]
      BY <1>2, <2>2
    <3>2. all[i].event \in DOMAIN ready /\ all[i].event <= admissions
      BY <3>1, StoreIsFinite DEF QueueOK
    <3>. QED
      BY <3>1, <3>2
  <2>. QED
    BY <1>6, <2>1, <2>2
<1>11. Placed(all, q)
  BY <1>5, <1>9, <1>10 DEF Placed, InOrder
<1>12. EventsOf(all) = EventsOf(labels) \cup EventsOf(more)
  <2>1. EventsOf(all) \subseteq EventsOf(labels) \cup EventsOf(more)
    BY <1>6 DEF EventsOf
  <2>2. ASSUME NEW i \in 1..Len(labels) PROVE labels[i].event \in EventsOf(all)
    BY <1>6 DEF EventsOf
  <2>3. ASSUME NEW i \in 1..Len(more) PROVE more[i].event \in EventsOf(all)
    <3>1. PICK k \in 1..Len(all) : all[k] = more[i]
      BY <1>6
    <3>. QED
      BY <3>1 DEF EventsOf
  <2>. QED
    BY <2>1, <2>2, <2>3 DEF EventsOf
<1>. QED
  BY <1>2, <1>11, <1>12, <1>13
-----------------------------------------------------------------------------
(* Predicting, resolving and skipping, as far as memory is concerned        *)

(* Rows are added, and those of a batch of labels are marked. *)
Moves(r, q, batch, mark) ==
  /\ q.artifact = r.artifact /\ q.start = r.start /\ q.metric = r.metric
  /\ r.labelCursor \in Nat /\ q.labelCursor \in Nat
  /\ IF batch = {} THEN q.labelCursor = r.labelCursor ELSE r.labelCursor < q.labelCursor
  /\ batch \subseteq DOMAIN ready
  /\ \A e \in batch : e >= r.start /\ ready[e] > r.labelCursor /\ ready[e] <= q.labelCursor
  /\ DOMAIN r.rows \cup batch \subseteq DOMAIN q.rows /\ DOMAIN q.rows \subseteq stored
  /\ \A e \in DOMAIN r.rows \ batch : q.rows[e] = r.rows[e]
  /\ \A e \in batch : q.rows[e].trained = mark
  /\ \A e \in DOMAIN q.rows \ (DOMAIN r.rows \cup batch) : q.rows[e].trained = "no" /\ ~q.rows[e].evaluated

(* The labels of a batch that are learned. *)
Told(batch, mark) == IF mark = "yes" THEN batch \cap known ELSE {}

(* What the cursor has not passed stays unmarked. *)
LEMMA MovesUntouched ==
  ASSUME QueueOK, NEW r, NEW q, NEW batch, NEW mark, Moves(r, q, batch, mark), Untouched(r)
  PROVE  Untouched(q)
<1> SUFFICES ASSUME NEW e \in DOMAIN q.rows, e >= q.start, ~(e \in DOMAIN ready /\ ready[e] <= q.labelCursor)
             PROVE  q.rows[e].trained = "no" /\ ~q.rows[e].evaluated
  BY DEF Untouched
<1>1. e \notin batch
  BY DEF Moves
<1>2. CASE e \in DOMAIN r.rows
  <2>1. ~(e \in DOMAIN ready /\ ready[e] <= r.labelCursor)
    <3>1. \A x \in DOMAIN ready : ready[x] \in Nat
      BY DEF QueueOK
    <3>2. r.labelCursor \in Nat /\ q.labelCursor \in Nat /\ r.labelCursor <= q.labelCursor
      BY DEF Moves
    <3>. QED
      BY <3>1, <3>2
  <2>. QED
    BY <1>1, <1>2, <2>1 DEF Moves, Untouched
<1>3. CASE e \notin DOMAIN r.rows
  BY <1>1, <1>3 DEF Moves
<1>. QED
  BY <1>2, <1>3

(* The rows tell the state again once the learned labels are appended to it. *)
LEMMA MovesTell ==
  ASSUME QueueOK, NEW m, NEW r, SkipsNothing(r), NEW q, NEW batch, NEW mark \in {"yes", "skipped"},
         Moves(r, q, batch, mark),
         NEW learned, NEW scored, Tells(m, r, learned, scored),
         NEW more, more = IF m \in LearningModels THEN Then(learned, InQueueOrder(Told(batch, mark))) ELSE learned,
         NEW evaluated, evaluated = {e \in Told(batch, mark) : q.rows[e].status = "predicted"},
         NEW scores, scores = Then(scored, InQueueOrder(evaluated))
  PROVE  Tells(m, q, more, scores)
<1>1. PICK told : told = Told(batch, mark)
  OBVIOUS
<1>2. /\ told \in SUBSET DOMAIN ready /\ told \in SUBSET batch
      /\ \A e \in told : e >= r.start /\ ready[e] > r.labelCursor /\ ready[e] <= q.labelCursor
  BY <1>1 DEF Told, Moves
<1>3. /\ q.start = r.start /\ r.labelCursor \in Nat /\ q.labelCursor \in Nat /\ r.labelCursor <= q.labelCursor
  BY DEF Moves
<1>4. Placed(learned, r) /\ Placed(scored, r)
  BY DEF Tells
<1>5. Placed(scores, q) /\ \A e : e \in EventsOf(scores) <=> e \in EventsOf(scored) \/ e \in evaluated
  <2>1. CursorPasses(r, q, evaluated)
    BY <1>1, <1>2, <1>3 DEF CursorPasses
  <2>. QED
    BY <1>4, <2>1, PlacedAppends
<1>6. /\ Placed(more, q)
      /\ \A e : e \in EventsOf(more) <=> e \in EventsOf(learned) \/ (m \in LearningModels /\ e \in told)
  <2>1. CASE m \in LearningModels
    <3>1. more = Then(learned, InQueueOrder(told))
      BY <1>1, <2>1
    <3>2. CursorPasses(r, q, told)
      BY <1>2, <1>3 DEF CursorPasses
    <3>3. Placed(more, q) /\ \A e : e \in EventsOf(more) <=> e \in EventsOf(learned) \/ e \in told
      BY <1>4, <3>1, <3>2, PlacedAppends
    <3>. QED
      BY <2>1, <3>3
  <2>2. CASE m \notin LearningModels
    BY <1>3, <1>4, <2>2, PlacedStays
  <2>. QED
    BY <2>1, <2>2
<1>7. ASSUME NEW e \in DOMAIN q.rows \cap known, e >= q.start
      PROVE  /\ e \in EventsOf(scores) <=> q.rows[e].status = "predicted" /\ q.rows[e].trained = "yes"
             /\ e \in EventsOf(more) <=> m \in LearningModels /\ q.rows[e].trained = "yes"
  <2>1. e \in DOMAIN ready /\ ready[e] \in Nat
    BY DEF QueueOK
  <2>2. CASE e \in batch
    <3>1. ready[e] > r.labelCursor /\ q.rows[e].trained = mark
      BY <2>2 DEF Moves
    <3>2. e \notin EventsOf(scored) /\ e \notin EventsOf(learned)
      BY <1>3, <1>4, <2>1, <3>1, NotYet
    <3>3. e \in told <=> mark = "yes"
      BY <1>1, <2>2 DEF Told
    <3>. QED
      BY <1>1, <1>5, <1>6, <3>1, <3>2, <3>3
  <2>3. CASE e \in DOMAIN r.rows \ batch
    <3>1. q.rows[e] = r.rows[e] /\ e \notin told /\ e >= r.start
      BY <1>2, <1>3, <1>7, <2>3 DEF Moves
    <3>2. /\ e \in EventsOf(scored) <=> r.rows[e].status = "predicted" /\ r.rows[e].trained = "yes"
          /\ e \in EventsOf(learned) <=> m \in LearningModels /\ r.rows[e].trained = "yes"
      BY <2>3, <3>1 DEF Tells
    <3>. QED
      BY <1>1, <1>5, <1>6, <3>1, <3>2
  <2>4. CASE e \notin DOMAIN r.rows /\ e \notin batch
    <3>1. q.rows[e].trained = "no" /\ e \notin told
      BY <1>2, <2>4 DEF Moves
    <3>2. ~(ready[e] <= r.labelCursor)
      BY <1>3, <1>7, <2>1, <2>4 DEF SkipsNothing, QueueOK
    <3>3. e \notin EventsOf(scored) /\ e \notin EventsOf(learned)
      BY <1>4, <2>1, <3>2, NotYet
    <3>. QED
      BY <1>1, <1>5, <1>6, <3>1, <3>3
  <2>. QED
    BY <2>2, <2>3, <2>4
<1>. QED
  BY <1>5, <1>6, <1>7 DEF Tells

(* What a load replays grows by the labels learned. *)
LEMMA MovesReplay ==
  ASSUME QueueOK, NEW r, NEW q, NEW batch, NEW mark \in {"yes", "skipped"}, Moves(r, q, batch, mark),
         Untouched(r), Checkpoint(q) = Checkpoint(r), Checkpoint(r) \in Nat, Checkpoint(r) <= r.labelCursor
  PROVE  /\ TrainedSinceCheckpoint(q) = TrainedSinceCheckpoint(r) \cup Told(batch, mark)
         /\ InQueueOrder(TrainedSinceCheckpoint(q))
              = Then(InQueueOrder(TrainedSinceCheckpoint(r)), InQueueOrder(Told(batch, mark)))
<1>1. \A e \in DOMAIN ready : ready[e] \in Nat
  BY DEF QueueOK
<1>2. \A e \in TrainedSinceCheckpoint(r) : e \in DOMAIN ready /\ ready[e] <= r.labelCursor
  BY DEF TrainedSinceCheckpoint, Untouched
<1>3. \A e \in Told(batch, mark) : e \in DOMAIN ready /\ ready[e] > r.labelCursor
  BY DEF Told, Moves
<1>4. r.labelCursor \in Nat /\ q.start = r.start /\ known \subseteq DOMAIN ready
  BY DEF Moves, QueueOK
<1>5. ASSUME NEW e PROVE e \in TrainedSinceCheckpoint(q) <=> e \in TrainedSinceCheckpoint(r) \cup Told(batch, mark)
  <2>1. CASE e \in batch
    <3>1. /\ e \in DOMAIN q.rows /\ e \in DOMAIN ready /\ e >= r.start /\ q.rows[e].trained = mark
          /\ ready[e] > r.labelCursor
      BY <2>1 DEF Moves
    <3>2. ready[e] > Checkpoint(q) /\ e \notin TrainedSinceCheckpoint(r)
      BY <1>1, <1>2, <1>4, <3>1
    <3>3. e \in TrainedSinceCheckpoint(q) <=> e \in known /\ mark = "yes"
      BY <1>4, <3>1, <3>2 DEF TrainedSinceCheckpoint
    <3>. QED
      BY <2>1, <3>2, <3>3 DEF Told
  <2>2. CASE e \notin batch
    <3>1. e \notin Told(batch, mark)
      BY <2>2 DEF Told
    <3>2. CASE e \in DOMAIN r.rows
      <4>1. e \in DOMAIN q.rows /\ q.rows[e] = r.rows[e]
        BY <2>2, <3>2 DEF Moves
      <4>. QED
        BY <1>4, <3>1, <3>2, <4>1 DEF TrainedSinceCheckpoint
    <3>3. CASE e \notin DOMAIN r.rows
      <4>1. e \in DOMAIN q.rows => q.rows[e].trained = "no"
        BY <2>2, <3>3 DEF Moves
      <4>. QED
        BY <3>1, <3>3, <4>1 DEF TrainedSinceCheckpoint
    <3>. QED
      BY <3>2, <3>3
  <2>. QED
    BY <2>1, <2>2
<1>6. TrainedSinceCheckpoint(q) = TrainedSinceCheckpoint(r) \cup Told(batch, mark)
  BY <1>5
<1>7. /\ TrainedSinceCheckpoint(q) \in SUBSET DOMAIN ready
      /\ \A d \in TrainedSinceCheckpoint(r) : \A e \in Told(batch, mark) : ready[d] < ready[e]
  BY <1>1, <1>2, <1>3, <1>4 DEF TrainedSinceCheckpoint
<1>8. Sortable(TrainedSinceCheckpoint(q), ready)
  BY <1>7, ReadySorts
<1>9. Listed(TrainedSinceCheckpoint(q), ready)
        = Then(Listed(TrainedSinceCheckpoint(r), ready), Listed(Told(batch, mark), ready))
  <2>1. PICK all : all = TrainedSinceCheckpoint(q)
    OBVIOUS
  <2>2. PICK first : first = TrainedSinceCheckpoint(r)
    OBVIOUS
  <2>3. PICK second : second = Told(batch, mark)
    OBVIOUS
  <2>4. all = first \cup second /\ Sortable(all, ready) /\ Precede(first, second, ready)
    BY <1>6, <1>7, <1>8, <2>1, <2>2, <2>3 DEF Precede
  <2>5. Listed(all, ready) = Then(Listed(first, ready), Listed(second, ready))
    BY <2>4, ListedJoins
  <2>. QED
    BY <2>1, <2>2, <2>3, <2>5
<1>10. /\ InQueueOrder(TrainedSinceCheckpoint(q)) = Listed(TrainedSinceCheckpoint(q), ready)
       /\ InQueueOrder(TrainedSinceCheckpoint(r)) = Listed(TrainedSinceCheckpoint(r), ready)
       /\ InQueueOrder(Told(batch, mark)) = Listed(Told(batch, mark), ready)
  BY QueueOrderLists
<1>. QED
  BY <1>6, <1>9, <1>10

(* Nothing is appended by a query of nothing. *)
LEMMA ThenNothing == \A labels \in Seq(Labels) : Then(labels, InQueueOrder({})) = labels
<1>1. InQueueOrder({}) = <<>>
  BY ListedNone, QueueOrderLists
<1>2. \A labels \in Seq(Labels) : labels \o <<>> = labels
  BY ConcatEmptySeq
<1>. QED
  BY <1>1, <1>2 DEF Then

LEMMA ThenAdds ==
  ASSUME NEW a \in Seq(Labels), NEW b \in Seq(Labels), NEW c \in Seq(Labels)
  PROVE  Then(a, Then(b, c)) = Then(Then(a, b), c) /\ Then(a, b) \in Seq(Labels)
<1>1. (a \o b) \o c = a \o (b \o c)
  BY ConcatAssociative
<1>2. a \o b \in Seq(Labels)
  BY ConcatProperties
<1>. QED
  BY <1>1, <1>2 DEF Then

LEMMA LearnedIs ==
  /\ \A m, r : LearnedOf(m, r) = IF m \in LearningModels
                                 THEN Then(BaseOf(r).learned, InQueueOrder(TrainedSinceCheckpoint(r)))
                                 ELSE BaseOf(r).learned
  /\ QueueOK => \A m, r : r \in Registrations => LearnedOf(m, r) \in Seq(Labels)
<1>1. \A m, r : LearnedOf(m, r) = IF m \in LearningModels
                                  THEN Then(BaseOf(r).learned, InQueueOrder(TrainedSinceCheckpoint(r)))
                                  ELSE BaseOf(r).learned
  BY Zenon DEF LearnedOf, Then
<1>2. ASSUME QueueOK, NEW m, NEW r \in Registrations PROVE LearnedOf(m, r) \in Seq(Labels)
  <2>1. PICK base : base = BaseOf(r).learned
    OBVIOUS
  <2>2. PICK replayed : replayed = InQueueOrder(TrainedSinceCheckpoint(r))
    OBVIOUS
  <2>3. base \in Seq(Labels)
    BY <2>1, BaseIs
  <2>4. replayed \in Seq(Labels)
    <3>1. TrainedSinceCheckpoint(r) \in SUBSET DOMAIN ready
      BY DEF TrainedSinceCheckpoint
    <3>. QED
      BY <1>2, <2>2, <3>1, QueueOrderType
  <2>5. Then(base, replayed) \in Seq(Labels)
    BY <2>3, <2>4, ThenAdds
  <2>. QED
    BY <1>1, <2>1, <2>2, <2>3, <2>5
<1>. QED
  BY <1>1, <1>2

(* What a restart rebuilds grows by the labels learned, as the resident model does. *)
LEMMA LearnedMoves ==
  ASSUME QueueOK, NEW m, NEW r, RegOK(r), NEW q \in Registrations, NEW batch, NEW mark \in {"yes", "skipped"},
         Moves(r, q, batch, mark), Untouched(r), q.snapshot = r.snapshot
  PROVE  LearnedOf(m, q) = IF m \in LearningModels THEN Then(LearnedOf(m, r), InQueueOrder(Told(batch, mark)))
                           ELSE LearnedOf(m, r)
<1>1. r \in Registrations /\ Checkpoint(r) \in Nat /\ Checkpoint(r) <= r.labelCursor
  BY CheckpointIs DEF RegOK
<1>2. Checkpoint(q) = Checkpoint(r) /\ BaseOf(q).learned = BaseOf(r).learned
  <2>1. BaseOf(q).learned = BaseOf(r).learned
    <3>1. CASE r.snapshot = {}
      BY <1>1, <3>1, BaseIs
    <3>2. CASE \E s \in r.snapshot : r.snapshot = {s}
      BY <1>1, <3>2, BaseIs
    <3>. QED
      BY <3>1, <3>2 DEF RegOK, One
  <2>. QED
    BY <2>1, SameCheckpoint
<1>3. PICK base : base = BaseOf(r).learned
  OBVIOUS
<1>4. PICK before : before = InQueueOrder(TrainedSinceCheckpoint(r))
  OBVIOUS
<1>5. PICK told : told = InQueueOrder(Told(batch, mark))
  OBVIOUS
<1>6. InQueueOrder(TrainedSinceCheckpoint(q)) = Then(before, told)
  BY <1>1, <1>2, <1>4, <1>5, MovesReplay
<1>7. base \in Seq(Labels) /\ before \in Seq(Labels) /\ told \in Seq(Labels)
  <2>1. base \in Seq(Labels)
    BY <1>1, <1>3, BaseIs
  <2>2. TrainedSinceCheckpoint(r) \in SUBSET DOMAIN ready /\ Told(batch, mark) \in SUBSET DOMAIN ready
    BY DEF TrainedSinceCheckpoint, Told, Moves
  <2>3. before \in Seq(Labels) /\ told \in Seq(Labels)
    BY <1>4, <1>5, <2>2, QueueOrderType
  <2>. QED
    BY <2>1, <2>3
<1>8. Then(base, Then(before, told)) = Then(Then(base, before), told)
  BY <1>7, ThenAdds
<1>9. LearnedOf(m, q) = IF m \in LearningModels THEN Then(base, Then(before, told)) ELSE base
  BY <1>2, <1>3, <1>6, LearnedIs
<1>10. LearnedOf(m, r) = IF m \in LearningModels THEN Then(base, before) ELSE base
  BY <1>3, <1>4, LearnedIs
<1>. QED
  BY <1>5, <1>8, <1>9, <1>10

(* A step that learns nothing. *)
LEMMA MovesToldNothing ==
  ASSUME QueueOK, NEW m, NEW r, RegOK(r), SkipsNothing(r), NEW q, NEW batch, NEW mark \in {"yes", "skipped"},
         Moves(r, q, batch, mark), Told(batch, mark) = {},
         NEW learned, NEW scored, Tells(m, r, learned, scored)
  PROVE  Tells(m, q, learned, scored)
<1>1. learned \in Seq(Labels) /\ scored \in Seq(Labels)
  BY DEF Tells, Placed
<1>2. Then(learned, InQueueOrder({})) = learned /\ Then(scored, InQueueOrder({})) = scored
  BY <1>1, ThenNothing
<1>3. PICK more : more = IF m \in LearningModels THEN Then(learned, InQueueOrder(Told(batch, mark))) ELSE learned
  OBVIOUS
<1>4. PICK evaluated : evaluated = {e \in Told(batch, mark) : q.rows[e].status = "predicted"}
  OBVIOUS
<1>5. PICK scores : scores = Then(scored, InQueueOrder(evaluated))
  OBVIOUS
<1>6. Tells(m, q, more, scores)
  BY <1>3, <1>4, <1>5, MovesTell
<1>7. evaluated = {}
  BY <1>4
<1>. QED
  BY <1>2, <1>3, <1>5, <1>6, <1>7

(* _predict_pending, as far as memory is concerned *)
LEMMA PredictMoves ==
  ASSUME QueueOK, NEW r, RegOK(r), NEW c \in Residents, NEW p, p = PredictPending(r, c)
  PROVE  /\ Moves(r, p.r, {}, "skipped") /\ p.r.snapshot = r.snapshot
         /\ p.c.fingerprint = c.fingerprint /\ p.c.artifact = c.artifact /\ p.c.learned = c.learned
         /\ p.c.needsCheckpoint = c.needsCheckpoint
         /\ p.c.tracker.scored = c.tracker.scored /\ p.c.tracker.predictions = c.tracker.predictions + p.count
         /\ p.count \in Nat
         /\ p.count = 0 => \A e \in DOMAIN p.r.rows :
              p.r.rows[e].status = "predicted" => e \in DOMAIN r.rows /\ r.rows[e].status = "predicted"
<1>1. PICK batch : batch = EventsAfterCursor(r)
  OBVIOUS
<1>2. PICK last : last = CursorAfter(r.predictionCursor, batch, Itself)
  OBVIOUS
<1>3. batch \in SUBSET stored
  BY <1>1, <1>2, EventsQuery
<1>4. PICK fresh : fresh = batch \ DOMAIN r.rows
  OBVIOUS
<1>5. PICK predicted : predicted = fresh \ DOMAIN ready
  OBVIOUS
<1>6. PICK more : more = AddRows(r.rows, predicted, fresh \cap DOMAIN ready)
  OBVIOUS
<1>7. r \in Registrations /\ r.labelCursor \in Nat /\ DOMAIN r.rows \subseteq stored
  BY DEF RegOK, Registrations
<1>8. /\ DOMAIN more = DOMAIN r.rows \cup batch
      /\ \A e \in DOMAIN r.rows : more[e] = r.rows[e]
      /\ \A e \in DOMAIN more \ DOMAIN r.rows :
           more[e] = NewRow(IF e \in predicted THEN "predicted" ELSE "skipped")
  BY <1>4, <1>5, <1>6 DEF AddRows
<1>9. \A status : NewRow(status).status = status /\ NewRow(status).trained = "no" /\ NewRow(status).evaluated = FALSE
  BY DEF NewRow
<1>10. PICK n : n = Cardinality(predicted)
  OBVIOUS
<1>11. IsFiniteSet(predicted) /\ n \in Nat
  <2>1. predicted \subseteq stored
    BY <1>3, <1>4, <1>5
  <2>. QED
    BY <1>10, <2>1, StoreIsFinite, FS_CardinalityType
<1>12. p = [r |-> [r EXCEPT !.rows = more, !.predictionCursor = last],
            c |-> [c EXCEPT !.tracker.predictions = @ + n], count |-> n]
  BY <1>1, <1>2, <1>4, <1>5, <1>6, <1>10 DEF PredictPending
<1>13. p.r = [r EXCEPT !.rows = more, !.predictionCursor = last] /\ p.count = n
       /\ p.c = [c EXCEPT !.tracker.predictions = @ + n]
  BY <1>12
<1>14. /\ p.r.rows = more /\ p.r.artifact = r.artifact /\ p.r.start = r.start /\ p.r.labelCursor = r.labelCursor
       /\ p.r.snapshot = r.snapshot /\ p.r.metric = r.metric
  BY <1>7, <1>13 DEF Registrations
<1>15. /\ p.c.fingerprint = c.fingerprint /\ p.c.artifact = c.artifact /\ p.c.learned = c.learned
       /\ p.c.needsCheckpoint = c.needsCheckpoint
       /\ p.c.tracker.scored = c.tracker.scored /\ p.c.tracker.predictions = c.tracker.predictions + n
  <2>1. c.tracker \in Metrics
    BY DEF Residents
  <2>2. [c EXCEPT !.tracker.predictions = @ + n] = [c EXCEPT !.tracker = [c.tracker EXCEPT !.predictions = @ + n]]
    BY <2>1 DEF Residents
  <2>3. PICK t : t = [c.tracker EXCEPT !.predictions = @ + n]
    OBVIOUS
  <2>4. t.scored = c.tracker.scored /\ t.predictions = c.tracker.predictions + n
    BY <2>1, <2>3 DEF Metrics
  <2>5. p.c = [c EXCEPT !.tracker = t]
    BY <1>13, <2>2, <2>3
  <2>. QED
    BY <2>4, <2>5 DEF Residents
<1>16. Moves(r, p.r, {}, "skipped")
  BY <1>3, <1>7, <1>8, <1>9, <1>14 DEF Moves
<1>17. n = 0 => predicted = {}
  BY <1>10, <1>11, FS_EmptySet
<1>18. n = 0 => \A e \in DOMAIN p.r.rows :
         p.r.rows[e].status = "predicted" => e \in DOMAIN r.rows /\ r.rows[e].status = "predicted"
  BY <1>8, <1>9, <1>14, <1>17
<1>. QED
  BY <1>11, <1>13, <1>14, <1>15, <1>16, <1>18

(* The rows of a batch of labels, once settled. *)
LEMMA SettledRows ==
  ASSUME NEW rows, NEW batch, NEW trained, NEW more, more = Settle(rows, batch, trained),
         \A e \in DOMAIN rows : rows[e] \in Rows
  PROVE  /\ \A e : e \in DOMAIN more <=> e \in DOMAIN rows \/ e \in batch
         /\ \A e \in DOMAIN rows \ batch : more[e] = rows[e]
         /\ \A e \in batch :
              /\ more[e].status = IF e \in DOMAIN rows THEN rows[e].status ELSE "skipped"
              /\ more[e].trained = IF e \in DOMAIN rows /\ rows[e].trained # "no" THEN rows[e].trained ELSE trained
<1>1. PICK all : all = AddRows(rows, {}, batch)
  OBVIOUS
<1>2. /\ DOMAIN all = DOMAIN rows \cup batch
      /\ \A e \in DOMAIN rows : all[e] = rows[e]
      /\ \A e \in batch \ DOMAIN rows : all[e] = [status |-> "skipped", evaluated |-> FALSE, trained |-> "no"]
  BY <1>1 DEF AddRows, NewRow
<1>3. more = [e \in DOMAIN all |-> IF e \in batch THEN Settled(all[e], trained) ELSE all[e]]
  BY <1>1 DEF Settle
<1>4. \A e \in DOMAIN all : all[e] \in Rows
  <2>1. [status |-> "skipped", evaluated |-> FALSE, trained |-> "no"] \in Rows
    BY DEF Rows
  <2>. QED
    BY <1>2, <2>1
<1>5. \A row \in Rows : /\ Settled(row, trained).status = row.status
                        /\ Settled(row, trained).trained = IF row.trained # "no" THEN row.trained ELSE trained
  <2> SUFFICES ASSUME NEW row \in Rows
               PROVE  /\ Settled(row, trained).status = row.status
                      /\ Settled(row, trained).trained = IF row.trained # "no" THEN row.trained ELSE trained
    OBVIOUS
  <2>. QED
    BY DEF Settled, Rows
<1>6. \A e \in batch : more[e] = Settled(all[e], trained) /\ all[e] \in Rows
  BY <1>2, <1>3, <1>4
<1>7. DOMAIN more = DOMAIN rows \cup batch /\ \A e \in DOMAIN rows \ batch : more[e] = rows[e]
  BY <1>2, <1>3
<1>8. ASSUME NEW e \in batch
      PROVE  /\ more[e].status = IF e \in DOMAIN rows THEN rows[e].status ELSE "skipped"
             /\ more[e].trained = IF e \in DOMAIN rows /\ rows[e].trained # "no" THEN rows[e].trained ELSE trained
  <2>1. more[e].status = all[e].status /\ more[e].trained = IF all[e].trained # "no" THEN all[e].trained ELSE trained
    BY <1>5, <1>6
  <2>. QED
    BY <1>2, <2>1
<1>. QED
  BY <1>7, <1>8

(* Where the label cursor is after a batch. *)
LEMMA LabelsAdvance ==
  ASSUME QueueOK, NEW r, RegOK(r), NEW batch, batch = ReadyAfterCursor(r),
         NEW last, last = CursorAfter(r.labelCursor, batch, ready)
  PROVE  /\ batch \in SUBSET DOMAIN ready /\ r.labelCursor \in Nat /\ last \in Nat
         /\ IF batch = {} THEN last = r.labelCursor ELSE r.labelCursor < last
         /\ \A e \in batch : e >= r.start /\ ready[e] > r.labelCursor /\ ready[e] <= last
<1>1. batch \in SUBSET DOMAIN ready /\ last \in Nat
      /\ \A e \in batch : ready[e] > r.labelCursor /\ ready[e] <= last /\ e >= r.start
  BY LabelsQuery
<1>2. r.labelCursor \in Nat /\ \A e \in batch : ready[e] \in Nat
  BY <1>1 DEF RegOK, Registrations, QueueOK
<1>3. CASE batch = {}
  <2>1. last = r.labelCursor
    BY <1>3 DEF CursorAfter
  <2>. QED
    BY <1>1, <1>2, <1>3, <2>1
<1>4. CASE batch # {}
  <2>1. PICK e \in batch : TRUE
    BY <1>4
  <2>2. r.labelCursor < last
    BY <1>1, <1>2, <2>1
  <2>. QED
    BY <1>1, <1>2, <1>4, <2>2
<1>. QED
  BY <1>3, <1>4

(* What the cursor had not passed was not trained before. *)
LEMMA BatchUntouched ==
  ASSUME QueueOK, NEW r, RegOK(r), Untouched(r), NEW e \in DOMAIN r.rows, e >= r.start,
         e \in DOMAIN ready, ready[e] > r.labelCursor
  PROVE  r.rows[e].trained = "no" /\ ~r.rows[e].evaluated
<1>1. ready[e] \in Nat /\ r.labelCursor \in Nat
  BY DEF QueueOK, RegOK, Registrations
<1>2. ~(ready[e] <= r.labelCursor)
  BY <1>1
<1>. QED
  BY <1>2 DEF Untouched

(* What _process_resolutions does to the model in memory. *)
Resolves(m, r, c, p, batch) ==
  /\ Moves(r, p.r, batch, "yes") /\ p.r.snapshot = r.snapshot
  /\ \A e \in DOMAIN p.r.rows :
       p.r.rows[e].status = "predicted" => e \in DOMAIN r.rows /\ r.rows[e].status = "predicted"
  /\ IsFiniteSet(batch) /\ p.count = Cardinality(batch)
  /\ p.c.fingerprint = c.fingerprint /\ p.c.artifact = c.artifact
  /\ p.c.learned = IF m \in LearningModels THEN Then(c.learned, InQueueOrder(Told(batch, "yes"))) ELSE c.learned
  /\ p.c.tracker.scored
       = Then(c.tracker.scored, InQueueOrder({e \in Told(batch, "yes") : p.r.rows[e].status = "predicted"}))
  /\ p.c.tracker.predictions = c.tracker.predictions
  /\ p.c.needsCheckpoint = (c.needsCheckpoint \/ batch # {})

(* _process_resolutions: the batch's known labels are learned and scored. *)
LEMMA ResolveMoves ==
  ASSUME QueueOK, NEW m, NEW r, RegOK(r), Untouched(r), NEW c \in Residents,
         NEW p, p = ProcessResolutions(m, r, c)
  PROVE  \E batch : Resolves(m, r, c, p, batch)
<1>1. PICK batch : batch = ReadyAfterCursor(r)
  OBVIOUS
<1>2. PICK last : last = CursorAfter(r.labelCursor, batch, ready)
  OBVIOUS
<1>3. /\ batch \in SUBSET DOMAIN ready /\ r.labelCursor \in Nat /\ last \in Nat
      /\ IF batch = {} THEN last = r.labelCursor ELSE r.labelCursor < last
      /\ \A e \in batch : e >= r.start /\ ready[e] > r.labelCursor /\ ready[e] <= last
  BY <1>1, <1>2, LabelsAdvance
<1>4. PICK evaluable : evaluable = {e \in batch \cap known : e \in DOMAIN r.rows /\ r.rows[e].status = "predicted"
                                                               /\ ~r.rows[e].evaluated}
  OBVIOUS
<1>5. PICK learnable : learnable = {e \in batch \cap known : e \in DOMAIN r.rows => r.rows[e].trained = "no"}
  OBVIOUS
<1>6. r \in Registrations /\ r.rows \in RowMaps /\ DOMAIN r.rows \subseteq stored
  BY DEF RegOK, Registrations
<1>7. PICK more : more = Settle(r.rows, batch, "yes")
  OBVIOUS
<1>8. /\ DOMAIN more = DOMAIN r.rows \cup batch
      /\ \A e \in DOMAIN r.rows \ batch : more[e] = r.rows[e]
      /\ \A e \in batch : /\ more[e].status = IF e \in DOMAIN r.rows THEN r.rows[e].status ELSE "skipped"
                          /\ more[e].trained = IF e \in DOMAIN r.rows /\ r.rows[e].trained # "no"
                                               THEN r.rows[e].trained ELSE "yes"
  <2>1. \A e \in DOMAIN r.rows : r.rows[e] \in Rows
    BY <1>6, RowMapsAre
  <2>2. PICK rows : rows = r.rows
    OBVIOUS
  <2>3. more = Settle(rows, batch, "yes") /\ \A e \in DOMAIN rows : rows[e] \in Rows
    BY <1>7, <2>1, <2>2
  <2>4. /\ \A e : e \in DOMAIN more <=> e \in DOMAIN rows \/ e \in batch
        /\ \A e \in DOMAIN rows \ batch : more[e] = rows[e]
        /\ \A e \in batch :
             /\ more[e].status = IF e \in DOMAIN rows THEN rows[e].status ELSE "skipped"
             /\ more[e].trained = IF e \in DOMAIN rows /\ rows[e].trained # "no" THEN rows[e].trained ELSE "yes"
    BY <2>3, SettledRows
  <2>. QED
    BY <2>2, <2>4
<1>9. \A e \in batch : e \in DOMAIN r.rows => r.rows[e].trained = "no" /\ ~r.rows[e].evaluated
  BY <1>3, BatchUntouched
<1>10. learnable = Told(batch, "yes")
  BY <1>5, <1>9 DEF Told
<1>11. PICK scored : scored = InQueueOrder(evaluable)
  OBVIOUS
<1>12. PICK learned : learned = InQueueOrder(learnable)
  OBVIOUS
<1>13. p = [r |-> [r EXCEPT !.rows = more, !.labelCursor = last],
            c |-> [c EXCEPT !.tracker.scored = @ \o scored,
                            !.learned = IF m \in LearningModels THEN @ \o learned ELSE @,
                            !.needsCheckpoint = @ \/ batch # {}],
            count |-> Cardinality(batch)]
  BY <1>1, <1>2, <1>4, <1>5, <1>7, <1>11, <1>12, Zenon DEF ProcessResolutions
<1>14. /\ p.r = [r EXCEPT !.rows = more, !.labelCursor = last] /\ p.count = Cardinality(batch)
       /\ p.c = [c EXCEPT !.tracker.scored = @ \o scored,
                          !.learned = IF m \in LearningModels THEN @ \o learned ELSE @,
                          !.needsCheckpoint = @ \/ batch # {}]
  BY <1>13
<1>15. /\ p.r.rows = more /\ p.r.artifact = r.artifact /\ p.r.start = r.start /\ p.r.labelCursor = last
       /\ p.r.snapshot = r.snapshot /\ p.r.metric = r.metric
  BY <1>6, <1>14 DEF Registrations
<1>16. Moves(r, p.r, batch, "yes")
  <2>1. DOMAIN more \subseteq stored
    BY <1>3, <1>6, <1>8 DEF QueueOK
  <2>2. \A e \in batch : more[e].trained = "yes"
    BY <1>8, <1>9
  <2>. QED
    BY <1>3, <1>8, <1>15, <2>1, <2>2 DEF Moves
<1>17. \A e \in DOMAIN more : more[e].status = "predicted" => e \in DOMAIN r.rows /\ r.rows[e].status = "predicted"
  BY <1>8
<1>18. IsFiniteSet(batch)
  BY <1>3, StoreIsFinite DEF QueueOK
<1>19. evaluable = {e \in Told(batch, "yes") : more[e].status = "predicted"}
  BY <1>4, <1>8, <1>9 DEF Told
<1>20. PICK tracker : tracker = [c.tracker EXCEPT !.scored = @ \o scored]
  OBVIOUS
<1>21. PICK all : all = IF m \in LearningModels THEN c.learned \o learned ELSE c.learned
  OBVIOUS
<1>22. c.tracker \in Metrics /\ c.needsCheckpoint \in BOOLEAN
  BY DEF Residents
<1>23. PICK needs \in BOOLEAN : needs = (c.needsCheckpoint \/ batch # {})
  BY <1>22
<1>24. p.c = [c EXCEPT !.tracker = tracker, !.learned = all, !.needsCheckpoint = needs]
  BY <1>14, <1>20, <1>21, <1>22, <1>23 DEF Residents
<1>25. /\ p.c.fingerprint = c.fingerprint /\ p.c.artifact = c.artifact /\ p.c.learned = all
       /\ p.c.tracker = tracker /\ p.c.needsCheckpoint = needs
  BY <1>24 DEF Residents
<1>26. tracker.scored = Then(c.tracker.scored, scored) /\ tracker.predictions = c.tracker.predictions
  BY <1>20, <1>22 DEF Metrics, Then
<1>27. all = IF m \in LearningModels THEN Then(c.learned, learned) ELSE c.learned
  BY <1>21 DEF Then
<1>28. p.c.learned = IF m \in LearningModels THEN Then(c.learned, InQueueOrder(Told(batch, "yes"))) ELSE c.learned
  BY <1>10, <1>12, <1>25, <1>27
<1>29. p.c.tracker.scored
         = Then(c.tracker.scored, InQueueOrder({e \in Told(batch, "yes") : p.r.rows[e].status = "predicted"}))
  BY <1>11, <1>15, <1>19, <1>25, <1>26
<1>30. p.c.needsCheckpoint = (c.needsCheckpoint \/ batch # {})
  BY <1>23, <1>25
<1>31. Resolves(m, r, c, p, batch)
  BY <1>14, <1>15, <1>16, <1>17, <1>18, <1>25, <1>26, <1>28, <1>29, <1>30 DEF Resolves
<1>. QED
  BY <1>31

(* advance_model_checkpoint leaves what the snapshot remembers. *)
LEMMA AdvanceKeepsBase ==
  ASSUME NEW r \in Registrations, One(r.snapshot), NEW place \in Nat,
         NEW q, q = AdvanceModelCheckpoint(r, place)
  PROVE  /\ Behind(r) => q = r
         /\ BaseOf(q).learned = BaseOf(r).learned
<1>1. CASE Behind(r)
  BY <1>1 DEF AdvanceModelCheckpoint
<1>2. CASE ~Behind(r) /\ r.snapshot = {}
  <2>1. PICK s : s = [artifact |-> r.artifact, learned |-> <<>>, checkpoint |-> place]
    OBVIOUS
  <2>2. q = [r EXCEPT !.snapshot = {s}]
    BY <1>2, <2>1 DEF AdvanceModelCheckpoint
  <2>3. q.snapshot = {s} /\ s.learned = <<>>
    BY <2>1, <2>2 DEF Registrations
  <2>4. BaseOf(q) = s
    BY <2>3 DEF BaseOf
  <2>. QED
    BY <1>2, <2>3, <2>4, BaseIs
<1>3. CASE ~Behind(r) /\ r.snapshot # {}
  <2>1. PICK old \in r.snapshot : r.snapshot = {old}
    BY <1>3 DEF One
  <2>2. old \in Snapshots
    BY <2>1 DEF Registrations
  <2>3. PICK s : s = [old EXCEPT !.checkpoint = Max({@, place})]
    OBVIOUS
  <2>4. s.learned = old.learned
    BY <2>2, <2>3 DEF Snapshots
  <2>5. {[t EXCEPT !.checkpoint = Max({@, place})] : t \in r.snapshot} = {s}
    BY <2>1, <2>3
  <2>6. q = [r EXCEPT !.snapshot = {s}]
    BY <1>3, <2>5 DEF AdvanceModelCheckpoint
  <2>7. q.snapshot = {s}
    BY <2>6 DEF Registrations
  <2>8. BaseOf(q) = s
    BY <2>7 DEF BaseOf
  <2>. QED
    BY <1>3, <2>1, <2>4, <2>8, BaseIs
<1>. QED
  BY <1>1, <1>2, <1>3

(* record_disabled_work: rows are marked as skipped, and nothing is learned. *)
LEMMA SkipMoves ==
  ASSUME QueueOK, NEW r, RegOK(r), Untouched(r), NEW q, q = RecordDisabledWork(r)
  PROVE  \E batch :
           /\ Moves(r, q, batch, "skipped")
           /\ \A e \in DOMAIN q.rows :
                q.rows[e].status = "predicted" => e \in DOMAIN r.rows /\ r.rows[e].status = "predicted"
           /\ BaseOf(q).learned = BaseOf(r).learned
           /\ q.snapshot = r.snapshot \/ ~Behind(r)
<1>1. PICK events : events = EventsAfterCursor(r)
  OBVIOUS
<1>2. PICK labels : labels = ReadyAfterCursor(r)
  OBVIOUS
<1>3. PICK seen : seen = CursorAfter(r.predictionCursor, events, Itself)
  OBVIOUS
<1>4. PICK last : last = CursorAfter(r.labelCursor, labels, ready)
  OBVIOUS
<1>5. events \in SUBSET stored /\ seen \in Nat
  BY <1>1, <1>3, EventsQuery
<1>6. /\ labels \in SUBSET DOMAIN ready /\ r.labelCursor \in Nat /\ last \in Nat
      /\ IF labels = {} THEN last = r.labelCursor ELSE r.labelCursor < last
      /\ \A e \in labels : e >= r.start /\ ready[e] > r.labelCursor /\ ready[e] <= last
  BY <1>2, <1>4, LabelsAdvance
<1>7. /\ r \in Registrations /\ r.rows \in RowMaps /\ DOMAIN r.rows \subseteq stored
      /\ One(r.snapshot) /\ Checkpoint(r) <= r.labelCursor
  BY DEF RegOK, Registrations
<1>8. PICK more : more = AddRows(r.rows, {}, events)
  OBVIOUS
<1>9. /\ DOMAIN more = DOMAIN r.rows \cup events
      /\ \A e \in DOMAIN r.rows : more[e] = r.rows[e]
      /\ \A e \in DOMAIN more \ DOMAIN r.rows :
           more[e] = [status |-> "skipped", evaluated |-> FALSE, trained |-> "no"]
  BY <1>8 DEF AddRows, NewRow
<1>10. more \in RowMaps /\ \A e \in DOMAIN more : more[e] \in Rows
  <2>1. events \in SUBSET Events /\ {} \in SUBSET Events
    BY <1>5, StoreIsFinite
  <2>2. more \in RowMaps
    BY <1>7, <1>8, <2>1, AddingRows
  <2>. QED
    BY <2>2, RowMapsAre
<1>11. PICK all : all = Settle(more, labels, "skipped")
  OBVIOUS
<1>12. /\ \A e : e \in DOMAIN all <=> e \in DOMAIN more \/ e \in labels
       /\ \A e \in DOMAIN more \ labels : all[e] = more[e]
       /\ \A e \in labels : /\ all[e].status = IF e \in DOMAIN more THEN more[e].status ELSE "skipped"
                            /\ all[e].trained = IF e \in DOMAIN more /\ more[e].trained # "no"
                                                THEN more[e].trained ELSE "skipped"
  BY <1>10, <1>11, SettledRows
<1>13. all \in RowMaps
  <2>1. labels \in SUBSET Events
    BY <1>6, StoreIsFinite DEF QueueOK
  <2>. QED
    BY <1>10, <1>11, <2>1, SettlingRows
<1>14. PICK skipped : skipped = [r EXCEPT !.rows = all, !.predictionCursor = seen]
  OBVIOUS
<1>15. /\ skipped \in Registrations /\ skipped.rows = all
       /\ skipped.artifact = r.artifact /\ skipped.start = r.start /\ skipped.labelCursor = r.labelCursor
       /\ skipped.snapshot = r.snapshot /\ skipped.metric = r.metric
  BY <1>5, <1>7, <1>13, <1>14 DEF Registrations
<1>16. PICK advanced : advanced = AdvanceModelCheckpoint(skipped, last)
  OBVIOUS
<1>17. q = IF labels = {} THEN skipped ELSE [advanced EXCEPT !.labelCursor = last]
  BY <1>1, <1>2, <1>3, <1>4, <1>8, <1>11, <1>14, <1>16, Zenon DEF RecordDisabledWork
<1>18. /\ BaseOf(skipped).learned = BaseOf(r).learned
       /\ Behind(skipped) <=> Behind(r)
  <2>1. Checkpoint(skipped) = Checkpoint(r)
    BY <1>15, SameCheckpoint
  <2>2. CASE r.snapshot = {}
    BY <1>7, <1>15, <2>1, <2>2, BaseIs DEF Behind
  <2>3. CASE \E s \in r.snapshot : r.snapshot = {s}
    BY <1>7, <1>15, <2>1, <2>3, BaseIs DEF Behind
  <2>. QED
    BY <1>7, <2>2, <2>3 DEF One
<1>19. /\ q.rows = all /\ q.artifact = r.artifact /\ q.start = r.start /\ q.labelCursor = last
       /\ q.metric = r.metric
       /\ BaseOf(q).learned = BaseOf(r).learned
       /\ q.snapshot = r.snapshot \/ ~Behind(r)
  <2>1. CASE labels = {}
    BY <1>6, <1>15, <1>17, <1>18, <2>1
  <2>2. CASE labels # {}
    <3>1. Checkpoint(skipped) <= skipped.labelCursor /\ skipped.labelCursor <= last /\ One(skipped.snapshot)
      BY <1>6, <1>7, <1>15, <2>2, SameCheckpoint
    <3>2. /\ advanced \in Registrations /\ advanced.artifact = r.artifact /\ advanced.start = r.start
          /\ advanced.rows = all /\ advanced.metric = r.metric
      BY <1>6, <1>15, <1>16, <3>1, CheckpointAdvances
    <3>3. /\ Behind(skipped) => advanced = skipped
          /\ BaseOf(advanced).learned = BaseOf(skipped).learned
      BY <1>6, <1>15, <1>16, <3>1, AdvanceKeepsBase
    <3>4. q = [advanced EXCEPT !.labelCursor = last]
      BY <1>17, <2>2
    <3>5. /\ q \in Registrations /\ q.artifact = r.artifact /\ q.start = r.start /\ q.labelCursor = last
          /\ q.rows = all /\ q.metric = r.metric /\ q.snapshot = advanced.snapshot
      BY <1>6, <3>2, <3>4 DEF Registrations
    <3>6. BaseOf(q).learned = BaseOf(advanced).learned
      <4>1. CASE q.snapshot = {}
        BY <3>2, <3>5, <4>1, BaseIs
      <4>2. CASE q.snapshot # {}
        BY <3>5, <4>2 DEF BaseOf
      <4>. QED
        BY <4>1, <4>2
    <3>. QED
      BY <1>15, <1>18, <3>3, <3>5, <3>6
  <2>. QED
    BY <2>1, <2>2
<1>20. \A e \in labels : e \in DOMAIN r.rows => r.rows[e].trained = "no"
  BY <1>6, BatchUntouched
<1>21. Moves(r, q, labels, "skipped")
  <2>1. DOMAIN all \subseteq stored
    BY <1>5, <1>6, <1>7, <1>9, <1>12 DEF QueueOK
  <2>2. \A e \in labels : all[e].trained = "skipped"
    BY <1>9, <1>12, <1>20
  <2>3. DOMAIN r.rows \cup labels \subseteq DOMAIN all /\ \A e \in DOMAIN r.rows \ labels : all[e] = r.rows[e]
    BY <1>9, <1>12
  <2>4. \A e \in DOMAIN all \ (DOMAIN r.rows \cup labels) : all[e].trained = "no" /\ ~all[e].evaluated
    BY <1>9, <1>12
  <2>. QED
    BY <1>6, <1>19, <2>1, <2>2, <2>3, <2>4 DEF Moves
<1>22. \A e \in DOMAIN all : all[e].status = "predicted" => e \in DOMAIN r.rows /\ r.rows[e].status = "predicted"
  BY <1>9, <1>12
<1> WITNESS labels
<1>. QED
  BY <1>19, <1>21, <1>22

(* Skipping leaves what a restart rebuilds. *)
LEMMA SkippingKeepsLearned ==
  ASSUME QueueOK, NEW m, NEW r, RegOK(r), Untouched(r), NEW q, RegOK(q), NEW batch, Moves(r, q, batch, "skipped"),
         BaseOf(q).learned = BaseOf(r).learned, q.snapshot = r.snapshot \/ ~Behind(r),
         Checkpoint(r) <= Checkpoint(q)
  PROVE  LearnedOf(m, q) = LearnedOf(m, r)
<1>1. /\ r \in Registrations /\ q \in Registrations /\ Checkpoint(r) \in Nat /\ Checkpoint(q) \in Nat
      /\ r.labelCursor \in Nat
  BY CheckpointIs DEF RegOK, Registrations
<1>2. Told(batch, "skipped") = {}
  BY DEF Told
<1>3. CASE q.snapshot = r.snapshot
  <2>1. LearnedOf(m, q) = IF m \in LearningModels THEN Then(LearnedOf(m, r), InQueueOrder(Told(batch, "skipped")))
                          ELSE LearnedOf(m, r)
    BY <1>1, <1>3, LearnedMoves
  <2>2. LearnedOf(m, r) \in Seq(Labels)
    BY <1>1, LearnedIs
  <2>. QED
    BY <1>2, <2>1, <2>2, ThenNothing
<1>4. CASE ~Behind(r)
  <2>1. \A e \in DOMAIN ready : ready[e] \in Nat
    BY DEF QueueOK
  <2>2. ~(r.labelCursor > Checkpoint(r))
    BY <1>4 DEF Behind
  <2>3. \A e \in DOMAIN r.rows \cap DOMAIN ready :
          r.rows[e].trained = "yes" /\ e >= r.start => ~(ready[e] > Checkpoint(q))
    <3> SUFFICES ASSUME NEW e \in DOMAIN r.rows \cap DOMAIN ready, r.rows[e].trained = "yes", e >= r.start
                 PROVE  ~(ready[e] > Checkpoint(q))
      OBVIOUS
    <3>1. ready[e] <= r.labelCursor
      BY DEF Untouched
    <3>. QED
      BY <1>1, <2>1, <2>2, <3>1
  <2>4. TrainedSinceCheckpoint(r) = {}
    <3>1. \A e \in DOMAIN r.rows \cap DOMAIN ready :
            r.rows[e].trained = "yes" /\ e >= r.start => ~(ready[e] > Checkpoint(r))
      BY <1>1, <2>1, <2>2 DEF Untouched
    <3>. QED
      BY <3>1 DEF TrainedSinceCheckpoint
  <2>5. TrainedSinceCheckpoint(q) = {}
    <3>1. \A e \in DOMAIN q.rows : q.rows[e].trained = "yes" => e \in DOMAIN r.rows /\ q.rows[e] = r.rows[e]
      BY DEF Moves
    <3>2. q.start = r.start
      BY DEF Moves
    <3>. QED
      BY <2>3, <3>1, <3>2 DEF TrainedSinceCheckpoint
  <2>. QED
    BY <2>4, <2>5, LearnedIs
<1>. QED
  BY <1>3, <1>4

(* Rows that were predicted before are all there are: the metric state may stay. *)
LEMMA MetricStays ==
  ASSUME NEW r, NEW q, q.metric = r.metric, MetricKept(r),
         \A e \in DOMAIN q.rows :
           q.rows[e].status = "predicted" => e \in DOMAIN r.rows /\ r.rows[e].status = "predicted"
  PROVE  MetricKept(q)
BY DEF MetricKept

(* A metric state that is not stored is that of no predictions. *)
LEMMA NoMetric ==
  ASSUME NEW r, MetricKept(r), r.metric = {}
  PROVE  TrackerOf(r) = [scored |-> <<>>, predictions |-> 0]
<1>1. {e \in DOMAIN r.rows : r.rows[e].status = "predicted"} = {}
  BY DEF MetricKept
<1>. QED
  BY <1>1, FS_EmptySet DEF TrackerOf

LEMMA SameTracker ==
  ASSUME NEW r, NEW q, q.metric = r.metric, MetricKept(r), MetricKept(q)
  PROVE  TrackerOf(q) = TrackerOf(r)
<1>1. CASE r.metric = {}
  BY <1>1, NoMetric
<1>2. CASE r.metric # {}
  BY <1>2 DEF TrackerOf
<1>. QED
  BY <1>1, <1>2

(* record_disabled_work: a paused model forgets nothing. *)
LEMMA SkippingRemembers ==
  ASSUME QueueOK, NEW m, NEW r, RegOK(r), SkipsNothing(r), Remembers(m, r), NEW q, q = RecordDisabledWork(r)
  PROVE  Remembers(m, q) /\ LearnedOf(m, q) = LearnedOf(m, r) /\ q.artifact = r.artifact
<1>1. Untouched(r) /\ MetricKept(r) /\ Tells(m, r, LearnedOf(m, r), TrackerOf(r).scored)
  BY DEF Remembers
<1>2. PICK batch :
        /\ Moves(r, q, batch, "skipped")
        /\ \A e \in DOMAIN q.rows :
             q.rows[e].status = "predicted" => e \in DOMAIN r.rows /\ r.rows[e].status = "predicted"
        /\ BaseOf(q).learned = BaseOf(r).learned
        /\ q.snapshot = r.snapshot \/ ~Behind(r)
  BY <1>1, SkipMoves
<1>3. RegOK(q) /\ Checkpoint(r) <= Checkpoint(q)
  BY SkippingGoesOn DEF GoesOn
<1>4. LearnedOf(m, q) = LearnedOf(m, r)
  BY <1>1, <1>2, <1>3, SkippingKeepsLearned
<1>5. Untouched(q)
  BY <1>1, <1>2, MovesUntouched
<1>6. q.metric = r.metric /\ q.artifact = r.artifact
  BY <1>2 DEF Moves
<1>7. MetricKept(q)
  BY <1>1, <1>2, <1>6, MetricStays
<1>8. TrackerOf(q) = TrackerOf(r)
  BY <1>1, <1>6, <1>7, SameTracker
<1>9. Told(batch, "skipped") = {}
  BY DEF Told
<1>10. Tells(m, q, LearnedOf(m, r), TrackerOf(r).scored)
  BY <1>1, <1>2, <1>9, MovesToldNothing
<1>. QED
  BY <1>4, <1>5, <1>6, <1>7, <1>8, <1>10 DEF Remembers
-----------------------------------------------------------------------------
(* A cycle of a model that runs                                             *)

(* A sequence is a prefix of what is appended to it. *)
LEMMA ThenExtends ==
  /\ \A a \in Seq(Labels) : IsPrefix(a, a)
  /\ \A a, b \in Seq(Labels) : IsPrefix(a, Then(a, b))
<1>1. ASSUME NEW a \in Seq(Labels) PROVE IsPrefix(a, a)
  BY DEF IsPrefix
<1>2. ASSUME NEW a \in Seq(Labels), NEW b \in Seq(Labels) PROVE IsPrefix(a, Then(a, b))
  <2>1. PICK t : t = a \o b
    OBVIOUS
  <2>2. Len(a) \in Nat /\ Len(b) \in Nat /\ Len(t) = Len(a) + Len(b)
    BY <2>1, ConcatProperties
  <2>3. SubSeq(t, 1, Len(a)) = SubSeq(a, 1, Len(a))
    <3>1. CASE Len(a) = 0
      <4>1. a = <<>> /\ t = b
        BY <2>1, <3>1, EmptySeq, ConcatEmptySeq
      <4>2. b \in Seq(Labels) /\ a \in Seq(Labels)
        OBVIOUS
      <4>. QED
        BY <4>1, <4>2, <3>1, SubSeqProperties, EmptySeq
    <3>2. CASE Len(a) # 0
      <4>1. 1 \in 1..Len(a) /\ Len(a) \in 1..Len(a)
        BY <2>2, <3>2
      <4>. QED
        BY <2>1, <4>1, SubSeqOfConcat1
    <3>. QED
      BY <3>1, <3>2
  <2>4. IsPrefix(a, t)
    BY <2>2, <2>3 DEF IsPrefix
  <2>. QED
    BY <2>1, <2>4 DEF Then
<1>. QED
  BY <1>1, <1>2

(* Prefixes add up. *)
LEMMA PrefixesAdd ==
  \A a, b, c \in Seq(Labels) : IsPrefix(a, b) /\ IsPrefix(b, c) => IsPrefix(a, c)
<1> SUFFICES ASSUME NEW a \in Seq(Labels), NEW b \in Seq(Labels), NEW c \in Seq(Labels), IsPrefix(a, b), IsPrefix(b, c)
             PROVE  IsPrefix(a, c)
  OBVIOUS
<1>1. Len(a) \in Nat /\ Len(b) \in Nat /\ Len(c) \in Nat /\ Len(a) <= Len(b) /\ Len(b) <= Len(c)
  BY DEF IsPrefix
<1>2. ASSUME NEW i \in 1..Len(a) PROVE c[i] = a[i]
  <2>1. i \in 1..Len(b)
    BY <1>1
  <2>2. SubSeq(a, 1, Len(a))[i] = a[i] /\ SubSeq(b, 1, Len(a))[i] = b[i]
    BY <1>1
  <2>3. SubSeq(b, 1, Len(b))[i] = b[i] /\ SubSeq(c, 1, Len(b))[i] = c[i]
    BY <1>1, <2>1
  <2>. QED
    BY <2>2, <2>3 DEF IsPrefix
<1>3. SubSeq(a, 1, Len(a)) = SubSeq(c, 1, Len(a))
  <2>1. \A i \in 1..Len(a) : SubSeq(a, 1, Len(a))[i] = a[i] /\ SubSeq(c, 1, Len(a))[i] = c[i]
    BY <1>1
  <2>2. SubSeq(a, 1, Len(a)) \in Seq(Labels) /\ Len(SubSeq(a, 1, Len(a))) = Len(a)
    BY <1>1
  <2>3. SubSeq(c, 1, Len(a)) \in Seq(Labels) /\ Len(SubSeq(c, 1, Len(a))) = Len(a)
    BY <1>1
  <2>. QED
    BY <1>2, <2>1, <2>2, <2>3, SeqEqual
<1>. QED
  BY <1>1, <1>3 DEF IsPrefix

(* A resident model fits its rows, whether or not its scores are stored. *)
Carries(m, r, c) ==
  /\ c.fingerprint = r.artifact /\ c.artifact = BaseOf(r).artifact
  /\ c.learned = LearnedOf(m, r) /\ c.needsCheckpoint = Behind(r)
  /\ Untouched(r) /\ Tells(m, r, c.learned, c.tracker.scored)

(* With the scores stored, a restart rebuilds it. *)
LEMMA CarriedIsLoaded ==
  ASSUME QueueOK, NEW m, NEW r, RegOK(r), NEW c \in Residents,
         Carries(m, r, c), MetricKept(r), c.tracker = TrackerOf(r)
  PROVE  c = LoadOf(m, r) /\ Remembers(m, r)
<1>1. PICK d : d = LoadOf(m, r)
  OBVIOUS
<1>2. d \in Residents
  BY <1>1, LoadIsResident
<1>3. /\ d.fingerprint = r.artifact /\ d.artifact = BaseOf(r).artifact /\ d.learned = LearnedOf(m, r)
      /\ d.tracker = TrackerOf(r) /\ d.needsCheckpoint = Behind(r)
  BY <1>1 DEF LoadOf
<1>4. c = d
  BY <1>2, <1>3 DEF Carries, Residents
<1>5. Remembers(m, r)
  BY DEF Remembers, Carries
<1>. QED
  BY <1>1, <1>4, <1>5

(* The base is that of the snapshot. *)
LEMMA SameBase ==
  ASSUME NEW r \in Registrations, NEW q \in Registrations, One(r.snapshot),
         q.snapshot = r.snapshot, q.artifact = r.artifact
  PROVE  BaseOf(q).artifact = BaseOf(r).artifact /\ BaseOf(q).learned = BaseOf(r).learned
<1>1. CASE r.snapshot = {}
  BY <1>1, BaseIs
<1>2. CASE \E s \in r.snapshot : r.snapshot = {s}
  BY <1>2, BaseIs
<1>. QED
  BY <1>1, <1>2 DEF One

(* The model in memory follows the rows. *)
Follows(m, q, c, d, batch, mark) ==
  /\ d.fingerprint = c.fingerprint /\ d.artifact = c.artifact
  /\ d.learned = IF m \in LearningModels THEN Then(c.learned, InQueueOrder(Told(batch, mark))) ELSE c.learned
  /\ d.tracker.scored
       = Then(c.tracker.scored, InQueueOrder({e \in Told(batch, mark) : q.rows[e].status = "predicted"}))
  /\ d.needsCheckpoint = (c.needsCheckpoint \/ batch # {})

LEMMA MovesCarry ==
  ASSUME QueueOK, NEW m, NEW r, RegOK(r), SkipsNothing(r), NEW c \in Residents, Carries(m, r, c),
         NEW q, RegOK(q), NEW batch, NEW mark \in {"yes", "skipped"}, Moves(r, q, batch, mark),
         q.snapshot = r.snapshot, NEW d \in Residents, Follows(m, q, c, d, batch, mark)
  PROVE  Carries(m, q, d) /\ IsPrefix(LearnedOf(m, r), LearnedOf(m, q))
<1>1. r \in Registrations /\ q \in Registrations /\ One(r.snapshot) /\ q.artifact = r.artifact
  BY DEF RegOK, Moves
<1>2. BaseOf(q).artifact = BaseOf(r).artifact
  BY <1>1, SameBase
<1>3. LearnedOf(m, q) = IF m \in LearningModels THEN Then(LearnedOf(m, r), InQueueOrder(Told(batch, mark)))
                        ELSE LearnedOf(m, r)
  BY <1>1, LearnedMoves DEF Carries
<1>4. IsPrefix(LearnedOf(m, r), LearnedOf(m, q))
  <2>1. PICK told : told = InQueueOrder(Told(batch, mark))
    OBVIOUS
  <2>2. told \in Seq(Labels)
    <3>1. Told(batch, mark) \in SUBSET DOMAIN ready
      BY DEF Told, Moves
    <3>. QED
      BY <2>1, <3>1, QueueOrderType
  <2>3. LearnedOf(m, r) \in Seq(Labels)
    BY <1>1, LearnedIs
  <2>. QED
    BY <1>3, <2>1, <2>2, <2>3, ThenExtends
<1>5. Untouched(q)
  BY MovesUntouched DEF Carries
<1>6. Tells(m, q, d.learned, d.tracker.scored)
  <2>1. PICK learned : learned = c.learned
    OBVIOUS
  <2>2. PICK scored : scored = c.tracker.scored
    OBVIOUS
  <2>3. PICK evaluated : evaluated = {e \in Told(batch, mark) : q.rows[e].status = "predicted"}
    OBVIOUS
  <2>4. PICK more : more = IF m \in LearningModels THEN Then(learned, InQueueOrder(Told(batch, mark))) ELSE learned
    OBVIOUS
  <2>5. PICK scores : scores = Then(scored, InQueueOrder(evaluated))
    OBVIOUS
  <2>6. Tells(m, r, learned, scored)
    BY <2>1, <2>2 DEF Carries
  <2>7. Tells(m, q, more, scores)
    BY <2>3, <2>4, <2>5, <2>6, MovesTell
  <2>8. more = d.learned /\ scores = d.tracker.scored
    BY <2>1, <2>2, <2>3, <2>4, <2>5 DEF Follows
  <2>. QED
    BY <2>7, <2>8
<1>7. d.needsCheckpoint = Behind(q)
  <2>1. /\ Checkpoint(q) = Checkpoint(r) /\ Checkpoint(r) \in Nat /\ Checkpoint(r) <= r.labelCursor
        /\ r.labelCursor \in Nat /\ q.labelCursor \in Nat
    BY <1>1, SameCheckpoint, CheckpointIs DEF RegOK, Registrations
  <2>2. CASE batch = {}
    <3>1. q.labelCursor = r.labelCursor
      BY <2>2 DEF Moves
    <3>2. Behind(q) = Behind(r)
      BY <2>1, <3>1 DEF Behind
    <3>3. d.needsCheckpoint = (c.needsCheckpoint \/ FALSE) /\ c.needsCheckpoint \in BOOLEAN
      BY <2>2 DEF Follows, Residents
    <3>. QED
      BY <3>2, <3>3 DEF Carries
  <2>3. CASE batch # {}
    <3>1. r.labelCursor < q.labelCursor
      BY <2>3 DEF Moves
    <3>2. q.labelCursor > Checkpoint(q)
      BY <2>1, <3>1
    <3>3. Behind(q) \in BOOLEAN /\ Behind(q)
      BY <1>1, <3>2, BehindIs DEF Behind, RegOK
    <3>4. d.needsCheckpoint = TRUE
      BY <2>3 DEF Follows, Residents
    <3>. QED
      BY <3>3, <3>4
  <2>. QED
    BY <2>2, <2>3
<1>. QED
  BY <1>1, <1>2, <1>3, <1>4, <1>5, <1>6, <1>7 DEF Carries, Follows

(* _predict_pending *)
LEMMA PredictCarries ==
  ASSUME QueueOK, NEW m, NEW r, RegOK(r), SkipsNothing(r), NEW c \in Residents, Carries(m, r, c),
         NEW p, p = PredictPending(r, c)
  PROVE  Carries(m, p.r, p.c) /\ IsPrefix(LearnedOf(m, r), LearnedOf(m, p.r))
<1>1. RegOK(p.r) /\ p.c \in Residents
  BY PredictingGoesOn
<1>2. /\ Moves(r, p.r, {}, "skipped") /\ p.r.snapshot = r.snapshot
      /\ p.c.fingerprint = c.fingerprint /\ p.c.artifact = c.artifact /\ p.c.learned = c.learned
      /\ p.c.needsCheckpoint = c.needsCheckpoint /\ p.c.tracker.scored = c.tracker.scored
  BY PredictMoves
<1>3. Told({}, "skipped") = {} /\ {e \in Told({}, "skipped") : p.r.rows[e].status = "predicted"} = {}
  BY DEF Told
<1>4. c.learned \in Seq(Labels) /\ c.tracker.scored \in Seq(Labels) /\ c.needsCheckpoint \in BOOLEAN
  BY DEF Residents, Metrics
<1>5. c.needsCheckpoint = (c.needsCheckpoint \/ {} # {})
  BY <1>4
<1>6. Then(c.learned, InQueueOrder({})) = c.learned /\ Then(c.tracker.scored, InQueueOrder({})) = c.tracker.scored
  BY <1>4, ThenNothing
<1>7. Follows(m, p.r, c, p.c, {}, "skipped")
  BY <1>2, <1>3, <1>5, <1>6 DEF Follows
<1>8. PICK q : q = p.r
  OBVIOUS
<1>9. PICK d : d = p.c
  OBVIOUS
<1>. QED
  BY <1>1, <1>2, <1>7, <1>8, <1>9, MovesCarry

(* _process_resolutions *)
LEMMA ResolveCarries ==
  ASSUME QueueOK, NEW m, NEW r, RegOK(r), SkipsNothing(r), NEW c \in Residents, Carries(m, r, c),
         NEW p, p = ProcessResolutions(m, r, c)
  PROVE  /\ Carries(m, p.r, p.c) /\ IsPrefix(LearnedOf(m, r), LearnedOf(m, p.r))
         /\ p.r.metric = r.metric /\ p.count \in Nat
         /\ \A e \in DOMAIN p.r.rows :
              p.r.rows[e].status = "predicted" => e \in DOMAIN r.rows /\ r.rows[e].status = "predicted"
         /\ p.count = 0 => p.c.tracker = c.tracker
<1>1. RegOK(p.r) /\ p.c \in Residents
  BY ResolvingGoesOn
<1>0. Untouched(r)
  BY DEF Carries
<1>2. PICK batch : Resolves(m, r, c, p, batch)
  BY <1>0, ResolveMoves
<1>3. Follows(m, p.r, c, p.c, batch, "yes")
  BY <1>2 DEF Follows, Resolves
<1>4. PICK q : q = p.r
  OBVIOUS
<1>5. PICK d : d = p.c
  OBVIOUS
<1>6. Carries(m, q, d) /\ IsPrefix(LearnedOf(m, r), LearnedOf(m, q))
  BY <1>1, <1>2, <1>3, <1>4, <1>5, MovesCarry DEF Resolves
<1>7. p.r.metric = r.metric
  BY <1>2 DEF Moves, Resolves
<1>8. p.count \in Nat
  BY <1>2, FS_CardinalityType DEF Resolves
<1>9. ASSUME p.count = 0 PROVE p.c.tracker = c.tracker
  <2>1. batch = {}
    BY <1>2, <1>9, FS_EmptySet DEF Resolves
  <2>2. {e \in Told(batch, "yes") : p.r.rows[e].status = "predicted"} = {}
    BY <2>1 DEF Told
  <2>3. c.tracker \in Metrics /\ p.c.tracker \in Metrics
    BY <1>1 DEF Residents
  <2>4. c.tracker.scored \in Seq(Labels)
    BY <2>3 DEF Metrics
  <2>5. p.c.tracker.scored = c.tracker.scored
    BY <1>2, <2>2, <2>4, ThenNothing DEF Resolves
  <2>. QED
    BY <1>2, <2>3, <2>5 DEF Metrics, Resolves
<1>. QED
  BY <1>2, <1>4, <1>5, <1>6, <1>7, <1>8, <1>9 DEF Resolves

(* The scores are stored if anything was predicted or scored. *)
LEMMA ScoresAreStored ==
  ASSUME QueueOK, NEW m, NEW r, RegOK(r), NEW c \in Residents, Carries(m, r, c),
         NEW q, RegOK(q), q = [r EXCEPT !.metric = {c.tracker}]
  PROVE  Carries(m, q, c) /\ MetricKept(q) /\ c.tracker = TrackerOf(q) /\ LearnedOf(m, q) = LearnedOf(m, r)
<1>1. r \in Registrations /\ q \in Registrations
  BY DEF RegOK
<1>2. /\ q.artifact = r.artifact /\ q.start = r.start /\ q.labelCursor = r.labelCursor /\ q.rows = r.rows
      /\ q.snapshot = r.snapshot /\ q.metric = {c.tracker}
  BY <1>1 DEF Registrations
<1>3. TrackerOf(q) = c.tracker
  BY <1>2 DEF TrackerOf
<1>4. MetricKept(q)
  BY <1>2 DEF MetricKept
<1>5. Checkpoint(q) = Checkpoint(r) /\ BaseOf(q).artifact = BaseOf(r).artifact /\ BaseOf(q).learned = BaseOf(r).learned
  BY <1>1, <1>2, SameCheckpoint, SameBase DEF RegOK
<1>6. TrainedSinceCheckpoint(q) = TrainedSinceCheckpoint(r) /\ Behind(q) = Behind(r)
  BY <1>2, <1>5 DEF TrainedSinceCheckpoint, Behind
<1>7. LearnedOf(m, q) = LearnedOf(m, r)
  BY <1>5, <1>6, LearnedIs
<1>8. Untouched(q) /\ Tells(m, q, c.learned, c.tracker.scored)
  BY <1>2 DEF Carries, Untouched, Tells, Placed
<1>. QED
  BY <1>2, <1>3, <1>4, <1>5, <1>6, <1>7, <1>8 DEF Carries

Pickled(c) == [c EXCEPT !.needsCheckpoint = FALSE]

(* _checkpoint: the model in memory becomes the base, and nothing has to be replayed. *)
LEMMA PickleCarries ==
  ASSUME QueueOK, NEW m, NEW r, RegOK(r), NEW c \in Residents, Carries(m, r, c),
         MetricKept(r), c.tracker = TrackerOf(r),
         NEW q, RegOK(q), q = SavePickleSnapshot(r, c), NEW d, d = Pickled(c)
  PROVE  Carries(m, q, d) /\ MetricKept(q) /\ d.tracker = TrackerOf(q) /\ LearnedOf(m, q) = LearnedOf(m, r)
         /\ q.artifact = r.artifact /\ d \in Residents
<1>1. r \in Registrations /\ q \in Registrations /\ r.labelCursor \in Nat
  BY DEF RegOK, Registrations
<1>2. /\ d \in Residents /\ d.fingerprint = c.fingerprint /\ d.artifact = c.artifact /\ d.learned = c.learned
      /\ d.tracker = c.tracker /\ d.needsCheckpoint = FALSE
  BY DEF Residents, Pickled
<1>3. PICK s : s = [artifact |-> c.artifact, learned |-> c.learned, checkpoint |-> r.labelCursor]
  OBVIOUS
<1>4. q = [r EXCEPT !.snapshot = {s}]
  BY <1>3 DEF SavePickleSnapshot
<1>5. /\ q.artifact = r.artifact /\ q.start = r.start /\ q.labelCursor = r.labelCursor /\ q.rows = r.rows
      /\ q.snapshot = {s} /\ q.metric = r.metric
  BY <1>1, <1>4 DEF Registrations
<1>6. Checkpoint(q) = r.labelCursor /\ BaseOf(q) = s /\ s.artifact = c.artifact /\ s.learned = c.learned
  <2>1. One(q.snapshot) /\ s.checkpoint = r.labelCursor /\ s.artifact = c.artifact /\ s.learned = c.learned
    BY <1>3 DEF RegOK
  <2>2. Checkpoint(q) = s.checkpoint
    BY <1>1, <1>5, <2>1, CheckpointIs
  <2>3. BaseOf(q) = s
    BY <1>1, <1>5, BaseIs
  <2>. QED
    BY <2>1, <2>2, <2>3
<1>7. TrainedSinceCheckpoint(q) = {}
  <2>1. \A e \in DOMAIN r.rows \cap DOMAIN ready : ready[e] \in Nat
    BY DEF QueueOK
  <2>2. \A e \in DOMAIN r.rows \cap DOMAIN ready : r.rows[e].trained = "yes" /\ e >= r.start => ~(ready[e] > r.labelCursor)
    BY <1>1, <2>1 DEF Carries, Untouched
  <2>. QED
    BY <1>5, <1>6, <2>2 DEF TrainedSinceCheckpoint
<1>8. LearnedOf(m, q) = c.learned
  <2>1. c.learned \in Seq(Labels)
    BY DEF Residents
  <2>2. Then(c.learned, InQueueOrder({})) = c.learned
    BY <2>1, ThenNothing
  <2>. QED
    BY <1>6, <1>7, <2>2, LearnedIs
<1>9. Behind(q) = FALSE
  <2>1. ~(q.labelCursor > Checkpoint(q))
    BY <1>1, <1>5, <1>6
  <2>2. Behind(q) \in BOOLEAN
    BY <1>1, BehindIs DEF RegOK
  <2>. QED
    BY <2>1, <2>2 DEF Behind
<1>10. Untouched(q) /\ Tells(m, q, c.learned, c.tracker.scored) /\ MetricKept(q)
  <2>1. Untouched(q)
    BY <1>5 DEF Carries, Untouched
  <2>2. Tells(m, r, c.learned, c.tracker.scored)
    BY DEF Carries
  <2>3. Tells(m, q, c.learned, c.tracker.scored)
    BY <1>5, <2>2 DEF Tells, Placed
  <2>4. MetricKept(q)
    BY <1>5 DEF MetricKept
  <2>. QED
    BY <2>1, <2>3, <2>4
<1>11. TrackerOf(q) = TrackerOf(r)
  BY <1>5, <1>10, SameTracker
<1>. QED
  BY <1>2, <1>5, <1>6, <1>8, <1>9, <1>10, <1>11 DEF Carries

(* _learn_model: the resident model is what a restart would rebuild, and remembers more. *)
LEMMA LearningRemembers ==
  ASSUME QueueOK, NEW m, NEW r, RegOK(r), SkipsNothing(r), Remembers(m, r),
         NEW c, c = LoadOf(m, r), NEW due, NEW out, out = LearnModel(m, r, c, due)
  PROVE  /\ Remembers(m, out.r) /\ out.c = {LoadOf(m, out.r)} /\ out.r.artifact = r.artifact
         /\ IsPrefix(LearnedOf(m, r), LearnedOf(m, out.r))
<1>0. c \in Residents
  BY LoadIsResident
<1>1. Carries(m, r, c) /\ MetricKept(r) /\ c.tracker = TrackerOf(r)
  BY DEF Remembers, Carries, LoadOf
<1>2. PICK p : p = PredictPending(r, c)
  OBVIOUS
<1>3. RegOK(p.r) /\ SkipsNothing(p.r) /\ p.c \in Residents /\ p.count \in Nat /\ p.r.artifact = r.artifact
  BY <1>0, <1>2, PredictingGoesOn DEF GoesOn
<1>4. Carries(m, p.r, p.c) /\ IsPrefix(LearnedOf(m, r), LearnedOf(m, p.r))
  BY <1>0, <1>1, <1>2, PredictCarries
<1>5. PICK q : q = ProcessResolutions(m, p.r, p.c)
  OBVIOUS
<1>6. RegOK(q.r) /\ SkipsNothing(q.r) /\ q.c \in Residents /\ q.r.artifact = r.artifact
  <2>1. RegOK(q.r) /\ SkipsNothing(q.r) /\ GoesOn(p.r, q.r) /\ q.c \in Residents
    BY <1>3, <1>5, ResolvingGoesOn
  <2>. QED
    BY <1>3, <2>1 DEF GoesOn
<1>7. /\ Carries(m, q.r, q.c) /\ IsPrefix(LearnedOf(m, p.r), LearnedOf(m, q.r))
      /\ q.r.metric = p.r.metric /\ q.count \in Nat
      /\ \A e \in DOMAIN q.r.rows :
           q.r.rows[e].status = "predicted" => e \in DOMAIN p.r.rows /\ p.r.rows[e].status = "predicted"
      /\ q.count = 0 => q.c.tracker = p.c.tracker
  BY <1>3, <1>4, <1>5, ResolveCarries
<1>8. PICK saved : saved = IF p.count > 0 \/ q.count > 0 THEN [q.r EXCEPT !.metric = {q.c.tracker}] ELSE q.r
  OBVIOUS
<1>9. /\ Carries(m, saved, q.c) /\ MetricKept(saved) /\ q.c.tracker = TrackerOf(saved)
      /\ LearnedOf(m, saved) = LearnedOf(m, q.r) /\ saved.artifact = r.artifact /\ RegOK(saved)
  <2>1. CASE p.count > 0 \/ q.count > 0
    <3>1. saved = [q.r EXCEPT !.metric = {q.c.tracker}] /\ q.c.tracker \in Metrics
      BY <1>6, <1>8, <2>1 DEF Residents
    <3>2. RegOK(saved) /\ saved.artifact = q.r.artifact
      BY <1>6, <3>1, MetricGoesOn DEF GoesOn
    <3>3. PICK before : before = q.r
      OBVIOUS
    <3>4. PICK now : now = q.c
      OBVIOUS
    <3>. QED
      BY <1>6, <1>7, <3>1, <3>2, <3>3, <3>4, ScoresAreStored
  <2>2. CASE ~(p.count > 0 \/ q.count > 0)
    <3>1. saved = q.r /\ p.count = 0 /\ q.count = 0
      BY <1>3, <1>7, <1>8, <2>2
    <3>2. /\ p.r.metric = r.metric /\ p.c.tracker.scored = c.tracker.scored
          /\ p.c.tracker.predictions = c.tracker.predictions + p.count
          /\ \A e \in DOMAIN p.r.rows :
               p.r.rows[e].status = "predicted" => e \in DOMAIN r.rows /\ r.rows[e].status = "predicted"
      BY <1>0, <1>2, <3>1, PredictMoves DEF Moves
    <3>3. p.c.tracker = c.tracker
      <4>1. c.tracker \in Metrics /\ p.c.tracker \in Metrics
        BY <1>0, <1>3 DEF Residents
      <4>2. p.c.tracker.predictions = c.tracker.predictions
        BY <3>1, <3>2, <4>1 DEF Metrics
      <4>. QED
        BY <3>2, <4>1, <4>2 DEF Metrics
    <3>4. MetricKept(q.r)
      BY <1>1, <1>7, <3>2, MetricStays
    <3>5. TrackerOf(q.r) = TrackerOf(r)
      BY <1>1, <1>7, <3>2, <3>4, SameTracker
    <3>. QED
      BY <1>1, <1>6, <1>7, <3>1, <3>3, <3>4, <3>5
  <2>. QED
    BY <2>1, <2>2
<1>10. IsPrefix(LearnedOf(m, r), LearnedOf(m, saved))
  <2>1. /\ LearnedOf(m, r) \in Seq(Labels) /\ LearnedOf(m, p.r) \in Seq(Labels)
        /\ LearnedOf(m, q.r) \in Seq(Labels)
    BY <1>3, <1>6, LearnedIs DEF RegOK
  <2>. QED
    BY <1>4, <1>7, <1>9, <2>1, PrefixesAdd
<1>11. PICK pickled : pickled = SavePickleSnapshot(saved, q.c)
  OBVIOUS
<1>12. PICK kept : kept = Pickled(q.c)
  OBVIOUS
<1>13. out = IF q.c.needsCheckpoint /\ due THEN [r |-> pickled, c |-> {kept}] ELSE [r |-> saved, c |-> {q.c}]
  BY <1>2, <1>5, <1>8, <1>11, <1>12, Zenon DEF LearnModel, Pickled
<1>14. PICK now : now = q.c
  OBVIOUS
<1>15. CASE q.c.needsCheckpoint /\ due
  <2>1. out.r = pickled /\ out.c = {kept}
    BY <1>13, <1>15
  <2>2. RegOK(pickled)
    <3>1. SkipsNothing(saved)
      BY <1>6, <1>8, MetricGoesOn DEF Residents
    <3>. QED
      BY <1>6, <1>9, <1>11, <3>1, PickleGoesOn
  <2>3. /\ Carries(m, pickled, kept) /\ MetricKept(pickled) /\ kept.tracker = TrackerOf(pickled)
        /\ LearnedOf(m, pickled) = LearnedOf(m, saved) /\ pickled.artifact = r.artifact /\ kept \in Residents
    <3>1. /\ now \in Residents /\ Carries(m, saved, now) /\ now.tracker = TrackerOf(saved)
          /\ pickled = SavePickleSnapshot(saved, now) /\ kept = Pickled(now)
      BY <1>6, <1>9, <1>11, <1>12, <1>14
    <3>2. /\ Carries(m, pickled, kept) /\ MetricKept(pickled) /\ kept.tracker = TrackerOf(pickled)
          /\ LearnedOf(m, pickled) = LearnedOf(m, saved) /\ pickled.artifact = saved.artifact /\ kept \in Residents
      BY <1>9, <2>2, <3>1, PickleCarries
    <3>. QED
      BY <1>9, <3>2
  <2>4. kept = LoadOf(m, pickled) /\ Remembers(m, pickled)
    BY <2>2, <2>3, CarriedIsLoaded
  <2>. QED
    BY <1>10, <2>1, <2>3, <2>4
<1>16. CASE ~(q.c.needsCheckpoint /\ due)
  <2>1. out.r = saved /\ out.c = {now}
    BY <1>13, <1>14, <1>16
  <2>2. now = LoadOf(m, saved) /\ Remembers(m, saved)
    BY <1>6, <1>9, <1>14, CarriedIsLoaded
  <2>. QED
    BY <1>9, <1>10, <2>1, <2>2
<1>. QED
  BY <1>15, <1>16

(* Only what memory is made of counts. *)
LEMMA SameMemory ==
  ASSUME NEW m, NEW r, NEW q, q.artifact = r.artifact, q.start = r.start, q.labelCursor = r.labelCursor,
         q.rows = r.rows, q.snapshot = r.snapshot, q.metric = r.metric
  PROVE  /\ Remembers(m, r) => Remembers(m, q)
         /\ LearnedOf(m, q) = LearnedOf(m, r) /\ LoadOf(m, q) = LoadOf(m, r)
<1>1. Checkpoint(q) = Checkpoint(r)
  BY SameCheckpoint
<1>2. TrainedSinceCheckpoint(q) = TrainedSinceCheckpoint(r) /\ Behind(q) = Behind(r)
  BY <1>1 DEF TrainedSinceCheckpoint, Behind
<1>3. BaseOf(q) = BaseOf(r)
  BY DEF BaseOf
<1>4. TrackerOf(q) = TrackerOf(r)
  BY DEF TrackerOf
<1>5. LearnedOf(m, q) = LearnedOf(m, r)
  BY <1>2, <1>3, LearnedIs
<1>6. LoadOf(m, q) = LoadOf(m, r)
  BY <1>2, <1>3, <1>4, <1>5 DEF LoadOf
<1>7. ASSUME Remembers(m, r) PROVE Remembers(m, q)
  <2>1. Untouched(q) /\ MetricKept(q)
    BY <1>7 DEF Remembers, Untouched, MetricKept
  <2>2. \A learned, scored : Tells(m, r, learned, scored) => Tells(m, q, learned, scored)
    BY DEF Tells, Placed
  <2>. QED
    BY <1>4, <1>5, <1>7, <2>1, <2>2 DEF Remembers
<1>. QED
  BY <1>5, <1>6, <1>7

(* A pause, or the end of one. *)
LEMMA PausingRemembers ==
  ASSUME NEW m, NEW r \in Registrations, NEW paused, NEW q, q = [r EXCEPT !.paused = paused]
  PROVE  /\ Remembers(m, r) => Remembers(m, q)
         /\ LearnedOf(m, q) = LearnedOf(m, r) /\ LoadOf(m, q) = LoadOf(m, r) /\ q.artifact = r.artifact
<1>1. /\ q.artifact = r.artifact /\ q.start = r.start /\ q.labelCursor = r.labelCursor
      /\ q.rows = r.rows /\ q.snapshot = r.snapshot /\ q.metric = r.metric
  BY DEF Registrations
<1>. QED
  BY <1>1, SameMemory

(* What learn_once makes of one model: its memory goes on, and what stays in  *)
(* the cache is what a restart rebuilds.                                      *)
Recalls(m, r, q) ==
  Remembers(m, q) /\ q.artifact = r.artifact /\ IsPrefix(LearnedOf(m, r), LearnedOf(m, q))

LEMMA CycleRemembers ==
  ASSUME QueueOK, NEW m \in DOMAIN model, RegOK(model[m]), SkipsNothing(model[m]), Remembers(m, model[m]),
         Resident(m) => cache[m] = Load(m), NEW fault, NEW due, NEW out, out = CycleOf(m, fault, due)
  PROVE  /\ Recalls(m, model[m], out.r)
         /\ out.c = {} \/ out.c = {LoadOf(m, out.r)}
<1>1. PICK r : r = model[m]
  OBVIOUS
<1>2. RegOK(r) /\ SkipsNothing(r) /\ Remembers(m, r) /\ r \in Registrations
  BY <1>1 DEF RegOK
<1>3. IsPrefix(LearnedOf(m, r), LearnedOf(m, r))
  BY <1>2, LearnedIs, ThenExtends
<1>4. CASE r.paused
  <2>1. out = [r |-> RecordDisabledWork(r), c |-> {}]
    BY <1>1, <1>4 DEF CycleOf
  <2>2. out.r = RecordDisabledWork(r) /\ out.c = {}
    BY <2>1
  <2>3. PICK q : q = out.r
    OBVIOUS
  <2>4. Remembers(m, q) /\ LearnedOf(m, q) = LearnedOf(m, r) /\ q.artifact = r.artifact
    BY <1>2, <2>2, <2>3, SkippingRemembers
  <2>. QED
    BY <1>1, <1>3, <2>2, <2>3, <2>4 DEF Recalls
<1>5. CASE ~r.paused /\ fault
  <2>1. PICK failed : failed = [r EXCEPT !.paused = TRUE]
    OBVIOUS
  <2>2. out = [r |-> RecordDisabledWork(failed), c |-> {}]
    BY <1>1, <1>5, <2>1 DEF CycleOf
  <2>3. out.r = RecordDisabledWork(failed) /\ out.c = {}
    BY <2>2
  <2>4. PICK q : q = out.r
    OBVIOUS
  <2>5. RegOK(failed) /\ SkipsNothing(failed)
    BY <1>2, <2>1, PausingGoesOn
  <2>6. Remembers(m, failed) /\ LearnedOf(m, failed) = LearnedOf(m, r) /\ failed.artifact = r.artifact
    BY <1>2, <2>1, PausingRemembers
  <2>7. Remembers(m, q) /\ LearnedOf(m, q) = LearnedOf(m, failed) /\ q.artifact = failed.artifact
    BY <2>3, <2>4, <2>5, <2>6, SkippingRemembers
  <2>. QED
    BY <1>1, <1>3, <2>3, <2>4, <2>6, <2>7 DEF Recalls
<1>6. CASE ~r.paused /\ ~fault
  <2>1. PICK c : c = IF Resident(m) THEN cache[m] ELSE Load(m)
    OBVIOUS
  <2>2. c = LoadOf(m, r)
    BY <1>1, <2>1, LoadIs
  <2>3. out = LearnModel(m, r, c, due)
    BY <1>1, <1>6, <2>1 DEF CycleOf
  <2>4. /\ Remembers(m, out.r) /\ out.c = {LoadOf(m, out.r)} /\ out.r.artifact = r.artifact
        /\ IsPrefix(LearnedOf(m, r), LearnedOf(m, out.r))
    BY <1>2, <2>2, <2>3, LearningRemembers
  <2>. QED
    BY <1>1, <2>4 DEF Recalls
<1>. QED
  BY <1>4, <1>5, <1>6
-----------------------------------------------------------------------------
(* Memory while the event store moves                                       *)

(* What a load gives in the next state, by its parts. *)
LEMMA NextLearned ==
  \A m, r : LearnedOf(m, r)' = IF m \in LearningModels
                               THEN Then(BaseOf(r).learned, Listed(TrainedSinceCheckpoint(r)', ready'))
                               ELSE BaseOf(r).learned
BY Zenon DEF LearnedOf, Then, InQueueOrder, LabelsBy, Listed

LEMMA NextLoad ==
  ASSUME NEW m, NEW r, r = model'[m]
  PROVE  Load(m)' = LoadOf(m, r)'
<1>1. Load(m)' = LoadOf(m, model[m])'
  BY Zenon DEF Load, LoadOf, LearnedOf, TrackerOf, BaseOf
<1>. QED
  BY <1>1

(* Places that are given out stay, and new ones are given to new labels. *)
QueueGrows ==
  /\ admissions \in Nat /\ admissions' \in Nat /\ admissions <= admissions'
  /\ stored \subseteq stored' /\ \A e \in stored' \ stored : e > admissions
  /\ \A e \in DOMAIN ready : e \in DOMAIN ready' /\ ready'[e] = ready[e]
  /\ known' \subseteq DOMAIN ready' /\ \A e \in DOMAIN ready : e \in known' <=> e \in known

LEMMA GrowingRemembers ==
  ASSUME QueueOK, QueueGrows, NEW m, NEW r, DOMAIN r.rows \subseteq stored, Remembers(m, r)
  PROVE  Remembers(m, r)' /\ LearnedOf(m, r)' = LearnedOf(m, r) /\ LoadOf(m, r)' = LoadOf(m, r)
<1>1. /\ Untouched(r) /\ MetricKept(r) /\ Tells(m, r, LearnedOf(m, r), TrackerOf(r).scored)
      /\ DOMAIN r.rows \subseteq stored /\ DOMAIN ready \subseteq stored /\ known \subseteq DOMAIN ready
  BY DEF Remembers, QueueOK
<1>2. Untouched(r)'
  BY <1>1 DEF Untouched, QueueGrows
<1>3. PICK replayed : replayed = TrainedSinceCheckpoint(r)
  OBVIOUS
<1>4. TrainedSinceCheckpoint(r)' = replayed
  <2>1. ASSUME NEW e \in DOMAIN r.rows
        PROVE  e \in TrainedSinceCheckpoint(r)' <=> e \in replayed
    <3>1. CASE e \in DOMAIN ready
      BY <1>3, <3>1 DEF TrainedSinceCheckpoint, QueueGrows
    <3>2. CASE e \notin DOMAIN ready
      BY <1>1, <1>3, <3>2 DEF TrainedSinceCheckpoint, Untouched
    <3>. QED
      BY <3>1, <3>2
  <2>2. replayed \subseteq DOMAIN r.rows /\ TrainedSinceCheckpoint(r)' \subseteq DOMAIN r.rows
    BY <1>3 DEF TrainedSinceCheckpoint
  <2>. QED
    BY <2>1, <2>2
<1>5. LearnedOf(m, r)' = LearnedOf(m, r)
  <2>1. replayed \in SUBSET DOMAIN ready
    BY <1>3 DEF TrainedSinceCheckpoint
  <2>2. Sortable(replayed, ready)
    BY <2>1, ReadySorts
  <2>3. \A e \in replayed : ready'[e] = ready[e]
    BY <2>1 DEF QueueGrows
  <2>4. PICK places : places = ready'
    OBVIOUS
  <2>5. Listed(replayed, places) = Listed(replayed, ready)
    BY <2>2, <2>3, <2>4, ListedAgrees
  <2>. QED
    BY <1>3, <1>4, <2>4, <2>5, NextLearned, LearnedIs, QueueOrderLists
<1>6. \A labels : Placed(labels, r) => Placed(labels, r)'
  <2> SUFFICES ASSUME NEW labels, Placed(labels, r) PROVE Placed(labels, r)'
    OBVIOUS
  <2>1. labels \in Seq(Labels) /\ InOrder(labels)
    BY DEF Placed
  <2>2. ASSUME NEW i \in 1..Len(labels)
        PROVE  /\ labels[i].event <= admissions' /\ labels[i].event >= r.start
               /\ labels[i].place <= r.labelCursor
               /\ labels[i].event \in stored' =>
                    labels[i].event \in DOMAIN ready' /\ ready'[labels[i].event] = labels[i].place
    <3>1. /\ labels[i].event <= admissions /\ labels[i].event >= r.start
          /\ labels[i].place <= r.labelCursor
          /\ labels[i].event \in stored =>
               labels[i].event \in DOMAIN ready /\ ready[labels[i].event] = labels[i].place
      BY DEF Placed
    <3>2. labels[i] \in Labels
      BY <2>1, ElementOfSeq
    <3>3. labels[i].event \in Nat
      BY <3>2, StoreIsFinite DEF Labels
    <3>4. labels[i].event \in stored' => labels[i].event \in stored
      BY <3>1, <3>3 DEF QueueGrows
    <3>. QED
      BY <3>1, <3>3, <3>4 DEF QueueGrows
  <2>. QED
    BY <2>1, <2>2 DEF Placed
<1>7. \A labels : Placed(labels, r) =>
        \A e \in DOMAIN r.rows : e \in EventsOf(labels) => e \in DOMAIN ready
  BY <1>1 DEF Placed, EventsOf
<1>8. \A learned, scored : Tells(m, r, learned, scored) => Tells(m, r, learned, scored)'
  <2> SUFFICES ASSUME NEW learned, NEW scored, Tells(m, r, learned, scored) PROVE Tells(m, r, learned, scored)'
    OBVIOUS
  <2>1. Placed(learned, r) /\ Placed(scored, r)
    BY DEF Tells
  <2>2. ASSUME NEW e \in DOMAIN r.rows \cap known', e >= r.start
        PROVE  /\ e \in EventsOf(scored) <=> r.rows[e].status = "predicted" /\ r.rows[e].trained = "yes"
               /\ e \in EventsOf(learned) <=> m \in LearningModels /\ r.rows[e].trained = "yes"
    <3>1. CASE e \in DOMAIN ready
      BY <2>2, <3>1 DEF Tells, QueueGrows
    <3>2. CASE e \notin DOMAIN ready
      <4>1. r.rows[e].trained = "no"
        BY <1>1, <2>2, <3>2 DEF Untouched
      <4>2. e \notin EventsOf(scored) /\ e \notin EventsOf(learned)
        BY <1>7, <2>1, <2>2, <3>2
      <4>. QED
        BY <4>1, <4>2
    <3>. QED
      BY <3>1, <3>2
  <2>. QED
    BY <1>6, <2>1, <2>2 DEF Tells
<1>9. Remembers(m, r)'
  <2>1. Tells(m, r, LearnedOf(m, r), TrackerOf(r).scored)'
    BY <1>1, <1>5, <1>8
  <2>2. MetricKept(r)'
    BY <1>1 DEF MetricKept
  <2>. QED
    BY <1>2, <2>1, <2>2 DEF Remembers
<1>10. LoadOf(m, r)' = LoadOf(m, r)
  BY <1>5 DEF LoadOf
<1>. QED
  BY <1>5, <1>9, <1>10

(* Rows the archive takes are behind the checkpoint. *)
LEMMA PurgedIsCovered ==
  ASSUME LearnerInv, NEW gone, PurgeFacts(gone), NEW m \in DOMAIN model, NEW r, r = model[m],
         NEW e \in gone, e >= r.start
  PROVE  e \in DOMAIN ready /\ ~(ready[e] > Checkpoint(r))
<1>1. e \in DOMAIN ready /\ ~ProcessingPending(m, e)
  BY DEF PurgeFacts, Completed
<1>2. ~(Checkpoint(r) < ready[e])
  BY <1>1 DEF ProcessingPending
<1>3. Checkpoint(r) \in Nat /\ ready[e] \in Nat
  BY <1>1, CheckpointIs DEF LearnerInv, RegOK, QueueOK
<1>. QED
  BY <1>1, <1>2, <1>3

(* ArchivePurge takes nothing from memory. *)
LEMMA PurgingRemembers ==
  ASSUME LearnerInv, NEW gone, PurgeFacts(gone), NEW m \in DOMAIN model, Remembers(m, model[m])
  PROVE  Remembers(m, model[m])' /\ Load(m)' = Load(m)
<1>1. PICK r : r = model[m]
  OBVIOUS
<1>2. PICK q : q = model'[m]
  OBVIOUS
<1>3. /\ q.artifact = r.artifact /\ q.start = r.start /\ q.labelCursor = r.labelCursor
      /\ q.snapshot = r.snapshot /\ q.metric = r.metric
      /\ DOMAIN q.rows = DOMAIN r.rows \ gone
      /\ \A e \in DOMAIN q.rows : q.rows[e] = r.rows[e]
  BY <1>1, <1>2 DEF PurgeFacts
<1>4. /\ stored' = stored \ gone /\ DOMAIN ready' = DOMAIN ready \ gone /\ known' = known \ gone
      /\ \A e \in DOMAIN ready \ gone : ready'[e] = ready[e]
      /\ admissions' = admissions
  BY DEF PurgeFacts
<1>5. QueueOK /\ Untouched(r) /\ MetricKept(r) /\ Tells(m, r, LearnedOf(m, r), TrackerOf(r).scored)
      /\ DOMAIN r.rows \subseteq stored
  BY <1>1 DEF Remembers, LearnerInv, RegOK
<1>6. Untouched(q)'
  BY <1>3, <1>4, <1>5 DEF Untouched
<1>7. MetricKept(q) /\ TrackerOf(q) = TrackerOf(r)
  <2>1. MetricKept(q)
    BY <1>3, <1>5 DEF MetricKept
  <2>. QED
    BY <1>3, <1>5, <2>1, SameTracker
<1>8. BaseOf(q) = BaseOf(r) /\ Checkpoint(q) = Checkpoint(r) /\ Behind(q) = Behind(r)
  <2>1. Checkpoint(q) = Checkpoint(r)
    BY <1>3, SameCheckpoint
  <2>. QED
    BY <1>3, <2>1 DEF BaseOf, Behind
<1>9. PICK replayed : replayed = TrainedSinceCheckpoint(r)
  OBVIOUS
<1>10. \A e \in replayed : e \in DOMAIN ready /\ e \notin gone
  BY <1>1, <1>9, PurgedIsCovered DEF TrainedSinceCheckpoint
<1>11. TrainedSinceCheckpoint(q)' = replayed
  <2>1. ASSUME NEW e \in DOMAIN r.rows
        PROVE  e \in TrainedSinceCheckpoint(q)' <=> e \in replayed
    <3>1. CASE e \in gone
      BY <1>3, <1>10, <3>1 DEF TrainedSinceCheckpoint
    <3>2. CASE e \notin gone
      BY <1>3, <1>4, <1>8, <1>9, <3>2 DEF TrainedSinceCheckpoint
    <3>. QED
      BY <3>1, <3>2
  <2>2. replayed \subseteq DOMAIN r.rows /\ TrainedSinceCheckpoint(q)' \subseteq DOMAIN r.rows
    BY <1>3, <1>9 DEF TrainedSinceCheckpoint
  <2>. QED
    BY <2>1, <2>2
<1>12. LearnedOf(m, q)' = LearnedOf(m, r)
  <2>1. replayed \in SUBSET DOMAIN ready
    BY <1>10
  <2>2. Sortable(replayed, ready)
    BY <1>5, <2>1, ReadySorts
  <2>3. \A e \in replayed : ready'[e] = ready[e]
    BY <1>4, <1>10
  <2>4. PICK places : places = ready'
    OBVIOUS
  <2>5. Listed(replayed, places) = Listed(replayed, ready)
    BY <2>2, <2>3, <2>4, ListedAgrees
  <2>. QED
    BY <1>8, <1>9, <1>11, <2>4, <2>5, NextLearned, LearnedIs, QueueOrderLists
<1>13. \A labels : Placed(labels, r) => Placed(labels, q)'
  <2> SUFFICES ASSUME NEW labels, Placed(labels, r) PROVE Placed(labels, q)'
    OBVIOUS
  <2>. QED
    BY <1>3, <1>4 DEF Placed
<1>14. \A learned, scored : Tells(m, r, learned, scored) => Tells(m, q, learned, scored)'
  <2> SUFFICES ASSUME NEW learned, NEW scored, Tells(m, r, learned, scored) PROVE Tells(m, q, learned, scored)'
    OBVIOUS
  <2>. QED
    BY <1>3, <1>4, <1>13 DEF Tells
<1>15. Remembers(m, q)'
  <2>1. Tells(m, q, LearnedOf(m, q), TrackerOf(q).scored)'
    BY <1>5, <1>7, <1>12, <1>14
  <2>2. MetricKept(q)'
    BY <1>7 DEF MetricKept
  <2>. QED
    BY <1>6, <2>1, <2>2 DEF Remembers
<1>16. LoadOf(m, q)' = LoadOf(m, r)
  BY <1>3, <1>7, <1>8, <1>12 DEF LoadOf
<1>. QED
  BY <1>1, <1>2, <1>15, <1>16, NextLoad, LoadIs

(* A generation that starts above all events has nothing to remember. *)
LEMMA FreshRemembers ==
  ASSUME QueueOK, NEW m, NEW r \in Registrations, DOMAIN r.rows \subseteq stored,
         \A e \in stored : e < r.start, BaseOf(r).learned = <<>>, TrackerOf(r).scored = <<>>, MetricKept(r)
  PROVE  Remembers(m, r)
<1>1. r.start \in Nat /\ \A e \in DOMAIN r.rows : e \in Nat /\ ~(e >= r.start)
  BY StoreIsFinite DEF Registrations
<1>2. Untouched(r) /\ TrainedSinceCheckpoint(r) = {}
  BY <1>1 DEF Untouched, TrainedSinceCheckpoint
<1>0. PICK none : none = <<>>
  OBVIOUS
<1>3. none = <<>> /\ none \in Seq(Labels) /\ Len(none) = 0
  BY <1>0
<1>4. LearnedOf(m, r) = none
  <2>1. Then(none, InQueueOrder({})) = none
    BY <1>3, ThenNothing
  <2>. QED
    BY <1>2, <1>3, <2>1, LearnedIs
<1>5. Tells(m, r, none, none)
  <2>1. Placed(none, r)
    BY <1>3 DEF Placed, InOrder
  <2>. QED
    BY <1>1, <2>1 DEF Tells
<1>. QED
  BY <1>2, <1>3, <1>4, <1>5 DEF Remembers

(* The same in the next state, where the event store has not moved. *)
LEMMA StillQueueGrows == ASSUME QueueOK, UNCHANGED queue PROVE QueueGrows
BY DEF QueueOK, QueueGrows, queue

LEMMA StayingRemembers ==
  ASSUME LearnerInv, UNCHANGED queue, NEW m, NEW q, q = model'[m], DOMAIN q.rows \subseteq stored, Remembers(m, q)
  PROVE  Remembers(m, model[m])' /\ Load(m)' = LoadOf(m, q)
<1>1. QueueOK /\ QueueGrows
  BY StillQueueGrows DEF LearnerInv
<1>2. Remembers(m, q)' /\ LoadOf(m, q)' = LoadOf(m, q)
  BY <1>1, GrowingRemembers
<1>. QED
  BY <1>2, NextLoad
-----------------------------------------------------------------------------
(* The invariant                                                            *)

(* Every model's registration and rows remember what it went through, and     *)
(* what stays in the learner's cache is what they would rebuild.  Fingerprints *)
(* are of artifacts there are, so an unseen artifact meets no resident model.  *)
MemoryInv ==
  /\ \A m \in DOMAIN model : Remembers(m, model[m])
  /\ \A m \in DOMAIN cache : cache[m].fingerprint <= uploads
  /\ RestartEquivalence

(* No id comes to be registered with the artifact its resident model is of. *)
MeetsNoResident == \A m \in DOMAIN model' \ DOMAIN model : ~Resident(m)'
NoReunion == [][MeetsNoResident]_vars

(* An artifact that neither the model nor what is resident for it is of. *)
NewTo(m, artifact) ==
  /\ m \in DOMAIN model => artifact # model[m].artifact
  /\ m \in DOMAIN cache => artifact # cache[m].fingerprint

LEMMA UnseenIsNew ==
  ASSUME LearnerInv, MemoryInv, NEW m, NEW artifact \in Nat, artifact > uploads
  PROVE  NewTo(m, artifact)
<1>1. uploads \in Nat /\ \A x \in DOMAIN model : model[x].artifact \in Nat /\ model[x].artifact <= uploads
  BY LearnerAssumption DEF LearnerInv, RegOK, Registrations
<1>2. \A x \in DOMAIN cache : cache[x].fingerprint \in Nat /\ cache[x].fingerprint <= uploads
  BY DEF LearnerInv, MemoryInv, Residents
<1>. QED
  BY <1>1, <1>2 DEF NewTo

(* A model goes on with its artifact and all it learned, or has a new one. *)
Recollects ==
  \A m \in DOMAIN model' :
    \/ /\ m \in DOMAIN model /\ model'[m].artifact = model[m].artifact
       /\ IsPrefix(Load(m).learned, Load(m)'.learned)
    \/ NewTo(m, model'[m].artifact)

(* The model of a load has learned a sequence, which extends itself. *)
LEMMA LoadExtends == ASSUME LearnerInv, NEW m \in DOMAIN model PROVE IsPrefix(Load(m).learned, Load(m).learned)
<1>1. model[m] \in Registrations /\ QueueOK
  BY DEF LearnerInv, RegOK
<1>2. LearnedOf(m, model[m]) \in Seq(Labels)
  BY <1>1, LearnedIs
<1>3. Load(m).learned = LearnedOf(m, model[m])
  BY LoadIs DEF LoadOf
<1>. QED
  BY <1>2, <1>3, ThenExtends

(* Steps outside the learner's process leave its cache as it is. *)
LEMMA CacheStays ==
  ASSUME LearnerInv, MemoryInv, cache' = cache, uploads' \in Nat, uploads <= uploads',
         \A m \in DOMAIN model' :
           /\ Remembers(m, model[m])'
           /\ \/ m \in DOMAIN model /\ model'[m].artifact = model[m].artifact /\ Load(m)' = Load(m)
              \/ NewTo(m, model'[m].artifact)
  PROVE  MemoryInv' /\ Recollects
<1>1. uploads \in Nat /\ \A m \in DOMAIN cache : cache[m].fingerprint \in Nat /\ cache[m].fingerprint <= uploads
  BY LearnerAssumption DEF LearnerInv, MemoryInv, Residents
<1>2. \A m \in DOMAIN cache' : cache'[m].fingerprint <= uploads'
  BY <1>1
<1>3. ASSUME NEW m \in DOMAIN cache' \cap DOMAIN model', Resident(m)' PROVE cache'[m] = Load(m)'
  <2>1. cache[m].fingerprint = model'[m].artifact /\ m \in DOMAIN cache
    BY <1>3 DEF Resident
  <2>2. m \in DOMAIN model /\ model'[m].artifact = model[m].artifact /\ Load(m)' = Load(m)
    BY <2>1 DEF NewTo
  <2>3. Resident(m)
    BY <2>1, <2>2 DEF Resident
  <2>. QED
    BY <2>1, <2>2, <2>3 DEF MemoryInv, RestartEquivalence
<1>4. MemoryInv'
  BY <1>2, <1>3 DEF MemoryInv, RestartEquivalence
<1>5. Recollects
  <2> SUFFICES ASSUME NEW m \in DOMAIN model', ~NewTo(m, model'[m].artifact)
               PROVE  /\ m \in DOMAIN model /\ model'[m].artifact = model[m].artifact
                      /\ IsPrefix(Load(m).learned, Load(m)'.learned)
    BY DEF Recollects
  <2>1. m \in DOMAIN model /\ model'[m].artifact = model[m].artifact /\ Load(m)' = Load(m)
    OBVIOUS
  <2>. QED
    BY <2>1, LoadExtends
<1>. QED
  BY <1>4, <1>5

(* While the queue grows, and no model changes. *)
LEMMA GrownRemembers ==
  ASSUME LearnerInv, MemoryInv, QueueGrows, UNCHANGED <<model, cache, uploads>>
  PROVE  MemoryInv' /\ Recollects
<1>1. uploads \in Nat /\ QueueOK
  BY LearnerAssumption DEF LearnerInv
<1>2. ASSUME NEW m \in DOMAIN model' PROVE Remembers(m, model[m])' /\ m \in DOMAIN model /\ Load(m)' = Load(m)
  <2>1. PICK r : r = model'[m]
    OBVIOUS
  <2>2. r = model[m] /\ m \in DOMAIN model /\ DOMAIN r.rows \subseteq stored /\ Remembers(m, r)
    BY <2>1 DEF LearnerInv, RegOK, MemoryInv
  <2>3. Remembers(m, r)' /\ LoadOf(m, r)' = LoadOf(m, r)
    BY <1>1, <2>2, GrowingRemembers
  <2>. QED
    BY <2>1, <2>2, <2>3, NextLoad, LoadIs
<1>. QED
  BY <1>1, <1>2, CacheStays

(* StoreCommits *)
LEMMA StoreCommitsRemembers == ASSUME LearnerInv, MemoryInv, StoreCommits PROVE MemoryInv' /\ Recollects
<1>1. /\ QueueOK' /\ UNCHANGED <<model, cache, uploads, faults>>
      /\ admissions <= admissions' /\ placements <= placements'
      /\ stored \subseteq stored' /\ \A e \in stored' \ stored : e > admissions
      /\ \A e \in DOMAIN ready : e \in DOMAIN ready' /\ ready'[e] = ready[e]
      /\ \A e \in DOMAIN ready : e \in known' <=> e \in known
  BY StoreGrows
<1>2. QueueGrows
  BY <1>1 DEF LearnerInv, QueueOK, QueueGrows
<1>. QED
  BY <1>1, <1>2, GrownRemembers

(* LearnOnce *)
LEMMA LearnOnceRemembers == ASSUME LearnerInv, MemoryInv, LearnOnce PROVE MemoryInv' /\ Recollects
<1>1. PICK failing \in SUBSET DOMAIN model, due \in SUBSET DOMAIN model : Cycle(failing, due)
  BY DEF LearnOnce
<1> DEFINE out == [m \in DOMAIN model |-> CycleOf(m, m \in failing, m \in due)]
<1>2. /\ model' = [m \in DOMAIN model |-> out[m].r]
      /\ cache' = [m \in {m \in DOMAIN model : out[m].c # {}} |-> CHOOSE c \in out[m].c : TRUE]
      /\ UNCHANGED <<stored, ready, known, admissions, placements, uploads>>
  BY <1>1, Zenon DEF Cycle
<1>3. ASSUME NEW m \in DOMAIN model
      PROVE  /\ Recalls(m, model[m], out[m].r) /\ RegOK(out[m].r)
             /\ out[m].c = {} \/ out[m].c = {LoadOf(m, out[m].r)}
  <2>1. out[m] = CycleOf(m, m \in failing, m \in due)
    OBVIOUS
  <2> HIDE DEF out
  <2>2. PICK o : o = CycleOf(m, m \in failing, m \in due)
    OBVIOUS
  <2>3. /\ QueueOK /\ RegOK(model[m]) /\ SkipsNothing(model[m])
        /\ m \in DOMAIN cache => cache[m] \in Residents
    BY DEF LearnerInv
  <2>4. RegOK(o.r)
    BY <2>2, <2>3, CycleGoesOn
  <2>5. Remembers(m, model[m]) /\ (Resident(m) => cache[m] = Load(m))
    BY DEF MemoryInv, RestartEquivalence, Resident
  <2>6. Recalls(m, model[m], o.r) /\ (o.c = {} \/ o.c = {LoadOf(m, o.r)})
    BY <2>2, <2>3, <2>5, CycleRemembers
  <2>. QED
    BY <2>1, <2>2, <2>4, <2>6
<1> HIDE DEF out
<1>4. UNCHANGED queue
  BY <1>2 DEF queue
<1>5. ASSUME NEW m \in DOMAIN model'
      PROVE  /\ m \in DOMAIN model /\ model'[m] = out[m].r /\ Remembers(m, model[m])'
             /\ Load(m)' = LoadOf(m, out[m].r) /\ model'[m].artifact = model[m].artifact
             /\ IsPrefix(LearnedOf(m, model[m]), LearnedOf(m, out[m].r))
  <2>1. m \in DOMAIN model /\ model'[m] = out[m].r
    BY <1>2
  <2>2. PICK q : q = out[m].r
    OBVIOUS
  <2>3. RegOK(q) /\ Recalls(m, model[m], q) /\ q = model'[m]
    BY <1>3, <2>1, <2>2
  <2>4. DOMAIN q.rows \subseteq stored /\ Remembers(m, q)
    BY <2>3 DEF RegOK, Recalls
  <2>5. Remembers(m, model[m])' /\ Load(m)' = LoadOf(m, q)
    BY <1>4, <2>3, <2>4, StayingRemembers
  <2>. QED
    BY <2>1, <2>2, <2>3, <2>5 DEF Recalls
<1>6. ASSUME NEW m \in DOMAIN cache'
      PROVE  m \in DOMAIN model' /\ cache'[m] = LoadOf(m, out[m].r)
  <2>1. m \in DOMAIN model /\ out[m].c # {} /\ cache'[m] = CHOOSE c \in out[m].c : TRUE
    BY <1>2
  <2>2. out[m].c = {LoadOf(m, out[m].r)}
    BY <1>3, <2>1
  <2>. QED
    BY <1>2, <2>1, <2>2
<1>7. \A m \in DOMAIN cache' : cache'[m].fingerprint <= uploads'
  <2> SUFFICES ASSUME NEW m \in DOMAIN cache' PROVE cache'[m].fingerprint <= uploads'
    OBVIOUS
  <2>1. m \in DOMAIN model /\ cache'[m].fingerprint = out[m].r.artifact
    BY <1>5, <1>6 DEF LoadOf
  <2>2. out[m].r.artifact \in 1..uploads
    BY <1>3, <2>1 DEF RegOK
  <2>. QED
    BY <1>2, <2>1, <2>2, LearnerAssumption DEF LearnerInv
<1>8. RestartEquivalence'
  BY <1>5, <1>6 DEF RestartEquivalence
<1>9. Recollects
  BY <1>5, LoadIs DEF Recollects, LoadOf
<1>. QED
  BY <1>5, <1>7, <1>8, <1>9 DEF MemoryInv

(* LoseCache *)
LEMMA LoseCacheRemembers == ASSUME LearnerInv, MemoryInv, LoseCache PROVE MemoryInv' /\ Recollects
<1>1. /\ DOMAIN cache' = {} /\ model' = model /\ UNCHANGED queue /\ uploads' = uploads
  BY DEF LoseCache, queue
<1>2. ASSUME NEW m \in DOMAIN model' PROVE Remembers(m, model[m])' /\ m \in DOMAIN model /\ Load(m)' = Load(m)
  <2>1. PICK q : q = model'[m]
    OBVIOUS
  <2>2. m \in DOMAIN model /\ q = model[m] /\ Remembers(m, q) /\ DOMAIN q.rows \subseteq stored
    BY <1>1, <2>1 DEF LearnerInv, MemoryInv, RegOK
  <2>3. Remembers(m, model[m])' /\ Load(m)' = LoadOf(m, q)
    BY <1>1, <2>1, <2>2, StayingRemembers
  <2>. QED
    BY <2>2, <2>3, LoadIs
<1>3. RestartEquivalence'
  BY <1>1 DEF RestartEquivalence
<1>4. Recollects
  BY <1>1, <1>2, LoadExtends DEF Recollects
<1>. QED
  BY <1>1, <1>2, <1>3, <1>4 DEF MemoryInv

(* Steps that change one registration at most in ways memory does not see, or *)
(* start a generation with a new artifact.                                    *)
LEMMA RegistrationsRemember ==
  ASSUME LearnerInv, MemoryInv, UNCHANGED queue, cache' = cache, uploads' \in Nat, uploads <= uploads',
         \A m \in DOMAIN model' :
           /\ DOMAIN model'[m].rows \subseteq stored /\ Remembers(m, model'[m])
           /\ \/ /\ m \in DOMAIN model /\ model'[m].artifact = model[m].artifact
                 /\ LoadOf(m, model'[m]) = LoadOf(m, model[m])
              \/ NewTo(m, model'[m].artifact)
  PROVE  MemoryInv' /\ Recollects
<1>1. ASSUME NEW m \in DOMAIN model'
      PROVE  /\ Remembers(m, model[m])'
             /\ \/ m \in DOMAIN model /\ model'[m].artifact = model[m].artifact /\ Load(m)' = Load(m)
                \/ NewTo(m, model'[m].artifact)
  <2>1. PICK q : q = model'[m]
    OBVIOUS
  <2>2. /\ DOMAIN q.rows \subseteq stored /\ Remembers(m, q)
        /\ \/ m \in DOMAIN model /\ q.artifact = model[m].artifact /\ LoadOf(m, q) = LoadOf(m, model[m])
           \/ NewTo(m, q.artifact)
    BY <2>1
  <2>3. Remembers(m, model[m])' /\ Load(m)' = LoadOf(m, q)
    BY <2>1, <2>2, StayingRemembers
  <2>. QED
    BY <2>1, <2>2, <2>3, LoadIs
<1>. QED
  BY <1>1, CacheStays

(* RetryElapses *)
LEMMA RetryElapsesRemembers == ASSUME LearnerInv, MemoryInv, RetryElapses PROVE MemoryInv' /\ Recollects
<1>1. PICK m \in DOMAIN model :
        /\ model' = [model EXCEPT ![m].paused = FALSE]
        /\ UNCHANGED <<queue, cache, uploads, faults>>
  BY DEF RetryElapses
<1>2. PICK q : q = [model[m] EXCEPT !.paused = FALSE]
  OBVIOUS
<1>3. DOMAIN model' = DOMAIN model /\ model'[m] = q /\ \A x \in DOMAIN model \ {m} : model'[x] = model[x]
  BY <1>1, <1>2
<1>4. \A x \in DOMAIN model : Remembers(x, model[x]) /\ DOMAIN model[x].rows \subseteq stored
  BY DEF LearnerInv, RegOK, MemoryInv
<1>5. /\ Remembers(m, q) /\ q.artifact = model[m].artifact /\ LoadOf(m, q) = LoadOf(m, model[m])
      /\ q.rows = model[m].rows
  <2>1. PICK r : r = model[m]
    OBVIOUS
  <2>2. r \in Registrations /\ Remembers(m, r) /\ q = [r EXCEPT !.paused = FALSE]
    BY <1>2, <1>4, <2>1 DEF LearnerInv, RegOK
  <2>3. q.rows = r.rows
    BY <2>2 DEF Registrations
  <2>. QED
    BY <2>1, <2>2, <2>3, PausingRemembers
<1>6. \A x \in DOMAIN model' :
        /\ DOMAIN model'[x].rows \subseteq stored /\ Remembers(x, model'[x])
        /\ x \in DOMAIN model /\ model'[x].artifact = model[x].artifact
        /\ LoadOf(x, model'[x]) = LoadOf(x, model[x])
  <2> TAKE x \in DOMAIN model'
  <2>1. CASE x = m
    BY <1>3, <1>4, <1>5, <2>1
  <2>2. CASE x # m
    BY <1>3, <1>4, <2>2
  <2>. QED
    BY <2>1, <2>2
<1>7. uploads' \in Nat /\ uploads <= uploads' /\ cache' = cache /\ UNCHANGED queue
  BY <1>1, LearnerAssumption DEF LearnerInv
<1>. QED
  BY <1>6, <1>7, RegistrationsRemember

(* A registration with an artifact that is new to it. *)
LEMMA AddingRemembers ==
  ASSUME LearnerInv, MemoryInv, NEW m, NEW r \in Registrations, UNCHANGED <<queue, cache>>,
         uploads' \in Nat, uploads <= uploads', NewTo(m, r.artifact),
         DOMAIN model' = DOMAIN model \cup {m}, model'[m] = r,
         \A x \in DOMAIN model \ {m} : model'[x] = model[x],
         DOMAIN r.rows \subseteq stored, \A e \in stored : e < r.start,
         BaseOf(r).learned = <<>>, TrackerOf(r).scored = <<>>, MetricKept(r)
  PROVE  MemoryInv' /\ Recollects
<1>1. Remembers(m, r)
  BY FreshRemembers DEF LearnerInv
<1>2. \A x \in DOMAIN model : Remembers(x, model[x]) /\ DOMAIN model[x].rows \subseteq stored
  BY DEF LearnerInv, RegOK, MemoryInv
<1>3. ASSUME NEW x \in DOMAIN model'
      PROVE  /\ DOMAIN model'[x].rows \subseteq stored /\ Remembers(x, model'[x])
             /\ \/ /\ x \in DOMAIN model /\ model'[x].artifact = model[x].artifact
                   /\ LoadOf(x, model'[x]) = LoadOf(x, model[x])
                \/ NewTo(x, model'[x].artifact)
  <2>1. CASE x = m
    BY <1>1, <2>1
  <2>2. CASE x # m
    BY <1>2, <2>2
  <2>. QED
    BY <2>1, <2>2
<1>. QED
  BY <1>3, RegistrationsRemember

(* Register, with bytes that are not those of a resident model of the id *)
LEMMA RegisterRemembers ==
  ASSUME LearnerInv, MemoryInv, Register, MeetsNoResident
  PROVE  MemoryInv' /\ Recollects
<1>1. PICK m \in Models \ DOMAIN model, artifact \in 1..MaxUploads :
        /\ uploads' = Max({uploads, artifact}) /\ Add(m, NewModel(artifact))
        /\ UNCHANGED <<queue, cache, faults>>
  BY DEF Register
<1>2. uploads \in Nat /\ artifact \in Nat
  BY <1>1, LearnerAssumption DEF LearnerInv
<1>3. uploads' \in Nat /\ uploads <= uploads'
  <2>1. /\ {uploads, artifact} \in SUBSET Nat /\ {uploads, artifact} # {} /\ uploads + artifact \in Nat
        /\ \A n \in {uploads, artifact} : n <= uploads + artifact
    BY <1>2
  <2>2. PICK top : top = Max({uploads, artifact})
    OBVIOUS
  <2>3. top \in {uploads, artifact} /\ \A n \in {uploads, artifact} : n <= top
    BY <2>1, <2>2, MaxIsGreatest
  <2>. QED
    BY <1>1, <1>2, <2>2, <2>3
<1>4. PICK r : r = NewModel(artifact)
  OBVIOUS
<1>5. /\ r \in Registrations /\ r.artifact = artifact
      /\ DOMAIN r.rows = {} /\ r.snapshot = {} /\ r.metric = {}
      /\ \A e \in stored : e < r.start
  BY <1>2, <1>4, NewModelIs DEF LearnerInv
<1>6. /\ DOMAIN model' = DOMAIN model \cup {m} /\ model'[m] = r
      /\ \A x \in DOMAIN model \ {m} : model'[x] = model[x]
  BY <1>1, <1>4 DEF Add
<1>7. BaseOf(r).learned = <<>> /\ MetricKept(r) /\ DOMAIN r.rows \subseteq stored
  BY <1>5, BaseIs DEF MetricKept
<1>8. TrackerOf(r).scored = <<>>
  BY <1>5 DEF TrackerOf
<1>9. UNCHANGED <<queue, cache>>
  BY <1>1
<1>10. NewTo(m, r.artifact)
  BY <1>1, <1>5, <1>6 DEF MeetsNoResident, Resident, NewTo
<1>. QED
  BY <1>10, <1>3, <1>5, <1>6, <1>7, <1>8, <1>9, AddingRemembers

(* A snapshot of an artifact that has learned nothing. *)
LEMMA PickleOfArtifact ==
  ASSUME NEW r \in Registrations, NEW c, c.artifact \in Nat, c.learned = <<>>,
         NEW q, q = SavePickleSnapshot(r, c)
  PROVE  /\ q \in Registrations /\ q.artifact = r.artifact /\ q.start = r.start /\ q.rows = r.rows
         /\ q.metric = r.metric /\ BaseOf(q).learned = <<>>
<1>1. PICK s : s = [artifact |-> c.artifact, learned |-> c.learned, checkpoint |-> r.labelCursor]
  OBVIOUS
<1>2. s \in Snapshots
  BY <1>1 DEF Snapshots, Registrations
<1>3. q = [r EXCEPT !.snapshot = {s}]
  BY <1>1 DEF SavePickleSnapshot
<1>4. /\ q \in Registrations /\ q.artifact = r.artifact /\ q.start = r.start /\ q.rows = r.rows
      /\ q.metric = r.metric /\ q.snapshot = {s}
  BY <1>2, <1>3 DEF Registrations
<1>5. BaseOf(q) = s
  BY <1>4, BaseIs
<1>. QED
  BY <1>1, <1>4, <1>5

(* Bootstrap *)
LEMMA BootstrapRemembers == ASSUME LearnerInv, MemoryInv, Bootstrap PROVE MemoryInv' /\ Recollects
<1>1. PICK m \in Models \ DOMAIN model :
        /\ uploads' = uploads + 1
        /\ Add(m, SavePickleSnapshot(NewModel(uploads'), [artifact |-> uploads', learned |-> <<>>]))
        /\ UNCHANGED <<queue, cache, faults>>
  BY DEF Bootstrap
<1>2. uploads' \in Nat /\ uploads <= uploads' /\ uploads' > uploads
  BY <1>1, LearnerAssumption DEF LearnerInv
<1>3. PICK base : base = NewModel(uploads')
  OBVIOUS
<1>4. /\ base \in Registrations /\ base.artifact = uploads'
      /\ DOMAIN base.rows = {} /\ base.metric = {}
      /\ \A e \in stored : e < base.start
  BY <1>2, <1>3, NewModelIs DEF LearnerInv
<1>5. PICK c : c = [artifact |-> uploads', learned |-> <<>>]
  OBVIOUS
<1>6. PICK r : r = SavePickleSnapshot(base, c)
  OBVIOUS
<1>7. /\ r \in Registrations /\ r.artifact = base.artifact /\ r.start = base.start /\ r.rows = base.rows
      /\ r.metric = base.metric /\ BaseOf(r).learned = <<>>
  <2>1. c.artifact \in Nat /\ c.learned = <<>>
    BY <1>2, <1>5
  <2>. QED
    BY <1>4, <1>6, <2>1, PickleOfArtifact
<1>8. MetricKept(r) /\ TrackerOf(r).scored = <<>> /\ DOMAIN r.rows \subseteq stored
  BY <1>4, <1>7 DEF MetricKept, TrackerOf
<1>9. /\ DOMAIN model' = DOMAIN model \cup {m} /\ model'[m] = r
      /\ \A x \in DOMAIN model \ {m} : model'[x] = model[x]
  BY <1>1, <1>3, <1>5, <1>6 DEF Add
<1>10. UNCHANGED <<queue, cache>> /\ NewTo(m, r.artifact)
  BY <1>1, <1>2, <1>4, <1>7, UnseenIsNew
<1>. QED
  BY <1>2, <1>4, <1>7, <1>8, <1>9, <1>10, AddingRemembers

(* Delete *)
LEMMA DeleteRemembers == ASSUME LearnerInv, MemoryInv, Delete PROVE MemoryInv' /\ Recollects
<1>1. PICK m \in DOMAIN model :
        /\ model' = [x \in DOMAIN model \ {m} |-> model[x]]
        /\ UNCHANGED <<queue, cache, uploads, faults>>
  BY DEF Delete
<1>2. \A x \in DOMAIN model : Remembers(x, model[x]) /\ DOMAIN model[x].rows \subseteq stored
  BY DEF LearnerInv, RegOK, MemoryInv
<1>3. \A x \in DOMAIN model' : x \in DOMAIN model /\ model'[x] = model[x]
  BY <1>1
<1>4. uploads' \in Nat /\ uploads <= uploads' /\ cache' = cache /\ UNCHANGED queue
  BY <1>1, LearnerAssumption DEF LearnerInv
<1>5. \A x \in DOMAIN model' :
        /\ DOMAIN model'[x].rows \subseteq stored /\ Remembers(x, model'[x])
        /\ x \in DOMAIN model /\ model'[x].artifact = model[x].artifact
        /\ LoadOf(x, model'[x]) = LoadOf(x, model[x])
  BY <1>2, <1>3
<1>. QED
  BY <1>4, <1>5, RegistrationsRemember

(* Promote *)
LEMMA PromoteRemembers == ASSUME LearnerInv, MemoryInv, Promote PROVE MemoryInv' /\ Recollects
<1>1. PICK m \in DOMAIN model, paused \in BOOLEAN :
        /\ uploads' = uploads + 1
        /\ model' = [model EXCEPT ![m] = [Promoted(model[m], uploads') EXCEPT !.paused = paused]]
        /\ UNCHANGED <<queue, cache, faults>>
  BY DEF Promote
<1>2. uploads' \in Nat /\ uploads <= uploads' /\ uploads' > uploads
  BY <1>1, LearnerAssumption DEF LearnerInv
<1>3. PICK t : t = [scored |-> <<>>, predictions |-> 0]
  OBVIOUS
<1>4. PICK replaced : replaced = [model[m] EXCEPT !.artifact = uploads', !.metric = {t}]
  OBVIOUS
<1>5. model[m] \in Registrations /\ DOMAIN model[m].rows \subseteq stored /\ t \in Metrics /\ t.scored = <<>>
  BY <1>3 DEF LearnerInv, RegOK, Metrics
<1>6. /\ replaced \in Registrations /\ replaced.artifact = uploads' /\ replaced.metric = {t}
      /\ replaced.rows = model[m].rows
  BY <1>2, <1>4, <1>5 DEF Registrations
<1>7. PICK next : next = AtFrontier(replaced)
  OBVIOUS
<1>8. /\ next \in Registrations /\ next.artifact = uploads'
      /\ next.rows = model[m].rows /\ next.metric = {t}
      /\ \A e \in stored : e < next.start
  BY <1>6, <1>7, FrontierIs DEF LearnerInv
<1>9. PICK c : c = [artifact |-> uploads', learned |-> <<>>]
  OBVIOUS
<1>10. PICK saved : saved = SavePickleSnapshot(next, c)
  OBVIOUS
<1>11. /\ saved \in Registrations /\ saved.artifact = next.artifact /\ saved.start = next.start
       /\ saved.rows = next.rows /\ saved.metric = next.metric /\ BaseOf(saved).learned = <<>>
  <2>1. c.artifact \in Nat /\ c.learned = <<>>
    BY <1>2, <1>9
  <2>. QED
    BY <1>8, <1>10, <2>1, PickleOfArtifact
<1>12. saved = Promoted(model[m], uploads')
  BY <1>3, <1>4, <1>7, <1>9, <1>10 DEF Promoted
<1>13. PICK r : r = [saved EXCEPT !.paused = paused]
  OBVIOUS
<1>14. /\ r \in Registrations /\ r.artifact = uploads' /\ r.start = next.start
       /\ r.rows = model[m].rows /\ r.metric = {t} /\ r.snapshot = saved.snapshot
  BY <1>8, <1>11, <1>13 DEF Registrations
<1>15. BaseOf(r).learned = <<>>
  <2>1. CASE saved.snapshot = {}
    BY <1>14, <2>1, BaseIs
  <2>2. CASE saved.snapshot # {}
    BY <1>11, <1>14, <2>2 DEF BaseOf
  <2>. QED
    BY <2>1, <2>2
<1>16. TrackerOf(r).scored = <<>> /\ MetricKept(r)
  <2>1. TrackerOf(r) = t
    BY <1>14 DEF TrackerOf
  <2>. QED
    BY <1>5, <1>14, <2>1 DEF MetricKept
<1>17. /\ DOMAIN model' = DOMAIN model \cup {m} /\ model'[m] = r
       /\ \A x \in DOMAIN model \ {m} : model'[x] = model[x]
  BY <1>1, <1>12, <1>13
<1>18. UNCHANGED <<queue, cache>> /\ DOMAIN r.rows \subseteq stored /\ NewTo(m, r.artifact)
  BY <1>1, <1>2, <1>5, <1>14, UnseenIsNew
<1>. QED
  BY <1>2, <1>8, <1>14, <1>15, <1>16, <1>17, <1>18, AddingRemembers

(* ArchivePurge *)
LEMMA ArchivePurgeRemembers == ASSUME LearnerInv, MemoryInv, ArchivePurge PROVE MemoryInv' /\ Recollects
<1>1. PICK gone : PurgeFacts(gone)
  BY PurgeSteps
<1>2. DOMAIN model' = DOMAIN model /\ cache' = cache /\ uploads' = uploads /\ uploads \in Nat
  BY <1>1, LearnerAssumption DEF PurgeFacts, LearnerInv
<1>3. \A m \in DOMAIN model' : m \in DOMAIN model /\ model'[m].artifact = model[m].artifact
  BY <1>1, <1>2 DEF PurgeFacts
<1>4. \A m \in DOMAIN model' : Remembers(m, model[m])' /\ Load(m)' = Load(m)
  BY <1>1, <1>2, PurgingRemembers DEF MemoryInv
<1>. QED
  BY <1>2, <1>3, <1>4, CacheStays

(* Every step keeps memory. *)
LEMMA StepRemembers ==
  ASSUME LearnerInv, MemoryInv, Next, MeetsNoResident
  PROVE  MemoryInv' /\ Recollects
<1>1. CASE StoreCommits
  BY <1>1, StoreCommitsRemembers
<1>2. CASE LearnOnce
  BY <1>2, LearnOnceRemembers
<1>3. CASE LoseCache
  BY <1>3, LoseCacheRemembers
<1>4. CASE RetryElapses
  BY <1>4, RetryElapsesRemembers
<1>5. CASE Register
  BY <1>5, RegisterRemembers
<1>6. CASE Bootstrap
  BY <1>6, BootstrapRemembers
<1>7. CASE Delete
  BY <1>7, DeleteRemembers
<1>8. CASE Promote
  BY <1>8, PromoteRemembers
<1>9. CASE ArchivePurge
  BY <1>9, ArchivePurgeRemembers
<1>. QED
  BY <1>1, <1>2, <1>3, <1>4, <1>5, <1>6, <1>7, <1>8, <1>9 DEF Next

(* Nothing moves. *)
LEMMA StutterRemembers == ASSUME LearnerInv, MemoryInv, UNCHANGED vars PROVE MemoryInv'
<1>1. QueueOK /\ UNCHANGED queue /\ UNCHANGED <<model, cache, uploads>>
  BY DEF LearnerInv, vars, queue
<1>. QED
  BY <1>1, StillQueueGrows, GrownRemembers

LEMMA MemoryLasts == Spec /\ NoReunion => [](LearnerInv /\ MemoryInv)
<1>1. Init => MemoryInv
  BY DEF Init, MemoryInv, RestartEquivalence
<1>2. LearnerInv /\ MemoryInv /\ [Next]_vars /\ [MeetsNoResident]_vars => MemoryInv'
  BY StepRemembers, StutterRemembers
<1>. QED
  BY <1>1, <1>2, Invariance, PTL DEF Spec, NoReunion

(* With artifacts that are not shared, a registration brings one nobody has   *)
(* seen, and nothing resident is of it.                                      *)
LEMMA UnsharedStep ==
  ASSUME SharedUploads = FALSE, LearnerInv, MemoryInv, Next
  PROVE  MeetsNoResident
<1>1. CASE Register \/ Bootstrap
  <2>1. PICK m \in Models \ DOMAIN model :
          /\ cache' = cache /\ DOMAIN model' = DOMAIN model \cup {m}
          /\ model'[m].artifact = uploads + 1
    <3>1. CASE Register
      <4>1. PICK m \in Models \ DOMAIN model :
              Add(m, NewModel(uploads + 1)) /\ cache' = cache
        BY <3>1 DEF Register
      <4>2. NewModel(uploads + 1).artifact = uploads + 1
        BY LearnerAssumption, NewModelIs DEF LearnerInv
      <4>. QED
        BY <4>1, <4>2 DEF Add
    <3>2. CASE Bootstrap
      <4>1. PICK base : base = NewModel(uploads + 1)
        OBVIOUS
      <4>2. PICK c : c = [artifact |-> uploads + 1, learned |-> <<>>]
        OBVIOUS
      <4>3. PICK m \in Models \ DOMAIN model : Add(m, SavePickleSnapshot(base, c)) /\ cache' = cache
        BY <3>2, <4>1, <4>2 DEF Bootstrap
      <4>4. base \in Registrations /\ base.artifact = uploads + 1 /\ c.artifact \in Nat /\ c.learned = <<>>
        BY <4>1, <4>2, LearnerAssumption, NewModelIs DEF LearnerInv
      <4>5. SavePickleSnapshot(base, c).artifact = uploads + 1
        BY <4>4, PickleOfArtifact
      <4>. QED
        BY <4>3, <4>5 DEF Add
    <3>. QED
      BY <1>1, <3>1, <3>2
  <2>2. uploads + 1 \in Nat /\ uploads + 1 > uploads
    BY LearnerAssumption DEF LearnerInv
  <2>3. NewTo(m, uploads + 1)
    BY <2>2, UnseenIsNew
  <2>. QED
    BY <2>1, <2>3 DEF MeetsNoResident, Resident, NewTo
<1>2. CASE ~(Register \/ Bootstrap)
  <2>1. DOMAIN model' \subseteq DOMAIN model
    <3>1. CASE StoreCommits \/ LoseCache
      BY <3>1, StoreGrows DEF LoseCache
    <3>2. CASE LearnOnce
      <4>1. PICK failing, due : Cycle(failing, due)
        BY <3>2 DEF LearnOnce
      <4>. QED
        BY <4>1, Zenon DEF Cycle
    <3>3. CASE RetryElapses \/ Delete \/ Promote
      BY <3>3 DEF RetryElapses, Delete, Promote
    <3>4. CASE ArchivePurge
      BY <3>4, PurgeSteps DEF PurgeFacts
    <3>. QED
      BY <1>2, <3>1, <3>2, <3>3, <3>4 DEF Next
  <2>. QED
    BY <2>1 DEF MeetsNoResident
<1>. QED
  BY <1>1, <1>2
-----------------------------------------------------------------------------
(* The theorems                                                             *)

(* When no upload repeats the bytes of a registered artifact, as in the runs   *)
(* of the properties below, no registration meets a resident model.           *)
THEOREM UnsharedNeverReunite == ASSUME SharedUploads = FALSE PROVE Spec => NoReunion
<1>1. Init => MemoryInv
  BY DEF Init, MemoryInv, RestartEquivalence
<1>2. LearnerInv /\ MemoryInv /\ [Next]_vars => MemoryInv' /\ [MeetsNoResident]_vars
  BY StepRemembers, StutterRemembers, UnsharedStep
<1>. QED
  BY <1>1, <1>2, Invariance, PTL DEF Spec, NoReunion

(* RestartEquivalence: a resident model is what a restart would rebuild, the  *)
(* last snapshot with the labels learned since replayed in order.             *)
THEOREM ModelsSurviveRestarts == Spec /\ NoReunion => []RestartEquivalence
<1>1. MemoryInv => RestartEquivalence
  BY DEF MemoryInv
<1>. QED
  BY <1>1, MemoryLasts, PTL

(* CleanLearning: every label is learned and scored at most once, in the      *)
(* order of the ready queue, and none is of an earlier generation.            *)
THEOREM LearningIsClean == Spec /\ NoReunion => []CleanLearning
<1>1. MemoryInv => CleanLearning
  <2> SUFFICES ASSUME MemoryInv, NEW m \in DOMAIN model, NEW labels \in {Load(m).learned, Load(m).tracker.scored}
               PROVE  InOrder(labels) /\ \A i \in 1..Len(labels) : labels[i].event >= model[m].start
    BY DEF CleanLearning
  <2>1. labels = LearnedOf(m, model[m]) \/ labels = TrackerOf(model[m]).scored
    BY LoadIs DEF LoadOf
  <2>2. Placed(labels, model[m])
    BY <2>1 DEF MemoryInv, Remembers, Tells
  <2>. QED
    BY <2>2 DEF Placed
<1>. QED
  BY <1>1, MemoryLasts, PTL

(* RowsTellTheState: the rows the archive trusts tell what the model went     *)
(* through.                                                                   *)
THEOREM RowsAreTrue == Spec /\ NoReunion => []RowsTellTheState
<1>1. MemoryInv => RowsTellTheState
  <2> SUFFICES ASSUME MemoryInv, NEW m \in DOMAIN model, NEW e \in DOMAIN model[m].rows \cap known,
                      e >= model[m].start
               PROVE  /\ e \in EventsOf(Load(m).tracker.scored)
                           <=> model[m].rows[e].status = "predicted" /\ model[m].rows[e].trained = "yes"
                      /\ e \in EventsOf(Load(m).learned)
                           <=> m \in LearningModels /\ model[m].rows[e].trained = "yes"
    BY DEF RowsTellTheState
  <2>1. Tells(m, model[m], Load(m).learned, Load(m).tracker.scored)
    BY LoadIs DEF LoadOf, MemoryInv, Remembers
  <2>. QED
    BY <2>1 DEF Tells
<1>. QED
  BY <1>1, MemoryLasts, PTL

(* NewModelsStartFresh: a model that has processed nothing knows nothing.  The *)
(* run in which it does needs what NoReunion rules out.                       *)
THEOREM NewModelsAreFresh == Spec /\ NoReunion => []NewModelsStartFresh
<1>1. LearnerInv /\ MemoryInv => NewModelsStartFresh
  <2> SUFFICES ASSUME LearnerInv, MemoryInv, NEW m \in DOMAIN cache \cap DOMAIN model, Resident(m),
                      model[m].rows = [e \in {} |-> 0], model[m].snapshot = {}
               PROVE  cache[m].learned = <<>>
    BY DEF NewModelsStartFresh
  <2>1. PICK r : r = model[m]
    OBVIOUS
  <2>2. r \in Registrations /\ DOMAIN r.rows = {}
    BY <2>1 DEF LearnerInv, RegOK
  <2>3. TrainedSinceCheckpoint(r) = {}
    BY <2>2 DEF TrainedSinceCheckpoint
  <2>4. BaseOf(r).learned = <<>> /\ BaseOf(r).learned \in Seq(Labels)
    BY <2>1, <2>2, BaseIs
  <2>5. LearnedOf(m, r) = <<>>
    BY <2>3, <2>4, LearnedIs, ThenNothing
  <2>6. cache[m] = Load(m)
    BY DEF MemoryInv, RestartEquivalence
  <2>. QED
    BY <2>1, <2>5, <2>6, LoadIs DEF LoadOf
<1>. QED
  BY <1>1, MemoryLasts, PTL

(* LearningSurvives: whatever fails, is skipped, is checkpointed or is        *)
(* archived, the state a restart rebuilds only grows until the model is       *)
(* deleted or replaced.                                                       *)
THEOREM LearningLasts == Spec /\ NoReunion => LearningSurvives
<1> DEFINE Grows == \A m \in DOMAIN model \cap DOMAIN model' :
                      model'[m].artifact = model[m].artifact => IsPrefix(Load(m).learned, Load(m)'.learned)
<1>1. LearnerInv /\ MemoryInv /\ [Next]_vars /\ [MeetsNoResident]_vars => [Grows]_vars
  <2> SUFFICES ASSUME LearnerInv, MemoryInv, Next, MeetsNoResident PROVE Grows
    OBVIOUS
  <2>1. Recollects
    BY StepRemembers
  <2>. QED
    BY <2>1 DEF Recollects, NewTo
<1>. QED
  BY <1>1, MemoryLasts, PTL DEF Spec, NoReunion, LearningSurvives
==============================================================================
