-------------------------- MODULE EventStore_proofs --------------------------
(* Theorems about EventStore.  Each operator from store to store gets lemmas  *)
(* of its own; the theorems compose them in the order of the calls.           *)
EXTENDS EventStore, TLAPS, FiniteSetTheorems, WellFoundedInduction

(* ------------------------------ Tables -------------------------------- *)

Tables(rows) == UNION {[keys -> rows] : keys \in SUBSET Ids}

Stores == [event : Tables(EventRows), label : Tables(LabelRows), ready : Tables(Nat),
           schedule : SUBSET Ids, eventSequence : Nat, readySequence : Nat]

(* What it means to be a table. *)
LEMMA TableDef ==
  ASSUME NEW R, NEW f
  PROVE  f \in Tables(R) <=> f \in [DOMAIN f -> R] /\ DOMAIN f \subseteq Ids
BY DEF Tables

(* What a DELETE leaves. *)
LEMMA WithoutFacts ==
  ASSUME NEW f, NEW K
  PROVE  /\ DOMAIN Without(f, K) = DOMAIN f \ K
         /\ \A id \in DOMAIN f \ K : Without(f, K)[id] = f[id]
BY DEF Without

(* A table stays one when rows are deleted, *)
LEMMA WithoutType ==
  ASSUME NEW R, NEW f \in Tables(R), NEW K
  PROVE  Without(f, K) \in Tables(R)
BY TableDef DEF Without

(* What ON CONFLICT DO NOTHING inserts. *)
LEMMA InsertNewFacts ==
  ASSUME NEW f, NEW g
  PROVE  /\ DOMAIN InsertNew(f, g) = DOMAIN f \cup DOMAIN g
         /\ \A id \in DOMAIN f : InsertNew(f, g)[id] = f[id]
         /\ \A id \in DOMAIN g \ DOMAIN f : InsertNew(f, g)[id] = g[id]
BY DEF InsertNew

(* A table stays one when rows are inserted. *)
LEMMA InsertNewType ==
  ASSUME NEW R, NEW f \in Tables(R), NEW g \in Tables(R)
  PROVE  InsertNew(f, g) \in Tables(R)
BY TableDef DEF InsertNew

(* ----------------------- Numbering a batch ---------------------------- *)

(* allocate_sequence gives a batch distinct numbers above the last one drawn, *)
(* within the range it reserves.                                              *)
LEMMA NumberingType ==
  ASSUME NEW K \in SUBSET Ids, NEW low \in Nat, NEW order \in Orders
  PROVE  /\ Cardinality(K) \in Nat
         /\ Numbering(K, low, order) \in Tables(Nat)
         /\ DOMAIN Numbering(K, low, order) = K
         /\ \A id \in K : Numbering(K, low, order)[id] \in (low + 1)..(low + Cardinality(K))
         /\ \A id, other \in K :
              Numbering(K, low, order)[id] = Numbering(K, low, order)[other] => id = other
<1> DEFINE below(id) == {other \in K : order[other] <= order[id]}
<1>0. /\ IsFiniteSet(K) /\ order \in [Ids -> Nat]
      /\ \A id, other \in Ids : order[id] = order[other] => id = other
  BY StoreAssumption, FS_Subset DEF StoreAssumption
<1>1. Cardinality(K) \in Nat
  BY <1>0, FS_CardinalityType
<1>2. \A id \in K : IsFiniteSet(below(id)) /\ Cardinality(below(id)) \in Nat
                    /\ Cardinality(below(id)) <= Cardinality(K)
  BY <1>0, FS_Subset, FS_CardinalityType
<1>3. \A id \in K : Cardinality(below(id)) # 0
  <2> SUFFICES ASSUME NEW id \in K PROVE below(id) # {}
    BY <1>2, FS_EmptySet
  <2>1. order[id] <= order[id]
    BY <1>0
  <2> QED
    BY <2>1
<1>4. ASSUME NEW id \in K, NEW other \in K, Cardinality(below(id)) = Cardinality(below(other))
      PROVE  id = other
  <2>1. order[id] \in Nat /\ order[other] \in Nat /\ \A x \in K : order[x] \in Nat
    BY <1>0
  <2>2. below(id) \subseteq below(other) \/ below(other) \subseteq below(id)
    BY <2>1
  <2>3. below(id) = below(other)
    BY <2>2, <1>2, <1>4, FS_Subset
  <2>4. order[id] <= order[other] /\ order[other] <= order[id]
    BY <2>1, <2>3
  <2> QED
    BY <2>1, <2>4, <1>0
<1>5. Numbering(K, low, order) = [id \in K |-> low + Cardinality(below(id))]
  BY DEF Numbering
<1> HIDE DEF below
<1>6. \A id \in K : low + Cardinality(below(id)) \in (low + 1)..(low + Cardinality(K))
  BY <1>1, <1>2, <1>3
<1>7. \A id \in K : low + Cardinality(below(id)) \in Nat
  BY <1>2
<1>8. Numbering(K, low, order) \in Tables(Nat)
  BY <1>5, <1>7, TableDef
<1>9. ASSUME NEW id \in K, NEW other \in K,
             Numbering(K, low, order)[id] = Numbering(K, low, order)[other]
      PROVE  id = other
  BY <1>2, <1>4, <1>5, <1>9
<1> QED
  BY <1>1, <1>5, <1>6, <1>8, <1>9

(* ------------------ Marking labels ready, adding labels ---------------- *)

(* The queue and the schedule are exact but for the keys K, which a        *)
(* transaction has stored and not yet marked.                              *)
ExactExcept(store, K) ==
  LET matched == DOMAIN store.event \cap DOMAIN store.label
      pending == DOMAIN store.event \ DOMAIN store.label
  IN  /\ DOMAIN store.ready \subseteq matched /\ matched \ K \subseteq DOMAIN store.ready
      /\ policy => /\ pending \subseteq store.schedule /\ store.schedule \subseteq DOMAIN store.event
                      /\ store.schedule \cap DOMAIN store.label \subseteq K
      /\ ~policy => store.schedule = {}

(* TypeOK says the same of db in a form TLC evaluates. *)
LEMMA IsStoreDef ==
  ASSUME NEW store
  PROVE  IsStore(store) <=> store \in Stores
<1>1. ASSUME NEW f, NEW rows PROVE IsTable(f, rows) <=> f \in Tables(rows)
  BY TableDef DEF IsTable
<1>2. ASSUME IsStore(store) PROVE store \in Stores
  BY <1>1, <1>2 DEF IsStore, Stores
<1>3. ASSUME store \in Stores PROVE IsStore(store)
  BY <1>1, <1>3 DEF IsStore, Stores
<1> QED
  BY <1>2, <1>3

Typed(store) == store \in Stores /\ Numbered(store)

(* The tables of a store. *)
LEMMA StoreFields ==
  ASSUME NEW store \in Stores
  PROVE  /\ store.event \in Tables(EventRows) /\ store.label \in Tables(LabelRows)
         /\ store.ready \in Tables(Nat) /\ store.schedule \in SUBSET Ids
         /\ store.eventSequence \in Nat /\ store.readySequence \in Nat
BY DEF Stores

(* The two tables and the sequence that _mark_ready_labels writes. *)
LEMMA EnqueueFields ==
  ASSUME NEW store \in Stores, NEW matched, NEW order
  PROVE  /\ Enqueue(store, matched, order).event = store.event
         /\ Enqueue(store, matched, order).label = store.label
         /\ Enqueue(store, matched, order).eventSequence = store.eventSequence
         /\ Enqueue(store, matched, order).readySequence
               = store.readySequence + Cardinality(matched)
         /\ Enqueue(store, matched, order).ready
               = InsertNew(store.ready, Numbering(matched, store.readySequence, order))
         /\ Enqueue(store, matched, order).schedule = store.schedule \ matched
BY DEF Enqueue, Stores

(* Its writes keep the types: the numbers it queues with were drawn. *)
LEMMA EnqueueType ==
  ASSUME NEW store, Typed(store), NEW matched \in SUBSET Ids, NEW order \in Orders
  PROVE  /\ Typed(Enqueue(store, matched, order))
         /\ DOMAIN Enqueue(store, matched, order).ready = DOMAIN store.ready \cup matched
<1> DEFINE places == Numbering(matched, store.readySequence, order)
           size == Cardinality(matched)
           total == store.readySequence + size
           queued == InsertNew(store.ready, places)
           scheduled == store.schedule \ matched
           result == Enqueue(store, matched, order)
<1>0. store \in Stores /\ Numbered(store)
  BY DEF Typed
<1>1. store.readySequence \in Nat /\ store.ready \in Tables(Nat) /\ store.schedule \in SUBSET Ids
  BY <1>0, StoreFields
<1>2. size \in Nat /\ \A id \in matched : places[id] \in (store.readySequence + 1)..(store.readySequence + size)
  BY <1>1, NumberingType
<1>3. places \in Tables(Nat) /\ DOMAIN places = matched
  BY <1>1, NumberingType
<1>4. queued \in Tables(Nat)
  <2> HIDE DEF places
  <2> QED
    BY <1>1, <1>3, InsertNewType, Zenon
<1>5. /\ DOMAIN queued = DOMAIN store.ready \cup matched
      /\ \A id \in DOMAIN store.ready : queued[id] = store.ready[id]
      /\ \A id \in matched \ DOMAIN store.ready : queued[id] = places[id]
  <2>1. /\ DOMAIN queued = DOMAIN store.ready \cup DOMAIN places
        /\ \A id \in DOMAIN store.ready : queued[id] = store.ready[id]
        /\ \A id \in DOMAIN places \ DOMAIN store.ready : queued[id] = places[id]
    BY InsertNewFacts, Zenon
  <2> HIDE DEF places, queued
  <2> QED
    BY <2>1, <1>3, Zenon
<1>6. total \in Nat /\ scheduled \in SUBSET Ids
  BY <1>1, <1>2
<1>7. result = [store EXCEPT !.schedule = scheduled, !.ready = queued, !.readySequence = total]
  BY DEF Enqueue
<1> HIDE DEF places, size, total, queued, scheduled, result
<1>8. /\ result.event = store.event /\ result.label = store.label
      /\ result.eventSequence = store.eventSequence /\ result.readySequence = total
      /\ result.ready = queued /\ result.schedule = scheduled
  BY <1>0, <1>7 DEF Stores
<1>9. result \in Stores
  BY <1>0, <1>4, <1>6, <1>7 DEF Stores
<1>10. \A id \in DOMAIN store.ready : store.ready[id] \in 1..store.readySequence
  BY <1>0 DEF Numbered
<1>11. \A id \in DOMAIN queued : queued[id] \in 1..total
  BY <1>1, <1>2, <1>5, <1>10 DEF total
<1>12. Numbered(result)
  BY <1>0, <1>8, <1>11 DEF Numbered
<1> QED
  BY <1>5, <1>8, <1>9, <1>12 DEF Typed, places, size, total, queued, scheduled, result

(* _mark_ready_labels keeps the types and marks what J still lacked. *)
LEMMA MarkReadyKeeps ==
  ASSUME NEW store, Typed(store), NEW K, NEW J \in SUBSET Ids, NEW order \in Orders,
         ExactExcept(store, K \cup J)
  PROVE  LET result == MarkReady(store, J, order) IN
         /\ Typed(result) /\ ExactExcept(result, K)
         /\ result.event = store.event /\ result.label = store.label
<1> DEFINE matched == J \cap DOMAIN store.event \cap DOMAIN store.label
           result == MarkReady(store, J, order)
<1>1. matched \in SUBSET Ids
  OBVIOUS
<1>2. result = Enqueue(store, matched, order)
  BY DEF MarkReady
<1>3. /\ Typed(result)
      /\ result.event = store.event /\ result.label = store.label
      /\ DOMAIN result.ready = DOMAIN store.ready \cup matched
      /\ result.schedule = store.schedule \ matched
  <2> HIDE DEF matched, result
  <2>1. /\ Typed(Enqueue(store, matched, order))
        /\ DOMAIN Enqueue(store, matched, order).ready = DOMAIN store.ready \cup matched
    BY <1>1, EnqueueType, Zenon
  <2>2. store \in Stores
    BY DEF Typed
  <2> QED
    BY <1>2, <2>1, <2>2, EnqueueFields
<1> HIDE DEF result
<1>4. ExactExcept(result, K)
  BY <1>3 DEF ExactExcept
<1> QED
  BY <1>3, <1>4 DEF result

(* add_labels keeps the types, and marks the labels it inserts. *)
LEMMA AddLabelsKeeps ==
  ASSUME NEW store, Typed(store), NEW rows \in Tables(LabelRows), NEW K,
         NEW enforce \in BOOLEAN, NEW order \in Orders, ExactExcept(store, K)
  PROVE  /\ Typed(AddLabels(store, rows, enforce, order))
         /\ ExactExcept(AddLabels(store, rows, enforce, order), K)
         /\ AddLabels(store, rows, enforce, order).event = store.event
<1> DEFINE late == {id \in DOMAIN rows \cap DOMAIN store.event : Late(id, rows[id])}
           kept == IF enforce THEN DOMAIN rows \ late ELSE DOMAIN rows
           inserted == kept \ DOMAIN store.label
           added == [id \in kept |-> rows[id]]
           labels == InsertNew(store.label, added)
           stored == [store EXCEPT !.label = labels]
<1>0. store \in Stores /\ Numbered(store)
  BY DEF Typed
<1>1. kept \subseteq DOMAIN rows /\ DOMAIN rows \subseteq Ids
  BY TableDef
<1>2. added \in Tables(LabelRows) /\ DOMAIN added = kept
  BY <1>1, TableDef
<1>3. AddLabels(store, rows, enforce, order) = MarkReady(stored, inserted, order)
  BY DEF AddLabels
<1> HIDE DEF late, kept, added
<1>4. store.label \in Tables(LabelRows)
  BY <1>0, StoreFields
<1>5. labels \in Tables(LabelRows)
  BY <1>2, <1>4, InsertNewType, Zenon
<1>6. DOMAIN labels = DOMAIN store.label \cup kept
  BY <1>2, InsertNewFacts
<1> HIDE DEF labels
<1>7. /\ stored.event = store.event /\ stored.ready = store.ready /\ stored.label = labels
      /\ stored.schedule = store.schedule /\ stored.eventSequence = store.eventSequence
      /\ stored.readySequence = store.readySequence
  BY <1>0 DEF Stores
<1>8. stored \in Stores
  BY <1>0, <1>5 DEF Stores
<1> HIDE DEF stored
<1>9. Typed(stored)
  BY <1>0, <1>7, <1>8 DEF Typed, Numbered
<1>10. ExactExcept(stored, K \cup inserted)
  BY <1>6, <1>7 DEF ExactExcept
<1>11. inserted \in SUBSET Ids
  BY <1>1
<1> HIDE DEF inserted
<1> QED
  BY <1>3, <1>7, <1>9, <1>10, <1>11, MarkReadyKeeps

(* ------------------------- Forecast matching --------------------------- *)

(* A set of numbers has a least one. *)
LEMMA LeastNumber ==
  ASSUME NEW S \in SUBSET Nat, S # {}
  PROVE  \E m \in S : \A n \in S : m <= n
<1>1. \E m \in S : \A n \in S : ~ (<<n, m>> \in OpToRel(<, Nat))
  BY NatLessThanWellFounded, WFMin
<1>2. PICK m \in S : \A n \in S : ~ (<<n, m>> \in OpToRel(<, Nat))
  BY <1>1
<1>3. m \in S /\ \A n \in S : ~ (n < m)
  BY <1>2 DEF OpToRel
<1> QED
  BY <1>3

(* ORDER BY ts, position has a first row. *)
LEMMA FirstSupplyIsOne ==
  ASSUME NEW accepted \in SUBSET Ids, NEW id \in Ids, NEW position,
         \A key \in accepted : position[key] \in Nat,
         Supplies(accepted, id) # {}
  PROVE  FirstSupply(accepted, id, position) \in Supplies(accepted, id)
<1> DEFINE supply == Supplies(accepted, id)
           times == {Source[s].ts : s \in supply}
<1>1. supply \subseteq Ids /\ supply \subseteq accepted
  BY DEF Supplies
<1>2. \A s \in supply : Source[s].ts \in Nat
  BY <1>1, StoreAssumption DEF StoreAssumption
<1>3. PICK ts \in times : \A other \in times : ts <= other
  <2>1. times \in SUBSET Nat /\ times # {}
    BY <1>2
  <2> HIDE DEF times
  <2> QED
    BY <2>1, LeastNumber
<1> DEFINE oldest == {s \in supply : Source[s].ts = ts}
           places == {position[s] : s \in oldest}
<1>4. PICK place \in places : \A other \in places : place <= other
  <2>1. places \in SUBSET Nat /\ places # {}
    BY <1>1, <1>3
  <2> HIDE DEF places
  <2> QED
    BY <2>1, LeastNumber
<1>5. PICK s \in oldest : position[s] = place
  BY <1>4
<1>6. ASSUME NEW t \in supply PROVE Precedes(s, t, position)
  <2>1. Source[s].ts = ts /\ ts <= Source[t].ts /\ ts \in Nat /\ Source[t].ts \in Nat
    BY <1>2, <1>3, <1>5
  <2>2. CASE Source[t].ts = ts
    BY <2>1, <2>2, <1>4, <1>5 DEF Precedes
  <2>3. CASE Source[t].ts # ts
    BY <2>1, <2>3 DEF Precedes
  <2> QED
    BY <2>2, <2>3
<1>7. \E first \in supply : \A t \in supply : Precedes(first, t, position)
  BY <1>5, <1>6
<1> QED
  BY <1>7 DEF FirstSupply

(* match_forecasts resolves what is pending, with the value of a snapshot. *)
LEMMA MatchForecastsKeeps ==
  ASSUME NEW store, Typed(store), NEW accepted \in SUBSET Ids, NEW position,
         \A key \in accepted : position[key] \in Nat, now \in Nat,
         NEW order \in Orders, NEW K, ExactExcept(store, K)
  PROVE  /\ Typed(MatchForecasts(store, accepted, position, order))
         /\ ExactExcept(MatchForecasts(store, accepted, position, order), K)
         /\ MatchForecasts(store, accepted, position, order).event = store.event
<1> DEFINE value(id) == Source[FirstSupply(accepted, id, position)].value
           row(id) == [y |-> value(id), reason |-> "forecast-snapshot",
                       available |-> now, inserted |-> now]
           matched == {id \in store.schedule : Supplies(accepted, id) # {}}
           rows == [id \in matched |-> row(id)]
<1>1. matched \subseteq Ids
  BY StoreFields DEF Typed
<1>2. ASSUME NEW id \in matched PROVE row(id) \in LabelRows
  <2>1. FirstSupply(accepted, id, position) \in Supplies(accepted, id)
    BY <1>1, FirstSupplyIsOne
  <2>2. FirstSupply(accepted, id, position) \in Ids
    BY <2>1 DEF Supplies
  <2>3. value(id) \in Targets
    BY <2>2, StoreAssumption DEF StoreAssumption
  <2> HIDE DEF value
  <2> QED
    BY <2>3 DEF LabelRows, Reasons
<1>3. MatchForecasts(store, accepted, position, order) = AddLabels(store, rows, FALSE, order)
  BY DEF MatchForecasts
<1> HIDE DEF row, matched
<1>4. rows \in Tables(LabelRows)
  BY <1>1, <1>2, TableDef
<1> HIDE DEF rows
<1>5. FALSE \in BOOLEAN
  OBVIOUS
<1>6. /\ Typed(AddLabels(store, rows, FALSE, order))
      /\ ExactExcept(AddLabels(store, rows, FALSE, order), K)
      /\ AddLabels(store, rows, FALSE, order).event = store.event
  BY <1>4, <1>5, AddLabelsKeeps
<1> QED
  BY <1>3, <1>6

(* --------------------------- Observations ------------------------------ *)

(* The insert of add_events. *)
LEMMA StoreEventsKeeps ==
  ASSUME NEW store, Typed(store), now \in Nat, NEW count \in Nat, NEW keys \in SUBSET Ids,
         NEW position \in [keys -> 1..count]
  PROVE  /\ Typed(StoreEvents(store, position, count))
         /\ DOMAIN StoreEvents(store, position, count).event = DOMAIN store.event \cup keys
         /\ StoreEvents(store, position, count).label = store.label
         /\ StoreEvents(store, position, count).ready = store.ready
         /\ StoreEvents(store, position, count).schedule = store.schedule
<1> DEFINE low == store.eventSequence
           total == low + count
           row(id) == [sequence |-> low + position[id], inserted |-> now]
           rows == [id \in keys |-> row(id)]
           events == InsertNew(store.event, rows)
           stored == [store EXCEPT !.event = events, !.eventSequence = total]
<1>0. store \in Stores /\ Numbered(store)
  BY DEF Typed
<1>1. low \in Nat /\ store.event \in Tables(EventRows)
  BY <1>0, StoreFields
<1>2. total \in Nat /\ \A id \in keys : low + position[id] \in 1..total
  BY <1>1
<1>3. rows \in Tables(EventRows) /\ DOMAIN rows = keys
  <2>1. \A id \in keys : row(id) \in EventRows
    BY <1>2 DEF EventRows
  <2> HIDE DEF row
  <2> QED
    BY <2>1, TableDef
<1>4. \A id \in keys : rows[id].sequence \in 1..total
  BY <1>2
<1>5. StoreEvents(store, position, count) = stored
  BY DEF StoreEvents
<1> HIDE DEF rows
<1>6. events \in Tables(EventRows)
  BY <1>1, <1>3, InsertNewType, Zenon
<1>7. /\ DOMAIN events = DOMAIN store.event \cup keys
      /\ \A id \in DOMAIN store.event : events[id] = store.event[id]
      /\ \A id \in keys \ DOMAIN store.event : events[id] = rows[id]
  <2>1. /\ DOMAIN events = DOMAIN store.event \cup DOMAIN rows
        /\ \A id \in DOMAIN store.event : events[id] = store.event[id]
        /\ \A id \in DOMAIN rows \ DOMAIN store.event : events[id] = rows[id]
    BY InsertNewFacts, Zenon
  <2> HIDE DEF events
  <2> QED
    BY <2>1, <1>3, Zenon
<1>8. \A id \in DOMAIN store.event : store.event[id].sequence \in 1..low
  BY <1>0 DEF Numbered
<1>9. \A id \in DOMAIN events : events[id].sequence \in 1..total
  <2> SUFFICES ASSUME NEW id \in DOMAIN events PROVE events[id].sequence \in 1..total
    OBVIOUS
  <2>1. CASE id \in DOMAIN store.event
    BY <2>1, <1>1, <1>7, <1>8
  <2>2. CASE id \notin DOMAIN store.event
    BY <2>2, <1>4, <1>7
  <2> QED
    BY <2>1, <2>2
<1> HIDE DEF events, total
<1>10. /\ stored.event = events /\ stored.ready = store.ready /\ stored.label = store.label
       /\ stored.schedule = store.schedule /\ stored.eventSequence = total
       /\ stored.readySequence = store.readySequence
  BY <1>0 DEF Stores
<1>11. stored \in Stores
  BY <1>0, <1>2, <1>6 DEF Stores
<1> HIDE DEF stored
<1>12. Typed(stored)
  BY <1>0, <1>9, <1>10, <1>11 DEF Typed, Numbered
<1> QED
  BY <1>5, <1>7, <1>10, <1>12

(* The policy's part of add_events: what is new is all that is not yet marked. *)
LEMMA ScheduleKeeps ==
  ASSUME NEW store, Typed(store), NEW accepted \in SUBSET Ids
  PROVE  /\ Typed(Schedule(store, accepted))
         /\ Schedule(store, accepted).event = store.event
         /\ Schedule(store, accepted).ready = store.ready
         /\ DOMAIN Schedule(store, accepted).label \subseteq DOMAIN store.label
         /\ DOMAIN store.label \ DOMAIN Schedule(store, accepted).label \subseteq accepted
         /\ Schedule(store, accepted).schedule = store.schedule \cup accepted
<1> DEFINE late == {id \in accepted \cap DOMAIN store.label : Late(id, store.label[id])}
           labels == Without(store.label, late)
           scheduled == store.schedule \cup accepted
           result == [store EXCEPT !.label = labels, !.schedule = scheduled]
<1>0. store \in Stores /\ Numbered(store)
  BY DEF Typed
<1>1. late \subseteq accepted
  OBVIOUS
<1>2. Schedule(store, accepted) = result
  BY DEF Schedule
<1> HIDE DEF late
<1>3. store.label \in Tables(LabelRows) /\ store.schedule \in SUBSET Ids
  BY <1>0, StoreFields
<1>4. labels \in Tables(LabelRows)
  BY <1>3, WithoutType, Zenon
<1>5. DOMAIN labels = DOMAIN store.label \ late
  BY WithoutFacts
<1>6. scheduled \in SUBSET Ids
  BY <1>3
<1> HIDE DEF labels
<1>7. /\ result.event = store.event /\ result.ready = store.ready /\ result.label = labels
      /\ result.schedule = scheduled /\ result.eventSequence = store.eventSequence
      /\ result.readySequence = store.readySequence
  BY <1>0 DEF Stores
<1> HIDE DEF scheduled
<1>8. result \in Stores
  BY <1>0, <1>4, <1>6 DEF Stores
<1> HIDE DEF result
<1>9. Typed(result)
  BY <1>0, <1>7, <1>8 DEF Typed, Numbered
<1> QED
  BY <1>1, <1>2, <1>5, <1>7, <1>9 DEF scheduled

(* The queue is exact again once add_events has marked what it accepted. *)
LEMMA AddEventsKeeps ==
  ASSUME NEW store, Typed(store), ExactExcept(store, {}), now \in Nat, NEW count \in Nat,
         NEW keys \in SUBSET Ids, NEW position \in [keys -> 1..count], NEW order \in Orders
  PROVE  /\ Typed(AddEvents(store, position, count, order))
         /\ ExactExcept(AddEvents(store, position, count, order), {})
<1> DEFINE accepted == DOMAIN position \ DOMAIN store.event
           stored == StoreEvents(store, position, count)
           scheduled == Schedule(stored, accepted)
           forecast == MatchForecasts(scheduled, accepted, position, order)
           unmarked == IF policy /\ accepted # {} THEN forecast ELSE stored
<1>1. /\ accepted \in SUBSET Ids /\ DOMAIN position = keys
      /\ \A key \in accepted : position[key] \in Nat
  OBVIOUS
<1>2. AddEvents(store, position, count, order) = MarkReady(unmarked, accepted, order)
  BY DEF AddEvents
<1>3. /\ Typed(stored) /\ DOMAIN stored.event = DOMAIN store.event \cup accepted
      /\ stored.label = store.label /\ stored.ready = store.ready
      /\ stored.schedule = store.schedule
  <2>1. /\ Typed(stored) /\ DOMAIN stored.event = DOMAIN store.event \cup keys
        /\ stored.label = store.label /\ stored.ready = store.ready
        /\ stored.schedule = store.schedule
    BY StoreEventsKeeps
  <2> QED
    BY <1>1, <2>1
<1> HIDE DEF stored
<1> HIDE DEF accepted
<1>4. ASSUME policy /\ accepted # {}
      PROVE  Typed(unmarked) /\ ExactExcept(unmarked, accepted)
  <2>1. /\ Typed(scheduled) /\ scheduled.event = stored.event
        /\ scheduled.ready = stored.ready
        /\ DOMAIN scheduled.label \subseteq DOMAIN stored.label
        /\ DOMAIN stored.label \ DOMAIN scheduled.label \subseteq accepted
        /\ scheduled.schedule = stored.schedule \cup accepted
    BY <1>1, <1>3, ScheduleKeeps
  <2> HIDE DEF scheduled
  <2>2. ExactExcept(scheduled, accepted)
    BY <1>1, <1>3, <1>4, <2>1 DEF ExactExcept, accepted
  <2>3. Typed(forecast) /\ ExactExcept(forecast, accepted)
    BY <1>1, <2>1, <2>2, MatchForecastsKeeps
  <2> HIDE DEF forecast
  <2>4. unmarked = forecast
    BY <1>4
  <2> QED
    BY <2>3, <2>4
<1>5. ASSUME ~(policy /\ accepted # {})
      PROVE  Typed(unmarked) /\ ExactExcept(unmarked, accepted)
  <2>1. unmarked = stored
    BY <1>5
  <2>2. ExactExcept(stored, accepted)
    <3>1. CASE ~policy
      BY <1>1, <1>3, <3>1 DEF ExactExcept, accepted
    <3>2. CASE accepted = {}
      BY <1>3, <3>2 DEF ExactExcept
    <3> QED
      BY <1>5, <3>1, <3>2
  <2> HIDE DEF unmarked
  <2> QED
    BY <1>3, <2>1, <2>2
<1> HIDE DEF unmarked
<1>6. Typed(unmarked) /\ ExactExcept(unmarked, {} \cup accepted)
  <2>1. Typed(unmarked) /\ ExactExcept(unmarked, accepted)
    BY <1>4, <1>5
  <2> QED
    BY <2>1 DEF ExactExcept
<1> QED
  BY <1>1, <1>2, <1>6, MarkReadyKeeps
(* ---------------------- Defaults and the purges ------------------------ *)

(* resolve_due resolves pending observations by default. *)
LEMMA ResolveDueKeeps ==
  ASSUME NEW store, Typed(store), ExactExcept(store, {}), now \in Nat,
         NEW due \in SUBSET Ids, NEW order \in Orders
  PROVE  /\ Typed(ResolveDue(store, due, order))
         /\ ExactExcept(ResolveDue(store, due, order), {})
<1> DEFINE rows == [id \in due |-> DefaultRow]
<1>1. DefaultRow \in LabelRows
  BY StoreAssumption DEF StoreAssumption, DefaultRow, LabelRows, Reasons
<1>2. rows \in Tables(LabelRows)
  BY <1>1, TableDef
<1>3. ResolveDue(store, due, order) = AddLabels(store, rows, FALSE, order)
  BY DEF ResolveDue
<1> HIDE DEF rows
<1>4. FALSE \in BOOLEAN
  OBVIOUS
<1>5. /\ Typed(AddLabels(store, rows, FALSE, order))
      /\ ExactExcept(AddLabels(store, rows, FALSE, order), {})
  BY <1>2, <1>4, AddLabelsKeeps
<1> QED
  BY <1>3, <1>5

(* Orphans are in no other table. *)
LEMMA PurgeOrphanLabelsKeeps ==
  ASSUME NEW store, Typed(store), ExactExcept(store, {})
  PROVE  /\ Typed(PurgeOrphanLabels(store))
         /\ ExactExcept(PurgeOrphanLabels(store), {})
<1> DEFINE old == {id \in DOMAIN store.label \ DOMAIN store.event :
                     store.label[id].inserted + Retention < now}
           labels == Without(store.label, old)
           result == [store EXCEPT !.label = labels]
<1>0. store \in Stores /\ Numbered(store)
  BY DEF Typed
<1>1. old \cap DOMAIN store.event = {}
  OBVIOUS
<1>2. PurgeOrphanLabels(store) = result
  BY DEF PurgeOrphanLabels
<1> HIDE DEF old
<1>3. store.label \in Tables(LabelRows)
  BY <1>0, StoreFields
<1>4. labels \in Tables(LabelRows)
  BY <1>3, WithoutType, Zenon
<1>5. DOMAIN labels = DOMAIN store.label \ old
  BY WithoutFacts
<1> HIDE DEF labels
<1>6. /\ result.event = store.event /\ result.ready = store.ready /\ result.label = labels
      /\ result.schedule = store.schedule /\ result.eventSequence = store.eventSequence
      /\ result.readySequence = store.readySequence
  BY <1>0 DEF Stores
<1>7. result \in Stores
  BY <1>0, <1>4 DEF Stores
<1> HIDE DEF result
<1>8. Typed(result)
  BY <1>0, <1>6, <1>7 DEF Typed, Numbered
<1>9. ExactExcept(result, {})
  BY <1>1, <1>5, <1>6 DEF ExactExcept
<1> QED
  BY <1>2, <1>8, <1>9

(* An archived observation leaves every table at once. *)
LEMMA PurgeArchivedEventsKeeps ==
  ASSUME NEW store, Typed(store), ExactExcept(store, {}), NEW gone
  PROVE  /\ Typed(PurgeArchivedEvents(store, gone))
         /\ ExactExcept(PurgeArchivedEvents(store, gone), {})
<1> DEFINE labels == Without(store.label, gone)
           events == Without(store.event, gone)
           places == Without(store.ready, gone)
           scheduled == store.schedule \ gone
           result == [store EXCEPT !.label = labels, !.event = events,
                                   !.ready = places, !.schedule = scheduled]
<1>0. store \in Stores /\ Numbered(store)
  BY DEF Typed
<1>1. PurgeArchivedEvents(store, gone) = result
  BY DEF PurgeArchivedEvents
<1>2. /\ store.label \in Tables(LabelRows) /\ store.event \in Tables(EventRows)
      /\ store.ready \in Tables(Nat) /\ store.schedule \in SUBSET Ids
  BY <1>0, StoreFields
<1>3. labels \in Tables(LabelRows)
  BY <1>2, WithoutType, Zenon
<1>4. events \in Tables(EventRows)
  BY <1>2, WithoutType, Zenon
<1>5. places \in Tables(Nat)
  BY <1>2, WithoutType, Zenon
<1>6. /\ DOMAIN labels = DOMAIN store.label \ gone
      /\ DOMAIN events = DOMAIN store.event \ gone
      /\ DOMAIN places = DOMAIN store.ready \ gone
      /\ \A id \in DOMAIN events : events[id] = store.event[id]
      /\ \A id \in DOMAIN places : places[id] = store.ready[id]
  BY DEF Without
<1>7. scheduled \in SUBSET Ids
  BY <1>2
<1> HIDE DEF labels, events, places, scheduled
<1>8. /\ result.event = events /\ result.ready = places /\ result.label = labels
      /\ result.schedule = scheduled /\ result.eventSequence = store.eventSequence
      /\ result.readySequence = store.readySequence
  BY <1>0 DEF Stores
<1>9. result \in Stores
  BY <1>0, <1>3, <1>4, <1>5, <1>7 DEF Stores
<1> HIDE DEF result
<1>10. Typed(result)
  BY <1>0, <1>6, <1>8, <1>9 DEF Typed, Numbered
<1>11. ExactExcept(result, {})
  BY <1>6, <1>8 DEF ExactExcept, scheduled
<1> QED
  BY <1>1, <1>10, <1>11
(* ---------------------------- Theorems --------------------------------- *)

(* TypeOK and QueueIsExact are inductive together: without the exact queue a  *)
(* purge could orphan a ready row, and without the types a number could fall  *)
(* outside its table.                                                         *)
IInv == TypeOK /\ QueueIsExact

(* The queue is exact when no observation is still to be marked. *)
LEMMA QueueIsExactDef ==
  QueueIsExact <=> ExactExcept(db, {})
BY StoreAssumption DEF QueueIsExact, ExactExcept, StoreAssumption

(* The invariant in the terms of the lemmas about stores, *)
LEMMA IInvDef ==
  IInv <=> policy \in BOOLEAN /\ now \in 0..MaxTime /\ Typed(db) /\ ExactExcept(db, {})
BY QueueIsExactDef, IsStoreDef DEF IInv, TypeOK, Typed

(* and what a transaction has to show to keep it. *)
LEMMA IInvNextDef ==
  policy \in BOOLEAN /\ policy' = policy /\ now' \in 0..MaxTime /\ Typed(db') /\ ExactExcept(db', {}) => IInv'
<1> SUFFICES ASSUME policy \in BOOLEAN, policy' = policy, now' \in 0..MaxTime, Typed(db'), ExactExcept(db', {}) PROVE IInv'
  OBVIOUS
<1>1. IsStore(db') /\ Numbered(db')
  BY IsStoreDef DEF Typed
<1>2. QueueIsExact'
  BY StoreAssumption DEF QueueIsExact, ExactExcept, StoreAssumption
<1> QED
  BY <1>1, <1>2 DEF IInv, TypeOK

(* Empty tables agree. *)
LEMMA InitIInv == Init => IInv
<1> SUFFICES ASSUME Init PROVE IInv
  OBVIOUS
<1> DEFINE none == [id \in {} |-> 0]
<1>1. none \in Tables(EventRows) /\ none \in Tables(LabelRows) /\ none \in Tables(Nat)
  BY TableDef
<1>2. DOMAIN none = {}
  OBVIOUS
<1> HIDE DEF none
<1>3. db = [event |-> none, label |-> none, ready |-> none,
            schedule |-> {}, eventSequence |-> 0, readySequence |-> 0]
  BY DEF Init, none
<1>4. db \in Stores
  BY <1>1, <1>3 DEF Stores
<1>5. Numbered(db) /\ ExactExcept(db, {})
  <2>1. /\ db.event = none /\ db.label = none /\ db.ready = none /\ db.schedule = {}
    BY <1>3
  <2> QED
    BY <1>2, <2>1 DEF Numbered, ExactExcept
<1>6. policy \in BOOLEAN /\ now \in 0..MaxTime
  BY StoreAssumption DEF Init, StoreAssumption
<1> QED
  BY <1>4, <1>5, <1>6, IInvDef DEF Typed

(* The labels of a batch are label rows. *)
LEMMA SourceRowsType ==
  ASSUME NEW labelled \in SUBSET Ids, NEW input \in Inputs(labelled), now \in Nat
  PROVE  SourceRows(input) \in Tables(LabelRows)
<1> DEFINE row(id) == [y |-> input[id].y, reason |-> "source",
                       available |-> input[id].available, inserted |-> now]
<1>1. DOMAIN input = labelled /\ \A id \in labelled : input[id] \in LabelInputs
  BY DEF Inputs
<1>2. \A id \in labelled : input[id].y \in Targets /\ input[id].available \in Nat
  BY <1>1, StoreAssumption DEF StoreAssumption
<1>3. \A id \in labelled : row(id) \in LabelRows
  BY <1>2 DEF LabelRows, Reasons
<1>4. SourceRows(input) = [id \in labelled |-> row(id)]
  BY <1>1 DEF SourceRows
<1> HIDE DEF row
<1> QED
  BY <1>3, <1>4, TableDef

(* collect_source's transaction: add_events, then add_labels. *)
LEMMA FlushKeeps == IInv /\ Flush => IInv'
<1> SUFFICES ASSUME IInv, Flush PROVE IInv'
  OBVIOUS
<1>1. /\ now \in 0..MaxTime /\ now \in Nat /\ MaxTime \in Nat
      /\ Typed(db) /\ ExactExcept(db, {}) /\ policy \in BOOLEAN
  BY IInvDef, StoreAssumption DEF StoreAssumption
<1>2. PICK keys \in SUBSET Ids, labelled \in SUBSET Ids, count \in 0..MaxBatch, order \in Orders :
        \E position \in Positions(keys, count), input \in Inputs(labelled) :
          /\ count + Cardinality(labelled) <= MaxBatch
          /\ db' = AddLabels(AddEvents(db, position, count, order), SourceRows(input), policy, order)
          /\ db'.eventSequence <= MaxRecords
          /\ UNCHANGED <<policy, now>>
  BY DEF Flush
<1>3. PICK position \in Positions(keys, count), input \in Inputs(labelled) :
        /\ db' = AddLabels(AddEvents(db, position, count, order), SourceRows(input), policy, order)
        /\ now' = now /\ policy' = policy
  BY <1>2
<1> DEFINE stored == AddEvents(db, position, count, order)
<1>4. count \in Nat /\ position \in [keys -> 1..count]
  BY StoreAssumption DEF Positions, StoreAssumption
<1>5. Typed(stored) /\ ExactExcept(stored, {})
  BY <1>1, <1>4, AddEventsKeeps
<1>6. SourceRows(input) \in Tables(LabelRows)
  BY <1>1, SourceRowsType
<1> HIDE DEF stored
<1>7. Typed(db') /\ ExactExcept(db', {})
  BY <1>1, <1>3, <1>5, <1>6, AddLabelsKeeps DEF stored
<1>8. now' = now /\ policy' = policy
  BY <1>3
<1> QED
  BY <1>1, <1>7, <1>8, IInvNextDef

(* The resolution thread's transaction: resolve_due, then the inbox purge. *)
LEMMA MaintainResolutionsKeeps == IInv /\ MaintainResolutions => IInv'
<1> SUFFICES ASSUME IInv, MaintainResolutions PROVE IInv'
  OBVIOUS
<1>1. /\ now \in 0..MaxTime /\ now \in Nat /\ MaxTime \in Nat
      /\ Typed(db) /\ ExactExcept(db, {}) /\ policy \in BOOLEAN
  BY IInvDef, StoreAssumption DEF StoreAssumption
<1>2. PICK due \in SUBSET Due, order \in Orders :
        /\ db' = PurgeOrphanLabels(IF policy THEN ResolveDue(db, due, order) ELSE db)
        /\ now' = now /\ policy' = policy
  BY DEF MaintainResolutions
<1>3. due \in SUBSET Ids
  BY <1>1, StoreFields DEF Due, Typed
<1> DEFINE resolved == IF policy THEN ResolveDue(db, due, order) ELSE db
<1>4. Typed(resolved) /\ ExactExcept(resolved, {})
  BY <1>1, <1>3, ResolveDueKeeps
<1> HIDE DEF resolved
<1>5. Typed(db') /\ ExactExcept(db', {})
  BY <1>2, <1>4, PurgeOrphanLabelsKeeps DEF resolved
<1> QED
  BY <1>1, <1>2, <1>5, IInvNextDef

(* The archive's transaction. *)
LEMMA ArchivePurgeKeeps == IInv /\ ArchivePurge => IInv'
<1> SUFFICES ASSUME IInv, ArchivePurge PROVE IInv'
  OBVIOUS
<1>1. /\ now \in 0..MaxTime /\ Typed(db) /\ ExactExcept(db, {}) /\ policy \in BOOLEAN
  BY IInvDef, StoreAssumption DEF StoreAssumption
<1>2. PICK gone : db' = PurgeArchivedEvents(db, gone) /\ now' = now /\ policy' = policy
  BY DEF ArchivePurge
<1>3. Typed(db') /\ ExactExcept(db', {})
  BY <1>1, <1>2, PurgeArchivedEventsKeeps
<1> QED
  BY <1>1, <1>2, <1>3, IInvNextDef

(* Time passes no deadline on by itself: nothing is due until a pass finds it. *)
LEMMA TickKeeps == IInv /\ Tick => IInv'
<1> SUFFICES ASSUME IInv, Tick PROVE IInv'
  OBVIOUS
<1>1. now' \in 0..MaxTime
  BY StoreAssumption DEF StoreAssumption, IInv, TypeOK, Tick
<1>2. db' = db /\ policy' = policy
  BY DEF Tick
<1> QED
  BY <1>1, <1>2 DEF IInv, TypeOK, QueueIsExact, Numbered

(* Every step keeps the invariant. *)
LEMMA Invariance == Spec => []IInv
<1>1. IInv /\ [Next]_vars => IInv'
  <2> SUFFICES ASSUME IInv, [Next]_vars PROVE IInv'
    OBVIOUS
  <2>1. CASE Flush
    BY <2>1, FlushKeeps
  <2>2. CASE MaintainResolutions
    BY <2>2, MaintainResolutionsKeeps
  <2>3. CASE ArchivePurge
    BY <2>3, ArchivePurgeKeeps
  <2>4. CASE Tick
    BY <2>4, TickKeeps
  <2>5. CASE UNCHANGED vars
    BY <2>5 DEF vars, IInv, TypeOK, QueueIsExact, Numbered
  <2> QED
    BY <2>1, <2>2, <2>3, <2>4, <2>5 DEF Next
<1> QED
  BY <1>1, InitIInv, PTL DEF Spec

(* Every row of every table has its type, and every number in use was drawn   *)
(* from its sequence, for any ids, policy, batch size and inbox retention.    *)
THEOREM TypeCorrect == Spec => []TypeOK
BY Invariance, PTL DEF IInv

(* add_events, add_labels, resolve_due and the purges never lose or repeat a  *)
(* resolution: the ready queue holds exactly the observations with a label,   *)
(* and deadlines are pending for exactly the others.                          *)
THEOREM QueueExact == Spec => []QueueIsExact
BY Invariance, PTL DEF IInv

------------------------------------------------------------------------------
(***************************************************************************)
(* What the store promises across its transactions: each resolution is      *)
(* justified and stays, no snapshot is missed, and the two numberings grow   *)
(* as ResolutionQueue says.                                                 *)
(*                                                                         *)
(* The lemmas named ...Steps say what an operator leaves alone and what it   *)
(* adds; FlushFacts, MaintainFacts and ArchiveFacts compose them in the      *)
(* order in which a transaction calls the operators.                         *)
(***************************************************************************)

(* ------------------------ What a step may change ------------------------ *)

(* Numbers given out one batch after another do not collide. *)
LEMMA AppendsTwice ==
  ASSUME NEW f, NEW g, NEW h, NEW l \in Nat, NEW m \in Nat, NEW n \in Nat,
         Queue!Appends(f, g, l, m), Queue!Appends(g, h, m, n)
  PROVE  Queue!Appends(f, h, l, n)
<1>1. /\ DOMAIN f \subseteq DOMAIN g /\ DOMAIN g \subseteq DOMAIN h /\ l <= m /\ m <= n
      /\ \A id \in DOMAIN f : g[id] = f[id]
      /\ \A id \in DOMAIN g : h[id] = g[id]
      /\ \A id \in DOMAIN g \ DOMAIN f : g[id] \in (l + 1)..m
      /\ \A id \in DOMAIN h \ DOMAIN g : h[id] \in (m + 1)..n
      /\ \A id, other \in DOMAIN g \ DOMAIN f : g[id] = g[other] => id = other
      /\ \A id, other \in DOMAIN h \ DOMAIN g : h[id] = h[other] => id = other
  BY DEF Queue!Appends
<1>2. \A id \in DOMAIN h \ DOMAIN f : h[id] \in (l + 1)..n
  BY <1>1
<1>3. ASSUME NEW id \in DOMAIN h \ DOMAIN f, NEW other \in DOMAIN h \ DOMAIN f, h[id] = h[other]
      PROVE  id = other
  <2>1. id \in DOMAIN g <=> other \in DOMAIN g
    BY <1>1, <1>3
  <2>. QED
    BY <1>1, <1>3, <2>1
<1>. QED
  BY <1>1, <1>2, <1>3 DEF Queue!Appends

(* No numbers, no change. *)
LEMMA AppendsNothing ==
  ASSUME NEW f, NEW n \in Nat
  PROVE  Queue!Appends(f, f, n, n)
BY DEF Queue!Appends

(* _mark_ready_labels gives places above all that were given before. *)
LEMMA MarkReadySteps ==
  ASSUME NEW store, Typed(store), NEW J \in SUBSET Ids, NEW order \in Orders
  PROVE  LET result == MarkReady(store, J, order) IN
         /\ Queue!Appends(store.ready, result.ready, store.readySequence, result.readySequence)
         /\ result.event = store.event /\ result.eventSequence = store.eventSequence
         /\ result.label = store.label /\ result.readySequence \in Nat
<1> DEFINE matched == J \cap DOMAIN store.event \cap DOMAIN store.label
           places == Numbering(matched, store.readySequence, order)
           result == MarkReady(store, J, order)
<1>0. store \in Stores /\ store.readySequence \in Nat /\ matched \in SUBSET Ids
  BY StoreFields DEF Typed
<1>1. result = Enqueue(store, matched, order)
  BY DEF MarkReady
<1> HIDE DEF matched, result
<1>2. /\ result.event = store.event /\ result.eventSequence = store.eventSequence
      /\ result.label = store.label
      /\ result.readySequence = store.readySequence + Cardinality(matched)
      /\ result.ready = InsertNew(store.ready, places)
  BY <1>0, <1>1, EnqueueFields
<1>3. /\ Cardinality(matched) \in Nat /\ DOMAIN places = matched
      /\ \A id \in matched : places[id] \in (store.readySequence + 1)..(store.readySequence + Cardinality(matched))
      /\ \A id, other \in matched : places[id] = places[other] => id = other
  BY <1>0, NumberingType
<1> HIDE DEF places
<1>4. /\ DOMAIN result.ready = DOMAIN store.ready \cup matched
      /\ \A id \in DOMAIN store.ready : result.ready[id] = store.ready[id]
      /\ \A id \in matched \ DOMAIN store.ready : result.ready[id] = places[id]
  BY <1>2, <1>3 DEF InsertNew
<1>5. Queue!Appends(store.ready, result.ready, store.readySequence, result.readySequence)
  BY <1>0, <1>2, <1>3, <1>4 DEF Queue!Appends
<1>. QED
  BY <1>0, <1>2, <1>3, <1>5 DEF result

(* add_labels: a label that is there stays, and what it inserts is within the *)
(* horizon if that is enforced.                                               *)
LEMMA AddLabelsSteps ==
  ASSUME NEW store, Typed(store), NEW rows \in Tables(LabelRows),
         NEW enforce \in BOOLEAN, NEW order \in Orders
  PROVE  LET result == AddLabels(store, rows, enforce, order) IN
         /\ Queue!Appends(store.ready, result.ready, store.readySequence, result.readySequence)
         /\ result.event = store.event /\ result.eventSequence = store.eventSequence
         /\ result.readySequence \in Nat
         /\ \A id \in DOMAIN store.label : id \in DOMAIN result.label /\ result.label[id] = store.label[id]
         /\ \A id \in DOMAIN result.label \ DOMAIN store.label :
              /\ id \in DOMAIN rows /\ result.label[id] = rows[id]
              /\ enforce /\ id \in DOMAIN store.event => ~Late(id, rows[id])
         /\ ~enforce => DOMAIN rows \subseteq DOMAIN result.label
<1> DEFINE late == {id \in DOMAIN rows \cap DOMAIN store.event : Late(id, rows[id])}
           kept == IF enforce THEN DOMAIN rows \ late ELSE DOMAIN rows
           inserted == kept \ DOMAIN store.label
           added == [id \in kept |-> rows[id]]
           labels == InsertNew(store.label, added)
           stored == [store EXCEPT !.label = labels]
           result == AddLabels(store, rows, enforce, order)
<1>0. store \in Stores /\ Numbered(store)
  BY DEF Typed
<1>1. kept \subseteq DOMAIN rows /\ DOMAIN rows \subseteq Ids
  BY TableDef
<1>2. /\ added \in Tables(LabelRows) /\ DOMAIN added = kept
      /\ \A id \in kept : added[id] = rows[id]
  BY <1>1, TableDef
<1>3. result = MarkReady(stored, inserted, order)
  BY DEF AddLabels
<1>4. /\ ~enforce => kept = DOMAIN rows
      /\ \A id \in kept : enforce /\ id \in DOMAIN store.event => ~Late(id, rows[id])
  <2>1. \A id : id \in late <=> id \in DOMAIN rows \cap DOMAIN store.event /\ Late(id, rows[id])
    OBVIOUS
  <2> HIDE DEF late
  <2>. QED
    BY <2>1, <1>1
<1> HIDE DEF late, kept, added, result
<1>5. store.label \in Tables(LabelRows)
  BY <1>0, StoreFields
<1>6. labels \in Tables(LabelRows)
  BY <1>2, <1>5, InsertNewType, Zenon
<1>7. /\ DOMAIN labels = DOMAIN store.label \cup kept
      /\ \A id \in DOMAIN store.label : labels[id] = store.label[id]
      /\ \A id \in kept \ DOMAIN store.label : labels[id] = rows[id]
  BY <1>2 DEF InsertNew
<1> HIDE DEF labels
<1>8. /\ stored.event = store.event /\ stored.ready = store.ready /\ stored.label = labels
      /\ stored.schedule = store.schedule /\ stored.eventSequence = store.eventSequence
      /\ stored.readySequence = store.readySequence /\ stored \in Stores
  BY <1>0, <1>6 DEF Stores
<1> HIDE DEF stored
<1>9. Typed(stored) /\ inserted \in SUBSET Ids
  BY <1>0, <1>1, <1>8 DEF Typed, Numbered
<1> HIDE DEF inserted
<1>10. /\ Queue!Appends(store.ready, result.ready, store.readySequence, result.readySequence)
       /\ result.event = store.event /\ result.eventSequence = store.eventSequence
       /\ result.label = labels /\ result.readySequence \in Nat
  BY <1>3, <1>8, <1>9, MarkReadySteps
<1>. QED
  BY <1>1, <1>4, <1>7, <1>10 DEF result

(* --------------------------- Observations ------------------------------ *)

Sequences(store) == [id \in DOMAIN store.event |-> store.event[id].sequence]

(* The insert of add_events numbers what is new above all that was stored. *)
LEMMA StoreEventsSteps ==
  ASSUME NEW store, Typed(store), NEW count \in Nat, NEW keys \in SUBSET Ids,
         NEW position \in Positions(keys, count)
  PROVE  LET result == StoreEvents(store, position, count) IN
         /\ Queue!Appends(Sequences(store), Sequences(result), store.eventSequence, result.eventSequence)
         /\ \A id \in DOMAIN store.event : result.event[id] = store.event[id]
         /\ result.readySequence = store.readySequence /\ result.eventSequence \in Nat
<1> DEFINE low == store.eventSequence
           row(id) == [sequence |-> low + position[id], inserted |-> now]
           rows == [id \in keys |-> row(id)]
           events == InsertNew(store.event, rows)
           result == StoreEvents(store, position, count)
<1>0. store \in Stores /\ low \in Nat
  BY StoreFields DEF Typed
<1>1. position \in [keys -> 1..count] /\ \A id, other \in keys : position[id] = position[other] => id = other
  BY DEF Positions
<1>2. /\ result.event = events /\ result.eventSequence = low + count
      /\ result.readySequence = store.readySequence
  <2>1. result = [store EXCEPT !.event = events, !.eventSequence = low + count]
    BY <1>1 DEF StoreEvents
  <2> HIDE DEF events, result
  <2>. QED
    BY <2>1, <1>0 DEF Stores
<1>3. DOMAIN rows = keys /\ \A id \in keys : rows[id].sequence = low + position[id]
  OBVIOUS
<1> HIDE DEF rows, result
<1>4. /\ DOMAIN events = DOMAIN store.event \cup keys
      /\ \A id \in DOMAIN store.event : events[id] = store.event[id]
      /\ \A id \in keys \ DOMAIN store.event : events[id] = rows[id]
  BY <1>3 DEF InsertNew
<1> HIDE DEF events
<1>5. /\ DOMAIN Sequences(store) = DOMAIN store.event
      /\ DOMAIN Sequences(result) = DOMAIN store.event \cup keys
      /\ \A id \in DOMAIN store.event : Sequences(result)[id] = Sequences(store)[id]
      /\ \A id \in keys \ DOMAIN store.event : Sequences(result)[id] = low + position[id]
  BY <1>2, <1>3, <1>4 DEF Sequences
<1>6. \A id \in keys : low + position[id] \in (low + 1)..(low + count)
  BY <1>0, <1>1
<1>7. \A id, other \in keys : low + position[id] = low + position[other] => id = other
  <2>1. \A id \in keys : position[id] \in Nat
    BY <1>1
  <2>. QED
    BY <1>0, <1>1, <2>1
<1>8. Queue!Appends(Sequences(store), Sequences(result), low, low + count)
  BY <1>0, <1>5, <1>6, <1>7 DEF Queue!Appends
<1>. QED
  BY <1>0, <1>2, <1>4, <1>8 DEF result

(* The policy's part removes the late labels of what is new, and no other. *)
LEMMA ScheduleSteps ==
  ASSUME NEW store, Typed(store), NEW accepted \in SUBSET Ids
  PROVE  LET result == Schedule(store, accepted) IN
         /\ result.eventSequence = store.eventSequence /\ result.readySequence = store.readySequence
         /\ \A id \in DOMAIN store.label :
              IF id \in accepted /\ Late(id, store.label[id])
              THEN id \notin DOMAIN result.label
              ELSE id \in DOMAIN result.label /\ result.label[id] = store.label[id]
<1> DEFINE late == {id \in accepted \cap DOMAIN store.label : Late(id, store.label[id])}
           labels == Without(store.label, late)
           scheduled == store.schedule \cup accepted
           result == Schedule(store, accepted)
<1>0. store \in Stores
  BY DEF Typed
<1>1. result = [store EXCEPT !.label = labels, !.schedule = scheduled]
  BY DEF Schedule
<1>2. /\ DOMAIN labels = DOMAIN store.label \ late
      /\ \A id \in DOMAIN store.label \ late : labels[id] = store.label[id]
  BY DEF Without
<1>3. \A id \in DOMAIN store.label : id \in late <=> id \in accepted /\ Late(id, store.label[id])
  OBVIOUS
<1> HIDE DEF labels, late, scheduled, result
<1>4. /\ result.label = labels /\ result.eventSequence = store.eventSequence
      /\ result.readySequence = store.readySequence
  BY <1>0, <1>1 DEF Stores
<1>. QED
  BY <1>2, <1>3, <1>4 DEF result

(* --------------------------- Justification ----------------------------- *)

(* An observation's label is justified, and the inbox holds source labels only. *)
LabelsOK(store) ==
  \A id \in DOMAIN store.label :
    IF id \in DOMAIN store.event THEN policy => Justified(id, store.label[id])
                                 ELSE store.label[id].reason = "source"

(* A source label within the horizon is justified. *)
LEMMA InHorizonIsJustified ==
  ASSUME NEW id \in Ids, NEW row \in LabelRows, row.reason = "source", ~Late(id, row)
  PROVE  Justified(id, row)
<1>1. row.available \in Nat /\ Horizon(id) \in Nat
  BY StoreAssumption DEF StoreAssumption, LabelRows, Horizon
<1>. QED
  BY <1>1 DEF Justified, Late

(* add_labels needs its rows to be held to the horizon, or justified already. *)
LEMMA AddLabelsJustifies ==
  ASSUME NEW store, Typed(store), LabelsOK(store), NEW rows \in Tables(LabelRows),
         NEW enforce \in BOOLEAN, NEW order \in Orders,
         \A id \in DOMAIN rows :
           \/ rows[id].reason = "source" /\ (policy => enforce)
           \/ id \in DOMAIN store.event /\ Justified(id, rows[id])
  PROVE  LabelsOK(AddLabels(store, rows, enforce, order))
<1> DEFINE result == AddLabels(store, rows, enforce, order)
<1>1. /\ result.event = store.event
      /\ \A id \in DOMAIN store.label : id \in DOMAIN result.label /\ result.label[id] = store.label[id]
      /\ \A id \in DOMAIN result.label \ DOMAIN store.label :
           /\ id \in DOMAIN rows /\ result.label[id] = rows[id]
           /\ enforce /\ id \in DOMAIN store.event => ~Late(id, rows[id])
  BY AddLabelsSteps
<1> HIDE DEF result
<1>2. DOMAIN rows \subseteq Ids /\ \A id \in DOMAIN rows : rows[id] \in LabelRows
  BY TableDef
<1>3. ASSUME NEW id \in DOMAIN result.label \ DOMAIN store.label
      PROVE  IF id \in DOMAIN store.event THEN policy => Justified(id, rows[id])
                                         ELSE rows[id].reason = "source"
  BY <1>1, <1>2, <1>3, InHorizonIsJustified
<1>. QED
  BY <1>1, <1>3 DEF LabelsOK, result

(* match_forecasts resolves every pending forecast that an accepted snapshot  *)
(* can supply, and justifies what it resolves.                                *)
LEMMA MatchForecastsSteps ==
  ASSUME NEW store, Typed(store), NEW accepted \in SUBSET Ids, NEW position,
         \A key \in accepted : position[key] \in Nat, now \in Nat, NEW order \in Orders,
         store.schedule \subseteq DOMAIN store.event
  PROVE  LET result == MatchForecasts(store, accepted, position, order) IN
         /\ Queue!Appends(store.ready, result.ready, store.readySequence, result.readySequence)
         /\ result.event = store.event /\ result.eventSequence = store.eventSequence
         /\ result.readySequence \in Nat
         /\ \A id \in DOMAIN store.label : id \in DOMAIN result.label /\ result.label[id] = store.label[id]
         /\ \A id \in store.schedule : Supplies(accepted, id) # {} => id \in DOMAIN result.label
         /\ LabelsOK(store) => LabelsOK(result)
<1> DEFINE value(id) == Source[FirstSupply(accepted, id, position)].value
           row(id) == [y |-> value(id), reason |-> "forecast-snapshot",
                       available |-> now, inserted |-> now]
           matched == {id \in store.schedule : Supplies(accepted, id) # {}}
           rows == [id \in matched |-> row(id)]
           result == MatchForecasts(store, accepted, position, order)
<1>1. matched \subseteq Ids /\ matched \subseteq DOMAIN store.event
  BY StoreFields DEF Typed
<1>2. ASSUME NEW id \in matched PROVE row(id) \in LabelRows /\ Justified(id, row(id))
  <2>1. FirstSupply(accepted, id, position) \in Supplies(accepted, id)
    BY <1>1, FirstSupplyIsOne
  <2>2. PICK s \in Ids : s = FirstSupply(accepted, id, position) /\ SnapshotResolves(s, id)
    BY <2>1 DEF Supplies
  <2>3. value(id) \in Targets /\ value(id) = Source[s].value
    BY <2>2, StoreAssumption DEF StoreAssumption
  <2> HIDE DEF value
  <2>4. row(id) \in LabelRows
    BY <2>3 DEF LabelRows, Reasons
  <2>5. row(id).reason = "forecast-snapshot" /\ row(id).y = Source[s].value
    BY <2>3
  <2> HIDE DEF row
  <2>. QED
    BY <2>2, <2>4, <2>5 DEF Justified
<1>3. result = AddLabels(store, rows, FALSE, order)
  BY DEF MatchForecasts
<1>4. \A id \in store.schedule : Supplies(accepted, id) # {} => id \in matched
  OBVIOUS
<1> HIDE DEF row, matched, result
<1>5. /\ rows \in Tables(LabelRows) /\ DOMAIN rows = matched
      /\ \A id \in matched : Justified(id, rows[id])
  BY <1>1, <1>2, TableDef
<1> HIDE DEF rows
<1>6. FALSE \in BOOLEAN
  OBVIOUS
<1>7. /\ Queue!Appends(store.ready, result.ready, store.readySequence, result.readySequence)
      /\ result.event = store.event /\ result.eventSequence = store.eventSequence
      /\ result.readySequence \in Nat
      /\ \A id \in DOMAIN store.label : id \in DOMAIN result.label /\ result.label[id] = store.label[id]
      /\ matched \subseteq DOMAIN result.label
  BY <1>3, <1>5, <1>6, AddLabelsSteps
<1>8. ASSUME LabelsOK(store) PROVE LabelsOK(result)
  <2>1. \A id \in DOMAIN rows : id \in DOMAIN store.event /\ Justified(id, rows[id])
    BY <1>1, <1>5
  <2>. QED
    BY <1>3, <1>5, <1>6, <1>8, <2>1, AddLabelsJustifies
<1>. QED
  BY <1>4, <1>7, <1>8 DEF result

(* A new observation whose label was in the inbox is held to the horizon. *)
LEMMA ScheduleJustifies ==
  ASSUME NEW store, NEW stored, NEW scheduled, NEW accepted \in SUBSET Ids,
         Typed(stored), Typed(store), LabelsOK(store),
         DOMAIN scheduled.event = DOMAIN store.event \cup accepted,
         DOMAIN scheduled.label \subseteq DOMAIN store.label,
         \A id \in DOMAIN scheduled.label :
           /\ scheduled.label[id] = store.label[id]
           /\ ~(id \in accepted \ DOMAIN store.event /\ Late(id, store.label[id]))
  PROVE  LabelsOK(scheduled)
<1> SUFFICES ASSUME NEW id \in DOMAIN scheduled.label
             PROVE  IF id \in DOMAIN scheduled.event THEN policy => Justified(id, scheduled.label[id])
                                                    ELSE scheduled.label[id].reason = "source"
  BY DEF LabelsOK
<1>1. /\ id \in DOMAIN store.label /\ scheduled.label[id] = store.label[id]
      /\ IF id \in DOMAIN store.event THEN policy => Justified(id, store.label[id])
                                     ELSE store.label[id].reason = "source"
  BY DEF LabelsOK
<1>2. store.label[id] \in LabelRows /\ id \in Ids
  <2>1. store.label \in Tables(LabelRows)
    BY StoreFields DEF Typed
  <2>. QED
    BY <1>1, <2>1, TableDef
<1>3. CASE id \in accepted \ DOMAIN store.event
  BY <1>1, <1>2, <1>3, InHorizonIsJustified
<1>4. CASE id \notin accepted \ DOMAIN store.event
  BY <1>1, <1>4
<1>. QED
  BY <1>3, <1>4

(* add_events, all of it. *)
LEMMA AddEventsSteps ==
  ASSUME NEW store, Typed(store), ExactExcept(store, {}), now \in Nat, policy \in BOOLEAN,
         NEW count \in Nat, NEW keys \in SUBSET Ids, NEW position \in Positions(keys, count),
         NEW order \in Orders
  PROVE  LET result == AddEvents(store, position, count, order)
             accepted == DOMAIN position \ DOMAIN store.event IN
         /\ Queue!Appends(Sequences(store), Sequences(result), store.eventSequence, result.eventSequence)
         /\ Queue!Appends(store.ready, result.ready, store.readySequence, result.readySequence)
         /\ result.eventSequence \in Nat /\ result.readySequence \in Nat
         /\ DOMAIN result.event = DOMAIN store.event \cup accepted
         /\ \A id \in DOMAIN store.event : result.event[id] = store.event[id]
         /\ \A id \in DOMAIN store.label :
              \/ id \in DOMAIN result.label /\ result.label[id] = store.label[id]
              \/ policy /\ id \in accepted /\ Late(id, store.label[id])
         /\ policy => \A id \in DOMAIN result.event \ DOMAIN result.label : Supplies(accepted, id) = {}
         /\ LabelsOK(store) => LabelsOK(result)
<1> DEFINE accepted == DOMAIN position \ DOMAIN store.event
           stored == StoreEvents(store, position, count)
           scheduled == Schedule(stored, accepted)
           forecast == MatchForecasts(scheduled, accepted, position, order)
           unmarked == IF policy /\ accepted # {} THEN forecast ELSE stored
           result == AddEvents(store, position, count, order)
<1>1. /\ accepted \in SUBSET Ids /\ DOMAIN position = keys /\ accepted \cap DOMAIN store.event = {}
      /\ position \in [keys -> 1..count] /\ \A key \in accepted : position[key] \in Nat
  BY DEF Positions
<1>2. result = MarkReady(unmarked, accepted, order)
  BY DEF AddEvents
<1>3. /\ Typed(stored) /\ DOMAIN stored.event = DOMAIN store.event \cup accepted
      /\ stored.label = store.label /\ stored.ready = store.ready
      /\ stored.schedule = store.schedule
  <2>1. /\ Typed(stored) /\ DOMAIN stored.event = DOMAIN store.event \cup keys
        /\ stored.label = store.label /\ stored.ready = store.ready
        /\ stored.schedule = store.schedule
    BY <1>1, StoreEventsKeeps
  <2>. QED
    BY <1>1, <2>1
<1>4. /\ Queue!Appends(Sequences(store), Sequences(stored), store.eventSequence, stored.eventSequence)
      /\ \A id \in DOMAIN store.event : stored.event[id] = store.event[id]
      /\ stored.readySequence = store.readySequence /\ stored.eventSequence \in Nat
  BY StoreEventsSteps
<1>5. store.readySequence \in Nat
  BY StoreFields DEF Typed
<1> HIDE DEF stored, accepted, result
<1>6. /\ Typed(unmarked) /\ unmarked.event = stored.event /\ unmarked.eventSequence = stored.eventSequence
      /\ Queue!Appends(store.ready, unmarked.ready, store.readySequence, unmarked.readySequence)
      /\ unmarked.readySequence \in Nat
      /\ \A id \in DOMAIN store.label :
              \/ id \in DOMAIN unmarked.label /\ unmarked.label[id] = store.label[id]
              \/ policy /\ id \in accepted /\ Late(id, store.label[id])
      /\ policy => \A id \in DOMAIN unmarked.event \ DOMAIN unmarked.label : Supplies(accepted, id) = {}
      /\ LabelsOK(store) => LabelsOK(unmarked)
  <2>1. CASE policy /\ accepted # {}
    <3>1. unmarked = forecast
      BY <2>1
    <3>2. /\ Typed(scheduled) /\ scheduled.event = stored.event /\ scheduled.ready = stored.ready
          /\ DOMAIN scheduled.label \subseteq DOMAIN store.label
          /\ scheduled.schedule = store.schedule \cup accepted
      BY <1>1, <1>3, ScheduleKeeps
    <3>3. /\ scheduled.eventSequence = stored.eventSequence
          /\ scheduled.readySequence = store.readySequence
          /\ \A id \in DOMAIN store.label :
               IF id \in accepted /\ Late(id, store.label[id])
               THEN id \notin DOMAIN scheduled.label
               ELSE id \in DOMAIN scheduled.label /\ scheduled.label[id] = store.label[id]
      <4>1. /\ scheduled.eventSequence = stored.eventSequence
            /\ scheduled.readySequence = stored.readySequence
            /\ \A id \in DOMAIN stored.label :
                 IF id \in accepted /\ Late(id, stored.label[id])
                 THEN id \notin DOMAIN scheduled.label
                 ELSE id \in DOMAIN scheduled.label /\ scheduled.label[id] = stored.label[id]
        BY <1>1, <1>3, ScheduleSteps
      <4>. QED
        BY <4>1, <1>3, <1>4
    <3> HIDE DEF scheduled
    <3>4. /\ store.schedule \subseteq DOMAIN store.event
          /\ DOMAIN store.event \ DOMAIN store.label \subseteq store.schedule
      BY <2>1 DEF ExactExcept
    <3>5. scheduled.schedule \subseteq DOMAIN scheduled.event
      BY <1>3, <3>2, <3>4
    <3>6. /\ Queue!Appends(scheduled.ready, forecast.ready, scheduled.readySequence, forecast.readySequence)
          /\ forecast.event = scheduled.event /\ forecast.eventSequence = scheduled.eventSequence
          /\ forecast.readySequence \in Nat
          /\ \A id \in DOMAIN scheduled.label :
               id \in DOMAIN forecast.label /\ forecast.label[id] = scheduled.label[id]
          /\ \A id \in scheduled.schedule : Supplies(accepted, id) # {} => id \in DOMAIN forecast.label
          /\ LabelsOK(scheduled) => LabelsOK(forecast)
      BY <1>1, <3>2, <3>5, MatchForecastsSteps
    <3>7. Typed(forecast)
      <4>1. \A id \in DOMAIN store.label : id \in DOMAIN scheduled.label \/ id \in accepted
        BY <3>3
      <4>2. ExactExcept(scheduled, accepted)
        BY <1>1, <1>3, <2>1, <3>2, <4>1 DEF ExactExcept
      <4>. QED
        BY <1>1, <3>2, <4>2, MatchForecastsKeeps
    <3> HIDE DEF forecast
    <3>8. ASSUME NEW id \in DOMAIN store.label
          PROVE  \/ id \in DOMAIN forecast.label /\ forecast.label[id] = store.label[id]
                 \/ id \in accepted /\ Late(id, store.label[id])
      BY <3>3, <3>6
    <3>9. ASSUME NEW id \in DOMAIN forecast.event \ DOMAIN forecast.label
          PROVE  Supplies(accepted, id) = {}
      <4>1. id \in DOMAIN store.event \cup accepted /\ id \notin DOMAIN scheduled.label
        BY <1>3, <3>2, <3>6, <3>9
      <4>2. id \notin accepted => id \in DOMAIN store.event \ DOMAIN store.label
        BY <3>3, <4>1
      <4>3. id \in scheduled.schedule
        BY <3>2, <3>4, <4>1, <4>2
      <4>. QED
        BY <3>6, <3>9, <4>3
    <3>10. ASSUME LabelsOK(store) PROVE LabelsOK(forecast)
      <4>1. LabelsOK(scheduled)
        <5>1. DOMAIN scheduled.event = DOMAIN store.event \cup accepted
          BY <1>3, <3>2
        <5>2. \A id \in DOMAIN scheduled.label :
                /\ scheduled.label[id] = store.label[id]
                /\ ~(id \in accepted \ DOMAIN store.event /\ Late(id, store.label[id]))
          BY <3>2, <3>3
        <5>. QED
          BY <1>1, <3>2, <3>10, <5>1, <5>2, ScheduleJustifies
      <4>. QED
        BY <3>6, <4>1
    <3>11. Queue!Appends(store.ready, forecast.ready, store.readySequence, forecast.readySequence)
      BY <1>3, <3>2, <3>3, <3>6
    <3>12. forecast.event = stored.event /\ forecast.eventSequence = stored.eventSequence
           /\ forecast.readySequence \in Nat
      BY <3>2, <3>3, <3>6
    <3> HIDE DEF unmarked
    <3>. QED
      BY <2>1, <3>1, <3>7, <3>8, <3>9, <3>10, <3>11, <3>12
  <2>2. CASE ~(policy /\ accepted # {})
    <3>1. unmarked = stored
      BY <2>2
    <3> HIDE DEF unmarked
    <3>2. Queue!Appends(store.ready, stored.ready, store.readySequence, stored.readySequence)
      BY <1>3, <1>4, <1>5, AppendsNothing
    <3>3. ASSUME policy, NEW id PROVE Supplies(accepted, id) = {}
      BY <2>2, <3>3 DEF Supplies
    <3>4. ASSUME LabelsOK(store) PROVE LabelsOK(stored)
      <4>1. CASE ~policy
        BY <1>3, <3>4, <4>1 DEF LabelsOK
      <4>2. CASE accepted = {}
        BY <1>3, <3>4, <4>2 DEF LabelsOK
      <4>. QED
        BY <2>2, <4>1, <4>2
    <3>. QED
      BY <1>3, <1>4, <1>5, <3>1, <3>2, <3>3, <3>4
  <2>. QED
    BY <2>1, <2>2
<1> HIDE DEF unmarked
<1>7. /\ Queue!Appends(unmarked.ready, result.ready, unmarked.readySequence, result.readySequence)
      /\ result.event = unmarked.event /\ result.eventSequence = unmarked.eventSequence
      /\ result.label = unmarked.label /\ result.readySequence \in Nat
  BY <1>1, <1>2, <1>6, MarkReadySteps
<1>8. Queue!Appends(store.ready, result.ready, store.readySequence, result.readySequence)
  BY <1>5, <1>6, <1>7, AppendsTwice
<1>9. Sequences(result) = Sequences(stored)
  BY <1>6, <1>7 DEF Sequences
<1>10. LabelsOK(store) => LabelsOK(result)
  BY <1>6, <1>7 DEF LabelsOK
<1>11. /\ result.eventSequence = stored.eventSequence /\ result.event = stored.event
       /\ result.label = unmarked.label
  BY <1>6, <1>7
<1>. QED
  BY <1>3, <1>4, <1>6, <1>7, <1>8, <1>9, <1>10, <1>11 DEF result, accepted

(* ----------------------- The three transactions ------------------------ *)

(* What collect_source's flush does, with accepted the observations it adds. *)
FlushFacts(accepted) ==
  /\ policy' = policy /\ now' = now /\ accepted \cap DOMAIN db.event = {}
  /\ Queue!Appends(Sequences(db), Sequences(db'), db.eventSequence, db'.eventSequence)
  /\ Queue!Appends(db.ready, db'.ready, db.readySequence, db'.readySequence)
  /\ DOMAIN db'.event = DOMAIN db.event \cup accepted
  /\ \A id \in DOMAIN db.event : db'.event[id] = db.event[id]
  /\ \A id \in DOMAIN db.label :
       \/ id \in DOMAIN db'.label /\ db'.label[id] = db.label[id]
       \/ policy /\ id \in accepted /\ Late(id, db.label[id])
  /\ policy => \A id \in DOMAIN db'.event \ DOMAIN db'.label : Supplies(accepted, id) = {}
  /\ LabelsOK(db) => LabelsOK(db')

(* add_events, then add_labels, in one transaction. *)
LEMMA FlushSteps ==
  ASSUME IInv, Flush
  PROVE  \E accepted : FlushFacts(accepted)
<1>1. /\ now \in Nat /\ Typed(db) /\ ExactExcept(db, {}) /\ policy \in BOOLEAN
  BY IInvDef, StoreAssumption DEF StoreAssumption
<1>2. PICK keys \in SUBSET Ids, labelled \in SUBSET Ids, count \in 0..MaxBatch, order \in Orders :
        \E position \in Positions(keys, count), input \in Inputs(labelled) :
          /\ db' = AddLabels(AddEvents(db, position, count, order), SourceRows(input), policy, order)
          /\ UNCHANGED <<policy, now>>
  BY DEF Flush
<1>3. PICK position \in Positions(keys, count), input \in Inputs(labelled) :
        /\ db' = AddLabels(AddEvents(db, position, count, order), SourceRows(input), policy, order)
        /\ now' = now /\ policy' = policy
  BY <1>2
<1> DEFINE stored == AddEvents(db, position, count, order)
           accepted == DOMAIN position \ DOMAIN db.event
           rows == SourceRows(input)
<1>4. count \in Nat /\ position \in [keys -> 1..count]
  BY StoreAssumption DEF Positions, StoreAssumption
<1>5. Typed(stored) /\ ExactExcept(stored, {})
  BY <1>1, <1>4, AddEventsKeeps
<1>6. rows \in Tables(LabelRows) /\ \A id \in DOMAIN rows : rows[id].reason = "source"
  BY <1>1, SourceRowsType DEF SourceRows
<1>7. /\ Queue!Appends(Sequences(db), Sequences(stored), db.eventSequence, stored.eventSequence)
      /\ Queue!Appends(db.ready, stored.ready, db.readySequence, stored.readySequence)
      /\ stored.readySequence \in Nat
      /\ DOMAIN stored.event = DOMAIN db.event \cup accepted
      /\ \A id \in DOMAIN db.event : stored.event[id] = db.event[id]
      /\ \A id \in DOMAIN db.label :
           \/ id \in DOMAIN stored.label /\ stored.label[id] = db.label[id]
           \/ policy /\ id \in accepted /\ Late(id, db.label[id])
      /\ policy => \A id \in DOMAIN stored.event \ DOMAIN stored.label : Supplies(accepted, id) = {}
      /\ LabelsOK(db) => LabelsOK(stored)
  <2> DEFINE Facts(result, new) ==
               /\ Queue!Appends(Sequences(db), Sequences(result), db.eventSequence, result.eventSequence)
               /\ Queue!Appends(db.ready, result.ready, db.readySequence, result.readySequence)
               /\ result.eventSequence \in Nat /\ result.readySequence \in Nat
               /\ DOMAIN result.event = DOMAIN db.event \cup new
               /\ \A id \in DOMAIN db.event : result.event[id] = db.event[id]
               /\ \A id \in DOMAIN db.label :
                    \/ id \in DOMAIN result.label /\ result.label[id] = db.label[id]
                    \/ policy /\ id \in new /\ Late(id, db.label[id])
               /\ policy => \A id \in DOMAIN result.event \ DOMAIN result.label : Supplies(new, id) = {}
               /\ LabelsOK(db) => LabelsOK(result)
  <2>1. Facts(AddEvents(db, position, count, order), DOMAIN position \ DOMAIN db.event)
    BY <1>1, <1>4, AddEventsSteps
  <2>. QED
    BY <2>1
<1>8. db' = AddLabels(stored, rows, policy, order)
  BY <1>3
<1>9. accepted \cap DOMAIN db.event = {}
  OBVIOUS
<1> HIDE DEF stored, accepted, rows
<1>10. /\ Queue!Appends(stored.ready, db'.ready, stored.readySequence, db'.readySequence)
       /\ db'.event = stored.event /\ db'.eventSequence = stored.eventSequence
       /\ db'.readySequence \in Nat
       /\ \A id \in DOMAIN stored.label : id \in DOMAIN db'.label /\ db'.label[id] = stored.label[id]
  BY <1>1, <1>5, <1>6, <1>8, AddLabelsSteps
<1>11. Sequences(db') = Sequences(stored)
  BY <1>10 DEF Sequences
<1>12. Queue!Appends(db.ready, db'.ready, db.readySequence, db'.readySequence)
  <2>1. db.readySequence \in Nat
    BY <1>1, StoreFields DEF Typed
  <2>. QED
    BY <1>7, <1>10, <2>1, AppendsTwice
<1>13. LabelsOK(stored) => LabelsOK(db')
  BY <1>1, <1>5, <1>6, <1>8, AddLabelsJustifies
<1>14. ASSUME NEW id \in DOMAIN db.label
       PROVE  \/ id \in DOMAIN db'.label /\ db'.label[id] = db.label[id]
              \/ policy /\ id \in accepted /\ Late(id, db.label[id])
  BY <1>7, <1>10
<1>15. policy => \A id \in DOMAIN db'.event \ DOMAIN db'.label : Supplies(accepted, id) = {}
  BY <1>7, <1>10
<1>16. FlushFacts(accepted)
  BY <1>3, <1>7, <1>9, <1>10, <1>11, <1>12, <1>13, <1>14, <1>15 DEF FlushFacts
<1>. QED
  BY <1>16

(* What one pass of the resolution thread does. *)
MaintainFacts ==
  /\ policy' = policy /\ now' = now
  /\ db'.event = db.event /\ db'.eventSequence = db.eventSequence
  /\ Queue!Appends(db.ready, db'.ready, db.readySequence, db'.readySequence)
  /\ \A id \in DOMAIN db.label :
       \/ id \in DOMAIN db'.label /\ db'.label[id] = db.label[id]
       \/ id \notin DOMAIN db.event /\ db.label[id].inserted + Retention < now
  /\ LabelsOK(db) => LabelsOK(db')

(* purge_orphan_labels takes only labels past the retention that have no observation. *)
LEMMA PurgeOrphanLabelsSteps ==
  ASSUME NEW store, Typed(store)
  PROVE  LET result == PurgeOrphanLabels(store) IN
         /\ result.event = store.event /\ result.eventSequence = store.eventSequence
         /\ result.ready = store.ready /\ result.readySequence = store.readySequence
         /\ \A id \in DOMAIN store.label :
              \/ id \in DOMAIN result.label
              \/ id \notin DOMAIN store.event /\ store.label[id].inserted + Retention < now
         /\ \A id \in DOMAIN result.label : id \in DOMAIN store.label /\ result.label[id] = store.label[id]
<1> DEFINE old == {id \in DOMAIN store.label \ DOMAIN store.event :
                     store.label[id].inserted + Retention < now}
           labels == Without(store.label, old)
           result == PurgeOrphanLabels(store)
<1>0. store \in Stores
  BY DEF Typed
<1>1. result = [store EXCEPT !.label = labels]
  BY DEF PurgeOrphanLabels
<1>2. DOMAIN labels = DOMAIN store.label \ old /\ \A id \in DOMAIN labels : labels[id] = store.label[id]
  BY DEF Without
<1>3. \A id \in old : id \notin DOMAIN store.event /\ store.label[id].inserted + Retention < now
  OBVIOUS
<1> HIDE DEF old, labels, result
<1>4. /\ result.event = store.event /\ result.eventSequence = store.eventSequence
      /\ result.ready = store.ready /\ result.readySequence = store.readySequence
      /\ result.label = labels
  BY <1>0, <1>1 DEF Stores
<1>. QED
  BY <1>2, <1>3, <1>4 DEF result

(* resolve_due, then purge_orphan_labels, in one transaction. *)
LEMMA MaintainSteps ==
  ASSUME IInv, MaintainResolutions
  PROVE  MaintainFacts
<1>1. /\ now \in Nat /\ Typed(db) /\ ExactExcept(db, {}) /\ policy \in BOOLEAN
      /\ db.readySequence \in Nat
  BY IInvDef, StoreAssumption, StoreFields DEF StoreAssumption, Typed
<1>2. PICK due \in SUBSET Due, order \in Orders :
        /\ db' = PurgeOrphanLabels(IF policy THEN ResolveDue(db, due, order) ELSE db)
        /\ now' = now /\ policy' = policy
  BY DEF MaintainResolutions
<1>3. /\ due \in SUBSET Ids /\ \A id \in due : id \in db.schedule /\ DueAt(id) <= now
      /\ policy => due \subseteq DOMAIN db.event
  BY <1>1, StoreFields DEF Due, Typed, ExactExcept
<1> DEFINE resolved == IF policy THEN ResolveDue(db, due, order) ELSE db
<1>4. /\ Typed(resolved) /\ resolved.event = db.event /\ resolved.eventSequence = db.eventSequence
      /\ Queue!Appends(db.ready, resolved.ready, db.readySequence, resolved.readySequence)
      /\ \A id \in DOMAIN db.label : id \in DOMAIN resolved.label /\ resolved.label[id] = db.label[id]
      /\ LabelsOK(db) => LabelsOK(resolved)
  <2>1. CASE policy
    <3> DEFINE rows == [id \in due |-> DefaultRow]
    <3>1. /\ DefaultRow \in LabelRows /\ DefaultRow.y = Default /\ DefaultRow.inserted = now
          /\ DefaultRow.reason \notin {"source", "forecast-snapshot"}
      BY <1>1, StoreAssumption DEF StoreAssumption, DefaultRow, LabelRows, Reasons
    <3>2. rows \in Tables(LabelRows) /\ DOMAIN rows = due
      BY <1>3, <3>1, TableDef
    <3>3. \A id \in due : Justified(id, rows[id])
      BY <1>3, <3>1 DEF Justified
    <3>4. resolved = AddLabels(db, rows, FALSE, order)
      BY <2>1 DEF ResolveDue
    <3> HIDE DEF rows, resolved
    <3>5. FALSE \in BOOLEAN
      OBVIOUS
    <3>6. LabelsOK(db) => LabelsOK(resolved)
      <4>1. \A id \in DOMAIN rows : id \in DOMAIN db.event /\ Justified(id, rows[id])
        BY <1>3, <2>1, <3>2, <3>3
      <4>. QED
        BY <1>1, <3>2, <3>4, <3>5, <4>1, AddLabelsJustifies
    <3>7. Typed(resolved)
      BY <1>1, <3>2, <3>4, <3>5, AddLabelsKeeps
    <3>8. /\ Queue!Appends(db.ready, resolved.ready, db.readySequence, resolved.readySequence)
          /\ resolved.event = db.event /\ resolved.eventSequence = db.eventSequence
          /\ \A id \in DOMAIN db.label : id \in DOMAIN resolved.label /\ resolved.label[id] = db.label[id]
      <4> DEFINE Facts(result) ==
                   /\ Queue!Appends(db.ready, result.ready, db.readySequence, result.readySequence)
                   /\ result.event = db.event /\ result.eventSequence = db.eventSequence
                   /\ \A id \in DOMAIN db.label : id \in DOMAIN result.label /\ result.label[id] = db.label[id]
      <4>1. Facts(AddLabels(db, rows, FALSE, order))
        BY <1>1, <3>2, <3>5, AddLabelsSteps
      <4>. QED
        BY <3>4, <4>1
    <3>. QED
      BY <3>6, <3>7, <3>8
  <2>2. CASE ~policy
    BY <1>1, <2>2, AppendsNothing
  <2>. QED
    BY <2>1, <2>2
<1>5. db' = PurgeOrphanLabels(resolved)
  BY <1>2
<1> HIDE DEF resolved
<1>6. /\ db'.event = resolved.event /\ db'.eventSequence = resolved.eventSequence
      /\ db'.ready = resolved.ready /\ db'.readySequence = resolved.readySequence
      /\ \A id \in DOMAIN resolved.label :
           \/ id \in DOMAIN db'.label
           \/ id \notin DOMAIN resolved.event /\ resolved.label[id].inserted + Retention < now
      /\ \A id \in DOMAIN db'.label : id \in DOMAIN resolved.label /\ db'.label[id] = resolved.label[id]
  BY <1>4, <1>5, PurgeOrphanLabelsSteps
<1>7. LabelsOK(resolved) => LabelsOK(db')
  BY <1>6 DEF LabelsOK
<1>8. ASSUME NEW id \in DOMAIN db.label
      PROVE  \/ id \in DOMAIN db'.label /\ db'.label[id] = db.label[id]
             \/ id \notin DOMAIN db.event /\ db.label[id].inserted + Retention < now
  BY <1>4, <1>6
<1>. QED
  BY <1>2, <1>4, <1>6, <1>7, <1>8 DEF MaintainFacts

(* What the archive's transaction does. *)
ArchiveFacts(gone) ==
  /\ policy' = policy /\ now' = now /\ gone \subseteq DOMAIN db.event \cap DOMAIN db.label
  /\ db'.event = Without(db.event, gone) /\ db'.label = Without(db.label, gone)
  /\ db'.ready = Without(db.ready, gone) /\ db'.schedule = db.schedule \ gone
  /\ db'.eventSequence = db.eventSequence /\ db'.readySequence = db.readySequence

(* purge_archived_events takes an observation out of every table. *)
LEMMA ArchiveSteps ==
  ASSUME IInv, ArchivePurge
  PROVE  \E gone : ArchiveFacts(gone)
<1>1. db \in Stores
  BY IInvDef DEF Typed
<1>2. PICK gone \in SUBSET (DOMAIN db.event \cap DOMAIN db.label) :
        db' = PurgeArchivedEvents(db, gone) /\ now' = now /\ policy' = policy
  BY DEF ArchivePurge
<1> DEFINE labels == Without(db.label, gone)
           events == Without(db.event, gone)
           places == Without(db.ready, gone)
<1>3. db' = [db EXCEPT !.label = labels, !.event = events, !.ready = places, !.schedule = @ \ gone]
  BY <1>2 DEF PurgeArchivedEvents
<1> HIDE DEF labels, events, places
<1>4. /\ db'.event = events /\ db'.label = labels /\ db'.ready = places /\ db'.schedule = db.schedule \ gone
      /\ db'.eventSequence = db.eventSequence /\ db'.readySequence = db.readySequence
  BY <1>1, <1>3 DEF Stores
<1>5. ArchiveFacts(gone)
  BY <1>2, <1>4 DEF ArchiveFacts, labels, events, places
<1>. QED
  BY <1>5

(* ---------------------------- Theorems --------------------------------- *)

JInv == IInv /\ LabelsOK(db) /\ NoSnapshotMissed

(* What the types and the exact queue say of the tables. *)
LEMMA Tabled ==
  ASSUME IInv
  PROVE  /\ DOMAIN db.event \subseteq Ids /\ db.eventSequence \in Nat /\ db.readySequence \in Nat
         /\ \A id \in DOMAIN db.event : db.event[id].sequence \in 1..db.eventSequence
         /\ DOMAIN db.label \subseteq Ids /\ \A id \in DOMAIN db.label : db.label[id].y \in Targets
         /\ DOMAIN db.ready = DOMAIN db.event \cap DOMAIN db.label
         /\ db.schedule = IF policy THEN DOMAIN db.event \ DOMAIN db.label ELSE {}
<1>1. Typed(db) /\ QueueIsExact
  BY IInvDef DEF IInv
<1>2. db.event \in Tables(EventRows) /\ db.label \in Tables(LabelRows)
  BY <1>1, StoreFields DEF Typed
<1>3. DOMAIN db.event \subseteq Ids /\ DOMAIN db.label \subseteq Ids
      /\ \A id \in DOMAIN db.label : db.label[id] \in LabelRows
  BY <1>2, TableDef
<1>4. \A id \in DOMAIN db.label : db.label[id].y \in Targets
  BY <1>3 DEF LabelRows
<1>. QED
  BY <1>1, <1>3, <1>4, StoreFields DEF Typed, Numbered, QueueIsExact

(* An observation that stays pending after a flush saw none of its snapshots  *)
(* come in, and a new one is numbered above all that are stored.              *)
LEMMA FlushMissesNoSnapshot ==
  ASSUME IInv, IInv', NoSnapshotMissed, NEW accepted, FlushFacts(accepted)
  PROVE  NoSnapshotMissed'
<1> SUFFICES ASSUME NEW id \in db'.schedule, NEW snapshot \in DOMAIN db'.event, SnapshotResolves(snapshot, id)
             PROVE  db'.event[snapshot].sequence < db'.event[id].sequence
  BY DEF NoSnapshotMissed
<1>1. db'.schedule = IF policy' THEN DOMAIN db'.event \ DOMAIN db'.label ELSE {}
  BY DEF IInv, QueueIsExact
<1>2. policy /\ id \in DOMAIN db'.event \ DOMAIN db'.label
  BY <1>1 DEF FlushFacts
<1>3. snapshot \notin accepted
  BY <1>2 DEF FlushFacts, Supplies
<1>4. /\ snapshot \in DOMAIN db.event /\ db'.event[snapshot] = db.event[snapshot]
      /\ db.event[snapshot].sequence \in Nat /\ db.event[snapshot].sequence <= db.eventSequence
      /\ db.eventSequence \in Nat
  BY <1>3, Tabled DEF FlushFacts
<1>5. CASE id \in DOMAIN db.event
  <2>1. id \notin DOMAIN db.label
    BY <1>2, <1>5 DEF FlushFacts
  <2>2. id \in db.schedule
    BY <1>2, <1>5, <2>1, Tabled
  <2>. QED
    BY <1>4, <1>5, <2>2 DEF NoSnapshotMissed, FlushFacts
<1>6. CASE id \notin DOMAIN db.event
  <2>1. DOMAIN Sequences(db') = DOMAIN db'.event /\ DOMAIN Sequences(db) = DOMAIN db.event
        /\ Sequences(db')[id] = db'.event[id].sequence
    BY <1>2 DEF Sequences
  <2>2. db'.event[id].sequence \in (db.eventSequence + 1)..db'.eventSequence
    BY <1>2, <1>6, <2>1 DEF FlushFacts, Queue!Appends
  <2>. QED
    BY <1>4, <2>2
<1>. QED
  BY <1>5, <1>6

(* Every step keeps what is justified, and misses no snapshot. *)
LEMMA JustificationSteps == JInv /\ IInv' /\ [Next]_vars => JInv'
<1> SUFFICES ASSUME JInv, IInv', [Next]_vars PROVE JInv'
  OBVIOUS
<1> USE DEF JInv
<1>1. CASE Flush
  <2>1. PICK accepted : FlushFacts(accepted)
    BY <1>1, FlushSteps
  <2>2. LabelsOK(db)'
    BY <2>1 DEF FlushFacts, LabelsOK, Justified, SnapshotResolves, TargetAt, Horizon, DueAt
  <2>. QED
    BY <2>1, <2>2, FlushMissesNoSnapshot
<1>2. CASE MaintainResolutions
  <2>1. MaintainFacts
    BY <1>2, MaintainSteps
  <2>2. LabelsOK(db)'
    BY <2>1 DEF MaintainFacts, LabelsOK, Justified, SnapshotResolves, TargetAt, Horizon, DueAt
  <2>3. db'.schedule \subseteq db.schedule
    <3>1. db'.schedule = IF policy' THEN DOMAIN db'.event \ DOMAIN db'.label ELSE {}
      BY DEF IInv, QueueIsExact
    <3>2. \A id \in DOMAIN db.event : id \in DOMAIN db.label => id \in DOMAIN db'.label
      BY <2>1 DEF MaintainFacts
    <3>. QED
      BY <2>1, <3>1, <3>2, Tabled DEF MaintainFacts
  <2>4. NoSnapshotMissed'
    BY <2>1, <2>3 DEF MaintainFacts, NoSnapshotMissed
  <2>. QED
    BY <2>2, <2>4
<1>3. CASE ArchivePurge
  <2>1. PICK gone : ArchiveFacts(gone)
    BY <1>3, ArchiveSteps
  <2>2. /\ DOMAIN db'.event = DOMAIN db.event \ gone /\ DOMAIN db'.label = DOMAIN db.label \ gone
        /\ db'.schedule = db.schedule \ gone /\ policy' = policy
        /\ \A id \in DOMAIN db'.event : db'.event[id] = db.event[id]
        /\ \A id \in DOMAIN db'.label : db'.label[id] = db.label[id]
    BY <2>1 DEF ArchiveFacts, Without
  <2>3. LabelsOK(db)'
    BY <2>2 DEF LabelsOK
  <2>4. NoSnapshotMissed'
    BY <2>2, Tabled DEF NoSnapshotMissed
  <2>. QED
    BY <2>3, <2>4
<1>4. CASE Tick \/ UNCHANGED vars
  BY <1>4 DEF Tick, vars, LabelsOK, NoSnapshotMissed
<1>. QED
  BY <1>1, <1>2, <1>3, <1>4 DEF Next

(* What is stored stays justified in every state. *)
LEMMA JInvariance == Spec => []JInv
<1>1. Init => LabelsOK(db) /\ NoSnapshotMissed
  BY DEF Init, LabelsOK, NoSnapshotMissed
<1>. QED
  BY <1>1, Invariance, JustificationSteps, PTL DEF Spec, JInv

(* ResolutionsAreJustified: whichever way of resolving comes first, and       *)
(* however long a label waited in the inbox for its observation.              *)
THEOREM Justification == Spec => []ResolutionsAreJustified
<1>1. JInv => ResolutionsAreJustified
  BY DEF JInv, LabelsOK, ResolutionsAreJustified
<1>. QED
  BY <1>1, JInvariance, PTL

(* NoSnapshotMissed: add_events matches what it accepts with every forecast   *)
(* that is pending, those of the same batch included.                         *)
THEOREM SnapshotsAreSeen == Spec => []NoSnapshotMissed
BY JInvariance, PTL DEF JInv

(* LabelsEndure: the first resolution wins, and goes only for the reasons      *)
(* MayLeave lists.                                                            *)
THEOREM FirstResolutionWins == Spec => LabelsEndure
<1> DEFINE Endures ==
  \A id \in DOMAIN db.label :
    \/ id \in DOMAIN db'.label /\ db'.label[id] = db.label[id]
    \/ MayLeave(id)
<1>1. IInv /\ [Next]_vars => [Endures]_vars
  <2> SUFFICES ASSUME IInv, Next PROVE Endures
    OBVIOUS
  <2>1. CASE Flush
    <3>1. PICK accepted : FlushFacts(accepted)
      BY <2>1, FlushSteps
    <3>. QED
      BY <3>1 DEF FlushFacts, MayLeave, Late
  <2>2. CASE MaintainResolutions
    BY <2>2, MaintainSteps DEF MaintainFacts, MayLeave
  <2>3. CASE ArchivePurge
    <3>1. PICK gone : ArchiveFacts(gone)
      BY <2>3, ArchiveSteps
    <3>. QED
      BY <3>1 DEF ArchiveFacts, Without, MayLeave
  <2>4. CASE Tick
    BY <2>4 DEF Tick
  <2>. QED
    BY <2>1, <2>2, <2>3, <2>4 DEF Next
<1>. QED
  BY <1>1, Invariance, PTL DEF Spec, LabelsEndure

(* --------------------------- The refinement ---------------------------- *)

(* A transaction that adds to both numberings and keeps every resolution of a *)
(* stored observation is a Commit.                                            *)
LEMMA CommitStep ==
  ASSUME IInv, IInv',
         Queue!Appends(Sequences(db), Sequences(db'), db.eventSequence, db'.eventSequence),
         Queue!Appends(db.ready, db'.ready, db.readySequence, db'.readySequence),
         \A id \in DOMAIN db.event \cap DOMAIN db.label :
           /\ id \in DOMAIN db'.event \cap DOMAIN db'.label
           /\ db'.label[id] = db.label[id]
  PROVE  Queue!Commit
<1>1. /\ DOMAIN db'.event \subseteq Ids
      /\ DOMAIN db'.label \subseteq Ids /\ \A id \in DOMAIN db'.label : db'.label[id].y \in Targets
      /\ DOMAIN db'.ready = DOMAIN db'.event \cap DOMAIN db'.label
  <2>1. Typed(db') /\ QueueIsExact'
    BY IsStoreDef DEF IInv, TypeOK, Typed, Numbered
  <2>2. db'.event \in Tables(EventRows) /\ db'.label \in Tables(LabelRows)
    BY <2>1, StoreFields DEF Typed
  <2>3. DOMAIN db'.event \subseteq Ids /\ DOMAIN db'.label \subseteq Ids
        /\ \A id \in DOMAIN db'.label : db'.label[id] \in LabelRows
    BY <2>2, TableDef
  <2>. QED
    BY <2>1, <2>3 DEF LabelRows, QueueIsExact
<1>. QED
  BY <1>1 DEF Queue!Commit, Sequences

(* Every step of the store is one of the queue, or does not touch it. *)
LEMMA RefinementStep == IInv /\ IInv' /\ [Next]_vars => [Queue!Next]_(Queue!vars)
<1> SUFFICES ASSUME IInv, IInv', [Next]_vars PROVE [Queue!Next]_(Queue!vars)
  OBVIOUS
<1>1. CASE Flush
  <2>1. PICK accepted : FlushFacts(accepted)
    BY <1>1, FlushSteps
  <2>2. Queue!Commit
    BY <2>1, CommitStep DEF FlushFacts
  <2>. QED
    BY <2>2 DEF Queue!Next
<1>2. CASE MaintainResolutions
  <2>1. MaintainFacts
    BY <1>2, MaintainSteps
  <2>2. Queue!Appends(Sequences(db), Sequences(db'), db.eventSequence, db'.eventSequence)
    BY <2>1, Tabled, AppendsNothing DEF MaintainFacts, Sequences
  <2>3. Queue!Commit
    BY <2>1, <2>2, CommitStep DEF MaintainFacts
  <2>. QED
    BY <2>3 DEF Queue!Next
<1>3. CASE ArchivePurge
  <2>1. PICK gone : ArchiveFacts(gone)
    BY <1>3, ArchiveSteps
  <2> DEFINE outcomes == [id \in DOMAIN db.event \cap DOMAIN db.label |-> db.label[id].y]
  <2>2. gone \in SUBSET DOMAIN outcomes
    BY <2>1 DEF ArchiveFacts
  <2>3. Sequences(db)' = [id \in DOMAIN Sequences(db) \ gone |-> Sequences(db)[id]]
    BY <2>1 DEF ArchiveFacts, Without, Sequences
  <2>4. outcomes' = [id \in DOMAIN outcomes \ gone |-> outcomes[id]]
    BY <2>1 DEF ArchiveFacts, Without
  <2>5. /\ db'.ready = [id \in DOMAIN db.ready \ gone |-> db.ready[id]]
        /\ UNCHANGED <<db.eventSequence, db.readySequence>>
    BY <2>1 DEF ArchiveFacts, Without
  <2>6. Queue!Archive
    BY <2>2, <2>3, <2>4, <2>5, Zenon DEF Queue!Archive, Sequences
  <2>. QED
    BY <2>6 DEF Queue!Next
<1>4. CASE Tick \/ UNCHANGED vars
  BY <1>4 DEF Tick, vars, Queue!vars
<1>. QED
  BY <1>1, <1>2, <1>3, <1>4 DEF Next

(* ImplementsResolutionQueue: every transaction of the store appends to the   *)
(* two numberings the learners read, or is the archive's.                     *)
THEOREM Refinement == Spec => ImplementsResolutionQueue
<1>1. Init => Queue!Init
  BY DEF Init, Queue!Init
<1>. QED
  BY <1>1, Invariance, RefinementStep, PTL DEF Spec, ImplementsResolutionQueue, Queue!Spec
==============================================================================
