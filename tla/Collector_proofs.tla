--------------------------- MODULE Collector_proofs ---------------------------
(* The cursor of a resumable source never passes a lost record from the last  *)
(* live connection on, and with the first cursor live connections end, for    *)
(* any stream, batch sizes and faults.                                        *)
EXTENDS Collector, TLAPS

(* ------------------------- Records of a batch -------------------------- *)

(* The records of a batch, when one is added, *)
LEMMA ToSetAppend ==
  ASSUME NEW s \in Seq(Records), NEW r \in Records
  PROVE  Append(s, r) \in Seq(Records) /\ ToSet(Append(s, r)) = ToSet(s) \cup {r}
<1>1. /\ Append(s, r) \in Seq(Records) /\ Len(s) \in Nat /\ DOMAIN s = 1..Len(s)
      /\ DOMAIN Append(s, r) = 1..(Len(s) + 1)
      /\ Append(s, r)[Len(s) + 1] = r
      /\ \A i \in 1..Len(s) : Append(s, r)[i] = s[i]
  OBVIOUS
<1>2. 1..(Len(s) + 1) = 1..Len(s) \cup {Len(s) + 1}
  BY <1>1
<1> QED
  BY <1>1, <1>2 DEF ToSet

(* when the first is taken, *)
LEMMA ToSetTail ==
  ASSUME NEW s \in Seq(Records), s # <<>>
  PROVE  /\ Head(s) \in Records /\ Tail(s) \in Seq(Records)
         /\ ToSet(s) = {Head(s)} \cup ToSet(Tail(s))
<1>1. /\ Len(s) \in Nat \ {0} /\ Head(s) = s[1] /\ Tail(s) \in Seq(Records)
      /\ DOMAIN s = 1..Len(s) /\ DOMAIN Tail(s) = 1..(Len(s) - 1)
      /\ \A i \in 1..(Len(s) - 1) : Tail(s)[i] = s[i + 1]
      /\ \A i \in 1..Len(s) : s[i] \in Records
  OBVIOUS
<1>2. ASSUME NEW i \in 1..Len(s), i # 1
      PROVE  i - 1 \in 1..(Len(s) - 1) /\ Tail(s)[i - 1] = s[i]
  BY <1>1, <1>2
<1>3. ASSUME NEW j \in 1..(Len(s) - 1)
      PROVE  j + 1 \in 1..Len(s) /\ Tail(s)[j] = s[j + 1]
  BY <1>1, <1>3
<1>4. 1 \in 1..Len(s)
  BY <1>1
<1>5. ToSet(s) \subseteq {Head(s)} \cup ToSet(Tail(s))
  <2> SUFFICES ASSUME NEW i \in 1..Len(s) PROVE s[i] \in {Head(s)} \cup ToSet(Tail(s))
    BY <1>1 DEF ToSet
  <2>1. CASE i = 1
    BY <1>1, <2>1
  <2>2. CASE i # 1
    <3>1. i - 1 \in DOMAIN Tail(s) /\ Tail(s)[i - 1] = s[i]
      BY <1>1, <1>2, <2>2
    <3> QED
      BY <3>1 DEF ToSet
  <2> QED
    BY <2>1, <2>2
<1>6. {Head(s)} \cup ToSet(Tail(s)) \subseteq ToSet(s)
  BY <1>1, <1>3, <1>4 DEF ToSet
<1> QED
  BY <1>1, <1>4, <1>5, <1>6

(* and when there is none. *)
LEMMA ToSetEmpty == ToSet(<<>>) = {}
BY DEF ToSet

(* The messages of the stream are sequences of records. *)
LEMMA StreamFacts ==
  /\ Len(Stream) \in Nat
  /\ \A m \in 1..Len(Stream) : Stream[m] \in Seq(Records) /\ RecordsOf(m) \subseteq Records
<1>1. Stream \in Seq(Seq(Records))
  BY CollectorAssumption DEF CollectorAssumption
<1>2. \A m \in 1..Len(Stream) : Stream[m] \in Seq(Records)
  BY <1>1
<1>3. \A m \in 1..Len(Stream) : RecordsOf(m) \subseteq Records
  BY <1>2 DEF RecordsOf, ToSet
<1> QED
  BY <1>1, <1>2, <1>3
(* --------------------------- The invariant ----------------------------- *)

Covers(records, n) == \A m \in (live + 1)..n : RecordsOf(m) \subseteq records

(* What a crash would not lose, and what only the process knows. *)
Known == stored \cup ToSet(items)

(* The cursor is saved from latest or from durable, and a connection resumes   *)
(* from durable, so what they cover has to be kept with what the cursor covers. *)
(* The message being observed is covered but for the records left of it.  Once *)
(* there is a cursor, durable and latest are cursors too.                      *)
IInv ==
  /\ TypeOK
  /\ Covers(stored, cursor)
  /\ Covers(Known, latest)
  /\ reader # "down" => durable = cursor /\ (cursor # 0 => latest # 0)
  /\ reader = "asking" => Covers(stored, at)
  /\ reader = "reading" /\ message = 0 => Covers(Known, at)
  /\ message # 0 =>
       /\ reader = "reading" /\ message = at
       /\ Covers(Known, at - 1) /\ RecordsOf(at) \subseteq Known \cup ToSet(left)
  /\ left # <<>> => message # 0

(* What every call of the batch guarantees when it holds these records: none   *)
(* is forgotten, and the cursor is saved only with all of them stored.         *)
Kept(records) ==
  /\ stored' \subseteq Records /\ items' \in Seq(Records) /\ faults' \in 0..MaxFaults
  /\ latest' = latest /\ stored \subseteq stored'
  /\ stored \cup ToSet(records) \subseteq Known'
  /\ \/ cursor' = latest /\ durable' = latest /\ stored \cup ToSet(records) \subseteq stored'
     \/ cursor' = cursor /\ durable' = durable

(* _flush_locked: all is stored and the cursor catches up, or nothing changes. *)
LEMMA FlushKeeps ==
  ASSUME TypeOK, NEW records \in Seq(Records), Flush(records)
  PROVE  Kept(records)
<1> USE DEF TypeOK
<1>1. ToSet(records) \subseteq Records
  BY DEF ToSet
<1>2. CASE /\ stored' = stored \cup ToSet(records) /\ items' = <<>>
           /\ cursor' = latest /\ durable' = latest
           /\ UNCHANGED <<latest, faults>>
  BY <1>1, <1>2 DEF Known, Kept
<1>3. CASE Fault /\ items' = records /\ UNCHANGED <<stored, cursor, latest, durable>>
  BY <1>3, CollectorAssumption DEF Known, Fault, CollectorAssumption, Kept
<1> QED
  BY <1>2, <1>3 DEF Flush

(* TimedBatch.add loses no record. *)
LEMMA AddItemKeeps ==
  ASSUME TypeOK, NEW records \in Seq(Records), AddItem(records)
  PROVE  Kept(records)
<1>1. CASE Flush(records)
  BY <1>1, FlushKeeps
<1>2. CASE items' = records /\ UNCHANGED <<stored, cursor, latest, durable, faults>>
  BY <1>2 DEF Known, Kept, TypeOK
<1> QED
  BY <1>1, <1>2 DEF AddItem

(* _checkpoint_cursor loses none either. *)
LEMMA CheckpointCursorKeeps ==
  ASSUME TypeOK, CheckpointCursor
  PROVE  Kept(items)
<1>1. CASE Flush(items)
  BY <1>1, FlushKeeps DEF TypeOK
<1>2. CASE /\ items = <<>>
           /\ \/ cursor' = latest /\ durable' = latest /\ UNCHANGED faults
              \/ Fault /\ UNCHANGED <<cursor, durable>>
           /\ UNCHANGED <<stored, items, latest>>
  <2>1. faults' \in 0..MaxFaults
    BY <1>2, CollectorAssumption DEF Fault, CollectorAssumption, TypeOK
  <2> QED
    BY <1>2, <2>1, ToSetEmpty DEF Known, Kept, TypeOK
<1> QED
  BY <1>1, <1>2 DEF CheckpointCursor

(* More records cover the same messages. *)
LEMMA CoversMore ==
  ASSUME NEW r, NEW s, NEW n, Covers(r, n), r \subseteq s
  PROVE  Covers(s, n)
BY DEF Covers

(* What is covered stays so while no live connection is made, *)
LEMMA CoversStill ==
  ASSUME NEW r, NEW s, NEW n, Covers(r, n), r \subseteq s, live' = live
  PROVE  \A m \in (live' + 1)..n : RecordsOf(m) \subseteq s
BY DEF Covers

(* and one that is made leaves nothing published to cover. *)
LEMMA CoversNone ==
  ASSUME TypeOK, NEW n \in 0..head, NEW r
  PROVE  \A m \in (head + 1)..n : RecordsOf(m) \subseteq r
BY StreamFacts DEF TypeOK

(* Covering a message after all before it covers all up to it. *)
LEMMA CoversNext ==
  ASSUME NEW r, NEW n \in Nat \ {0}, Covers(r, n - 1), RecordsOf(n) \subseteq r
  PROVE  Covers(r, n)
BY DEF Covers

(* Nothing is read and nothing saved. *)
LEMMA InitIInv == Init => IInv
BY StreamFacts, CollectorAssumption, ToSetEmpty
   DEF Init, IInv, TypeOK, Covers, CollectorAssumption

(* A call of the batch that leaves the reader where it is. *)
LEMMA BatchStep ==
  ASSUME IInv, Kept(items), UNCHANGED <<head, connection>>
  PROVE  IInv'
<1> USE DEF IInv, Kept, connection
<1>1. TypeOK'
  BY DEF TypeOK
<1>2. Known \subseteq Known' /\ stored \subseteq stored' /\ live' = live
  BY DEF Known
<1>3. Covers(stored, cursor)'
  <2>1. CASE cursor' = latest /\ stored \cup ToSet(items) \subseteq stored'
    <3>1. Known \subseteq stored'
      BY <2>1 DEF Known
    <3>. QED
      BY <1>2, <2>1, <3>1, CoversStill DEF Covers
  <2>2. CASE cursor' = cursor
    BY <1>2, <2>2, CoversStill DEF Covers
  <2> QED
    BY <2>1, <2>2
<1>4. Covers(Known, latest)'
  BY <1>2, CoversStill DEF Covers
<1>5. (reader # "down" => durable = cursor /\ (cursor # 0 => latest # 0))'
  OBVIOUS
<1>6. (reader = "reading" /\ message = 0 => Covers(Known, at))'
  BY <1>2, CoversStill DEF Covers
<1>7. (reader = "asking" => Covers(stored, at))'
  BY <1>2, CoversStill DEF Covers
<1>8. (message # 0 => Covers(Known, at - 1) /\ RecordsOf(at) \subseteq Known \cup ToSet(left))'
  <2> SUFFICES ASSUME message # 0
               PROVE  Covers(Known, at - 1)' /\ RecordsOf(at) \subseteq Known' \cup ToSet(left)
    BY DEF RecordsOf
  <2>1. Covers(Known, at - 1) /\ at' = at
    OBVIOUS
  <2>2. Covers(Known, at - 1)'
    BY <1>2, <2>1, CoversStill DEF Covers
  <2>. QED
    BY <1>2, <2>2
<1> QED
  BY <1>1, <1>3, <1>4, <1>5, <1>6, <1>7, <1>8

(* The server publishes. *)
LEMMA PublishKeeps == IInv /\ Publish => IInv'
<1> SUFFICES ASSUME IInv, Publish PROVE IInv'
  OBVIOUS
<1>1. TypeOK'
  BY StreamFacts DEF IInv, TypeOK, Publish, disk, connection, batch
<1>. QED
  BY <1>1 DEF IInv, Publish, disk, connection, batch, Covers, Known

(* A request names the durable cursor, up to which all is stored. *)
LEMMA RequestKeeps == IInv /\ Request => IInv'
BY DEF IInv, TypeOK, Request, disk, batch, Covers, Known

(* A connection starts there; a live one starts after everything published. *)
LEMMA ConnectKeeps == IInv /\ Connect => IInv'
<1> SUFFICES ASSUME IInv, Connect PROVE IInv'
  OBVIOUS
<1>1. reader = "asking" /\ reader' = "reading" /\ message = 0 /\ message' = 0 /\ left' = <<>>
  BY DEF IInv, Connect
<1>2. TypeOK' /\ Known' = Known /\ UNCHANGED <<stored, cursor, items, latest, durable, head>>
  BY DEF IInv, TypeOK, Connect, disk, batch, Known
<1>3. CASE at = 0
  <2>1. at' = head /\ live' = head
    BY <1>3 DEF Connect
  <2>2. Covers(stored, cursor)' /\ Covers(Known, latest)' /\ Covers(Known, at)'
    BY <1>2, <2>1, CoversNone DEF Covers, IInv, TypeOK
  <2>. QED
    BY <1>1, <1>2, <2>2 DEF IInv
<1>4. CASE at # 0
  <2>1. at' = at /\ live' = live
    BY <1>4 DEF Connect
  <2>2. Covers(stored, at) /\ stored \subseteq Known
    BY <1>1 DEF IInv, Known
  <2>3. Covers(Known, at)'
    BY <1>2, <2>1, <2>2 DEF Covers
  <2>4. Covers(stored, cursor)' /\ Covers(Known, latest)'
    BY <1>2, <2>1 DEF IInv, Covers
  <2>. QED
    BY <1>1, <1>2, <2>3, <2>4 DEF IInv
<1> QED
  BY <1>3, <1>4

(* All of a new message is left to observe. *)
LEMMA ReceiveKeeps == IInv /\ Receive => IInv'
<1> SUFFICES ASSUME IInv, Receive PROVE IInv'
  OBVIOUS
<1>1. /\ at' = at + 1 /\ at' \in 1..head /\ message' = at' /\ left' = Stream[at']
      /\ reader' = "reading" /\ Known' = Known /\ live' = live /\ head' = head
  BY StreamFacts DEF Receive, IInv, TypeOK, Known, disk, batch
<1>2. left' \in Seq(Records) /\ RecordsOf(at') = ToSet(left')
  BY <1>1, StreamFacts DEF RecordsOf, IInv, TypeOK
<1>3. TypeOK'
  BY <1>1, <1>2 DEF IInv, TypeOK, Receive, disk, batch
<1>4. Covers(Known, at) /\ at = at' - 1
  BY <1>1 DEF IInv, TypeOK, Receive
<1>5. (Covers(Known, at - 1))'
  BY <1>1, <1>4 DEF Covers
<1>6. Covers(stored, cursor)' /\ Covers(Known, latest)'
  BY <1>1 DEF IInv, Covers, Receive, disk, batch
<1>7. (reader # "down" => durable = cursor /\ (cursor # 0 => latest # 0))'
  BY DEF IInv, Receive, disk, batch
<1>8. message' # 0 /\ RecordsOf(at') \subseteq Known' \cup ToSet(left')
  BY <1>1, <1>2
<1> QED
  BY <1>1, <1>3, <1>5, <1>6, <1>7, <1>8 DEF IInv

(* One more record of the message goes from what is left to what is known. *)
LEMMA ObserveKeeps == IInv /\ Observe => IInv'
<1> SUFFICES ASSUME IInv, Observe PROVE IInv'
  OBVIOUS
<1> DEFINE records == Append(items, Head(left))
<1>1. /\ reader = "reading" /\ left # <<>> /\ message # 0 /\ message = at
      /\ items \in Seq(Records) /\ left \in Seq(Records) /\ at \in Nat
      /\ UNCHANGED <<head, at, live>>
  BY StreamFacts DEF Observe, IInv, TypeOK
<1>2. /\ Head(left) \in Records /\ Tail(left) \in Seq(Records)
      /\ ToSet(left) = {Head(left)} \cup ToSet(Tail(left))
  BY <1>1, ToSetTail
<1>3. records \in Seq(Records) /\ ToSet(records) = ToSet(items) \cup {Head(left)}
  BY <1>1, <1>2, ToSetAppend
<1> HIDE DEF records
<1>4. CASE AddItem(records) /\ left' = Tail(left) /\ UNCHANGED <<reader, message>>
  <2>1. Kept(records)
    BY <1>3, <1>4, AddItemKeeps DEF IInv
  <2>2. Known \cup {Head(left)} \subseteq Known' /\ stored \subseteq stored'
    BY <1>3, <2>1 DEF Kept, Known
  <2>3. TypeOK'
    BY <1>1, <1>2, <1>4, <2>1 DEF IInv, TypeOK, Kept
  <2>4. Covers(stored, cursor)'
    <3>1. CASE cursor' = latest /\ stored \cup ToSet(records) \subseteq stored'
      <4>1. Known \subseteq stored'
        BY <1>3, <3>1 DEF Known
      <4>. QED
        BY <1>1, <3>1, <4>1, CoversStill DEF IInv, Covers
    <3>2. CASE cursor' = cursor
      BY <1>1, <2>2, <3>2, CoversStill DEF IInv, Covers
    <3> QED
      BY <2>1, <3>1, <3>2 DEF Kept
  <2>5. Covers(Known, latest)'
    BY <1>1, <2>1, <2>2, CoversStill DEF IInv, Kept, Covers
  <2>6. durable' = cursor' /\ (cursor' # 0 => latest' # 0)
    BY <1>1, <2>1 DEF IInv, Kept
  <2>7. (Covers(Known, at - 1))' /\ RecordsOf(at) \subseteq Known' \cup ToSet(left')
    <3>1. Covers(Known, at - 1) /\ RecordsOf(at) \subseteq Known \cup ToSet(left)
      BY <1>1 DEF IInv
    <3>2. (Covers(Known, at - 1))'
      BY <1>1, <2>2, <3>1, CoversStill DEF Covers
    <3>. QED
      BY <1>2, <1>4, <2>2, <3>1, <3>2
  <2> QED
    BY <1>1, <1>4, <2>3, <2>4, <2>5, <2>6, <2>7 DEF IInv
<1>5. CASE /\ items' = records /\ left' = <<>>
           /\ reader' = "draining" /\ message' = 0
           /\ UNCHANGED <<stored, cursor, latest, durable, faults>>
  <2>1. Known \subseteq Known'
    BY <1>3, <1>5 DEF Known
  <2>2. Covers(Known, latest)' /\ Covers(stored, cursor)'
    BY <1>1, <1>5, <2>1, CoversStill DEF IInv, Covers
  <2>3. TypeOK'
    BY <1>1, <1>3, <1>5 DEF IInv, TypeOK
  <2> QED
    BY <1>1, <1>5, <2>2, <2>3 DEF IInv
<1> QED
  BY <1>4, <1>5 DEF Observe, records

(* The cursor moves on when nothing is left of its message. *)
LEMMA ObserveCursorKeeps == IInv /\ ObserveCursor => IInv'
<1> SUFFICES ASSUME IInv, ObserveCursor PROVE IInv'
  OBVIOUS
<1>1. /\ message = at /\ at \in Nat \ {0} /\ Covers(Known, at - 1) /\ RecordsOf(at) \subseteq Known
  BY StreamFacts, ToSetEmpty DEF IInv, ObserveCursor, TypeOK
<1>2. Covers(Known, at)
  BY <1>1, CoversNext DEF IInv, TypeOK
<1> QED
  BY <1>1, <1>2 DEF IInv, ObserveCursor, TypeOK, Covers, Known, disk

(* What a process that ends forgets is past the saved cursor. *)
LEMMA EndKeeps == IInv /\ End => IInv'
<1> SUFFICES ASSUME IInv, End PROVE IInv'
  OBVIOUS
<1>1. faults \in 0..MaxFaults /\ (UNCHANGED faults \/ Fault)
  BY DEF IInv, TypeOK, End
<1>2. faults' \in 0..MaxFaults
  BY <1>1, CollectorAssumption DEF Fault, CollectorAssumption
<1>3. live \in Nat /\ head \in Nat
  BY StreamFacts DEF IInv, TypeOK
<1>4. \A r : \A m \in (live + 1)..0 : RecordsOf(m) \subseteq r
  BY <1>3
<1> QED
  BY <1>2, <1>3, <1>4 DEF IInv, TypeOK, End, disk, Covers

(* A new process knows what is stored, up to the cursor it reads. *)
LEMMA StartKeeps == IInv /\ Start => IInv'
<1> SUFFICES ASSUME IInv, Start PROVE IInv'
  OBVIOUS
<1>1. Covers(Known, cursor)
  BY CoversMore DEF IInv, Known
<1> QED
  BY <1>1 DEF IInv, TypeOK, Start, disk, Covers, Known

(* The reader stops or reconnects between messages. *)
LEMMA ReaderKeeps == IInv /\ (Disconnect \/ Stop) => IInv'
<1> SUFFICES ASSUME IInv, Disconnect \/ Stop PROVE IInv'
  OBVIOUS
<1>0. faults \in 0..MaxFaults /\ (UNCHANGED faults \/ Fault)
  BY DEF IInv, TypeOK, Disconnect, Stop
<1>1. faults' \in 0..MaxFaults
  BY <1>0, CollectorAssumption DEF Fault, CollectorAssumption
<1>2. /\ reader # "down" /\ reader' \in {"connecting", "draining"} /\ message = 0
      /\ UNCHANGED <<disk, head, at, message, left, batch, live>>
  BY DEF Disconnect, Stop
<1>3. UNCHANGED <<stored, cursor, head, at, message, left, items, latest, durable, live>> /\ Known' = Known
  BY <1>2 DEF disk, batch, Known
<1>4. TypeOK'
  BY <1>1, <1>2, <1>3 DEF IInv, TypeOK
<1>5. Covers(stored, cursor)' /\ Covers(Known, latest)'
  BY <1>3 DEF IInv, Covers
<1> QED
  BY <1>2, <1>3, <1>4, <1>5 DEF IInv

(* Every step keeps the invariant. *)
LEMMA Invariance == Spec => []IInv
<1>1. IInv /\ [Next]_vars => IInv'
  <2> SUFFICES ASSUME IInv, [Next]_vars PROVE IInv'
    OBVIOUS
  <2>1. CASE Publish \/ Request \/ Connect
    BY <2>1, PublishKeeps, RequestKeeps, ConnectKeeps
  <2>2. CASE Disconnect \/ Stop
    BY <2>2, ReaderKeeps
  <2>3. CASE Receive
    BY <2>3, ReceiveKeeps
  <2>4. CASE Observe
    BY <2>4, ObserveKeeps
  <2>5. CASE ObserveCursor
    BY <2>5, ObserveCursorKeeps
  <2>6. CASE Tick \/ Drain
    BY <2>6, CheckpointCursorKeeps, BatchStep DEF Tick, Drain, IInv
  <2>7. CASE End
    BY <2>7, EndKeeps
  <2>8. CASE Start
    BY <2>8, StartKeeps
  <2>9. CASE UNCHANGED vars
    BY <2>9 DEF vars, IInv, TypeOK, Covers, Known, RecordsOf
  <2> QED
    BY <2>1, <2>2, <2>3, <2>4, <2>5, <2>6, <2>7, <2>8, <2>9 DEF Next
<1> QED
  BY <1>1, InitIInv, PTL DEF Spec

(* Every cursor the process keeps names a message of the stream. *)
THEOREM TypeCorrect == Spec => []TypeOK
BY Invariance, PTL DEF IInv

(* NothingSkipped: through failed flushes, reconnections, the outage limit,   *)
(* shutdowns and crashes, every record of every message from the last live    *)
(* connection up to the saved cursor is stored.                               *)
THEOREM NothingIsSkipped == Spec => []NothingSkipped
<1>1. IInv => NothingSkipped
  BY DEF IInv, NothingSkipped, Covers
<1> QED
  BY <1>1, Invariance, PTL

(* A cursor that is saved stays a cursor, and what the process takes for its  *)
(* own is it.                                                                 *)
LEMMA ResumesStep ==
  ASSUME IInv, [Next]_vars, Resumes
  PROVE  Resumes' /\ live' = live
<1> USE DEF IInv, Resumes
<1>1. CASE Publish \/ Request \/ Connect
  BY <1>1 DEF Publish, Request, Connect, disk, connection, batch
<1>2. CASE Disconnect \/ Stop \/ Receive \/ ObserveCursor
  BY <1>2 DEF Disconnect, Stop, Receive, ObserveCursor, disk, batch
<1>3. CASE Observe
  <2>1. reader = "reading" /\ live' = live /\ reader' \in {"reading", "draining"}
    BY <1>3 DEF Observe
  <2>2. cursor' = cursor \/ cursor' = latest
    BY <1>3 DEF Observe, AddItem, Flush
  <2>. QED
    BY <2>1, <2>2
<1>4. CASE Tick \/ Drain
  <2>1. UNCHANGED connection /\ reader # "down"
    BY <1>4 DEF Tick, Drain
  <2>2. cursor' = cursor \/ cursor' = latest
    BY <1>4 DEF Tick, Drain, CheckpointCursor, Flush
  <2>. QED
    BY <2>1, <2>2 DEF connection
<1>5. CASE End \/ Start
  BY <1>5 DEF End, Start, disk
<1>6. CASE UNCHANGED vars
  BY <1>6 DEF vars
<1>. QED
  BY <1>1, <1>2, <1>3, <1>4, <1>5, <1>6 DEF Next

(* ResumesForGood: with its first cursor a collector is through with live     *)
(* connections, but for one that it asked for before, so records are missed   *)
(* only at the very start of a stream.                                        *)
THEOREM ResumingLasts == Spec => ResumesForGood
<1>1. IInv /\ [Next]_vars => [Resumes => Resumes' /\ live' = live]_vars
  BY ResumesStep
<1>. QED
  BY <1>1, Invariance, PTL DEF Spec, ResumesForGood

(* ------------------------ The size of the batch ------------------------ *)

(* A reader goes on with a batch that an outage has not filled, and gives up  *)
(* with one record more.                                                      *)
BoundInv == Len(items) <= IF reader = "draining" THEN MaxPending + 1 ELSE MaxPending

(* A flush empties the batch or retains what it was given. *)
LEMMA BatchSizes ==
  ASSUME TypeOK, NEW records \in Seq(Records),
         Flush(records) \/ AddItem(records)
  PROVE  items' = <<>> \/ items' = records
BY DEF Flush, AddItem

(* Only observe makes the batch longer, below the outage limit or to give up. *)
LEMMA BoundSteps == TypeOK /\ BoundInv /\ [Next]_vars => BoundInv'
<1> SUFFICES ASSUME TypeOK, BoundInv, [Next]_vars PROVE BoundInv'
  OBVIOUS
<1>0. items \in Seq(Records) /\ Len(items) \in Nat /\ MaxPending \in Nat /\ Len(<<>>) = 0
  BY CollectorAssumption DEF TypeOK, CollectorAssumption
<1>1. CASE Observe
  <2> DEFINE records == Append(items, Head(left))
  <2>1. reader = "reading" /\ left \in Seq(Records) /\ left # <<>>
    BY <1>1 DEF Observe, TypeOK
  <2>2. records \in Seq(Records) /\ Len(records) = Len(items) + 1
    BY <1>0, <2>1
  <2> HIDE DEF records
  <2>3. CASE Len(records) <= MaxPending /\ AddItem(records) /\ reader' = reader
    <3>1. items' = <<>> \/ items' = records
      BY <2>2, <2>3, BatchSizes
    <3>. QED
      BY <1>0, <2>1, <2>3, <3>1 DEF BoundInv
  <2>4. CASE items' = records /\ reader' = "draining"
    BY <1>0, <2>1, <2>2, <2>4 DEF BoundInv
  <2>. QED
    BY <1>1, <2>3, <2>4 DEF Observe, records
<1>2. CASE Tick \/ Drain
  <2>1. items' = items \/ items' = <<>>
    BY <1>0, <1>2, BatchSizes DEF Tick, Drain, CheckpointCursor
  <2>. QED
    BY <1>0, <1>2, <2>1 DEF Tick, Drain, connection, BoundInv
<1>3. CASE End
  BY <1>0, <1>3 DEF End, BoundInv
<1>. QED
  BY <1>0, <1>1, <1>2, <1>3
     DEF Next, Publish, Request, Connect, Disconnect, Receive, ObserveCursor, Stop, Start, batch, connection, vars, BoundInv

(* BatchIsBounded: however long the database is out, the batch never holds    *)
(* more than one record past the outage limit, which makes the reader drain.  *)
THEOREM OutageIsBounded == Spec => []BatchIsBounded
<1>1. Init => BoundInv
  BY CollectorAssumption DEF Init, BoundInv, CollectorAssumption
<1>2. TypeOK /\ BoundInv => BatchIsBounded
  BY CollectorAssumption DEF TypeOK, BoundInv, BatchIsBounded, CollectorAssumption
<1>. QED
  BY <1>1, <1>2, BoundSteps, TypeCorrect, PTL DEF Spec
=============================================================================
