------------------------------ MODULE Collector ------------------------------
(***************************************************************************)
(* The collector of one resumable source: collect_source and CollectorBatch *)
(* of collectors.py, TimedBatch of batching.py and the reconnecting         *)
(* subscription of sse.py.                                                  *)
(*                                                                         *)
(* The server publishes a sequence of messages, each of some records.  A    *)
(* request with a cursor is answered with all that follows it, one without  *)
(* with what is published from then on.  A reader thread puts records in a  *)
(* batch in memory and a timer thread flushes it too.  CollectorBatch does  *)
(* everything under one lock, so each of its calls is one action; a flush   *)
(* commits the records and the cursor in one transaction, or fails and      *)
(* leaves the batch as it was.  A cursor is the number of a message, 0 is   *)
(* none (None).  What the store does with records is EventStore's.          *)
(***************************************************************************)
EXTENDS Naturals, Sequences, SequencesExt

CONSTANTS
  Records,     \* observations and labels of the source
  Stream,      \* the records of each message, in order
  MaxItems,    \* ingest_batch_size
  MaxPending,  \* ingest_max_pending_items
  MaxFaults    \* bound on failed transactions, disconnects and process ends

ASSUME CollectorAssumption ==
  /\ Stream \in Seq(Seq(Records))
  /\ MaxItems \in Nat \ {0} /\ MaxPending \in Nat \ {0} /\ MaxFaults \in Nat

VARIABLES
  stored,   \* records the database has
  cursor,   \* the stream_cursors row
  head,     \* last message the server has published
  reader,   \* what collect_source is doing
  at,       \* the cursor asked for; on a connection, the last message delivered
  message,  \* the message being observed, 0 between messages
  left,     \* its records not yet observed
  items,    \* the batch
  latest,   \* CollectorBatch.latest_cursor
  durable,  \* StreamCursorState.value
  live,     \* history: where the last connection made without a cursor began
  faults    \* faults so far

disk == <<stored, cursor>>
connection == <<reader, at, message, left, live>>
batch == <<items, latest, durable>>
vars == <<stored, cursor, head, reader, at, message, left, items, latest, durable, live, faults>>

RecordsOf(m) == ToSet(Stream[m])

Fault == faults < MaxFaults /\ faults' = faults + 1

-----------------------------------------------------------------------------
(* CollectorBatch, under its lock                                           *)

(* Mutant: the cursor is that of the message being observed. *)
FlushAhead(records) ==
  \/ /\ stored' = stored \cup ToSet(records) /\ items' = <<>>
     /\ cursor' = at /\ durable' = at
     /\ UNCHANGED <<latest, faults>>
  \/ Fault /\ items' = records /\ UNCHANGED <<stored, cursor, latest, durable>>

(* _flush_locked and _flush_items: the transaction commits the records and the *)
(* cursor of the last message observed to its end, or the batch is retained.   *)
Flush(records) ==
  \/ /\ stored' = stored \cup ToSet(records) /\ items' = <<>>
     /\ cursor' = latest /\ durable' = latest
     /\ UNCHANGED <<latest, faults>>
  \/ Fault /\ items' = records /\ UNCHANGED <<stored, cursor, latest, durable>>

(* Mutant: the cursor is saved only with records. *)
FlushOnly == items # <<>> /\ Flush(items)

(* _checkpoint_cursor: records first; without any, a cursor that moved is saved. *)
CheckpointCursor ==
  \/ items # <<>> /\ Flush(items)
  \/ /\ items = <<>> /\ latest # durable
     /\ \/ cursor' = latest /\ durable' = latest /\ UNCHANGED faults
        \/ Fault /\ UNCHANGED <<cursor, durable>>
     /\ UNCHANGED <<stored, items, latest>>

(* TimedBatch.add below its outage limit; a batch may be old at any size. *)
AddItem(records) ==
  \/ Flush(records)
  \/ Len(records) < MaxItems /\ items' = records /\ UNCHANGED <<stored, cursor, latest, durable, faults>>

-----------------------------------------------------------------------------
Init ==
  /\ stored = {} /\ cursor = 0 /\ head = 0
  /\ reader = "connecting" /\ at = 0 /\ message = 0 /\ left = <<>>
  /\ items = <<>> /\ latest = 0 /\ durable = 0
  /\ live = 0 /\ faults = 0

(* The server, at any time. *)
Publish ==
  /\ head < Len(Stream)
  /\ head' = head + 1
  /\ UNCHANGED <<disk, connection, batch, faults>>

(* subscribe asks for what follows the cursor it reads; the answer takes a while. *)
Request ==
  /\ reader = "connecting"
  /\ reader' = "asking" /\ at' = durable
  /\ UNCHANGED <<disk, head, message, left, batch, live, faults>>

(* With a Last-Event-ID the connection resumes there, without one it is live. *)
Connect ==
  /\ reader = "asking"
  /\ reader' = "reading"
  /\ IF at = 0 THEN at' = head /\ live' = head ELSE UNCHANGED <<at, live>>
  /\ UNCHANGED <<disk, head, message, left, batch, faults>>

(* The connection is not made, or breaks while subscribe waits for a message, *)
(* as a read timeout breaks one that has none to deliver.                     *)
Disconnect ==
  /\ reader \in {"asking", "reading"} /\ message = 0
  /\ IF reader = "reading" /\ at = head THEN UNCHANGED faults ELSE Fault
  /\ reader' = "connecting"
  /\ UNCHANGED <<disk, head, at, message, left, batch, live>>

Receive ==
  /\ reader = "reading" /\ message = 0 /\ at < head
  /\ at' = at + 1 /\ message' = at' /\ left' = Stream[at']
  /\ UNCHANGED <<disk, head, reader, batch, live, faults>>

(* Mutant: no outage limit. *)
ObserveAlways ==
  /\ reader = "reading" /\ left # <<>>
  /\ AddItem(Append(items, Head(left))) /\ left' = Tail(left)
  /\ UNCHANGED <<head, reader, at, message, live>>

(* observe(item): past the outage limit the reader gives up. *)
Observe ==
  /\ reader = "reading" /\ left # <<>>
  /\ LET records == Append(items, Head(left)) IN
     \/ /\ Len(records) <= MaxPending
        /\ AddItem(records) /\ left' = Tail(left)
        /\ UNCHANGED <<reader, message>>
     \/ /\ Len(records) > MaxPending
        /\ items' = records /\ left' = <<>>
        /\ reader' = "draining" /\ message' = 0
        /\ UNCHANGED <<stored, cursor, latest, durable, faults>>
  /\ UNCHANGED <<head, at, live>>

(* Mutant: the cursor names the message to read next. *)
ObserveCursorPast ==
  /\ reader = "reading" /\ message # 0 /\ left = <<>>
  /\ latest' = message + 1 /\ message' = 0
  /\ UNCHANGED <<disk, head, reader, at, left, items, durable, live, faults>>

(* observe(cursor), once all records of the message are in the batch. *)
ObserveCursor ==
  /\ reader = "reading" /\ message # 0 /\ left = <<>>
  /\ latest' = message /\ message' = 0
  /\ UNCHANGED <<disk, head, reader, at, left, items, durable, live, faults>>

(* tick on the timer thread.  When its flush fails and the checkpoint is due *)
(* as well it tries again at once: the next Tick.                            *)
Tick ==
  /\ reader \in {"connecting", "asking", "reading"}
  /\ CheckpointCursor
  /\ UNCHANGED <<head, connection>>

(* A shutdown signal, which subscribe sees between messages, or an exception *)
(* of the decoder.                                                           *)
Stop ==
  /\ reader \in {"connecting", "asking", "reading"} /\ message = 0 /\ Fault
  /\ reader' = "draining"
  /\ UNCHANGED <<disk, head, at, message, left, batch, live>>

(* _flush_before_exit: it retries until the batch is durable or its time is up. *)
Drain ==
  /\ reader = "draining"
  /\ CheckpointCursor
  /\ UNCHANGED <<head, connection>>

(* The process ends: drained, out of time, or killed at any moment. *)
End ==
  /\ reader # "down"
  /\ IF reader = "draining" /\ items = <<>> /\ latest = durable THEN UNCHANGED faults ELSE Fault
  /\ reader' = "down" /\ at' = 0 /\ message' = 0 /\ left' = <<>>
  /\ items' = <<>> /\ latest' = 0 /\ durable' = 0
  /\ UNCHANGED <<disk, head, live>>

(* Mutant: a new process does not look for the cursor of the last. *)
StartAfresh ==
  /\ reader = "down"
  /\ reader' = "connecting"
  /\ UNCHANGED <<disk, head, at, message, left, batch, live, faults>>

(* The supervisor starts the process again, and collect_source reads its cursor. *)
Start ==
  /\ reader = "down"
  /\ reader' = "connecting" /\ latest' = cursor /\ durable' = cursor
  /\ UNCHANGED <<disk, head, at, message, left, items, live, faults>>

Next == \/ Publish \/ Request \/ Connect \/ Disconnect
        \/ Receive \/ Observe \/ ObserveCursor \/ Tick \/ Stop \/ Drain \/ End \/ Start

Spec == Init /\ [][Next]_vars

(* The reader reads what is there, or times out; the timer comes round; a      *)
(* drained collector ends, and a worker that ended is started again.           *)
FairSpec ==
  /\ Spec
  /\ WF_vars(Request) /\ WF_vars(Connect) /\ WF_vars(Receive) /\ WF_vars(Observe) /\ WF_vars(ObserveCursor)
  /\ WF_vars(reader = "reading" /\ at = head /\ Disconnect)
  /\ WF_vars(Tick) /\ WF_vars(Drain)
  /\ WF_vars(reader = "draining" /\ End) /\ WF_vars(Start)
-----------------------------------------------------------------------------
TypeOK ==
  /\ stored \subseteq Records /\ head \in 0..Len(Stream)
  /\ cursor \in 0..head /\ latest \in 0..head /\ durable \in 0..head
  /\ reader \in {"connecting", "asking", "reading", "draining", "down"}
  /\ at \in 0..head /\ live \in 0..head /\ message \in 0..head /\ left \in Seq(Records)
  /\ items \in Seq(Records) /\ faults \in 0..MaxFaults

(* Whatever fails, reconnects or restarts, the saved cursor passes no record  *)
(* that the database lacks, but for those published before the last           *)
(* connection that had to be made without a cursor.                           *)
NothingSkipped == \A m \in (live + 1)..cursor : RecordsOf(m) \subseteq stored

(* From the first cursor on the collector resumes, for good: no disconnect,   *)
(* crash or restart makes another connection live, and so nothing is missed   *)
(* any more, unless a request that was made without the cursor is under way.  *)
Resumes == cursor # 0 /\ ~(reader = "asking" /\ at = 0)

ResumesForGood == [][Resumes => Resumes' /\ live' = live]_vars

(* An outage of the database costs bounded memory.                            *)
BatchIsBounded == Len(items) <= MaxPending + 1

(* Once faults and news stop, every record published since the last live      *)
(* connection becomes durable, those of a quiet tail too, and the cursor      *)
(* passes messages that carried none; there is no cursor only where nothing   *)
(* has been published since.                                                  *)
EverythingArrives ==
  <>[](IF cursor = 0 THEN live = head
       ELSE cursor = head /\ \A m \in (live + 1)..head : RecordsOf(m) \subseteq stored)
=============================================================================
