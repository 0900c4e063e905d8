------------------------------ MODULE Supervisor ------------------------------
(***************************************************************************)
(* The processes and threads of a deployment: runtime.py, the start script *)
(* scripts/railway-start.sh and the platform's restart policy.             *)
(*                                                                         *)
(* The worker process runs one runtime per task, each on a thread that     *)
(* supervises the task's essential threads, and the research scheduler.    *)
(* Supervisors form a tree of depth two under the main thread; they share  *)
(* one stop event, and each has a queue of failures.  The script watches   *)
(* the worker and the web server, and the platform starts the container    *)
(* again when the script fails.                                            *)
(*                                                                         *)
(* What the threads do is in the other modules: here a thread runs, fails  *)
(* or returns once it sees the stop event.  Threads are taken as started   *)
(* together: one that starts after a failure sees the stop event at once.  *)
(***************************************************************************)
EXTENDS Naturals

CONSTANTS
  Tasks,        \* the tasks of the worker
  Roles,        \* collector, resolutions, learner, archiver, cache-reclaimer
  Main,         \* the main thread
  Scheduler,    \* the research-scheduler thread
  MaxFailures,  \* bound on failures of threads and of the web server
  MaxRetries    \* restartPolicyMaxRetries

ASSUME SupervisorAssumption ==
  /\ Tasks # {} /\ Main \notin Tasks /\ Scheduler \notin Tasks
  /\ \A p \in Tasks \X Roles : p \notin Tasks /\ p # Scheduler
  /\ MaxFailures \in Nat /\ MaxRetries \in Nat

VARIABLES
  thread,    \* what each supervised thread does
  loop,      \* where each supervisor's _run_threads is
  failures,  \* each supervisor's queue of failures, by thread
  stop,      \* the shared stop event
  worker,    \* the worker process
  web,       \* whether the web server runs
  script,    \* the start script
  asked,     \* whether the platform has asked the container to stop
  retries,   \* restarts so far
  failed     \* failures so far

process == <<thread, loop, failures, stop>>
container == <<worker, web, script, asked, retries>>
vars == <<thread, loop, failures, stop, worker, web, script, asked, retries, failed>>

(* Threads that do the work, and the supervisor of every thread. *)
Workers == (Tasks \X Roles) \cup {Scheduler}
Threads == Workers \cup Tasks
Supervisors == Tasks \cup {Main}

Children(s) == IF s = Main THEN Tasks \cup {Scheduler} ELSE {s} \X Roles

(* Mutant: one queue for the whole process. *)
SharedQueue(x) == Main

SupervisorOf(x) == IF x \in Tasks \cup {Scheduler} THEN Main ELSE x[1]

(* Thread.is_alive *)
IsAlive(x) == thread[x] \in {"running", "failing"}

(* A container that has just started. *)
AllRunning == [x \in Threads |-> "running"]
AllWatching == [s \in Supervisors |-> "watching"]
NoFailures == [s \in Supervisors |-> {}]

Init ==
  /\ thread = AllRunning /\ loop = AllWatching /\ failures = NoFailures
  /\ stop = FALSE /\ worker = "up" /\ web = TRUE /\ script = "watching"
  /\ asked = FALSE /\ retries = 0 /\ failed = 0

-----------------------------------------------------------------------------
(* The threads of the worker, while the process is up                       *)

(* A thread's failure goes into the queue first. *)
Puts(x) ==
  /\ thread' = [thread EXCEPT ![x] = "failing"]
  /\ failures' = [failures EXCEPT ![SupervisorOf(x)] = @ \cup {x}]

(* _supervised: the target raises, or returns although nothing asked it to; *)
(* while it drains as well.                                                 *)
Fail(w) ==
  /\ worker = "up" /\ thread[w] = "running" /\ failed < MaxFailures
  /\ failed' = failed + 1
  /\ Puts(w)
  /\ UNCHANGED <<loop, stop, container>>

(* Then the event is set. *)
Alarm(x) ==
  /\ worker = "up" /\ thread[x] = "failing"
  /\ thread' = [thread EXCEPT ![x] = "failed"]
  /\ stop' = TRUE
  /\ UNCHANGED <<loop, failures, container, failed>>

(* A target sees the event, ends what it is at and returns. *)
Return(w) ==
  /\ worker = "up" /\ thread[w] = "running" /\ stop
  /\ thread' = [thread EXCEPT ![w] = "ended"]
  /\ UNCHANGED <<loop, failures, stop, container, failed>>

(* _run_threads: a failure ends the loop, *)
TakeFailure(s) ==
  /\ worker = "up" /\ loop[s] = "watching" /\ failures[s] # {}
  /\ loop' = [loop EXCEPT ![s] = "raising"]
  /\ stop' = TRUE
  /\ UNCHANGED <<thread, failures, container, failed>>

(* Mutant: the queue is not looked at again when all threads have ended. *)
NoneIsAlive(s) == \A x \in Children(s) : ~IsAlive(x)

(* Mutant: the loop ends once the event is set. *)
StopIsSet(s) == stop /\ failures[s] = {}

(* and so does the end of all threads, with a last look at the queue. *)
AllEnded(s) == failures[s] = {} /\ \A x \in Children(s) : ~IsAlive(x)

EndLoop(s) ==
  /\ worker = "up" /\ loop[s] = "watching" /\ AllEnded(s)
  /\ loop' = [loop EXCEPT ![s] = "joining"]
  /\ stop' = TRUE
  /\ UNCHANGED <<thread, failures, container, failed>>

(* The joins are over, because the threads ended or at their deadline. *)
Raises(s) == loop[s] = "raising" \/ \E x \in Children(s) : IsAlive(x)

(* run_task ends; its thread reports an error to the main thread. *)
LeaveTask(t) ==
  /\ worker = "up" /\ loop[t] \in {"joining", "raising"}
  /\ loop' = [loop EXCEPT ![t] = IF Raises(t) THEN "raised" ELSE "returned"]
  /\ IF Raises(t) THEN Puts(t)
     ELSE thread' = [thread EXCEPT ![t] = "ended"] /\ UNCHANGED failures
  /\ UNCHANGED <<stop, container, failed>>

(* run_tasks ends. *)
LeaveMain ==
  /\ worker = "up" /\ loop[Main] \in {"joining", "raising"}
  /\ loop' = [loop EXCEPT ![Main] = IF Raises(Main) THEN "raised" ELSE "returned"]
  /\ UNCHANGED <<thread, failures, stop, container, failed>>

(* The interpreter waits for every thread that is not a daemon. *)
ExitWorker ==
  /\ worker = "up" /\ loop[Main] \in {"raised", "returned"}
  /\ \A x \in Threads : ~IsAlive(x)
  /\ worker' = "exited"
  /\ UNCHANGED <<process, web, script, asked, retries, failed>>

-----------------------------------------------------------------------------
(* The container                                                            *)

(* SIGTERM: _shutdown_signals has a handler that sets the event, until         *)
(* run_tasks ends; after that the signal kills the process.                    *)
TermWorker ==
  IF worker # "up" THEN UNCHANGED <<worker, stop>>
  ELSE IF loop[Main] \in {"raised", "returned"} THEN worker' = "killed" /\ UNCHANGED stop
  ELSE stop' = TRUE /\ UNCHANGED worker

(* Mutant: the script waits for both to be gone. *)
BothGone == worker # "up" /\ ~web

(* kill -0: one of the two processes is gone. *)
OneGone == worker # "up" \/ ~web

(* The script stops what is left. *)
NoticeExit ==
  /\ script = "watching" /\ OneGone
  /\ script' = "cleaning" /\ web' = FALSE
  /\ TermWorker
  /\ UNCHANGED <<thread, loop, failures, asked, retries, failed>>

(* terminate: the trap of the script, also while it cleans up. *)
Terminate ==
  /\ asked /\ script \in {"watching", "cleaning"}
  /\ script' = "terminating" /\ web' = FALSE
  /\ TermWorker
  /\ UNCHANGED <<thread, loop, failures, asked, retries, failed>>

(* wait; exit 1 after an exit that was not expected, exit 0 after a request. *)
ExitScript ==
  /\ script \in {"cleaning", "terminating"} /\ worker # "up" /\ ~web
  /\ script' = IF script = "cleaning" THEN "exit 1" ELSE "exit 0"
  /\ UNCHANGED <<process, worker, web, asked, retries, failed>>

WebFails ==
  /\ web /\ failed < MaxFailures
  /\ web' = FALSE /\ failed' = failed + 1
  /\ UNCHANGED <<process, worker, script, asked, retries>>

(* The platform stops the container, as for a new deployment, *)
Ask ==
  /\ ~asked /\ script \in {"watching", "cleaning"}
  /\ asked' = TRUE
  /\ UNCHANGED <<process, worker, web, script, retries, failed>>

(* or restarts it ON_FAILURE. *)
Restart ==
  /\ script = "exit 1" /\ ~asked /\ retries < MaxRetries
  /\ thread' = AllRunning /\ loop' = AllWatching /\ failures' = NoFailures
  /\ stop' = FALSE /\ worker' = "up" /\ web' = TRUE /\ script' = "watching"
  /\ retries' = retries + 1
  /\ UNCHANGED <<asked, failed>>

SuperviseTask(t) == TakeFailure(t) \/ EndLoop(t) \/ LeaveTask(t)
SuperviseAll == TakeFailure(Main) \/ EndLoop(Main) \/ LeaveMain \/ ExitWorker

Script == NoticeExit \/ Terminate \/ ExitScript

Next ==
  \/ \E w \in Workers : Fail(w) \/ Return(w)
  \/ \E x \in Threads : Alarm(x)
  \/ \E t \in Tasks : SuperviseTask(t)
  \/ SuperviseAll \/ Script \/ WebFails \/ Ask \/ Restart

Spec == Init /\ [][Next]_vars

(* Every thread looks at the event between two bounded pieces of work, the     *)
(* loops poll, and the script polls and waits.                                 *)
FairSpec ==
  /\ Spec
  /\ \A w \in Workers : WF_vars(Return(w))
  /\ \A x \in Threads : WF_vars(Alarm(x))
  /\ \A t \in Tasks : WF_vars(SuperviseTask(t))
  /\ WF_vars(SuperviseAll) /\ WF_vars(Script) /\ WF_vars(Restart)
-----------------------------------------------------------------------------
(* The type invariant; a queue of failures holds threads of its supervisor. *)
TypeOK ==
  /\ thread \in [Threads -> {"running", "failing", "failed", "ended"}]
  /\ loop \in [Supervisors -> {"watching", "raising", "joining", "raised", "returned"}]
  /\ failures \in [Supervisors -> SUBSET Threads]
  /\ \A s \in Supervisors : failures[s] \subseteq Children(s)
  /\ stop \in BOOLEAN /\ web \in BOOLEAN /\ asked \in BOOLEAN
  /\ worker \in {"up", "exited", "killed"}
  /\ script \in {"watching", "cleaning", "terminating", "exit 0", "exit 1"}
  /\ retries \in Nat /\ failed \in Nat

(* A worker whose run_tasks returns normally lost nothing: every thread of     *)
(* every task ended as it should.  A failure is never lost, neither between    *)
(* the last poll of a queue and the end of the last thread, nor on its way     *)
(* from a thread through its task to the main thread.                          *)
NoFailureIsSwallowed ==
  loop[Main] = "returned" => \A x \in Threads : thread[x] = "ended"

(* A thread that still drains its batch is killed only when another failed     *)
(* before: without a failure, the main thread keeps the handler of SIGTERM     *)
(* until all have drained, however many signals come.                          *)
OrderlyStopDrains ==
  worker = "killed" /\ (\E w \in Workers : IsAlive(w)) =>
    \E s \in Supervisors : failures[s] # {}

(* "An unexpected failure in an essential loop stops the process so Railway    *)
(* can restart it" (run_task), and a request to stop is answered: whatever     *)
(* fails or is asked, at whatever moment, the container comes to its end.      *)
Ending == asked \/ ~web \/ \E s \in Supervisors : failures[s] # {}

ContainerEnds == Ending ~> script \in {"exit 0", "exit 1"}
=============================================================================
