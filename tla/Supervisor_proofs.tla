--------------------------- MODULE Supervisor_proofs ---------------------------
(***************************************************************************)
(* Proofs about the supervisors, for every number of tasks, of threads of  *)
(* a task, of failures and of restarts.                                    *)
(***************************************************************************)
EXTENDS Supervisor, TLAPS

(* A thread that failed is in its supervisor's queue, from where nothing is    *)
(* taken without the supervisor's raising.                                     *)
Reported == \A x \in Threads :
  thread[x] \in {"failing", "failed"} => x \in failures[SupervisorOf(x)]

(* A loop that ended without an exception left no thread and no failure. *)
LeftNothing == \A s \in Supervisors :
  loop[s] \in {"joining", "returned"} =>
    failures[s] = {} /\ \A x \in Children(s) : ~IsAlive(x)

(* One that raises has a failure to raise. *)
RaisesFailure == \A s \in Supervisors :
  loop[s] \in {"raising", "raised"} => failures[s] # {}

(* The thread of a task runs as long as its loop, and ends well only with it. *)
TaskEnds == \A t \in Tasks :
  /\ thread[t] = "ended" => loop[t] = "returned"
  /\ loop[t] \in {"watching", "raising", "joining"} => thread[t] = "running"

KilledAfterRun == worker = "killed" => loop[Main] \in {"raised", "returned"}

IInv == TypeOK /\ Reported /\ LeftNothing /\ RaisesFailure /\ TaskEnds /\ KilledAfterRun

-----------------------------------------------------------------------------
(* Every thread is a child of its own supervisor only. *)
LEMMA Tree ==
  /\ \A x \in Threads : SupervisorOf(x) \in Supervisors
  /\ \A x \in Threads, s \in Supervisors : x \in Children(s) <=> SupervisorOf(x) = s
  /\ \A s \in Supervisors : Children(s) \subseteq Threads
  /\ Workers \subseteq Threads /\ Tasks \subseteq Threads
  /\ \A w \in Workers : w \notin Tasks
  /\ Main \in Supervisors /\ Tasks \subseteq Supervisors
<1> USE SupervisorAssumption DEF SupervisorOf, Threads, Workers, Supervisors, Children
<1>1. \A x \in Threads : SupervisorOf(x) \in Supervisors
  OBVIOUS
<1>2. ASSUME NEW x \in Threads, NEW s \in Supervisors
      PROVE  x \in Children(s) <=> SupervisorOf(x) = s
  <2>1. CASE x \in Tasks \cup {Scheduler}
    <3>1. x \notin Tasks \X Roles
      BY <2>1
    <3> QED BY <2>1, <3>1
  <2>2. CASE x \in Tasks \X Roles
    <3>1. x \notin Tasks /\ x # Scheduler /\ x[1] \in Tasks
      BY <2>2
    <3>2. x \in {s} \X Roles <=> x[1] = s
      BY <2>2
    <3> QED BY <2>2, <3>1, <3>2
  <2> QED BY <2>1, <2>2
<1>3. \A s \in Supervisors : Children(s) \subseteq Threads
  OBVIOUS
<1> QED BY <1>1, <1>2, <1>3

LEMMA InitInv == Init => IInv
<1> SUFFICES ASSUME Init PROVE IInv
  OBVIOUS
<1> USE Tree, SupervisorAssumption DEF Init, AllRunning, AllWatching, NoFailures
<1>1. TypeOK
  BY DEF TypeOK
<1>2. Reported /\ LeftNothing /\ RaisesFailure /\ TaskEnds /\ KilledAfterRun
  BY DEF Reported, LeftNothing, RaisesFailure, TaskEnds, KilledAfterRun
<1> QED BY <1>1, <1>2 DEF IInv

(* A failure is queued for a supervisor that still watches. *)
LEMMA PutsKeeps ==
  ASSUME IInv, NEW x \in Threads, thread[x] = "running", Puts(x),
         x \notin Tasks => loop' = loop,
         x \in Tasks => failures[x] # {} /\ loop' = [loop EXCEPT ![x] = "raised"],
         UNCHANGED <<stop, worker, web, script, asked, retries>>,
         failed' \in Nat
  PROVE  IInv'
<1> DEFINE s == SupervisorOf(x)
<1> USE SupervisorAssumption
<1>t. TypeOK /\ s \in Supervisors /\ x \in Children(s)
  BY Tree DEF IInv
<1>w. loop[s] \notin {"joining", "returned"}
  BY <1>t DEF IInv, LeftNothing, IsAlive
<1>l. loop'[s] = loop[s]
  <2>1. x \in Tasks => s # x
    BY DEF SupervisorOf
  <2> QED BY <2>1, <1>t DEF TypeOK
<1>f. /\ failures' = [failures EXCEPT ![s] = @ \cup {x}]
      /\ thread' = [thread EXCEPT ![x] = "failing"]
      /\ failures'[s] = failures[s] \cup {x}
      /\ \A r \in Supervisors : r # s => failures'[r] = failures[r]
      /\ \A r \in Supervisors : failures[r] \subseteq failures'[r]
  <2>1. /\ failures' = [failures EXCEPT ![s] = @ \cup {x}]
        /\ thread' = [thread EXCEPT ![x] = "failing"]
    BY DEF Puts
  <2>2. DOMAIN failures = Supervisors
    BY <1>t DEF TypeOK
  <2> HIDE DEF s
  <2> QED BY <2>1, <2>2, <1>t
<1>1. TypeOK'
  <2>1. thread' \in [Threads -> {"running", "failing", "failed", "ended"}]
    BY <1>t, <1>f DEF TypeOK
  <2>2. loop' \in [Supervisors -> {"watching", "raising", "joining", "raised", "returned"}]
    BY <1>t DEF TypeOK
  <2>3. failures' \in [Supervisors -> SUBSET Threads]
    BY <1>t, <1>f DEF TypeOK
  <2>4. \A r \in Supervisors : failures'[r] \subseteq Children(r)
    BY <1>t, <1>f DEF TypeOK
  <2> QED BY <2>1, <2>2, <2>3, <2>4, <1>t DEF TypeOK
<1>2. Reported'
  BY <1>t, <1>f, Tree DEF IInv, Reported, TypeOK
<1>3. LeftNothing'
  <2> SUFFICES ASSUME NEW r \in Supervisors, loop'[r] \in {"joining", "returned"}
               PROVE  failures'[r] = {} /\ \A y \in Children(r) : ~IsAlive(y)'
    BY DEF LeftNothing
  <2>1. loop[r] = loop'[r] /\ r # s
    BY <1>l, <1>w, <1>t DEF TypeOK
  <2>2. \A y \in Children(r) : y # x /\ y \in Threads
    BY <2>1, Tree
  <2> QED BY <2>1, <2>2, <1>f, <1>t DEF IInv, LeftNothing, IsAlive, TypeOK
<1>4. RaisesFailure'
  BY <1>f, <1>t DEF IInv, RaisesFailure, TypeOK
<1>5. TaskEnds'
  <2> SUFFICES ASSUME NEW t \in Tasks
               PROVE  /\ thread'[t] = "ended" => loop'[t] = "returned"
                      /\ loop'[t] \in {"watching", "raising", "joining"} => thread'[t] = "running"
    BY DEF TaskEnds
  <2>0. t \in Threads /\ t \in Supervisors
    BY Tree
  <2>1. CASE t = x
    BY <2>0, <2>1, <1>f, <1>t DEF TypeOK
  <2>2. CASE t # x
    <3>1. thread'[t] = thread[t] /\ loop'[t] = loop[t]
      BY <2>0, <2>2, <1>f, <1>t DEF TypeOK
    <3> QED BY <3>1 DEF IInv, TaskEnds
  <2> QED BY <2>1, <2>2
<1>6. KilledAfterRun'
  BY <1>t, Tree DEF IInv, KilledAfterRun, TypeOK, Supervisors
<1> QED BY <1>1, <1>2, <1>3, <1>4, <1>5, <1>6 DEF IInv

(* A thread that no longer runs disturbs no loop. *)
LEMMA ThreadKeeps ==
  ASSUME IInv, NEW x \in Threads, NEW v \in {"failed", "ended"},
         thread' = [thread EXCEPT ![x] = v],
         v = "failed" => thread[x] = "failing",
         x \in Tasks /\ v = "ended" =>
           loop[x] = "joining" /\ loop' = [loop EXCEPT ![x] = "returned"],
         ~(x \in Tasks /\ v = "ended") => loop' = loop,
         stop' \in BOOLEAN,
         UNCHANGED <<failures, worker, web, script, asked, retries, failed>>
  PROVE  IInv'
<1> USE SupervisorAssumption
<1>t. TypeOK
  BY DEF IInv
<1>1. TypeOK'
  BY <1>t, Tree DEF TypeOK
<1>2. Reported'
  <2> SUFFICES ASSUME NEW y \in Threads, thread'[y] \in {"failing", "failed"}
               PROVE  y \in failures[SupervisorOf(y)]
    BY DEF Reported
  <2>1. thread[y] \in {"failing", "failed"}
    BY <1>t DEF TypeOK
  <2> QED BY <2>1 DEF IInv, Reported
<1>3. LeftNothing'
  <2> SUFFICES ASSUME NEW r \in Supervisors, loop'[r] \in {"joining", "returned"}
               PROVE  failures'[r] = {} /\ \A y \in Children(r) : ~IsAlive(y)'
    BY DEF LeftNothing
  <2>1. loop[r] \in {"joining", "returned"}
    BY <1>t DEF TypeOK
  <2>2. \A y \in Children(r) : y \in Threads /\ ~IsAlive(y)
    BY <2>1, Tree DEF IInv, LeftNothing
  <2>3. failures[r] = {}
    BY <2>1 DEF IInv, LeftNothing
  <2> QED BY <2>2, <2>3, <1>t DEF IsAlive, TypeOK
<1>4. RaisesFailure'
  BY <1>t DEF IInv, RaisesFailure, TypeOK
<1>5. TaskEnds'
  <2> SUFFICES ASSUME NEW t \in Tasks
               PROVE  /\ thread'[t] = "ended" => loop'[t] = "returned"
                      /\ loop'[t] \in {"watching", "raising", "joining"} => thread'[t] = "running"
    BY DEF TaskEnds
  <2>0. t \in Threads /\ t \in Supervisors
    BY Tree
  <2>1. CASE t = x
    BY <2>0, <2>1, <1>t DEF IInv, TaskEnds, TypeOK
  <2>2. CASE t # x
    BY <2>0, <2>2, <1>t DEF IInv, TaskEnds, TypeOK
  <2> QED BY <2>1, <2>2
<1>6. KilledAfterRun'
  BY <1>t, Tree DEF IInv, KilledAfterRun, TypeOK
<1> QED BY <1>1, <1>2, <1>3, <1>4, <1>5, <1>6 DEF IInv

(* A supervisor leaves its loop or its joins. *)
LEMMA LoopKeeps ==
  ASSUME IInv, NEW s \in Supervisors,
         NEW v \in {"raising", "joining", "raised", "returned"},
         loop' = [loop EXCEPT ![s] = v],
         v \in {"raising", "raised"} => failures[s] # {},
         v \in {"joining", "returned"} => failures[s] = {} /\ \A x \in Children(s) : ~IsAlive(x),
         loop[s] # "returned",
         v \in {"raising", "joining"} => loop[s] = "watching",
         s = Main /\ loop[s] = "raised" => v = "raised",
         stop' \in BOOLEAN,
         UNCHANGED <<thread, failures, worker, web, script, asked, retries, failed>>
  PROVE  IInv'
<1> USE SupervisorAssumption
<1>t. TypeOK
  BY DEF IInv
<1>1. TypeOK'
  BY <1>t DEF TypeOK
<1>2. Reported'
  BY DEF IInv, Reported
<1>3. LeftNothing'
  BY <1>t DEF IInv, LeftNothing, IsAlive, TypeOK
<1>4. RaisesFailure'
  BY <1>t DEF IInv, RaisesFailure, TypeOK
<1>5. TaskEnds'
  <2> SUFFICES ASSUME NEW t \in Tasks
               PROVE  /\ thread[t] = "ended" => loop'[t] = "returned"
                      /\ loop'[t] \in {"watching", "raising", "joining"} => thread[t] = "running"
    BY DEF TaskEnds
  <2>1. CASE t = s
    BY <2>1, <1>t DEF IInv, TaskEnds, TypeOK
  <2>2. CASE t # s
    BY <2>2, <1>t, Tree DEF IInv, TaskEnds, TypeOK
  <2> QED BY <2>1, <2>2
<1>6. KilledAfterRun'
  BY <1>t, Tree DEF IInv, KilledAfterRun, TypeOK
<1> QED BY <1>1, <1>2, <1>3, <1>4, <1>5, <1>6 DEF IInv

(* The container's steps touch no thread and no loop. *)
LEMMA ContainerKeeps ==
  ASSUME IInv, UNCHANGED <<thread, loop, failures>>, TypeOK',
         worker' # worker => worker' = "exited" \/ loop[Main] \in {"raised", "returned"}
  PROVE  IInv'
BY DEF IInv, Reported, LeftNothing, RaisesFailure, TaskEnds, KilledAfterRun, IsAlive

LEMMA StepInv == IInv /\ [Next]_vars => IInv'
<1> SUFFICES ASSUME IInv, [Next]_vars PROVE IInv'
  OBVIOUS
<1> USE SupervisorAssumption
<1>t. TypeOK
  BY DEF IInv
<1>n. failed \in Nat /\ retries \in Nat /\ failed + 1 \in Nat /\ retries + 1 \in Nat
  <2>1. failed \in Nat /\ retries \in Nat
    BY <1>t DEF TypeOK
  <2> QED BY <2>1
<1>1. ASSUME NEW w \in Workers, Fail(w) PROVE IInv'
  <2>1. w \in Threads /\ w \notin Tasks
    BY Tree
  <2>2. /\ thread[w] = "running" /\ Puts(w) /\ failed' \in Nat
        /\ UNCHANGED <<loop, stop, worker, web, script, asked, retries>>
    BY <1>1, <1>n DEF Fail, container
  <2> QED BY <2>1, <2>2, PutsKeeps
<1>2. ASSUME NEW w \in Workers, Return(w) PROVE IInv'
  BY <1>2, <1>t, ThreadKeeps, Tree DEF Return, container, TypeOK
<1>3. ASSUME NEW x \in Threads, Alarm(x) PROVE IInv'
  <2>1. stop' \in BOOLEAN /\ UNCHANGED <<loop, failures, worker, web, script, asked, retries, failed>>
    BY <1>3 DEF Alarm, container
  <2>2. thread[x] = "failing" /\ thread' = [thread EXCEPT ![x] = "failed"]
    BY <1>3 DEF Alarm
  <2> QED BY <2>1, <2>2, ThreadKeeps
<1>4. ASSUME NEW s \in Supervisors, TakeFailure(s) PROVE IInv'
  BY <1>4, LoopKeeps DEF TakeFailure, container
<1>5. ASSUME NEW s \in Supervisors, EndLoop(s) PROVE IInv'
  BY <1>5, LoopKeeps DEF EndLoop, AllEnded, container
<1>6. ASSUME NEW t \in Tasks, LeaveTask(t) PROVE IInv'
  <2>0. t \in Threads /\ t \in Supervisors /\ SupervisorOf(t) = Main
    BY Tree DEF SupervisorOf
  <2>1. UNCHANGED <<stop, worker, web, script, asked, retries, failed>> /\ stop \in BOOLEAN /\ failed \in Nat
    BY <1>6, <1>t DEF LeaveTask, container, TypeOK
  <2>2. thread[t] # "ended"
    BY <1>6 DEF LeaveTask, IInv, TaskEnds
  <2>3. CASE loop[t] = "raising"
    <3>1. Raises(t) /\ failures[t] # {}
      BY <2>0, <2>3 DEF Raises, IInv, RaisesFailure
    <3>2. Puts(t) /\ loop' = [loop EXCEPT ![t] = "raised"]
      BY <1>6, <3>1 DEF LeaveTask
    <3>3. thread[t] = "running"
      BY <2>3 DEF IInv, TaskEnds
    <3> QED BY <3>1, <3>2, <3>3, <2>0, <2>1, PutsKeeps
  <2>4. CASE loop[t] = "joining"
    <3>1. ~Raises(t)
      BY <2>0, <2>4 DEF Raises, IInv, LeftNothing
    <3>2. /\ thread' = [thread EXCEPT ![t] = "ended"] /\ UNCHANGED failures
          /\ loop' = [loop EXCEPT ![t] = "returned"]
      BY <1>6, <3>1 DEF LeaveTask
    <3> QED BY <3>2, <2>0, <2>1, <2>4, ThreadKeeps
  <2> QED BY <1>6, <2>3, <2>4 DEF LeaveTask
<1>7. CASE LeaveMain
  <2>0. Main \in Supervisors
    BY Tree
  <2>1. UNCHANGED <<thread, failures, stop, worker, web, script, asked, retries, failed>> /\ stop \in BOOLEAN
    BY <1>7, <1>t DEF LeaveMain, container, TypeOK
  <2>2. CASE loop[Main] = "raising"
    BY <1>7, <2>0, <2>1, <2>2, LoopKeeps DEF LeaveMain, Raises, IInv, RaisesFailure
  <2>3. CASE loop[Main] = "joining"
    <3>1. ~Raises(Main) /\ failures[Main] = {} /\ \A x \in Children(Main) : ~IsAlive(x)
      BY <2>0, <2>3 DEF Raises, IInv, LeftNothing
    <3>2. loop' = [loop EXCEPT ![Main] = "returned"]
      BY <1>7, <3>1 DEF LeaveMain
    <3> QED BY <2>0, <2>1, <2>3, <3>1, <3>2, LoopKeeps
  <2> QED BY <1>7, <2>2, <2>3 DEF LeaveMain
<1>8. CASE ExitWorker
  <2>1. TypeOK'
    BY <1>8, <1>t DEF ExitWorker, process, TypeOK
  <2> QED BY <1>8, <2>1, ContainerKeeps DEF ExitWorker, process
<1>9. ASSUME NoticeExit \/ Terminate PROVE IInv'
  <2>1. TypeOK'
    BY <1>9, <1>t DEF NoticeExit, Terminate, TermWorker, TypeOK
  <2> QED BY <1>9, <2>1, ContainerKeeps DEF NoticeExit, Terminate, TermWorker
<1>10. ASSUME ExitScript \/ WebFails \/ Ask PROVE IInv'
  <2>1. TypeOK'
    <3>1. CASE ExitScript
      BY <3>1, <1>t DEF ExitScript, process, TypeOK
    <3>2. CASE WebFails
      <4>1. web' = FALSE /\ failed' \in Nat /\ UNCHANGED <<thread, loop, failures, stop, worker, script, asked, retries>>
        BY <3>2, <1>n DEF WebFails, process
      <4> QED BY <4>1, <1>t DEF TypeOK
    <3>3. CASE Ask
      BY <3>3, <1>t DEF Ask, process, TypeOK
    <3> QED BY <1>10, <3>1, <3>2, <3>3
  <2> QED BY <1>10, <2>1, ContainerKeeps DEF ExitScript, WebFails, Ask, process
<1>11. CASE Restart
  <2>1. TypeOK'
    <3>1. thread' = AllRunning /\ loop' = AllWatching /\ failures' = NoFailures
      BY <1>11 DEF Restart
    <3>2. AllRunning \in [Threads -> {"running", "failing", "failed", "ended"}]
      BY DEF AllRunning
    <3>3. AllWatching \in [Supervisors -> {"watching", "raising", "joining", "raised", "returned"}]
      BY DEF AllWatching
    <3>4. /\ NoFailures \in [Supervisors -> SUBSET Threads]
          /\ \A s \in Supervisors : NoFailures[s] \subseteq Children(s)
      BY DEF NoFailures
    <3>5. /\ stop' \in BOOLEAN /\ web' \in BOOLEAN /\ asked' \in BOOLEAN /\ worker' = "up"
          /\ script' = "watching" /\ retries' \in Nat /\ failed' \in Nat
      <4>1. asked \in BOOLEAN /\ asked' = asked /\ failed' = failed
        BY <1>11, <1>t DEF Restart, TypeOK
      <4> QED BY <1>11, <1>n, <4>1 DEF Restart
    <3> QED BY <3>1, <3>2, <3>3, <3>4, <3>5 DEF TypeOK
  <2>2. Reported' /\ LeftNothing' /\ RaisesFailure' /\ TaskEnds' /\ KilledAfterRun'
    BY <1>11, Tree DEF Restart, AllRunning, AllWatching, NoFailures,
       Reported, LeftNothing, RaisesFailure, TaskEnds, KilledAfterRun
  <2> QED BY <2>1, <2>2 DEF IInv
<1>12. CASE UNCHANGED vars
  BY <1>12, <1>t, ContainerKeeps DEF vars, TypeOK
<1> QED BY <1>1, <1>2, <1>3, <1>4, <1>5, <1>6, <1>7, <1>8, <1>9, <1>10, <1>11, <1>12, Tree
    DEF Next, SuperviseTask, SuperviseAll, Script

(* A failure is never lost on its way to the main thread. *)
LEMMA InvLosesNothing == IInv => NoFailureIsSwallowed
<1> SUFFICES ASSUME IInv, loop[Main] = "returned", NEW x \in Threads
             PROVE  thread[x] = "ended"
  BY DEF NoFailureIsSwallowed
<1>1. ASSUME NEW s \in Supervisors, loop[s] = "returned", NEW y \in Threads, SupervisorOf(y) = s
      PROVE  thread[y] = "ended"
  <2>1. y \in Children(s) /\ failures[s] = {} /\ ~IsAlive(y)
    BY <1>1, Tree DEF IInv, LeftNothing
  <2>2. thread[y] # "failed"
    BY <1>1, <2>1 DEF IInv, Reported
  <2> QED BY <2>1, <2>2 DEF IInv, TypeOK, IsAlive
<1>2. CASE SupervisorOf(x) = Main
  BY <1>1, <1>2, Tree
<1>3. CASE SupervisorOf(x) \in Tasks
  <2>1. thread[SupervisorOf(x)] = "ended"
    BY <1>1, <1>3, Tree DEF SupervisorOf
  <2>2. loop[SupervisorOf(x)] = "returned"
    BY <1>3, <2>1 DEF IInv, TaskEnds
  <2> QED BY <1>1, <1>3, <2>2, Tree
<1> QED BY <1>2, <1>3, Tree DEF Supervisors

LEMMA InvDrains == IInv => OrderlyStopDrains
<1> SUFFICES ASSUME IInv, worker = "killed", NEW w \in Workers, IsAlive(w),
                    \A s \in Supervisors : failures[s] = {}
             PROVE  FALSE
  BY DEF OrderlyStopDrains
<1>1. loop[Main] = "returned"
  BY Tree DEF IInv, KilledAfterRun, RaisesFailure
<1>2. thread[w] = "ended"
  BY <1>1, InvLosesNothing, Tree DEF NoFailureIsSwallowed
<1> QED BY <1>2 DEF IsAlive

-----------------------------------------------------------------------------
LEMMA SpecInv == Spec => []IInv
BY InitInv, StepInv, PTL DEF Spec

(* The variables of the supervisors keep their types, and each queue of        *)
(* failures holds threads of its own supervisor (_run_threads, run_task).      *)
THEOREM SupervisorTypes == Spec => []TypeOK
<1>1. IInv => TypeOK
  BY DEF IInv
<1> QED BY <1>1, SpecInv, PTL

(* run_tasks returns normally only when every thread of every task ended as    *)
(* it should: a failure reaches the main thread, whatever the interleaving.    *)
THEOREM FailuresReachMain == Spec => []NoFailureIsSwallowed
BY SpecInv, InvLosesNothing, PTL

(* Without a failure, no signal kills the worker while a thread drains. *)
THEOREM DrainsBeforeItEnds == Spec => []OrderlyStopDrains
BY SpecInv, InvDrains, PTL
=============================================================================
