---------------------------- MODULE WorkerThread ----------------------------
(***************************************************************************)
(* nap::WorkerThread (src/src/core/threading/WorkerThread.cpp): one thread *)
(* that sleeps on a condition variable until it is woken, runs the task    *)
(* with the mutex held, and tells the threads in waitForCompletion().      *)
(*                                                                         *)
(* Any caller may wake(), waitForCompletion() and setTask(); one of them,  *)
(* Owner, starts and stops the thread.  The mutex is explicit only while   *)
(* the worker keeps it over several steps: from the end of cv.wait to the  *)
(* end of the task.  A caller's critical section is one action.            *)
(***************************************************************************)
EXTENDS Integers, FiniteSets

CONSTANTS
  Callers,  (* the threads that use the object                                *)
  Owner     (* the one that calls start(), stop() and the destructor          *)

ASSUME OwnerAssumption == Owner \in Callers

VARIABLES
  running, shouldStop, taskPending,  (* the three atomics of Impl             *)
  hasTask,      (* Impl::task holds a function                                *)
  joinable,     (* Impl::thread is joinable                                   *)
  held,         (* the worker holds Impl::mutex                               *)
  worker,       (* where the worker is                                        *)
  pc,           (* where each caller is                                       *)
  crashed,      (* std::terminate was called                                  *)
  owed,         (* history: callers whose last wake() no iteration has served *)
  serving,      (* history: those whose wake() the iteration under way serves *)
  verdict       (* history: what each caller's last waitForCompletion() told  *)

flags == <<running, shouldStop, taskPending, hasTask, joinable, held>>
history == <<owed, serving, verdict>>
vars == <<flags, worker, pc, crashed, history>>

(* none: no thread.  test: the while test.  lock: wants the mutex in cv.wait. *)
(* dozing: predicate false, mutex not yet released.  asleep: in cv.wait.      *)
(* woken: cv.wait returned, mutex held.  task: in it, mutex held.  leaving:   *)
(* out of the loop.  exited: the thread function returned.                    *)
WorkerLocations == {"none", "test", "lock", "dozing", "asleep", "woken", "task",
                    "leaving", "exited"}

(* start(): starting (not running), arming (shouldStop cleared), launching    *)
(* (running set).  stop(): stopping0 for stop(false), stopping1 for           *)
(* stop(true), then joining.  wake(): notifying.  waitForCompletion():        *)
(* sleeping, rechecking after a wake-up, late after the deadline.             *)
Stopping == {"stopping0", "stopping1"}
CallerLocations == {"idle", "starting", "arming", "launching", "joining", "notifying",
                    "sleeping", "rechecking", "late"} \union Stopping

(* The type invariant, with what ties the worker's place to the mutex and to  *)
(* the task under way.                                                        *)
TypeOK ==
  /\ held <=> worker \in {"dozing", "woken", "task"}
  /\ serving # {} => worker = "task"
  /\ running \in BOOLEAN /\ shouldStop \in BOOLEAN /\ taskPending \in BOOLEAN
  /\ hasTask \in BOOLEAN /\ joinable \in BOOLEAN /\ held \in BOOLEAN
  /\ crashed \in BOOLEAN
  /\ worker \in WorkerLocations
  /\ pc \in [Callers -> CallerLocations]
  /\ owed \subseteq Callers
  /\ serving \subseteq Callers
  /\ verdict \in [Callers -> {"none", "true", "false"}]

Init ==
  /\ running = FALSE /\ shouldStop = FALSE /\ taskPending = FALSE
  /\ hasTask = FALSE /\ joinable = FALSE /\ held = FALSE
  /\ crashed = FALSE
  /\ worker = "none"
  /\ pc = [c \in Callers |-> "idle"]
  /\ owed = {} /\ serving = {}
  /\ verdict = [c \in Callers |-> "none"]

-----------------------------------------------------------------------------
(* Faulty variants of definitions below, used by no action.                   *)
WakeAtAnyTime == TRUE
NotifyWithoutLock == TRUE
JoinAtOnce == TRUE
NotifyNobody(w) == w

(* A caller's critical section: the worker does not hold the mutex.           *)
MutexFree == ~held

(* The guards of the three steps a lock or a join delays.                     *)
CanWake == MutexFree
CanNotifyStop == MutexFree
CanJoin == worker = "exited"

(* cv.notify_one() and cv.notify_all(): the worker is the only thread that    *)
(* ever sleeps on cv.                                                         *)
Notified(w) == IF w = "asleep" THEN "lock" ELSE w

Goto(c, from, to) == pc[c] = from /\ pc' = [pc EXCEPT ![c] = to]

(* start() finds the thread not running; else it returns false, no change.    *)
Start ==
  /\ Goto(Owner, "idle", "starting") /\ ~running
  /\ UNCHANGED <<flags, worker, crashed, history>>

StartClear ==
  /\ Goto(Owner, "starting", "arming")
  /\ shouldStop' = FALSE
  /\ UNCHANGED <<running, taskPending, hasTask, joinable, held, worker, crashed, history>>

StartSet ==
  /\ Goto(Owner, "arming", "launching")
  /\ running' = TRUE
  /\ UNCHANGED <<shouldStop, taskPending, hasTask, joinable, held, worker, crashed, history>>

(* The new std::thread is move-assigned to Impl::thread ...                   *)
StartLaunch ==
  /\ Goto(Owner, "launching", "idle") /\ ~joinable
  /\ joinable' = TRUE /\ worker' = "test"
  /\ UNCHANGED <<running, shouldStop, taskPending, hasTask, held, crashed, history>>

(* ... which calls std::terminate when that one is still joinable: start()    *)
(* does not return.                                                           *)
StartTerminate ==
  /\ pc[Owner] = "launching" /\ joinable
  /\ crashed' = TRUE
  /\ UNCHANGED <<flags, worker, pc, history>>

(* stop(waitForCompletion), and the destructor, which is stop(true).          *)
Stop ==
  /\ \E to \in Stopping : Goto(Owner, "idle", to)
  /\ shouldStop' = TRUE
  /\ UNCHANGED <<running, taskPending, hasTask, joinable, held, worker, crashed, history>>

(* stop() gets the mutex, notifies, and goes on to join when asked to.        *)
StopNotify ==
  /\ CanNotifyStop
  /\ \/ Goto(Owner, "stopping0", "idle")
     \/ Goto(Owner, "stopping1", "joining") /\ joinable
     \/ Goto(Owner, "stopping1", "idle") /\ ~joinable
  /\ worker' = Notified(worker)
  /\ UNCHANGED <<flags, crashed, history>>

Join ==
  /\ Goto(Owner, "joining", "idle") /\ CanJoin
  /\ joinable' = FALSE
  /\ UNCHANGED <<running, shouldStop, taskPending, hasTask, held, worker, crashed, history>>

(* wake() sets taskPending under the mutex and notifies after releasing it.   *)
Wake(c) ==
  /\ Goto(c, "idle", "notifying") /\ CanWake
  /\ taskPending' = TRUE
  /\ owed' = owed \union {c}
  /\ verdict' = [verdict EXCEPT ![c] = "none"]
  /\ UNCHANGED <<running, shouldStop, hasTask, joinable, held, worker, crashed, serving>>

WakeNotify(c) ==
  /\ Goto(c, "notifying", "idle")
  /\ worker' = Notified(worker)
  /\ UNCHANGED <<flags, crashed, history>>

SetTask(c) ==
  /\ pc[c] = "idle" /\ MutexFree
  /\ hasTask' \in BOOLEAN
  /\ UNCHANGED <<running, shouldStop, taskPending, joinable, held, worker, pc, crashed, history>>

(* waitForCompletion() evaluates its predicate under the mutex, at the call   *)
(* and again whenever its sleep ends; a late caller returns what it is then.  *)
Answer(c, from) ==
  /\ Goto(c, from, "idle") /\ MutexFree
  /\ ~taskPending \/ from = "late"
  /\ verdict' = [verdict EXCEPT ![c] = IF taskPending THEN "false" ELSE "true"]
  /\ UNCHANGED <<flags, worker, crashed, owed, serving>>

Sleep(c, from) ==
  /\ Goto(c, from, "sleeping") /\ MutexFree
  /\ taskPending
  /\ UNCHANGED <<flags, worker, crashed, history>>

WaitForCompletion(c) == Answer(c, "idle") \/ Sleep(c, "idle")

Recheck(c) == Answer(c, "rechecking") \/ Sleep(c, "rechecking") \/ Answer(c, "late")

SpuriousWake(c) ==
  /\ Goto(c, "sleeping", "rechecking")
  /\ UNCHANGED <<flags, worker, crashed, history>>

Deadline(c) ==
  /\ Goto(c, "sleeping", "late")
  /\ UNCHANGED <<flags, worker, crashed, history>>

-----------------------------------------------------------------------------
(* The thread function.                                                       *)
Move(from, to) == worker = from /\ worker' = to

LoopTest ==
  /\ \/ Move("test", "leaving") /\ shouldStop
     \/ Move("test", "lock") /\ ~shouldStop
  /\ UNCHANGED <<flags, pc, crashed, history>>

(* The predicate of cv.wait.                                                  *)
MayRun == taskPending \/ shouldStop

(* cv.wait takes the mutex and evaluates its predicate ...                    *)
WorkerLock ==
  /\ \/ Move("lock", "woken") /\ MayRun
     \/ Move("lock", "dozing") /\ ~MayRun
  /\ held' = TRUE
  /\ UNCHANGED <<running, shouldStop, taskPending, hasTask, joinable, pc, crashed, history>>

(* ... and, if it was false, releases the mutex and sleeps in one step.       *)
WorkerSleep ==
  /\ Move("dozing", "asleep")
  /\ held' = FALSE
  /\ UNCHANGED <<running, shouldStop, taskPending, hasTask, joinable, pc, crashed, history>>

WorkerSpuriousWake ==
  /\ Move("asleep", "lock")
  /\ UNCHANGED <<flags, pc, crashed, history>>

(* Awake with the mutex: told to stop, or at the task.  The task serves every *)
(* wake() made so far, whether a function is set or not.                      *)
BreakOut ==
  /\ Move("woken", "leaving") /\ shouldStop
  /\ held' = FALSE
  /\ UNCHANGED <<running, shouldStop, taskPending, hasTask, joinable, pc, crashed, history>>

TaskBegin ==
  /\ Move("woken", "task") /\ ~shouldStop
  /\ serving' = owed
  /\ UNCHANGED <<flags, pc, crashed, owed, verdict>>

TaskEnd ==
  /\ Move("task", "test")
  /\ taskPending' = FALSE
  /\ pc' = [c \in Callers |-> IF pc[c] = "sleeping" THEN "rechecking" ELSE pc[c]]
  /\ held' = FALSE
  /\ owed' = owed \ serving
  /\ serving' = {}
  /\ UNCHANGED <<running, shouldStop, hasTask, joinable, crashed, verdict>>

Exit ==
  /\ Move("leaving", "exited")
  /\ running' = FALSE
  /\ UNCHANGED <<shouldStop, taskPending, hasTask, joinable, held, pc, crashed, history>>

Worker ==
  \/ LoopTest \/ WorkerLock \/ WorkerSleep \/ BreakOut \/ TaskBegin \/ TaskEnd \/ Exit

OwnerStep ==
  StartClear \/ StartSet \/ StartLaunch \/ StartTerminate \/ StopNotify \/ Join

(* After std::terminate nothing runs.                                         *)
Next ==
  /\ ~crashed
  /\ \/ Start \/ Stop \/ OwnerStep
     \/ Worker \/ WorkerSpuriousWake
     \/ \E c \in Callers :
          \/ Wake(c) \/ WakeNotify(c) \/ SetTask(c)
          \/ WaitForCompletion(c) \/ Recheck(c) \/ SpuriousWake(c) \/ Deadline(c)

Spec == Init /\ [][Next]_vars

(* Calls are the environment's choice, a call under way is scheduled.  The    *)
(* task function returns.  The mutex reaches a caller that keeps asking for   *)
(* it even if the worker takes it again and again (strong fairness), and a    *)
(* spurious wake-up does not postpone the deadline of waitForCompletion().    *)
Fairness ==
  /\ WF_vars(~crashed /\ Worker)
  /\ SF_vars(~crashed /\ OwnerStep)
  /\ \A c \in Callers :
       /\ WF_vars(~crashed /\ WakeNotify(c))
       /\ SF_vars(~crashed /\ Recheck(c))
       /\ SF_vars(~crashed /\ Deadline(c))

FairSpec == Spec /\ Fairness

-----------------------------------------------------------------------------
(* After stop(true) has returned (and before start() launches a thread again) *)
(* nothing of the thread is left: it does not run, does not hold the mutex,   *)
(* and isRunning() is false.  The destructor relies on it.                    *)
QuietAfterJoin ==
  ~joinable => /\ worker \in {"none", "exited"} /\ ~held
               /\ running => pc[Owner] = "launching"

(* Once stop() has been through the mutex no task is running and none begins, *)
(* stop(false) included, although shouldStop is set and tested outside it.    *)
NoTaskAfterStop ==
  shouldStop /\ pc[Owner] \notin Stopping => worker # "task"

(* waitForCompletion() does not lie: when it returned true, an iteration that *)
(* began after the caller's last wake() has ended.  A wake() that comes while *)
(* a task runs is not swallowed when that task ends.                          *)
CompletionServed == \A c \in Callers : verdict[c] = "true" => c \notin owed

(* Every call that blocks returns: stop() cannot miss a worker about to go to *)
(* sleep, so join cannot hang, and waitForCompletion() ends at its deadline.  *)
CallsReturn == \A c \in Callers : pc[c] # "idle" ~> pc[c] = "idle" \/ crashed

(* No lost wake-up: what wake() asked of a running thread is done, unless the *)
(* thread is told to stop first.                                              *)
WakeServed ==
  \A c \in Callers :
    c \in owed /\ running ~> c \notin owed \/ shouldStop \/ crashed

(* start() "return[s] True if started successfully" (WorkerThread.h:44): it   *)
(* returns; it does not end the process.                                      *)
StartNeverTerminates == ~crashed
=============================================================================
