------------------------- MODULE WorkerThreadProofs -------------------------
(***************************************************************************)
(* The worker's safety properties for any set of callers.                  *)
(***************************************************************************)
EXTENDS WorkerThread, TLAPS

Gone == {"none", "exited"}

(* The thread exists exactly while running is set and its handle joinable,    *)
(* except that start() sets running before it launches the thread.            *)
Lifecycle ==
  /\ worker \in Gone \/ (running /\ joinable)
  /\ running /\ worker \in Gone => pc[Owner] = "launching"
  /\ pc[Owner] \in {"starting", "arming", "launching"} => worker \in Gone
  /\ pc[Owner] = "launching" => running

(* A wake() not yet served is still pending, and the task under way serves    *)
(* every wake() made so far: none can come while the task holds the mutex.    *)
WakesKept ==
  /\ owed # {} => taskPending
  /\ worker = "task" => owed \subseteq serving

(* The inductive invariant.                                                   *)
IInv ==
  /\ TypeOK
  /\ Lifecycle
  /\ NoTaskAfterStop
  /\ WakesKept
  /\ CompletionServed

LEMMA InitEstablishes == Init => IInv
  BY OwnerAssumption DEF Init, IInv, TypeOK, Lifecycle, NoTaskAfterStop, WakesKept,
     CompletionServed, Gone, WorkerLocations, CallerLocations, Stopping

-----------------------------------------------------------------------------
(* start(): nothing is alive when the thread is launched.                     *)
LEMMA StartKeeps ==
  ASSUME IInv, Start \/ StartClear \/ StartSet \/ StartLaunch \/ StartTerminate
  PROVE  IInv'
<1> USE OwnerAssumption DEF Start, StartClear, StartSet, StartLaunch, StartTerminate,
                            Goto, flags, history
<1>1. TypeOK'
  <2>1. pc' \in [Callers -> CallerLocations] /\ verdict' \in [Callers -> {"none", "true", "false"}]
    BY DEF IInv, TypeOK, CallerLocations, Stopping
  <2>2. (held <=> worker \in {"dozing", "woken", "task"})'
    BY DEF IInv, TypeOK, Lifecycle, Gone, WorkerLocations, CallerLocations, Stopping
  <2>3. (serving # {} => worker = "task")'
    BY DEF IInv, TypeOK, Lifecycle, Gone, WorkerLocations, CallerLocations, Stopping
  <2>4. /\ running' \in BOOLEAN /\ shouldStop' \in BOOLEAN /\ taskPending' \in BOOLEAN
        /\ hasTask' \in BOOLEAN /\ joinable' \in BOOLEAN /\ held' \in BOOLEAN
        /\ crashed' \in BOOLEAN
    BY DEF IInv, TypeOK
  <2>5. worker' \in WorkerLocations /\ owed' \subseteq Callers /\ serving' \subseteq Callers
    BY DEF IInv, TypeOK, WorkerLocations
  <2> QED
    BY <2>1, <2>2, <2>3, <2>4, <2>5 DEF TypeOK
<1>2. Lifecycle'
  BY DEF IInv, TypeOK, Lifecycle, Gone
<1>3. NoTaskAfterStop'
  BY DEF IInv, TypeOK, Lifecycle, Gone, NoTaskAfterStop, Stopping
<1>4. WakesKept' /\ CompletionServed'
  BY DEF IInv, WakesKept, CompletionServed
<1> QED
  BY <1>1, <1>2, <1>3, <1>4 DEF IInv

(* stop(): it passes the mutex only when no task holds it, and joins only a   *)
(* thread that exited.                                                        *)
LEMMA StopKeeps ==
  ASSUME IInv, Stop \/ StopNotify \/ Join
  PROVE  IInv'
<1> USE OwnerAssumption DEF Stop, StopNotify, Join, Goto, flags, history, Notified,
                            CanNotifyStop, CanJoin, MutexFree
<1>1. TypeOK'
  <2>1. pc' \in [Callers -> CallerLocations] /\ verdict' \in [Callers -> {"none", "true", "false"}]
    BY DEF IInv, TypeOK, CallerLocations, Stopping
  <2>2. (held <=> worker \in {"dozing", "woken", "task"})'
    BY DEF IInv, TypeOK, Lifecycle, Gone, WorkerLocations, CallerLocations, Stopping
  <2>3. (serving # {} => worker = "task")'
    BY DEF IInv, TypeOK, Lifecycle, Gone, WorkerLocations, CallerLocations, Stopping
  <2>4. /\ running' \in BOOLEAN /\ shouldStop' \in BOOLEAN /\ taskPending' \in BOOLEAN
        /\ hasTask' \in BOOLEAN /\ joinable' \in BOOLEAN /\ held' \in BOOLEAN
        /\ crashed' \in BOOLEAN
    BY DEF IInv, TypeOK
  <2>5. worker' \in WorkerLocations /\ owed' \subseteq Callers /\ serving' \subseteq Callers
    BY DEF IInv, TypeOK, WorkerLocations
  <2> QED
    BY <2>1, <2>2, <2>3, <2>4, <2>5 DEF TypeOK
<1>2. Lifecycle'
  BY DEF IInv, TypeOK, Lifecycle, Gone, Stopping
<1>3. NoTaskAfterStop'
  BY DEF IInv, TypeOK, NoTaskAfterStop, Stopping
<1>4. WakesKept' /\ CompletionServed'
  BY DEF IInv, WakesKept, CompletionServed
<1> QED
  BY <1>1, <1>2, <1>3, <1>4 DEF IInv

(* wake(), setTask() and waitForCompletion().                                 *)
LEMMA CallsKeep ==
  ASSUME IInv, NEW c \in Callers,
         \/ Wake(c) \/ WakeNotify(c) \/ SetTask(c) \/ WaitForCompletion(c)
         \/ Recheck(c) \/ SpuriousWake(c) \/ Deadline(c)
  PROVE  IInv'
<1> USE OwnerAssumption DEF Wake, WakeNotify, SetTask, WaitForCompletion, Recheck, Answer, Sleep,
                            SpuriousWake, Deadline, Goto, flags, history, Notified,
                            CanWake, MutexFree
<1>1. TypeOK'
  <2>1. pc' \in [Callers -> CallerLocations] /\ verdict' \in [Callers -> {"none", "true", "false"}]
    BY DEF IInv, TypeOK, CallerLocations, Stopping
  <2>2. (held <=> worker \in {"dozing", "woken", "task"})'
    BY DEF IInv, TypeOK, Lifecycle, Gone, WorkerLocations, CallerLocations, Stopping
  <2>3. (serving # {} => worker = "task")'
    BY DEF IInv, TypeOK, Lifecycle, Gone, WorkerLocations, CallerLocations, Stopping
  <2>4. /\ running' \in BOOLEAN /\ shouldStop' \in BOOLEAN /\ taskPending' \in BOOLEAN
        /\ hasTask' \in BOOLEAN /\ joinable' \in BOOLEAN /\ held' \in BOOLEAN
        /\ crashed' \in BOOLEAN
    BY DEF IInv, TypeOK
  <2>5. worker' \in WorkerLocations /\ owed' \subseteq Callers /\ serving' \subseteq Callers
    BY DEF IInv, TypeOK, WorkerLocations
  <2> QED
    BY <2>1, <2>2, <2>3, <2>4, <2>5 DEF TypeOK
<1>2. Lifecycle'
  BY DEF IInv, TypeOK, Lifecycle, Gone
<1>3. NoTaskAfterStop'
  BY DEF IInv, TypeOK, NoTaskAfterStop, Stopping
<1>4. WakesKept'
  BY DEF IInv, TypeOK, WakesKept
<1>5. CompletionServed'
  BY DEF IInv, TypeOK, WakesKept, CompletionServed
<1> QED
  BY <1>1, <1>2, <1>3, <1>4, <1>5 DEF IInv

(* The thread function.                                                       *)
LEMMA WorkerKeeps ==
  ASSUME IInv, Worker \/ WorkerSpuriousWake \/ UNCHANGED vars
  PROVE  IInv'
<1> USE OwnerAssumption DEF Worker, LoopTest, WorkerLock, WorkerSleep, WorkerSpuriousWake,
                            BreakOut, TaskBegin, TaskEnd, Exit, Move, MayRun, vars, flags, history
<1>1. TypeOK'
  <2>1. pc' \in [Callers -> CallerLocations] /\ verdict' \in [Callers -> {"none", "true", "false"}]
    BY DEF IInv, TypeOK, CallerLocations, Stopping
  <2>2. (held <=> worker \in {"dozing", "woken", "task"})'
    BY DEF IInv, TypeOK, Lifecycle, Gone, WorkerLocations, CallerLocations, Stopping
  <2>3. (serving # {} => worker = "task")'
    BY DEF IInv, TypeOK, Lifecycle, Gone, WorkerLocations, CallerLocations, Stopping
  <2>4. /\ running' \in BOOLEAN /\ shouldStop' \in BOOLEAN /\ taskPending' \in BOOLEAN
        /\ hasTask' \in BOOLEAN /\ joinable' \in BOOLEAN /\ held' \in BOOLEAN
        /\ crashed' \in BOOLEAN
    BY DEF IInv, TypeOK
  <2>5. worker' \in WorkerLocations /\ owed' \subseteq Callers /\ serving' \subseteq Callers
    BY DEF IInv, TypeOK, WorkerLocations
  <2> QED
    BY <2>1, <2>2, <2>3, <2>4, <2>5 DEF TypeOK
<1>2. Lifecycle'
  BY DEF IInv, TypeOK, Lifecycle, Gone
<1>3. NoTaskAfterStop'
  BY DEF IInv, TypeOK, NoTaskAfterStop, Stopping
<1>4. WakesKept'
  BY DEF IInv, TypeOK, WakesKept
<1>5. CompletionServed'
  BY DEF IInv, CompletionServed
<1> QED
  BY <1>1, <1>2, <1>3, <1>4, <1>5 DEF IInv

LEMMA NextKeeps == IInv /\ [Next]_vars => IInv'
  BY StartKeeps, StopKeeps, CallsKeep, WorkerKeeps DEF Next, OwnerStep

THEOREM Invariance == Spec => []IInv
  BY InitEstablishes, NextKeeps, PTL DEF Spec

-----------------------------------------------------------------------------
(* Types, and: the mutex is held exactly where the loop holds it.             *)
THEOREM TypeCorrect == Spec => []TypeOK
<1>1. IInv => TypeOK
  BY DEF IInv
<1> QED
  BY <1>1, Invariance, PTL

(* After stop(true) nothing of the thread is left.                            *)
THEOREM QuietProved == Spec => []QuietAfterJoin
<1>1. IInv => QuietAfterJoin
  BY DEF IInv, TypeOK, Lifecycle, Gone, QuietAfterJoin
<1> QED
  BY <1>1, Invariance, PTL

(* After stop() has been through the mutex no task runs or begins.            *)
THEOREM NoTaskProved == Spec => []NoTaskAfterStop
<1>1. IInv => NoTaskAfterStop
  BY DEF IInv
<1> QED
  BY <1>1, Invariance, PTL

(* waitForCompletion() returns true only when the caller's wake() was served. *)
THEOREM CompletionProved == Spec => []CompletionServed
<1>1. IInv => CompletionServed
  BY DEF IInv
<1> QED
  BY <1>1, Invariance, PTL
=============================================================================
