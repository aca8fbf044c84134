------------------------------ MODULE TaskQueue ------------------------------
(***************************************************************************)
(* nap::TaskQueue (src/src/core/threading/TaskQueue.cpp): a bounded queue  *)
(* of tasks behind one mutex and one condition variable.  Any thread may   *)
(* push, pop with or without waiting, and drain the queue; a task runs     *)
(* outside the mutex and may itself push, or throw.                        *)
(*                                                                         *)
(* Every critical section is one action.  Which task is which makes no     *)
(* difference to the code: the std::queue is represented by its size.      *)
(***************************************************************************)
EXTENDS Integers, FiniteSets

CONSTANTS
  Threads,   (* the threads that use the queue                                *)
  Capacity,  (* the constructor's argument                                    *)
  MaxTasks   (* bound: the largest argument of executeN()                     *)

ASSUME ConstantsAssumption ==
  /\ IsFiniteSet(Threads)
  /\ Capacity \in Nat
  /\ MaxTasks \in Nat

VARIABLES
  pending,  (* tasks.size()                                                   *)
  pc,       (* where each thread is                                           *)
  timed,    (* its pop() has a timeout                                        *)
  left      (* tasks its executeN() may still take; All for executeAll()      *)

vars == <<pending, pc, timed, left>>

All == -1

(* asleep: in cv.wait of pop().  woken, late: its sleep ended, by a wake-up   *)
(* or by the deadline.  draining: in the loop of executeAll() or executeN().  *)
(* running: in a task that loop took.                                         *)
Locations == {"idle", "asleep", "woken", "late", "draining", "running"}

At(where) == {t \in Threads : pc[t] \in where}

TypeOK ==
  /\ pending \in 0..Capacity
  /\ pc \in [Threads -> Locations]
  /\ timed \in [Threads -> BOOLEAN]
  /\ left \in [Threads -> {All} \union 0..MaxTasks]

Init ==
  /\ pending = 0
  /\ pc = [t \in Threads |-> "idle"]
  /\ timed = [t \in Threads |-> FALSE]
  /\ left = [t \in Threads |-> 0]

-----------------------------------------------------------------------------
(* Faulty variants of definitions below, used by no action.                   *)
NotifyFirstTaskOnly(at) ==
  IF at # {} /\ pending = 0 THEN \E s \in at : pc' = [pc EXCEPT ![s] = "woken"]
                            ELSE UNCHANGED pc
NoQuota(t) == TRUE

Goto(t, from, to) == pc[t] = from /\ pc' = [pc EXCEPT ![t] = to]

IsFull == pending >= Capacity

(* cv.notify_one(): one of the sleepers, if there is any.                     *)
NotifyOne(at) ==
  IF at # {} THEN \E s \in at : pc' = [pc EXCEPT ![s] = "woken"] ELSE UNCHANGED pc

(* push() by a thread, or by the task it runs; a full queue refuses and       *)
(* nothing changes.                                                           *)
Push(t) ==
  /\ pc[t] \in {"idle", "running"}
  /\ ~IsFull
  /\ pending' = pending + 1
  /\ NotifyOne(At({"asleep"}))
  /\ UNCHANGED <<timed, left>>

TakeFront == pending > 0 /\ pending' = pending - 1

TryPop(t) ==
  /\ pc[t] = "idle"
  /\ TakeFront
  /\ UNCHANGED <<pc, timed, left>>

(* pop() that finds a task at once is TryPop; else it goes to sleep.           *)
PopSleep(t) ==
  /\ Goto(t, "idle", "asleep") /\ pending = 0
  /\ \E lim \in BOOLEAN : timed' = [timed EXCEPT ![t] = lim]
  /\ UNCHANGED <<pending, left>>

SpuriousWake(t) == Goto(t, "asleep", "woken") /\ UNCHANGED <<pending, timed, left>>

Deadline(t) ==
  /\ Goto(t, "asleep", "late") /\ timed[t]
  /\ UNCHANGED <<pending, timed, left>>

(* With the mutex again: a task, another sleep, or false after the deadline.  *)
PopTake(t) ==
  /\ \E from \in {"woken", "late"} : Goto(t, from, "idle")
  /\ TakeFront
  /\ timed' = [timed EXCEPT ![t] = FALSE]
  /\ UNCHANGED left

PopSleepAgain(t) ==
  /\ Goto(t, "woken", "asleep") /\ pending = 0
  /\ UNCHANGED <<pending, timed, left>>

PopGiveUp(t) ==
  /\ Goto(t, "late", "idle") /\ pending = 0
  /\ timed' = [timed EXCEPT ![t] = FALSE]
  /\ UNCHANGED <<pending, left>>

Recheck(t) == PopTake(t) \/ PopSleepAgain(t) \/ PopGiveUp(t)

(* executeAll() and executeN(n).                                              *)
Execute(t) ==
  /\ Goto(t, "idle", "draining")
  /\ \E n \in {All} \union 0..MaxTasks : left' = [left EXCEPT ![t] = n]
  /\ UNCHANGED <<pending, timed>>

(* The loop may go round: count < maxTasks.                                   *)
MoreAllowed(t) == left[t] # 0

ExecuteTake(t) ==
  /\ Goto(t, "draining", "running") /\ MoreAllowed(t)
  /\ TakeFront
  /\ left' = [left EXCEPT ![t] = IF @ <= 0 THEN @ ELSE @ - 1]
  /\ UNCHANGED timed

TaskEnd(t) == Goto(t, "running", "draining") /\ UNCHANGED <<pending, timed, left>>

(* The task throws: the exception leaves executeAll() too.                    *)
TaskThrow(t) ==
  /\ Goto(t, "running", "idle")
  /\ left' = [left EXCEPT ![t] = 0]
  /\ UNCHANGED <<pending, timed>>

ExecuteReturn(t) ==
  /\ Goto(t, "draining", "idle")
  /\ ~MoreAllowed(t) \/ pending = 0
  /\ left' = [left EXCEPT ![t] = 0]
  /\ UNCHANGED <<pending, timed>>

Drain(t) == ExecuteTake(t) \/ TaskEnd(t) \/ ExecuteReturn(t)

Clear(t) ==
  /\ pc[t] \in {"idle", "running"}
  /\ pending' = 0
  /\ UNCHANGED <<pc, timed, left>>

Next ==
  \E t \in Threads :
    \/ Push(t) \/ TryPop(t) \/ PopSleep(t) \/ Clear(t)
    \/ SpuriousWake(t) \/ Deadline(t) \/ Recheck(t)
    \/ Execute(t) \/ Drain(t) \/ TaskThrow(t)

Spec == Init /\ [][Next]_vars

(* Calls are the environment's choice; a call under way is scheduled, tasks   *)
(* end, and a spurious wake-up does not postpone the deadline of pop().       *)
Fairness ==
  \A t \in Threads : WF_vars(Recheck(t)) /\ SF_vars(Deadline(t)) /\ WF_vars(Drain(t))

FairSpec == Spec /\ Fairness

-----------------------------------------------------------------------------
(* No work is left lying beside a sleeping consumer: while some thread sleeps *)
(* in pop(), every queued task has a woken thread that will come for it.      *)
(* notify_one() once per push is enough even though another thread may steal  *)
(* the task, a wake-up may be spurious and a waiter may time out.             *)
NoIdleSleeper ==
  At({"asleep"}) # {} => pending <= Cardinality(At({"woken", "late"}))

(* pop() with a timeout and executeN() return, even when the tasks they run   *)
(* push new tasks for ever.  (executeAll() need not.)                         *)
BoundedCallsReturn ==
  \A t \in Threads :
    /\ pc[t] = "asleep" /\ timed[t] ~> pc[t] = "idle"
    /\ pc[t] = "draining" /\ left[t] # All ~> pc[t] = "idle"
=============================================================================
