--------------------------- MODULE TaskQueueProofs ---------------------------
(***************************************************************************)
(* notify_one() once per push() is enough, for any number of threads and   *)
(* any capacity: TypeOK /\ NoIdleSleeper is inductive.                     *)
(***************************************************************************)
EXTENDS TaskQueue, FiniteSetTheorems, TLAPS

IInv == TypeOK /\ NoIdleSleeper

(* The threads that will look at the queue before they sleep again.           *)
Coming == At({"woken", "late"})

LEMMA AtFinite ==
  ASSUME NEW where
  PROVE  IsFiniteSet(At(where)) /\ Cardinality(At(where)) \in Nat
<1>1. At(where) \subseteq Threads /\ IsFiniteSet(Threads)
  BY ConstantsAssumption DEF At
<1> QED
  BY <1>1, FS_Subset, FS_CardinalityType

LEMMA InitEstablishes == Init => IInv
<1> SUFFICES ASSUME Init PROVE IInv
  OBVIOUS
<1>1. At({"asleep"}) = {}
  BY DEF Init, At
<1> QED
  BY <1>1, ConstantsAssumption DEF Init, IInv, TypeOK, NoIdleSleeper, Locations, All

(* A thread that sleeps is about to come for a task.                          *)
LEMMA WakingOne ==
  ASSUME IInv, NEW t \in Threads, pc[t] = "asleep",
         NEW to \in {"woken", "late"}, pc' = [pc EXCEPT ![t] = to]
  PROVE  Cardinality(Coming') = Cardinality(Coming) + 1
<1>1. Coming' = Coming \union {t} /\ t \notin Coming
  BY DEF IInv, TypeOK, Coming, At
<1> QED
  BY <1>1, AtFinite, FS_AddElement DEF Coming

(* A thread that came took a task, slept again or gave up.                    *)
LEMMA LeavingOne ==
  ASSUME IInv, NEW t \in Threads, NEW from \in {"woken", "late"}, pc[t] = from,
         NEW to \in {"idle", "asleep"}, pc' = [pc EXCEPT ![t] = to]
  PROVE  Cardinality(Coming') = Cardinality(Coming) - 1 /\ Cardinality(Coming') \in Nat
<1>1. Coming' = Coming \ {t} /\ t \in Coming
  BY DEF IInv, TypeOK, Coming, At
<1>2. IsFiniteSet(Coming)
  BY AtFinite DEF Coming
<1>3. IsFiniteSet(Coming') /\ Cardinality(Coming') = Cardinality(Coming) - 1
  BY <1>1, <1>2, FS_RemoveElement
<1> QED
  BY <1>3, FS_CardinalityType

(* push(): if somebody sleeps, one more thread comes for the one more task.   *)
LEMMA PushKeeps ==
  ASSUME IInv, NEW t \in Threads, Push(t)
  PROVE  IInv'
<1> USE ConstantsAssumption DEF IInv
<1>1. TypeOK'
  BY DEF TypeOK, Push, IsFull, NotifyOne, At, Locations
<1>2. CASE At({"asleep"}) = {}
  <2>1. At({"asleep"})' = {}
    BY <1>2 DEF Push, NotifyOne, At
  <2> QED
    BY <1>1, <2>1 DEF NoIdleSleeper
<1>3. CASE At({"asleep"}) # {}
  <2> PICK s \in At({"asleep"}) : pc' = [pc EXCEPT ![s] = "woken"]
    BY <1>3 DEF Push, NotifyOne
  <2>1. Cardinality(Coming') = Cardinality(Coming) + 1
    BY WakingOne DEF At
  <2>2. pending <= Cardinality(Coming)
    BY <1>3 DEF NoIdleSleeper, Coming
  <2>3. Cardinality(Coming) \in Nat /\ pending \in Int
    BY AtFinite DEF Coming, TypeOK
  <2> QED
    BY <1>1, <2>1, <2>2, <2>3 DEF NoIdleSleeper, Coming, Push
<1> QED
  BY <1>2, <1>3

(* A sleeper's sleep ends: one more comes for the same tasks.                 *)
LEMMA StirKeeps ==
  ASSUME IInv, NEW t \in Threads, SpuriousWake(t) \/ Deadline(t)
  PROVE  IInv'
<1> USE ConstantsAssumption DEF IInv, SpuriousWake, Deadline, Goto
<1>1. TypeOK'
  BY DEF TypeOK, Locations
<1>2. Cardinality(Coming') = Cardinality(Coming) + 1
  BY WakingOne
<1>3. pending <= Cardinality(Coming)
  BY DEF NoIdleSleeper, Coming, At
<1>4. Cardinality(Coming) \in Nat /\ pending \in Int
  BY AtFinite DEF Coming, TypeOK
<1> QED
  BY <1>1, <1>2, <1>3, <1>4 DEF NoIdleSleeper, Coming

(* A thread that comes takes one task with it, or finds none.                 *)
LEMMA RecheckKeeps ==
  ASSUME IInv, NEW t \in Threads, Recheck(t)
  PROVE  IInv'
<1> USE ConstantsAssumption DEF IInv
<1>1. Cardinality(Coming) \in Nat
  BY AtFinite DEF Coming
<1>2. CASE PopTake(t)
  <2> USE <1>2 DEF PopTake, Goto, TakeFront
  <2>1. TypeOK'
    BY DEF TypeOK, Locations
  <2>2. Cardinality(Coming') = Cardinality(Coming) - 1 /\ Cardinality(Coming') \in Nat
    BY LeavingOne
  <2>3. At({"asleep"})' = At({"asleep"})
    BY DEF TypeOK, At
  <2> QED
    BY <1>1, <2>1, <2>2, <2>3 DEF NoIdleSleeper, Coming, TypeOK
<1>3. CASE PopSleepAgain(t) \/ PopGiveUp(t)
  <2> USE <1>3 DEF PopSleepAgain, PopGiveUp, Goto
  <2>1. TypeOK'
    BY DEF TypeOK, Locations
  <2>2. Cardinality(Coming') \in Nat
    BY LeavingOne
  <2> QED
    BY <2>1, <2>2 DEF NoIdleSleeper, Coming
<1> QED
  BY <1>2, <1>3 DEF Recheck

(* Every other step leaves the threads that come alone and adds no task; a    *)
(* thread goes to sleep only when there is none.                              *)
LEMMA OthersKeep ==
  ASSUME IInv,
         \/ \E t \in Threads : TryPop(t) \/ PopSleep(t) \/ Clear(t) \/ Execute(t)
                               \/ Drain(t) \/ TaskThrow(t)
         \/ UNCHANGED vars
  PROVE  IInv'
<1> USE ConstantsAssumption DEF IInv
<1>1. TypeOK'
  BY DEF TypeOK, TryPop, PopSleep, Clear, Execute, Drain, ExecuteTake, TaskEnd, ExecuteReturn,
         TaskThrow, Goto, TakeFront, MoreAllowed, Locations, All, vars
<1>2. Coming' = Coming
  BY DEF TypeOK, TryPop, PopSleep, Clear, Execute, Drain, ExecuteTake, TaskEnd, ExecuteReturn,
         TaskThrow, Goto, TakeFront, Coming, At, vars
<1>3. Cardinality(Coming) \in Nat
  BY AtFinite DEF Coming
<1>4. pending' = 0 \/ (pending' <= pending /\ At({"asleep"})' = At({"asleep"}))
  BY DEF TypeOK, TryPop, PopSleep, Clear, Execute, Drain, ExecuteTake, TaskEnd, ExecuteReturn,
         TaskThrow, Goto, TakeFront, At, vars
<1> QED
  BY <1>1, <1>2, <1>3, <1>4 DEF NoIdleSleeper, Coming, TypeOK

LEMMA NextKeeps == IInv /\ [Next]_vars => IInv'
  BY PushKeeps, StirKeeps, RecheckKeeps, OthersKeep DEF Next

THEOREM Invariance == Spec => []IInv
  BY InitEstablishes, NextKeeps, PTL DEF Spec

(* The queue never holds more tasks than its capacity.                        *)
THEOREM TypeCorrect == Spec => []TypeOK
<1>1. IInv => TypeOK
  BY DEF IInv
<1> QED
  BY <1>1, Invariance, PTL

(* No task waits beside a sleeping consumer without a thread coming for it.   *)
THEOREM NoWakeUpLost == Spec => []NoIdleSleeper
<1>1. IInv => NoIdleSleeper
  BY DEF IInv
<1> QED
  BY <1>1, Invariance, PTL
=============================================================================
