------------------------- MODULE ThreadBarrierProofs -------------------------
(***************************************************************************)
(* The barrier's invariants, for every set of threads, every initial count *)
(* and every sequence of calls.                                            *)
(***************************************************************************)
EXTENDS ThreadBarrier, FiniteSetTheorems, TLAPS

(* A thread inside the barrier entered an open generation or an earlier one.  *)
NeverAhead ==
  \A t \in Threads :
    pc[t] \in {"waiting", "waking"} => currentGen[t] <= generation

(* The mutex is held across steps exactly by a thread that completes, which   *)
(* ended the generation before the open one.                                  *)
MutexHolder ==
  /\ \A t \in Threads : pc[t] = "completing" <=> mutex = t
  /\ \A t \in Threads : pc[t] = "completing" => currentGen[t] < generation

(* A sleeper is in the open generation or has a notification coming.          *)
SleepersCovered ==
  \A t \in Threads : pc[t] = "waiting" =>
    \/ currentGen[t] = generation
    \/ \E u \in Threads : pc[u] = "completing" /\ currentGen[u] = currentGen[t]

(* The history: the open generation and later ones are open, earlier ones     *)
(* ended, and a full one still has its last arriver at work.                  *)
HistoryRight ==
  /\ \A g \in Generations : ending[g] = "open" <=> g >= generation
  /\ \A g \in Generations : ending[g] = "full" <=>
       \E u \in Threads : pc[u] = "completing" /\ currentGen[u] = g

(* The inductive invariant.                                                   *)
IInv ==
  /\ TypeOK
  /\ CountExact
  /\ NeverAhead
  /\ MutexHolder
  /\ SleepersCovered
  /\ HistoryRight

-----------------------------------------------------------------------------
(* The set CountExact counts is finite, and its size is a natural number.     *)
LEMMA InsideFinite == IsFiniteSet(InsideNow) /\ Cardinality(InsideNow) \in Nat
<1>1. InsideNow \subseteq Threads
  BY DEF InsideNow
<1>2. IsFiniteSet(Threads)
  BY ConstantsAssumption
<1>3. IsFiniteSet(InsideNow)
  BY <1>1, <1>2, FS_Subset
<1> QED
  BY <1>3, FS_CardinalityType

(* Nobody is inside a generation that has just been opened.                   *)
LEMMA FreshGenerationEmpty ==
  ASSUME IInv, generation' = generation + 1,
         \A t \in Threads : pc'[t] \in {"waiting", "waking"} =>
            pc[t] \in {"waiting", "waking"} /\ currentGen'[t] = currentGen[t]
  PROVE  Cardinality(InsideNow') = 0
<1>1. \A t \in Threads : ~ Inside(t)'
  <2> SUFFICES ASSUME NEW t \in Threads, pc'[t] \in {"waiting", "waking"},
                      currentGen'[t] = generation'
               PROVE FALSE
    BY DEF Inside
  <2>1. currentGen[t] <= generation /\ currentGen[t] = generation + 1
    BY DEF IInv, NeverAhead
  <2>2. generation \in Int
    BY DEF IInv, TypeOK, Generations
  <2> QED
    BY <2>1, <2>2
<1>2. InsideNow' = {}
  BY <1>1 DEF InsideNow
<1> QED
  BY <1>2, FS_EmptySet

(* The invariant holds before the first call.                                 *)
LEMMA InitEstablishes == Init => IInv
<1> SUFFICES ASSUME Init PROVE IInv
  OBVIOUS
<1> USE ConstantsAssumption
<1>1. TypeOK
  BY DEF Init, TypeOK, Generations, Endings, Locations
<1>2. CountExact
  <2>1. InsideNow = {}
    BY DEF Init, InsideNow, Inside
  <2> QED
    BY <2>1, FS_EmptySet DEF Init, CountExact
<1>3. NeverAhead /\ MutexHolder /\ SleepersCovered
  BY DEF Init, NeverAhead, MutexHolder, SleepersCovered
<1>4. HistoryRight
  BY DEF Init, HistoryRight, Generations
<1> QED
  BY <1>1, <1>2, <1>3, <1>4 DEF IInv

-----------------------------------------------------------------------------
(* One thread is counted in: the count follows.                               *)
LEMMA ArriveAndSleepKeeps ==
  ASSUME IInv, NEW t \in Threads, NEW lim \in BOOLEAN, ArriveAndSleep(t, lim)
  PROVE  IInv'
<1> USE ConstantsAssumption DEF IInv
<1>1. TypeOK'
  BY DEF TypeOK, ArriveAndSleep, Begin, Generations, Locations
<1>2. CountExact'
  <2>1. InsideNow' = InsideNow \union {t} /\ t \notin InsideNow
    BY DEF TypeOK, ArriveAndSleep, Begin, CanEnter, InsideNow, Inside
  <2>2. Cardinality(InsideNow') = Cardinality(InsideNow) + 1
    BY <2>1, InsideFinite, FS_AddElement
  <2> QED
    BY <2>2, InsideFinite DEF CountExact, ArriveAndSleep, IsLast, TypeOK
<1>3. NeverAhead'
  BY DEF TypeOK, NeverAhead, ArriveAndSleep, Begin, Generations
<1>4. MutexHolder'
  BY DEF TypeOK, MutexHolder, ArriveAndSleep, Begin, CanEnter
<1>5. SleepersCovered'
  BY DEF TypeOK, SleepersCovered, ArriveAndSleep, Begin, CanEnter
<1>6. HistoryRight'
  BY DEF TypeOK, HistoryRight, ArriveAndSleep, Begin, CanEnter
<1> QED
  BY <1>1, <1>2, <1>3, <1>4, <1>5, <1>6

(* The last thread opens a generation nobody is inside.                       *)
LEMMA ArriveLastKeeps ==
  ASSUME IInv, NEW t \in Threads, NEW lim \in BOOLEAN, ArriveLast(t, lim)
  PROVE  IInv'
<1> USE ConstantsAssumption DEF IInv
<1>1. TypeOK'
  BY DEF TypeOK, ArriveLast, Begin, BelowBound, Generations, Locations, Endings
<1>2. CountExact'
  <2>1. \A u \in Threads : pc'[u] \in {"waiting", "waking"} =>
           pc[u] \in {"waiting", "waking"} /\ currentGen'[u] = currentGen[u]
    BY DEF TypeOK, ArriveLast, Begin
  <2>2. Cardinality(InsideNow') = 0
    BY <2>1, FreshGenerationEmpty DEF ArriveLast
  <2> QED
    BY <2>2 DEF CountExact, ArriveLast, IsLast, TypeOK
<1>3. NeverAhead'
  BY DEF TypeOK, NeverAhead, ArriveLast, Begin, Generations
<1>4. MutexHolder'
  BY DEF TypeOK, MutexHolder, ArriveLast, Begin, CanEnter, Generations
<1>5. SleepersCovered'
  BY DEF TypeOK, SleepersCovered, MutexHolder, ArriveLast, Begin, CanEnter, Generations
<1>6. HistoryRight'
  BY DEF TypeOK, HistoryRight, MutexHolder, ArriveLast, Begin, CanEnter, BelowBound, Generations
<1> QED
  BY <1>1, <1>2, <1>3, <1>4, <1>5, <1>6

(* The last arriver notifies: no sleeper of its generation is left.           *)
LEMMA CompleteKeeps ==
  ASSUME IInv, NEW t \in Threads, Complete(t)
  PROVE  IInv'
<1> USE ConstantsAssumption DEF IInv
<1>1. TypeOK'
  BY DEF TypeOK, Complete, Return, NotifyAll, Generations, Locations, Endings
<1>2. CountExact'
  <2>1. InsideNow' = InsideNow
    BY DEF TypeOK, Complete, Return, NotifyAll, InsideNow, Inside
  <2> QED
    BY <2>1 DEF CountExact, Complete
<1>3. NeverAhead'
  BY DEF TypeOK, NeverAhead, Complete, Return, NotifyAll
<1>4. \A u \in Threads : pc[u] = "completing" => u = t
  BY DEF MutexHolder, Complete
<1>5. \A u \in Threads : pc'[u] \notin {"completing", "waiting"}
  BY <1>4 DEF TypeOK, Complete, NotifyAll, Locations
<1>6. MutexHolder'
  BY <1>5 DEF MutexHolder, Complete
<1>7. SleepersCovered'
  BY <1>5 DEF SleepersCovered
<1>8. HistoryRight'
  <2>1. ending' = [ending EXCEPT ![currentGen[t]] = "done"] /\ generation' = generation
    BY DEF Complete
  <2>2. currentGen[t] \in Generations /\ currentGen[t] < generation
    BY DEF TypeOK, MutexHolder, Complete
  <2>3. \A g \in Generations : ending[g] = "full" => g = currentGen[t]
    BY <1>4 DEF HistoryRight
  <2> QED
    BY <1>5, <2>1, <2>2, <2>3 DEF TypeOK, HistoryRight, Generations
<1> QED
  BY <1>1, <1>2, <1>3, <1>6, <1>7, <1>8

(* A sleeper wakes, on a deadline or for no reason, or goes back to sleep:    *)
(* it stays inside its generation.                                            *)
LEMMA StirKeeps ==
  ASSUME IInv, NEW t \in Threads, SpuriousWake(t) \/ Timeout(t) \/ SleepAgain(t)
  PROVE  IInv'
<1> USE ConstantsAssumption DEF IInv
<1> USE DEF SpuriousWake, Timeout, SleepAgain, Reacquired, Released, state
<1>1. TypeOK'
  BY DEF TypeOK, Locations
<1>2. CountExact'
  <2>1. InsideNow' = InsideNow
    BY DEF TypeOK, InsideNow, Inside
  <2> QED
    BY <2>1 DEF CountExact
<1>3. NeverAhead'
  BY DEF TypeOK, NeverAhead
<1>4. MutexHolder'
  BY DEF TypeOK, MutexHolder
<1>5. SleepersCovered'
  BY DEF TypeOK, SleepersCovered
<1>6. HistoryRight'
  BY DEF TypeOK, HistoryRight
<1> QED
  BY <1>1, <1>2, <1>3, <1>4, <1>5, <1>6

(* A thread of an ended generation leaves: it was not counted any more.       *)
LEMMA LeaveKeeps ==
  ASSUME IInv, NEW t \in Threads, Leave(t)
  PROVE  IInv'
<1> USE ConstantsAssumption DEF IInv, Leave, Reacquired, Released, Return, state
<1>1. TypeOK'
  BY DEF TypeOK, Locations, Generations
<1>2. CountExact'
  <2>1. InsideNow' = InsideNow
    BY DEF TypeOK, InsideNow, Inside
  <2> QED
    BY <2>1 DEF CountExact
<1>3. NeverAhead'
  BY DEF TypeOK, NeverAhead
<1>4. MutexHolder'
  BY DEF TypeOK, MutexHolder
<1>5. SleepersCovered'
  BY DEF TypeOK, SleepersCovered
<1>6. HistoryRight'
  BY DEF TypeOK, HistoryRight
<1> QED
  BY <1>1, <1>2, <1>3, <1>4, <1>5, <1>6

(* A thread that times out was counted, so there is something to uncount.     *)
LEMMA GiveUpKeeps ==
  ASSUME IInv, NEW t \in Threads, GiveUp(t)
  PROVE  IInv'
<1> USE ConstantsAssumption DEF IInv, GiveUp, Reacquired, Expired, Return, Uncounted
<1>1. InsideNow' = InsideNow \ {t} /\ t \in InsideNow
  BY DEF TypeOK, InsideNow, Inside
<1>2. Cardinality(InsideNow') = Cardinality(InsideNow) - 1
  BY <1>1, InsideFinite, FS_RemoveElement
<1>3. Cardinality(InsideNow') \in Nat
  <2>1. IsFiniteSet(InsideNow')
    BY <1>1, InsideFinite, FS_RemoveElement
  <2> QED
    BY <2>1, FS_CardinalityType
<1>4. waitingCount' \in Nat /\ waitingCount' = Cardinality(InsideNow')
  BY <1>2, <1>3, InsideFinite DEF CountExact
<1>5. TypeOK'
  BY <1>4 DEF TypeOK, Locations, Generations
<1>6. CountExact'
  BY <1>4 DEF CountExact, TypeOK
<1>7. NeverAhead'
  BY DEF TypeOK, NeverAhead
<1>8. MutexHolder'
  BY DEF TypeOK, MutexHolder
<1>9. SleepersCovered'
  BY DEF TypeOK, SleepersCovered
<1>10. HistoryRight'
  BY DEF TypeOK, HistoryRight
<1> QED
  BY <1>5, <1>6, <1>7, <1>8, <1>9, <1>10

(* A reset opens a generation nobody is inside and notifies every sleeper.    *)
LEMMA ResetKeeps ==
  ASSUME IInv, NEW t \in Threads, NEW n \in Nat, ResetTo(t, n)
  PROVE  IInv'
<1> USE ConstantsAssumption DEF IInv, ResetTo, CanEnter, NotifyAll
<1>1. TypeOK'
  BY DEF TypeOK, BelowBound, Generations, Locations, Endings
<1>2. CountExact'
  <2>1. \A u \in Threads : pc'[u] \in {"waiting", "waking"} =>
           pc[u] \in {"waiting", "waking"} /\ currentGen'[u] = currentGen[u]
    BY DEF TypeOK
  <2>2. Cardinality(InsideNow') = 0
    BY <2>1, FreshGenerationEmpty
  <2> QED
    BY <2>2 DEF CountExact
<1>3. NeverAhead'
  BY DEF TypeOK, NeverAhead, Generations
<1>4. MutexHolder'
  BY DEF TypeOK, MutexHolder, Generations
<1>5. SleepersCovered'
  BY DEF TypeOK, SleepersCovered
<1>6. HistoryRight'
  BY DEF TypeOK, HistoryRight, MutexHolder, BelowBound, Generations
<1> QED
  BY <1>1, <1>2, <1>3, <1>4, <1>5, <1>6

(* Calls that read the barrier, or that replace the completion function.      *)
LEMMA QuietKeeps ==
  ASSUME IInv, NEW t \in Threads,
         TryWait(t) \/ SetCompletionFunction(t) \/ UNCHANGED vars
  PROVE  IInv'
<1> USE DEF IInv, TryWait, SetCompletionFunction, state, local, vars
<1>1. TypeOK'
  <2>1. CASE TryWait(t)
    <3>1. TryWaitResult \in BOOLEAN
      BY DEF TryWaitResult
    <3> QED
      BY <2>1, <3>1 DEF TypeOK
  <2>2. CASE SetCompletionFunction(t) \/ UNCHANGED vars
    BY <2>2 DEF TypeOK
  <2> QED
    BY <2>1, <2>2
<1>2. CountExact'
  BY DEF CountExact, InsideNow, Inside
<1>3. NeverAhead' /\ MutexHolder' /\ SleepersCovered' /\ HistoryRight'
  BY DEF NeverAhead, MutexHolder, SleepersCovered, HistoryRight
<1> QED
  BY <1>1, <1>2, <1>3

(* Every step of the barrier keeps the invariant.                             *)
LEMMA NextKeeps == IInv /\ [Next]_vars => IInv'
<1> SUFFICES ASSUME IInv, [Next]_vars PROVE IInv'
  OBVIOUS
<1>1. CASE UNCHANGED vars
  <2>1. CASE Threads = {}
    BY <1>1, <2>1 DEF IInv, TypeOK, CountExact, InsideNow, Inside, NeverAhead,
                      MutexHolder, SleepersCovered, HistoryRight, vars, state, local
  <2>2. CASE Threads # {}
    BY <1>1, <2>2, QuietKeeps
  <2> QED
    BY <2>1, <2>2
<1>2. CASE Next
  <2> PICK t \in Threads :
       \/ \E lim \in BOOLEAN : ArriveAndSleep(t, lim) \/ ArriveLast(t, lim)
       \/ Complete(t) \/ SpuriousWake(t) \/ Timeout(t) \/ Recheck(t)
       \/ TryWait(t) \/ Reset(t) \/ ResetCount(t) \/ SetCompletionFunction(t)
    BY <1>2 DEF Next
  <2>1. CASE \E lim \in BOOLEAN : ArriveAndSleep(t, lim) \/ ArriveLast(t, lim)
    BY <2>1, ArriveAndSleepKeeps, ArriveLastKeeps
  <2>2. CASE Complete(t)
    BY <2>2, CompleteKeeps
  <2>3. CASE SpuriousWake(t) \/ Timeout(t)
    BY <2>3, StirKeeps
  <2>4. CASE Recheck(t)
    BY <2>4, StirKeeps, LeaveKeeps, GiveUpKeeps DEF Recheck
  <2>5. CASE Reset(t)
    BY <2>5, ResetKeeps DEF Reset, IInv, TypeOK
  <2>6. CASE ResetCount(t)
    BY <2>6, ResetKeeps, ConstantsAssumption DEF ResetCount
  <2>7. CASE TryWait(t) \/ SetCompletionFunction(t)
    BY <2>7, QuietKeeps
  <2> QED
    BY <2>1, <2>2, <2>3, <2>4, <2>5, <2>6, <2>7
<1> QED
  BY <1>1, <1>2

-----------------------------------------------------------------------------
THEOREM Invariance == Spec => []IInv
  BY InitEstablishes, NextKeeps, PTL DEF Spec

(* Every variable keeps its type; in particular the count never wraps below   *)
(* zero when a waiter times out.                                              *)
THEOREM TypeCorrect == Spec => []TypeOK
<1>1. IInv => TypeOK
  BY DEF IInv
<1> QED
  BY <1>1, Invariance, PTL

(* The count is exact for any number of threads and any history of arrivals,  *)
(* timeouts and resets.                                                       *)
THEOREM CountCorrect == Spec => []CountExact
<1>1. IInv => CountExact
  BY DEF IInv
<1> QED
  BY <1>1, Invariance, PTL

(* No thread sleeps in an ended generation without a notification to come.    *)
THEOREM NobodyForgotten == Spec => []NoForgottenSleeper
<1>1. IInv => NoForgottenSleeper
  BY DEF IInv, TypeOK, NoForgottenSleeper, SleepersCovered, MutexHolder, HistoryRight, Generations
<1> QED
  BY <1>1, Invariance, PTL

(* A generation ends as full only with numThreads distinct threads inside.    *)
THEOREM FullWhenAllInside == Spec => FullMeansAllInside
<1> DEFINE Step == \A t \in Threads :
             pc[t] = "idle" /\ pc'[t] = "completing" =>
               Cardinality(InsideNow \union {t}) = numThreads
<1>1. IInv /\ [Next]_vars => [Step]_vars
  <2> SUFFICES ASSUME IInv, Next, NEW t \in Threads,
                      pc[t] = "idle", pc'[t] = "completing"
               PROVE  Cardinality(InsideNow \union {t}) = numThreads
    OBVIOUS
  <2>1. \E lim \in BOOLEAN : ArriveLast(t, lim)
    BY DEF IInv, TypeOK, Next, ArriveAndSleep, ArriveLast, Begin, Complete, NotifyAll,
           SpuriousWake, Timeout, Recheck, Leave, GiveUp, SleepAgain, Reacquired,
           TryWait, Reset, ResetCount, ResetTo, SetCompletionFunction, local
  <2>2. IsLast /\ t \notin InsideNow
    BY <2>1 DEF ArriveLast, InsideNow, Inside
  <2> QED
    BY <2>2, InsideFinite, FS_AddElement DEF IInv, CountExact, IsLast
<1> QED
  BY <1>1, Invariance, PTL DEF Spec, FullMeansAllInside

(* A blocked call returns true only out of an ended generation, and false     *)
(* only out of the open one.                                                  *)
THEOREM ReturnsCorrect == Spec => ReturnsTellTheTruth
<1> DEFINE Step == \A t \in Threads :
             pc[t] = "waking" /\ pc'[t] = "idle" =>
               IF result'[t] THEN ending[currentGen[t]] \in {"done", "reset"}
                             ELSE ending[currentGen[t]] = "open"
<1>1. IInv /\ [Next]_vars => [Step]_vars
  <2> SUFFICES ASSUME IInv, Next, NEW t \in Threads,
                      pc[t] = "waking", pc'[t] = "idle"
               PROVE  IF result'[t] THEN ending[currentGen[t]] \in {"done", "reset"}
                                    ELSE ending[currentGen[t]] = "open"
    OBVIOUS
  <2>1. Leave(t) \/ GiveUp(t)
    BY DEF IInv, TypeOK, Next, ArriveAndSleep, ArriveLast, Begin, CanEnter, Complete, NotifyAll,
           SpuriousWake, Timeout, Recheck, Leave, GiveUp, SleepAgain, Reacquired,
           TryWait, Reset, ResetCount, ResetTo, SetCompletionFunction, local
  <2>2. currentGen[t] \in Generations /\ currentGen[t] <= generation
    BY DEF IInv, TypeOK, NeverAhead
  <2>3. \A u \in Threads : pc[u] # "completing"
    BY <2>1, ConstantsAssumption DEF IInv, MutexHolder, Leave, GiveUp, Reacquired
  <2>4. CASE Leave(t)
    <3>1. result'[t] /\ ending[currentGen[t]] \notin {"open", "full"}
      BY <2>2, <2>3, <2>4 DEF IInv, TypeOK, HistoryRight, Leave, Released, Return, Generations
    <3> QED
      BY <2>2, <3>1 DEF IInv, TypeOK, Endings
  <2>5. CASE GiveUp(t)
    BY <2>2, <2>5 DEF IInv, TypeOK, HistoryRight, GiveUp, Expired, Return, Generations
  <2> QED
    BY <2>1, <2>4, <2>5
<1> QED
  BY <1>1, Invariance, PTL DEF Spec, ReturnsTellTheTruth
=============================================================================
