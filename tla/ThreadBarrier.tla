---------------------------- MODULE ThreadBarrier ----------------------------
(***************************************************************************)
(* nap::ThreadBarrier (src/src/core/threading/ThreadBarrier.cpp): a        *)
(* reusable barrier made of one mutex, one condition variable, a count of  *)
(* the threads inside and a generation number.                             *)
(*                                                                         *)
(* A critical section of the code that neither blocks nor calls user code  *)
(* is one action, enabled when the mutex is free.  The mutex is explicit   *)
(* only where a section is split: the last arriver keeps it while it runs  *)
(* the completion function.                                                *)
(***************************************************************************)
EXTENDS Integers, FiniteSets

CONSTANTS
  Threads,      (* the threads that call the barrier                          *)
  InitThreads,  (* numThreads given to the constructor                        *)
  ResetCounts,  (* the counts some thread may pass to reset(numThreads)       *)
  MaxGen,       (* bound: no call that can open a generation beyond this one  *)
  NoThread      (* "nobody holds the mutex"                                   *)

ASSUME ConstantsAssumption ==
  /\ IsFiniteSet(Threads)
  /\ InitThreads \in Nat
  /\ ResetCounts \subseteq Nat
  /\ MaxGen \in Nat
  /\ NoThread \notin Threads

VARIABLES
  numThreads,      (* Impl::numThreads                                        *)
  waitingCount,    (* Impl::waitingCount                                      *)
  generation,      (* Impl::generation                                        *)
  completionFunc,  (* TRUE when Impl::completionFunc holds a function         *)
  mutex,           (* owner of Impl::mutex across steps, or NoThread          *)
  pc,              (* where each thread is                                    *)
  currentGen,      (* the local currentGen of its wait() or waitFor()         *)
  timed,           (* TRUE when the call is waitFor()                         *)
  timedOut,        (* the deadline ended its sleep on the condition variable  *)
  result,          (* what its last call returned; TRUE for wait()            *)
  ending           (* history: how each generation ended, see Endings         *)

state == <<numThreads, waitingCount, generation, completionFunc, mutex>>
local == <<pc, currentGen, timed, timedOut, result>>
vars  == <<state, local, ending>>

Generations == 0..MaxGen

(* A generation is open, full (last thread arrived, completion still owed),  *)
(* done (the last thread finished) or reset.                                  *)
Endings == {"open", "full", "done", "reset"}

(* idle: not in a blocking call.  waiting: asleep on the condition variable.  *)
(* waking: sleep ended, must own the mutex again.  completing: last arriver.  *)
Locations == {"idle", "waiting", "waking", "completing"}

TypeOK ==
  /\ numThreads \in Nat
  /\ waitingCount \in Nat
  /\ generation \in Generations
  /\ completionFunc \in BOOLEAN
  /\ mutex \in Threads \union {NoThread}
  /\ pc \in [Threads -> Locations]
  /\ currentGen \in [Threads -> Generations]
  /\ timed \in [Threads -> BOOLEAN]
  /\ timedOut \in [Threads -> BOOLEAN]
  /\ result \in [Threads -> BOOLEAN]
  /\ ending \in [Generations -> Endings]

Init ==
  /\ numThreads = InitThreads
  /\ waitingCount = 0
  /\ generation = 0
  /\ completionFunc \in BOOLEAN
  /\ mutex = NoThread
  /\ pc = [t \in Threads |-> "idle"]
  /\ currentGen = [t \in Threads |-> 0]
  /\ timed = [t \in Threads |-> FALSE]
  /\ timedOut = [t \in Threads |-> FALSE]
  /\ result = [t \in Threads |-> FALSE]
  /\ ending = [g \in Generations |-> "open"]

-----------------------------------------------------------------------------
(* Faulty variants.  Each is one of the definitions below with a bug planted  *)
(* in it; no action uses them.  They show which property notices the bug.     *)
NotifyNobody(at) == at
ForgetToUncount == waitingCount
WakeWithoutMutex(t) == pc[t] = "waking"

(* The body of notify_all: every sleeper has to run again.                    *)
NotifyAll(at) ==
  [t \in Threads |-> IF at[t] = "waiting" THEN "waking" ELSE at[t]]

(* A blocking call returns r: its locals go out of scope.                     *)
Return(t, r) ==
  /\ result' = [result EXCEPT ![t] = r]
  /\ currentGen' = [currentGen EXCEPT ![t] = 0]
  /\ timed' = [timed EXCEPT ![t] = FALSE]
  /\ timedOut' = [timedOut EXCEPT ![t] = FALSE]

(* The thread is free to call, and the mutex is free for a critical section.  *)
CanEnter(t) == pc[t] = "idle" /\ mutex = NoThread

(* The sleeper owns the mutex again, its sleep over.                          *)
Reacquired(t) == pc[t] = "waking" /\ mutex = NoThread

(* The predicate of the condition variable.                                   *)
Released(t) == generation # currentGen[t]

(* wait_for() gave up: the deadline ended the sleep and the predicate fails.  *)
Expired(t) == generation = currentGen[t] /\ timedOut[t]

(* The thread that is about to be counted is the last one.                    *)
IsLast == waitingCount + 1 = numThreads

(* The count without a thread that leaves on a timeout.                       *)
Uncounted == waitingCount - 1

(* A generation may still be ended: the bound on the generation counter.      *)
BelowBound == generation < MaxGen

(* A blocking call begins: what wait() and waitFor() share up to the test of  *)
(* the count, the two locals and nothing returned yet.                        *)
Begin(t, lim) ==
  /\ CanEnter(t) /\ BelowBound
  /\ currentGen' = [currentGen EXCEPT ![t] = generation]
  /\ timed' = [timed EXCEPT ![t] = lim]
  /\ result' = [result EXCEPT ![t] = FALSE]
  /\ UNCHANGED timedOut

(* wait() (lim = FALSE) or waitFor() (lim = TRUE), not the last to arrive:    *)
(* counted, then asleep until the generation changes.                         *)
ArriveAndSleep(t, lim) ==
  /\ Begin(t, lim)
  /\ ~IsLast
  /\ waitingCount' = waitingCount + 1
  /\ pc' = [pc EXCEPT ![t] = "waiting"]
  /\ UNCHANGED <<numThreads, generation, completionFunc, mutex, ending>>

(* wait() or waitFor() by the last thread: the count is cleared and the       *)
(* generation advanced before the completion function is called.              *)
ArriveLast(t, lim) ==
  /\ Begin(t, lim)
  /\ IsLast
  /\ waitingCount' = 0
  /\ generation' = generation + 1
  /\ pc' = [pc EXCEPT ![t] = "completing"]
  /\ mutex' = t
  /\ ending' = [ending EXCEPT ![generation] = "full"]
  /\ UNCHANGED <<numThreads, completionFunc>>

(* The last arriver: completionFunc() if set, notify_all, unlock, return.     *)
Complete(t) ==
  /\ pc[t] = "completing"
  /\ ending' = [ending EXCEPT ![currentGen[t]] = "done"]
  /\ pc' = [NotifyAll(pc) EXCEPT ![t] = "idle"]
  /\ mutex' = NoThread
  /\ Return(t, TRUE)
  /\ UNCHANGED <<numThreads, waitingCount, generation, completionFunc>>

(* A condition variable may wake a sleeper for no reason.                     *)
SpuriousWake(t) ==
  /\ pc[t] = "waiting"
  /\ pc' = [pc EXCEPT ![t] = "waking"]
  /\ UNCHANGED <<state, currentGen, timed, timedOut, result, ending>>

(* The deadline of waitFor() passes while the thread sleeps.                  *)
Timeout(t) ==
  /\ pc[t] = "waiting" /\ timed[t]
  /\ pc' = [pc EXCEPT ![t] = "waking"]
  /\ timedOut' = [timedOut EXCEPT ![t] = TRUE]
  /\ UNCHANGED <<state, currentGen, timed, result, ending>>

(* The sleeper owns the mutex again and its predicate holds: return true.     *)
Leave(t) ==
  /\ Reacquired(t) /\ Released(t)
  /\ pc' = [pc EXCEPT ![t] = "idle"]
  /\ Return(t, TRUE)
  /\ UNCHANGED <<state, ending>>

(* The sleeper timed out and its generation is still open: it uncounts        *)
(* itself and waitFor() returns false.                                        *)
GiveUp(t) ==
  /\ Reacquired(t) /\ Expired(t)
  /\ waitingCount' = Uncounted
  /\ pc' = [pc EXCEPT ![t] = "idle"]
  /\ Return(t, FALSE)
  /\ UNCHANGED <<numThreads, generation, completionFunc, mutex, ending>>

(* Woken too early: the predicate loop of the condition variable.             *)
SleepAgain(t) ==
  /\ Reacquired(t) /\ ~Released(t) /\ ~Expired(t)
  /\ pc' = [pc EXCEPT ![t] = "waiting"]
  /\ UNCHANGED <<state, currentGen, timed, timedOut, result, ending>>

(* What tryWait() returns.  numThreads - 1 is unsigned: with numThreads = 0   *)
(* it is the largest uint32, which no count reaches.                          *)
TryWaitResult == numThreads # 0 /\ waitingCount >= numThreads - 1

TryWait(t) ==
  /\ CanEnter(t)
  /\ result' = [result EXCEPT ![t] = TryWaitResult]
  /\ UNCHANGED <<state, pc, currentGen, timed, timedOut, ending>>

(* reset() keeps the count of threads, reset(n) replaces it.                  *)
ResetTo(t, n) ==
  /\ CanEnter(t) /\ BelowBound
  /\ numThreads' = n
  /\ waitingCount' = 0
  /\ generation' = generation + 1
  /\ ending' = [ending EXCEPT ![generation] = "reset"]
  /\ pc' = NotifyAll(pc)
  /\ UNCHANGED <<completionFunc, mutex, currentGen, timed, timedOut, result>>

Reset(t) == ResetTo(t, numThreads)

ResetCount(t) == \E n \in ResetCounts : ResetTo(t, n)

SetCompletionFunction(t) ==
  /\ CanEnter(t)
  /\ completionFunc' \in BOOLEAN
  /\ UNCHANGED <<numThreads, waitingCount, generation, mutex, local, ending>>

(* A thread whose sleep ended gets the mutex and evaluates the predicate.      *)
Recheck(t) == Leave(t) \/ GiveUp(t) \/ SleepAgain(t)

Next ==
  \E t \in Threads :
    \/ \E lim \in BOOLEAN : ArriveAndSleep(t, lim) \/ ArriveLast(t, lim)
    \/ Complete(t)
    \/ SpuriousWake(t)
    \/ Timeout(t)
    \/ Recheck(t)
    \/ TryWait(t)
    \/ Reset(t)
    \/ ResetCount(t)
    \/ SetCompletionFunction(t)

Spec == Init /\ [][Next]_vars

(* Calls are the environment's choice.  A thread inside a call is scheduled;  *)
(* the completion function returns; the mutex is granted to a thread that     *)
(* keeps asking (strong fairness: it may be free only now and then); and the  *)
(* deadline of waitFor() is absolute, spurious wake-ups do not postpone it.   *)
Fairness ==
  \A t \in Threads :
    /\ WF_vars(Complete(t))
    /\ SF_vars(Recheck(t))
    /\ SF_vars(Timeout(t))

FairSpec == Spec /\ Fairness

-----------------------------------------------------------------------------
(* A thread the count has to account for: inside the barrier, in the          *)
(* generation that is open now.                                               *)
Inside(t) == pc[t] \in {"waiting", "waking"} /\ currentGen[t] = generation

InsideNow == {t \in Threads : Inside(t)}

(* The count is exact: whatever sequence of arrivals, timeouts, spurious      *)
(* wake-ups and resets came before, waitingCount (getWaitingCount()) is the   *)
(* number of threads blocked in the open generation.  The decrement after a   *)
(* timeout can therefore never wrap around or uncount another generation.     *)
(* And a barrier whose threads have all arrived never stays closed: while the *)
(* generation is open fewer than numThreads are inside it.                    *)
CountExact ==
  /\ waitingCount = Cardinality(InsideNow)
  /\ numThreads # 0 => waitingCount < numThreads

(* Nobody is forgotten: a thread sleeps only in a generation that is open, or *)
(* that is full while the last arriver, holding the mutex, has still to run   *)
(* the completion function and notify.  No thread sleeps in a generation that *)
(* was reset or completed.                                                    *)
NoForgottenSleeper ==
  \A t \in Threads : pc[t] = "waiting" =>
    \/ ending[currentGen[t]] = "open"
    \/ /\ ending[currentGen[t]] = "full"
       /\ \E u \in Threads : /\ pc[u] = "completing" /\ mutex = u
                             /\ currentGen[u] = currentGen[t]

(* The step that ends a generation as full: numThreads distinct threads are   *)
(* inside the barrier at that moment, the last arriver being one of them.  A  *)
(* thread that timed out, or that belongs to an earlier generation, is never  *)
(* counted towards it.                                                        *)
FullMeansAllInside ==
  [][\A t \in Threads :
       pc[t] = "idle" /\ pc'[t] = "completing" =>
         Cardinality(InsideNow \union {t}) = numThreads]_vars

(* A thread returns true only when its generation has ended, by the last      *)
(* arrival, and then not while the completion function of that generation is  *)
(* running, or by a reset(); it returns false only while the generation is    *)
(* still open.  That a reset() makes waitFor() return true is not what its    *)
(* doc says: see TrueMeansAllArrived.                                         *)
ReturnsTellTheTruth ==
  [][\A t \in Threads :
       pc[t] = "waking" /\ pc'[t] = "idle" =>
         IF result'[t] THEN ending[currentGen[t]] \in {"done", "reset"}
                       ELSE ending[currentGen[t]] = "open"]_vars

(* "True if all threads arrived within the timeout" (ThreadBarrier.h:48): a   *)
(* waitFor() that slept returns true only when its generation was completed.  *)
(* The code does not: a reset() ends the sleep as an arrival does, and the    *)
(* caller cannot tell the two apart.                                          *)
TrueMeansAllArrived ==
  [][\A t \in Threads :
       pc[t] = "waking" /\ timed[t] /\ pc'[t] = "idle" /\ result'[t] =>
         ending[currentGen[t]] = "done"]_vars

(* No lost wake-up: a thread whose generation has ended leaves the barrier,   *)
(* and waitFor() returns whatever the other threads do.                       *)
BlockedCallsReturn ==
  \A t \in Threads :
    pc[t] \in {"waiting", "waking"} /\ (timed[t] \/ currentGen[t] # generation)
      ~> pc[t] = "idle"
=============================================================================
