-------------------------------- MODULE DriverProofs --------------------------------
(***************************************************************************)
(* The safety properties of the drivers: of those with an audio thread,    *)
(* for any set of callbacks and whichever driver it is; and of those that  *)
(* somebody else calls, for any callbacks, sizes and numbers of calls.     *)
(***************************************************************************)
EXTENDS AudioThreadDriver, MCHostedDrivers, FiniteSetTheorems, SequenceTheorems, WellFoundedInduction, TLAPS

Gone == {"none", "exited"}

(* A thread that is alive can be joined; outside stop() there is one exactly  *)
(* while the driver runs in a mode that has a thread.                         *)
Lifecycle ==
  /\ thread \notin Gone => joinable
  /\ joinable => mode # "manual"
  /\ pc = "call" => mode = "manual"
  /\ thread = "check" => mode = "realtime"
  /\ pc \in {"idle", "call"} => (joinable => running)
  /\ pc \in {"stop", "join", "closeStop", "closeJoin"} => ~running

(* Who is in a callback is in the installed one.                              *)
CallsKnown ==
  /\ calling["app"] = (IF pc = "call" THEN audioCallback ELSE NoCallback)
  /\ calling["thread"] = (IF thread = "call" THEN audioCallback ELSE NoCallback)

(* The inductive invariant.                                                   *)
IInv == TypeOK /\ Lifecycle /\ CallsKnown

LEMMA InitEstablishes == Init => IInv
  BY DriverAssumption
     DEF Init, IInv, TypeOK, HolderOfMutex, Lifecycle, CallsKnown, Gone, NullModes, ThreadLocations, AppLocations

-----------------------------------------------------------------------------
(* What the application does.                                                 *)
LEMMA AppKeeps ==
  ASSUME IInv,
         \/ Initialize \/ Start \/ Stop \/ Shutdown \/ SetAudioCallback \/ SetProcessingMode
         \/ ProcessBlock \/ Finish
  PROVE  IInv'
<1> USE DriverAssumption DEF Initialize, Start, Stop, Shutdown, SetAudioCallback,
        SetProcessingMode, ProcessBlock, Finish, StopThread, Join, ProcessBlockEnd, flags,
        CanLock, CanSetCallback, CanJoin, StartedFlag, StoppedFlag, NullModes
<1>1. TypeOK'
  <2>1. /\ initialized' \in BOOLEAN /\ running' \in BOOLEAN /\ threadRunning' \in BOOLEAN
        /\ joinable' \in BOOLEAN
    BY DEF IInv, TypeOK
  <2>2. /\ audioCallback' \in Callbacks \union {NoCallback}
        /\ mode' \in {"native"} \union NullModes
        /\ thread' \in ThreadLocations /\ pc' \in AppLocations
    BY DEF IInv, TypeOK, ThreadLocations, AppLocations
  <2>3. calling' \in [{"app", "thread"} -> Callbacks \union {NoCallback}]
    BY DEF IInv, TypeOK
  <2>4. (mutex = HolderOfMutex)'
    BY DEF IInv, TypeOK, HolderOfMutex, Lifecycle, Gone, ThreadLocations, AppLocations
  <2> QED
    BY <2>1, <2>2, <2>3, <2>4 DEF TypeOK
<1>2. Lifecycle'
  BY DEF IInv, TypeOK, Lifecycle, Gone, AppLocations
<1>3. CallsKnown'
  BY DEF IInv, TypeOK, HolderOfMutex, CallsKnown, Lifecycle, Gone, AppLocations
<1> QED
  BY <1>1, <1>2, <1>3 DEF IInv

(* What the audio thread does.                                                *)
LEMMA ThreadKeeps ==
  ASSUME IInv, Thread \/ UNCHANGED vars
  PROVE  IInv'
<1> USE DriverAssumption DEF Thread, LoopTest, Check, Lock, CallBegin, CallEnd, Wake, Move,
        CanLock, WillCall, GoesOn, vars, flags, NullModes
<1>1. TypeOK'
  <2>1. /\ initialized' \in BOOLEAN /\ running' \in BOOLEAN /\ threadRunning' \in BOOLEAN
        /\ joinable' \in BOOLEAN
    BY DEF IInv, TypeOK
  <2>2. /\ audioCallback' \in Callbacks \union {NoCallback}
        /\ mode' \in {"native"} \union NullModes
        /\ thread' \in ThreadLocations /\ pc' \in AppLocations
    BY DEF IInv, TypeOK, ThreadLocations, AppLocations
  <2>3. calling' \in [{"app", "thread"} -> Callbacks \union {NoCallback}]
    BY DEF IInv, TypeOK
  <2>4. (mutex = HolderOfMutex)'
    <3> USE DEF IInv, TypeOK, HolderOfMutex, Lifecycle, Gone
    <3>1. CASE LoopTest \/ Check
      BY <3>1
    <3>2. CASE Lock \/ CallBegin
      BY <3>2
    <3>3. CASE CallEnd
      <4>1. pc # "call" /\ pc' = pc /\ mode' = mode
        BY <3>3
      <4> QED
        BY <3>3, <4>1
    <3>4. CASE Wake
      <4>1. pc # "call" /\ pc' = pc
        BY <3>4
      <4> QED
        BY <3>4, <4>1
    <3>5. CASE UNCHANGED vars
      BY <3>5
    <3> QED
      BY <3>1, <3>2, <3>3, <3>4, <3>5
  <2> QED
    BY <2>1, <2>2, <2>3, <2>4 DEF TypeOK
<1>2. Lifecycle'
  BY DEF IInv, TypeOK, Lifecycle, Gone
<1>3. CallsKnown'
  BY DEF IInv, TypeOK, CallsKnown
<1> QED
  BY <1>1, <1>2, <1>3 DEF IInv

THEOREM Invariance == Spec => []IInv
<1>1. IInv /\ [Next]_vars => IInv'
  BY AppKeeps, ThreadKeeps DEF Next
<1> QED
  BY <1>1, InitEstablishes, PTL DEF Spec

-----------------------------------------------------------------------------
(* Types, and: callbackMutex is held exactly where the two loops hold it.     *)
THEOREM TypeCorrect == Spec => []TypeOK
<1>1. IInv => TypeOK
  BY DEF IInv
<1> QED
  BY <1>1, Invariance, PTL

(* After stop() has returned nothing of the driver runs.                      *)
THEOREM QuietProved == Spec => []QuietAfterStop
<1>1. IInv => QuietAfterStop
  BY DEF IInv, TypeOK, Lifecycle, CallsKnown, Gone, QuietAfterStop
<1> QED
  BY <1>1, Invariance, PTL

(* A callback that was replaced is never running.                             *)
THEOREM OnlyInstalledProved == Spec => []OnlyInstalledCallbackRuns
<1>1. IInv => OnlyInstalledCallbackRuns
  BY DEF IInv, CallsKnown, OnlyInstalledCallbackRuns
<1> QED
  BY <1>1, Invariance, PTL

-----------------------------------------------------------------------------
(* These drivers keep the promise of CallbackDriver.                          *)
LEMMA PromiseBegins == Init => Promised!DriverInit
BY DEF Init, Promised!DriverInit, Promised!Callers, Stage

(* In which stage start() and stop() leave the driver.                        *)
LEMMA AppRefines ==
  ASSUME IInv,
         \/ Initialize \/ Start \/ Stop \/ Shutdown \/ SetAudioCallback \/ SetProcessingMode
         \/ StopThread \/ Join
  PROVE  [Promised!DriverNext]_(Promised!promised)
<1> USE DEF Promised!promised, Promised!Goes, Stage, flags
<1>1. CASE Initialize
  <2>1. Promised!Opened \/ UNCHANGED Promised!promised
    BY <1>1 DEF Initialize, Promised!Opened
  <2> QED
    BY <2>1 DEF Promised!DriverNext
<1>2. CASE Start
  <2>1. Promised!Started
    BY <1>2 DEF Start, Promised!Started
  <2> QED
    BY <2>1 DEF Promised!DriverNext
<1>3. CASE Stop
  <2>1. Promised!StopBegan
    BY <1>3 DEF Stop, Promised!StopBegan
  <2> QED
    BY <2>1 DEF Promised!DriverNext
<1>4. CASE Shutdown
  <2>1. Promised!Closed \/ UNCHANGED Promised!promised
    BY <1>4 DEF Shutdown, Promised!Closed
  <2> QED
    BY <2>1 DEF Promised!DriverNext
<1>5. CASE SetAudioCallback
  <2>1. thread # "call" /\ pc = "idle"
    BY <1>5 DEF SetAudioCallback, CanSetCallback, CanLock, IInv, TypeOK, HolderOfMutex
  <2>2. Promised!Nobody
    BY <2>1 DEF IInv, CallsKnown, Promised!Nobody, Promised!Callers
  <2>3. Promised!Installed
    BY <1>5, <2>2 DEF SetAudioCallback, Promised!Installed
  <2> QED
    BY <2>3 DEF Promised!DriverNext
<1>6. CASE SetProcessingMode \/ StopThread
  <2>1. UNCHANGED Promised!promised
    BY <1>6 DEF SetProcessingMode, StopThread
  <2> QED
    BY <2>1
<1>7. CASE Join
  <2>1. thread # "call" /\ pc # "call"
    BY <1>7 DEF Join, CanJoin, IInv, Lifecycle, Gone
  <2>2. Promised!Nobody
    BY <2>1 DEF IInv, CallsKnown, Promised!Nobody, Promised!Callers
  <2>3. running = FALSE
    BY <1>7 DEF Join, IInv, Lifecycle, TypeOK
  <2>4. Promised!StopEnded
    BY <1>7, <2>2, <2>3 DEF Join, Promised!StopEnded
  <2> QED
    BY <2>4 DEF Promised!DriverNext
<1> QED
  BY <1>1, <1>2, <1>3, <1>4, <1>5, <1>6, <1>7

(* A call begins with the mutex, so that nobody is in the other; it ends in   *)
(* the callback it began.                                                     *)
LEMMA CallsRefine ==
  ASSUME IInv, ProcessBlock \/ ProcessBlockEnd \/ Thread
  PROVE  [Promised!DriverNext]_(Promised!promised)
<1> USE DEF Promised!promised, Stage, flags
<1>1. CASE ProcessBlock
  <2>1. thread # "call" /\ pc = "idle"
    BY <1>1 DEF ProcessBlock, CanLock, IInv, TypeOK, HolderOfMutex
  <2>2. Promised!Nobody
    BY <2>1 DEF IInv, CallsKnown, Promised!Nobody, Promised!Callers
  <2>3. Promised!CalledItself
    BY <1>1, <2>2 DEF ProcessBlock, Promised!CalledItself, Promised!Enters
  <2> QED
    BY <2>3 DEF Promised!DriverNext
<1>2. CASE ProcessBlockEnd
  <2>1. calling["app"] = NoCallback => calling' = calling
    BY <1>2 DEF ProcessBlockEnd, IInv, TypeOK
  <2>2. Promised!Returned("app") \/ UNCHANGED Promised!promised
    BY <1>2, <2>1 DEF ProcessBlockEnd, Promised!Returned
  <2> QED
    BY <2>2 DEF Promised!DriverNext, Promised!Callers
<1>3. CASE CallBegin
  <2>1. thread = "locked" /\ pc # "call"
    BY <1>3 DEF CallBegin, Move, IInv, TypeOK, HolderOfMutex, Lifecycle, Gone
  <2>2. Promised!Nobody
    BY <2>1 DEF IInv, CallsKnown, Promised!Nobody, Promised!Callers
  <2>3. Stage \in {"running", "stopping"}
    BY <2>1 DEF IInv, TypeOK, AppLocations, Lifecycle, Gone
  <2>4. Promised!CalledInTime
    BY <1>3, <2>2, <2>3 DEF CallBegin, WillCall, Promised!CalledInTime, Promised!Enters
  <2> QED
    BY <2>4 DEF Promised!DriverNext
<1>4. CASE CallEnd
  <2>1. calling["thread"] = NoCallback => calling' = calling
    BY <1>4 DEF CallEnd, IInv, TypeOK
  <2>2. Promised!Returned("thread") \/ UNCHANGED Promised!promised
    BY <1>4, <2>1 DEF CallEnd, Promised!Returned
  <2> QED
    BY <2>2 DEF Promised!DriverNext, Promised!Callers
<1>5. CASE LoopTest \/ Check \/ Lock \/ Wake
  <2>1. UNCHANGED Promised!promised
    BY <1>5 DEF LoopTest, Check, Lock, Wake
  <2> QED
    BY <2>1
<1> QED
  BY <1>1, <1>2, <1>3, <1>4, <1>5 DEF Thread

(* One call at a time, of the installed callback, and none when stop()        *)
(* returns: every step is one of CallbackDriver's or changes nothing of it.   *)
THEOREM PromiseKept == Spec => IsCallbackDriver
<1>1. IInv /\ [Next]_vars => [Promised!DriverNext]_(Promised!promised)
  <2> SUFFICES ASSUME IInv, [Next]_vars PROVE [Promised!DriverNext]_(Promised!promised)
    OBVIOUS
  <2>1. CASE UNCHANGED vars
    BY <2>1 DEF vars, flags, Promised!promised, Stage
  <2> QED
    BY <2>1, AppRefines, CallsRefine DEF Next, Finish
<1> QED
  BY <1>1, PromiseBegins, Invariance, PTL DEF Spec, IsCallbackDriver, Promised!DriverSpec

-----------------------------------------------------------------------------
(* ASIO.  The switch runs only within the driver's running; a call that was   *)
(* counted late has passed both mutexes and no other can follow it.           *)
Admission ==
  /\ app \in {"starting", "zeroing"} => driverRunning
  /\ switchRunning => driverRunning /\ app \in {"idle", "install", "zeroing"}
  /\ late = 0 \/ (late = 1 /\ host \in {"idle", "call", "adding"} /\ ~switchRunning)

(* No call is counted late while the driver runs, but until the switch does   *)
(* after a restart; in stop() it runs.                                        *)
StoppingClean ==
  /\ app \in {"stopping", "unloading", "reloading"} => driverRunning
  /\ driverRunning /\ app # "starting" => late = 0

(* What the counters are short of the switches let in: one that is under way. *)
CountersBehind ==
  /\ host # "idle" => admitted >= 1
  /\ app \notin {"starting", "zeroing"} =>
       switchCount + (IF host = "entered" THEN 1 ELSE 0) <= admitted
  /\ ~resetCrossed => samplePosition + (IF host = "idle" THEN 0 ELSE 1) <= admitted
  /\ host = "adding" /\ ~resetCrossed => positionRead = samplePosition

AsioInv ==
  /\ Asio!AsioTypeOK
  /\ ~(app = "install" /\ host \in {"call", "adding"})
  /\ inCallback = (IF host = "call" THEN asioCallback ELSE NoAsioCallback)
  /\ switchCount \in Nat /\ samplePosition \in Nat /\ positionRead \in Nat
  /\ late \in Nat /\ admitted \in Nat /\ resetCrossed \in BOOLEAN
  /\ Admission /\ StoppingClean /\ CountersBehind

LEMMA AsioInitEstablishes ==
  ASSUME Asio!Init
  PROVE  AsioInv
<1> USE DEF Asio!Init
<1>1. Asio!AsioTypeOK
  BY DEF Asio!AsioTypeOK, Asio!AppLocations, Asio!HostLocations
<1>2. Admission /\ StoppingClean /\ CountersBehind
  BY DEF Admission, StoppingClean, CountersBehind
<1> QED
  BY <1>1, <1>2 DEF AsioInv

(* What the application does.                                                 *)
LEMMA AsioAppKeeps ==
  ASSUME AsioInv,
         \/ Asio!LoadDriver \/ Asio!UnloadDriver \/ Asio!Start \/ Asio!StartSwitch \/ Asio!StopSwitch
         \/ Asio!ZeroCount \/ Asio!ResetStatistics \/ Asio!Stopped \/ Asio!SetAudioCallback
         \/ Asio!SetProcessCallback
  PROVE  AsioInv'
<1> USE DEF AsioInv, Asio!AsioTypeOK, Asio!AppLocations, Asio!HostLocations, Asio!states, Asio!mutexes,
        Asio!counts, Asio!position, Asio!AppTo
<1>1. CASE Asio!LoadDriver
  BY <1>1 DEF Asio!LoadDriver, Admission, StoppingClean, CountersBehind
<1>8. CASE Asio!UnloadDriver
  BY <1>8 DEF Asio!UnloadDriver, Admission, StoppingClean, CountersBehind
<1>2. CASE Asio!Start
  <2>1. Admission' /\ StoppingClean' /\ Asio!AsioTypeOK'
    BY <1>2 DEF Asio!Start, Admission, StoppingClean
  <2>2. resetCrossed' \in BOOLEAN /\ (resetCrossed' <=> host = "adding")
    BY <1>2 DEF Asio!Start
  <2>3. app' = "starting" /\ host' = host /\ samplePosition' = 0
    BY <1>2 DEF Asio!Start
  <2>4. admitted' = IF host = "idle" THEN 0 ELSE 1
    BY <1>2 DEF Asio!Start
  <2>5. CountersBehind'
    BY <2>2, <2>3, <2>4 DEF CountersBehind
  <2> QED
    BY <1>2, <2>1, <2>2, <2>3, <2>4, <2>5 DEF Asio!Start
<1>3. CASE Asio!StartSwitch
  BY <1>3 DEF Asio!StartSwitch, Admission, StoppingClean, CountersBehind
<1>9. CASE Asio!ZeroCount
  BY <1>9 DEF Asio!ZeroCount, Asio!CountAtStart, Admission, StoppingClean, CountersBehind
<1>10. CASE Asio!ResetStatistics
  BY <1>10 DEF Asio!ResetStatistics, Admission, StoppingClean, CountersBehind
<1>4. CASE Asio!StopSwitch
  BY <1>4 DEF Asio!StopSwitch, Admission, StoppingClean, CountersBehind
<1>5. CASE Asio!Stopped
  BY <1>5 DEF Asio!Stopped, Admission, StoppingClean, CountersBehind
<1>6. CASE Asio!SetAudioCallback
  BY <1>6 DEF Asio!SetAudioCallback, Asio!CanReplace, Admission, StoppingClean, CountersBehind
<1>7. CASE Asio!SetProcessCallback
  BY <1>7 DEF Asio!SetProcessCallback, Admission, StoppingClean, CountersBehind
<1> QED
  BY <1>1, <1>2, <1>3, <1>4, <1>5, <1>6, <1>7, <1>8, <1>9, <1>10

(* What the host does.                                                        *)
LEMMA AsioHostKeeps ==
  ASSUME AsioInv,
         \/ Asio!BufferSwitch \/ Asio!CountSwitch \/ Asio!EnterLambda \/ Asio!CallBegin
         \/ Asio!NothingToCall \/ Asio!CallEnd \/ Asio!AdvancePosition
  PROVE  AsioInv'
<1> USE DEF AsioInv, Asio!AsioTypeOK, Asio!AppLocations, Asio!HostLocations, Asio!states, Asio!mutexes,
        Asio!counts, Asio!position, Asio!HostTo
<1>1. CASE Asio!BufferSwitch
  BY <1>1 DEF Asio!BufferSwitch, Asio!Accepts, Admission, StoppingClean, CountersBehind
<1>2. CASE Asio!EnterLambda
  BY <1>2 DEF Asio!EnterLambda, Admission, StoppingClean, CountersBehind
<1>3. CASE Asio!CallBegin
  BY <1>3 DEF Asio!CallBegin, Admission, StoppingClean, CountersBehind
<1>4. CASE Asio!NothingToCall
  BY <1>4 DEF Asio!NothingToCall, Admission, StoppingClean, CountersBehind
<1>5. CASE Asio!CallEnd
  BY <1>5 DEF Asio!CallEnd, Admission, StoppingClean, CountersBehind
<1>6. CASE Asio!AdvancePosition
  <2>1. Asio!AsioTypeOK'
    BY <1>6 DEF Asio!AdvancePosition, Asio!MutexAfterCall
  <2>2. Admission' /\ StoppingClean'
    BY <1>6 DEF Asio!AdvancePosition, Admission, StoppingClean
  <2>3. ~resetCrossed => samplePosition' <= admitted
    BY <1>6 DEF Asio!AdvancePosition, CountersBehind
  <2>4. CountersBehind'
    BY <1>6, <2>3 DEF Asio!AdvancePosition, CountersBehind
  <2> QED
    BY <1>6, <2>1, <2>2, <2>4 DEF Asio!AdvancePosition
<1>7. CASE Asio!CountSwitch
  BY <1>7 DEF Asio!CountSwitch, Admission, StoppingClean, CountersBehind
<1> QED
  BY <1>1, <1>2, <1>3, <1>4, <1>5, <1>6, <1>7

LEMMA AsioStutter ==
  ASSUME AsioInv, UNCHANGED asio
  PROVE  AsioInv'
  BY DEF AsioInv, Asio!AsioTypeOK, Admission, StoppingClean, CountersBehind, asio, Asio!AppLocations, Asio!HostLocations

(* What the driver knows of its switch and of the host, from every step.      *)
THEOREM AsioInvariance == HostedSpec => []AsioInv
<1>1. HostedInit => AsioInv
  BY AsioInitEstablishes DEF HostedInit
<1>2. AsioInv /\ [HostedNext]_hostedVars => AsioInv'
  <2> SUFFICES ASSUME AsioInv, [HostedNext]_hostedVars PROVE AsioInv'
    OBVIOUS
  <2>1. CASE AsioStep
    BY <2>1, AsioAppKeeps, AsioHostKeeps DEF AsioStep, Asio!Next, Asio!AppFinishes, Asio!HostFinishes
  <2>2. CASE JackStep \/ ClientStep \/ ListStep \/ MidiStep \/ StubStep \/ UNCHANGED hostedVars
    <3>1. UNCHANGED asio
      BY <2>2 DEF JackStep, ClientStep, ListStep, MidiStep, StubStep, hostedVars
    <3> QED
      BY <3>1, AsioStutter
  <2> QED
    BY <2>1, <2>2 DEF HostedNext
<1> QED
  BY <1>1, <1>2, PTL DEF HostedSpec

(* Replaced callbacks never run, at most one call is late, and the counters   *)
(* are of this run, for any callbacks and however often the host calls.       *)
THEOREM AsioBounded == HostedSpec => []AsioCallsBounded
<1>1. AsioInv => AsioCallsBounded
  BY DEF AsioInv, AsioCallsBounded, CountersBehind, Admission, Asio!OnlyInstalledRuns,
         Asio!AtMostOneLateCall, Asio!StatisticsOfThisRun, Asio!AsioTypeOK
<1> QED
  BY <1>1, AsioInvariance, PTL

(* The ASIO driver keeps the promise of CallbackDriver that does not wait.    *)
LEMMA AsioPromiseBegins == Asio!Init => AsioPromised!DriverInit
BY DEF Asio!Init, AsioPromised!DriverInit, AsioPromised!Callers, AsioStage

(* In which stage the calls of the application leave the driver.              *)
LEMMA AsioAppRefines ==
  ASSUME AsioInv,
         \/ Asio!LoadDriver \/ Asio!UnloadDriver \/ Asio!Start \/ Asio!StartSwitch \/ Asio!StopSwitch
         \/ Asio!ZeroCount \/ Asio!ResetStatistics \/ Asio!Stopped \/ Asio!SetAudioCallback
         \/ Asio!SetProcessCallback
  PROVE  [AsioPromised!DriverNext]_(AsioPromised!promised)
<1> USE DEF AsioPromised!promised, AsioPromised!Goes, AsioStage, Asio!states, Asio!mutexes, Asio!counts, Asio!position,
        Asio!AppTo
<1>1. CASE Asio!LoadDriver
  <2>1. AsioPromised!Opened \/ UNCHANGED AsioPromised!promised
    BY <1>1 DEF Asio!LoadDriver, AsioPromised!Opened
  <2> QED
    BY <2>1 DEF AsioPromised!DriverNext
<1>2. CASE Asio!UnloadDriver
  <2>1. AsioPromised!Closed
    BY <1>2 DEF Asio!UnloadDriver, AsioPromised!Closed
  <2> QED
    BY <2>1 DEF AsioPromised!DriverNext
<1>3. CASE Asio!Start
  <2>1. AsioPromised!Started
    BY <1>3 DEF Asio!Start, AsioPromised!Started
  <2> QED
    BY <2>1 DEF AsioPromised!DriverNext
<1>4. CASE Asio!StartSwitch \/ Asio!ZeroCount \/ Asio!ResetStatistics \/ Asio!SetProcessCallback
  <2>1. UNCHANGED AsioPromised!promised
    BY <1>4 DEF Asio!StartSwitch, Asio!ZeroCount, Asio!ResetStatistics, Asio!SetProcessCallback,
                AsioInv, Admission
  <2> QED
    BY <2>1
<1>5. CASE Asio!StopSwitch
  <2>1. AsioPromised!StopBegan
    BY <1>5 DEF Asio!StopSwitch, AsioPromised!StopBegan
  <2> QED
    BY <2>1 DEF AsioPromised!DriverNext
<1>6. CASE Asio!Stopped
  <2>1. driverRunning /\ late = 0
    BY <1>6 DEF Asio!Stopped, AsioInv, StoppingClean
  <2>2. AsioPromised!StopEnded
    BY <1>6, <2>1 DEF Asio!Stopped, AsioPromised!StopEnded
  <2> QED
    BY <2>2 DEF AsioPromised!DriverNext
<1>7. CASE Asio!SetAudioCallback
  <2>1. host # "call"
    BY <1>7 DEF Asio!SetAudioCallback, Asio!CanReplace, AsioInv, Asio!AsioTypeOK
  <2>2. AsioPromised!Nobody
    BY <2>1 DEF AsioInv, AsioPromised!Nobody, AsioPromised!Callers
  <2>3. AsioPromised!Installed
    BY <1>7, <2>2 DEF Asio!SetAudioCallback, AsioPromised!Installed
  <2> QED
    BY <2>3 DEF AsioPromised!DriverNext
<1> QED
  BY <1>1, <1>2, <1>3, <1>4, <1>5, <1>6, <1>7

(* A call is in time while the driver runs or stops, late otherwise.          *)
LEMMA AsioHostRefines ==
  ASSUME AsioInv,
         \/ Asio!BufferSwitch \/ Asio!CountSwitch \/ Asio!EnterLambda \/ Asio!CallBegin
         \/ Asio!NothingToCall \/ Asio!CallEnd \/ Asio!AdvancePosition
  PROVE  [AsioPromised!DriverNext]_(AsioPromised!promised)
<1> USE DEF AsioPromised!promised, AsioStage, Asio!states, Asio!mutexes, Asio!counts, Asio!position, Asio!HostTo
<1>1. CASE Asio!BufferSwitch \/ Asio!CountSwitch \/ Asio!EnterLambda \/ Asio!NothingToCall
           \/ Asio!AdvancePosition
  <2>1. UNCHANGED AsioPromised!promised
    BY <1>1 DEF Asio!BufferSwitch, Asio!CountSwitch, Asio!EnterLambda, Asio!NothingToCall,
                Asio!AdvancePosition
  <2> QED
    BY <2>1
<1>2. CASE Asio!CallBegin
  <2>1. AsioPromised!Nobody
    BY <1>2 DEF Asio!CallBegin, AsioInv, AsioPromised!Nobody, AsioPromised!Callers
  <2>2. AsioPromised!Enters("thread")
    BY <1>2, <2>1 DEF Asio!CallBegin, AsioPromised!Enters
  <2>3. CASE AsioStage \in {"running", "stopping"}
    <3>1. AsioPromised!CalledInTime
      BY <1>2, <2>2, <2>3 DEF Asio!CallBegin, AsioPromised!CalledInTime, AsioInv, StoppingClean
    <3> QED
      BY <3>1 DEF AsioPromised!DriverNext
  <2>4. CASE AsioStage \in {"ready", "closed"}
    <3>1. app = "idle" /\ ~driverRunning /\ late = 0
      BY <1>2, <2>4 DEF Asio!CallBegin, AsioInv, Admission, Asio!AsioTypeOK, Asio!AppLocations
    <3>2. AsioPromised!CalledLate
      BY <1>2, <2>2, <2>4, <3>1 DEF Asio!CallBegin, AsioPromised!CalledLate
    <3> QED
      BY <3>2 DEF AsioPromised!DriverNext
  <2> QED
    BY <2>3, <2>4
<1>3. CASE Asio!CallEnd
  <2>1. AsioPromised!Returned("thread") \/ UNCHANGED AsioPromised!promised
    BY <1>3 DEF Asio!CallEnd, AsioPromised!Returned
  <2> QED
    BY <2>1 DEF AsioPromised!DriverNext, AsioPromised!Callers
<1> QED
  BY <1>1, <1>2, <1>3

(* One call at a time, of the installed callback, and at most one after       *)
(* stop(): every step is one of CallbackDriver's or changes nothing of it.    *)
THEOREM AsioPromiseKept == HostedSpec => AsioIsCallbackDriver
<1>1. AsioInv /\ [HostedNext]_hostedVars => [AsioPromised!DriverNext]_(AsioPromised!promised)
  <2> SUFFICES ASSUME AsioInv, [HostedNext]_hostedVars
               PROVE  [AsioPromised!DriverNext]_(AsioPromised!promised)
    OBVIOUS
  <2>1. CASE AsioStep
    BY <2>1, AsioAppRefines, AsioHostRefines DEF AsioStep, Asio!Next, Asio!AppFinishes, Asio!HostFinishes
  <2>2. CASE JackStep \/ ClientStep \/ ListStep \/ MidiStep \/ StubStep \/ UNCHANGED hostedVars
    <3>1. UNCHANGED asio
      BY <2>2 DEF JackStep, ClientStep, ListStep, MidiStep, StubStep, hostedVars
    <3> QED
      BY <3>1 DEF asio, AsioPromised!promised, AsioStage
  <2> QED
    BY <2>1, <2>2 DEF HostedNext
<1>2. HostedInit => AsioPromised!DriverInit
  BY AsioPromiseBegins DEF HostedInit
<1> QED
  BY <1>1, <1>2, AsioInvariance, PTL DEF HostedSpec, AsioIsCallbackDriver, AsioPromised!DriverSpec

-----------------------------------------------------------------------------
(* Core Audio.  The list is always a beginning of the catalogue, the whole    *)
(* of it outside a refill, so that a place in it means one device for good.   *)
Places == 1..3

ListBegins ==
  /\ Len(devices) \in 0..3 /\ DOMAIN devices = 1..Len(devices) /\ devices \in Seq({List!Catalogue[i] : i \in Places})
  /\ \A i \in 1..Len(devices) : devices[i] = List!Catalogue[i]
  /\ lister \in {"idle", "filling"}
  /\ lister = "idle" => Len(devices) = 3
  /\ listMutex = (IF lister = "filling" THEN "lister" ELSE "free")

(* The pointer is the place of the wanted device, and what was read through   *)
(* it while it was alive is that device's.                                    *)
Selection ==
  /\ selector \in {"idle", "selecting", "selecting2", "comparing"}
  /\ selector # "idle" => found \in Places /\ List!Catalogue[found].id = wanted
  /\ selector = "selecting2" /\ ~crossed =>
       currentDeviceId = wanted /\ inputChannels = List!Catalogue[found].in
  /\ selector \in {"idle", "comparing"} /\ currentDeviceId # "" /\ ~crossed =>
       \E i \in Places : /\ currentDeviceId = List!Catalogue[i].id
                         /\ inputChannels = List!Catalogue[i].in
                         /\ outputChannels = List!Catalogue[i].out

ListInv == ListBegins /\ Selection

LEMMA CatalogueFacts ==
  /\ Len(List!Catalogue) = 3 /\ DOMAIN List!Catalogue = Places
  /\ \A i \in Places : List!Catalogue[i] =
       [id |-> List!Catalogue[i].id, in |-> List!Catalogue[i].in, out |-> List!Catalogue[i].out]
  /\ List!Catalogue \in Seq({List!Catalogue[i] : i \in Places})
  BY DEF List!Catalogue, Places

LEMMA ListInitEstablishes ==
  ASSUME List!ListInit
  PROVE  ListInv
<1>1. devices = List!Catalogue /\ lister = "idle" /\ listMutex = "free" /\ Len(devices) = 3
  BY CatalogueFacts DEF List!ListInit
<1>2. devices \in Seq({List!Catalogue[i] : i \in Places}) /\ DOMAIN devices = 1..Len(devices)
  BY <1>1, CatalogueFacts DEF Places
<1>3. ListBegins
  BY <1>1, <1>2 DEF ListBegins
<1>4. Selection
  BY DEF List!ListInit, Selection
<1> QED
  BY <1>3, <1>4 DEF ListInv

(* The first device of an id in the full list.                                *)
LEMMA DeviceFound ==
  ASSUME NEW id \in List!Ids, ListBegins, lister = "idle"
  PROVE  LET n == List!SelectInSeq(devices, LAMBDA d : d.id = id)
         IN n \in Places /\ List!Catalogue[n].id = id
<1> DEFINE I == {i \in 1..Len(devices) : devices[i].id = id}
<1>1. PICK k \in Places : List!Catalogue[k].id = id
  BY DEF List!Ids, Places
<1>2. I = {i \in Places : List!Catalogue[i].id = id}
  BY DEF ListBegins, Places
<1>3. \E n \in I : \A j \in I : n <= j
  <2>1. CASE 1 \in I
    BY <1>2, <2>1 DEF Places
  <2>2. CASE 1 \notin I /\ 2 \in I
    BY <1>2, <2>2 DEF Places
  <2>3. CASE 1 \notin I /\ 2 \notin I
    BY <1>1, <1>2, <2>3 DEF Places
  <2> QED
    BY <2>1, <2>2, <2>3
<1>4. List!SelectInSeq(devices, LAMBDA d : d.id = id) = List!Min(I)
  BY <1>3 DEF List!SelectInSeq
<1>5. List!Min(I) \in I
  BY <1>3 DEF List!Min
<1> QED
  BY <1>2, <1>4, <1>5

(* The thread that refills the list.                                          *)
LEMMA ListerKeeps ==
  ASSUME ListInv, List!RefreshBegin \/ List!PushDevice \/ List!RefreshEnd
  PROVE  ListInv'
<1> USE DEF ListInv
<1>1. Selection'
  BY DEF Selection, List!RefreshBegin, List!PushDevice, List!RefreshEnd, List!current
<1>2. CASE List!RefreshBegin
  BY <1>1, <1>2 DEF ListBegins, List!RefreshBegin
<1>3. CASE List!PushDevice
  <2> DEFINE n == Len(devices)
  <2>1. n \in 0..2 /\ devices' = Append(devices, List!Catalogue[n + 1])
    BY <1>3 DEF List!PushDevice, List!NextDevice, ListBegins
  <2>2. n + 1 \in Places
    <3> HIDE DEF n
    <3>1. n \in 0..2
      BY <2>1
    <3> QED
      BY <3>1 DEF Places
  <2>3. List!Catalogue[n + 1] \in {List!Catalogue[i] : i \in Places}
    <3> HIDE DEF n
    <3> QED
      BY <2>2
  <2>4. /\ devices' \in Seq({List!Catalogue[i] : i \in Places}) /\ Len(devices') = n + 1
        /\ DOMAIN devices' = 1..(n + 1)
        /\ \A i \in 1..(n + 1) : devices'[i] = IF i = n + 1 THEN List!Catalogue[n + 1] ELSE devices[i]
    BY <2>1, <2>3 DEF ListBegins
  <2>5. \A i \in 1..(n + 1) : devices'[i] = List!Catalogue[i]
    BY <2>1, <2>4 DEF ListBegins
  <2>6. ListBegins'
    BY <1>3, <2>1, <2>4, <2>5 DEF List!PushDevice, ListBegins
  <2> QED
    BY <1>1, <2>6
<1>4. CASE List!RefreshEnd
  BY <1>1, <1>4 DEF ListBegins, List!RefreshEnd
<1> QED
  BY <1>2, <1>3, <1>4

(* A live pointer is to the wanted device, and only a refill leaves one dead. *)
LEMMA DeviceThere ==
  ASSUME ListInv, selector # "idle", List!Live
  PROVE  devices[found] = List!Catalogue[found]
<1>1. found \in 1..3 /\ found <= Len(devices) /\ Len(devices) \in 0..3
  BY DEF ListInv, ListBegins, Selection, Places, List!Live
<1>2. found \in 1..Len(devices)
  BY <1>1
<1> QED
  BY <1>2 DEF ListInv, ListBegins

LEMMA PlaceNotThere ==
  ASSUME ListInv, selector # "idle", ~List!Live
  PROVE  lister = "filling"
<1>1. found \in 1..3 /\ ~(found <= Len(devices))
  BY DEF ListInv, Selection, Places, List!Live
<1>2. Len(devices) # 3
  BY <1>1
<1> QED
  BY <1>2 DEF ListInv, ListBegins

(* The thread that selects or compares.                                       *)
LEMMA SelectorKeeps ==
  ASSUME ListInv,
         \/ \E id \in List!Ids : List!GetDeviceById(id)
         \/ List!ReadInput \/ List!ReadOutput \/ List!Compare \/ List!Aggregate
  PROVE  ListInv'
<1> USE DEF ListInv
<1>1. ListBegins'
  BY DEF ListBegins, List!GetDeviceById, List!ReadInput, List!ReadOutput, List!Compare, List!Aggregate
<1>2. ASSUME List!Live, selector # "idle"
      PROVE  devices[found] = List!Catalogue[found]
  BY <1>2, DeviceThere
<1>3. CASE \E id \in List!Ids : List!GetDeviceById(id)
  <2>1. PICK id \in List!Ids : List!GetDeviceById(id)
    BY <1>3
  <2>2. found' \in Places /\ List!Catalogue[found'].id = wanted'
    BY <2>1, DeviceFound DEF List!GetDeviceById, ListBegins
  <2>3. Selection'
    BY <2>1, <2>2 DEF List!GetDeviceById, Selection, List!current
  <2> QED
    BY <1>1, <2>3
<1>4. CASE List!ReadInput
  BY <1>1, <1>2, <1>4 DEF List!ReadInput, List!Channels, Selection
<1>5. CASE List!ReadOutput
  BY <1>1, <1>2, <1>5 DEF List!ReadOutput, List!Channels, Selection
<1>6. CASE List!Compare
  BY <1>1, <1>6 DEF List!Compare, Selection, List!current
<1>7. CASE List!Aggregate
  BY <1>1, <1>7 DEF List!Aggregate, Selection, List!current
<1> QED
  BY <1>3, <1>4, <1>5, <1>6, <1>7

LEMMA ListStutter ==
  ASSUME ListInv, UNCHANGED list
  PROVE  ListInv'
  BY DEF ListInv, ListBegins, Selection, list

(* A selected device has its own channels unless its selection crossed a      *)
(* refill of the list, however often and whenever that is refilled.           *)
THEOREM SelectionProved == HostedSpec => []SelectedDeviceAgrees
<1>1. HostedInit => ListInv
  BY ListInitEstablishes DEF HostedInit
<1>2. ListInv /\ [HostedNext]_hostedVars => ListInv'
  <2> SUFFICES ASSUME ListInv, [HostedNext]_hostedVars PROVE ListInv'
    OBVIOUS
  <2>1. CASE ListStep
    BY <2>1, ListerKeeps, SelectorKeeps DEF ListStep, List!ListNext
  <2>2. CASE AsioStep \/ JackStep \/ ClientStep \/ MidiStep \/ StubStep \/ UNCHANGED hostedVars
    <3>1. UNCHANGED list
      BY <2>2 DEF AsioStep, JackStep, ClientStep, MidiStep, StubStep, hostedVars
    <3> QED
      BY <3>1, ListStutter
  <2> QED
    BY <2>1, <2>2 DEF HostedNext
<1>3. ListInv => SelectedDeviceAgrees
  <2> SUFFICES ASSUME ListInv PROVE SelectedDeviceAgrees
    OBVIOUS
  <2>1. selector # "idle" => IF List!Live THEN devices[found].id = wanted ELSE lister = "filling"
    <3>1. CASE selector # "idle" /\ List!Live
      BY <3>1, DeviceThere DEF ListInv, Selection
    <3>2. CASE selector # "idle" /\ ~List!Live
      BY <3>2, PlaceNotThere
    <3> QED
      BY <3>1, <3>2
  <2>2. selector = "idle" /\ currentDeviceId # "" /\ ~crossed =>
          \E i \in 1..3 : List!Catalogue[i] =
            [id |-> currentDeviceId, in |-> inputChannels, out |-> outputChannels]
    BY CatalogueFacts DEF ListInv, Selection, Places
  <2> QED
    BY <2>1, <2>2 DEF SelectedDeviceAgrees, List!SelectedDeviceAgrees
<1> QED
  BY <1>1, <1>2, <1>3, PTL DEF HostedSpec

-----------------------------------------------------------------------------
(* A set of naturals with an element has a least one.                         *)
LEMMA LeastNatural ==
  ASSUME NEW T, T \subseteq Nat, T # {}
  PROVE  \E n \in T : \A m \in T : n <= m
<1>1. PICK n \in T : \A m \in T : <<m, n>> \notin OpToRel(<, Nat)
  BY WFMin, NatLessThanWellFounded, Zenon
<1>2. \A m \in T : ~(m < n)
  BY <1>1, Zenon DEF OpToRel
<1> QED
  BY <1>2

(* The last turn is no exception when the start is none and no turn makes one. *)
LEMMA NoLeastException ==
  ASSUME NEW T, NEW N \in Nat, 0 \notin T, \A k \in 0..(N - 1) : k \notin T => k + 1 \notin T
  PROVE  \A k \in 0..N : k \notin T
<1> SUFFICES ASSUME T \intersect (0..N) # {} PROVE FALSE
  OBVIOUS
<1>1. PICK n \in T \intersect (0..N) : \A m \in T \intersect (0..N) : n <= m
  <2> DEFINE exceptions == T \intersect (0..N)
  <2>1. exceptions \subseteq Nat /\ exceptions # {}
    OBVIOUS
  <2> HIDE DEF exceptions
  <2>2. \E n \in exceptions : \A m \in exceptions : n <= m
    BY <2>1, LeastNatural
  <2> QED
    BY <2>2 DEF exceptions
<1>2. n # 0 /\ n - 1 \in 0..(N - 1) /\ n - 1 \in 0..N /\ (n - 1) + 1 = n
  BY <1>1
<1>3. n - 1 \notin T
  BY <1>1, <1>2
<1> QED
  BY <1>1, <1>2, <1>3

(* std::find and erase: the sequence without one occurrence of the element.   *)
LEMMA RemoveFirstDrops ==
  ASSUME NEW S, NEW s \in Seq(S), NEW e, \E i \in 1..Len(s) : s[i] = e
  PROVE  LET t == Jack!RemoveFirst(s, e)
         IN  \E k \in 1..Len(s) :
               /\ s[k] = e
               /\ t \in Seq(S) /\ Len(t) = Len(s) - 1
               /\ \A i \in 1..Len(t) : t[i] = IF i < k THEN s[i] ELSE s[i + 1]
<1> DEFINE I == {i \in 1..Len(s) : s[i] = e}
           k == Jack!Min(I)
           head == SubSeq(s, 1, k - 1)
           tail == SubSeq(s, k + 1, Len(s))
<1>1. Jack!RemoveFirst(s, e) = Jack!RemoveAt(s, k)
  BY DEF Jack!RemoveFirst, Jack!SelectInSeq
<1>2. k \in 1..Len(s) /\ s[k] = e
  <2>1. \E n \in I : \A m \in I : n <= m
    <3>1. I \subseteq Nat /\ I # {}
      OBVIOUS
    <3> QED
      BY <3>1, LeastNatural
  <2>2. k \in I
    BY <2>1 DEF Jack!Min
  <2> QED
    BY <2>2
<1> HIDE DEF k
<1>3. /\ head \in Seq(S) /\ Len(head) = k - 1 /\ \A i \in 1..(k - 1) : head[i] = s[i]
      /\ tail \in Seq(S) /\ Len(tail) = Len(s) - k /\ \A i \in 1..(Len(s) - k) : tail[i] = s[i + k]
  BY <1>2
<1> DEFINE t == head \o tail
<1>4. Jack!RemoveFirst(s, e) = t
  BY <1>1 DEF Jack!RemoveAt
<1> HIDE DEF head, tail
<1>5. /\ head \o tail \in Seq(S) /\ Len(head \o tail) = Len(head) + Len(tail)
      /\ \A i \in 1..(Len(head) + Len(tail)) :
           (head \o tail)[i] = IF i <= Len(head) THEN head[i] ELSE tail[i - Len(head)]
  BY <1>3, ConcatProperties
<1> HIDE DEF t
<1>6. Len(s) \in Nat
  OBVIOUS
<1>7. Len(t) = Len(s) - 1
  BY <1>2, <1>3, <1>5, <1>6 DEF t
<1>8. ASSUME NEW i \in 1..Len(t)
      PROVE  t[i] = IF i < k THEN s[i] ELSE s[i + 1]
  <2>1. CASE i < k
    BY <2>1, <1>2, <1>3, <1>5, <1>6, <1>7 DEF t
  <2>2. CASE ~(i < k)
    <3>1. i - (k - 1) \in 1..(Len(s) - k) /\ (i - (k - 1)) + k = i + 1
      BY <2>2, <1>2, <1>6, <1>7
    <3>2. t[i] = tail[i - (k - 1)]
      BY <2>2, <1>2, <1>3, <1>5, <1>6, <1>7 DEF t
    <3>3. tail[i - (k - 1)] = s[(i - (k - 1)) + k]
      BY <3>1, <1>3
    <3> QED
      BY <2>2, <3>1, <3>2, <3>3
  <2> QED
    BY <2>1, <2>2
<1> QED
  <2>1. t \in Seq(S)
    BY <1>5 DEF t
  <2> QED
    BY <1>2, <1>4, <2>1, <1>7, <1>8


-----------------------------------------------------------------------------
(* The JACK client.  Each of its operations yields a client.                  *)
LEMMA WithType ==
  ASSUME NEW T, NEW D \in SUBSET Ports, NEW f \in [D -> T], NEW p \in Ports, NEW x \in T
  PROVE  /\ D \union {p} \in SUBSET Ports
         /\ Jack!With(f, p, x) \in [D \union {p} -> T]
  BY DEF Jack!With

LEMMA ClientSwitched ==
  ASSUME NEW c, Jack!IsClient(c)
  PROVE  /\ Jack!IsClient(Jack!Connected(c)) /\ Jack!IsClient(Jack!Disconnected(c))
         /\ Jack!IsClient(Jack!Activated(c)) /\ Jack!IsClient(Jack!Deactivated(c))
         /\ Jack!IsClient([c EXCEPT !.lambda = TRUE])
<1>1. PICK D \in SUBSET Ports, E \in SUBSET Ports : c \in Jack!Clients(D, E)
  BY DEF Jack!IsClient
<1>2. /\ Jack!Connected(c) \in Jack!Clients(D, E) /\ Jack!Activated(c) \in Jack!Clients(D, E)
      /\ Jack!Deactivated(c) \in Jack!Clients(D, E)
      /\ [c EXCEPT !.lambda = TRUE] \in Jack!Clients(D, E)
  BY <1>1 DEF Jack!Clients, Jack!Connected, Jack!Activated, Jack!Deactivated
<1>3. Jack!IsClient(Jack!Disconnected(c))
  <2>1. CASE ~c.connected
    BY <2>1 DEF Jack!Disconnected
  <2>2. CASE c.connected
    <3>1. Jack!NoEntries \in [{} -> Sizes] /\ Jack!NoEntries \in [{} -> Seq(Ports)]
      BY DEF Jack!NoEntries
    <3>2. <<>> \in Seq(Ports)
      OBVIOUS
    <3>3. Jack!Disconnected(c) \in Jack!Clients({}, {})
      BY <1>1, <2>2, <3>1, <3>2 DEF Jack!Clients, Jack!Disconnected
    <3> QED
      BY <3>3 DEF Jack!IsClient
  <2> QED
    BY <2>1, <2>2
<1> QED
  BY <1>2, <1>3 DEF Jack!IsClient

LEMMA ClientResized ==
  ASSUME NEW c, Jack!IsClient(c), NEW n \in Sizes
  PROVE  Jack!IsClient(Jack!Resized(c, n))
<1>1. PICK D \in SUBSET Ports, E \in SUBSET Ports : c \in Jack!Clients(D, E)
  BY DEF Jack!IsClient
<1>2. DOMAIN c.audioBuffers = D
  BY <1>1 DEF Jack!Clients
<1>3. Jack!ResizeAll(c, n) \in Jack!Clients(D, E)
  BY <1>1, <1>2 DEF Jack!Clients, Jack!ResizeAll
<1> QED
  BY <1>1, <1>3 DEF Jack!IsClient, Jack!Resized

LEMMA ClientCreated ==
  ASSUME NEW c, Jack!IsClient(c), NEW p \in Ports
  PROVE  Jack!IsClient(Jack!Created(c, p))
<1>1. PICK D \in SUBSET Ports, E \in SUBSET Ports : c \in Jack!Clients(D, E)
  BY DEF Jack!IsClient
<1>2. /\ c.audioBuffers \in [D -> Sizes] /\ c.bufferSize \in Sizes
      /\ Append(c.ownPorts, p) \in Seq(Ports)
  BY <1>1 DEF Jack!Clients
<1>3. /\ D \union {p} \in SUBSET Ports
      /\ Jack!With(c.audioBuffers, p, c.bufferSize) \in [D \union {p} -> Sizes]
  BY <1>2, WithType
<1>4. Jack!Created(c, p) \in Jack!Clients(D \union {p}, E)
  BY <1>1, <1>2, <1>3 DEF Jack!Clients, Jack!Created
<1> QED
  BY <1>3, <1>4 DEF Jack!IsClient

LEMMA ClientUnregistered ==
  ASSUME NEW c, Jack!IsClient(c), NEW p \in Ports, Jack!Exists(c, p)
  PROVE  Jack!IsClient(Jack!Unregistered(c, p))
<1>1. PICK D \in SUBSET Ports, E \in SUBSET Ports : c \in Jack!Clients(D, E)
  BY DEF Jack!IsClient
<1>2. c.ownPorts \in Seq(Ports) /\ \E i \in 1..Len(c.ownPorts) : c.ownPorts[i] = p
  BY <1>1 DEF Jack!Clients, Jack!Exists, Jack!Contains
<1>3. Jack!RemoveFirst(c.ownPorts, p) \in Seq(Ports)
  BY <1>2, RemoveFirstDrops
<1>4. Jack!Unregistered(c, p) \in Jack!Clients(D \ {p}, E \ {p})
  BY <1>1, <1>3 DEF Jack!Clients, Jack!Unregistered, Jack!BuffersWithout, Jack!Without
<1>5. D \ {p} \in SUBSET Ports /\ E \ {p} \in SUBSET Ports
  OBVIOUS
<1> QED
  BY <1>4, <1>5 DEF Jack!IsClient

LEMMA ClientWired ==
  ASSUME NEW c, Jack!IsClient(c), NEW src \in Ports, NEW dst \in Ports
  PROVE  /\ Jack!IsClient(Jack!PortsConnected(c, src, dst))
         /\ Jack!IsClient(Jack!PortsDisconnected(c, src, dst))
         /\ Jack!IsClient(Jack!AllDisconnected(c, src))
<1>1. PICK D \in SUBSET Ports, E \in SUBSET Ports : c \in Jack!Clients(D, E)
  BY DEF Jack!IsClient
<1>2. c.portConnections \in [E -> Seq(Ports)]
  BY <1>1 DEF Jack!Clients
<1> DEFINE targets == Jack!Targets(c, src)
<1>3. targets \in Seq(Ports)
  BY <1>2 DEF Jack!Targets
<1>4. Jack!IsClient(Jack!PortsConnected(c, src, dst))
  <2>1. Append(targets, dst) \in Seq(Ports)
    BY <1>3
  <2>2. /\ E \union {src} \in SUBSET Ports
        /\ Jack!With(c.portConnections, src, Append(targets, dst)) \in [E \union {src} -> Seq(Ports)]
    BY <1>2, <2>1, WithType
  <2>3. Jack!PortsConnected(c, src, dst) \in Jack!Clients(D, E \union {src})
    BY <1>1, <2>2 DEF Jack!Clients, Jack!PortsConnected
  <2> QED
    BY <2>2, <2>3 DEF Jack!IsClient
<1>5. Jack!IsClient(Jack!PortsDisconnected(c, src, dst))
  <2>1. CASE ~Jack!Contains(targets, dst)
    BY <2>1 DEF Jack!PortsDisconnected
  <2>2. CASE Jack!Contains(targets, dst)
    <3>1. \E i \in 1..Len(targets) : targets[i] = dst
      BY <2>2 DEF Jack!Contains
    <3>2. src \in E /\ targets = c.portConnections[src]
      BY <1>2, <3>1 DEF Jack!Targets
    <3>3. Jack!RemoveFirst(c.portConnections[src], dst) \in Seq(Ports)
      BY <1>3, <3>1, <3>2, RemoveFirstDrops
    <3>4. Jack!PortsDisconnected(c, src, dst) \in Jack!Clients(D, E)
      BY <1>1, <2>2, <3>2, <3>3 DEF Jack!Clients, Jack!PortsDisconnected
    <3> QED
      BY <3>4 DEF Jack!IsClient
  <2> QED
    BY <2>1, <2>2
<1>6. Jack!IsClient(Jack!AllDisconnected(c, src))
  <2>1. Jack!AllDisconnected(c, src) \in Jack!Clients(D, E)
    <3>1. <<>> \in Seq(Ports)
      OBVIOUS
    <3>2. [c.portConnections EXCEPT ![src] = <<>>] \in [E -> Seq(Ports)]
      BY <1>2, <3>1
    <3> QED
      BY <1>1, <3>2 DEF Jack!Clients, Jack!AllDisconnected
  <2> QED
    BY <2>1 DEF Jack!IsClient
<1> QED
  BY <1>4, <1>5, <1>6

-----------------------------------------------------------------------------
(* The JACK driver and its client.  Until one is torn from the other, what    *)
(* the driver believes of the connection is so, what runs is active, and the  *)
(* sizes are equal from the connection to the next resize.                    *)
DriverTyped ==
  /\ client = NoClient \/ Jack!IsClient(client)
  /\ connectedToServer \in BOOLEAN /\ jackRunning \in BOOLEAN
  /\ torn \in BOOLEAN /\ resized \in BOOLEAN
  /\ bufferSize \in Nat

Attached ==
  /\ Jack!HasClient /\ client.active => client.connected /\ jackRunning /\ connectedToServer
  /\ connectedToServer /\ ~torn => Jack!HasClient /\ client.connected
  /\ jackRunning /\ ~torn => connectedToServer /\ client.active
  /\ connectedToServer /\ ~torn /\ ~resized => client.bufferSize <= bufferSize

JackInv == which = "jack" => DriverTyped /\ Attached

(* A client is not the null pointer, and its size is a number.                *)
LEMMA ClientFields ==
  ASSUME NEW c, Jack!IsClient(c)
  PROVE  /\ c # NoClient /\ c.connected \in BOOLEAN /\ c.active \in BOOLEAN
         /\ c.bufferSize \in Nat
  BY HostedAssumption DEF Jack!IsClient, Jack!Clients

LEMMA NewClientFields ==
  Jack!IsClient(Jack!NewClient) /\ ~Jack!NewClient.active /\ ~Jack!NewClient.connected
<1>1. Jack!NoEntries \in [{} -> Sizes] /\ Jack!NoEntries \in [{} -> Seq(Ports)]
  BY DEF Jack!NoEntries
<1>2. Jack!NewClient \in Jack!Clients({}, {})
  BY <1>1, HostedAssumption DEF Jack!NewClient, Jack!Clients
<1> QED
  BY <1>2 DEF Jack!IsClient, Jack!NewClient

(* What the operations leave in the fields that matter here.                  *)
LEMMA FieldsAfter ==
  ASSUME NEW c, Jack!IsClient(c)
  PROVE  /\ Jack!Connected(c).connected /\ Jack!Connected(c).active = c.active
         /\ Jack!Connected(c).bufferSize = c.bufferSize
         /\ Jack!Activated(c).active = c.connected /\ Jack!Activated(c).connected = c.connected
         /\ Jack!Activated(c).bufferSize = c.bufferSize
         /\ ~Jack!Deactivated(c).active /\ Jack!Deactivated(c).connected = c.connected
         /\ Jack!Deactivated(c).bufferSize = c.bufferSize
         /\ c.connected => ~Jack!Disconnected(c).active
         /\ ~c.connected => Jack!Disconnected(c) = c
         /\ [c EXCEPT !.lambda = TRUE].active = c.active
         /\ [c EXCEPT !.lambda = TRUE].connected = c.connected
         /\ [c EXCEPT !.lambda = TRUE].bufferSize = c.bufferSize
  BY DEF Jack!IsClient, Jack!Clients, Jack!Connected, Jack!Activated, Jack!Deactivated,
         Jack!Disconnected

LEMMA FieldsAfterResize ==
  ASSUME NEW c, Jack!IsClient(c), NEW n \in Sizes
  PROVE  /\ Jack!Resized(c, n).active = c.active
         /\ Jack!Resized(c, n).connected = c.connected
  BY DEF Jack!IsClient, Jack!Clients, Jack!Resized, Jack!ResizeAll

LEMMA FieldsAfterWiring ==
  ASSUME NEW c, Jack!IsClient(c), NEW src \in Ports, NEW dst \in Ports,
         NEW d \in {Jack!PortsConnected(c, src, dst), Jack!PortsDisconnected(c, src, dst)}
  PROVE  d.active = c.active /\ d.connected = c.connected /\ d.bufferSize = c.bufferSize
<1>1. CASE d = Jack!PortsConnected(c, src, dst)
  BY <1>1 DEF Jack!IsClient, Jack!Clients, Jack!PortsConnected
<1>2. CASE d = Jack!PortsDisconnected(c, src, dst)
  BY <1>2 DEF Jack!IsClient, Jack!Clients, Jack!PortsDisconnected
<1> QED
  BY <1>1, <1>2

(* Every call of the driver keeps the two in step.                            *)
LEMMA JackKeeps ==
  ASSUME DriverTyped, Attached, Jack!JackNext
  PROVE  DriverTyped' /\ Attached'
<1> USE DEF DriverTyped, Attached, Jack!HasClient
<1>1. ASSUME Jack!HasClient
      PROVE  /\ Jack!IsClient(client) /\ client.connected \in BOOLEAN /\ client.active \in BOOLEAN
             /\ client.bufferSize \in Nat
  BY <1>1, ClientFields
<1>2. CASE Jack!InitializeJack
  <2>1. DriverTyped'
    BY <1>2, NewClientFields DEF Jack!InitializeJack
  <2>2. Attached'
    BY <1>2, NewClientFields DEF Jack!InitializeJack
  <2> QED
    BY <2>1, <2>2
<1>3. CASE Jack!ShutdownJack
  BY <1>3 DEF Jack!ShutdownJack
<1>4. CASE Jack!StartJack
  <2>1. CASE Jack!HasClient
    <3>1. client' = Jack!Activated(client) /\ Jack!IsClient(client')
      BY <1>1, <1>4, <2>1, ClientSwitched DEF Jack!StartJack
    <3>2. client'.active = client.connected /\ client'.connected = client.connected
          /\ client'.bufferSize = client.bufferSize
      BY <1>1, <2>1, <3>1, FieldsAfter
    <3>3. DriverTyped'
      BY <1>1, <1>4, <2>1, <3>1, <3>2 DEF Jack!StartJack
    <3>4. Attached'
      BY <1>1, <1>4, <2>1, <3>1, <3>2, ClientFields DEF Jack!StartJack
    <3> QED
      BY <3>3, <3>4
  <2>2. CASE ~Jack!HasClient
    BY <1>4, <2>2 DEF Jack!StartJack
  <2> QED
    BY <2>1, <2>2
<1>5. CASE Jack!StopJack
  <2>1. CASE Jack!HasClient
    <3>1. client' = Jack!Deactivated(client) /\ Jack!IsClient(client')
      BY <1>1, <1>5, <2>1, ClientSwitched DEF Jack!StopJack
    <3>2. ~client'.active /\ client'.connected = client.connected
          /\ client'.bufferSize = client.bufferSize
      BY <1>1, <2>1, <3>1, FieldsAfter
    <3>3. DriverTyped'
      BY <1>1, <1>5, <2>1, <3>1, <3>2 DEF Jack!StopJack
    <3>4. Attached'
      BY <1>1, <1>5, <2>1, <3>1, <3>2, ClientFields DEF Jack!StopJack
    <3> QED
      BY <3>3, <3>4
  <2>2. CASE ~Jack!HasClient
    BY <1>5, <2>2 DEF Jack!StopJack
  <2> QED
    BY <2>1, <2>2
<1>6. CASE Jack!ConnectToServer
  <2>1. Jack!HasClient /\ ~connectedToServer
    BY <1>6 DEF Jack!ConnectToServer
  <2>2. client' = Jack!Connected(client) /\ Jack!IsClient(client')
    BY <1>1, <1>6, <2>1, ClientSwitched DEF Jack!ConnectToServer
  <2>3. client'.connected /\ client'.active = client.active
        /\ client'.bufferSize = client.bufferSize
    BY <1>1, <2>1, <2>2, FieldsAfter
  <2>4. DriverTyped'
    BY <1>1, <1>6, <2>1, <2>2 DEF Jack!ConnectToServer, Jack!SizeFromServer
  <2>5. Attached'
    BY <1>1, <1>6, <2>1, <2>2, <2>3, ClientFields DEF Jack!ConnectToServer, Jack!SizeFromServer
  <2> QED
    BY <2>4, <2>5
<1>7. CASE Jack!DisconnectFromServer
  <2>1. CASE Jack!HasClient
    <3>1. client' = Jack!Disconnected(client) /\ Jack!IsClient(client')
      BY <1>1, <1>7, <2>1, ClientSwitched DEF Jack!DisconnectFromServer
    <3>2. ~client'.active
      BY <1>1, <2>1, <3>1, FieldsAfter
    <3> QED
      BY <1>1, <1>7, <2>1, <3>1, <3>2 DEF Jack!DisconnectFromServer
  <2>2. CASE ~Jack!HasClient
    BY <1>7, <2>2 DEF Jack!DisconnectFromServer
  <2> QED
    BY <2>1, <2>2
<1>8. CASE \E n \in Sizes : Jack!SetJackBufferSize(n)
  <2>1. PICK n \in Sizes : Jack!SetJackBufferSize(n)
    BY <1>8
  <2>2. Jack!HasClient /\ client' = Jack!Resized(client, n) /\ Jack!IsClient(client')
    BY <1>1, <2>1, ClientResized DEF Jack!SetJackBufferSize
  <2>3. client'.active = client.active /\ client'.connected = client.connected
    BY <1>1, <2>2, FieldsAfterResize
  <2>4. DriverTyped'
    BY <1>1, <2>1, <2>2, <2>3 DEF Jack!SetJackBufferSize
  <2>5. Attached'
    BY <1>1, <2>1, <2>2, <2>3, ClientFields DEF Jack!SetJackBufferSize
  <2> QED
    BY <2>4, <2>5
<1>9. CASE Jack!SetJackCallback
  <2>1. CASE Jack!HasClient
    <3>1. client' = [client EXCEPT !.lambda = TRUE] /\ Jack!IsClient(client')
      BY <1>1, <1>9, <2>1, ClientSwitched DEF Jack!SetJackCallback
    <3>2. client'.active = client.active /\ client'.connected = client.connected
          /\ client'.bufferSize = client.bufferSize
      BY <1>1, <2>1, <3>1, FieldsAfter
    <3>3. DriverTyped'
      BY <1>1, <1>9, <2>1, <3>1, <3>2 DEF Jack!SetJackCallback
    <3>4. Attached'
      BY <1>1, <1>9, <2>1, <3>1, <3>2, ClientFields DEF Jack!SetJackCallback
    <3> QED
      BY <3>3, <3>4
  <2>2. CASE ~Jack!HasClient
    BY <1>9, <2>2 DEF Jack!SetJackCallback
  <2> QED
    BY <2>1, <2>2
<1>10. CASE Jack!Process
  BY <1>10 DEF Jack!Process
<1>11. CASE \E src, dst \in Ports : Jack!WireJack(src, dst)
  <2>1. PICK src \in Ports, dst \in Ports : Jack!WireJack(src, dst)
    BY <1>11
  <2>2. /\ Jack!HasClient
        /\ client' \in {Jack!PortsConnected(client, src, dst), Jack!PortsDisconnected(client, src, dst)}
    BY <2>1 DEF Jack!WireJack
  <2>3. Jack!IsClient(client')
    BY <1>1, <2>2, ClientWired
  <2>4. client'.active = client.active /\ client'.connected = client.connected
        /\ client'.bufferSize = client.bufferSize
    BY <1>1, <2>2, FieldsAfterWiring
  <2>5. DriverTyped'
    BY <1>1, <2>1, <2>2, <2>3, <2>4 DEF Jack!WireJack
  <2>6. Attached'
    BY <1>1, <2>1, <2>2, <2>3, <2>4, ClientFields DEF Jack!WireJack
  <2> QED
    BY <2>5, <2>6
<1> QED
  BY <1>2, <1>3, <1>4, <1>5, <1>6, <1>7, <1>8, <1>9, <1>10, <1>11 DEF Jack!JackNext

-----------------------------------------------------------------------------
(* The ports of the JACK client.  A name has a buffer exactly if it is a      *)
(* port, but for one that was created twice; and whoever is listed twice was  *)
(* created while it existed.                                                  *)
TwiceListed ==
  \A i, j \in 1..Len(client.ownPorts) :
    i # j /\ client.ownPorts[i] = client.ownPorts[j] => client.ownPorts[i] \in twice

PortsInv ==
  which = "jackClient" => Jack!IsClient(client) /\ twice \subseteq Ports /\ Jack!PortsHaveBuffers /\ TwiceListed

(* The fields of a client.                                                    *)
LEMMA ClientShape ==
  ASSUME NEW c, Jack!IsClient(c)
  PROVE  /\ c.ownPorts \in Seq(Ports) /\ c.connected \in BOOLEAN /\ c.active \in BOOLEAN
         /\ c.audioBuffers \in [DOMAIN c.audioBuffers -> Sizes] /\ c.bufferSize \in Sizes
  BY DEF Jack!IsClient, Jack!Clients

LEMMA RangeOfPorts ==
  ASSUME NEW s \in Seq(Ports)
  PROVE  \A p : p \in Jack!Range(s) <=> \E i \in 1..Len(s) : s[i] = p
  BY DEF Jack!Range

(* A step that leaves the ports and gives every buffer the current size.      *)
LEMMA SamePortsKeep ==
  ASSUME Jack!IsClient(client), Jack!IsClient(client'), Jack!PortsHaveBuffers, TwiceListed,
         client'.ownPorts = client.ownPorts,
         DOMAIN client'.audioBuffers = DOMAIN client.audioBuffers,
         \A p \in DOMAIN client'.audioBuffers : client'.audioBuffers[p] = client'.bufferSize,
         twice \intersect Jack!Range(client'.ownPorts) \subseteq twice',
         twice' \subseteq twice
  PROVE  Jack!PortsHaveBuffers' /\ TwiceListed'
<1>1. client.ownPorts \in Seq(Ports)
  BY ClientShape
<1>2. \A i \in 1..Len(client.ownPorts) : client.ownPorts[i] \in Jack!Range(client.ownPorts)
  BY <1>1, RangeOfPorts
<1>3. Jack!PortsHaveBuffers'
  BY DEF Jack!PortsHaveBuffers
<1>4. TwiceListed'
  BY <1>2 DEF TwiceListed
<1> QED
  BY <1>3, <1>4

LEMMA ServerKeeps ==
  ASSUME Jack!IsClient(client), twice \subseteq Ports, Jack!PortsHaveBuffers, TwiceListed, Jack!Server
  PROVE  /\ Jack!IsClient(client') /\ (twice \subseteq Ports)'
         /\ Jack!PortsHaveBuffers' /\ TwiceListed'
<1>1. twice' = twice \intersect Jack!Range(client'.ownPorts)
  BY DEF Jack!Server
<1>2. client.connected \in BOOLEAN
  BY ClientShape
<1>3. CASE client' = Jack!Disconnected(client) /\ client.connected
  <2>1. Jack!IsClient(client')
    BY <1>3, ClientSwitched
  <2>2. client'.ownPorts = <<>> /\ client'.audioBuffers = Jack!NoEntries
    BY <1>3 DEF Jack!Disconnected, Jack!IsClient, Jack!Clients
  <2>3. Jack!Range(client'.ownPorts) = {} /\ DOMAIN client'.audioBuffers = {}
        /\ Len(client'.ownPorts) = 0
    BY <2>2 DEF Jack!Range, Jack!NoEntries
  <2> QED
    BY <1>1, <2>1, <2>3 DEF Jack!PortsHaveBuffers, TwiceListed
<1>4. CASE \/ client' \in {Jack!Connected(client), Jack!Activated(client), Jack!Deactivated(client)}
           \/ client' = Jack!Disconnected(client) /\ ~client.connected
  <2>1. Jack!IsClient(client')
    BY <1>4, ClientSwitched
  <2>2. /\ client'.ownPorts = client.ownPorts /\ client'.audioBuffers = client.audioBuffers
        /\ client'.bufferSize = client.bufferSize
    BY <1>4 DEF Jack!Connected, Jack!Activated, Jack!Deactivated, Jack!Disconnected,
                Jack!IsClient, Jack!Clients
  <2>3. \A p \in DOMAIN client'.audioBuffers : client'.audioBuffers[p] = client'.bufferSize
    BY <2>2 DEF Jack!PortsHaveBuffers
  <2> QED
    BY <1>1, <2>1, <2>2, <2>3, SamePortsKeep
<1>5. CASE \E n \in Sizes : client' = Jack!Resized(client, n)
  <2>1. PICK n \in Sizes : client' = Jack!Resized(client, n)
    BY <1>5
  <2>2. Jack!IsClient(client')
    BY <2>1, ClientResized
  <2>3. client'.ownPorts = client.ownPorts /\ DOMAIN client'.audioBuffers = DOMAIN client.audioBuffers
    BY <2>1 DEF Jack!Resized, Jack!ResizeAll, Jack!IsClient, Jack!Clients
  <2>4. \A p \in DOMAIN client'.audioBuffers : client'.audioBuffers[p] = client'.bufferSize
    <3>1. CASE client.active
      BY <2>1, <3>1 DEF Jack!Resized, Jack!PortsHaveBuffers
    <3>2. CASE ~client.active
      BY <2>1, <3>2 DEF Jack!Resized, Jack!ResizeAll, Jack!IsClient, Jack!Clients
    <3> QED
      BY <3>1, <3>2
  <2> QED
    BY <1>1, <2>2, <2>3, <2>4, SamePortsKeep
<1> QED
  BY <1>2, <1>3, <1>4, <1>5 DEF Jack!Server

LEMMA CreateKeeps ==
  ASSUME Jack!IsClient(client), twice \subseteq Ports, Jack!PortsHaveBuffers, TwiceListed,
         NEW p \in Ports, Jack!CreatePort(p)
  PROVE  /\ Jack!IsClient(client') /\ (twice \subseteq Ports)'
         /\ Jack!PortsHaveBuffers' /\ TwiceListed'
<1> DEFINE s == client.ownPorts
           f == client.audioBuffers
           n == Len(s)
<1>1. s \in Seq(Ports) /\ f \in [DOMAIN f -> Sizes] /\ n \in Nat
  BY ClientShape
<1>2. Jack!IsClient(client') /\ client' = Jack!Created(client, p)
  BY ClientCreated DEF Jack!CreatePort
<1>3. /\ client'.ownPorts = Append(s, p) /\ client'.bufferSize = client.bufferSize
      /\ client'.audioBuffers = Jack!With(f, p, client.bufferSize)
  BY <1>2 DEF Jack!Created, Jack!IsClient, Jack!Clients
<1>4. /\ DOMAIN client'.audioBuffers = DOMAIN f \union {p}
      /\ \A q \in DOMAIN client'.audioBuffers :
           client'.audioBuffers[q] = IF q = p THEN client.bufferSize ELSE f[q]
  BY <1>3 DEF Jack!With
<1>5. twice' = IF \E i \in 1..n : s[i] = p THEN twice \union {p} ELSE twice
  BY DEF Jack!CreatePort, Jack!Exists, Jack!Contains
<1>6. /\ Len(client'.ownPorts) = n + 1
      /\ \A i \in 1..(n + 1) : client'.ownPorts[i] = IF i = n + 1 THEN p ELSE s[i]
  BY <1>1, <1>3
<1>7. Jack!Range(client'.ownPorts) = Jack!Range(s) \union {p}
  <2>1. \A q : q \in Jack!Range(s) <=> \E i \in 1..n : s[i] = q
    BY <1>1, RangeOfPorts
  <2>2. \A q : q \in Jack!Range(client'.ownPorts) <=> \E i \in 1..(n + 1) : client'.ownPorts[i] = q
    BY <1>2, <1>6, ClientShape, RangeOfPorts
  <2> HIDE DEF n, s
  <2>3. ASSUME NEW q PROVE q \in Jack!Range(client'.ownPorts) <=> q \in Jack!Range(s) \union {p}
    <3>1. CASE q = p
      <4>1. n + 1 \in 1..(n + 1)
        BY <1>1
      <4> QED
        BY <3>1, <4>1, <2>2, <1>6
    <3>2. CASE q # p
      <4>1. ASSUME NEW i \in 1..n, s[i] = q
            PROVE  i \in 1..(n + 1) /\ client'.ownPorts[i] = q
        <5>1. i \in 1..(n + 1) /\ i # n + 1
          BY <1>1
        <5> QED
          BY <4>1, <5>1, <1>6
      <4>2. ASSUME NEW i \in 1..(n + 1), client'.ownPorts[i] = q
            PROVE  i \in 1..n /\ s[i] = q
        <5>1. i # n + 1
          BY <3>2, <4>2, <1>6
        <5>2. i \in 1..n
          BY <5>1, <1>1
        <5> QED
          BY <4>2, <5>1, <5>2, <1>6
      <4> QED
        BY <3>2, <4>1, <4>2, <2>1, <2>2
    <3> QED
      BY <3>1, <3>2
  <2> QED
    BY <2>3
<1>8. Jack!PortsHaveBuffers'
  BY <1>3, <1>4, <1>5, <1>7 DEF Jack!PortsHaveBuffers
<1>9. TwiceListed'
  <2> HIDE DEF n, s
  <2>1. \A i, j \in 1..n : i # j /\ s[i] = s[j] => s[i] \in twice
    BY DEF TwiceListed, n, s
  <2>2. SUFFICES ASSUME NEW i \in 1..(n + 1), NEW j \in 1..(n + 1), i # j,
                        client'.ownPorts[i] = client'.ownPorts[j]
                 PROVE  client'.ownPorts[i] \in twice'
    BY <1>6 DEF TwiceListed
  <2>3. CASE i # n + 1 /\ j # n + 1
    <3>1. i \in 1..n /\ j \in 1..n
      BY <2>3, <1>1
    <3> QED
      BY <2>1, <2>2, <2>3, <3>1, <1>5, <1>6
  <2>4. CASE i = n + 1
    <3>1. j \in 1..n
      BY <2>2, <2>4, <1>1
    <3> QED
      BY <2>2, <2>4, <3>1, <1>5, <1>6
  <2>5. CASE j = n + 1
    <3>1. i \in 1..n
      BY <2>2, <2>5, <1>1
    <3> QED
      BY <2>2, <2>5, <3>1, <1>5, <1>6
  <2> QED
    BY <2>3, <2>4, <2>5
<1> QED
  BY <1>2, <1>5, <1>8, <1>9

LEMMA UnregisterKeeps ==
  ASSUME Jack!IsClient(client), twice \subseteq Ports, Jack!PortsHaveBuffers, TwiceListed,
         NEW p \in Ports, Jack!UnregisterPort(p)
  PROVE  /\ Jack!IsClient(client') /\ (twice \subseteq Ports)'
         /\ Jack!PortsHaveBuffers' /\ TwiceListed'
<1> DEFINE s == client.ownPorts
           f == client.audioBuffers
           n == Len(s)
           t == Jack!RemoveFirst(s, p)
<1>1. s \in Seq(Ports) /\ f \in [DOMAIN f -> Sizes] /\ n \in Nat
  BY ClientShape
<1>2. Jack!IsClient(client') /\ client' = Jack!Unregistered(client, p)
  BY ClientUnregistered DEF Jack!UnregisterPort
<1>3. /\ client'.ownPorts = t /\ client'.bufferSize = client.bufferSize
      /\ client'.audioBuffers = [q \in DOMAIN f \ {p} |-> f[q]]
  BY <1>2 DEF Jack!Unregistered, Jack!BuffersWithout, Jack!Without, Jack!IsClient, Jack!Clients
<1>4. \E i \in 1..n : s[i] = p
  BY DEF Jack!UnregisterPort, Jack!Exists, Jack!Contains
<1>5. PICK k \in 1..n : /\ s[k] = p /\ t \in Seq(Ports) /\ Len(t) = n - 1
                        /\ \A i \in 1..Len(t) : t[i] = IF i < k THEN s[i] ELSE s[i + 1]
  <2> HIDE DEF s
  <2>1. s \in Seq(Ports) /\ \E i \in 1..Len(s) : s[i] = p
    BY <1>1, <1>4
  <2>2. \E k \in 1..Len(s) :
          /\ s[k] = p
          /\ Jack!RemoveFirst(s, p) \in Seq(Ports) /\ Len(Jack!RemoveFirst(s, p)) = Len(s) - 1
          /\ \A i \in 1..Len(Jack!RemoveFirst(s, p)) :
               Jack!RemoveFirst(s, p)[i] = IF i < k THEN s[i] ELSE s[i + 1]
    BY <2>1, RemoveFirstDrops
  <2> QED
    BY <2>2
<1>6. twice' = twice \intersect Jack!Range(t)
  BY <1>3 DEF Jack!UnregisterPort
<1>7. /\ \A q : q \in Jack!Range(s) <=> \E i \in 1..n : s[i] = q
      /\ \A q : q \in Jack!Range(t) <=> \E i \in 1..(n - 1) : t[i] = q
  <2> HIDE DEF s, t
  <2>1. \A q : q \in Jack!Range(s) <=> \E i \in 1..Len(s) : s[i] = q
    BY <1>1, RangeOfPorts
  <2>2. \A q : q \in Jack!Range(t) <=> \E i \in 1..Len(t) : t[i] = q
    BY <1>5, RangeOfPorts
  <2> QED
    BY <2>1, <2>2, <1>5
<1>8. \A i, j \in 1..n : i # j /\ s[i] = s[j] => s[i] \in twice
  BY DEF TwiceListed
<1>9. /\ DOMAIN f \subseteq Jack!Range(s) /\ Jack!Range(s) \ DOMAIN f \subseteq twice
      /\ \A q \in DOMAIN f : f[q] = client.bufferSize
  BY DEF Jack!PortsHaveBuffers
<1> HIDE DEF s, f, n, t
(* Where an entry of the new list was in the old one.                         *)
<1> DEFINE at(i) == IF i < k THEN i ELSE i + 1
<1>10. \A i \in 1..(n - 1) : at(i) \in 1..n /\ at(i) # k /\ t[i] = s[at(i)]
  BY <1>1, <1>5
<1>11. ASSUME NEW q \in Jack!Range(s), q # p
       PROVE  q \in Jack!Range(t)
  <2>1. PICK i \in 1..n : s[i] = q
    BY <1>7, <1>11
  <2>2. i # k
    BY <2>1, <1>5, <1>11
  <2>3. CASE i < k
    <3>1. i \in 1..(n - 1) /\ t[i] = s[i]
      BY <2>3, <1>1, <1>5
    <3> QED
      BY <2>1, <3>1, <1>7
  <2>4. CASE i > k
    <3>1. i - 1 \in 1..(n - 1) /\ ~(i - 1 < k) /\ (i - 1) + 1 = i
      BY <2>4, <1>1
    <3>2. t[i - 1] = s[(i - 1) + 1]
      BY <3>1, <1>5
    <3> QED
      BY <2>1, <3>1, <3>2, <1>7
  <2> QED
    BY <2>2, <2>3, <2>4, <1>1
<1>12. ASSUME NEW q \in Jack!Range(t)
       PROVE  q \in Jack!Range(s) /\ (q = p => q \in twice)
  <2>1. PICK i \in 1..(n - 1) : t[i] = q
    BY <1>7, <1>12
  <2>2. at(i) \in 1..n /\ at(i) # k /\ s[at(i)] = q
    BY <2>1, <1>10
  <2> HIDE DEF at
  <2>3. q \in Jack!Range(s)
    BY <2>2, <1>7
  <2>4. q = p => q \in twice
    BY <2>2, <1>5, <1>8
  <2> QED
    BY <2>3, <2>4
<1>13. Jack!PortsHaveBuffers'
  <2>1. DOMAIN client'.audioBuffers = DOMAIN f \ {p}
    BY <1>3
  <2>2. \A q \in DOMAIN f \ {p} : client'.audioBuffers[q] = client'.bufferSize
    BY <1>3, <1>9
  <2>3. DOMAIN f \ {p} \subseteq Jack!Range(t)
    BY <1>9, <1>11
  <2>4. Jack!Range(t) \ (DOMAIN f \ {p}) \subseteq twice'
    BY <1>6, <1>9, <1>12
  <2> QED
    BY <1>3, <2>1, <2>2, <2>3, <2>4 DEF Jack!PortsHaveBuffers
<1>14. TwiceListed'
  <2>1. SUFFICES ASSUME NEW i \in 1..(n - 1), NEW j \in 1..(n - 1), i # j, t[i] = t[j]
                 PROVE  t[i] \in twice'
    BY <1>3, <1>5 DEF TwiceListed
  <2>2. at(i) # at(j)
    BY <2>1, <1>1
  <2>3. /\ at(i) \in 1..n /\ t[i] = s[at(i)]
        /\ at(j) \in 1..n /\ t[j] = s[at(j)]
    BY <1>10
  <2> HIDE DEF at
  <2>4. t[i] \in twice
    BY <2>1, <2>2, <2>3, <1>8
  <2>5. t[i] \in Jack!Range(t)
    BY <1>7
  <2> QED
    BY <2>4, <2>5, <1>6
<1> QED
  BY <1>2, <1>6, <1>13, <1>14

LEMMA WireKeeps ==
  ASSUME Jack!IsClient(client), twice \subseteq Ports, Jack!PortsHaveBuffers, TwiceListed,
         NEW src \in Ports, NEW dst \in Ports, Jack!Wire(src, dst)
  PROVE  /\ Jack!IsClient(client') /\ (twice \subseteq Ports)'
         /\ Jack!PortsHaveBuffers' /\ TwiceListed'
<1>1. /\ client' \in {Jack!PortsConnected(client, src, dst), Jack!PortsDisconnected(client, src, dst),
                     Jack!AllDisconnected(client, src)}
      /\ twice' = twice
  BY DEF Jack!Wire
<1>2. Jack!IsClient(client')
  BY <1>1, ClientWired
<1>3. /\ client'.ownPorts = client.ownPorts /\ client'.audioBuffers = client.audioBuffers
      /\ client'.bufferSize = client.bufferSize
  <2>1. CASE client' = Jack!PortsConnected(client, src, dst)
    BY <2>1 DEF Jack!PortsConnected, Jack!IsClient, Jack!Clients
  <2>2. CASE client' = Jack!PortsDisconnected(client, src, dst)
    BY <2>2 DEF Jack!PortsDisconnected, Jack!IsClient, Jack!Clients
  <2>3. CASE client' = Jack!AllDisconnected(client, src)
    BY <2>3 DEF Jack!AllDisconnected, Jack!IsClient, Jack!Clients
  <2> QED
    BY <1>1, <2>1, <2>2, <2>3
<1>4. \A p \in DOMAIN client'.audioBuffers : client'.audioBuffers[p] = client'.bufferSize
  BY <1>3 DEF Jack!PortsHaveBuffers
<1> QED
  BY <1>1, <1>2, <1>3, <1>4, SamePortsKeep

(* Each port has a buffer of the current size and each buffer its port, but   *)
(* for a name created twice, for any ports, sizes and order of the calls.     *)
THEOREM PortBuffersProved ==
  HostedSpec => [](which = "jackClient" => Jack!ClientTypeOK /\ Jack!PortsHaveBuffers)
<1>1. HostedInit => PortsInv
  <2> SUFFICES ASSUME HostedInit, which = "jackClient" PROVE PortsInv
    BY DEF PortsInv
  <2>1. client = Jack!NewClient /\ twice = {}
    BY DEF HostedInit, Jack!ClientInit
  <2>2. client.ownPorts = <<>> /\ client.audioBuffers = Jack!NoEntries
    BY <2>1 DEF Jack!NewClient
  <2>3. Jack!Range(client.ownPorts) = {} /\ DOMAIN client.audioBuffers = {} /\ Len(client.ownPorts) = 0
    BY <2>2 DEF Jack!Range, Jack!NoEntries
  <2> QED
    BY <2>1, <2>3, NewClientFields DEF PortsInv, Jack!PortsHaveBuffers, TwiceListed
<1>2. PortsInv /\ [HostedNext]_hostedVars => PortsInv'
  <2> SUFFICES ASSUME PortsInv, [HostedNext]_hostedVars, which' = "jackClient"
               PROVE  PortsInv'
    BY DEF PortsInv
  <2>1. which = "jackClient"
    BY DEF HostedNext, AsioStep, JackStep, ClientStep, ListStep, MidiStep, StubStep, hostedVars
  <2>2. CASE ClientStep
    <3>1. Jack!ClientNext
      BY <2>2 DEF ClientStep
    <3> QED
      BY <2>1, <3>1, ServerKeeps, CreateKeeps, UnregisterKeeps, WireKeeps DEF PortsInv, Jack!ClientNext
  <2>3. CASE UNCHANGED jack
    BY <2>1, <2>3 DEF PortsInv, Jack!PortsHaveBuffers, TwiceListed, jack
  <2>4. ClientStep \/ UNCHANGED jack
    BY <2>1 DEF HostedNext, AsioStep, JackStep, ListStep, MidiStep, StubStep, hostedVars
  <2> QED
    BY <2>2, <2>3, <2>4
<1>3. PortsInv => (which = "jackClient" => Jack!ClientTypeOK /\ Jack!PortsHaveBuffers)
  BY DEF PortsInv, Jack!ClientTypeOK
<1> QED
  BY <1>1, <1>2, <1>3, PTL DEF HostedSpec

-----------------------------------------------------------------------------
(* The ALSA MIDI driver.  Counting the entries of a sequence.                 *)
LEMMA IndexSet ==
  ASSUME NEW n \in Nat, NEW I, I \subseteq 1..n
  PROVE  /\ IsFiniteSet(I) /\ Cardinality(I) \in Nat
         /\ Cardinality(I \union {n + 1}) = Cardinality(I) + 1
<1>1. IsFiniteSet(1..n)
  BY FS_Interval
<1>2. IsFiniteSet(I)
  BY <1>1, FS_Subset
<1>3. n + 1 \notin I
  OBVIOUS
<1> QED
  BY <1>2, <1>3, FS_AddElement, FS_CardinalityType

LEMMA SameCount == \A S : Midi!Cardinality(S) = Cardinality(S)
  BY DEF Midi!Cardinality, Cardinality

LEMMA CountOccurrences ==
  ASSUME NEW S, NEW s \in Seq(S), NEW e \in S, NEW x
  PROVE  /\ Midi!Occurrences(s, x) \in Nat
         /\ Midi!Occurrences(Append(s, e), x) = Midi!Occurrences(s, x) + IF e = x THEN 1 ELSE 0
<1> DEFINE n == Len(s)
           I == {i \in 1..n : s[i] = x}
           J == {i \in 1..(n + 1) : Append(s, e)[i] = x}
<1>1. n \in Nat /\ I \subseteq 1..n
  OBVIOUS
<1>2. J = IF e = x THEN I \union {n + 1} ELSE I
  OBVIOUS
<1>3. Len(Append(s, e)) = n + 1
  OBVIOUS
<1>4. Midi!Occurrences(s, x) = Cardinality(I) /\ Midi!Occurrences(Append(s, e), x) = Cardinality(J)
  BY <1>3, SameCount DEF Midi!Occurrences
<1> HIDE DEF n, I, J
<1>5. Cardinality(I) \in Nat /\ Cardinality(I \union {n + 1}) = Cardinality(I) + 1
  BY <1>1, IndexSet
<1> QED
  BY <1>2, <1>4, <1>5

LEMMA CountNames ==
  ASSUME NEW S, NEW s \in Seq(S), NEW e \in S, NEW x
  PROVE  /\ Midi!PortsNamed(s, x) \in Nat
         /\ Midi!PortsNamed(Append(s, e), x) = Midi!PortsNamed(s, x) + IF e.name = x THEN 1 ELSE 0
<1> DEFINE n == Len(s)
           I == {i \in 1..n : s[i].name = x}
           J == {i \in 1..(n + 1) : Append(s, e)[i].name = x}
<1>1. n \in Nat /\ I \subseteq 1..n
  OBVIOUS
<1>2. J = IF e.name = x THEN I \union {n + 1} ELSE I
  OBVIOUS
<1>3. Len(Append(s, e)) = n + 1
  OBVIOUS
<1>4. Midi!PortsNamed(s, x) = Cardinality(I) /\ Midi!PortsNamed(Append(s, e), x) = Cardinality(J)
  BY <1>3, SameCount DEF Midi!PortsNamed
<1> HIDE DEF n, I, J
<1>5. Cardinality(I) \in Nat /\ Cardinality(I \union {n + 1}) = Cardinality(I) + 1
  BY <1>1, IndexSet
<1> QED
  BY <1>2, <1>4, <1>5

LEMMA CountNone == \A x : Midi!Occurrences(<<>>, x) = 0 /\ Midi!PortsNamed(<<>>, x) = 0
<1>1. \A x : /\ {i \in 1..Len(<<>>) : <<>>[i] = x} = {}
             /\ {i \in 1..Len(<<>>) : <<>>[i].name = x} = {}
  OBVIOUS
<1> QED
  BY <1>1, SameCount, FS_EmptySet DEF Midi!Occurrences, Midi!PortsNamed

LEMMA SameRemoval ==
  ASSUME NEW s, NEW e
  PROVE  Midi!RemoveFirst(s, e) = Jack!RemoveFirst(s, e)
  BY DEF Midi!RemoveFirst, Jack!RemoveFirst, Midi!RemoveAt, Jack!RemoveAt,
         Midi!SelectInSeq, Jack!SelectInSeq, Midi!Min, Jack!Min

(* std::find and erase take one occurrence of one name: the other names keep  *)
(* their numbers.                                                             *)
LEMMA OthersRemain ==
  ASSUME NEW S, NEW s \in Seq(S), NEW e, NEW x, x # e, Midi!Contains(s, e)
  PROVE  /\ Midi!RemoveFirst(s, e) \in Seq(S)
         /\ Midi!Occurrences(Midi!RemoveFirst(s, e), x) = Midi!Occurrences(s, x)
<1> DEFINE t == Midi!RemoveFirst(s, e)
           n == Len(s)
           I == {i \in 1..n : s[i] = x}
           J == {i \in 1..(n - 1) : t[i] = x}
<1>1. n \in Nat /\ IsFiniteSet(1..n) /\ IsFiniteSet(I)
  <2>1. n \in Nat /\ I \subseteq 1..n
    OBVIOUS
  <2>2. IsFiniteSet(1..n)
    BY <2>1, FS_Interval
  <2> HIDE DEF I
  <2> QED
    BY <2>1, <2>2, FS_Subset
<1>2. t = Jack!RemoveFirst(s, e)
  BY SameRemoval
<1>3. \E i \in 1..n : s[i] = e
  BY DEF Midi!Contains
<1> HIDE DEF t
<1>4. PICK k \in 1..n : /\ s[k] = e /\ t \in Seq(S) /\ Len(t) = n - 1
                        /\ \A i \in 1..Len(t) : t[i] = IF i < k THEN s[i] ELSE s[i + 1]
  BY <1>2, <1>3, RemoveFirstDrops, SMTT(30)
<1>5. Midi!Occurrences(s, x) = Cardinality(I) /\ Midi!Occurrences(t, x) = Cardinality(J)
  BY <1>4, SameCount DEF Midi!Occurrences
<1> HIDE DEF n
(* Where an entry of the old list is in the new one.                          *)
<1> DEFINE at(i) == IF i < k THEN i ELSE i - 1
           f == [i \in I |-> at(i)]
<1>6. f \in Bijection(I, J)
  <2>1. ASSUME NEW i \in I
        PROVE  f[i] \in J /\ i # k /\ f[i] = at(i)
    <3>1. i \in 1..n /\ s[i] = x /\ i # k
      BY <1>4
    <3>2. CASE i < k
      <4>1. i \in 1..(n - 1) /\ t[i] = s[i]
        BY <3>1, <3>2, <1>1, <1>4
      <4> QED
        BY <3>1, <3>2, <4>1
    <3>3. CASE i > k
      <4>1. i - 1 \in 1..(n - 1) /\ ~(i - 1 < k) /\ (i - 1) + 1 = i
        BY <3>1, <3>3, <1>1
      <4>2. t[i - 1] = s[(i - 1) + 1]
        BY <4>1, <1>4
      <4> QED
        BY <3>1, <3>3, <4>1, <4>2
    <3> QED
      BY <3>1, <3>2, <3>3, <1>1
  <2>2. ASSUME NEW i \in I, NEW j \in I, f[i] = f[j]
        PROVE  i = j
    <3>1. i \in Int /\ j \in Int /\ k \in Int
      BY <1>1
    <3>2. at(i) = at(j) /\ i # k /\ j # k
      BY <2>1, <2>2
    <3> QED
      BY <3>1, <3>2
  <2>3. ASSUME NEW j \in J
        PROVE  \E i \in I : f[i] = j
    <3>1. CASE j < k
      <4>1. j \in I /\ at(j) = j
        BY <3>1, <1>1, <1>4
      <4> QED
        BY <4>1
    <3>2. CASE ~(j < k)
      <4>1. j + 1 \in I /\ at(j + 1) = j
        BY <3>2, <1>1, <1>4
      <4> QED
        BY <4>1
    <3> QED
      BY <3>1, <3>2
  <2>4. f \in [I -> J]
    BY <2>1
  <2> HIDE DEF f, I, J
  <2> QED
    BY <2>2, <2>3, <2>4 DEF Bijection, Injection, Surjection, IsInjective
<1> HIDE DEF f, I, J
<1>7. Cardinality(J) = Cardinality(I)
  BY <1>1, <1>6, FS_Bijection DEF ExistsBijection
<1> QED
  BY <1>4, <1>5, <1>7 DEF t

(* remove_if, entry by entry.                                                 *)
Keep(t, i, n) == IF ports[i].name = n THEN t ELSE Append(t, ports[i])

LEMMA RemovalTurns ==
  ASSUME NEW S, ports \in Seq(S), NEW n
  PROVE  \E g : /\ g[0] = <<>>
                /\ \A i \in 0..(Len(ports) - 1) : g[i + 1] = Keep(g[i], i + 1, n)
                /\ Midi!PortsWithout(n) = g[Len(ports)]
<1> DEFINE N == Len(ports)
           Loop(g, k) == g = [i \in 0..k |-> IF i = 0 THEN <<>> ELSE Keep(g[i - 1], i, n)]
           T == {k \in 0..N : ~(\E g : Loop(g, k))}
<1>1. N \in Nat
  OBVIOUS
<1>2. 0 \notin T
  <2>1. Loop([i \in 0..0 |-> <<>>], 0)
    OBVIOUS
  <2> QED
    BY <2>1
<1>3. ASSUME NEW k \in 0..(N - 1), k \notin T
      PROVE  k + 1 \notin T
  <2>1. PICK g : Loop(g, k)
    BY <1>1, <1>3
  <2> DEFINE h == [i \in 0..(k + 1) |-> IF i = k + 1 THEN Keep(g[k], k + 1, n) ELSE g[i]]
  <2>2. ASSUME NEW i \in 0..(k + 1)
        PROVE  h[i] = IF i = 0 THEN <<>> ELSE Keep(h[i - 1], i, n)
    <3>1. CASE i = k + 1
      <4>1. i # 0 /\ i - 1 = k /\ k \in 0..(k + 1) /\ k # k + 1
        BY <3>1
      <4> QED
        BY <3>1, <4>1
    <3>2. CASE i # k + 1
      <4>1. i \in 0..k /\ h[i] = g[i]
        BY <3>2
      <4>2. g[i] = IF i = 0 THEN <<>> ELSE Keep(g[i - 1], i, n)
        BY <2>1, <4>1
      <4>3. i # 0 => i - 1 \in 0..(k + 1) /\ i - 1 # k + 1
        BY <4>1
      <4> QED
        BY <4>1, <4>2, <4>3
    <3> QED
      BY <3>1, <3>2
  <2>3. Loop(h, k + 1)
    BY <2>2
  <2> QED
    BY <2>3
<1> HIDE DEF T, N
<1>4. N \notin T
  <2> HIDE DEF Loop
  <2>1. \A k \in 0..(N - 1) : k \notin T => k + 1 \notin T
    BY <1>3
  <2>2. \A k \in 0..N : k \notin T
    BY <1>1, <1>2, <2>1, NoLeastException
  <2> QED
    BY <1>1, <2>2
<1>5. \E g : Loop(g, N)
  BY <1>1, <1>4 DEF T
<1> DEFINE kept == CHOOSE g : Loop(g, N)
<1>6. Loop(kept, N)
  BY <1>5
<1>7. Midi!PortsWithout(n) = kept[N]
  BY DEF Midi!PortsWithout, Keep, N
<1> HIDE DEF kept
<1>8. \A i \in 0..N : kept[i] = IF i = 0 THEN <<>> ELSE Keep(kept[i - 1], i, n)
  BY <1>6
<1>9. ASSUME NEW i \in 0..(N - 1)
      PROVE  kept[i + 1] = Keep(kept[i], i + 1, n)
  <2>1. i + 1 \in 0..N /\ i + 1 # 0 /\ (i + 1) - 1 = i
    BY <1>1
  <2> QED
    BY <2>1, <1>8
<1>10. kept[0] = <<>>
  BY <1>1, <1>8
<1> QED
  BY <1>7, <1>9, <1>10 DEF N

(* deletePort() takes every port of the name and no other.                    *)
LEMMA NamesRemain ==
  ASSUME NEW S, ports \in Seq(S), NEW n, NEW x
  PROVE  /\ Midi!PortsWithout(n) \in Seq(S)
         /\ Midi!PortsNamed(Midi!PortsWithout(n), x) = IF x = n THEN 0 ELSE Midi!PortsNamed(ports, x)
<1> DEFINE N == Len(ports)
           first(k) == {i \in 1..k : ports[i].name = x}
<1>1. PICK g : /\ g[0] = <<>>
               /\ \A i \in 0..(N - 1) : g[i + 1] = Keep(g[i], i + 1, n)
               /\ Midi!PortsWithout(n) = g[N]
  BY RemovalTurns
<1> DEFINE Turned(k) == /\ g[k] \in Seq(S)
                        /\ Midi!PortsNamed(g[k], x) = IF x = n THEN 0 ELSE Cardinality(first(k))
           T == {k \in 0..N : ~Turned(k)}
<1>2. N \in Nat
  OBVIOUS
<1>3. 0 \notin T
  <2>1. first(0) = {} /\ Cardinality({}) = 0
    BY FS_EmptySet
  <2>2. g[0] \in Seq(S) /\ Midi!PortsNamed(g[0], x) = 0
    BY <1>1, CountNone
  <2> HIDE DEF first
  <2> QED
    BY <2>1, <2>2
<1>4. ASSUME NEW k \in 0..(N - 1), k \notin T
      PROVE  k + 1 \notin T
  <2>1. Turned(k)
    BY <1>2, <1>4
  <2>2. g[k + 1] = Keep(g[k], k + 1, n)
    BY <1>1
  <2>3. k \in Nat /\ k + 1 \in 1..N /\ ports[k + 1] \in S
    BY <1>2
  <2>4. first(k + 1) = IF ports[k + 1].name = x THEN first(k) \union {k + 1} ELSE first(k)
    BY <2>3
  <2>5. first(k) \subseteq 1..k
    OBVIOUS
  <2> HIDE DEF first
  <2>6. Cardinality(first(k)) \in Nat /\ Cardinality(first(k) \union {k + 1}) = Cardinality(first(k)) + 1
    BY <2>3, <2>5, IndexSet
  <2>7. /\ Midi!PortsNamed(g[k], x) \in Nat
        /\ Midi!PortsNamed(Append(g[k], ports[k + 1]), x)
             = Midi!PortsNamed(g[k], x) + IF ports[k + 1].name = x THEN 1 ELSE 0
    BY <2>1, <2>3, CountNames
  <2>8. CASE ports[k + 1].name = n
    <3>1. g[k + 1] = g[k]
      BY <2>2, <2>8 DEF Keep
    <3> QED
      BY <3>1, <2>1, <2>4, <2>8
  <2>9. CASE ports[k + 1].name # n
    <3>1. g[k + 1] = Append(g[k], ports[k + 1])
      BY <2>2, <2>9 DEF Keep
    <3>2. g[k + 1] \in Seq(S)
      BY <3>1, <2>1, <2>3
    <3>3. x = n => first(k + 1) = first(k) /\ Midi!PortsNamed(g[k + 1], x) = Midi!PortsNamed(g[k], x)
      BY <3>1, <2>4, <2>7, <2>9
    <3>4. x # n => /\ Cardinality(first(k + 1)) = Cardinality(first(k)) + IF ports[k + 1].name = x THEN 1 ELSE 0
                   /\ Midi!PortsNamed(g[k + 1], x) = Cardinality(first(k)) + IF ports[k + 1].name = x THEN 1 ELSE 0
      BY <3>1, <2>1, <2>4, <2>6, <2>7
    <3> QED
      BY <3>2, <3>3, <3>4, <2>1
  <2> QED
    BY <2>8, <2>9
<1> HIDE DEF T, N
<1>5. N \notin T
  <2> HIDE DEF Turned
  <2>1. \A k \in 0..(N - 1) : k \notin T => k + 1 \notin T
    BY <1>4
  <2>2. \A k \in 0..N : k \notin T
    BY <1>2, <1>3, <2>1, NoLeastException
  <2> QED
    BY <1>2, <2>2
<1>6. Turned(N)
  BY <1>2, <1>5 DEF T
<1>7. Midi!PortsNamed(ports, x) = Cardinality(first(N))
  BY SameCount DEF Midi!PortsNamed, N
<1> HIDE DEF first
<1> QED
  BY <1>1, <1>6, <1>7

PortRecords ==
  [name : PortNames \union {b.name : b \in Midi!Range(Midi!BuiltIn)}, portId : Nat,
   isInput : BOOLEAN, isOutput : BOOLEAN]

(* Created ports follow the built-in ones with the ids 0, 1, 2, ... as long   *)
(* as none is deleted, and there are none before initialize().                *)
MidiInv ==
  /\ ports \in Seq(PortRecords) /\ createdPorts \in Seq(PortNames)
  /\ ~midiInitialized => createdPorts = <<>> /\ deleted = {}
  /\ midiInitialized =>
       /\ \A n \in PortNames : Midi!PortsNamed(ports, n) <= Midi!Expected(n)
       /\ \A n \in PortNames \ deleted : Midi!PortsNamed(ports, n) = Midi!Expected(n)
       /\ deleted = {} =>
            /\ Len(ports) = Len(createdPorts) + 3
            /\ \A i \in 4..Len(ports) : ports[i].portId = i - 4

LEMMA BuiltInFacts == Midi!BuiltIn \in Seq(PortRecords) /\ Len(Midi!BuiltIn) = 3
<1> DEFINE b == Midi!BuiltIn
<1>1. Len(b) = 3 /\ b \in Seq({b[1], b[2], b[3]})
  BY DEF Midi!BuiltIn
<1>2. /\ b[1] = Midi!Port("Virtual Input", 0, TRUE, FALSE)
      /\ b[2] = Midi!Port("Virtual Output", 1, FALSE, TRUE)
      /\ b[3] = Midi!Port("USB MIDI Interface", 0, TRUE, TRUE)
  BY DEF Midi!BuiltIn
<1> HIDE DEF b
<1>3. b[1] \in Midi!Range(b) /\ b[2] \in Midi!Range(b) /\ b[3] \in Midi!Range(b)
  BY <1>1 DEF Midi!Range
<1>4. ASSUME NEW r \in Midi!Range(b), NEW name, NEW id \in Nat, NEW in \in BOOLEAN, NEW out \in BOOLEAN,
             r = Midi!Port(name, id, in, out)
      PROVE  r \in PortRecords
  BY <1>4 DEF PortRecords, Midi!Port, b
<1>5. {b[1], b[2], b[3]} \subseteq PortRecords
  BY <1>2, <1>3, <1>4
<1> QED
  BY <1>1, <1>5 DEF b

LEMMA BuiltInCount == \A n : Midi!PortsNamed(Midi!BuiltIn, n) \in Nat
<1>1. Midi!BuiltIn[1] \in PortRecords
  BY BuiltInFacts
<1> QED
  BY <1>1, BuiltInFacts, CountNames

(* createInputPort() and createOutputPort().                                  *)
LEMMA CreateMidiKeeps ==
  ASSUME MidiInv, NEW n \in PortNames, NEW in \in BOOLEAN, NEW out \in BOOLEAN, midiInitialized,
         ports' = Append(ports, Midi!Port(n, Len(createdPorts), in, out)),
         createdPorts' = Append(createdPorts, n), UNCHANGED <<midiInitialized, deleted>>
  PROVE  MidiInv'
<1> DEFINE e == Midi!Port(n, Len(createdPorts), in, out)
<1>1. ports \in Seq(PortRecords) /\ createdPorts \in Seq(PortNames)
  BY DEF MidiInv
<1>2. e \in PortRecords /\ e.name = n /\ e.portId = Len(createdPorts)
  BY <1>1 DEF Midi!Port, PortRecords
<1> HIDE DEF e
<1>3. ports' = Append(ports, e)
  BY DEF e
<1>4. ports' \in Seq(PortRecords) /\ createdPorts' \in Seq(PortNames)
  BY <1>1, <1>2, <1>3
<1>5. ASSUME NEW m \in PortNames
      PROVE  /\ Midi!PortsNamed(ports, m) \in Nat /\ Midi!Occurrences(createdPorts, m) \in Nat
             /\ Midi!PortsNamed(ports', m) = Midi!PortsNamed(ports, m) + IF n = m THEN 1 ELSE 0
             /\ Midi!Occurrences(createdPorts', m) = Midi!Occurrences(createdPorts, m) + IF n = m THEN 1 ELSE 0
  BY <1>1, <1>2, <1>3, CountNames, CountOccurrences
<1> DEFINE more(m) == IF n = m THEN 1 ELSE 0
<1>6. ASSUME NEW m \in PortNames
      PROVE  /\ Midi!PortsNamed(ports, m) \in Nat /\ Midi!Expected(m) \in Nat
             /\ Midi!PortsNamed(ports', m) = Midi!PortsNamed(ports, m) + more(m)
             /\ Midi!Expected(m)' = Midi!Expected(m) + more(m)
  BY <1>5, BuiltInCount, SMTT(30) DEF Midi!Expected
<1>7. \A m \in PortNames : Midi!PortsNamed(ports', m) <= Midi!Expected(m)'
  BY <1>6 DEF MidiInv
<1>8. \A m \in PortNames \ deleted : Midi!PortsNamed(ports', m) = Midi!Expected(m)'
  BY <1>6 DEF MidiInv
<1>9. ASSUME deleted = {}
      PROVE  /\ Len(ports') = Len(createdPorts') + 3
             /\ \A i \in 4..Len(ports') : ports'[i].portId = i - 4
  <2>1. /\ Len(ports) = Len(createdPorts) + 3
        /\ \A i \in 4..Len(ports) : ports[i].portId = i - 4
    BY <1>9 DEF MidiInv
  <2>2. Len(ports') = Len(ports) + 1 /\ Len(createdPorts') = Len(createdPorts) + 1
    BY <1>1, <1>3
  <2>3. \A i \in 1..(Len(ports) + 1) : ports'[i] = IF i <= Len(ports) THEN ports[i] ELSE e
    BY <1>1, <1>3
  <2>4. Len(ports) \in Nat /\ Len(createdPorts) \in Nat
    BY <1>1
  <2>5. ASSUME NEW i \in 4..(Len(ports) + 1)
        PROVE  ports'[i].portId = i - 4
    <3>1. i \in 1..(Len(ports) + 1)
      BY <2>4
    <3>2. CASE i <= Len(ports)
      BY <3>1, <3>2, <2>1, <2>3, <2>4
    <3>3. CASE ~(i <= Len(ports))
      BY <3>1, <3>3, <2>1, <2>3, <2>4, <1>2
    <3> QED
      BY <3>2, <3>3
  <2> QED
    BY <2>1, <2>2, <2>4, <2>5
<1> QED
  BY <1>4, <1>7, <1>8, <1>9 DEF MidiInv

LEMMA DeleteKeeps ==
  ASSUME MidiInv, NEW n \in PortNames, Midi!DeletePort(n)
  PROVE  MidiInv'
<1>1. ports \in Seq(PortRecords) /\ createdPorts \in Seq(PortNames)
  BY DEF MidiInv
<1>2. /\ Midi!Contains(createdPorts, n) /\ createdPorts' = Midi!RemoveFirst(createdPorts, n)
      /\ ports' = Midi!PortsWithout(n) /\ deleted' = deleted \union {n}
      /\ UNCHANGED midiInitialized
  BY DEF Midi!DeletePort
<1>3. midiInitialized
  <2>1. createdPorts # <<>>
    BY <1>2 DEF Midi!Contains
  <2> QED
    BY <2>1 DEF MidiInv
<1>4. /\ ports' \in Seq(PortRecords)
      /\ \A m : Midi!PortsNamed(ports', m) = IF m = n THEN 0 ELSE Midi!PortsNamed(ports, m)
  BY <1>1, <1>2, NamesRemain
<1>5. createdPorts' \in Seq(PortNames)
  <2>1. \E i \in 1..Len(createdPorts) : createdPorts[i] = n
    BY <1>2 DEF Midi!Contains
  <2>2. Midi!RemoveFirst(createdPorts, n) = Jack!RemoveFirst(createdPorts, n)
    BY SameRemoval
  <2> QED
    BY <1>1, <1>2, <2>1, <2>2, RemoveFirstDrops
<1>6. \A m \in PortNames : m # n => Midi!Occurrences(createdPorts', m) = Midi!Occurrences(createdPorts, m)
  BY <1>1, <1>2, OthersRemain
<1>7. Midi!Occurrences(createdPorts', n) \in Nat
  BY <1>5, CountOccurrences
<1>8. \A m \in PortNames : Midi!PortsNamed(ports', m) <= Midi!Expected(m)'
  BY <1>3, <1>4, <1>6, <1>7, BuiltInCount, SMTT(30) DEF MidiInv, Midi!Expected
<1>9. \A m \in PortNames \ deleted' : Midi!PortsNamed(ports', m) = Midi!Expected(m)'
  BY <1>2, <1>3, <1>4, <1>6 DEF MidiInv, Midi!Expected
<1> QED
  BY <1>2, <1>3, <1>4, <1>5, <1>8, <1>9 DEF MidiInv

LEMMA MidiKeeps ==
  ASSUME MidiInv, Midi!MidiNext
  PROVE  MidiInv'
<1>1. CASE Midi!InitializeMidi
  <2>1. /\ ~midiInitialized /\ midiInitialized' = TRUE /\ ports' = Midi!BuiltIn
        /\ UNCHANGED <<createdPorts, deleted>>
    BY <1>1 DEF Midi!InitializeMidi
  <2>2. createdPorts = <<>> /\ deleted = {}
    BY <2>1 DEF MidiInv
  <2>3. \A n : Midi!Expected(n)' = Midi!PortsNamed(ports', n)
    BY BuiltInCount, <2>1, <2>2, CountNone DEF Midi!Expected
  <2>4. \A n : Midi!PortsNamed(ports', n) <= Midi!PortsNamed(ports', n)
    BY BuiltInCount, <2>1
  <2>5. /\ ports' \in Seq(PortRecords) /\ createdPorts' \in Seq(PortNames)
        /\ Len(ports') = Len(createdPorts') + 3 /\ 4..Len(ports') = {}
    BY <2>1, <2>2, BuiltInFacts
  <2> QED
    BY <2>1, <2>3, <2>4, <2>5 DEF MidiInv
<1>2. CASE Midi!ShutdownMidi
  BY <1>2 DEF Midi!ShutdownMidi, MidiInv
<1>3. CASE \E n \in PortNames : Midi!CreateInputPort(n) \/ Midi!CreateOutputPort(n)
  BY <1>3, CreateMidiKeeps DEF Midi!CreateInputPort, Midi!CreateOutputPort
<1>4. CASE \E n \in PortNames : Midi!DeletePort(n)
  BY <1>4, DeleteKeeps
<1>5. CASE UNCHANGED <<midiInitialized, ports, createdPorts, deleted>>
  BY <1>5 DEF MidiInv, Midi!Expected
<1>6. ASSUME NEW n \in PortNames, \/ Midi!ConnectInput(n) \/ Midi!ConnectOutput(n)
                                  \/ Midi!DisconnectInput(n) \/ Midi!DisconnectOutput(n)
      PROVE  UNCHANGED <<midiInitialized, ports, createdPorts, deleted>>
  BY <1>6 DEF Midi!ConnectInput, Midi!ConnectOutput, Midi!DisconnectInput, Midi!DisconnectOutput
<1>7. CASE Midi!StartStop
  BY <1>7, <1>5 DEF Midi!StartStop
<1> QED
  BY <1>1, <1>2, <1>3, <1>4, <1>5, <1>6, <1>7 DEF Midi!MidiNext

(* The ALSA MIDI driver's list of ports agrees with the names of the ports it *)
(* created, for any names and order of the calls.                             *)
THEOREM PortListProved == HostedSpec => []Midi!PortListAgrees
<1>1. HostedInit => MidiInv
  BY DEF HostedInit, Midi!MidiInit, MidiInv
<1>2. MidiInv /\ [HostedNext]_hostedVars => MidiInv'
  <2> SUFFICES ASSUME MidiInv, [HostedNext]_hostedVars PROVE MidiInv'
    OBVIOUS
  <2>1. CASE MidiStep
    BY <2>1, MidiKeeps DEF MidiStep
  <2>2. CASE UNCHANGED midi
    BY <2>2 DEF midi, MidiInv, Midi!Expected
  <2> QED
    BY <2>1, <2>2 DEF HostedNext, AsioStep, JackStep, ClientStep, ListStep, StubStep, hostedVars
<1>3. MidiInv => Midi!PortListAgrees
  <2> SUFFICES ASSUME MidiInv, midiInitialized, deleted = {},
                      NEW i \in 4..Len(ports), NEW j \in 4..Len(ports),
                      ports[i].portId = ports[j].portId
               PROVE  i = j
    BY DEF MidiInv, Midi!PortListAgrees
  <2>1. i - 4 = j - 4
    BY DEF MidiInv
  <2> QED
    BY <2>1
<1> QED
  BY <1>1, <1>2, <1>3, PTL DEF HostedSpec

(* The ports of both drivers, in one.                                         *)
THEOREM PortsProved == HostedSpec => []PortsAgree
  BY PortBuffersProved, PortListProved, PTL DEF PortsAgree

-----------------------------------------------------------------------------
(* The stubs.  Only the dummy has buffers: start() makes them fit the         *)
(* configuration, which does not change while it runs.                        *)
StubInv ==
  /\ stub \in Stub!Stubs /\ config \in Stub!Configs
  /\ inputBuffer \in Nat /\ outputBuffer \in Nat
  /\ Stub!RunningConfigFits

LEMMA StubInitEstablishes ==
  ASSUME Stub!StubInit
  PROVE  StubInv
  BY DEF Stub!StubInit, StubInv, Stub!RunningConfigFits

LEMMA ProductNat == \A a, b \in Nat : a * b \in Nat
  OBVIOUS

LEMMA StubKeeps ==
  ASSUME StubInv, Stub!StubNext
  PROVE  StubInv'
<1> USE DEF StubInv, Stub!RunningConfigFits, Stub!IsDummy
<1>1. config.bufferSize \in Nat /\ config.inputs \in Nat /\ config.outputs \in Nat
  BY HostedAssumption DEF Stub!Configs
<1> DEFINE in == config.bufferSize * config.inputs
           out == config.bufferSize * config.outputs
<1>2. in \in Nat /\ out \in Nat
  BY <1>1, ProductNat
<1>3. CASE Stub!Initialize \/ Stub!Shutdown \/ Stub!Stop \/ Stub!ResetStatistics
  BY <1>3 DEF Stub!Initialize, Stub!Shutdown, Stub!Stop, Stub!ResetStatistics, Stub!counters
<1>4. CASE Stub!Start
  <2>1. /\ UNCHANGED <<stub, config>>
        /\ inputBuffer' = IF Stub!IsDummy THEN in ELSE inputBuffer
        /\ outputBuffer' = IF Stub!IsDummy THEN out ELSE outputBuffer
    BY <1>4 DEF Stub!Start
  <2> QED
    BY <1>2, <2>1
<1>5. CASE \E c \in Stub!Configs : Stub!Configure(c)
  <2>1. UNCHANGED <<stub, state, inputBuffer, outputBuffer>> /\ config' \in Stub!Configs
    BY <1>5 DEF Stub!Configure
  <2>2. ~(Stub!IsDummy /\ state = "Running")
    BY <1>5 DEF Stub!Configure, Stub!MayConfigure
  <2> QED
    BY <2>1, <2>2
<1>6. CASE \E frames \in FrameCounts : Stub!ProcessBlock(frames)
  <2>1. PICK frames \in FrameCounts : Stub!ProcessBlock(frames)
    BY <1>6
  <2>2. \A size, n \in Nat : \A channels \in Nat :
          LET grown == Stub!AtLeast(size, n, channels) IN grown \in Nat /\ size <= grown
    BY ProductNat DEF Stub!AtLeast
  <2>3. frames \in Nat
    BY HostedAssumption
  <2>4. /\ UNCHANGED <<stub, state, config>>
        /\ inputBuffer' = Stub!AtLeast(inputBuffer, frames, config.inputs)
        /\ outputBuffer' = Stub!AtLeast(outputBuffer, frames, config.outputs)
    BY <2>1 DEF Stub!ProcessBlock
  <2>5. /\ inputBuffer' \in Nat /\ inputBuffer <= inputBuffer'
        /\ outputBuffer' \in Nat /\ outputBuffer <= outputBuffer'
    BY <1>1, <2>2, <2>3, <2>4
  <2>6. Stub!IsDummy /\ state = "Running" => in <= inputBuffer /\ out <= outputBuffer
    BY <1>2
  <2> QED
    BY <1>2, <2>4, <2>5, <2>6
<1> QED
  BY <1>3, <1>4, <1>5, <1>6 DEF Stub!StubNext

(* JACK's driver and client agree on what runs and how long a block is, and   *)
(* a running dummy has room for one, for any sizes and order of the calls.    *)
THEOREM StreamsProved == HostedSpec => []StreamsFit
<1> DEFINE Inv == JackInv /\ StubInv
<1>1. HostedInit => Inv
  <2> SUFFICES ASSUME HostedInit PROVE Inv
    OBVIOUS
  <2>1. StubInv
    BY StubInitEstablishes DEF HostedInit
  <2>2. CASE which = "jack"
    <3>1. client = NoClient /\ Jack!DriverInit
      BY <2>2 DEF HostedInit, Jack!JackInit
    <3> QED
      BY <2>1, <3>1, HostedAssumption DEF Jack!DriverInit, JackInv, DriverTyped, Attached, Jack!HasClient
  <2> QED
    BY <2>1, <2>2 DEF JackInv
<1>2. Inv /\ [HostedNext]_hostedVars => Inv'
  <2> SUFFICES ASSUME Inv, [HostedNext]_hostedVars PROVE Inv'
    OBVIOUS
  <2>1. JackInv'
    <3> SUFFICES ASSUME which' = "jack" PROVE (DriverTyped /\ Attached)'
      BY DEF JackInv
    <3>1. which = "jack" /\ DriverTyped /\ Attached
      BY DEF HostedNext, AsioStep, JackStep, ClientStep, ListStep, MidiStep, StubStep, hostedVars, JackInv
    <3>2. CASE JackStep
      BY <3>1, <3>2, JackKeeps DEF JackStep
    <3>3. CASE UNCHANGED jack
      BY <3>1, <3>3 DEF jack, jackDriver, DriverTyped, Attached, Jack!HasClient
    <3>4. JackStep \/ UNCHANGED jack
      BY <3>1 DEF HostedNext, AsioStep, ClientStep, ListStep, MidiStep, StubStep, hostedVars
    <3> QED
      BY <3>2, <3>3, <3>4
  <2>2. StubInv'
    <3>1. CASE StubStep
      BY <3>1, StubKeeps DEF StubStep
    <3>2. CASE UNCHANGED stubs
      BY <3>2 DEF stubs, StubInv, Stub!RunningConfigFits, Stub!IsDummy
    <3>3. StubStep \/ UNCHANGED stubs
      BY DEF HostedNext, AsioStep, JackStep, ClientStep, ListStep, MidiStep, hostedVars
    <3> QED
      BY <3>1, <3>2, <3>3
  <2> QED
    BY <2>1, <2>2
<1>3. Inv => StreamsFit
  <2> SUFFICES ASSUME Inv PROVE StreamsFit
    OBVIOUS
  <2>1. which = "jack" => Jack!DriverMatchesClient
    BY DEF JackInv, Attached, DriverTyped, Jack!DriverMatchesClient, Jack!RunningIsActive,
           Jack!BuffersFit, Jack!HasClient
  <2> QED
    BY <2>1 DEF StreamsFit, StubInv
<1> QED
  BY <1>1, <1>2, <1>3, PTL DEF HostedSpec
=============================================================================
