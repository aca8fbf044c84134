-------------------------- MODULE AudioThreadDriver --------------------------
(***************************************************************************)
(* The drivers that own an audio thread and call the application from it   *)
(* (src/src/drivers): AlsaDriver and CoreAudioDriver, whose thread is the  *)
(* same code (mode "native"), and NullAudioDriver in its three processing  *)
(* modes ("realtime", "fast" for AsFastAsPossible, "manual").              *)
(*                                                                         *)
(* One application thread controls the driver; the callback itself calls   *)
(* no method of the driver.  callbackMutex is explicit: both threads keep  *)
(* it over a call of the application.                                      *)
(***************************************************************************)
EXTENDS Integers

CONSTANTS
  Callbacks,   (* the functions the application may install                   *)
  NoCallback,  (* std::function without a target                              *)
  Modes        (* the modes a driver may begin with                           *)

NullModes == {"realtime", "fast", "manual"}

ASSUME DriverAssumption ==
  /\ NoCallback \notin Callbacks
  /\ Modes \subseteq {"native"} \union NullModes

VARIABLES
  initialized, running, threadRunning,  (* the atomics of Impl                *)
  audioCallback,  (* Impl::audioCallback                                      *)
  mode,           (* which driver, and NullAudioDriver's processingMode       *)
  joinable,       (* the std::thread is joinable                              *)
  mutex,          (* who holds callbackMutex: "app", "thread" or "free"       *)
  thread,         (* where the audio thread is                                *)
  pc,             (* where the application is                                 *)
  calling         (* the callback each of the two is in, or NoCallback        *)

flags == <<initialized, running, threadRunning>>
vars == <<flags, audioCallback, mode, joinable, mutex, thread, pc, calling>>

(* none: no thread.  test: the loop condition.  check: if (running) of the    *)
(* realtime loop.  lock: wants callbackMutex.  locked: has it.  sleep: the    *)
(* pause at the end of a turn.  exited: the thread function returned.         *)
ThreadLocations == {"none", "test", "check", "lock", "locked", "call", "sleep", "exited"}

(* idle: in no method.  stop, join: in stop(), running cleared, threadRunning *)
(* cleared; closeStop, closeJoin: the same within shutdown() or the           *)
(* destructor.  call: in the callback of processBlock().                      *)
AppLocations == {"idle", "stop", "join", "closeStop", "closeJoin", "call"}

(* Who holds callbackMutex: the two loops keep it over a call of the          *)
(* application, the native loop over its sleep too.                           *)
HolderOfMutex ==
  IF pc = "call" THEN "app"
  ELSE IF thread \in {"locked", "call"} \/ (thread = "sleep" /\ mode = "native") THEN "thread"
  ELSE "free"

TypeOK ==
  /\ initialized \in BOOLEAN /\ running \in BOOLEAN /\ threadRunning \in BOOLEAN
  /\ audioCallback \in Callbacks \union {NoCallback}
  /\ mode \in {"native"} \union NullModes
  /\ joinable \in BOOLEAN
  /\ thread \in ThreadLocations
  /\ pc \in AppLocations
  /\ calling \in [{"app", "thread"} -> Callbacks \union {NoCallback}]
  /\ mutex = HolderOfMutex

Init ==
  /\ initialized = FALSE /\ running = FALSE /\ threadRunning = FALSE
  /\ audioCallback = NoCallback
  /\ mode \in Modes
  /\ joinable = FALSE
  /\ mutex = "free"
  /\ thread = "none" /\ pc = "idle"
  /\ calling = [t \in {"app", "thread"} |-> NoCallback]

-----------------------------------------------------------------------------
(* Faulty variants of definitions below, used by no action.                   *)
JoinAtOnce == TRUE
StopKeepsLooping == threadRunning
SetWithoutLock == TRUE
FlagNotSet == threadRunning

CanLock == mutex = "free"

(* The lock of setAudioCallback().                                            *)
CanSetCallback == CanLock

(* std::thread::join().                                                       *)
CanJoin == thread = "exited"

(* What start() and stop() leave in threadRunning.                            *)
StartedFlag == TRUE
StoppedFlag == FALSE

Initialize ==
  /\ pc = "idle" /\ ~initialized
  /\ initialized' = TRUE
  /\ UNCHANGED <<running, threadRunning, audioCallback, mode, joinable, mutex, thread, pc,
                 calling>>

(* start(); in manual mode no thread is launched.                             *)
Start ==
  /\ pc = "idle" /\ initialized /\ ~running
  /\ running' = TRUE
  /\ IF mode = "manual" THEN UNCHANGED <<threadRunning, thread, joinable>>
                        ELSE threadRunning' = StartedFlag /\ thread' = "test" /\ joinable' = TRUE
  /\ UNCHANGED <<initialized, audioCallback, mode, mutex, pc, calling>>

(* stop() while running.                                                      *)
Stop ==
  /\ pc = "idle" /\ running
  /\ running' = FALSE
  /\ pc' \in {"stop", "closeStop"}
  /\ UNCHANGED <<initialized, threadRunning, audioCallback, mode, joinable, mutex, thread,
                 calling>>

StopThread ==
  /\ \/ pc = "stop" /\ pc' = "join"
     \/ pc = "closeStop" /\ pc' = "closeJoin"
  /\ threadRunning' = StoppedFlag
  /\ UNCHANGED <<initialized, running, audioCallback, mode, joinable, mutex, thread, calling>>

(* The join, when there is a thread; shutdown() then forgets initialize().    *)
Join ==
  /\ pc \in {"join", "closeJoin"}
  /\ joinable => CanJoin
  /\ joinable' = FALSE
  /\ initialized' = (initialized /\ pc = "join")
  /\ pc' = "idle"
  /\ UNCHANGED <<running, threadRunning, audioCallback, mode, mutex, thread, calling>>

(* shutdown() of a driver that is not running.                                *)
Shutdown ==
  /\ pc = "idle" /\ ~running
  /\ initialized' = FALSE
  /\ UNCHANGED <<running, threadRunning, audioCallback, mode, joinable, mutex, thread, pc,
                 calling>>

SetAudioCallback ==
  /\ pc = "idle" /\ CanSetCallback
  /\ audioCallback' \in Callbacks \union {NoCallback}
  /\ UNCHANGED <<flags, mode, joinable, mutex, thread, pc, calling>>

SetProcessingMode ==
  /\ pc = "idle" /\ ~running /\ mode # "native"
  /\ mode' \in NullModes
  /\ UNCHANGED <<flags, audioCallback, joinable, mutex, thread, pc, calling>>

(* processBlock() in manual mode, running or not, with a callback to call.    *)
ProcessBlock ==
  /\ pc = "idle" /\ mode = "manual" /\ CanLock /\ audioCallback # NoCallback
  /\ pc' = "call" /\ mutex' = "app"
  /\ calling' = [calling EXCEPT !["app"] = audioCallback]
  /\ UNCHANGED <<flags, audioCallback, mode, joinable, thread>>

ProcessBlockEnd ==
  /\ pc = "call"
  /\ pc' = "idle" /\ mutex' = "free"
  /\ calling' = [calling EXCEPT !["app"] = NoCallback]
  /\ UNCHANGED <<flags, audioCallback, mode, joinable, thread>>

-----------------------------------------------------------------------------
(* The audio thread.                                                          *)
Move(from, to) == thread = from /\ thread' = to

(* The loop condition: the fast loop looks at running too.                    *)
GoesOn == threadRunning /\ (mode = "fast" => running)

LoopTest ==
  /\ \/ Move("test", "exited") /\ ~GoesOn
     \/ Move("test", IF mode = "realtime" THEN "check" ELSE "lock") /\ GoesOn
  /\ UNCHANGED <<flags, audioCallback, mode, joinable, mutex, pc, calling>>

(* The realtime loop tests running before it takes the mutex.                 *)
Check ==
  /\ Move("check", IF running THEN "lock" ELSE "sleep")
  /\ UNCHANGED <<flags, audioCallback, mode, joinable, mutex, pc, calling>>

Lock ==
  /\ Move("lock", "locked") /\ CanLock
  /\ mutex' = "thread"
  /\ UNCHANGED <<flags, audioCallback, mode, joinable, pc, calling>>

(* The native loop tests running with the mutex.                              *)
WillCall == audioCallback # NoCallback /\ (mode = "native" => running)

CallBegin ==
  /\ Move("locked", "call") /\ WillCall
  /\ calling' = [calling EXCEPT !["thread"] = audioCallback]
  /\ UNCHANGED <<flags, audioCallback, mode, joinable, mutex, pc>>

(* The callback returned or was not called.  The native loop sleeps with the  *)
(* mutex, the realtime loop without it, the fast loop not at all.             *)
CallEnd ==
  /\ thread = "call" \/ (thread = "locked" /\ ~WillCall)
  /\ thread' = IF mode = "fast" THEN "test" ELSE "sleep"
  /\ mutex' = IF mode = "native" THEN "thread" ELSE "free"
  /\ calling' = [calling EXCEPT !["thread"] = NoCallback]
  /\ UNCHANGED <<flags, audioCallback, mode, joinable, pc>>

Wake ==
  /\ Move("sleep", "test")
  /\ mutex' = IF mutex = "thread" THEN "free" ELSE mutex
  /\ UNCHANGED <<flags, audioCallback, mode, joinable, pc, calling>>

Thread == LoopTest \/ Check \/ Lock \/ CallBegin \/ CallEnd \/ Wake

Finish == StopThread \/ Join \/ ProcessBlockEnd

Next ==
  \/ Initialize \/ Start \/ Stop \/ Shutdown \/ SetAudioCallback \/ SetProcessingMode
  \/ ProcessBlock \/ Finish \/ Thread

Spec == Init /\ [][Next]_vars

(* Both threads are scheduled and callbacks return.                           *)
FairSpec == Spec /\ WF_vars(Thread) /\ WF_vars(Finish)

-----------------------------------------------------------------------------
(* After stop() has returned, nothing of the driver runs: the audio thread is *)
(* gone, joined, in no callback, and holds no mutex.  shutdown(), the         *)
(* destructor and the next start() rely on it.                                *)
QuietAfterStop ==
  ~running /\ pc \in {"idle", "call"} => /\ thread \in {"none", "exited"} /\ ~joinable
                                         /\ calling["thread"] = NoCallback

(* A callback that was replaced is never running: once setAudioCallback() has *)
(* returned, what the old callback uses may be destroyed.                     *)
OnlyInstalledCallbackRuns ==
  \A t \in {"app", "thread"} : calling[t] \in {NoCallback, audioCallback}

(* How far start() and stop() have come.                                      *)
Stage ==
  IF pc \in {"stop", "join", "closeStop", "closeJoin"} THEN "stopping"
  ELSE IF running THEN "running"
  ELSE IF initialized THEN "ready" ELSE "closed"

Promised == INSTANCE CallbackDriver WITH
  Functions <- Callbacks, NoFunction <- NoCallback, Waits <- TRUE,
  state <- Stage, installed <- audioCallback, called <- calling, overdue <- FALSE

(* The three drivers call as CallbackDriver promises: one call at a time, of  *)
(* the installed callback, and none is under way when stop() returns, however *)
(* the loops take callbackMutex and look at their flags.                      *)
IsCallbackDriver == Promised!DriverSpec

(* stop() and shutdown() return although the thread may be asleep, waiting    *)
(* for the mutex or in the callback.                                          *)
StopReturns == pc # "idle" ~> pc = "idle"

(* A running driver serves its callback: start() leaves a thread that calls   *)
(* it, whichever mode it was stopped and restarted in.                        *)
CallbackServed ==
  running /\ mode # "manual" /\ audioCallback # NoCallback
    ~> thread = "call" \/ ~running \/ audioCallback = NoCallback
=============================================================================
