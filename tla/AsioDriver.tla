------------------------------ MODULE AsioDriver ------------------------------
(***************************************************************************)
(* ASIODriver and ASIOBufferSwitch (src/src/drivers/asio).  The driver     *)
(* owns no thread: the ASIO host calls bufferSwitch() from its own.  Two   *)
(* mutexes guard the two callbacks, the driver's and the switch's, and the *)
(* two threads take them in opposite orders.                               *)
(*                                                                         *)
(* Left out: sample data, formats, latencies, clock sources, and the       *)
(* message callbacks, which the driver never installs.                     *)
(***************************************************************************)
EXTENDS Integers

CONSTANTS AsioCallbacks, NoAsioCallback, MaxSwitches

VARIABLES
  driverLoaded, driverRunning,   (* ASIODriver::Impl                             *)
  switchRunning,                 (* ASIOBufferSwitch::Impl::running              *)
  asioCallback, lambdaSet,       (* the two callbacks; the switch's is a lambda  *)
  driverMutex, switchMutex,      (* "free", "app" or "host"                      *)
  app, host,                     (* where the two threads are                    *)
  inCallback,                    (* the callback the host is in                  *)
  switchCount, samplePosition,   (* counted in blocks                            *)
  positionRead,                  (* what the host has read of samplePosition     *)
  late,                          (* history: calls begun since stop()            *)
  admitted,                      (* history: switches let in since start(), with *)
                                 (* one that was still under way                 *)
  resetCrossed                   (* history: start() reset the position between  *)
                                 (* the host's reading and writing of it         *)

states == <<driverLoaded, driverRunning, switchRunning>>
mutexes == <<driverMutex, switchMutex>>
position == <<samplePosition, positionRead, resetCrossed>>
counts == <<switchCount, position, late, admitted>>
asioVars == <<states, asioCallback, lambdaSet, mutexes, app, host, inCallback, counts>>

(* install: setAudioCallback() holds the driver's mutex and wants the         *)
(* switch's.  starting, stopping: between the two flags.  zeroing: the switch *)
(* runs and its count is not yet reset.                                       *)
AppLocations == {"idle", "install", "starting", "zeroing", "stopping", "unloading", "reloading"}

(* entered: bufferSwitch() passed its test.  counted: it wants the switch's   *)
(* mutex.  lambda: it holds it and wants the driver's.  adding: the callback  *)
(* has returned and the position is read, not yet written.                    *)
HostLocations == {"idle", "entered", "counted", "lambda", "call", "adding"}

AsioTypeOK ==
  /\ driverLoaded \in BOOLEAN /\ driverRunning \in BOOLEAN /\ switchRunning \in BOOLEAN
  /\ lambdaSet \in BOOLEAN /\ asioCallback \in AsioCallbacks \union {NoAsioCallback}
  /\ app \in AppLocations /\ host \in HostLocations
  /\ driverMutex = (IF app = "install" THEN "app"
                    ELSE IF host \in {"call", "adding"} THEN "host" ELSE "free")
  /\ switchMutex = (IF host \in {"lambda", "call", "adding"} THEN "host" ELSE "free")

Init ==
  /\ driverLoaded = FALSE /\ driverRunning = FALSE /\ switchRunning = FALSE
  /\ lambdaSet = FALSE
  /\ asioCallback = NoAsioCallback /\ inCallback = NoAsioCallback
  /\ driverMutex = "free" /\ switchMutex = "free"
  /\ app = "idle" /\ host = "idle"
  /\ switchCount = 0 /\ samplePosition = 0 /\ positionRead = 0
  /\ late = 0 /\ admitted = 0 /\ resetCrossed = FALSE

-----------------------------------------------------------------------------
(* Faulty variants of definitions below, used by no action.                   *)
SwitchUntested == TRUE
ReplaceUnlocked == TRUE
LeakSwitch == "host"
CountKept == switchCount

(* The test at the head of bufferSwitch().                                    *)
Accepts == switchRunning

CanReplace == driverMutex = "free"
MutexAfterCall == "free"
CountAtStart == 0

AppTo(from, to) == app = from /\ app' = to
HostTo(from, to) == host = from /\ host' = to

(* loadDriver() of a driver that does not run: an earlier one is unloaded.    *)
LoadDriver ==
  /\ app = "idle" /\ ~driverRunning
  /\ driverLoaded' = TRUE
  /\ UNCHANGED <<driverRunning, switchRunning, asioCallback, lambdaSet, mutexes, app, host,
                 inCallback, counts>>

UnloadDriver ==
  /\ app = "idle" /\ driverLoaded /\ ~driverRunning
  /\ driverLoaded' = FALSE
  /\ UNCHANGED <<driverRunning, switchRunning, asioCallback, lambdaSet, mutexes, app, host,
                 inCallback, counts>>

(* start() resets the position, which is no atomic and which no mutex guards, *)
(* and sets the driver's flag, which the host never reads.                    *)
Start ==
  /\ AppTo("idle", "starting") /\ driverLoaded /\ ~driverRunning
  /\ driverRunning' = TRUE
  /\ samplePosition' = 0
  /\ resetCrossed' = (host = "adding")
  /\ admitted' = IF host = "idle" THEN 0 ELSE 1
  /\ UNCHANGED <<driverLoaded, switchRunning, asioCallback, lambdaSet, mutexes, host, inCallback,
                 switchCount, positionRead, late>>

(* ASIOBufferSwitch::start() lets the host in before it resets the count.     *)
StartSwitch ==
  /\ AppTo("starting", "zeroing")
  /\ switchRunning' = TRUE /\ late' = 0
  /\ UNCHANGED <<driverLoaded, driverRunning, asioCallback, lambdaSet, mutexes, host, inCallback,
                 switchCount, position, admitted>>

ZeroCount ==
  /\ AppTo("zeroing", "idle")
  /\ switchCount' = CountAtStart
  /\ UNCHANGED <<states, asioCallback, lambdaSet, mutexes, host, inCallback, position, late,
                 admitted>>

(* Any thread may reset the statistics, at any moment.                        *)
ResetStatistics ==
  /\ switchCount' = 0
  /\ UNCHANGED <<states, asioCallback, lambdaSet, mutexes, app, host, inCallback, position, late,
                 admitted>>

(* stop(), or the stop() in unloadDriver(), shutdown() and loadDriver().      *)
StopSwitch ==
  /\ app = "idle" /\ driverRunning
  /\ app' \in {"stopping"} \union (IF driverLoaded THEN {"unloading", "reloading"} ELSE {})
  /\ switchRunning' = FALSE
  /\ UNCHANGED <<driverLoaded, driverRunning, asioCallback, lambdaSet, mutexes, host, inCallback,
                 counts>>

Stopped ==
  /\ app \in {"stopping", "unloading", "reloading"} /\ app' = "idle"
  /\ driverRunning' = FALSE
  /\ driverLoaded' = (app # "unloading" /\ driverLoaded)
  /\ UNCHANGED <<switchRunning, asioCallback, lambdaSet, mutexes, host, inCallback, counts>>

(* setAudioCallback(): the callback is replaced under the driver's mutex, and *)
(* still under it the lambda under the switch's.                              *)
SetAudioCallback ==
  /\ AppTo("idle", "install") /\ CanReplace
  /\ driverMutex' = "app"
  /\ asioCallback' \in AsioCallbacks \union {NoAsioCallback}
  /\ UNCHANGED <<states, lambdaSet, switchMutex, host, inCallback, counts>>

SetProcessCallback ==
  /\ AppTo("install", "idle") /\ switchMutex = "free"
  /\ lambdaSet' = TRUE /\ driverMutex' = "free"
  /\ UNCHANGED <<states, asioCallback, switchMutex, host, inCallback, counts>>

-----------------------------------------------------------------------------
(* The host's thread.  MaxSwitches bounds the switches let in since start()   *)
(* and the blocks counted since the position was reset.                       *)
BufferSwitch ==
  /\ HostTo("idle", "entered") /\ Accepts
  /\ admitted < MaxSwitches /\ samplePosition < MaxSwitches
  /\ admitted' = admitted + 1
  /\ UNCHANGED <<states, asioCallback, lambdaSet, mutexes, app, inCallback, switchCount, position,
                 late>>

CountSwitch ==
  /\ HostTo("entered", "counted")
  /\ switchCount' = switchCount + 1
  /\ UNCHANGED <<states, asioCallback, lambdaSet, mutexes, app, inCallback, position, late,
                 admitted>>

EnterLambda ==
  /\ host = "counted" /\ switchMutex = "free"
  /\ host' = IF lambdaSet THEN "lambda" ELSE "idle"
  /\ switchMutex' = IF lambdaSet THEN "host" ELSE "free"
  /\ UNCHANGED <<states, asioCallback, lambdaSet, driverMutex, app, inCallback, counts>>

CallBegin ==
  /\ HostTo("lambda", "call") /\ driverMutex = "free" /\ asioCallback # NoAsioCallback
  /\ driverMutex' = "host" /\ inCallback' = asioCallback
  /\ late' = IF app = "idle" /\ ~driverRunning THEN late + 1 ELSE late
  /\ UNCHANGED <<states, asioCallback, lambdaSet, switchMutex, app, switchCount, position, admitted>>

NothingToCall ==
  /\ HostTo("lambda", "idle") /\ driverMutex = "free" /\ asioCallback = NoAsioCallback
  /\ switchMutex' = "free"
  /\ UNCHANGED <<states, asioCallback, lambdaSet, driverMutex, app, inCallback, counts>>

(* The callback returns, and the position is advanced in two steps.           *)
CallEnd ==
  /\ HostTo("call", "adding")
  /\ inCallback' = NoAsioCallback
  /\ positionRead' = samplePosition
  /\ UNCHANGED <<states, asioCallback, lambdaSet, mutexes, app, switchCount, samplePosition,
                 resetCrossed, late, admitted>>

AdvancePosition ==
  /\ HostTo("adding", "idle")
  /\ samplePosition' = positionRead + 1
  /\ driverMutex' = "free" /\ switchMutex' = MutexAfterCall
  /\ UNCHANGED <<states, asioCallback, lambdaSet, app, inCallback, switchCount, positionRead,
                 resetCrossed, late, admitted>>

AppFinishes == StartSwitch \/ ZeroCount \/ Stopped \/ SetProcessCallback
HostFinishes ==
  CountSwitch \/ EnterLambda \/ CallBegin \/ NothingToCall \/ CallEnd \/ AdvancePosition

Next ==
  \/ LoadDriver \/ UnloadDriver \/ Start \/ StopSwitch \/ SetAudioCallback \/ ResetStatistics
  \/ BufferSwitch \/ AppFinishes \/ HostFinishes

-----------------------------------------------------------------------------
(* A callback that setAudioCallback() has replaced is never running, although *)
(* the call that runs it was let in by another mutex.                         *)
OnlyInstalledRuns == inCallback \in {NoAsioCallback, asioCallback}

(* stop() and unloadDriver() do not wait for the host: one call of the        *)
(* application may still begin afterwards, and never a second.                *)
AtMostOneLateCall == late <= 1

(* The statistics are of this run: once start() has returned the count is of  *)
(* switches let in since it was called or still under way then, and so is the *)
(* position, unless start() reset it between a late call's reading and        *)
(* writing it.  Neither bounds the other: the host may switch before the      *)
(* count is reset, and anyone may reset it.                                   *)
StatisticsOfThisRun ==
  /\ app \notin {"starting", "zeroing"} => switchCount <= admitted
  /\ ~resetCrossed => samplePosition <= admitted

(* The two threads hold one mutex each and want the other's.                  *)
Embraced == app = "install" /\ host = "lambda"

(* Every call returns, the application's and the host's, except when a        *)
(* setAudioCallback() meets a buffer switch in that embrace.                  *)
ReturnsUnlessEmbraced ==
  /\ app # "idle" ~> app = "idle" \/ Embraced
  /\ host # "idle" ~> host = "idle" \/ Embraced
=============================================================================
