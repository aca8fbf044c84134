--------------------------- MODULE MCHostedDrivers ---------------------------
(* The drivers whose devices, ports, threads or blocks belong to someone      *)
(* else, in one run: each behaviour is of one of them, and "which" says of    *)
(* which.  The variables of the others keep their first value.                *)
EXTENDS Naturals

CONSTANTS c1, c2, p1, p2,
          AsioCallbacks, NoAsioCallback, MaxSwitches,
          Ports, Sizes, FirstSize, MaxPortEntries, NoClient, MaxFrames,
          PortNames, MaxCreated, MaxConnected,
          FrameCounts, ChannelCounts, MaxBlocks

VARIABLES
  which,
  driverLoaded, driverRunning, switchRunning, asioCallback, lambdaSet, driverMutex, switchMutex,
  app, host, inCallback, switchCount, samplePosition, positionRead, late, admitted, resetCrossed,
  client, twice, connectedToServer, jackRunning, bufferSize, hasCallback, framePosition, torn, resized,
  devices, listMutex, lister, selector, wanted, found, currentDeviceId, inputChannels,
  outputChannels, hasAggregate, crossed,
  midiInitialized, midiRunning, ports, createdPorts, connectedInputs, connectedOutputs, deleted,
  stub, state, config, inputBuffer, outputBuffer, processedSamples, processedBlocks

asio == <<driverLoaded, driverRunning, switchRunning, asioCallback, lambdaSet, driverMutex,
          switchMutex, app, host, inCallback, switchCount, samplePosition, positionRead, late,
          admitted, resetCrossed>>
jackDriver == <<connectedToServer, jackRunning, bufferSize, hasCallback, framePosition, torn, resized>>
jack == <<client, twice, jackDriver>>
list == <<devices, listMutex, lister, selector, wanted, found, currentDeviceId, inputChannels,
          outputChannels, hasAggregate, crossed>>
midi == <<midiInitialized, midiRunning, ports, createdPorts, connectedInputs, connectedOutputs, deleted>>
stubs == <<stub, state, config, inputBuffer, outputBuffer, processedSamples, processedBlocks>>
hostedVars == <<which, asio, jack, list, midi, stubs>>

Asio == INSTANCE AsioDriver
Jack == INSTANCE JackDriver
List == INSTANCE CoreAudioDevices
Midi == INSTANCE AlsaMidiPorts
Stub == INSTANCE DriverStubs

(* Sizes are numbers; the null pointer is no client.                          *)
ASSUME HostedAssumption ==
  /\ Sizes \subseteq Nat /\ FirstSize \in Sizes
  /\ FrameCounts \subseteq Nat /\ ChannelCounts \subseteq Nat
  /\ ~Jack!IsClient(NoClient)

OneStub == CHOOSE s \in Stub!Stubs : s.name = "Dummy"

HostedInit ==
  /\ which \in {"asio", "jack", "jackClient", "list", "midi", "stub"}
  /\ Asio!Init /\ List!ListInit /\ Midi!MidiInit /\ Stub!StubInit
  /\ which # "stub" => stub = OneStub /\ config = CHOOSE c \in Stub!Configs : TRUE
  /\ IF which = "jackClient" THEN Jack!DriverInit /\ Jack!ClientInit ELSE Jack!JackInit

AsioStep ==
  which = "asio" /\ Asio!Next
  /\ UNCHANGED <<which, jack, list, midi, stubs>>
JackStep ==
  which = "jack" /\ Jack!JackNext
  /\ UNCHANGED <<which, asio, list, midi, stubs>>
ClientStep ==
  which = "jackClient" /\ Jack!ClientNext
  /\ UNCHANGED <<which, jackDriver, asio, list, midi, stubs>>
ListStep ==
  which = "list" /\ List!ListNext
  /\ UNCHANGED <<which, asio, jack, midi, stubs>>
MidiStep ==
  which = "midi" /\ Midi!MidiNext
  /\ UNCHANGED <<which, asio, jack, list, stubs>>
StubStep ==
  which = "stub" /\ Stub!StubNext
  /\ UNCHANGED <<which, asio, jack, list, midi>>

HostedNext == AsioStep \/ JackStep \/ ClientStep \/ ListStep \/ MidiStep \/ StubStep

(* Both threads of the ASIO driver are scheduled, and callbacks return.       *)
AppFinishes == AsioStep /\ Asio!AppFinishes
HostFinishes == AsioStep /\ Asio!HostFinishes
HostedSpec ==
  HostedInit /\ [][HostedNext]_hostedVars /\ WF_hostedVars(AppFinishes) /\ WF_hostedVars(HostFinishes)

-----------------------------------------------------------------------------
(* ASIO: a callback that was replaced is never running; after stop() one late *)
(* call of the application may begin, never a second; and count and position  *)
(* are of this run, but for a position a late call was advancing.             *)
AsioCallsBounded ==
  Asio!AsioTypeOK /\ Asio!OnlyInstalledRuns /\ Asio!AtMostOneLateCall /\ Asio!StatisticsOfThisRun

(* ASIO: how far start() and stop() have come.                                *)
AsioStage ==
  IF app \in {"stopping", "unloading", "reloading"} THEN "stopping"
  ELSE IF driverRunning THEN "running"
  ELSE IF driverLoaded THEN "ready" ELSE "closed"

AsioPromised == INSTANCE CallbackDriver WITH
  Functions <- AsioCallbacks, NoFunction <- NoAsioCallback, Waits <- FALSE,
  state <- AsioStage, installed <- asioCallback, overdue <- ~driverRunning /\ late > 0,
  called <- [t \in {"app", "thread"} |-> IF t = "thread" THEN inCallback ELSE NoAsioCallback]

(* ASIO: the driver calls as CallbackDriver promises of one that does not     *)
(* wait, although two mutexes and two flags decide what is called.            *)
AsioIsCallbackDriver == AsioPromised!DriverSpec

(* ASIO: every call returns except when setAudioCallback() meets a buffer     *)
(* switch and each holds the mutex the other wants.                           *)
ReturnsUnlessEmbraced == Asio!ReturnsUnlessEmbraced

(* JACK: driver and client agree on what runs, and the buffers hold the       *)
(* frames the server asks for, but for the three calls that tear them apart;  *)
(* the dummy driver's buffers fit its configuration while it runs.            *)
StreamsFit == (which = "jack" => Jack!DriverMatchesClient) /\ Stub!RunningConfigFits

(* JACK: each port has a buffer of the current size and each buffer a port,   *)
(* but for a port that was created while it existed.  ALSA MIDI: the list of  *)
(* ports agrees with the names of the created ports.                          *)
PortsAgree ==
  /\ which = "jackClient" => Jack!ClientTypeOK /\ Jack!PortsHaveBuffers
  /\ Midi!PortListAgrees

(* Core Audio: a pointer into the device list is the device asked for, or     *)
(* dead because the list is being refilled.                                   *)
SelectedDeviceAgrees == List!SelectedDeviceAgrees
=============================================================================
