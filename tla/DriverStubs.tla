----------------------------- MODULE DriverStubs -----------------------------
(***************************************************************************)
(* The implementations of IAudioDriver in src/src/drivers: DummyDriver,    *)
(* which the application itself drives block by block, and the stubs for   *)
(* ASIO, JACK, ALSA and PulseAudio, which keep the same life cycle and     *)
(* differ in where they can be initialized and when configure() answers.   *)
(* One thread calls a driver.  Device lists and error texts are left out.  *)
(***************************************************************************)
EXTENDS Naturals

CONSTANTS
  FrameCounts,   (* buffer sizes and block sizes                             *)
  ChannelCounts,
  MaxBlocks      (* bound on processBlock()                                  *)

VARIABLES
  stub,                          (* which driver this is                     *)
  state, config,                 (* Impl                                     *)
  inputBuffer, outputBuffer,     (* sizes of the two buffers                 *)
  processedSamples, processedBlocks

counters == <<processedSamples, processedBlocks>>
stubVars == <<stub, state, config, inputBuffer, outputBuffer, counters>>

Configs == [bufferSize : FrameCounts, inputs : ChannelCounts, outputs : ChannelCounts]

(* elsewhere: initialize() fails on a platform that is not the driver's.      *)
DummyStub == [name |-> "Dummy", elsewhere |-> FALSE]
AsioStub == [name |-> "ASIO", elsewhere |-> TRUE]
JackStub == [name |-> "JACK", elsewhere |-> FALSE]
AlsaStub == [name |-> "ALSA", elsewhere |-> TRUE]
PulseStub == [name |-> "PulseAudio", elsewhere |-> TRUE]
Stubs == {DummyStub, AsioStub, JackStub, AlsaStub, PulseStub}

IsDummy == stub.name = "Dummy"

StubInit ==
  /\ stub \in Stubs
  /\ state = "Uninitialized"
  /\ config \in Configs
  /\ inputBuffer = 0 /\ outputBuffer = 0
  /\ processedSamples = 0 /\ processedBlocks = 0

-----------------------------------------------------------------------------
(* Faulty variants of definitions below, used by no action.                   *)
ConfigureAnyTime == TRUE

(* configure() is refused while running, by all but JACK.                     *)
MayConfigure == state # "Running" \/ stub.name = "JACK"

(* In any state, a running driver included.                                   *)
Initialize ==
  /\ state' \in {"Initialized"} \union (IF stub.elsewhere THEN {"Error"} ELSE {})
  /\ UNCHANGED <<stub, config, inputBuffer, outputBuffer, counters>>

Shutdown ==
  /\ state' = "Uninitialized"
  /\ UNCHANGED <<stub, config, inputBuffer, outputBuffer, counters>>

(* The dummy resizes its buffers to the configuration.                        *)
Start ==
  /\ state = "Initialized"
  /\ state' = "Running"
  /\ inputBuffer' = IF IsDummy THEN config.bufferSize * config.inputs ELSE inputBuffer
  /\ outputBuffer' = IF IsDummy THEN config.bufferSize * config.outputs ELSE outputBuffer
  /\ UNCHANGED <<stub, config, counters>>

Stop ==
  /\ state = "Running"
  /\ state' = "Stopped"
  /\ UNCHANGED <<stub, config, inputBuffer, outputBuffer, counters>>

Configure(c) ==
  /\ MayConfigure
  /\ config' = c
  /\ UNCHANGED <<stub, state, inputBuffer, outputBuffer, counters>>

AtLeast(size, frames, channels) == IF size < frames * channels THEN frames * channels ELSE size

(* processBlock() with a callback; processBlocks() gives it bufferSize.       *)
ProcessBlock(frames) ==
  /\ IsDummy /\ state = "Running" /\ processedBlocks < MaxBlocks
  /\ inputBuffer' = AtLeast(inputBuffer, frames, config.inputs)
  /\ outputBuffer' = AtLeast(outputBuffer, frames, config.outputs)
  /\ processedSamples' = processedSamples + frames
  /\ processedBlocks' = processedBlocks + 1
  /\ UNCHANGED <<stub, state, config>>

ResetStatistics ==
  /\ IsDummy
  /\ processedSamples' = 0 /\ processedBlocks' = 0
  /\ UNCHANGED <<stub, state, config, inputBuffer, outputBuffer>>

StubNext ==
  \/ Initialize \/ Shutdown \/ Start \/ Stop \/ ResetStatistics
  \/ \E c \in Configs : Configure(c)
  \/ \E frames \in FrameCounts : ProcessBlock(frames)

-----------------------------------------------------------------------------
(* A running dummy has buffers for a block of its configuration, however it   *)
(* was initialized again, reconfigured and restarted, so that no block of     *)
(* processBlocks() allocates.                                                 *)
RunningConfigFits ==
  IsDummy /\ state = "Running" =>
    /\ inputBuffer >= config.bufferSize * config.inputs
    /\ outputBuffer >= config.bufferSize * config.outputs
=============================================================================
