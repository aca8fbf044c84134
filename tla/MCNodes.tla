------------------------------- MODULE MCNodes --------------------------------
(* Nodes, signal utilities and messages that depend on nothing else, in one   *)
(* run: each behaviour is of one of them, and "which" says of which.  The     *)
(* variables of the others keep their first value.                            *)
EXTENDS Integers

CONSTANTS MaxTime, SampleRates,
          Rates, Lengths,
          MaxFrequency, Ramp, MaxWrites,
          Channels, Sevens, Fourteens, Bends,
          DataBytes, ManufacturerIds, MaxContent,
          Levels, BufferSizes, Windows,
          Intervals, Factors, MaxAge,
          Inputs, Cutoffs, ChannelCounts, MaxHeard,
          Sizes, Samples, MaxLength,
          Steps, MaxInput, Rooms, MaxStream,
          Frequencies, Phases, MaxPhase

VARIABLES
  which,
  kind, ring, size, writeIndex, delayLength, maxLength, rate, time, resized,
  frequency, filterType, smoothedFrequency, sampleRate, bypassed, target, running, audio,
  audioDesign, control, controlDesign, overlapped, writes,
  message, built,
  data, purpose, content,
  tap, buffer, scopeIndex, bufferSize, triggerEnabled, triggered, peakLevel, rmsAccumulator,
  rmsLevel, rmsWindowSize, rmsSampleCount, tapTime, loudest, since, sweep, rewound,
  clockNode, clockActive, clockBypassed, oneShot, impulseTriggered, hasFired, period,
  sampleCounter, holdSample, out, gap, fired, disturbed,
  form, numChannels, R, blockers, cutoff, blockerRate, blockerBypassed, heard, steady, agreed,
  fftSize, bitReversalTable, workBuffer, signal, spectrum,
  use, quality, ratio, phase, block, origin, produced, consumed, call, cramped,
  oscillator, oscillatorFrequency, oscillatorRate, phaseIncrement, oscillatorPhase,
  oscillatorActive, oscillatorBypassed, advanced, tame

delays == <<kind, ring, size, writeIndex, delayLength, maxLength, rate, time, resized>>
filter == <<frequency, filterType, smoothedFrequency, sampleRate, bypassed, target, running, audio,
            audioDesign, control, controlDesign, overlapped, writes>>
messages == <<message, built, data, purpose, content>>
meters == <<tap, buffer, scopeIndex, bufferSize, triggerEnabled, triggered, peakLevel,
            rmsAccumulator, rmsLevel, rmsWindowSize, rmsSampleCount, tapTime, loudest, since,
            sweep, rewound>>
clocks == <<clockNode, clockActive, clockBypassed, oneShot, impulseTriggered, hasFired, period,
            sampleCounter, holdSample, out, gap, fired, disturbed>>
bank == <<form, numChannels, R, blockers, cutoff, blockerRate, blockerBypassed, heard, steady, agreed>>
fft == <<fftSize, bitReversalTable, workBuffer, signal, spectrum>>
resampler == <<use, quality, ratio, phase, block, origin, produced, consumed, call, cramped>>
oscillators == <<oscillator, oscillatorFrequency, oscillatorRate, phaseIncrement, oscillatorPhase,
                 oscillatorActive, oscillatorBypassed, advanced, tame>>
vars == <<which, delays, filter, messages, meters, clocks, bank, fft, resampler, oscillators>>

MCBends == {-8193, -8192, -1, 0, 1, 127, 128, 8191, 8192}
MCFrequencies == {-2, 0, 2, 6}
MCPhases == {-1, 1, 3, 4}

Delay == INSTANCE DelayLines
Filter == INSTANCE BiQuadFilter
Midi == INSTANCE MidiMessage
Sysex == INSTANCE SysexMessage
Taps == INSTANCE Meters WITH writeIndex <- scopeIndex, time <- tapTime
Clock == INSTANCE SampleClocks WITH node <- clockNode, active <- clockActive,
           bypassed <- clockBypassed, triggered <- impulseTriggered
Bank == INSTANCE DCBlockers WITH sampleRate <- blockerRate, bypassed <- blockerBypassed
Fft == INSTANCE FastFourierTransform WITH size <- fftSize
Resample == INSTANCE Resampler
Oscillator == INSTANCE Oscillators WITH node <- oscillator, frequency <- oscillatorFrequency,
                sampleRate <- oscillatorRate, phase <- oscillatorPhase,
                active <- oscillatorActive, bypassed <- oscillatorBypassed

(* Lengths, rates and steps are numbers, and what is counted up to is not     *)
(* counted beyond the bound of its history.                                   *)
ASSUME NodesAssumption ==
  /\ Rates \subseteq Nat \ {0} /\ Lengths \subseteq Nat
  /\ SampleRates \subseteq Nat \ {0} /\ Frequencies \subseteq Int /\ Phases \subseteq Int
  /\ Levels \subseteq Nat /\ Levels # {}
  /\ BufferSizes \subseteq Nat \ {0} /\ Windows \subseteq Nat \ {0}
  /\ MaxAge \in Nat /\ 2 <= MaxAge /\ Intervals \union Factors \subseteq 0..MaxAge
  /\ Steps \subseteq Nat \ {0} /\ Rooms \subseteq Nat
  /\ Channels \union Sevens \union Fourteens \union Bends \subseteq Int
  /\ DataBytes \subseteq 0..127 /\ ManufacturerIds \subseteq Nat
  /\ Inputs \subseteq Int /\ Cutoffs \subseteq Nat /\ ChannelCounts \subseteq Nat

Init ==
  /\ which \in {"delay", "filter", "midi", "sysex", "taps", "clock", "bank", "fft", "resampler",
                "oscillator"}
  /\ Delay!DelayInit /\ Filter!FilterInit /\ Midi!MidiMessageInit /\ Sysex!SysexInit
  /\ Taps!MetersInit /\ Clock!ClocksInit /\ Bank!BlockersInit /\ Fft!FftInit
  /\ Resample!ResamplerInit /\ Oscillator!OscillatorsInit
  /\ which # "delay" => kind = "delay"
  /\ which # "taps" => tap = "scope"
  /\ which # "clock" => clockNode = "impulse"
  /\ which # "bank" => form = "multi"
  /\ which # "resampler" => use = "block" /\ quality = "Medium"
  /\ which # "oscillator" => oscillator = "sine"

DelayStep ==
  which = "delay" /\ Delay!DelayNext
  /\ UNCHANGED <<which, filter, messages, meters, clocks, bank, fft, resampler, oscillators>>
FilterStep ==
  which = "filter" /\ Filter!FilterNext
  /\ UNCHANGED <<which, delays, messages, meters, clocks, bank, fft, resampler, oscillators>>
MidiStep ==
  which = "midi" /\ Midi!MidiMessageNext
  /\ UNCHANGED <<which, delays, filter, data, purpose, content, meters, clocks, bank, fft,
                 resampler, oscillators>>
SysexStep ==
  which = "sysex" /\ Sysex!SysexNext
  /\ UNCHANGED <<which, delays, filter, message, built, meters, clocks, bank, fft, resampler,
                 oscillators>>
TapsStep ==
  which = "taps" /\ Taps!MetersNext
  /\ UNCHANGED <<which, delays, filter, messages, clocks, bank, fft, resampler, oscillators>>
ClockStep ==
  which = "clock" /\ Clock!ClocksNext
  /\ UNCHANGED <<which, delays, filter, messages, meters, bank, fft, resampler, oscillators>>
BankStep ==
  which = "bank" /\ Bank!BlockersNext
  /\ UNCHANGED <<which, delays, filter, messages, meters, clocks, fft, resampler, oscillators>>
FftStep ==
  which = "fft" /\ Fft!FftNext
  /\ UNCHANGED <<which, delays, filter, messages, meters, clocks, bank, resampler, oscillators>>
ResamplerStep ==
  which = "resampler" /\ Resample!ResamplerNext
  /\ UNCHANGED <<which, delays, filter, messages, meters, clocks, bank, fft, oscillators>>
OscillatorStep ==
  which = "oscillator" /\ Oscillator!OscillatorsNext
  /\ UNCHANGED <<which, delays, filter, messages, meters, clocks, bank, fft, resampler>>

Next ==
  \/ DelayStep \/ FilterStep \/ MidiStep \/ SysexStep \/ TapsStep \/ ClockStep \/ BankStep
  \/ FftStep \/ ResamplerStep \/ OscillatorStep

(* Blocks keep coming, and a change callback that began ends.                 *)
FilterProcesses == FilterStep /\ Filter!Process
CallbackEnds == FilterStep /\ \E h \in Filter!Halves : Filter!CallbackWrite(h)
Spec == Init /\ [][Next]_vars /\ WF_vars(FilterProcesses) /\ WF_vars(CallbackEnds)

-----------------------------------------------------------------------------
(* A filter block runs both halves of one design, the one it computed, unless *)
(* a change callback of another thread overlapped it.                         *)
HalvesMatch == Filter!HalvesMatch

(* A filter comes to run the design of its parameters once they are left      *)
(* alone.                                                                     *)
FilterSettles == Filter!FilterSettles

(* What nodes keep of the past is the past: the ring of a delay and the trace *)
(* of a scope have its samples in their order and without a gap, and an       *)
(* oscillator's phase has lost no tick.                                       *)
PastIsExact ==
  /\ which = "delay" => Delay!RingIsPast /\ Delay!PastReaches
  /\ which = "taps" => Taps!TraceIsContiguous
  /\ which = "oscillator" => Oscillator!PhaseKept

(* Samples are counted right: impulses come evenly, a held sample is never    *)
(* too old, a meter's window holds as many as it is divided by, and the       *)
(* resampler reads within its input and puts each output where it is due, but *)
(* for those between two calls, which stand for the last frame before.        *)
SamplesInPlace ==
  /\ which = "clock" => Clock!ImpulsesEven /\ Clock!HeldIsRecent
  /\ which = "taps" => Taps!LevelsBounded
  /\ which = "resampler" =>
       Resample!BlockInBounds /\ Resample!StreamCounts /\ Resample!StreamInPlace

(* What is made of data is what it should be, and reads back: MIDI and SysEx  *)
(* messages as what they were built from, and what the parsers refuse or      *)
(* accept is what the builders make; a DC blocker's memory is the response to *)
(* its own channel's input alone.                                             *)
ResultsExact ==
  /\ which = "midi" => Midi!ReadsBack /\ Midi!TablesAgree /\ Midi!ParametersReadBack
  /\ which = "sysex" => /\ Sysex!PayloadKept /\ Sysex!IdsReadBack
                        /\ Sysex!ReplyReadsBack /\ Sysex!ChecksumDetects
  /\ which = "bank" => Bank!ChannelsApart

(* A spectrum is that of its signal, and goes back to it, for every size and  *)
(* for a signal longer or shorter than it.                                    *)
SpectrumExact == which = "fft" => Fft!SpectrumExact
=============================================================================
