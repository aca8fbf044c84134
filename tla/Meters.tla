-------------------------------- MODULE Meters --------------------------------
(***************************************************************************)
(* ScopeNode and MeterNode (src/src/nodes/utility): what the two taps keep *)
(* of the samples that pass them, each by itself.  A sample is its number  *)
(* and its level.  Bypass, the second channel, which does the same,        *)
(* decibels, and a buffer or window of size 0, which divides by zero, are  *)
(* left out.                                                               *)
(***************************************************************************)
EXTENDS Naturals

CONSTANTS Levels, BufferSizes, Windows, MaxTime

VARIABLES
  tap,
  buffer, writeIndex, bufferSize, triggerEnabled, triggered,   (* ScopeNode  *)
  peakLevel, rmsAccumulator, rmsLevel, rmsWindowSize, rmsSampleCount,
  time,
  loudest,     (* history: the loudest sample since reset()                  *)
  since,       (* history: samples since the trace was begun, or disturbed   *)
  sweep,       (* history: "begun" by a trigger, then undisturbed, "complete"*)
  rewound      (* history: prepare() in the middle of a window               *)

scope == <<buffer, writeIndex, bufferSize, triggerEnabled, triggered, since, sweep>>
meter == <<peakLevel, rmsAccumulator, rmsLevel, rmsWindowSize, rmsSampleCount, loudest, rewound>>
metersVars == <<tap, scope, meter, time>>

Silence == [at |-> 0, level |-> 0]
TriggerLevel == 2

(* A level as the square root of a sum over a number of samples; whether the  *)
(* window was rewound is history.                                             *)
Rms(sum, n, cut) == [sum |-> sum, over |-> n, rewound |-> cut]

MetersInit ==
  /\ tap \in {"scope", "meter"}
  /\ bufferSize = 2 /\ buffer = [i \in 0..1 |-> Silence] /\ writeIndex = 0
  /\ triggerEnabled = FALSE /\ triggered = FALSE
  /\ peakLevel = 0 /\ rmsAccumulator = 0 /\ rmsLevel = Rms(0, 1, FALSE)
  /\ rmsWindowSize = 2 /\ rmsSampleCount = 0
  /\ time = 0 /\ loudest = 0 /\ since = 0 /\ sweep = "none" /\ rewound = FALSE

-----------------------------------------------------------------------------
(* Faulty variants of definitions below, used by no action.                   *)
IndexKept == writeIndex
WindowLeftOpen == rmsAccumulator

Loudest(x, y) == IF x > y THEN x ELSE y

(* The first sample at the trigger level starts a sweep at the buffer's head. *)
Fires(level) == triggerEnabled /\ ~triggered /\ level >= TriggerLevel
IndexAtTrigger == 0

ScopeSample(level) ==
  LET index == IF Fires(level) THEN IndexAtTrigger ELSE writeIndex
      writing == ~triggerEnabled \/ triggered \/ Fires(level)
      next == (index + 1) % bufferSize
  IN /\ buffer' = IF writing THEN [buffer EXCEPT ![index] = [at |-> time + 1, level |-> level]] ELSE buffer
     /\ writeIndex' = IF writing THEN next ELSE writeIndex
     /\ triggered' = IF triggerEnabled /\ writing THEN next # 0 ELSE triggered
     /\ since' = IF ~writing THEN since ELSE IF Fires(level) THEN 1 ELSE since + 1
     /\ sweep' = IF ~triggerEnabled \/ ~writing THEN sweep
                 ELSE IF next = 0 /\ (Fires(level) \/ sweep = "begun") THEN "complete"
                 ELSE IF Fires(level) THEN "begun" ELSE sweep
     /\ UNCHANGED <<bufferSize, triggerEnabled>>

(* The accumulator after a window is done.                                    *)
WindowClosed == 0

MeterSample(level) ==
  LET sum == rmsAccumulator + level * level
      done == rmsSampleCount + 1 >= rmsWindowSize
  IN /\ peakLevel' = IF level > peakLevel THEN level ELSE IF peakLevel > 0 THEN peakLevel - 1 ELSE 0
     /\ rmsSampleCount' = IF done THEN 0 ELSE rmsSampleCount + 1
     /\ rmsLevel' = IF done THEN Rms(sum, rmsWindowSize, rewound) ELSE rmsLevel
     /\ rmsAccumulator' = IF done THEN WindowClosed ELSE sum
     /\ loudest' = Loudest(loudest, level)
     /\ rewound' = (rewound /\ ~done)
     /\ UNCHANGED rmsWindowSize

Sample(level) ==
  /\ time < MaxTime /\ time' = time + 1 /\ UNCHANGED tap
  /\ \/ tap = "scope" /\ ScopeSample(level) /\ UNCHANGED meter
     \/ tap = "meter" /\ MeterSample(level) /\ UNCHANGED scope

(* A sweep that is under way stays triggered.                                 *)
SetBufferSize(n) ==
  /\ tap = "scope"
  /\ bufferSize' = n /\ writeIndex' = 0
  /\ buffer' = [i \in 0..(n - 1) |-> IF i < bufferSize THEN buffer[i] ELSE Silence]
  /\ since' = 0 /\ sweep' = "none"
  /\ UNCHANGED <<triggerEnabled, triggered, meter, tap, time>>

SetTriggerEnabled(on) ==
  /\ tap = "scope"
  /\ triggerEnabled' = on
  /\ since' = 0 /\ sweep' = "none"
  /\ UNCHANGED <<buffer, writeIndex, bufferSize, triggered, meter, tap, time>>

ResetScope ==
  /\ tap = "scope"
  /\ buffer' = [i \in DOMAIN buffer |-> Silence] /\ writeIndex' = 0 /\ triggered' = FALSE
  /\ since' = 0 /\ sweep' = "none"
  /\ UNCHANGED <<bufferSize, triggerEnabled, meter, tap, time>>

(* prepare(): the window follows the sample rate, what was gathered stays.    *)
PrepareMeter(n) ==
  /\ tap = "meter"
  /\ rmsWindowSize' = n
  /\ rewound' = (rewound \/ (rmsSampleCount > 0 /\ n # rmsWindowSize))
  /\ UNCHANGED <<scope, peakLevel, rmsAccumulator, rmsLevel, rmsSampleCount, loudest, tap, time>>

ResetMeter ==
  /\ tap = "meter"
  /\ peakLevel' = 0 /\ rmsAccumulator' = 0 /\ rmsLevel' = Rms(0, 1, FALSE) /\ rmsSampleCount' = 0
  /\ loudest' = 0 /\ rewound' = FALSE
  /\ UNCHANGED <<scope, rmsWindowSize, tap, time>>

ResetPeaks ==
  /\ tap = "meter"
  /\ peakLevel' = 0
  /\ UNCHANGED <<scope, rmsAccumulator, rmsLevel, rmsWindowSize, rmsSampleCount, loudest, rewound, tap, time>>

MetersNext ==
  \/ \E level \in Levels : Sample(level)
  \/ \E n \in BufferSizes : SetBufferSize(n)
  \/ \E on \in BOOLEAN : SetTriggerEnabled(on)
  \/ \E n \in Windows : PrepareMeter(n)
  \/ ResetScope \/ ResetMeter \/ ResetPeaks

-----------------------------------------------------------------------------
(* getWaveformData(): oldest first.                                           *)
Waveform(i) == buffer[(writeIndex + i) % bufferSize]

(* Without a trigger the trace is the last samples in their order; with one,  *)
(* a sweep that nothing disturbed starts with the sample that reached the     *)
(* level and holds the samples that followed it, without a gap.  A new buffer *)
(* size, or a trigger switched off and on, in the middle of a sweep leaves it *)
(* triggered with no such sample at its head.                                 *)
TraceIsContiguous ==
  /\ ~triggerEnabled /\ since > 0 =>
       \A i \in 0..(bufferSize - 1) :
         i + since >= bufferSize => Waveform(i).at = time + 1 + i - bufferSize
  /\ sweep = "complete" =>
     /\ Waveform(0).level >= TriggerLevel
     /\ \A i \in 1..(bufferSize - 1) : Waveform(i).at = Waveform(0).at + i

Quietest == CHOOSE x \in Levels : \A y \in Levels : x <= y

(* The peak is a level that passed since reset(), or decays from one, and the *)
(* RMS level is the mean of as many samples as it is divided by: no louder    *)
(* than the loudest, and nothing of an earlier window in it.  Except for the  *)
(* window in which prepare() changed the length of what was being gathered.   *)
LevelsBounded ==
  /\ peakLevel <= loudest
  /\ rmsSampleCount > 0 => /\ rmsAccumulator >= rmsSampleCount * Quietest * Quietest
                           /\ rmsAccumulator <= rmsSampleCount * loudest * loudest
  /\ ~rmsLevel.rewound => rmsLevel.sum <= rmsLevel.over * loudest * loudest
=============================================================================
