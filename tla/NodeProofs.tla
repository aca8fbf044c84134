------------------------------ MODULE NodeProofs ------------------------------
(***************************************************************************)
(* The nodes and the resampler of MCNodes, for every rate, length, level,  *)
(* interval, step and bound.  Each has an invariant of its own, kept by    *)
(* each of its operations, and no node moves another's variables.  A       *)
(* filter's says who writes which half; a delay's, a scope's and an        *)
(* oscillator's say where in the ring, the buffer or the cycle the past    *)
(* is; a counter's, a meter's and the stream's say what has been counted.  *)
(***************************************************************************)
EXTENDS MCNodes, SequenceTheorems, WellFoundedInduction, TLAPS

(* Every step is a step of one component, and leaves the others as they are.  *)
LEMMA OneSteps ==
  ASSUME [Next]_vars
  PROVE  /\ DelayStep \/ UNCHANGED delays
         /\ FilterStep \/ UNCHANGED filter
         /\ TapsStep \/ UNCHANGED meters
         /\ ClockStep \/ UNCHANGED clocks
         /\ ResamplerStep \/ UNCHANGED resampler
         /\ OscillatorStep \/ UNCHANGED oscillators
         /\ MidiStep \/ UNCHANGED <<message, built>>
         /\ SysexStep \/ UNCHANGED <<data, purpose, content>>
         /\ BankStep \/ UNCHANGED bank
BY DEF Next, vars, messages, DelayStep, FilterStep, MidiStep, SysexStep, TapsStep, ClockStep, BankStep,
   FftStep, ResamplerStep, OscillatorStep

-----------------------------------------------------------------------------
(* The biquad filter.                                                         *)

(* Where process() and a change callback are, and what the halves hold while  *)
(* neither overlapped the other.                                              *)
FilterInv ==
  /\ audio \in {"idle", "b", "a", "run"} /\ control \in {"idle", "b", "a"}
  /\ target = [h \in Filter!Halves |-> target[h]]
  /\ ~overlapped =>
       /\ audio # "idle" => control = "idle"
       /\ audio = "a" => target["b"] = audioDesign
       /\ audio = "run" => target = Filter!Both(audioDesign)
       /\ audio = "idle" => running["b"].design = running["a"].design
       /\ audio = "idle" /\ control = "idle" => target["b"] = target["a"]
       /\ audio = "idle" /\ control = "a" => target["b"] = controlDesign

(* A filter starts with one design everywhere.                                *)
LEMMA FilterStarts == Init => FilterInv
BY DEF Init, FilterInv, Filter!FilterInit, Filter!Both, Filter!At, Filter!Halves

(* A running half heads for the target of its half.                           *)
LEMMA HeadsFor == ASSUME NEW r, NEW d PROVE Filter!Toward(r, d).design = d
BY DEF Filter!Toward, Filter!At

(* Every step of process(), of a callback and of the application keeps it.    *)
LEMMA FilterKept == ASSUME FilterInv, Filter!FilterNext PROVE FilterInv'
<1> USE DEF Filter!Halves, Filter!params
<1>1. CASE Filter!BlockBegin
  BY <1>1 DEF Filter!BlockBegin, FilterInv
<1>2. ASSUME NEW h \in Filter!Halves, Filter!BlockWrite(h) PROVE FilterInv'
  BY <1>2 DEF Filter!BlockWrite, Filter!TargetsOfBlock, FilterInv, Filter!Both
<1>3. CASE Filter!BlockRun
  <2>1. running'["b"].design = target["b"] /\ running'["a"].design = target["a"]
    BY <1>3, HeadsFor DEF Filter!BlockRun
  <2>2. ~overlapped => target["b"] = target["a"]
    BY <1>3 DEF Filter!BlockRun, FilterInv, Filter!Both
  <2> QED
    BY <1>3, <2>1, <2>2 DEF Filter!BlockRun, FilterInv
<1>4. ASSUME NEW f, NEW type, Filter!SetParameter(f, type) PROVE FilterInv'
  BY <1>4 DEF Filter!SetParameter, Filter!MayWrite, FilterInv
<1>5. ASSUME NEW h \in Filter!Halves, Filter!CallbackWrite(h) PROVE FilterInv'
  BY <1>5 DEF Filter!CallbackWrite, FilterInv
<1>6. ASSUME NEW r, Filter!Prepare(r) PROVE FilterInv'
  BY <1>6 DEF Filter!Prepare, Filter!MayWrite, Filter!Both, Filter!At, FilterInv
<1>7. CASE Filter!Reset
  BY <1>7 DEF Filter!Reset, Filter!MayWrite, Filter!At, FilterInv
<1>8. CASE Filter!SetBypassed
  BY <1>8 DEF Filter!SetBypassed, Filter!MayWrite, FilterInv
<1> QED
  BY <1>1, <1>2, <1>3, <1>4, <1>5, <1>6, <1>7, <1>8 DEF Filter!FilterNext, Filter!Process

(* The invariant of the filter.                                               *)
THEOREM FilterInvariance == Spec => []FilterInv
<1>1. FilterInv /\ [Next]_vars => FilterInv'
  <2> SUFFICES ASSUME FilterInv, [Next]_vars PROVE FilterInv'
    OBVIOUS
  <2>1. CASE UNCHANGED filter
    BY <2>1 DEF FilterInv, filter
  <2>2. CASE FilterStep
    BY <2>2, FilterKept DEF FilterStep
  <2> QED
    BY <2>1, <2>2, OneSteps
<1> QED
  BY <1>1, FilterStarts, PTL DEF Spec

-----------------------------------------------------------------------------
(* The delay effects.                                                         *)

(* An index below the size is its own rest, and one below twice the size less *)
(* the size.                                                                  *)
LEMMA RestOfIndex ==
  ASSUME NEW n \in Nat \ {0}, NEW a \in Nat, a < n + n
  PROVE  a % n = IF a < n THEN a ELSE a - n
<1>1. CASE a < n
  <2>1. a \in 0..(n - 1)
    BY <1>1
  <2>2. \A b \in 0..(n - 1) : b % n = b
    OBVIOUS
  <2> QED
    BY <1>1, <2>1, <2>2
<1>2. CASE a >= n
  <2>1. a \in n..(2 * n - 1)
    BY <1>2
  <2>2. \A b \in n..(2 * n - 1) : b % n = b - n
    OBVIOUS
  <2> QED
    BY <1>2, <2>1, <2>2
<1> QED
  BY <1>1, <1>2

(* The place k steps back from index w of a ring of n.                        *)
LEMMA PlaceBack ==
  ASSUME NEW n \in Nat \ {0}, NEW w \in 0..(n - 1), NEW k \in 1..n
  PROVE  (w + n - k) % n = IF k <= w THEN w - k ELSE w + n - k
<1> DEFINE a == w + n - k
<1>1. a \in Nat /\ a < n + n /\ (a < n <=> ~(k <= w))
  OBVIOUS
<1>2. a % n = IF a < n THEN a ELSE a - n
  <2> HIDE DEF a
  <2> QED
    BY <1>1, RestOfIndex
<1> QED
  BY <1>1, <1>2

(* A ring is as long as its size, silent before the first sample, and its     *)
(* length is what its reader needs: a chorus's of the longest delay it can    *)
(* swing to, a convolution's of its impulse response.                         *)
DelayInv ==
  /\ kind \in Delay!Kinds
  /\ rate \in Nat \ {0} /\ size \in Nat /\ writeIndex \in Nat /\ time \in Nat
  /\ delayLength \in Nat /\ maxLength \in Nat
  /\ ring \in [0..(size - 1) -> Nat]
  /\ time = 0 => writeIndex = 0 /\ \A i \in 0..(size - 1) : ring[i] = 0
  /\ kind = "chorus" => delayLength <= 2 /\ (size > 0 => size = Delay!ChorusUnits * rate)
  /\ kind = "convolution" /\ size > 0 => size = delayLength
  /\ Delay!RingIsPast

(* The ring is empty at first.                                                *)
LEMMA DelayStarts == Init => DelayInv
<1> SUFFICES ASSUME Delay!DelayInit PROVE DelayInv
  BY DEF Init
<1>1. ring \in [0..(size - 1) -> Nat] /\ \A i \in 0..(size - 1) : ring[i] = 0
  <2>1. 0..(size - 1) = {}
    BY DEF Delay!DelayInit
  <2> QED
    BY <2>1 DEF Delay!DelayInit
<1> QED
  BY <1>1 DEF Delay!DelayInit, DelayInv, Delay!RingIsPast

(* A ring that is resized is still in order, unless it was resized to another *)
(* length with samples in it.                                                 *)
LEMMA ResizeKeeps ==
  ASSUME DelayInv, NEW n \in Nat, Delay!Resize(n), UNCHANGED <<kind, writeIndex, time>>
  PROVE  /\ size' = n /\ ring' \in [0..(size' - 1) -> Nat]
         /\ time' = 0 => writeIndex' = 0 /\ \A i \in 0..(size' - 1) : ring'[i] = 0
         /\ Delay!RingIsPast'
<1>1. size' = n /\ ring' = [i \in 0..(n - 1) |-> IF i < size THEN ring[i] ELSE 0]
  BY DEF Delay!Resize
<1>2. ring' \in [0..(size' - 1) -> Nat]
  <2>1. \A i \in 0..(n - 1) : i < size => ring[i] \in Nat
    BY DEF DelayInv
  <2> QED
    BY <1>1, <2>1
<1>3. time = 0 => \A i \in 0..(size' - 1) : ring'[i] = 0
  BY <1>1 DEF DelayInv
<1>4. ~resized' => ~resized /\ (n = size \/ ~(time > 0))
  BY Zenon DEF Delay!Resize
<1>5. ASSUME size' > 0, ~resized' PROVE writeIndex' < size' /\
        \A k \in 1..size' :
          ring'[(writeIndex' + size' - k) % size'] = IF k <= time' THEN time' + 1 - k ELSE 0
  <2>1. CASE time = 0
    <3> SUFFICES ASSUME NEW k \in 1..n
                 PROVE  ring'[(writeIndex' + n - k) % n] = IF k <= time' THEN time' + 1 - k ELSE 0
      BY <2>1, <1>1, <1>5 DEF DelayInv
    <3>1. writeIndex' = 0 /\ time' = 0 /\ n \in Nat \ {0}
      BY <2>1, <1>1, <1>5 DEF DelayInv
    <3>2. (writeIndex' + n - k) % n \in 0..(n - 1)
      BY <3>1
    <3>3. ring'[(writeIndex' + n - k) % n] = 0
      BY <3>2, <1>1, <1>3, <2>1
    <3> QED
      BY <3>1, <3>3
  <2>2. CASE time # 0
    <3>1. n = size /\ ~resized
      BY <2>2, <1>4, <1>5 DEF DelayInv
    <3>2. ring' = ring
      <4>1. ring = [i \in 0..(n - 1) |-> ring[i]]
        BY <3>1 DEF DelayInv
      <4>2. \A i \in 0..(n - 1) : (IF i < size THEN ring[i] ELSE 0) = ring[i]
        BY <3>1
      <4> QED
        BY <1>1, <4>1, <4>2
    <3> QED
      BY <1>1, <1>5, <3>1, <3>2 DEF DelayInv, Delay!RingIsPast
  <2> QED
    BY <2>1, <2>2
<1>6. Delay!RingIsPast'
  BY <1>5 DEF Delay!RingIsPast
<1> QED
  BY <1>1, <1>2, <1>3, <1>6 DEF DelayInv

(* A sample takes the place of the oldest, and every other is one step older. *)
LEMMA SampleKeeps == ASSUME DelayInv, Delay!ProcessSample PROVE DelayInv'
<1>1. /\ size \in Nat \ {0} /\ size' = size /\ resized' = resized /\ time' = time + 1
      /\ writeIndex' = (writeIndex + 1) % size
      /\ ring' = IF writeIndex < size THEN [ring EXCEPT ![writeIndex] = time + 1] ELSE ring
  BY DEF Delay!ProcessSample, Delay!Advance, DelayInv
<1>2. writeIndex' \in 0..(size - 1)
  BY <1>1 DEF DelayInv
<1>3. ring' \in [0..(size - 1) -> Nat]
  BY <1>1 DEF DelayInv
<1>4. ASSUME ~resized, NEW k \in 1..size
      PROVE  ring'[(writeIndex' + size - k) % size] = IF k <= time + 1 THEN time + 2 - k ELSE 0
  <2> DEFINE w == writeIndex
             v == writeIndex'
  <2>1. w \in 0..(size - 1)
    BY <1>1, <1>4 DEF DelayInv, Delay!RingIsPast
  <2>2. v = IF w + 1 < size THEN w + 1 ELSE 0
    <3>1. w + 1 \in Nat /\ w + 1 < size + size
      BY <2>1, <1>1
    <3> DEFINE b == w + 1
    <3>2. b % size = IF b < size THEN b ELSE b - size
      <4> HIDE DEF b
      <4> QED
        BY <3>1, <1>1, RestOfIndex DEF b
    <3> QED
      BY <3>2, <1>1, <2>1
  <2>3. (v + size - k) % size = IF k <= v THEN v - k ELSE v + size - k
    <3> HIDE DEF v
    <3> QED
      BY <1>1, <1>2, PlaceBack DEF v
  <2>4. CASE k = 1
    <3>1. (v + size - k) % size = w
      BY <2>1, <2>2, <2>3, <2>4, <1>1
    <3>2. ring'[w] = time + 1
      BY <1>1, <2>1 DEF DelayInv
    <3> QED
      BY <2>4, <3>1, <3>2 DEF DelayInv
  <2>5. CASE k > 1
    <3> DEFINE j == k - 1
    <3>1. j \in 1..size
      BY <2>5, <1>1
    <3>2. (w + size - j) % size = IF j <= w THEN w - j ELSE w + size - j
      <4> HIDE DEF j, w
      <4> QED
        BY <1>1, <2>1, <3>1, PlaceBack
    <3>3. (v + size - k) % size = (w + size - j) % size /\ (w + size - j) % size # w
          /\ (w + size - j) % size \in 0..(size - 1)
      BY <2>1, <2>2, <2>3, <2>5, <3>1, <3>2, <1>1
    <3>4. ring[(w + size - j) % size] = IF j <= time THEN time + 1 - j ELSE 0
      <4> HIDE DEF j
      <4> QED
        BY <1>1, <1>4, <3>1 DEF DelayInv, Delay!RingIsPast
    <3> DEFINE place == (w + size - j) % size
    <3>5. ring'[place] = ring[place]
      <4> HIDE DEF j
      <4> QED
        BY <1>1, <2>1, <3>3 DEF DelayInv
    <3>6. /\ ring'[place] = IF j <= time THEN time + 1 - j ELSE 0
          /\ (v + size - k) % size = place
      BY <3>3, <3>4, <3>5
    <3>7. time \in Nat
      BY DEF DelayInv
    <3>8. (IF j <= time THEN time + 1 - j ELSE 0) = IF k <= time + 1 THEN time + 2 - k ELSE 0
      BY <3>7, <2>5
    <3> QED
      <4> HIDE DEF place, j
      <4> QED
        BY <3>6, <3>8
  <2> QED
    BY <2>4, <2>5, <1>1
<1>5. Delay!RingIsPast'
  BY <1>1, <1>2, <1>4 DEF Delay!RingIsPast, DelayInv
<1> QED
  BY <1>1, <1>2, <1>3, <1>5 DEF DelayInv, Delay!ProcessSample

(* Preparing, loading, setting, resetting and processing keep it.             *)
LEMMA DelayKept == ASSUME DelayInv, Delay!DelayNext PROVE DelayInv'
<1>1. ASSUME NEW r \in Rates, Delay!Prepare(r) PROVE DelayInv'
  <2> USE DEF Delay!ChorusUnits, Delay!FlangerUnits
  <2>1. r \in Nat \ {0}
    BY NodesAssumption
  <2>2. maxLength * r \in Nat /\ 4 * r \in Nat /\ 2 * r \in Nat
    BY <2>1 DEF DelayInv
  <2>3. CASE kind = "convolution"
    BY <1>1, <2>1, <2>3 DEF Delay!Prepare, Delay!DelayPrepare, Delay!ChorusPrepare, Delay!FlangerPrepare,
       Delay!ConvolutionPrepare, DelayInv, Delay!RingIsPast
  <2>4. CASE kind = "chorus"
    <3>1. rate' = r /\ Delay!Resize(4 * r) /\ UNCHANGED <<kind, writeIndex, time, delayLength, maxLength>>
      BY <1>1, <2>4 DEF Delay!Prepare, Delay!ChorusPrepare
    <3> QED
      BY <2>1, <2>2, <2>4, <3>1, ResizeKeeps DEF DelayInv
  <2>5. CASE kind \in {"delay", "flanger"}
    <3>1. PICK n \in Nat : Delay!Resize(n)
      BY <1>1, <2>2, <2>5 DEF Delay!Prepare, Delay!DelayPrepare, Delay!FlangerPrepare
    <3>2. rate' = r /\ UNCHANGED <<kind, writeIndex, time, delayLength, maxLength>>
      BY <1>1, <2>5 DEF Delay!Prepare, Delay!DelayPrepare, Delay!FlangerPrepare
    <3> QED
      BY <2>1, <2>5, <3>1, <3>2, ResizeKeeps DEF DelayInv
  <2> QED
    BY <2>3, <2>4, <2>5 DEF DelayInv, Delay!Kinds
<1>2. ASSUME NEW n \in Nat, kind = "convolution", delayLength' = n, Delay!Resize(n),
             UNCHANGED <<kind, writeIndex, maxLength, rate, time>>
      PROVE  DelayInv'
  BY <1>2, ResizeKeeps DEF DelayInv
<1>3. ASSUME NEW n \in Lengths, Delay!LoadImpulseResponse(n) PROVE DelayInv'
  BY <1>2, <1>3, NodesAssumption DEF Delay!LoadImpulseResponse
<1>4. CASE Delay!UnloadImpulseResponse
  BY <1>2, <1>4 DEF Delay!UnloadImpulseResponse
<1>5. ASSUME NEW n \in Lengths, Delay!SetDelay(n) \/ Delay!SetMaxDelayTime(n) PROVE DelayInv'
  <2>1. n \in Nat
    BY NodesAssumption
  <2>2. CASE Delay!SetDelay(n)
    <3>1. delayLength' \in Nat /\ (kind = "chorus" => delayLength' <= 2)
      BY <2>1, <2>2 DEF Delay!SetDelay, DelayInv
    <3> QED
      BY <2>2, <3>1 DEF Delay!SetDelay, DelayInv, Delay!RingIsPast
  <2>3. CASE Delay!SetMaxDelayTime(n)
    BY <2>1, <2>3 DEF Delay!SetMaxDelayTime, DelayInv, Delay!RingIsPast
  <2> QED
    BY <1>5, <2>2, <2>3
<1>6. CASE Delay!Reset
  <2>1. /\ ring' \in [0..(size' - 1) -> Nat] /\ size' = size /\ writeIndex' = 0 /\ time' = 0
        /\ \A i \in 0..(size' - 1) : ring'[i] = 0
    BY <1>6 DEF Delay!Reset, DelayInv
  <2>2. size' > 0 => \A k \in 1..size' : (writeIndex' + size' - k) % size' \in 0..(size' - 1)
    BY <2>1 DEF DelayInv
  <2>3. Delay!RingIsPast'
    BY <2>1, <2>2 DEF Delay!RingIsPast, DelayInv
  <2> QED
    BY <1>6, <2>1, <2>3 DEF Delay!Reset, DelayInv
<1>7. CASE Delay!ProcessSample
  BY <1>7, SampleKeeps
<1> QED
  BY <1>1, <1>3, <1>4, <1>5, <1>6, <1>7 DEF Delay!DelayNext

(* The invariant of the delay effects.                                        *)
THEOREM DelayInvariance == Spec => []DelayInv
<1>1. DelayInv /\ [Next]_vars => DelayInv'
  <2> SUFFICES ASSUME DelayInv, [Next]_vars PROVE DelayInv'
    OBVIOUS
  <2>1. CASE UNCHANGED delays
    BY <2>1 DEF DelayInv, Delay!RingIsPast, delays
  <2>2. CASE DelayStep
    BY <2>2, DelayKept DEF DelayStep
  <2> QED
    BY <2>1, <2>2, OneSteps
<1> QED
  BY <1>1, DelayStarts, PTL DEF Spec

(* No reader asks for more past than its ring has.                            *)
LEMMA RingReaches == DelayInv => Delay!PastReaches
<1> SUFFICES ASSUME DelayInv, size > 0, NEW k \in Delay!Ages PROVE k < size
  BY DEF Delay!PastReaches
<1>1. CASE kind = "chorus"
  <2> DEFINE swing == Delay!ChorusSwing
  <2>1. swing \in 0..3
    <3>1. delayLength \in 0..2
      BY <1>1 DEF DelayInv
    <3>2. delayLength = 0 \/ delayLength = 1 \/ delayLength = 2
      BY <3>1
    <3> QED
      BY <3>2 DEF Delay!ChorusSwing
  <2>2. k \in 0..(swing * rate)
    BY <1>1 DEF Delay!Ages
  <2>3. size = 4 * rate /\ rate \in Nat \ {0}
    BY <1>1 DEF DelayInv, Delay!ChorusUnits
  <2> HIDE DEF swing
  <2>4. swing = 0 \/ swing = 1 \/ swing = 2 \/ swing = 3
    BY <2>1
  <2> QED
    BY <2>2, <2>3, <2>4
<1>2. CASE kind = "convolution"
  BY <1>2 DEF Delay!Ages, DelayInv
<1>3. CASE kind \notin {"chorus", "convolution"}
  BY <1>3 DEF Delay!Ages
<1> QED
  BY <1>1, <1>2, <1>3

-----------------------------------------------------------------------------
(* The oscillators.                                                           *)

(* The phase is what was advanced, and both are whole ticks.                  *)
OscillatorInv ==
  /\ oscillatorFrequency \in Int /\ oscillatorRate \in Nat \ {0}
  /\ phaseIncrement \in Int /\ oscillatorPhase \in Int
  /\ Oscillator!PhaseKept

(* An oscillator starts at phase 0.                                           *)
LEMMA OscillatorStarts == Init => OscillatorInv
BY DEF Init, OscillatorInv, Oscillator!OscillatorsInit, Oscillator!InitialIncrement,
   Oscillator!Increment, Oscillator!PhaseKept, Oscillator!Cycle

(* What is taken off where the phase wraps is a whole cycle.                  *)
LEMMA WrapKeeps ==
  ASSUME NEW p \in Int, NEW d \in Int
  PROVE  /\ Oscillator!Wrapped(p + d) \in Int
         /\ Oscillator!Wrapped(p + d) % Oscillator!Cycle
              = ((p % Oscillator!Cycle) + d) % Oscillator!Cycle
BY DEF Oscillator!Wrapped, Oscillator!Cycle

(* A sample, a new increment and a phase that is set keep it.                 *)
LEMMA OscillatorKept == ASSUME OscillatorInv, Oscillator!OscillatorsNext PROVE OscillatorInv'
<1> USE DEF Oscillator!PhaseKept
<1>1. CASE Oscillator!Advance
  <2>1. oscillatorPhase' \in Int /\ oscillatorPhase' % Oscillator!Cycle = advanced'
    BY <1>1, WrapKeeps DEF Oscillator!Advance, OscillatorInv
  <2>2. tame' => tame /\ phaseIncrement \in 0..(Oscillator!Cycle - 1)
    BY <1>1, Zenon DEF Oscillator!Advance
  <2>3. tame' => oscillatorPhase' \in 0..(Oscillator!Cycle - 1)
    BY <1>1, <2>2 DEF Oscillator!Advance, OscillatorInv, Oscillator!Wrapped, Oscillator!Cycle
  <2> QED
    BY <1>1, <2>1, <2>2, <2>3 DEF Oscillator!Advance, OscillatorInv
<1>2. ASSUME NEW f \in Int, NEW r \in Nat \ {0}, Oscillator!UpdatePhaseIncrement(f, r)
      PROVE  OscillatorInv'
  BY <1>2 DEF Oscillator!UpdatePhaseIncrement, Oscillator!Increment, OscillatorInv
<1>3. ASSUME NEW p \in Int, Oscillator!PhaseSet(p) PROVE OscillatorInv'
  <2>1. oscillatorPhase' \in Int /\ oscillatorPhase' % Oscillator!Cycle = advanced'
    BY <1>3 DEF Oscillator!PhaseSet
  <2>2. tame' => oscillatorPhase' \in 0..(Oscillator!Cycle - 1)
    BY <1>3, Zenon DEF Oscillator!PhaseSet
  <2> QED
    BY <1>3, <2>1, <2>2 DEF Oscillator!PhaseSet, OscillatorInv
<1>4. ASSUME NEW on, Oscillator!StartStop(on) \/ Oscillator!SetBypassed(on) PROVE OscillatorInv'
  BY <1>4 DEF Oscillator!StartStop, Oscillator!SetBypassed, OscillatorInv
<1>5. ASSUME NEW f \in Frequencies, Oscillator!SetFrequency(f) PROVE OscillatorInv'
  BY <1>2, <1>5, NodesAssumption DEF Oscillator!SetFrequency, OscillatorInv
<1>6. ASSUME NEW r \in SampleRates, Oscillator!Prepare(r) PROVE OscillatorInv'
  BY <1>2, <1>6, NodesAssumption DEF Oscillator!Prepare, OscillatorInv
<1>7. ASSUME NEW p \in Phases, Oscillator!SetPhase(p) PROVE OscillatorInv'
  BY <1>3, <1>7, NodesAssumption DEF Oscillator!SetPhase
<1>8. CASE Oscillator!Reset
  BY <1>3, <1>8 DEF Oscillator!Reset
<1> QED
  BY <1>1, <1>4, <1>5, <1>6, <1>7, <1>8 DEF Oscillator!OscillatorsNext

(* The invariant of the oscillators.                                          *)
THEOREM OscillatorInvariance == Spec => []OscillatorInv
<1>1. OscillatorInv /\ [Next]_vars => OscillatorInv'
  <2> SUFFICES ASSUME OscillatorInv, [Next]_vars PROVE OscillatorInv'
    OBVIOUS
  <2>1. CASE UNCHANGED oscillators
    BY <2>1 DEF OscillatorInv, Oscillator!PhaseKept, oscillators
  <2>2. CASE OscillatorStep
    BY <2>2, OscillatorKept DEF OscillatorStep
  <2> QED
    BY <2>1, <2>2, OneSteps
<1> QED
  BY <1>1, OscillatorStarts, PTL DEF Spec

-----------------------------------------------------------------------------
(* The sample counters.                                                       *)

(* What the counters of a clock are: an impulse generator's has fired exactly *)
(* when an impulse is counted, and a crusher's factor is not 0.               *)
ClockInv ==
  /\ clockNode \in {"impulse", "crusher"}
  /\ period \in 0..MaxAge /\ sampleCounter \in Nat /\ holdSample \in Nat /\ gap \in Nat
  /\ fired \in 0..2 /\ (hasFired <=> fired > 0)
  /\ clockNode = "crusher" => period > 0
  /\ Clock!ImpulsesEven
  /\ Clock!HeldIsRecent

(* The counters start at 0.                                                   *)
LEMMA ClockStarts == Init => ClockInv
<1> SUFFICES ASSUME Clock!ClocksInit PROVE ClockInv
  BY DEF Init
<1>1. Clock!ImpulsesEven
  BY NodesAssumption DEF Clock!ClocksInit, Clock!ImpulsesEven, Clock!AtMost, Clock!hasMoreData
<1>2. Clock!HeldIsRecent
  BY DEF Clock!ClocksInit, Clock!HeldIsRecent
<1>3. clockActive \in BOOLEAN
  BY DEF Clock!ClocksInit
<1> QED
  BY <1>1, <1>2, <1>3, NodesAssumption DEF Clock!ClocksInit, ClockInv

(* Every sample of the generator and of the crusher, and every setter, keeps  *)
(* it.                                                                        *)
LEMMA ClockKept == ASSUME ClockInv, Clock!ClocksNext PROVE ClockInv'
<1> USE NodesAssumption DEF Clock!mode, Clock!AtMost, Clock!ImpulsesEven, Clock!HeldIsRecent, Clock!hasMoreData
<1>1. CASE Clock!SkipSample
  BY <1>1 DEF Clock!SkipSample, ClockInv
<1>2. CASE Clock!GenerateSample
  <2>1. CASE Clock!TriggeredSample
    BY <1>2, <2>1 DEF Clock!GenerateSample, Clock!TriggeredSample, Clock!Impulse, Clock!CounterOnTrigger, ClockInv
  <2>2. CASE Clock!CountedSample /\ Clock!Reached(sampleCounter + 1)
    BY <1>2, <2>2 DEF Clock!GenerateSample, Clock!CountedSample, Clock!Impulse, Clock!Reached, ClockInv
  <2>3. CASE Clock!CountedSample /\ ~Clock!Reached(sampleCounter + 1)
    BY <1>2, <2>3 DEF Clock!GenerateSample, Clock!CountedSample, Clock!NoImpulse, Clock!Reached, ClockInv
  <2>4. CASE Clock!SpentSample
    BY <1>2, <2>4 DEF Clock!GenerateSample, Clock!SpentSample, Clock!NoImpulse, ClockInv
  <2> QED
    BY <1>2, <2>1, <2>2, <2>3, <2>4 DEF Clock!GenerateSample
<1>3. CASE Clock!CrushSample
  <2>1. ~disturbed' => ~disturbed \/ sampleCounter = 0
    BY <1>3, Zenon DEF Clock!CrushSample
  <2> QED
    BY <1>3, <2>1 DEF Clock!CrushSample, Clock!Reached, ClockInv
<1>4. CASE Clock!ResetClocks
  BY <1>4 DEF Clock!ResetClocks, ClockInv
<1>5. CASE Clock!Trigger
  BY <1>5 DEF Clock!Trigger, ClockInv
<1>6. ASSUME NEW n \in IF clockNode = "impulse" THEN Intervals ELSE Factors, Clock!SetPeriod(n)
      PROVE  ClockInv'
  BY <1>6 DEF Clock!SetPeriod, ClockInv
<1>7. ASSUME NEW on \in BOOLEAN, Clock!SetOneShot(on) PROVE ClockInv'
  BY <1>7 DEF Clock!SetOneShot, ClockInv
<1>8. ASSUME NEW on \in BOOLEAN, Clock!StartStop(on) PROVE ClockInv'
  BY <1>8 DEF Clock!StartStop, ClockInv
<1>9. ASSUME NEW on \in BOOLEAN, Clock!SetBypassed(on) PROVE ClockInv'
  BY <1>9 DEF Clock!SetBypassed, ClockInv
<1> QED
  BY <1>1, <1>2, <1>3, <1>4, <1>5, <1>6, <1>7, <1>8, <1>9 DEF Clock!ClocksNext

(* The invariant of the sample counters.                                      *)
THEOREM ClockInvariance == Spec => []ClockInv
<1>1. ClockInv /\ [Next]_vars => ClockInv'
  <2> SUFFICES ASSUME ClockInv, [Next]_vars PROVE ClockInv'
    OBVIOUS
  <2>1. CASE UNCHANGED clocks
    BY <2>1 DEF ClockInv, clocks, Clock!ImpulsesEven, Clock!HeldIsRecent, Clock!hasMoreData, Clock!AtMost
  <2>2. CASE ClockStep
    BY <2>2, ClockKept DEF ClockStep
  <2> QED
    BY <2>1, <2>2, OneSteps
<1> QED
  BY <1>1, ClockStarts, PTL DEF Spec

-----------------------------------------------------------------------------
(* The meter.                                                                 *)

(* The quietest level is one of the levels, and none is below it.             *)
LEMMA QuietestLevel == Taps!Quietest \in Nat /\ \A y \in Levels : Taps!Quietest <= y
<1>1. Levels \subseteq Nat /\ Levels # {}
  BY NodesAssumption
<1>2. PICK x \in Levels : \A y \in Levels : <<y, x>> \notin OpToRel(<, Nat)
  BY <1>1, WFMin, NatLessThanWellFounded, Zenon
<1>3. \A y \in Levels : ~(y < x)
  BY <1>1, <1>2, Zenon DEF OpToRel
<1>4. x \in Levels /\ \A y \in Levels : x <= y
  BY <1>1, <1>3
<1> QED
  BY <1>1, <1>4 DEF Taps!Quietest

(* Numbers of squares.                                                        *)
LEMMA SquaresGrow ==
  ASSUME NEW n \in Nat, NEW x \in Nat, NEW y \in Nat, x <= y
  PROVE  /\ x * x <= y * y
         /\ n * x * x <= n * y * y
         /\ (n + 1) * x * x = n * x * x + x * x
         /\ n * x * x \in Nat /\ x * x \in Nat
<1>1. x * x <= x * y /\ x * y <= y * y
  OBVIOUS
<1>2. x * x \in Nat /\ y * y \in Nat /\ x * y \in Nat /\ x * x <= y * y
  BY <1>1
<1>3. n * x * x = n * (x * x) /\ n * y * y = n * (y * y)
  OBVIOUS
<1>4. (n + 1) * x * x = n * x * x + x * x
  OBVIOUS
<1> DEFINE u == x * x
           v == y * y
<1>5. n * u <= n * v /\ n * u \in Nat
  <2>1. u \in Nat /\ v \in Nat /\ u <= v
    BY <1>2
  <2> HIDE DEF u, v
  <2> QED
    BY <2>1
<1> QED
  BY <1>2, <1>3, <1>4, <1>5

(* What a meter gathers: as many squares as it counts, none of them below the *)
(* quietest or above the loudest, and, while prepare() has not changed the    *)
(* window under way, fewer than the window.                                   *)
MeterInv ==
  /\ peakLevel \in Nat /\ loudest \in Nat /\ rmsAccumulator \in Nat /\ rmsSampleCount \in Nat
  /\ rmsWindowSize \in Nat \ {0}
  /\ rmsLevel = Taps!Rms(rmsLevel.sum, rmsLevel.over, rmsLevel.rewound)
  /\ rmsLevel.sum \in Nat /\ rmsLevel.over \in Nat
  /\ peakLevel <= loudest
  /\ rmsAccumulator >= rmsSampleCount * Taps!Quietest * Taps!Quietest
  /\ rmsAccumulator <= rmsSampleCount * loudest * loudest
  /\ ~rewound => rmsSampleCount < rmsWindowSize
  /\ ~rmsLevel.rewound => rmsLevel.sum <= rmsLevel.over * loudest * loudest

(* Nothing has been gathered at first.                                        *)
LEMMA MeterStarts == Init => MeterInv
<1> SUFFICES ASSUME Taps!MetersInit PROVE MeterInv
  BY DEF Init
<1>1. 0 * Taps!Quietest * Taps!Quietest = 0
  BY QuietestLevel
<1> QED
  BY <1>1 DEF Taps!MetersInit, MeterInv, Taps!Rms

(* A sample adds its square and closes a window that is full.                 *)
LEMMA MeterSampleKeeps ==
  ASSUME MeterInv, NEW level \in Levels, Taps!MeterSample(level)
  PROVE  MeterInv'
<1> DEFINE sum == rmsAccumulator + level * level
           done == rmsSampleCount + 1 >= rmsWindowSize
           Q == Taps!Quietest
           count == rmsSampleCount
           L == Taps!Loudest(loudest, level)
<1>1. level \in Nat /\ Q \in Nat /\ Q <= level
  BY QuietestLevel, NodesAssumption
<1>2. loudest' = L /\ L \in Nat /\ loudest <= L /\ level <= L
  BY <1>1 DEF Taps!MeterSample, Taps!Loudest, MeterInv
<1>3. peakLevel' \in Nat /\ peakLevel' <= loudest'
  BY <1>1, <1>2 DEF Taps!MeterSample, MeterInv
<1>4. rmsWindowSize' = rmsWindowSize
  BY DEF Taps!MeterSample
<1>5. sum \in Nat /\ sum >= (count + 1) * Q * Q /\ sum <= (count + 1) * L * L
  <2>1. count \in Nat /\ loudest \in Nat /\ L \in Nat
    BY <1>2 DEF MeterInv
  <2> HIDE DEF Q, L, count
  <2>2. Q * Q <= level * level /\ (count + 1) * Q * Q = count * Q * Q + Q * Q
        /\ count * Q * Q \in Nat /\ Q * Q \in Nat
    BY <2>1, <1>1, SquaresGrow
  <2>3. level * level <= L * L /\ level * level \in Nat
    BY <2>1, <1>1, <1>2, SquaresGrow
  <2>4. count * loudest * loudest <= count * L * L /\ count * loudest * loudest \in Nat
    BY <2>1, <1>2, SquaresGrow
  <2>5. (count + 1) * L * L = count * L * L + L * L /\ count * L * L \in Nat /\ L * L \in Nat
    BY <2>1, SquaresGrow
  <2>6. rmsAccumulator \in Nat /\ rmsAccumulator >= count * Q * Q /\ rmsAccumulator <= count * loudest * loudest
    BY DEF MeterInv, count, Q
  <2> QED
    BY <2>2, <2>3, <2>4, <2>5, <2>6
<1>6. ~rmsLevel.rewound => rmsLevel.sum <= rmsLevel.over * L * L
  <2>1. rmsLevel.over \in Nat /\ loudest \in Nat /\ L \in Nat /\ rmsLevel.sum \in Nat
    BY <1>2 DEF MeterInv
  <2> HIDE DEF L
  <2>2. rmsLevel.over * loudest * loudest <= rmsLevel.over * L * L
        /\ rmsLevel.over * loudest * loudest \in Nat /\ rmsLevel.over * L * L \in Nat
    BY <2>1, <1>2, SquaresGrow
  <2> QED
    BY <2>1, <2>2 DEF MeterInv
<1>7. CASE done
  <2>1. rmsSampleCount' = 0 /\ rmsAccumulator' = 0 /\ rmsLevel' = Taps!Rms(sum, rmsWindowSize, rewound)
    BY <1>7 DEF Taps!MeterSample, Taps!WindowClosed
  <2>2. rmsSampleCount' * Q * Q = 0 /\ rmsSampleCount' * L * L = 0
    BY <2>1, <1>1, <1>2
  <2>3. ~rewound => rmsSampleCount + 1 = rmsWindowSize
    BY <1>7 DEF MeterInv
  <2>4. /\ rmsLevel' = Taps!Rms(rmsLevel'.sum, rmsLevel'.over, rmsLevel'.rewound)
        /\ rmsLevel'.sum = sum /\ rmsLevel'.over = rmsWindowSize /\ rmsLevel'.rewound = rewound
    BY <2>1 DEF Taps!Rms
  <2>5. ~rmsLevel'.rewound => rmsLevel'.sum <= rmsLevel'.over * L * L
    BY <2>3, <2>4, <1>5
  <2> HIDE DEF L, Q, sum
  <2> QED
    BY <1>2, <1>3, <1>4, <1>5, <2>1, <2>2, <2>4, <2>5 DEF MeterInv, Q
<1>8. CASE ~done
  <2>1. rmsSampleCount' = count + 1 /\ rmsAccumulator' = sum /\ rmsLevel' = rmsLevel
    BY <1>8 DEF Taps!MeterSample
  <2>2. rmsSampleCount + 1 < rmsWindowSize
    BY <1>8 DEF MeterInv
  <2>3. count \in Nat
    BY DEF MeterInv
  <2> HIDE DEF L, sum
  <2> QED
    BY <1>2, <1>3, <1>4, <1>5, <1>6, <2>1, <2>2, <2>3 DEF MeterInv
<1> QED
  BY <1>7, <1>8

(* So do a new window and the resets.                                         *)
LEMMA MeterKept == ASSUME MeterInv, Taps!MetersNext PROVE MeterInv'
<1>1. CASE UNCHANGED Taps!meter
  BY <1>1 DEF Taps!meter, MeterInv
<1>2. ASSUME NEW level \in Levels, Taps!MeterSample(level) PROVE MeterInv'
  BY <1>2, MeterSampleKeeps
<1>3. ASSUME NEW n \in Windows, Taps!PrepareMeter(n) PROVE MeterInv'
  <2>1. n \in Nat \ {0}
    BY NodesAssumption
  <2>2. ~rewound' => ~rewound /\ (~(rmsSampleCount > 0) \/ n = rmsWindowSize)
    BY <1>3, Zenon DEF Taps!PrepareMeter
  <2> QED
    BY <1>3, <2>1, <2>2 DEF Taps!PrepareMeter, MeterInv
<1>4. CASE Taps!ResetMeter
  <2>1. 0 * Taps!Quietest * Taps!Quietest = 0
    BY QuietestLevel
  <2> QED
    BY <1>4, <2>1 DEF Taps!ResetMeter, MeterInv, Taps!Rms
<1>5. CASE Taps!ResetPeaks
  BY <1>5 DEF Taps!ResetPeaks, MeterInv
<1> QED
  BY <1>1, <1>2, <1>3, <1>4, <1>5 DEF Taps!MetersNext, Taps!Sample, Taps!SetBufferSize,
     Taps!SetTriggerEnabled, Taps!ResetScope

(* The invariant of the meter.                                                *)
THEOREM MeterInvariance == Spec => []MeterInv
<1>1. MeterInv /\ [Next]_vars => MeterInv'
  <2> SUFFICES ASSUME MeterInv, [Next]_vars PROVE MeterInv'
    OBVIOUS
  <2>1. CASE UNCHANGED meters
    BY <2>1 DEF MeterInv, meters
  <2>2. CASE TapsStep
    BY <2>2, MeterKept DEF TapsStep
  <2> QED
    BY <2>1, <2>2, OneSteps
<1> QED
  BY <1>1, MeterStarts, PTL DEF Spec

-----------------------------------------------------------------------------
(* The scope.                                                                 *)

(* The places of the buffer.                                                  *)
Places == 0..(bufferSize - 1)

(* The scope's buffer, without a trigger: the place j steps back holds the    *)
(* sample of j - 1 ago, as far back as samples were written.                  *)
TraceIsPast ==
  ~triggerEnabled =>
    \A j \in 1..bufferSize :
      j <= since => buffer[(scopeIndex + bufferSize - j) % bufferSize].at = tapTime + 1 - j

(* With one: a sweep that has begun fills the buffer from its head to the     *)
(* write index with the samples since the one that reached the level, and one *)
(* that is complete fills it all and waits for the next.                      *)
SweepFills ==
  /\ sweep \in {"none", "begun", "complete"}
  /\ sweep # "none" => /\ triggerEnabled
                       /\ buffer[0].level >= Taps!TriggerLevel
  /\ sweep = "begun" =>
       /\ triggered /\ scopeIndex > 0
       /\ \A i \in 0..(scopeIndex - 1) : buffer[i].at = tapTime + 1 + i - scopeIndex
  /\ sweep = "complete" =>
       /\ ~triggered /\ scopeIndex = 0
       /\ \A i \in Places : buffer[i].at = buffer[0].at + i

(* The two together; a meter keeps no trace.                                  *)
ScopeInv ==
  /\ tap \in {"scope", "meter"}
  /\ tap = "meter" => since = 0 /\ sweep = "none"
  /\ bufferSize \in Nat \ {0} /\ scopeIndex \in Places /\ tapTime \in Nat /\ since \in Nat
  /\ buffer \in [Places -> [at : Nat, level : Nat]]
  /\ TraceIsPast
  /\ SweepFills

(* Nothing has been written at first.                                         *)
LEMMA ScopeStarts == Init => ScopeInv
<1> SUFFICES ASSUME Taps!MetersInit PROVE ScopeInv
  BY DEF Init
<1>1. Taps!Silence \in [at : Nat, level : Nat]
  BY DEF Taps!Silence
<1>2. bufferSize = 2 /\ Places = 0..1 /\ buffer = [i \in 0..1 |-> Taps!Silence]
  BY DEF Taps!MetersInit, Places
<1>3. buffer \in [Places -> [at : Nat, level : Nat]]
  BY <1>1, <1>2
<1>4. TraceIsPast
  BY DEF Taps!MetersInit, TraceIsPast
<1>5. SweepFills
  BY DEF Taps!MetersInit, SweepFills
<1> QED
  BY <1>2, <1>3, <1>4, <1>5 DEF Taps!MetersInit, ScopeInv, Places

(* What a sample does to a scope, by the state of its trigger.                *)
LEMMA ScopeSampleCases ==
  ASSUME ScopeInv, NEW level \in Levels, Taps!ScopeSample(level)
  PROVE  /\ bufferSize' = bufferSize /\ triggerEnabled' = triggerEnabled
         /\ \/ /\ ~triggerEnabled
               /\ buffer' = [buffer EXCEPT ![scopeIndex] = [at |-> tapTime + 1, level |-> level]]
               /\ scopeIndex' = (scopeIndex + 1) % bufferSize /\ triggered' = triggered
               /\ since' = since + 1 /\ sweep' = sweep
            \/ /\ triggerEnabled /\ ~triggered /\ level >= Taps!TriggerLevel
               /\ buffer' = [buffer EXCEPT ![0] = [at |-> tapTime + 1, level |-> level]]
               /\ scopeIndex' = 1 % bufferSize /\ triggered' = (1 % bufferSize # 0)
               /\ since' = 1
               /\ sweep' = IF 1 % bufferSize = 0 THEN "complete" ELSE "begun"
            \/ /\ triggerEnabled /\ triggered
               /\ buffer' = [buffer EXCEPT ![scopeIndex] = [at |-> tapTime + 1, level |-> level]]
               /\ scopeIndex' = (scopeIndex + 1) % bufferSize
               /\ triggered' = ((scopeIndex + 1) % bufferSize # 0)
               /\ since' = since + 1
               /\ sweep' = IF (scopeIndex + 1) % bufferSize = 0 /\ sweep = "begun" THEN "complete"
                           ELSE sweep
            \/ /\ triggerEnabled /\ ~triggered
               /\ UNCHANGED <<buffer, scopeIndex, triggered, since, sweep>>
<1> DEFINE fires == Taps!Fires(level)
           writing == ~triggerEnabled \/ triggered \/ fires
           index == IF fires THEN Taps!IndexAtTrigger ELSE scopeIndex
           next == (index + 1) % bufferSize
<1>1. /\ buffer' = IF writing THEN [buffer EXCEPT ![index] = [at |-> tapTime + 1, level |-> level]] ELSE buffer
      /\ scopeIndex' = IF writing THEN next ELSE scopeIndex
      /\ triggered' = IF triggerEnabled /\ writing THEN next # 0 ELSE triggered
      /\ since' = IF ~writing THEN since ELSE IF fires THEN 1 ELSE since + 1
      /\ sweep' = IF ~triggerEnabled \/ ~writing THEN sweep
                 ELSE IF next = 0 /\ (fires \/ sweep = "begun") THEN "complete"
                 ELSE IF fires THEN "begun" ELSE sweep
      /\ bufferSize' = bufferSize /\ triggerEnabled' = triggerEnabled
  BY DEF Taps!ScopeSample
<1>2. fires <=> triggerEnabled /\ ~triggered /\ level >= Taps!TriggerLevel
  BY DEF Taps!Fires
<1>3. fires => index = 0 /\ next = 1 % bufferSize
  BY DEF Taps!IndexAtTrigger
<1>4. ~fires => index = scopeIndex /\ next = (scopeIndex + 1) % bufferSize
  OBVIOUS
<1> HIDE DEF fires, next, index
<1>5. CASE ~triggerEnabled
  BY <1>1, <1>2, <1>4, <1>5, Zenon
<1>6. CASE triggerEnabled /\ fires
  BY <1>1, <1>2, <1>3, <1>6, Zenon
<1>7. CASE triggerEnabled /\ triggered
  BY <1>1, <1>2, <1>4, <1>7, Zenon
<1>8. CASE triggerEnabled /\ ~triggered /\ ~fires
  BY <1>1, <1>8, Zenon
<1> QED
  BY <1>5, <1>6, <1>7, <1>8, Zenon

(* A function with one value written.                                         *)
LEMMA OneWritten ==
  ASSUME NEW P, NEW S, NEW f \in [P -> S], NEW p \in P, NEW x \in S,
         NEW g, g = [f EXCEPT ![p] = x]
  PROVE  g \in [P -> S] /\ g[p] = x /\ \A i \in P : i # p => g[i] = f[i]
OBVIOUS

(* A sample keeps the invariant of the scope.                                 *)
LEMMA ScopeSampleKeeps ==
  ASSUME ScopeInv, tap = "scope", tap' = tap, tapTime' = tapTime + 1,
         NEW level \in Levels, Taps!ScopeSample(level)
  PROVE  ScopeInv'
<1> DEFINE w == scopeIndex
           n == bufferSize
           sample == [at |-> tapTime + 1, level |-> level]
<1>1. n \in Nat \ {0} /\ w \in 0..(n - 1) /\ tapTime \in Nat /\ since \in Nat /\ level \in Nat
  BY NodesAssumption DEF ScopeInv, Places
<1>2. sample \in [at : Nat, level : Nat] /\ sample.at = tapTime + 1 /\ sample.level = level
  BY <1>1
<1>3. bufferSize' = n /\ triggerEnabled' = triggerEnabled /\ Places' = Places /\ Places = 0..(n - 1)
  BY ScopeSampleCases DEF Places
<1>4. buffer \in [Places -> [at : Nat, level : Nat]]
  BY DEF ScopeInv
<1>5. (w + 1) % n = IF w + 1 < n THEN w + 1 ELSE 0
  <2> DEFINE b == w + 1
  <2>1. b \in Nat /\ b < n + n
    BY <1>1
  <2>2. b % n = IF b < n THEN b ELSE b - n
    <3> HIDE DEF b, n
    <3> QED
      BY <2>1, <1>1, RestOfIndex
  <2> QED
    BY <1>1, <2>2
<1>6. 1 % n = IF 1 < n THEN 1 ELSE 0
  <2> HIDE DEF n
  <2>1. \A a \in Nat : a < n + n => a % n = IF a < n THEN a ELSE a - n
    BY <1>1, RestOfIndex
  <2>2. 1 \in Nat /\ 1 < n + n /\ 1 - n = IF n = 1 THEN 0 ELSE 1 - n
    BY <1>1
  <2>3. 1 % n = IF 1 < n THEN 1 ELSE 1 - n
    BY <2>1, <2>2, Zenon
  <2> QED
    BY <1>1, <2>3
<1> HIDE DEF sample
<1>7. CASE /\ ~triggerEnabled
           /\ buffer' = [buffer EXCEPT ![w] = sample]
           /\ scopeIndex' = (w + 1) % n
           /\ since' = since + 1 /\ sweep' = sweep
  <2>1. buffer' \in [Places -> [at : Nat, level : Nat]] /\ buffer'[w] = sample
        /\ \A i \in Places : i # w => buffer'[i] = buffer[i]
    BY <1>1, <1>2, <1>3, <1>4, <1>7, OneWritten
  <2>2. scopeIndex' \in 0..(n - 1)
    BY <1>1, <1>5, <1>7
  <2>3. sweep = "none"
    BY <1>7 DEF ScopeInv, SweepFills
  <2>4. ASSUME NEW k \in 1..n, k <= since + 1
        PROVE  buffer'[(scopeIndex' + n - k) % n].at = tapTime + 2 - k
    <3> DEFINE v == scopeIndex'
    <3>1. v = IF w + 1 < n THEN w + 1 ELSE 0
      BY <1>5, <1>7
    <3>2. (v + n - k) % n = IF k <= v THEN v - k ELSE v + n - k
      <4> HIDE DEF v, n
      <4> QED
        BY <1>1, <2>2, PlaceBack DEF v
    <3>3. CASE k = 1
      <4>1. (v + n - k) % n = w
        BY <3>1, <3>2, <3>3, <1>1
      <4> QED
        BY <3>3, <4>1, <2>1, <1>1, <1>2
    <3>4. CASE k > 1
      <4> DEFINE j == k - 1
                 place == (w + n - j) % n
      <4>1. j \in 1..n /\ j <= since
        BY <3>4, <2>4, <1>1
      <4>2. place = IF j <= w THEN w - j ELSE w + n - j
        <5> HIDE DEF j, w, n
        <5> QED
          BY <1>1, <4>1, PlaceBack
      <4>3. (v + n - k) % n = place /\ place # w /\ place \in 0..(n - 1)
        BY <3>1, <3>2, <3>4, <4>1, <4>2, <1>1
      <4>4. buffer[place].at = tapTime + 1 - j
        <5> HIDE DEF j
        <5> QED
          BY <1>7, <4>1 DEF ScopeInv, TraceIsPast
      <4> HIDE DEF place
      <4>5. buffer'[place].at = tapTime + 1 - j
        BY <2>1, <4>3, <4>4, <1>3
      <4> QED
        BY <4>3, <4>5, <3>4, <1>1
    <3> QED
      BY <3>3, <3>4, <1>1
  <2>5. TraceIsPast'
    BY <1>1, <1>3, <1>7, <2>4, SMTT(30) DEF TraceIsPast
  <2>6. SweepFills'
    BY <1>7, <2>3 DEF SweepFills
  <2> QED
    BY <1>1, <1>3, <1>7, <2>1, <2>2, <2>5, <2>6 DEF ScopeInv
<1>8. CASE /\ triggerEnabled /\ ~triggered /\ level >= Taps!TriggerLevel
           /\ buffer' = [buffer EXCEPT ![0] = sample]
           /\ scopeIndex' = 1 % n /\ triggered' = (1 % n # 0)
           /\ since' = 1
           /\ sweep' = IF 1 % n = 0 THEN "complete" ELSE "begun"
  <2>1. buffer' \in [Places -> [at : Nat, level : Nat]] /\ buffer'[0] = sample
    BY <1>1, <1>2, <1>3, <1>4, <1>8
  <2>2. scopeIndex' \in 0..(n - 1)
    BY <1>1, <1>6, <1>8
  <2>3. TraceIsPast'
    BY <1>3, <1>8 DEF TraceIsPast
  <2>0. triggerEnabled'
    BY <1>3, <1>8
  <2>4. triggered' <=> n > 1
    <3>1. (1 % n # 0) <=> n > 1
      BY <1>1, <1>6
    <3> QED
      BY <1>8, <3>1, Zenon
  <2>5. ASSUME n = 1 PROVE SweepFills'
    <3>1. sweep' = "complete" /\ scopeIndex' = 0 /\ ~triggered'
      BY <1>6, <1>8, <2>4, <2>5
    <3>2. \A i \in Places : i = 0
      BY <1>3, <2>5
    <3>3. buffer'[0].at \in Nat
      BY <2>1, <1>2, <1>1
    <3>4. level >= Taps!TriggerLevel
      BY <1>8
    <3> QED
      BY <1>2, <1>3, <3>4, <2>0, <2>1, <3>1, <3>2, <3>3 DEF SweepFills
  <2>6. ASSUME n > 1 PROVE SweepFills'
    <3>1. sweep' = "begun" /\ scopeIndex' = 1 /\ triggered'
      BY <1>6, <1>8, <2>4, <2>6
    <3>2. \A i \in 0..(scopeIndex' - 1) : buffer'[i].at = tapTime' + 1 + i - scopeIndex'
      BY <3>1, <2>1, <1>1, <1>2
    <3>3. level >= Taps!TriggerLevel
      BY <1>8
    <3> QED
      BY <1>2, <1>3, <2>0, <2>1, <3>1, <3>2, <3>3 DEF SweepFills
  <2>7. SweepFills'
    BY <2>5, <2>6, <1>1
  <2> QED
    BY <1>1, <1>3, <1>8, <2>1, <2>2, <2>3, <2>7 DEF ScopeInv
<1>9. CASE /\ triggerEnabled /\ triggered
           /\ buffer' = [buffer EXCEPT ![w] = sample]
           /\ scopeIndex' = (w + 1) % n
           /\ triggered' = ((w + 1) % n # 0)
           /\ since' = since + 1
           /\ sweep' = IF (w + 1) % n = 0 /\ sweep = "begun" THEN "complete" ELSE sweep
  <2>1. buffer' \in [Places -> [at : Nat, level : Nat]] /\ buffer'[w] = sample
        /\ \A i \in Places : i # w => buffer'[i] = buffer[i]
    BY <1>1, <1>2, <1>3, <1>4, <1>9, OneWritten
  <2>2. scopeIndex' \in 0..(n - 1)
    BY <1>1, <1>5, <1>9
  <2>3. TraceIsPast'
    BY <1>3, <1>9 DEF TraceIsPast
  <2>0. triggerEnabled'
    BY <1>3, <1>9
  <2>4. triggered' <=> w + 1 < n
    <3>1. ((w + 1) % n # 0) <=> w + 1 < n
      BY <1>1, <1>5
    <3> QED
      BY <1>9, <3>1, Zenon
  <2>5. sweep \in {"none", "begun"}
    BY <1>9 DEF ScopeInv, SweepFills
  <2>6. ASSUME sweep = "none" PROVE SweepFills'
    <3>1. sweep' = "none"
      BY <1>9, <2>6
    <3> QED
      BY <3>1 DEF SweepFills
  <2>7. ASSUME sweep = "begun" PROVE SweepFills'
    <3>1. /\ w > 0 /\ buffer[0].level >= Taps!TriggerLevel
          /\ \A i \in 0..(w - 1) : buffer[i].at = tapTime + 1 + i - w
      BY <2>7 DEF ScopeInv, SweepFills
    <3>2. buffer'[0] = buffer[0] /\ buffer'[0].level >= Taps!TriggerLevel
      BY <3>1, <2>1, <1>1, <1>3, SMTT(30)
    <3>3. \A i \in 0..w : buffer'[i].at = tapTime + 1 + i - w
      <4> SUFFICES ASSUME NEW i \in 0..w PROVE buffer'[i].at = tapTime + 1 + i - w
        OBVIOUS
      <4>1. CASE i = w
        BY <4>1, <2>1, <1>1, <1>2
      <4>2. CASE i < w
        <5>1. i \in 0..(w - 1) /\ i \in Places /\ i # w
          BY <4>2, <1>1, <1>3
        <5> QED
          BY <5>1, <3>1, <2>1
      <4> QED
        BY <4>1, <4>2, <1>1
    <3>4. CASE w + 1 < n
      <4>1. sweep' = "begun" /\ scopeIndex' = w + 1 /\ triggered'
        BY <1>1, <1>5, <1>9, <2>4, <2>7, <3>4
      <4>2. \A i \in 0..(scopeIndex' - 1) : buffer'[i].at = tapTime' + 1 + i - scopeIndex'
        BY <4>1, <3>3, <1>1
      <4> QED
        BY <4>1, <4>2, <3>2, <2>0, <1>1, <1>3 DEF SweepFills
    <3>5. CASE w + 1 = n
      <4>1. sweep' = "complete" /\ scopeIndex' = 0 /\ ~triggered'
        BY <1>1, <1>5, <1>9, <2>4, <2>7, <3>5
      <4>2. \A i \in Places : buffer'[i].at = buffer'[0].at + i
        <5>1. \A i \in 0..w : buffer'[i].at = tapTime + 1 + i - w
          BY <3>3
        <5>2. buffer'[0].at = tapTime + 1 - w
          BY <5>1, <1>1
        <5> SUFFICES ASSUME NEW i \in 0..(n - 1) PROVE buffer'[i].at = buffer'[0].at + i
          BY <1>3
        <5>3. i \in 0..w /\ w = n - 1
          BY <3>5, <1>1
        <5>4. buffer'[i].at = tapTime + 1 + i - w
          BY <5>1, <5>3
        <5> QED
          BY <5>2, <5>4, <1>1
      <4> QED
        BY <4>1, <4>2, <3>2, <2>0, <1>3 DEF SweepFills
    <3> QED
      BY <3>4, <3>5, <1>1
  <2>8. SweepFills'
    BY <2>5, <2>6, <2>7
  <2> QED
    BY <1>1, <1>3, <1>9, <2>1, <2>2, <2>3, <2>8 DEF ScopeInv
<1>10. CASE /\ triggerEnabled /\ ~triggered
            /\ UNCHANGED <<buffer, scopeIndex, triggered, since, sweep>>
  <2>1. SweepFills'
    BY <1>3, <1>10 DEF ScopeInv, SweepFills
  <2> QED
    BY <1>3, <1>10, <2>1 DEF ScopeInv, TraceIsPast
<1> QED
  BY <1>7, <1>8, <1>9, <1>10, ScopeSampleCases DEF sample

(* A new size, the trigger switched, and a reset start over.                  *)
LEMMA ScopeKept == ASSUME ScopeInv, Taps!MetersNext PROVE ScopeInv'
<1>1. ASSUME NEW level \in Levels, Taps!Sample(level) PROVE ScopeInv'
  <2>1. tap' = tap /\ tapTime' = tapTime + 1
    BY <1>1 DEF Taps!Sample
  <2>2. CASE tap = "scope"
    BY <1>1, <2>1, <2>2, ScopeSampleKeeps DEF Taps!Sample
  <2>3. CASE tap = "meter"
    BY <1>1, <2>1, <2>3 DEF Taps!Sample, Taps!scope, ScopeInv, Places, TraceIsPast, SweepFills
  <2> QED
    BY <2>2, <2>3 DEF ScopeInv
<1>2. ASSUME since' = 0, sweep' = "none", UNCHANGED <<tap, tapTime>>,
             bufferSize' \in Nat \ {0}, scopeIndex' \in Places',
             buffer' \in [Places' -> [at : Nat, level : Nat]]
      PROVE  ScopeInv'
  <2>1. TraceIsPast'
    BY <1>2 DEF TraceIsPast
  <2>2. SweepFills'
    BY <1>2 DEF SweepFills
  <2> QED
    BY <1>2, <2>1, <2>2 DEF ScopeInv
<1>3. Taps!Silence \in [at : Nat, level : Nat]
  BY DEF Taps!Silence
<1>4. ASSUME NEW n \in BufferSizes, Taps!SetBufferSize(n) PROVE ScopeInv'
  <2>1. n \in Nat \ {0}
    BY NodesAssumption
  <2>2. Places' = 0..(n - 1) /\ scopeIndex' = 0
    BY <1>4 DEF Taps!SetBufferSize, Places
  <2>3. \A i \in 0..(n - 1) : i < bufferSize => buffer[i] \in [at : Nat, level : Nat]
    BY <2>1 DEF ScopeInv, Places
  <2>4. buffer' = [i \in 0..(n - 1) |-> IF i < bufferSize THEN buffer[i] ELSE Taps!Silence]
    BY <1>4 DEF Taps!SetBufferSize
  <2>5. buffer' \in [Places' -> [at : Nat, level : Nat]]
    BY <1>3, <2>2, <2>3, <2>4
  <2> QED
    BY <1>2, <1>4, <2>1, <2>2, <2>5 DEF Taps!SetBufferSize
<1>5. ASSUME NEW on \in BOOLEAN, Taps!SetTriggerEnabled(on) PROVE ScopeInv'
  BY <1>2, <1>5 DEF Taps!SetTriggerEnabled, ScopeInv, Places
<1>6. CASE Taps!ResetScope
  <2>1. Places' = Places /\ buffer' = [i \in Places |-> Taps!Silence] /\ scopeIndex' = 0
    BY <1>6 DEF Taps!ResetScope, ScopeInv, Places
  <2>2. buffer' \in [Places' -> [at : Nat, level : Nat]]
    BY <1>3, <2>1
  <2>3. scopeIndex' \in Places' /\ bufferSize' \in Nat \ {0}
    BY <1>6, <2>1 DEF Taps!ResetScope, ScopeInv, Places
  <2> QED
    BY <1>2, <1>6, <2>2, <2>3 DEF Taps!ResetScope
<1>7. CASE UNCHANGED <<tap, Taps!scope, tapTime>>
  BY <1>7 DEF Taps!scope, ScopeInv, Places, TraceIsPast, SweepFills
<1> QED
  BY <1>1, <1>4, <1>5, <1>6, <1>7 DEF Taps!MetersNext, Taps!PrepareMeter, Taps!ResetMeter, Taps!ResetPeaks

(* The invariant of the scope.                                                *)
THEOREM ScopeInvariance == Spec => []ScopeInv
<1>1. ScopeInv /\ [Next]_vars => ScopeInv'
  <2> SUFFICES ASSUME ScopeInv, [Next]_vars PROVE ScopeInv'
    OBVIOUS
  <2>1. CASE UNCHANGED meters
    BY <2>1 DEF ScopeInv, Places, TraceIsPast, SweepFills, meters
  <2>2. CASE TapsStep
    BY <2>2, ScopeKept DEF TapsStep
  <2> QED
    BY <2>1, <2>2, OneSteps
<1> QED
  BY <1>1, ScopeStarts, PTL DEF Spec

(* The trace that is read out, oldest first, is without a gap.                *)
LEMMA TraceReads == ScopeInv => Taps!TraceIsContiguous
<1> SUFFICES ASSUME ScopeInv PROVE Taps!TraceIsContiguous
  OBVIOUS
<1>1. bufferSize \in Nat \ {0} /\ scopeIndex \in 0..(bufferSize - 1) /\ since \in Nat /\ tapTime \in Nat
  BY DEF ScopeInv, Places
<1>2. ASSUME ~triggerEnabled, NEW i \in 0..(bufferSize - 1), i + since >= bufferSize
      PROVE  Taps!Waveform(i).at = tapTime + 1 + i - bufferSize
  <2> DEFINE j == bufferSize - i
  <2>1. j \in 1..bufferSize /\ j <= since /\ scopeIndex + bufferSize - j = scopeIndex + i
    BY <1>1, <1>2
  <2>2. buffer[(scopeIndex + bufferSize - j) % bufferSize].at = tapTime + 1 - j
    <3> HIDE DEF j
    <3> QED
      BY <1>2, <2>1 DEF ScopeInv, TraceIsPast
  <2>3. Taps!Waveform(i).at = tapTime + 1 - j
    BY <2>1, <2>2 DEF Taps!Waveform
  <2> QED
    BY <2>3, <1>1
<1>3. ASSUME sweep = "complete"
      PROVE  /\ Taps!Waveform(0).level >= Taps!TriggerLevel
             /\ \A i \in 1..(bufferSize - 1) : Taps!Waveform(i).at = Taps!Waveform(0).at + i
  <2>1. /\ scopeIndex = 0 /\ buffer[0].level >= Taps!TriggerLevel
        /\ \A i \in 0..(bufferSize - 1) : buffer[i].at = buffer[0].at + i
    BY <1>3 DEF ScopeInv, SweepFills, Places
  <2>2. \A i \in 0..(bufferSize - 1) : (scopeIndex + i) % bufferSize = i
    BY <2>1, <1>1, RestOfIndex
  <2>3. \A i \in 0..(bufferSize - 1) : Taps!Waveform(i) = buffer[i]
    BY <2>2 DEF Taps!Waveform
  <2> QED
    BY <1>1, <2>1, <2>3
<1> QED
  BY <1>2, <1>3 DEF Taps!TraceIsContiguous

-----------------------------------------------------------------------------
(* The resampler.                                                             *)

(* The ceiling of a quotient: the least number of steps that reaches a.       *)
LEMMA StepsReach ==
  ASSUME NEW a \in Nat, NEW s \in Nat \ {0}
  PROVE  /\ Resample!CeilDiv(a, s) \in Nat
         /\ Resample!CeilDiv(a, s) * s >= a
         /\ \A i \in Nat : i < Resample!CeilDiv(a, s) => i * s < a
<1> DEFINE q == (a + s - 1) \div s
<1>1. q \in Int /\ q * s <= a + s - 1 /\ a + s - 1 < q * s + s
  OBVIOUS
<1>2. q >= 0
  OBVIOUS
<1> HIDE DEF q
<1>3. ASSUME NEW i \in Nat, i < q PROVE i * s < a
  <2>1. (q - i - 1) * s >= 0
    BY <1>1, <1>3
  <2>2. (q - i - 1) * s = q * s - i * s - s
    BY <1>1
  <2> QED
    BY <2>1, <2>2, <1>1
<1>4. q * s >= a
  BY <1>1
<1>5. Resample!CeilDiv(a, s) = q
  BY DEF Resample!CeilDiv, q
<1> QED
  BY <1>1, <1>2, <1>3, <1>4, <1>5

(* A block as it was converted: the output size is what it should be, or one  *)
(* more where a quotient without a rest was rounded up.                       *)
BlockSized ==
  /\ block \in [frames : Nat, outputs : Nat, step : Nat \ {0}, quality : Resample!Qualities,
                rounded : BOOLEAN]
  /\ ~block.rounded => block.outputs = Resample!getOutputSize(block.frames, block.step)
  /\ block.rounded =>
       /\ block.outputs = Resample!getOutputSize(block.frames, block.step) + 1
       /\ (block.frames * Resample!One) % block.step = 0

(* The stream: its phase is behind its inputs by as much as its outputs are   *)
(* ahead, and what the last call made is in its place.                        *)
ResamplerInv ==
  /\ quality \in Resample!Qualities
  /\ ratio \in Nat \ {0} /\ phase \in Nat /\ origin \in Nat /\ produced \in Nat /\ consumed \in Nat
  /\ BlockSized
  /\ Resample!StreamCounts
  /\ Resample!StreamInPlace

(* The stream starts at phase 0, without a block.                             *)
LEMMA ResamplerStarts == Init => ResamplerInv
<1> SUFFICES ASSUME Resample!ResamplerInit PROVE ResamplerInv
  BY DEF Init
<1>1. BlockSized
  BY DEF Resample!ResamplerInit, BlockSized, Resample!NoBlock, Resample!getOutputSize, Resample!CeilDiv,
     Resample!One, Resample!Qualities
<1>2. Resample!StreamCounts
  BY DEF Resample!ResamplerInit, Resample!StreamCounts, Resample!One
<1>3. Resample!StreamInPlace
  BY DEF Resample!ResamplerInit, Resample!NoCall, Resample!StreamInPlace
<1> QED
  BY <1>1, <1>2, <1>3 DEF Resample!ResamplerInit, ResamplerInv, Resample!One

(* An output stands for its phase, or for the last frame when the phase lies  *)
(* beyond it.                                                                 *)
LEMMA SeamReached ==
  ASSUME NEW p \in Nat, NEW n \in Nat, NEW c \in Nat, p < n * Resample!One
  PROVE  LET due == c * Resample!One + p
             seam == (c + n - 1) * Resample!One
         IN c * Resample!One + Resample!Sampled(p, n) = IF due <= seam THEN due ELSE seam
BY DEF Resample!Sampled, Resample!One

(* A call of the stream: the phase goes on by its outputs and back by its     *)
(* inputs.                                                                    *)
LEMMA ProcessKeeps ==
  ASSUME ResamplerInv, NEW n \in Nat, NEW room \in Nat, Resample!Process(n, room)
  PROVE  ResamplerInv'
<1> DEFINE due == Resample!Due(n)
           outputs == IF due < room THEN due ELSE room
<1>1. /\ due \in Nat /\ phase + due * ratio >= n * Resample!One
      /\ \A k \in Nat : k < due => phase + k * ratio < n * Resample!One
  <2>1. CASE phase >= n * Resample!One
    BY <2>1 DEF ResamplerInv, Resample!Due, Resample!One
  <2>2. CASE phase < n * Resample!One
    <3> DEFINE a == n * Resample!One - phase
    <3>1. a \in Nat
      BY <2>2 DEF ResamplerInv, Resample!One
    <3>2. due = Resample!CeilDiv(a, ratio)
      BY <2>2 DEF ResamplerInv, Resample!Due, Resample!One
    <3> HIDE DEF a, due
    <3>3. due \in Nat /\ due * ratio >= a /\ \A k \in Nat : k < due => k * ratio < a
      BY <3>1, <3>2, StepsReach DEF ResamplerInv
    <3>4. ASSUME NEW k \in Nat, k < due PROVE phase + k * ratio < n * Resample!One
      <4>1. k * ratio < a /\ k * ratio \in Nat
        BY <3>3, <3>4 DEF ResamplerInv
      <4> QED
        BY <4>1 DEF a, ResamplerInv, Resample!One
    <3>5. due \in Nat /\ phase + due * ratio >= n * Resample!One
      BY <3>3 DEF a, ResamplerInv, Resample!One
    <3> QED
      BY <3>4, <3>5
  <2> QED
    BY <2>1, <2>2 DEF ResamplerInv, Resample!One
<1>2. outputs \in Nat /\ outputs <= due
  BY <1>1
<1>3. /\ phase' = Resample!Carried(phase + outputs * ratio, n)
      /\ produced' = produced + outputs /\ consumed' = consumed + n
      /\ ratio' = ratio /\ origin' = origin /\ quality' = quality /\ block' = block
  BY DEF Resample!Process
<1>4. ~cramped' => ~cramped /\ ~(outputs < due)
  BY Zenon DEF Resample!Process
<1>11. call' = [frames |-> n, produced |-> produced, consumed |-> consumed,
                output |-> [k \in 0..(outputs - 1) |-> Resample!Sampled(phase + k * ratio, n)]]
  BY DEF Resample!Process
<1> HIDE DEF due, outputs
<1>5. outputs * ratio \in Nat /\ (produced + outputs) * ratio = produced * ratio + outputs * ratio
      /\ produced * ratio \in Nat
  BY <1>2 DEF ResamplerInv
<1>6. ~cramped' => outputs = due
  BY <1>1, <1>2, <1>4
<1> DEFINE moved == outputs * ratio
           made == produced * ratio
<1>7. phase + consumed * Resample!One >= origin + made
      /\ (~cramped => phase + consumed * Resample!One = origin + made)
  BY <1>5 DEF ResamplerInv, Resample!StreamCounts, Resample!One
<1>8. phase' \in Nat /\ phase' >= phase + moved - n * Resample!One
      /\ (~cramped' => phase' = phase + moved - n * Resample!One)
  BY <1>1, <1>3, <1>5, <1>6 DEF ResamplerInv, Resample!Carried, Resample!One
<1>9. produced' * ratio' = made + moved
  BY <1>3, <1>5
<1> HIDE DEF moved, made
<1>10. Resample!StreamCounts'
  BY <1>3, <1>4, <1>5, <1>7, <1>8, <1>9 DEF ResamplerInv, Resample!StreamCounts, Resample!One, moved, made
<1>12. ASSUME ~cramped', NEW k \in DOMAIN call'.output
       PROVE  LET spot == origin' + (call'.produced + k) * ratio'
                  seam == (call'.consumed + call'.frames - 1) * Resample!One
              IN call'.consumed * Resample!One + call'.output[k] = IF spot <= seam THEN spot ELSE seam
  <2> DEFINE p == phase + k * ratio
             kth == k * ratio
  <2>1. k \in Nat /\ k < outputs /\ call'.output[k] = Resample!Sampled(p, n)
        /\ call'.produced = produced /\ call'.consumed = consumed /\ call'.frames = n
    BY <1>2, <1>11, <1>12
  <2>2. p \in Nat /\ p < n * Resample!One
    BY <1>1, <1>2, <2>1 DEF ResamplerInv
  <2>3. kth \in Nat /\ (produced + k) * ratio = made + kth /\ p = phase + kth
    BY <2>1 DEF ResamplerInv, made
  <2> HIDE DEF kth
  <2>4. origin + (produced + k) * ratio = consumed * Resample!One + p
    BY <1>4, <1>5, <1>7, <1>12, <2>3 DEF ResamplerInv, Resample!One, made
  <2> HIDE DEF p
  <2>5. LET spot == consumed * Resample!One + p
            seam == (consumed + n - 1) * Resample!One
        IN consumed * Resample!One + Resample!Sampled(p, n) = IF spot <= seam THEN spot ELSE seam
    BY <2>2, SeamReached DEF ResamplerInv
  <2> QED
    BY <1>3, <2>1, <2>4, <2>5
<1>13. Resample!StreamInPlace'
  BY <1>12 DEF Resample!StreamInPlace
<1> QED
  BY <1>2, <1>3, <1>8, <1>10, <1>13 DEF ResamplerInv, BlockSized

(* Every call keeps it.                                                       *)
LEMMA ResamplerKept == ASSUME ResamplerInv, Resample!ResamplerNext PROVE ResamplerInv'
<1>1. ASSUME NEW n \in 1..MaxInput, NEW step \in Steps, NEW up \in BOOLEAN,
             Resample!Resample(n, step, up)
      PROVE  ResamplerInv'
  <2>1. n \in Nat /\ step \in Nat \ {0} /\ quality \in Resample!Qualities
    BY NodesAssumption DEF ResamplerInv
  <2>2. Resample!getOutputSize(n, step) \in Nat
    BY <2>1, StepsReach DEF Resample!getOutputSize, Resample!One
  <2>3. block' = [frames |-> n, step |-> step, quality |-> quality, rounded |-> up,
               outputs |-> IF up THEN Resample!getOutputSize(n, step) + 1 ELSE Resample!getOutputSize(n, step)]
    BY <1>1 DEF Resample!Resample
  <2>4. up => (n * Resample!One) % step = 0
    BY <1>1 DEF Resample!Resample
  <2>5. BlockSized'
    BY <2>1, <2>2, <2>3, <2>4 DEF BlockSized
  <2> QED
    BY <1>1, <2>5 DEF Resample!Resample, ResamplerInv, Resample!StreamCounts, Resample!StreamInPlace
<1>2. ASSUME NEW q \in Resample!Qualities, Resample!SetQuality(q) PROVE ResamplerInv'
  BY <1>2 DEF Resample!SetQuality, ResamplerInv, BlockSized, Resample!StreamCounts,
     Resample!StreamInPlace
<1>3. ASSUME NEW step \in Steps, Resample!SetRatio(step) PROVE ResamplerInv'
  <2>1. step \in Nat \ {0}
    BY NodesAssumption
  <2> QED
    BY <1>3, <2>1 DEF Resample!SetRatio, Resample!Restart, Resample!NoCall, ResamplerInv, BlockSized,
       Resample!StreamCounts, Resample!StreamInPlace, Resample!One
<1>4. CASE Resample!ResetStream
  BY <1>4 DEF Resample!ResetStream, Resample!Restart, Resample!NoCall, ResamplerInv, BlockSized,
     Resample!StreamCounts, Resample!StreamInPlace, Resample!One
<1>5. ASSUME NEW n \in 1..MaxInput, NEW room \in Rooms, Resample!Process(n, room) PROVE ResamplerInv'
  BY <1>5, ProcessKeeps, NodesAssumption
<1> QED
  BY <1>1, <1>2, <1>3, <1>4, <1>5 DEF Resample!ResamplerNext

(* The invariant of the resampler.                                            *)
THEOREM ResamplerInvariance == Spec => []ResamplerInv
<1>1. ResamplerInv /\ [Next]_vars => ResamplerInv'
  <2> SUFFICES ASSUME ResamplerInv, [Next]_vars PROVE ResamplerInv'
    OBVIOUS
  <2>1. CASE UNCHANGED resampler
    BY <2>1 DEF ResamplerInv, BlockSized, Resample!StreamCounts, Resample!StreamInPlace, resampler
  <2>2. CASE ResamplerStep
    BY <2>2, ResamplerKept DEF ResamplerStep
  <2> QED
    BY <2>1, <2>2, OneSteps
<1> QED
  BY <1>1, ResamplerStarts, PTL DEF Spec

(* What the block conversion reads is inside the padded copy.                 *)
LEMMA BlockReads == ResamplerInv => Resample!BlockInBounds
<1> SUFFICES ASSUME ResamplerInv, NEW i \in 0..(block.outputs - 1)
             PROVE  LET source == Resample!SourceIndex(i, block.step) IN
      /\ source + Resample!filterTaps(block.quality) \div 2 < block.frames + Resample!filterTaps(block.quality)
      /\ (block.rounded => block.quality # "Medium") =>
           Resample!Taps(block.quality, source)
             \subseteq 0..(block.frames + Resample!filterTaps(block.quality) - 1)
  BY DEF Resample!BlockInBounds, Resample!Sources
<1> DEFINE source == Resample!SourceIndex(i, block.step)
           frames == block.frames
           step == block.step
           taps == Resample!filterTaps(block.quality)
<1>1. frames \in Nat /\ step \in Nat \ {0} /\ block.outputs \in Nat /\ block.quality \in Resample!Qualities
      /\ block.rounded \in BOOLEAN /\ i \in Nat
  BY DEF ResamplerInv, BlockSized
<1> DEFINE whole == frames * 2
           size1 == Resample!CeilDiv(whole, step)
<1>2. whole \in Nat /\ size1 = Resample!getOutputSize(frames, step)
  BY <1>1 DEF Resample!getOutputSize, Resample!One
<1>3. /\ size1 \in Nat /\ size1 * step >= whole
      /\ \A k \in Nat : k < size1 => k * step < whole
  <2> HIDE DEF whole, step
  <2> QED
    BY <1>1, <1>2, StepsReach
<1>4. i < size1 \/ (block.rounded /\ i = size1)
  BY <1>1, <1>2, <1>3 DEF ResamplerInv, BlockSized
<1>5. i < size1 => i * step < whole
  BY <1>1, <1>3
<1>6. ASSUME block.rounded, i = size1 PROVE i * step = whole
  <2>1. whole % step = 0
    BY <1>6, <1>2 DEF ResamplerInv, BlockSized, Resample!One
  <2>2. PICK k \in Nat : whole = k * step
    <3> HIDE DEF whole, step
    <3> QED
      BY <1>1, <1>2, <2>1
  <2>3. size1 = k
    <3>1. size1 >= k
      <4> SUFFICES ASSUME size1 < k PROVE FALSE
        BY <1>3
      <4> HIDE DEF size1, step, whole
      <4> DEFINE ahead == k - size1
      <4>0. ahead \in Nat /\ ahead >= 1
        BY <1>3
      <4>1. ahead * step >= step
        <5> HIDE DEF ahead
        <5> QED
          BY <4>0, <1>1
      <4>2. (k - size1) * step = k * step - size1 * step
        BY <1>1, <1>3
      <4> QED
        BY <4>1, <4>2, <1>1, <1>2, <1>3, <2>2
    <3>2. ~(k < size1)
      BY <1>2, <1>3, <2>2
    <3> QED
      BY <1>3, <3>1, <3>2
  <2> QED
    BY <1>6, <2>2, <2>3
<1>7. source = (i * step) \div 2
  BY DEF Resample!SourceIndex, Resample!One
<1>8. i * step \in Nat
  BY <1>1
<1>9. source \in Nat /\ source <= frames /\ (~block.rounded => source < frames)
  <2> DEFINE at == i * step
  <2>1. at \in Nat /\ at <= whole /\ (~block.rounded => at < whole)
    BY <1>2, <1>4, <1>5, <1>6, <1>8
  <2>2. source = at \div 2
    BY <1>7
  <2> HIDE DEF at, source
  <2> QED
    BY <2>1, <2>2, <1>1
<1> HIDE DEF source, frames
<1>10. taps \in {2, 4, 8, 32}
  BY <1>1 DEF Resample!filterTaps, Resample!Qualities
<1>11. source + taps \div 2 < frames + taps
  BY <1>1, <1>9, <1>10
<1>12. ASSUME block.rounded => block.quality # "Medium"
       PROVE  Resample!Taps(block.quality, source) \subseteq 0..(frames + taps - 1)
  <2>1. CASE block.quality = "Fast"
    BY <2>1, <1>1, <1>9 DEF Resample!Taps, Resample!filterTaps
  <2>2. CASE block.quality = "Medium"
    BY <2>2, <1>12, <1>1, <1>9 DEF Resample!Taps, Resample!filterTaps
  <2>3. CASE block.quality \in {"High", "Best"}
    BY <2>3, <1>10, <1>1, <1>9 DEF Resample!Taps
  <2> QED
    BY <2>1, <2>2, <2>3, <1>1 DEF Resample!Qualities
<1> QED
  BY <1>11, <1>12 DEF source, frames

-----------------------------------------------------------------------------
(* MIDI messages.                                                             *)

(* Data bytes.                                                               *)
Bytes7 == 0..127

(* A message is what one of the factories makes of its arguments.            *)
MidiInv ==
  \/ built = Midi!NoArguments
  \/ \E k \in DOMAIN Midi!TwoData, ch \in 0..15, x, y \in Bytes7 :
       message = <<Midi!TwoData[k] + ch, x, y>> /\ built = [by |-> k, channel |-> ch, args |-> <<x, y>>]
  \/ \E k \in DOMAIN Midi!OneData, ch \in 0..15, x \in Bytes7 :
       message = <<Midi!OneData[k] + ch, x>> /\ built = [by |-> k, channel |-> ch, args |-> <<x>>]
  \/ \E ch \in 0..15, v \in Int :
       /\ message = <<224 + ch, Midi!Low7(Midi!BendNumber(v)), Midi!High7(Midi!BendNumber(v))>>
       /\ built = [by |-> "PitchBend", channel |-> ch, args |-> <<v>>]
  \/ \E k \in DOMAIN Midi!NoData :
       message = <<Midi!NoData[k]>> /\ built = [by |-> k, channel |-> 0, args |-> <<>>]
  \/ \E b \in Int :
       /\ message = <<242, Midi!Low7(b), Midi!High7(b)>>
       /\ built = [by |-> "SongPosition", channel |-> 0, args |-> <<Midi!Wrap14(b)>>]
  \/ \E k \in {"SongSelect", "TimeCode"}, x \in Bytes7 :
       /\ message = <<IF k = "SongSelect" THEN 243 ELSE 241, x>>
       /\ built = [by |-> k, channel |-> 0, args |-> <<x>>]

(* What messages are built from are numbers.                                  *)
LEMMA NodesNumbers ==
  /\ \A c \in Channels : c \in Int
  /\ \A x \in Sevens : x \in Int
  /\ \A b \in Fourteens : b \in Int
  /\ \A v \in Bends : v \in Int
BY NodesAssumption

(* Up to three bytes are stored whole.                                        *)
LEMMA ShortFits ==
  ASSUME NEW a \in Int, NEW b \in Int, NEW c \in Int
  PROVE  /\ Midi!Truncated(<<a>>) = <<a>>
         /\ Midi!Truncated(<<a, b>>) = <<a, b>>
         /\ Midi!Truncated(<<a, b, c>>) = <<a, b, c>>
<1>1. <<a>> \in Seq(Int) /\ <<a, b>> \in Seq(Int) /\ <<a, b, c>> \in Seq(Int)
  OBVIOUS
<1>2. Len(<<a>>) = 1 /\ Len(<<a, b>>) = 2 /\ Len(<<a, b, c>>) = 3
      /\ 1 <= 3 /\ 2 <= 3 /\ 3 <= 3
  OBVIOUS
<1>3. ASSUME NEW s \in Seq(Int), Len(s) <= 3 PROVE Midi!Truncated(s) = s
  <2>1. (IF Len(s) > 3 THEN 3 ELSE Len(s)) = Len(s)
    <3>1. Len(s) \in Nat
      OBVIOUS
    <3> QED
      BY <1>3, <3>1
  <2>2. SubSeq(s, 1, Len(s)) = s
    BY SubSeqFull
  <2> QED
    BY <2>1, <2>2, Zenon DEF Midi!Truncated
<1>4. Midi!Truncated(<<a>>) = <<a>>
  BY <1>1, <1>2, <1>3, Zenon
<1>5. Midi!Truncated(<<a, b>>) = <<a, b>>
  BY <1>1, <1>2, <1>3, Zenon
<1>6. Midi!Truncated(<<a, b, c>>) = <<a, b, c>>
  BY <1>1, <1>2, <1>3, Zenon
<1> QED
  BY <1>4, <1>5, <1>6

(* One byte before none, one or two.                                          *)
LEMMA ByteBefore ==
  ASSUME NEW a \in Int, NEW b \in Int, NEW c \in Int
  PROVE  /\ <<a>> \o <<>> = <<a>>
         /\ <<a>> \o <<b>> = <<a, b>>
         /\ <<a>> \o <<b, c>> = <<a, b, c>>
<1>1. /\ <<>> \in Seq(Int) /\ <<a>> \in Seq(Int) /\ <<b>> \in Seq(Int)
      /\ <<b, c>> \in Seq(Int) /\ <<a, b>> \in Seq(Int) /\ <<a, b, c>> \in Seq(Int)
  OBVIOUS
<1>2. <<a>> \o <<>> = <<a>>
  BY <1>1, ConcatEmptySeq
<1>3. <<a>> \o <<b>> = <<a, b>>
  <2> DEFINE s == <<a>> \o <<b>>
  <2>1. s \in Seq(Int) /\ Len(s) = 2 /\ s[1] = a /\ s[2] = b
    BY <1>1, ConcatProperties
  <2> HIDE DEF s
  <2>2. s = <<a, b>>
    BY <1>1, <2>1, SeqEqual
  <2> QED
    BY <2>2 DEF s
<1>4. <<a>> \o <<b, c>> = <<a, b, c>>
  <2> DEFINE s == <<a>> \o <<b, c>>
  <2>1. s \in Seq(Int) /\ Len(s) = 3 /\ s[1] = a /\ s[2] = b /\ s[3] = c
    BY <1>1, ConcatProperties
  <2> HIDE DEF s
  <2>2. s = <<a, b, c>>
    BY <1>1, <2>1, SeqEqual
  <2> QED
    BY <2>2 DEF s
<1> QED
  BY <1>2, <1>3, <1>4

(* A bend in range is not wrapped.                                            *)
LEMMA BendFits ==
  ASSUME NEW v \in Int, v + 8192 \in Nat, v + 8192 < 16384 PROVE Midi!BendNumber(v) = v + 8192
<1> DEFINE m == v + 8192
<1>1. m \in Nat /\ m < 16384
  OBVIOUS
<1>2. m % 16384 = m
  <2> HIDE DEF m
  <2> QED
    BY <1>1, RestOfIndex
<1> QED
  BY <1>2 DEF Midi!BendNumber, Midi!Wrap14

(* The status bytes of the factories.                                         *)
LEMMA StatusBytes ==
  /\ DOMAIN Midi!TwoData = {"NoteOff", "NoteOn", "PolyPressure", "ControlChange"}
  /\ Midi!TwoData["NoteOff"] = 128 /\ Midi!TwoData["NoteOn"] = 144
  /\ Midi!TwoData["PolyPressure"] = 160 /\ Midi!TwoData["ControlChange"] = 176
  /\ DOMAIN Midi!OneData = {"ProgramChange", "ChannelPressure"}
  /\ Midi!OneData["ProgramChange"] = 192 /\ Midi!OneData["ChannelPressure"] = 208
BY DEF Midi!TwoData, Midi!OneData

LEMMA SingleBytes ==
  /\ DOMAIN Midi!NoData = {"TuneRequest", "TimingClock", "Start", "Continue", "Stop", "ActiveSensing",
                           "SystemReset"}
  /\ Midi!NoData["TuneRequest"] = 246 /\ Midi!NoData["TimingClock"] = 248
  /\ Midi!NoData["Start"] = 250 /\ Midi!NoData["Continue"] = 251 /\ Midi!NoData["Stop"] = 252
  /\ Midi!NoData["ActiveSensing"] = 254 /\ Midi!NoData["SystemReset"] = 255
BY DEF Midi!NoData

(* Seven bits of a number, and fourteen in two halves.                        *)
LEMMA SevenBits ==
  ASSUME NEW n \in Int
  PROVE  /\ Midi!Low7(n) \in Bytes7 /\ Midi!High7(n) \in Bytes7
         /\ Midi!High7(n) * 128 + Midi!Low7(n) = Midi!Wrap14(n)
         /\ Midi!Wrap14(n) \in 0..16383
<1> DEFINE q == n \div 128
           r == n % 128
<1>1. q \in Int /\ r \in 0..127 /\ n = q * 128 + r
  OBVIOUS
<1>2. n % 16384 = (q % 128) * 128 + r
  <2> HIDE DEF q, r
  <2> QED
    BY <1>1
<1>3. q % 128 \in 0..127
  BY <1>1
<1> QED
  BY <1>1, <1>2, <1>3, SMTT(30) DEF Bytes7, Midi!Low7, Midi!High7, Midi!Wrap14

LEMMA BitsAreNumbers ==
  ASSUME NEW n \in Int PROVE Midi!Low7(n) \in Int /\ Midi!High7(n) \in Int /\ Midi!Low7(n) \in Bytes7
<1>1. \A m \in Bytes7 : m \in Int
  BY DEF Bytes7
<1> QED
  BY <1>1, SevenBits

LEMMA LowOfLow == ASSUME NEW x \in Bytes7 PROVE Midi!Low7(x) = x
BY DEF Bytes7, Midi!Low7

LEMMA ChannelBits == ASSUME NEW c \in Int PROVE c % 16 \in 0..15
OBVIOUS

LEMMA MidiStarts == Init => MidiInv
BY DEF Init, MidiInv, Midi!MidiMessageInit

(* What Make() leaves of one, two and no bytes of data.                       *)
LEMMA OneDataMade ==
  ASSUME NEW name, NEW status \in Int, NEW ch \in Int, NEW x \in Int, NEW args,
         Midi!Make(name, status, ch, <<x>>, args)
  PROVE  message' = <<status + ch, x>> /\ built' = [by |-> name, channel |-> ch, args |-> args]
<1>1. status + ch \in Int
  OBVIOUS
<1>2. <<status + ch>> \o <<x>> = <<status + ch, x>>
  BY <1>1, ByteBefore, Zenon
<1> QED
  BY <1>1, <1>2, ShortFits, Zenon DEF Midi!Make

LEMMA TwoDataMade ==
  ASSUME NEW name, NEW status \in Int, NEW ch \in Int, NEW x \in Int, NEW y \in Int, NEW args,
         Midi!Make(name, status, ch, <<x, y>>, args)
  PROVE  message' = <<status + ch, x, y>> /\ built' = [by |-> name, channel |-> ch, args |-> args]
<1>1. status + ch \in Int
  OBVIOUS
<1>2. <<status + ch>> \o <<x, y>> = <<status + ch, x, y>>
  BY <1>1, ByteBefore, Zenon
<1>3. Midi!Truncated(<<status + ch, x, y>>) = <<status + ch, x, y>>
  BY <1>1, ShortFits
<1> QED
  BY <1>2, <1>3, Zenon DEF Midi!Make

LEMMA NoDataMade ==
  ASSUME NEW name, NEW status \in Int, NEW args,
         Midi!Make(name, status, 0, <<>>, args)
  PROVE  message' = <<status>> /\ built' = [by |-> name, channel |-> 0, args |-> args]
<1>1. status + 0 = status
  OBVIOUS
<1>2. <<status>> \o <<>> = <<status>>
  BY ByteBefore, Zenon
<1> QED
  BY <1>1, <1>2, ShortFits, Zenon DEF Midi!Make

(* Every factory makes a message of this kind.                                *)
LEMMA MidiKept == ASSUME MidiInv, Midi!MidiMessageNext PROVE MidiInv'
<1>1. CASE Midi!ChannelMessage
  <2>1. PICK c \in Channels, x \in Sevens :
          \/ \E k \in DOMAIN Midi!TwoData, y \in Sevens :
               Midi!Make(k, Midi!TwoData[k], c % 16, <<Midi!Low7(x), Midi!Low7(y)>>, <<Midi!Low7(x), Midi!Low7(y)>>)
          \/ \E k \in DOMAIN Midi!OneData :
               Midi!Make(k, Midi!OneData[k], c % 16, <<Midi!Low7(x)>>, <<Midi!Low7(x)>>)
    BY <1>1, Zenon DEF Midi!ChannelMessage
  <2>2. c % 16 \in 0..15 /\ Midi!Low7(x) \in Bytes7 /\ c \in Int /\ x \in Int
    BY NodesNumbers, ChannelBits, BitsAreNumbers, Zenon
  <2> DEFINE ch == c % 16  l == Midi!Low7(x)
  <2>a. ch \in 0..15 /\ l \in Bytes7 /\ ch \in Int /\ l \in Int
    BY <2>2 DEF Bytes7
  <2> HIDE DEF ch, l
  <2>3. ASSUME NEW k \in DOMAIN Midi!TwoData, NEW y \in Sevens, Midi!Make(k, Midi!TwoData[k], ch, <<l, Midi!Low7(y)>>, <<l, Midi!Low7(y)>>)
        PROVE  MidiInv'
    <3> DEFINE m == Midi!Low7(y)
    <3>1. m \in Bytes7 /\ m \in Int
      BY NodesNumbers, BitsAreNumbers, Zenon
    <3>2. Midi!TwoData[k] \in Int
      BY StatusBytes
    <3> HIDE DEF m
    <3>3. message' = <<Midi!TwoData[k] + ch, l, m>> /\ built' = [by |-> k, channel |-> ch, args |-> <<l, m>>]
      BY <2>3, <3>1, <3>2, <2>a, TwoDataMade DEF m
    <3>4. \E j \in DOMAIN Midi!TwoData, a \in 0..15, y1, y2 \in Bytes7 :
            /\ message' = <<Midi!TwoData[j] + a, y1, y2>>
            /\ built' = [by |-> j, channel |-> a, args |-> <<y1, y2>>]
      BY <3>1, <3>3, <2>a
    <3> QED
      BY <3>4, Zenon DEF MidiInv
  <2>4. ASSUME NEW k \in DOMAIN Midi!OneData, Midi!Make(k, Midi!OneData[k], ch, <<l>>, <<l>>)
        PROVE  MidiInv'
    <3>2. Midi!OneData[k] \in Int
      BY StatusBytes
    <3>3. message' = <<Midi!OneData[k] + ch, l>> /\ built' = [by |-> k, channel |-> ch, args |-> <<l>>]
      BY <2>4, <3>2, <2>a, OneDataMade, Zenon
    <3>4. \E j \in DOMAIN Midi!OneData, a \in 0..15, y \in Bytes7 :
            message' = <<Midi!OneData[j] + a, y>> /\ built' = [by |-> j, channel |-> a, args |-> <<y>>]
      BY <3>3, <2>a
    <3> QED
      BY <3>4, Zenon DEF MidiInv
  <2> QED
    BY <2>1, <2>3, <2>4, Zenon DEF ch, l
<1>2. CASE Midi!PitchBend
  <2>1. PICK c \in Channels, v \in Bends :
          Midi!Make("PitchBend", 224, c % 16, <<Midi!Low7(Midi!BendNumber(v)), Midi!High7(Midi!BendNumber(v))>>, <<v>>)
    BY <1>2, Zenon DEF Midi!PitchBend
  <2>2. c % 16 \in 0..15 /\ c % 16 \in Int /\ v \in Int /\ c \in Int
    BY NodesAssumption, ChannelBits
  <2>3. Midi!BendNumber(v) \in Int
    BY <2>2 DEF Midi!BendNumber, Midi!Wrap14
  <2>4. Midi!Low7(Midi!BendNumber(v)) \in Int /\ Midi!High7(Midi!BendNumber(v)) \in Int
    BY <2>3, BitsAreNumbers
  <2>6. 224 \in Int
    OBVIOUS
  <2>5. message' = <<224 + (c % 16), Midi!Low7(Midi!BendNumber(v)), Midi!High7(Midi!BendNumber(v))>>
        /\ built' = [by |-> "PitchBend", channel |-> c % 16, args |-> <<v>>]
    <3> DEFINE l == Midi!Low7(Midi!BendNumber(v))  h == Midi!High7(Midi!BendNumber(v))  ch == c % 16
    <3>1. l \in Int /\ h \in Int /\ ch \in Int /\ Midi!Make("PitchBend", 224, ch, <<l, h>>, <<v>>)
      BY <2>1, <2>2, <2>4
    <3> HIDE DEF l, h, ch
    <3>2. message' = <<224 + ch, l, h>> /\ built' = [by |-> "PitchBend", channel |-> ch, args |-> <<v>>]
      BY <3>1, <2>6, TwoDataMade
    <3> QED
      BY <3>2 DEF l, h, ch
  <2> QED
    BY <2>2, <2>5, Zenon DEF MidiInv
<1>3. CASE Midi!SystemMessage
  <2>1. ASSUME NEW k \in DOMAIN Midi!NoData, Midi!Make(k, Midi!NoData[k], 0, <<>>, <<>>)
        PROVE  MidiInv'
    <3>1. Midi!NoData[k] \in Int
      BY SingleBytes
    <3> QED
      BY <2>1, <3>1, NoDataMade DEF MidiInv
  <2>2. ASSUME NEW b \in Fourteens,
               Midi!Make("SongPosition", 242, 0, <<Midi!Low7(b), Midi!High7(b)>>, <<Midi!Wrap14(b)>>)
        PROVE  MidiInv'
    <3>1. b \in Int
      BY NodesAssumption
    <3>2. Midi!Low7(b) \in Int /\ Midi!High7(b) \in Int 
      BY <3>1, BitsAreNumbers, Zenon
    <3>3. 242 \in Int /\ 0 \in Int /\ 242 + 0 = 242
      OBVIOUS
    <3> DEFINE l == Midi!Low7(b)  h == Midi!High7(b)  args == <<Midi!Wrap14(b)>>
    <3>4. l \in Int /\ h \in Int /\ Midi!Make("SongPosition", 242, 0, <<l, h>>, args)
      BY <2>2, <3>2
    <3>5. message' = <<242, l, h>> /\ built' = [by |-> "SongPosition", channel |-> 0, args |-> args]
      <4> HIDE DEF l, h, args
      <4> QED
        BY <3>4, <3>3, TwoDataMade
    <3> QED
      BY <3>1, <3>5, Zenon DEF MidiInv
  <2>3. ASSUME NEW x \in Sevens, NEW k \in {"SongSelect", "TimeCode"},
               Midi!Make(k, IF k = "SongSelect" THEN 243 ELSE 241, 0, <<Midi!Low7(x)>>, <<Midi!Low7(x)>>)
        PROVE  MidiInv'
    <3> DEFINE st == IF k = "SongSelect" THEN 243 ELSE 241
    <3>1. Midi!Low7(x) \in Int /\ Midi!Low7(x) \in Bytes7
      BY NodesNumbers, BitsAreNumbers, Zenon
    <3>2. st \in Int /\ 0 \in Int /\ st + 0 = st
      OBVIOUS
    <3>3. message' = <<st, Midi!Low7(x)>> /\ built' = [by |-> k, channel |-> 0, args |-> <<Midi!Low7(x)>>]
      <4> HIDE DEF st
      <4>1. Midi!Make(k, st, 0, <<Midi!Low7(x)>>, <<Midi!Low7(x)>>)
        BY <2>3 DEF st
      <4> QED
        BY <4>1, <3>1, <3>2, OneDataMade, Zenon
    <3>4. \E j \in {"SongSelect", "TimeCode"}, y \in Bytes7 :
            /\ message' = <<IF j = "SongSelect" THEN 243 ELSE 241, y>>
            /\ built' = [by |-> j, channel |-> 0, args |-> <<y>>]
      BY <3>1, <3>3
    <3> QED
      BY <3>4, Zenon DEF MidiInv
  <2>4. "SongSelect" # "TimeCode"
    OBVIOUS
  <2> QED
    BY <1>3, <2>1, <2>2, <2>3, <2>4, Zenon DEF Midi!SystemMessage
<1>4. CASE built' = Midi!NoArguments
  BY <1>4 DEF MidiInv
<1> QED
  BY <1>1, <1>2, <1>3, <1>4 DEF Midi!MidiMessageNext

(* The status byte of a channel message is its kind's and its channel.        *)
LEMMA StatusSplits ==
  ASSUME NEW st \in {128, 144, 160, 176, 192, 208, 224}, NEW ch \in 0..15
  PROVE  (st + ch) % 16 = ch /\ st + ch >= 128 /\ st + ch < 240
OBVIOUS

(* What the accessors see of a message of two or three bytes with a channel.  *)
LEMMA ChannelMessageReads ==
  ASSUME NEW st \in {128, 144, 160, 176, 192, 208, 224}, NEW ch \in 0..15,
         Len(message) \in 2..3, message[1] = st + ch
  PROVE  /\ Midi!Data(1) = st + ch /\ Midi!Upper = st
         /\ Midi!IsValid /\ Midi!IsChannelMessage /\ ~Midi!IsSystemMessage
         /\ Midi!GetChannel = ch
         /\ Midi!ExpectedLength(message[1]) = IF st \in {192, 208} THEN 2 ELSE 3
<1>1. (st + ch) % 16 = ch /\ st + ch >= 128 /\ st + ch < 240 /\ st + ch \in Int /\ st + ch - ch = st /\ st < 240
  BY StatusSplits
<1>2. Midi!Data(1) = st + ch
  BY DEF Midi!Data
<1>3. Midi!Upper = st
  <2> DEFINE b == st + ch
  <2>1. Midi!Data(1) = b /\ b \in Int /\ b % 16 = ch /\ b - ch = st
    BY <1>1, <1>2
  <2> HIDE DEF b
  <2> QED
    BY <2>1 DEF Midi!Upper
<1>4. Midi!IsValid
  BY <1>1, <1>2 DEF Midi!IsValid
<1>5. Midi!IsChannelMessage
  BY <1>1, <1>3, <1>4 DEF Midi!IsChannelMessage
<1>6. ~Midi!IsSystemMessage
  BY <1>1, <1>3 DEF Midi!IsSystemMessage
<1>7. Midi!GetChannel = ch
  BY <1>1, <1>2, <1>5, Zenon DEF Midi!GetChannel
<1>8. Midi!ExpectedLength(message[1]) = IF st \in {192, 208} THEN 2 ELSE 3
  <2> DEFINE b == st + ch
  <2>1. b - (b % 16) = st /\ b >= 128 /\ b < 240 /\ b \in Int
    BY <1>1
  <2> HIDE DEF b
  <2>2. Midi!ExpectedLength(b) = IF st \in {192, 208} THEN 2 ELSE 3
    BY <2>1 DEF Midi!ExpectedLength
  <2> QED
    BY <2>2 DEF b
<1> QED
  BY <1>2, <1>3, <1>4, <1>5, <1>6, <1>7, <1>8

(* Its kind is the one of its status, a note-on of velocity 0 a note-off.     *)
LEMMA KindOfStatus ==
  ASSUME NEW st \in {128, 144, 160, 176, 192, 208, 224}, Midi!Upper = st, ~Midi!IsSystemMessage,
         Midi!Data(3) \in Nat
  PROVE  \E i \in DOMAIN Midi!Kinds : Midi!Kinds[i] /\ \A j \in DOMAIN Midi!Kinds \ {i} : ~Midi!Kinds[j]
<1>1. DOMAIN Midi!Kinds = 1..9
  BY DEF Midi!Kinds
<1>2. /\ (Midi!Kinds[1] <=> st = 144 /\ Midi!Data(3) > 0)
      /\ (Midi!Kinds[2] <=> st = 128 \/ (st = 144 /\ Midi!Data(3) = 0))
      /\ (Midi!Kinds[3] <=> st = 160) /\ (Midi!Kinds[4] <=> st = 176) /\ (Midi!Kinds[5] <=> st = 192)
      /\ (Midi!Kinds[6] <=> st = 208) /\ (Midi!Kinds[7] <=> st = 224) /\ ~Midi!Kinds[8] /\ ~Midi!Kinds[9]
  BY DEF Midi!Kinds, Midi!IsNoteOn, Midi!IsNoteOff, Midi!IsPolyPressure, Midi!IsControlChange,
     Midi!IsProgramChange, Midi!IsChannelPressure, Midi!IsPitchBend, Midi!IsSystemCommon, Midi!IsSystemRealTime
<1> QED
  BY <1>1, <1>2

(* What the accessors see of a message without a channel.                     *)
LEMMA SystemMessageReads ==
  ASSUME NEW st \in {241, 242, 243, 246, 248, 250, 251, 252, 254, 255},
         Len(message) \in 1..3, message[1] = st
  PROVE  /\ Midi!GetChannel = 0
         /\ Midi!ExpectedLength(message[1]) = IF st = 242 THEN 3 ELSE IF st \in {241, 243} THEN 2 ELSE 1
         /\ \E i \in DOMAIN Midi!Kinds : Midi!Kinds[i] /\ \A j \in DOMAIN Midi!Kinds \ {i} : ~Midi!Kinds[j]
<1>1. Midi!Data(1) = st
  BY DEF Midi!Data
<1>2. Midi!Upper = 240
  BY <1>1 DEF Midi!Upper
<1>3. Midi!IsValid /\ Midi!IsSystemMessage /\ ~Midi!IsChannelMessage
  BY <1>1, <1>2 DEF Midi!IsValid, Midi!IsSystemMessage, Midi!IsChannelMessage
<1>4. Midi!GetChannel = 0
  BY <1>3 DEF Midi!GetChannel
<1>5. Midi!ExpectedLength(message[1]) = IF st = 242 THEN 3 ELSE IF st \in {241, 243} THEN 2 ELSE 1
  BY DEF Midi!ExpectedLength
<1>6. DOMAIN Midi!Kinds = 1..9
  BY DEF Midi!Kinds
<1>7. /\ ~Midi!Kinds[1] /\ ~Midi!Kinds[2] /\ ~Midi!Kinds[3] /\ ~Midi!Kinds[4] /\ ~Midi!Kinds[5]
      /\ ~Midi!Kinds[6] /\ ~Midi!Kinds[7] /\ (Midi!Kinds[8] <=> st < 248) /\ (Midi!Kinds[9] <=> st >= 248)
  <2>1. /\ ~Midi!IsNoteOn /\ ~Midi!IsNoteOff /\ ~Midi!IsPolyPressure /\ ~Midi!IsControlChange
        /\ ~Midi!IsProgramChange /\ ~Midi!IsChannelPressure /\ ~Midi!IsPitchBend
    BY <1>2 DEF Midi!IsNoteOn, Midi!IsNoteOff, Midi!IsPolyPressure, Midi!IsControlChange,
       Midi!IsProgramChange, Midi!IsChannelPressure, Midi!IsPitchBend
  <2>2. (Midi!IsSystemCommon <=> st < 248) /\ (Midi!IsSystemRealTime <=> st >= 248)
    BY <1>1, <1>3 DEF Midi!IsSystemCommon, Midi!IsSystemRealTime
  <2> QED
    BY <2>1, <2>2 DEF Midi!Kinds
<1>8. \E i \in DOMAIN Midi!Kinds : Midi!Kinds[i] /\ \A j \in DOMAIN Midi!Kinds \ {i} : ~Midi!Kinds[j]
  BY <1>6, <1>7
<1> QED
  BY <1>4, <1>5, <1>8

(* What is built reads back, and has the length and the one kind of its       *)
(* status.                                                                    *)
LEMMA MessageReads == MidiInv => Midi!ReadsBack /\ Midi!TablesAgree
<1> SUFFICES ASSUME MidiInv PROVE Midi!ReadsBack /\ Midi!TablesAgree
  OBVIOUS
<1>7. ASSUME built = Midi!NoArguments PROVE Midi!ReadsBack /\ Midi!TablesAgree
  <2>1. Midi!ReadsBack
    BY <1>7, ZenonT(30) DEF Midi!ReadsBack
  <2>2. Midi!TablesAgree
    BY <1>7 DEF Midi!TablesAgree
  <2> QED
    BY <2>1, <2>2
<1>1. ASSUME NEW k \in DOMAIN Midi!TwoData, NEW ch \in 0..15, NEW x \in Bytes7, NEW y \in Bytes7,
             message = <<Midi!TwoData[k] + ch, x, y>>, built = [by |-> k, channel |-> ch, args |-> <<x, y>>]
      PROVE  Midi!ReadsBack /\ Midi!TablesAgree
  <2> DEFINE st == Midi!TwoData[k]
  <2>1. st \in {128, 144, 160, 176} /\ k \in {"NoteOff", "NoteOn", "PolyPressure", "ControlChange"}
        /\ (k = "NoteOn" <=> st = 144) /\ (k = "PolyPressure" <=> st = 160)
    BY StatusBytes
  <2>2. Len(message) = 3 /\ message[1] = st + ch /\ message[2] = x /\ message[3] = y
    BY <1>1
  <2>3. built.by = k /\ built.channel = ch /\ built.args = <<x, y>>
    BY <1>1
  <2> HIDE DEF st
  <2>4. Midi!Data(2) = x /\ Midi!Data(3) = y
    BY <2>2 DEF Midi!Data
  <2>5. /\ Midi!Upper = st /\ ~Midi!IsSystemMessage /\ Midi!GetChannel = ch
        /\ Midi!ExpectedLength(message[1]) = 3
    BY <2>1, <2>2, ChannelMessageReads
  <2>6. Midi!TablesAgree
    BY <2>1, <2>2, <2>4, <2>5, KindOfStatus DEF Midi!TablesAgree, Bytes7
  <2>7. Midi!Low7(Midi!Data(2)) = x /\ Midi!Low7(Midi!Data(3)) = y
    BY <2>4, LowOfLow
  <2>8. k = "PolyPressure" => Midi!GetPressure = y
    BY <2>1, <2>5, <2>7 DEF Midi!GetPressure, Midi!IsChannelPressure
  <2>9. k = "NoteOn" => IF y = 0 THEN Midi!IsNoteOff ELSE Midi!IsNoteOn /\ Midi!Data(3) = y
    BY <2>1, <2>4, <2>5 DEF Midi!IsNoteOff, Midi!IsNoteOn, Bytes7
  <2>10. Len(built.args) = 2 /\ built.args[1] = x /\ built.args[2] = y /\ DOMAIN built.args = 1..2
    BY <2>3
  <2>11. \A i \in DOMAIN built.args : Midi!Low7(Midi!Data(i + 1)) = built.args[i]
    BY <2>7, <2>10, SMTT(30)
  <2>12. Midi!ReadsBack
    BY <2>1, <2>3, <2>5, <2>8, <2>9, <2>10, <2>11 DEF Midi!ReadsBack
  <2> QED
    BY <2>6, <2>12
<1>2. ASSUME NEW k \in DOMAIN Midi!OneData, NEW ch \in 0..15, NEW x \in Bytes7,
             message = <<Midi!OneData[k] + ch, x>>, built = [by |-> k, channel |-> ch, args |-> <<x>>]
      PROVE  Midi!ReadsBack /\ Midi!TablesAgree
  <2> DEFINE st == Midi!OneData[k]
  <2>1. st \in {192, 208} /\ k \in {"ProgramChange", "ChannelPressure"} /\ (k = "ChannelPressure" <=> st = 208)
    BY StatusBytes
  <2>2. Len(message) = 2 /\ message[1] = st + ch /\ message[2] = x
    BY <1>2
  <2>3. built.by = k /\ built.channel = ch /\ built.args = <<x>>
    BY <1>2
  <2> HIDE DEF st
  <2>4. Midi!Data(2) = x /\ Midi!Data(3) = 0
    BY <2>2 DEF Midi!Data
  <2>5. /\ Midi!Upper = st /\ ~Midi!IsSystemMessage /\ Midi!GetChannel = ch
        /\ Midi!ExpectedLength(message[1]) = 2
    BY <2>1, <2>2, ChannelMessageReads
  <2>6. Midi!TablesAgree
    BY <2>1, <2>2, <2>4, <2>5, KindOfStatus DEF Midi!TablesAgree
  <2>7. Midi!Low7(Midi!Data(2)) = x
    BY <2>4, LowOfLow
  <2>8. k = "ChannelPressure" => Midi!GetPressure = x
    BY <2>1, <2>5, <2>7 DEF Midi!GetPressure, Midi!IsChannelPressure
  <2>10. Len(built.args) = 1 /\ built.args[1] = x /\ DOMAIN built.args = 1..1
    BY <2>3
  <2>11. \A i \in DOMAIN built.args : Midi!Low7(Midi!Data(i + 1)) = built.args[i]
    BY <2>7, <2>10, SMTT(30)
  <2>12. Midi!ReadsBack
    BY <2>1, <2>3, <2>5, <2>8, <2>10, <2>11 DEF Midi!ReadsBack
  <2> QED
    BY <2>6, <2>12
<1>3. ASSUME NEW ch \in 0..15, NEW v \in Int,
             message = <<224 + ch, Midi!Low7(Midi!BendNumber(v)), Midi!High7(Midi!BendNumber(v))>>,
             built = [by |-> "PitchBend", channel |-> ch, args |-> <<v>>]
      PROVE  Midi!ReadsBack /\ Midi!TablesAgree
  <2> DEFINE n == Midi!BendNumber(v)  l == Midi!Low7(n)  h == Midi!High7(n)
  <2>1. n \in Int /\ Midi!Wrap14(n) = n
    <3>1. n \in Int /\ n \in Nat /\ n < 16384
      BY DEF Midi!BendNumber, Midi!Wrap14
    <3> HIDE DEF n
    <3> QED
      BY <3>1, RestOfIndex DEF Midi!Wrap14
  <2>2. Len(message) = 3 /\ message[1] = 224 + ch /\ message[2] = l /\ message[3] = h
    BY <1>3
  <2>3. built.by = "PitchBend" /\ built.channel = ch /\ built.args[1] = v
    BY <1>3
  <2>4. Midi!Data(2) = l /\ Midi!Data(3) = h
    BY <2>2, SMTT(30) DEF Midi!Data
  <2> HIDE DEF n
  <2>5. l \in Bytes7 /\ h \in Bytes7 /\ h * 128 + l = n
    BY <2>1, SevenBits
  <2> HIDE DEF l, h
  <2>6. /\ Midi!Upper = 224 /\ ~Midi!IsSystemMessage /\ Midi!GetChannel = ch
        /\ Midi!ExpectedLength(message[1]) = 3
    BY <2>2, ChannelMessageReads
  <2>7. Midi!TablesAgree
    BY <2>2, <2>4, <2>5, <2>6, KindOfStatus DEF Midi!TablesAgree, Bytes7
  <2>8. Midi!GetPitchBendValue = n - 8192
    <3>1. Midi!Low7(Midi!Data(3)) = h /\ Midi!Low7(Midi!Data(2)) = l
      BY <2>4, <2>5, LowOfLow
    <3> QED
      BY <2>5, <3>1 DEF Midi!GetPitchBendValue, Bytes7
  <2>9. ASSUME v \in -8192..8191 PROVE Midi!GetPitchBendValue = v
    <3>1. v + 8192 \in Nat /\ v + 8192 < 16384
      BY <2>9, SMTT(30)
    <3>2. n = v + 8192
      BY <3>1, BendFits DEF n
    <3> QED
      BY <2>8, <3>2
  <2>10. Midi!ReadsBack
    BY <2>3, <2>6, <2>9 DEF Midi!ReadsBack, Midi!IsPitchBend
  <2> QED
    BY <2>7, <2>10
<1>4. ASSUME NEW k \in DOMAIN Midi!NoData,
             message = <<Midi!NoData[k]>>, built = [by |-> k, channel |-> 0, args |-> <<>>]
      PROVE  Midi!ReadsBack /\ Midi!TablesAgree
  <2> DEFINE st == Midi!NoData[k]
  <2>1. st \in {246, 248, 250, 251, 252, 254, 255}
        /\ k \in {"TuneRequest", "TimingClock", "Start", "Continue", "Stop", "ActiveSensing", "SystemReset"}
    BY SingleBytes
  <2>2. Len(message) = 1 /\ message[1] = st
    BY <1>4
  <2>3. built.by = k /\ built.channel = 0 /\ DOMAIN built.args = {}
    BY <1>4
  <2> HIDE DEF st
  <2>4. Midi!GetChannel = 0 /\ Midi!TablesAgree
    BY <2>1, <2>2, SystemMessageReads, SMTT(30) DEF Midi!TablesAgree
  <2>5. Midi!ReadsBack
    <3>1. \A i \in DOMAIN built.args : Midi!Low7(Midi!Data(i + 1)) = built.args[i]
      BY <2>3
    <3>2. Midi!GetChannel = built.channel
      BY <2>3, <2>4
    <3>3. /\ built.by # "PitchBend" /\ built.by # "SongPosition" /\ built.by # "NoteOn"
          /\ built.by \notin {"PolyPressure", "ChannelPressure"}
      BY <2>1, <2>3
    <3> QED
      BY <3>1, <3>2, <3>3, Zenon DEF Midi!ReadsBack
  <2> QED
    BY <2>4, <2>5
<1>5. ASSUME NEW b \in Int, message = <<242, Midi!Low7(b), Midi!High7(b)>>,
             built = [by |-> "SongPosition", channel |-> 0, args |-> <<Midi!Wrap14(b)>>]
      PROVE  Midi!ReadsBack /\ Midi!TablesAgree
  <2> DEFINE l == Midi!Low7(b)  h == Midi!High7(b)
  <2>1. Len(message) = 3 /\ message[1] = 242 /\ message[2] = l /\ message[3] = h
    BY <1>5
  <2>2. built.by = "SongPosition" /\ built.channel = 0 /\ built.args[1] = Midi!Wrap14(b)
    BY <1>5
  <2>3. Midi!Data(2) = l /\ Midi!Data(3) = h
    BY <2>1, SMTT(30) DEF Midi!Data
  <2>4. h * 128 + l = Midi!Wrap14(b)
    BY SevenBits
  <2>5. Midi!GetChannel = 0 /\ Midi!TablesAgree
    BY <2>1, SystemMessageReads DEF Midi!TablesAgree
  <2> HIDE DEF l, h
  <2>6. Midi!ReadsBack
    BY <2>2, <2>3, <2>4, <2>5 DEF Midi!ReadsBack
  <2> QED
    BY <2>5, <2>6
<1>6. ASSUME NEW k \in {"SongSelect", "TimeCode"}, NEW x \in Bytes7,
             message = <<IF k = "SongSelect" THEN 243 ELSE 241, x>>,
             built = [by |-> k, channel |-> 0, args |-> <<x>>]
      PROVE  Midi!ReadsBack /\ Midi!TablesAgree
  <2> DEFINE st == IF k = "SongSelect" THEN 243 ELSE 241
  <2>1. st \in {241, 243}
    OBVIOUS
  <2>2. Len(message) = 2 /\ message[1] = st /\ message[2] = x
    BY <1>6
  <2>3. built.by = k /\ built.channel = 0 /\ built.args[1] = x /\ DOMAIN built.args = 1..1
    BY <1>6
  <2> HIDE DEF st
  <2>4. Midi!Low7(Midi!Data(2)) = x
    BY <2>2, LowOfLow DEF Midi!Data
  <2>5. Midi!GetChannel = 0 /\ Midi!TablesAgree
    BY <2>1, <2>2, SystemMessageReads DEF Midi!TablesAgree
  <2>6. Midi!ReadsBack
    BY <2>3, <2>4, <2>5, SMTT(30) DEF Midi!ReadsBack
  <2> QED
    BY <2>5, <2>6
<1> QED
  BY <1>1, <1>2, <1>3, <1>4, <1>5, <1>6, <1>7, ZenonT(30) DEF MidiInv

(* A receiver of parameter changes has all fourteen bits of both numbers.     *)
LEMMA ParametersRead == Midi!ParametersReadBack
<1> SUFFICES ASSUME NEW p \in Fourteens, NEW v \in Fourteens
             PROVE  LET r == Midi!Rpn(101, 100, p, v)  n == Midi!Rpn(99, 98, p, v)
                    IN /\ Midi!Received(r, 101) * 128 + Midi!Received(r, 100) = Midi!Wrap14(p)
                       /\ Midi!Received(n, 99) * 128 + Midi!Received(n, 98) = Midi!Wrap14(p)
                       /\ Midi!Received(r, 6) * 128 + Midi!Received(r, 38) = Midi!Wrap14(v)
  BY DEF Midi!ParametersReadBack
<1>1. ASSUME NEW msb \in {99, 101}, NEW lsb \in {98, 100}
      PROVE  LET r == Midi!Rpn(msb, lsb, p, v)
             IN /\ Midi!Received(r, msb) = Midi!High7(p) /\ Midi!Received(r, lsb) = Midi!Low7(p)
                /\ Midi!Received(r, 6) = Midi!High7(v) /\ Midi!Received(r, 38) = Midi!Low7(v)
  <2> DEFINE r == Midi!Rpn(msb, lsb, p, v)
  <2>1. /\ DOMAIN r = 1..4
        /\ r[1][1] = msb /\ r[2][1] = lsb /\ r[3][1] = 6 /\ r[4][1] = 38
        /\ r[1][2] = Midi!High7(p) /\ r[2][2] = Midi!Low7(p)
        /\ r[3][2] = Midi!High7(v) /\ r[4][2] = Midi!Low7(v)
    BY DEF Midi!Rpn
  <2> HIDE DEF r
  <2>2. ASSUME NEW k \in 1..4 PROVE Midi!Received(r, r[k][1]) = r[k][2]
    <3>1. \A i \in DOMAIN r : r[i][1] = r[k][1] => i = k
      BY <2>1
    <3>2. (CHOOSE i \in DOMAIN r : r[i][1] = r[k][1]) = k
      BY <2>1, <3>1
    <3> QED
      BY <3>2, Zenon DEF Midi!Received
  <2>3. 1 \in 1..4 /\ 2 \in 1..4 /\ 3 \in 1..4 /\ 4 \in 1..4
    OBVIOUS
  <2>4. /\ Midi!Received(r, msb) = Midi!High7(p) /\ Midi!Received(r, lsb) = Midi!Low7(p)
        /\ Midi!Received(r, 6) = Midi!High7(v) /\ Midi!Received(r, 38) = Midi!Low7(v)
    BY <2>1, <2>2, <2>3
  <2> QED
    BY <2>4 DEF r
<1>2. p \in Int /\ v \in Int
  BY NodesNumbers
<1> QED
  BY <1>1, <1>2, SevenBits

(* A message is made by one of the factories, whatever they were given.       *)
THEOREM MidiInvariance == Spec => []MidiInv
<1>1. MidiInv /\ [Next]_vars => MidiInv'
  <2> SUFFICES ASSUME MidiInv, [Next]_vars PROVE MidiInv'
    OBVIOUS
  <2>1. CASE UNCHANGED <<message, built>>
    BY <2>1 DEF MidiInv
  <2>2. CASE MidiStep
    BY <2>2, MidiKept DEF MidiStep
  <2> QED
    BY <2>1, <2>2, OneSteps
<1> QED
  BY <1>1, MidiStarts, PTL DEF Spec

-----------------------------------------------------------------------------
(* SysEx messages.                                                            *)

(* Bytes s are F0 and data c; bytes b are data d and perhaps F7; bytes t are  *)
(* F0, data e and perhaps F7.                                                 *)
Heads(s, c) ==
  /\ s \in Seq(Nat) /\ c \in Seq(Bytes7) /\ Len(s) = Len(c) + 1 /\ s[1] = Sysex!SOX
  /\ \A i \in 1..Len(c) : s[i + 1] = c[i]
Tails(b, d) ==
  /\ b \in Seq(Nat) /\ d \in Seq(Bytes7) /\ Len(b) \in {Len(d), Len(d) + 1}
  /\ \A i \in 1..Len(d) : b[i] = d[i]
  /\ Len(b) = Len(d) + 1 => b[Len(b)] = Sysex!EOX
Frames(t, e) ==
  /\ t \in Seq(Nat) /\ e \in Seq(Bytes7) /\ Len(t) \in {Len(e) + 1, Len(e) + 2}
  /\ t[1] = Sysex!SOX /\ \A i \in 1..Len(e) : t[i + 1] = e[i]
  /\ Len(t) = Len(e) + 2 => t[Len(t)] = Sysex!EOX

(* What the bytes are of the message that is built or streamed.               *)
StreamInv == purpose = Sysex!Stream => Frames(data, content)

UniversalInv ==
  purpose.by = "universal" =>
    /\ Len(data) \in {6, 8, 12} /\ data[1] = Sysex!SOX /\ data[2] \in {126, 127}
    /\ content = <<data[3]>> /\ purpose.sub = <<data[4], data[5]>> /\ data[Len(data)] = Sysex!EOX

ManufacturerInv ==
  purpose.by = "manufacturer" =>
    /\ purpose.id \in Nat
    /\ data = IF purpose.id <= 127 THEN <<Sysex!SOX, purpose.id, 1, Sysex!EOX>>
              ELSE <<Sysex!SOX, 0, (purpose.id \div 256) % 128, purpose.id % 128, 1, Sysex!EOX>>

(* What a reply is built from, and the bytes it becomes.                      *)
Given(x, y, z) == [family |-> <<y, x>>, model |-> <<z, y>>, version |-> <<x, z, y, z>>]
ShortReply(x, y, z) == <<Sysex!SOX, 126, z, 6, 2, 65, x, y, y, z, z, x, y, z, Sysex!EOX>>
LongReply(a, b, x, y, z) == <<Sysex!SOX, 126, z, 6, 2, 0, a, b, x, y, y, z, z, x, y, z, Sysex!EOX>>

IdentityInv ==
  purpose.by = "identity" =>
    \E x, y, z \in Bytes7 :
      /\ content = <<z>> /\ purpose.given = Given(x, y, z)
      /\ \/ purpose.id = <<65>> /\ data = ShortReply(x, y, z)
         \/ \E a, b \in Bytes7 : purpose.id = <<0, a, b>> /\ data = LongReply(a, b, x, y, z)

RolandInv ==
  purpose.by = "roland" =>
    \E x, y, z \in Bytes7 :
      data = <<Sysex!SOX, 65, 16, 66, 18, x, y, z, (128 - ((x + y + z) % 128)) % 128, Sysex!EOX>>

SysexInv == StreamInv /\ UniversalInv /\ ManufacturerInv /\ IdentityInv /\ RolandInv

(* A stream is of none of the other kinds.                                    *)
LEMMA StreamAlone == Sysex!Stream.by = "stream"
BY DEF Sysex!Stream

LEMMA SysexStarts == Init => SysexInv
<1> SUFFICES ASSUME Sysex!SysexInit PROVE SysexInv
  BY DEF Init
<1>1. data = <<240>> /\ content = <<>> /\ purpose = Sysex!Stream
  BY DEF Sysex!SysexInit, Sysex!SOX
<1>2. StreamInv
  BY <1>1 DEF StreamInv, Frames, Sysex!SOX
<1> QED
  BY <1>1, <1>2, StreamAlone DEF SysexInv, UniversalInv, ManufacturerInv, IdentityInv, RolandInv

(* Three short sums, as the loop of the checksum adds them up.                *)
LEMMA ChecksumOfThree ==
  ASSUME NEW b \in Seq(Nat), Len(b) = 10
  PROVE  Sysex!Checksum(b) = (128 - ((b[6] + b[7] + b[8]) % 128)) % 128
<1>0. b[6] \in Nat /\ b[7] \in Nat /\ b[8] \in Nat
  <2>1. 6 \in 1..Len(b) /\ 7 \in 1..Len(b) /\ 8 \in 1..Len(b)
    OBVIOUS
  <2> QED
    BY <2>1, ElementOfSeq
<1> DEFINE Sum(f) == f = [i \in 5..(Len(b) - 2) |-> IF i = 5 THEN 0 ELSE f[i - 1] + b[i]]
           sum == CHOOSE f : Sum(f)
<1>1. \E f : Sum(f)
  <2> DEFINE g == [i \in 5..8 |-> IF i = 5 THEN 0 ELSE IF i = 6 THEN b[6]
                                   ELSE IF i = 7 THEN b[6] + b[7] ELSE b[6] + b[7] + b[8]]
  <2>2. g[5] = 0 /\ g[6] = b[6] /\ g[7] = b[6] + b[7] /\ g[8] = b[6] + b[7] + b[8]
    OBVIOUS
  <2>3. ASSUME NEW i \in 5..8 PROVE g[i] = IF i = 5 THEN 0 ELSE g[i - 1] + b[i]
    <3>1. i = 5 \/ i = 6 \/ i = 7 \/ i = 8
      OBVIOUS
    <3> HIDE DEF g
    <3> QED
      BY <1>0, <2>2, <3>1
  <2>4. DOMAIN g = 5..8 /\ g = [i \in 5..8 |-> g[i]]
    OBVIOUS
  <2>5. 5..(Len(b) - 2) = 5..8
    OBVIOUS
  <2> HIDE DEF g
  <2>6. g = [i \in 5..8 |-> IF i = 5 THEN 0 ELSE g[i - 1] + b[i]]
    BY <2>3, <2>4
  <2>7. Sum(g)
    BY <2>5, <2>6
  <2> QED
    BY <2>7
<1>2. Sum(sum)
  BY <1>1, Zenon
<1> HIDE DEF sum
<1>3. sum[5] = 0 /\ sum[6] = sum[5] + b[6] /\ sum[7] = sum[6] + b[7] /\ sum[8] = sum[7] + b[8]
  BY <1>2
<1>4. sum[Len(b) - 2] = b[6] + b[7] + b[8]
  <2>1. Len(b) - 2 = 8
    OBVIOUS
  <2> QED
    BY <1>0, <1>3, <2>1
<1>5. Sysex!Checksum(b) = (128 - (sum[Len(b) - 2] % 128)) % 128
  BY DEF Sysex!Checksum, sum
<1> QED
  BY <1>4, <1>5

(* A built message begins with F0 already.                                    *)
LEMMA Framed ==
  ASSUME NEW bytes, bytes # <<>>, Head(bytes) = Sysex!SOX PROVE Sysex!EnsureFraming(bytes) = bytes
BY DEF Sysex!EnsureFraming

(* What the factories build.                                                  *)
LEMMA UniversalKeeps == ASSUME Sysex!Universal PROVE SysexInv'
<1>1. PICK dev \in DataBytes, x \in DataBytes, y \in DataBytes :
        \/ \E sub \in Sysex!Switches :
             Sysex!Build(<<Sysex!SOX, 126, dev, sub[1], sub[2], Sysex!EOX>>, [by |-> "universal", sub |-> sub], <<dev>>)
        \/ \E sub \in Sysex!Controls :
             Sysex!Build(<<Sysex!SOX, 127, dev, sub[1], sub[2], x, y, Sysex!EOX>>, [by |-> "universal", sub |-> sub], <<dev>>)
        \/ Sysex!Build(<<Sysex!SOX, 127, dev, 4, 5, x, y, y, x, x, y, Sysex!EOX>>,
                       [by |-> "universal", sub |-> <<4, 5>>], <<dev>>)
  BY Zenon DEF Sysex!Universal
<1>2. ASSUME purpose'.by = "universal", UniversalInv' PROVE SysexInv'
  <2>1. purpose' # Sysex!Stream
    BY <1>2, StreamAlone
  <2> QED
    BY <1>2, <2>1 DEF SysexInv, StreamInv, ManufacturerInv, IdentityInv, RolandInv
<1>3. ASSUME NEW sub \in Sysex!Switches,
             Sysex!Build(<<Sysex!SOX, 126, dev, sub[1], sub[2], Sysex!EOX>>, [by |-> "universal", sub |-> sub], <<dev>>)
      PROVE  SysexInv'
  <2> DEFINE bytes == <<Sysex!SOX, 126, dev, sub[1], sub[2], Sysex!EOX>>
  <2>1. /\ bytes # <<>> /\ Head(bytes) = Sysex!SOX /\ Len(bytes) = 6 /\ bytes[1] = Sysex!SOX /\ bytes[2] = 126
        /\ bytes[3] = dev /\ bytes[4] = sub[1] /\ bytes[5] = sub[2] /\ bytes[6] = Sysex!EOX
    OBVIOUS
  <2>2. sub = <<sub[1], sub[2]>>
    BY DEF Sysex!Switches
  <2>3. Sysex!Build(bytes, [by |-> "universal", sub |-> sub], <<dev>>)
    BY <1>3
  <2> HIDE DEF bytes
  <2>5. data' = bytes /\ purpose' = [by |-> "universal", sub |-> sub] /\ content' = <<dev>>
    BY <2>1, <2>3, Framed DEF Sysex!Build
  <2>6. purpose'.by = "universal" /\ purpose'.sub = sub
    BY <2>5
  <2>4. /\ Len(bytes) \in {6, 8, 12} /\ bytes[2] \in {126, 127} /\ bytes[Len(bytes)] = Sysex!EOX
        /\ sub = <<bytes[4], bytes[5]>>
    BY <2>1, <2>2
  <2>7. UniversalInv'
    BY <2>1, <2>4, <2>5, <2>6 DEF UniversalInv
  <2> QED
    BY <1>2, <2>6, <2>7
<1>4. ASSUME NEW sub \in Sysex!Controls,
             Sysex!Build(<<Sysex!SOX, 127, dev, sub[1], sub[2], x, y, Sysex!EOX>>, [by |-> "universal", sub |-> sub], <<dev>>)
      PROVE  SysexInv'
  <2> DEFINE bytes == <<Sysex!SOX, 127, dev, sub[1], sub[2], x, y, Sysex!EOX>>
  <2>1. /\ bytes # <<>> /\ Head(bytes) = Sysex!SOX /\ Len(bytes) = 8 /\ bytes[1] = Sysex!SOX /\ bytes[2] = 127
        /\ bytes[3] = dev /\ bytes[4] = sub[1] /\ bytes[5] = sub[2] /\ bytes[8] = Sysex!EOX
    OBVIOUS
  <2>2. sub = <<sub[1], sub[2]>>
    BY DEF Sysex!Controls
  <2>3. Sysex!Build(bytes, [by |-> "universal", sub |-> sub], <<dev>>)
    BY <1>4
  <2> HIDE DEF bytes
  <2>5. data' = bytes /\ purpose' = [by |-> "universal", sub |-> sub] /\ content' = <<dev>>
    BY <2>1, <2>3, Framed DEF Sysex!Build
  <2>6. purpose'.by = "universal" /\ purpose'.sub = sub
    BY <2>5
  <2>4. /\ Len(bytes) \in {6, 8, 12} /\ bytes[2] \in {126, 127} /\ bytes[Len(bytes)] = Sysex!EOX
        /\ sub = <<bytes[4], bytes[5]>>
    BY <2>1, <2>2
  <2>7. UniversalInv'
    BY <2>1, <2>4, <2>5, <2>6 DEF UniversalInv
  <2> QED
    BY <1>2, <2>6, <2>7
<1>5. ASSUME Sysex!Build(<<Sysex!SOX, 127, dev, 4, 5, x, y, y, x, x, y, Sysex!EOX>>,
                         [by |-> "universal", sub |-> <<4, 5>>], <<dev>>)
      PROVE  SysexInv'
  <2> DEFINE bytes == <<Sysex!SOX, 127, dev, 4, 5, x, y, y, x, x, y, Sysex!EOX>>
             sub == <<4, 5>>
  <2>1. /\ bytes # <<>> /\ Head(bytes) = Sysex!SOX /\ Len(bytes) = 12 /\ bytes[1] = Sysex!SOX /\ bytes[2] = 127
        /\ bytes[3] = dev /\ bytes[4] = 4 /\ bytes[5] = 5 /\ bytes[12] = Sysex!EOX
    OBVIOUS
  <2>2. sub = <<bytes[4], bytes[5]>>
    BY <2>1
  <2>3. Sysex!Build(bytes, [by |-> "universal", sub |-> sub], <<dev>>)
    BY <1>5
  <2> HIDE DEF bytes, sub
  <2>5. data' = bytes /\ purpose' = [by |-> "universal", sub |-> sub] /\ content' = <<dev>>
    BY <2>1, <2>3, Framed DEF Sysex!Build
  <2>6. purpose'.by = "universal" /\ purpose'.sub = sub
    BY <2>5
  <2>4. /\ Len(bytes) \in {6, 8, 12} /\ bytes[2] \in {126, 127} /\ bytes[Len(bytes)] = Sysex!EOX
        /\ sub = <<bytes[4], bytes[5]>>
    BY <2>1, <2>2
  <2>7. UniversalInv'
    BY <2>1, <2>4, <2>5, <2>6 DEF UniversalInv
  <2> QED
    BY <1>2, <2>6, <2>7
<1> QED
  BY <1>1, <1>3, <1>4, <1>5

LEMMA ManufacturerKeeps ==
  ASSUME NEW id \in ManufacturerIds, Sysex!ManufacturerMessage(id) PROVE SysexInv'
<1> DEFINE bytes == IF id <= 127 THEN <<Sysex!SOX, id, 1, Sysex!EOX>>
                    ELSE <<Sysex!SOX, 0, (id \div 256) % 128, id % 128, 1, Sysex!EOX>>
<1>1. bytes # <<>> /\ Head(bytes) = Sysex!SOX
  OBVIOUS
<1>2. Sysex!EnsureFraming(bytes) = bytes
  <2> HIDE DEF bytes
  <2> QED
    BY <1>1, Framed
<1>3. data' = bytes /\ purpose' = [by |-> "manufacturer", id |-> id]
  BY <1>2, Zenon DEF Sysex!ManufacturerMessage, Sysex!Build
<1>4. purpose'.by = "manufacturer" /\ purpose'.id = id /\ id \in Nat
  BY <1>3, NodesAssumption
<1>5. ManufacturerInv'
  BY <1>3, <1>4, Zenon DEF ManufacturerInv
<1>6. purpose' # Sysex!Stream
  BY <1>4, StreamAlone
<1> QED
  BY <1>4, <1>5, <1>6 DEF SysexInv, StreamInv, UniversalInv, IdentityInv, RolandInv

LEMMA IdentityBytes ==
  ASSUME NEW x, NEW y, NEW z
  PROVE  Sysex!ReplyBytes(Given(x, y, z)) = <<x, y, y, z, z, x, y, z>>
BY DEF Sysex!ReplyBytes, Given

LEMMA IdentityKeeps == ASSUME Sysex!Identity PROVE SysexInv'
<1>1. \A x \in DataBytes : x \in Bytes7
  BY NodesAssumption DEF Bytes7
<1> DEFINE w(x, y, z) == Sysex!ReplyBytes(Given(x, y, z))
           oneByte == <<65>>
           short(v, z) == <<Sysex!SOX, 126, z, 6, 2, 65, v[1], v[2], v[3], v[4], v[5], v[6], v[7], v[8], Sysex!EOX>>
           long(a, b, v, z) == <<Sysex!SOX, 126, z, 6, 2, 0, a, b, v[1], v[2], v[3], v[4], v[5], v[6], v[7], v[8], Sysex!EOX>>
           kindOf(id, x, y, z) == [by |-> "identity", id |-> id, given |-> Given(x, y, z)]
<1>2. PICK x \in DataBytes, y \in DataBytes, z \in DataBytes :
        \/ Sysex!Build(short(w(x, y, z), z), kindOf(oneByte, x, y, z), <<z>>)
        \/ \E a, b \in DataBytes :
             Sysex!Build(long(a, b, w(x, y, z), z), kindOf(<<0, a, b>>, x, y, z), <<z>>)
  BY Zenon DEF Sysex!Identity, Given
<1>3. ASSUME purpose'.by = "identity", IdentityInv' PROVE SysexInv'
  <2>1. purpose' # Sysex!Stream
    BY <1>3, StreamAlone
  <2> QED
    BY <1>3, <2>1 DEF SysexInv, StreamInv, UniversalInv, ManufacturerInv, RolandInv
<1>6. w(x, y, z) = <<x, y, y, z, z, x, y, z>>
  BY IdentityBytes
<1>7. short(w(x, y, z), z) = ShortReply(x, y, z)
  BY <1>6 DEF ShortReply
<1>8. \A a, b : long(a, b, w(x, y, z), z) = LongReply(a, b, x, y, z)
  BY <1>6 DEF LongReply
<1> HIDE DEF w, short, long
<1>4. ASSUME Sysex!Build(ShortReply(x, y, z), kindOf(oneByte, x, y, z), <<z>>)
      PROVE  SysexInv'
  <2>1. ShortReply(x, y, z) # <<>> /\ Head(ShortReply(x, y, z)) = Sysex!SOX
    BY DEF ShortReply
  <2>2. Sysex!EnsureFraming(ShortReply(x, y, z)) = ShortReply(x, y, z)
    BY <2>1, Framed
  <2>3. data' = ShortReply(x, y, z) /\ purpose' = kindOf(oneByte, x, y, z) /\ content' = <<z>>
    BY <1>4, <2>2, Zenon DEF Sysex!Build
  <2>4. purpose'.by = "identity" /\ purpose'.id = oneByte /\ purpose'.given = Given(x, y, z)
    BY <2>3
  <2>5. IdentityInv'
    BY <1>1, <2>3, <2>4, Zenon DEF IdentityInv
  <2> QED
    BY <1>3, <2>4, <2>5
<1>5. ASSUME NEW a \in DataBytes, NEW b \in DataBytes,
             Sysex!Build(LongReply(a, b, x, y, z), kindOf(<<0, a, b>>, x, y, z), <<z>>)
      PROVE  SysexInv'
  <2>1. LongReply(a, b, x, y, z) # <<>> /\ Head(LongReply(a, b, x, y, z)) = Sysex!SOX
    BY DEF LongReply
  <2>2. Sysex!EnsureFraming(LongReply(a, b, x, y, z)) = LongReply(a, b, x, y, z)
    BY <2>1, Framed
  <2>3. data' = LongReply(a, b, x, y, z) /\ purpose' = kindOf(<<0, a, b>>, x, y, z) /\ content' = <<z>>
    BY <1>5, <2>2, Zenon DEF Sysex!Build
  <2>4. purpose'.by = "identity" /\ purpose'.id = <<0, a, b>> /\ purpose'.given = Given(x, y, z)
    BY <2>3
  <2>5. IdentityInv'
    BY <1>1, <2>3, <2>4, Zenon DEF IdentityInv
  <2> QED
    BY <1>3, <2>4, <2>5
<1> QED
  BY <1>2, <1>4, <1>5, <1>7, <1>8

LEMMA RolandKeeps == ASSUME Sysex!Roland PROVE SysexInv'
<1>1. PICK x \in DataBytes, y \in DataBytes, z \in DataBytes :
        Sysex!Build([<<Sysex!SOX, 65, 16, 66, 18, x, y, z, 0, Sysex!EOX>> EXCEPT ![9] =
                       Sysex!Checksum(<<Sysex!SOX, 65, 16, 66, 18, x, y, z, 0, Sysex!EOX>>)],
                    [by |-> "roland"], <<x, y, z>>)
  BY Zenon DEF Sysex!Roland
<1>2. x \in Bytes7 /\ y \in Bytes7 /\ z \in Bytes7 /\ x \in Nat /\ y \in Nat /\ z \in Nat
  BY NodesAssumption DEF Bytes7
<1> DEFINE bytes == <<Sysex!SOX, 65, 16, 66, 18, x, y, z, 0, Sysex!EOX>>
           sum == (128 - ((x + y + z) % 128)) % 128
           summed == <<Sysex!SOX, 65, 16, 66, 18, x, y, z, sum, Sysex!EOX>>
<1>3. Sysex!Checksum(bytes) = sum
  <2>1. bytes \in Seq(Nat) /\ Len(bytes) = 10 /\ bytes[6] = x /\ bytes[7] = y /\ bytes[8] = z
    BY <1>2 DEF Sysex!SOX, Sysex!EOX
  <2> HIDE DEF bytes
  <2> QED
    BY <2>1, ChecksumOfThree
<1>4. [bytes EXCEPT ![9] = sum] = summed
  <2> HIDE DEF sum
  <2> QED
    OBVIOUS
<1>5. summed # <<>> /\ Head(summed) = Sysex!SOX
  OBVIOUS
<1>6. Sysex!EnsureFraming(summed) = summed
  <2> HIDE DEF summed
  <2> QED
    BY <1>5, Framed
<1>7. data' = summed /\ purpose' = [by |-> "roland"]
  <2>1. Sysex!Build([bytes EXCEPT ![9] = Sysex!Checksum(bytes)], [by |-> "roland"], <<x, y, z>>)
    BY <1>1
  <2> HIDE DEF bytes, summed, sum
  <2> QED
    BY <1>3, <1>4, <1>6, <2>1 DEF Sysex!Build
<1>8. purpose'.by = "roland"
  BY <1>7
<1>9. RolandInv'
  BY <1>2, <1>7, ZenonT(30) DEF RolandInv
<1>10. purpose' # Sysex!Stream
  BY <1>8, StreamAlone
<1> QED
  BY <1>8, <1>9, <1>10 DEF SysexInv, StreamInv, UniversalInv, ManufacturerInv, IdentityInv

(* F0, the data so far and perhaps F7: F7 goes, and what arrives follows.     *)
LEMMA StreamGrows ==
  ASSUME NEW c, NEW d, NEW s, NEW b, Heads(s, c), Tails(b, d)
  PROVE  Frames(s \o b, c \o d)
<1> DEFINE t == s \o b  e == c \o d
<1>0. /\ c \in Seq(Bytes7) /\ d \in Seq(Bytes7) /\ s \in Seq(Nat) /\ b \in Seq(Nat)
      /\ Len(s) = Len(c) + 1 /\ s[1] = Sysex!SOX /\ \A i \in 1..Len(c) : s[i + 1] = c[i]
      /\ Len(b) \in {Len(d), Len(d) + 1} /\ \A i \in 1..Len(d) : b[i] = d[i]
      /\ Len(b) = Len(d) + 1 => b[Len(b)] = Sysex!EOX
  BY DEF Heads, Tails
<1>1. /\ t \in Seq(Nat) /\ Len(t) = Len(s) + Len(b)
      /\ \A i \in 1..Len(s) + Len(b) : t[i] = IF i <= Len(s) THEN s[i] ELSE b[i - Len(s)]
  BY <1>0, ConcatProperties
<1>2. /\ e \in Seq(Bytes7) /\ Len(e) = Len(c) + Len(d)
      /\ \A i \in 1..Len(c) + Len(d) : e[i] = IF i <= Len(c) THEN c[i] ELSE d[i - Len(c)]
  BY <1>0, ConcatProperties
<1>3. /\ Len(c) \in Nat /\ Len(d) \in Nat /\ Len(s) \in Nat /\ Len(b) \in Nat
      /\ Len(s) = Len(c) + 1 /\ (Len(b) = Len(d) \/ Len(b) = Len(d) + 1)
      /\ Len(t) = Len(s) + Len(b) /\ Len(e) = Len(c) + Len(d)
  BY <1>0, <1>1, <1>2
<1> HIDE DEF t, e
<1>4. (Len(t) = Len(e) + 1 \/ Len(t) = Len(e) + 2) /\ (Len(t) = Len(e) + 2 => Len(b) = Len(d) + 1)
  BY <1>3
<1>5. t[1] = Sysex!SOX
  <2>1. 1 \in 1..(Len(s) + Len(b)) /\ 1 <= Len(s)
    BY <1>3
  <2> QED
    BY <1>0, <1>1, <2>1
<1>6. ASSUME NEW i \in 1..Len(e) PROVE t[i + 1] = e[i]
  <2>1. i \in 1..(Len(c) + Len(d)) /\ i + 1 \in 1..(Len(s) + Len(b)) /\ i \in Int
    BY <1>3
  <2>2. CASE i <= Len(c)
    <3>1. i \in 1..Len(c) /\ i + 1 <= Len(s)
      BY <1>3, <2>1, <2>2
    <3>2. e[i] = c[i] /\ t[i + 1] = s[i + 1] /\ s[i + 1] = c[i]
      BY <1>0, <1>1, <1>2, <2>1, <2>2, <3>1
    <3> QED
      BY <3>2
  <2>3. CASE ~(i <= Len(c))
    <3> DEFINE k == i - Len(c)
    <3>1. k \in 1..Len(d) /\ i + 1 - Len(s) = k /\ ~(i + 1 <= Len(s))
      BY <1>3, <2>1, <2>3
    <3>2. e[i] = d[k] /\ t[i + 1] = b[k]
      <4>1. e[i] = d[k]
        BY <1>2, <2>1, <2>3
      <4>2. t[i + 1] = b[i + 1 - Len(s)]
        BY <1>1, <2>1, <3>1, SMTT(30)
      <4> QED
        BY <3>1, <4>1, <4>2
    <3> QED
      BY <1>0, <3>1, <3>2
  <2> QED
    BY <2>2, <2>3
<1>7. ASSUME Len(t) = Len(e) + 2 PROVE t[Len(t)] = Sysex!EOX
  <2>1. /\ Len(t) \in 1..(Len(s) + Len(b)) /\ ~(Len(t) <= Len(s)) /\ Len(t) - Len(s) = Len(b)
        /\ Len(b) = Len(d) + 1
    BY <1>3, <1>4, <1>7
  <2>2. t[Len(t)] = b[Len(b)]
    BY <1>1, <2>1
  <2> QED
    BY <1>0, <2>1, <2>2
<1>8. Frames(t, e)
  BY <1>1, <1>2, <1>4, <1>5, <1>6, <1>7 DEF Frames
<1> QED
  BY <1>8 DEF t, e

(* What arrives is data and perhaps F7.                                       *)
LEMMA ArrivalBytes ==
  ASSUME NEW a \in Sysex!Arrivals
  PROVE  Tails(a.bytes, a.data) /\ (a.bytes # <<>> => a.bytes[1] # Sysex!SOX)
<1> DEFINE Goal(b, d) == Tails(b, d) /\ (b # <<>> => b[1] # Sysex!SOX)
<1>1. \A x \in DataBytes : x \in Bytes7 /\ x \in Nat /\ x # 240
  BY NodesAssumption DEF Bytes7
<1>2. Goal(<<>>, <<>>)
  BY DEF Tails
<1>3. Goal(<<247>>, <<>>)
  BY DEF Tails, Sysex!SOX, Sysex!EOX
<1>4. ASSUME NEW x \in DataBytes PROVE Goal(<<x>>, <<x>>) /\ Goal(<<x, x>>, <<x, x>>) /\ Goal(<<x, 247>>, <<x>>)
  <2>1. x \in Bytes7 /\ x \in Nat /\ x # 240
    BY <1>1
  <2>2. Goal(<<x>>, <<x>>)
    BY <2>1 DEF Tails, Sysex!SOX, Sysex!EOX
  <2>3. Goal(<<x, x>>, <<x, x>>)
    BY <2>1 DEF Tails, Sysex!SOX, Sysex!EOX
  <2>4. Goal(<<x, 247>>, <<x>>)
    BY <2>1 DEF Tails, Sysex!SOX, Sysex!EOX
  <2> QED
    BY <2>2, <2>3, <2>4
<1>5. \/ a.bytes = <<>> /\ a.data = <<>>
      \/ a.bytes = <<247>> /\ a.data = <<>>
      \/ \E x \in DataBytes : \/ a.bytes = <<x>> /\ a.data = <<x>>
                              \/ a.bytes = <<x, x>> /\ a.data = <<x, x>>
                              \/ a.bytes = <<x, 247>> /\ a.data = <<x>>
  BY DEF Sysex!Arrivals, Sysex!EOX
<1> HIDE DEF Goal
<1>6. Goal(a.bytes, a.data)
  BY <1>2, <1>3, <1>4, <1>5
<1> QED
  BY <1>6 DEF Goal

(* In a stream nothing is known but the stream.                               *)
LEMMA StreamOnly == ASSUME purpose' = Sysex!Stream, StreamInv' PROVE SysexInv'
BY StreamAlone DEF SysexInv, UniversalInv, ManufacturerInv, IdentityInv, RolandInv

(* Bytes after F0 alone.                                                      *)
LEMMA StreamBegins ==
  ASSUME NEW a \in Sysex!Arrivals, purpose' = Sysex!Stream, content' = a.data,
         data' = <<Sysex!SOX>> \o a.bytes
  PROVE  SysexInv'
<1>1. Tails(a.bytes, a.data)
  BY ArrivalBytes
<1>2. Heads(<<Sysex!SOX>>, <<>>)
  BY DEF Heads, Sysex!SOX
<1>3. Frames(<<Sysex!SOX>> \o a.bytes, <<>> \o a.data)
  BY <1>1, <1>2, StreamGrows
<1>4. <<>> \o a.data = a.data
  BY <1>1, ConcatEmptySeq DEF Tails
<1>5. StreamInv'
  BY <1>3, <1>4 DEF StreamInv
<1> QED
  BY <1>5, StreamOnly

LEMMA ConstructKeeps == ASSUME NEW a \in Sysex!Arrivals, Sysex!Construct(a) PROVE SysexInv'
<1>1. a.bytes \in Seq(Nat) /\ (a.bytes # <<>> => a.bytes[1] # Sysex!SOX)
  BY ArrivalBytes DEF Tails
<1>2. Sysex!EnsureFraming(a.bytes) = <<Sysex!SOX>> \o a.bytes
  BY <1>1 DEF Sysex!EnsureFraming
<1>3. Sysex!EnsureFraming(<<Sysex!SOX>> \o a.bytes) = <<Sysex!SOX>> \o a.bytes
  <2> DEFINE framed == <<Sysex!SOX>> \o a.bytes
  <2>1. <<Sysex!SOX>> \in Seq(Nat) /\ Len(<<Sysex!SOX>>) = 1
    BY DEF Sysex!SOX
  <2>2. framed \in Seq(Nat) /\ Len(framed) = 1 + Len(a.bytes) /\ framed[1] = Sysex!SOX
    BY <1>1, <2>1, ConcatProperties
  <2> HIDE DEF framed
  <2>3. framed # <<>> /\ Head(framed) = Sysex!SOX
    BY <1>1, <2>2
  <2>4. Sysex!EnsureFraming(framed) = framed
    BY <2>3, Framed
  <2> QED
    BY <2>4 DEF framed
<1>4. data' = <<Sysex!SOX>> \o a.bytes /\ purpose' = Sysex!Stream /\ content' = a.data
  BY <1>2, <1>3 DEF Sysex!Construct
<1> QED
  BY <1>4, StreamBegins

(* append() takes the terminator off, and what is left is F0 and the data.    *)
LEMMA TerminatorOff ==
  ASSUME StreamInv, purpose = Sysex!Stream
  PROVE  Heads(Sysex!WithoutTerminator(data), content)
<1> DEFINE s == Sysex!WithoutTerminator(data)
<1>1. /\ content \in Seq(Bytes7) /\ data \in Seq(Nat)
      /\ Len(data) \in {Len(content) + 1, Len(content) + 2}
      /\ data[1] = Sysex!SOX /\ \A i \in 1..Len(content) : data[i + 1] = content[i]
      /\ Len(data) = Len(content) + 2 => data[Len(data)] = Sysex!EOX
  BY DEF StreamInv, Frames
<1>2. Len(content) \in Nat /\ Len(data) \in Nat /\ data # <<>>
  BY <1>1
<1>3. CASE Len(data) = Len(content) + 1
  <2>1. data[Len(data)] # Sysex!EOX
    <3>1. CASE Len(content) = 0
      BY <1>1, <1>3, <3>1 DEF Sysex!SOX, Sysex!EOX
    <3>2. CASE Len(content) # 0
      <4>1. Len(content) \in 1..Len(content)
        BY <1>2, <3>2
      <4>2. data[Len(data)] = content[Len(content)] /\ content[Len(content)] \in Bytes7
        BY <1>1, <1>3, <4>1, ElementOfSeq
      <4>3. \A x \in Bytes7 : x # Sysex!EOX
        BY DEF Bytes7, Sysex!EOX
      <4> QED
        BY <4>2, <4>3
    <3> QED
      BY <3>1, <3>2
  <2>2. s = data
    BY <2>1 DEF Sysex!WithoutTerminator, Sysex!Last
  <2> QED
    BY <1>1, <1>3, <2>2 DEF Heads
<1>4. CASE Len(data) = Len(content) + 2
  <2>1. s = SubSeq(data, 1, Len(data) - 1)
    BY <1>1, <1>2, <1>4 DEF Sysex!WithoutTerminator, Sysex!Last, Sysex!Front
  <2>2. Len(data) - 1 = Len(content) + 1 /\ Len(data) - 1 \in Int /\ 1 <= Len(data) - 1
    BY <1>2, <1>4
  <2>3. \A i \in 1..(Len(data) - 1) : data[i] \in Nat
    BY <1>1, <1>2, ElementOfSeq, SMTT(30)
  <2>4. /\ s \in Seq(Nat) /\ Len(s) = Len(content) + 1
        /\ \A i \in 1..(Len(content) + 1) : s[i] = data[i]
    <3> DEFINE n == Len(data) - 1
    <3>1. n \in Int /\ 1 <= n /\ n = Len(content) + 1 /\ \A i \in 1..n : data[i] \in Nat
      BY <2>2, <2>3
    <3>2. s = SubSeq(data, 1, n)
      BY <2>1
    <3> HIDE DEF n, s
    <3>3. /\ SubSeq(data, 1, n) \in Seq(Nat)
          /\ Len(SubSeq(data, 1, n)) = IF 1 <= n THEN n - 1 + 1 ELSE 0
          /\ \A i \in 1 .. n - 1 + 1 : SubSeq(data, 1, n)[i] = data[1 + i - 1]
      BY <3>1, SubSeqProperties
    <3>4. Len(s) = n /\ \A i \in 1..n : s[i] = data[i]
      BY <3>1, <3>2, <3>3
    <3> QED
      BY <3>1, <3>2, <3>3, <3>4
  <2> HIDE DEF s
  <2>5. s[1] = Sysex!SOX /\ \A i \in 1..Len(content) : s[i + 1] = content[i]
    <3>1. 1 \in 1..(Len(content) + 1)
      BY <1>2
    <3>2. ASSUME NEW i \in 1..Len(content) PROVE s[i + 1] = content[i]
      <4>1. i + 1 \in 1..(Len(content) + 1)
        BY <1>2
      <4> QED
        BY <1>1, <2>4, <4>1
    <3> QED
      BY <1>1, <2>4, <3>1, <3>2
  <2> QED
    BY <1>1, <2>4, <2>5 DEF Heads, s
<1> QED
  BY <1>1, <1>3, <1>4

LEMMA AppendKeeps == ASSUME SysexInv, NEW a \in Sysex!Arrivals, Sysex!AppendBytes(a) PROVE SysexInv'
<1>1. /\ purpose = Sysex!Stream /\ purpose' = Sysex!Stream
      /\ data' = Sysex!WithoutTerminator(data) \o a.bytes /\ content' = content \o a.data
  BY DEF Sysex!AppendBytes
<1>2. Heads(Sysex!WithoutTerminator(data), content)
  BY <1>1, TerminatorOff DEF SysexInv
<1>3. Tails(a.bytes, a.data)
  BY ArrivalBytes
<1>4. Frames(data', content')
  BY <1>1, <1>2, <1>3, StreamGrows
<1>5. StreamInv'
  BY <1>4 DEF StreamInv
<1> QED
  BY <1>1, <1>5, StreamOnly

(* clear() leaves F0 alone.                                                   *)
LEMMA ClearKeeps == ASSUME Sysex!Clear PROVE SysexInv'
<1>1. data' = <<240>> /\ content' = <<>> /\ purpose' = Sysex!Stream
  BY DEF Sysex!Clear, Sysex!SOX
<1>2. StreamInv'
  BY <1>1 DEF StreamInv, Frames, Sysex!SOX
<1> QED
  BY <1>1, <1>2, StreamOnly

(* However a message is built and streamed.                                   *)
LEMMA SysexKept == ASSUME SysexInv, Sysex!SysexNext PROVE SysexInv'
BY ConstructKeeps, AppendKeeps, ClearKeeps, UniversalKeeps, IdentityKeeps, RolandKeeps,
   ManufacturerKeeps, Zenon DEF Sysex!SysexNext

(* The payload is what follows F0, without F7.                                *)
LEMMA PayloadReads == StreamInv => Sysex!PayloadKept
<1> SUFFICES ASSUME StreamInv, purpose = Sysex!Stream
             PROVE  Sysex!IsValid /\ Sysex!GetPayload = content /\ ~Sysex!Contains(Sysex!Front(data), Sysex!EOX)
  BY DEF Sysex!PayloadKept
<1>1. /\ data \in Seq(Nat) /\ content \in Seq(Bytes7) /\ Len(data) \in {Len(content) + 1, Len(content) + 2}
      /\ data[1] = Sysex!SOX /\ \A i \in 1..Len(content) : data[i + 1] = content[i]
      /\ Len(data) = Len(content) + 2 => data[Len(data)] = Sysex!EOX
  BY DEF StreamInv, Frames
<1>2. Len(content) \in Nat /\ Len(data) \in Nat /\ data # <<>> /\ Len(data) >= 1
  BY <1>1
<1>3. Sysex!IsValid
  BY <1>1, <1>2 DEF Sysex!IsValid
<1>4. \A x \in Bytes7 : x # Sysex!EOX /\ x \in Nat
  BY DEF Bytes7, Sysex!EOX
<1>5. \A i \in 1..Len(content) : content[i] \in Bytes7
  BY <1>1, ElementOfSeq
<1>6. ~Sysex!Contains(Sysex!Front(data), Sysex!EOX)
  <2> DEFINE f == SubSeq(data, 1, Len(data) - 1)
  <2>1. \A i \in 1..(Len(data) - 1) : data[i] \in Nat
    BY <1>1, <1>2, ElementOfSeq, SMTT(30)
  <2>2. /\ Len(f) = Len(data) - 1 /\ \A i \in 1..(Len(data) - 1) : f[i] = data[i]
    <3> DEFINE n == Len(data) - 1
    <3>1. n \in Nat /\ \A i \in 1..n : data[i] \in Nat
      BY <1>2, <2>1
    <3> HIDE DEF n
    <3>2. /\ Len(SubSeq(data, 1, n)) = IF 1 <= n THEN n - 1 + 1 ELSE 0
          /\ \A i \in 1 .. n - 1 + 1 : SubSeq(data, 1, n)[i] = data[1 + i - 1]
      BY <3>1, SubSeqProperties
    <3>3. Len(SubSeq(data, 1, n)) = n /\ \A i \in 1..n : SubSeq(data, 1, n)[i] = data[i]
      BY <3>1, <3>2
    <3> QED
      BY <3>3 DEF n
  <2> HIDE DEF f
  <2>3. ASSUME NEW i \in 1..Len(f), f[i] = Sysex!EOX PROVE FALSE
    <3>1. i \in 1..(Len(data) - 1) /\ data[i] = Sysex!EOX
      BY <2>2, <2>3
    <3>2. CASE i = 1
      BY <1>1, <3>1, <3>2 DEF Sysex!SOX, Sysex!EOX
    <3>3. CASE i # 1
      <4> DEFINE k == i - 1
      <4>1. k \in 1..Len(content) /\ k + 1 = i
        BY <1>1, <1>2, <3>1, <3>3
      <4> HIDE DEF k
      <4>2. data[i] = content[k] /\ content[k] \in Bytes7
        BY <1>1, <1>5, <4>1
      <4> QED
        BY <1>4, <3>1, <4>2
    <3> QED
      BY <3>2, <3>3
  <2> QED
    BY <2>3 DEF Sysex!Contains, Sysex!Front, f
<1>7. Sysex!GetPayload = content
  <2>1. CASE Len(data) < 2
    <3>1. Len(content) = 0
      BY <1>1, <1>2, <2>1
    <3>2. content = <<>>
      BY <1>1, <3>1
    <3> QED
      BY <2>1, <3>2 DEF Sysex!GetPayload
  <2>2. CASE ~(Len(data) < 2)
    <3> DEFINE t == Tail(data)
    <3>1. t \in Seq(Nat) /\ Len(t) = Len(data) - 1 /\ \A i \in 1..Len(t) : t[i] = data[i + 1]
      BY <1>1, <1>2, HeadTailProperties
    <3>2. Sysex!GetPayload = Sysex!WithoutTerminator(t)
      BY <2>2 DEF Sysex!GetPayload
    <3> HIDE DEF t
    <3>3. Len(t) \in Nat /\ Len(t) >= 1 /\ t # <<>> /\ t[Len(t)] = data[Len(data)]
      <4>1. Len(t) \in Nat /\ Len(t) >= 1 /\ Len(t) \in 1..Len(t) /\ Len(t) + 1 = Len(data)
        BY <1>2, <2>2, <3>1
      <4> QED
        BY <3>1, <4>1
    <3>4. content \in Seq(Nat)
      <4>1. \A x \in Bytes7 : x \in Nat
        BY <1>4
      <4> QED
        BY <1>1, <4>1, SeqMonotonic
    <3>5. \A i \in 1..Len(content) : t[i] = content[i]
      <4> SUFFICES ASSUME NEW i \in 1..Len(content) PROVE t[i] = content[i]
        OBVIOUS
      <4>1. i \in 1..Len(t)
        BY <1>1, <1>2, <3>1
      <4> QED
        BY <1>1, <3>1, <4>1
    <3>6. CASE Len(data) = Len(content) + 1
      <4>1. Len(t) = Len(content) /\ Len(content) \in 1..Len(content)
        BY <1>2, <3>1, <3>3, <3>6
      <4>2. t[Len(t)] # Sysex!EOX
        BY <1>4, <1>5, <3>5, <4>1
      <4>3. Sysex!WithoutTerminator(t) = t
        BY <4>2 DEF Sysex!WithoutTerminator, Sysex!Last
      <4>4. t = content
        BY <3>1, <3>4, <3>5, <4>1, SeqEqual
      <4> QED
        BY <3>2, <4>3, <4>4
    <3>7. CASE Len(data) = Len(content) + 2
      <4> DEFINE n == Len(t) - 1
      <4>1. n = Len(content) /\ n \in Nat
        BY <1>2, <3>1, <3>3, <3>7
      <4>2. Sysex!WithoutTerminator(t) = SubSeq(t, 1, n)
        BY <1>1, <3>3, <3>7 DEF Sysex!WithoutTerminator, Sysex!Last, Sysex!Front
      <4>3. \A i \in 1..n : t[i] \in Nat
        BY <3>1, <3>3, ElementOfSeq, SMTT(30)
      <4> HIDE DEF n
      <4>4. /\ SubSeq(t, 1, n) \in Seq(Nat) /\ Len(SubSeq(t, 1, n)) = IF 1 <= n THEN n - 1 + 1 ELSE 0
            /\ \A i \in 1 .. n - 1 + 1 : SubSeq(t, 1, n)[i] = t[1 + i - 1]
        BY <4>1, <4>3, SubSeqProperties
      <4>5. Len(SubSeq(t, 1, n)) = n /\ \A i \in 1..n : SubSeq(t, 1, n)[i] = t[i]
        BY <4>1, <4>4
      <4>6. SubSeq(t, 1, n) = content
        <5> DEFINE u == SubSeq(t, 1, n)
        <5>1. u \in Seq(Nat) /\ Len(u) = Len(content) /\ \A i \in 1..Len(u) : u[i] = content[i]
          BY <3>5, <4>1, <4>4, <4>5
        <5> HIDE DEF u
        <5>2. u = content
          BY <5>1, <3>4, SeqEqual
        <5> QED
          BY <5>2 DEF u
      <4> QED
        BY <3>2, <4>2, <4>6
    <3> QED
      BY <1>1, <3>6, <3>7
  <2> QED
    BY <2>1, <2>2
<1> QED
  BY <1>3, <1>6, <1>7

(* Ids of universal messages and legal ids of manufacturers.                  *)
LEMMA IdsRead == UniversalInv /\ ManufacturerInv => Sysex!IdsReadBack
<1> SUFFICES ASSUME UniversalInv, ManufacturerInv PROVE Sysex!IdsReadBack
  OBVIOUS
<1>1. ASSUME purpose.by = "universal"
      PROVE  Sysex!IsComplete /\ Sysex!GetDeviceId = content /\ Sysex!GetSubIds = purpose.sub
  <2>1. /\ Len(data) \in {6, 8, 12} /\ data[1] = Sysex!SOX /\ data[2] \in {126, 127}
        /\ content = <<data[3]>> /\ purpose.sub = <<data[4], data[5]>> /\ data[Len(data)] = Sysex!EOX
    BY <1>1 DEF UniversalInv
  <2>2. data # <<>> /\ Head(data) = Sysex!SOX
    BY <2>1
  <2>3. Sysex!IsUniversal /\ Sysex!IsComplete
    BY <2>1, <2>2 DEF Sysex!IsUniversal, Sysex!IsComplete, Sysex!IsValid, Sysex!Last, Sysex!Byte
  <2>4. ~(Len(data) < 5) /\ ~(Len(data) < 3)
    BY <2>1
  <2> QED
    BY <2>1, <2>3, <2>4 DEF Sysex!GetDeviceId, Sysex!GetSubIds, Sysex!Byte
<1>2. ASSUME purpose.by = "manufacturer", Sysex!LegalId(purpose.id)
      PROVE  Sysex!GetManufacturerId = purpose.id
  <2> DEFINE id == purpose.id
  <2>1. /\ id \in Nat
        /\ data = IF id <= 127 THEN <<Sysex!SOX, id, 1, Sysex!EOX>>
                  ELSE <<Sysex!SOX, 0, (id \div 256) % 128, id % 128, 1, Sysex!EOX>>
    BY <1>2 DEF ManufacturerInv
  <2> HIDE DEF id
  <2>2. CASE id <= 127
    <3>1. /\ data # <<>> /\ Head(data) = Sysex!SOX /\ Len(data) = 4 /\ data[2] = id
          /\ id # 0
      BY <1>2, <2>1, <2>2 DEF Sysex!LegalId, id
    <3> QED
      BY <3>1 DEF Sysex!GetManufacturerId, Sysex!IsValid, Sysex!Byte, id
  <2>3. CASE ~(id <= 127)
    <3>1. id % 256 < 128 /\ id \div 256 < 128 /\ id \div 256 \in Nat /\ id % 256 \in Nat
      BY <1>2, <2>1, <2>3 DEF Sysex!LegalId, id
    <3>2. id = (id \div 256) * 256 + (id % 256)
      BY <2>1
    <3>3. id % 128 = id % 256 /\ (id \div 256) % 128 = id \div 256
      BY <2>1, <3>1, <3>2
    <3>4. /\ data # <<>> /\ Head(data) = Sysex!SOX /\ Len(data) = 6 /\ data[2] = 0
          /\ data[3] = (id \div 256) % 128 /\ data[4] = id % 128
      BY <2>1, <2>3
    <3>5. ~Sysex!IsUniversal
      BY <3>4 DEF Sysex!IsUniversal, Sysex!Byte
    <3>6. Sysex!GetManufacturerId = data[3] * 256 + data[4]
      BY <3>4, <3>5 DEF Sysex!Pair, Sysex!GetManufacturerId, Sysex!IsValid, Sysex!Byte
    <3> QED
      BY <3>2, <3>3, <3>4, <3>6 DEF id
  <2> QED
    BY <2>2, <2>3
<1> QED
  BY <1>1, <1>2 DEF Sysex!IdsReadBack


(* What a reply with its eight bytes after place k says.                      *)
Said(b, k) ==
  [accepted |-> TRUE, deviceId |-> b[3],
   manufacturerId |-> IF b[6] = 0 THEN Sysex!Pair(b[7], b[8]) ELSE b[6],
   familyCode |-> Sysex!Pair(b[k + 1 + 1], b[k + 0 + 1]),
   modelNumber |-> Sysex!Pair(b[k + 3 + 1], b[k + 2 + 1]),
   softwareRevision |-> Sysex!Quad(b[k + 7 + 1], b[k + 6 + 1], b[k + 5 + 1], b[k + 4 + 1])]

TooBad(b, k) == Len(b) < 15 \/ b[2] # 126 \/ SubSeq(b, 4, 5) # <<6, 2>> \/ k + 8 > Len(b)

LEMMA ParsedReply ==
  ASSUME NEW b, NEW k, b[6] = 0 => k = 8, b[6] # 0 => k = 6
  PROVE  Sysex!ParseIdentityReply(b) = IF TooBad(b, k) THEN Sysex!NotAReply ELSE Said(b, k)
<1>1. k = IF b[6] = 0 THEN 8 ELSE 6
  OBVIOUS
<1> QED
  BY <1>1, Zenon DEF Sysex!ParseIdentityReply, TooBad, Said

(* What is parsed as a reply is long enough, and says what its bytes do.      *)
LEMMA AcceptedReply ==
  ASSUME NEW b, NEW k, b[6] = 0 => k = 8, b[6] # 0 => k = 6, Sysex!ParseIdentityReply(b).accepted
  PROVE  ~(Len(b) < 15) /\ ~(k + 8 > Len(b)) /\ Sysex!ParseIdentityReply(b) = Said(b, k)
<1>1. Sysex!ParseIdentityReply(b) = IF TooBad(b, k) THEN Sysex!NotAReply ELSE Said(b, k)
  BY ParsedReply
<1>2. ~Sysex!NotAReply.accepted
  BY DEF Sysex!NotAReply
<1>3. ~TooBad(b, k)
  BY <1>1, <1>2
<1> QED
  BY <1>1, <1>3 DEF TooBad

(* An identity reply parses to what it was built from, and a prefix of it to  *)
(* the same.                                                                  *)
LEMMA ReplyReads == IdentityInv => Sysex!ReplyReadsBack
<1> DEFINE Meant == Sysex!Told(purpose.given, purpose.id, content[1])
<1> SUFFICES ASSUME IdentityInv, purpose.by = "identity"
             PROVE  /\ Sysex!IsNonRealTime /\ Sysex!ParseIdentityReply(data).accepted
                    /\ \A n \in 6..Len(data) :
                         LET reply == Sysex!ParseIdentityReply(SubSeq(data, 1, n))
                         IN reply.accepted => reply = Meant
  BY Zenon DEF Sysex!ReplyReadsBack
<1>1. PICK x \in Bytes7, y \in Bytes7, z \in Bytes7 :
        /\ content = <<z>> /\ purpose.given = Given(x, y, z)
        /\ \/ purpose.id = <<65>> /\ data = ShortReply(x, y, z)
           \/ \E a, b \in Bytes7 : purpose.id = <<0, a, b>> /\ data = LongReply(a, b, x, y, z)
  BY Zenon DEF IdentityInv
<1>2. \A v \in Bytes7 : v \in Nat
  BY DEF Bytes7
<1> DEFINE Id == IF Len(purpose.id) = 1 THEN purpose.id[1] ELSE Sysex!Pair(purpose.id[2], purpose.id[3])
           Bytes(k) == /\ data[k + 1] = x /\ data[k + 2] = y /\ data[k + 3] = y /\ data[k + 4] = z
                       /\ data[k + 5] = z /\ data[k + 6] = x /\ data[k + 7] = y /\ data[k + 8] = z
           Framed15(k) == /\ data \in Seq(Nat) /\ Len(data) = k + 9 /\ (k = IF data[6] = 0 THEN 8 ELSE 6)
                          /\ data # <<>> /\ Head(data) = Sysex!SOX
                          /\ data[2] = 126 /\ data[3] = z /\ data[4] = 6 /\ data[5] = 2
           Named(k) == Id = IF data[6] = 0 THEN Sysex!Pair(data[7], data[8]) ELSE data[6]
<1>3. PICK k \in {6, 8} : Framed15(k) /\ Bytes(k) /\ Named(k)
  <2>1. CASE purpose.id = <<65>> /\ data = ShortReply(x, y, z)
    <3>1. data \in Seq(Nat)
      BY <1>2, <2>1 DEF ShortReply, Sysex!SOX, Sysex!EOX
    <3>2. Framed15(6)
      BY <2>1, <3>1 DEF ShortReply
    <3>3. Bytes(6)
      BY <2>1 DEF ShortReply
    <3>4. Id = 65 /\ data[6] = 65
      BY <2>1 DEF ShortReply
    <3>5. Named(6)
      BY <3>4
    <3> HIDE DEF Framed15, Bytes, Named
    <3> QED
      BY <3>2, <3>3, <3>5
  <2>2. ASSUME NEW a \in Bytes7, NEW b \in Bytes7, purpose.id = <<0, a, b>>, data = LongReply(a, b, x, y, z)
        PROVE  \E k \in {6, 8} : Framed15(k) /\ Bytes(k) /\ Named(k)
    <3>1. data \in Seq(Nat)
      BY <1>2, <2>2 DEF LongReply, Sysex!SOX, Sysex!EOX
    <3>2. Framed15(8)
      BY <2>2, <3>1 DEF LongReply
    <3>3. Bytes(8)
      BY <2>2 DEF LongReply
    <3>4. Id = Sysex!Pair(a, b) /\ data[6] = 0 /\ data[7] = a /\ data[8] = b
      BY <2>2 DEF LongReply
    <3>5. Named(8)
      BY <3>4
    <3> HIDE DEF Framed15, Bytes, Named
    <3> QED
      BY <3>2, <3>3, <3>5
  <2> QED
    BY <1>1, <2>1, <2>2, Zenon
<1>4. Meant = [accepted |-> TRUE, deviceId |-> z, manufacturerId |-> Id,
               familyCode |-> Sysex!Pair(y, x), modelNumber |-> Sysex!Pair(z, y),
               softwareRevision |-> Sysex!Quad(z, y, x, z)]
  <2>1. /\ content[1] = z
        /\ purpose.given.family = <<y, x>> /\ purpose.given.model = <<z, y>>
        /\ purpose.given.version = <<x, z, y, z>>
    BY <1>1 DEF Given
  <2>2. /\ purpose.given.family[1] = y /\ purpose.given.family[2] = x
        /\ purpose.given.model[1] = z /\ purpose.given.model[2] = y
        /\ purpose.given.version[1] = x /\ purpose.given.version[2] = z
        /\ purpose.given.version[3] = y /\ purpose.given.version[4] = z
    BY <2>1
  <2> QED
    BY <2>1, <2>2, Zenon DEF Sysex!Told
<1> HIDE DEF Meant
<1>5. Sysex!IsNonRealTime
  <2>1. Len(data) > 1 /\ data[1 + 1] = 126
    BY <1>3
  <2> QED
    BY <1>3, <2>1 DEF Sysex!IsNonRealTime, Sysex!IsUniversal, Sysex!IsValid, Sysex!Byte
<1>6. Sysex!ParseIdentityReply(data).accepted
  <2>1. SubSeq(data, 4, 5) = <<6, 2>>
    <3> DEFINE u == SubSeq(data, 4, 5)
    <3>1. \A i \in 4..5 : data[i] \in Nat
      <4>1. 4..5 \subseteq 1..Len(data)
        BY <1>3
      <4> QED
        BY <1>3, <4>1, ElementOfSeq
    <3>2. u \in Seq(Nat) /\ Len(u) = 2 /\ u[1] = 6 /\ u[2] = 2
      <4>1. /\ u \in Seq(Nat) /\ Len(u) = IF 4 <= 5 THEN 5 - 4 + 1 ELSE 0
            /\ \A i \in 1 .. 5 - 4 + 1 : u[i] = data[4 + i - 1]
        BY <3>1, SubSeqProperties
      <4>2. 1 \in 1 .. 5 - 4 + 1 /\ 2 \in 1 .. 5 - 4 + 1
        OBVIOUS
      <4>3. u[1] = data[4 + 1 - 1] /\ u[2] = data[4 + 2 - 1]
        BY <4>1, <4>2
      <4> HIDE DEF u
      <4> QED
        BY <1>3, <4>1, <4>3
    <3> HIDE DEF u
    <3>3. u = <<6, 2>>
      BY <3>2
    <3> QED
      BY <3>3 DEF u
  <2>2. Sysex!ParseIdentityReply(data) = IF TooBad(data, k) THEN Sysex!NotAReply ELSE Said(data, k)
    <3>1. (data[6] = 0 => k = 8) /\ (data[6] # 0 => k = 6)
      BY <1>3
    <3> QED
      BY <3>1, ParsedReply, Zenon
  <2>3. ~TooBad(data, k)
    BY <1>3, <2>1 DEF TooBad
  <2>4. Said(data, k).accepted
    BY DEF Said
  <2> QED
    BY <2>2, <2>3, <2>4
<1>7. ASSUME NEW n \in 6..Len(data), Sysex!ParseIdentityReply(SubSeq(data, 1, n)).accepted
      PROVE  Sysex!ParseIdentityReply(SubSeq(data, 1, n)) = Meant
  <2> DEFINE b == SubSeq(data, 1, n)
  <2>1. b \in Seq(Nat) /\ Len(b) = n /\ \A i \in 1..n : b[i] = data[i]
    <3>1. n \in Int /\ 1 <= n /\ \A i \in 1..n : data[i] \in Nat
      <4>1. n \in Nat /\ 1 <= n /\ n <= Len(data) /\ 1..n \subseteq 1..Len(data)
        BY <1>3
      <4> QED
        <5>1. data \in Seq(Nat)
          BY <1>3
        <5> QED
          BY <4>1, <5>1, ElementOfSeq
    <3>2. /\ b \in Seq(Nat) /\ Len(b) = IF 1 <= n THEN n - 1 + 1 ELSE 0
          /\ \A i \in 1 .. n - 1 + 1 : b[i] = data[1 + i - 1]
      BY <3>1, SubSeqProperties
    <3> HIDE DEF b
    <3> QED
      BY <3>1, <3>2
  <2>2. Sysex!ParseIdentityReply(b).accepted
    BY <1>7
  <2> HIDE DEF b
  <2>3. b[6] = data[6] /\ (b[6] = 0 => k = 8) /\ (b[6] # 0 => k = 6)
    BY <1>3, <2>1
  <2>4. /\ ~(Len(b) < 15) /\ ~(k + 8 > Len(b))
        /\ Sysex!ParseIdentityReply(b) = Said(b, k)
    BY <2>2, <2>3, AcceptedReply, Zenon
  <2>5. 15 <= n /\ k + 8 <= n
    BY <2>1, <2>4
  <2>6. /\ b[3] = z /\ b[7] = data[7] /\ b[8] = data[8]
        /\ b[k + 0 + 1] = x /\ b[k + 1 + 1] = y /\ b[k + 2 + 1] = y /\ b[k + 3 + 1] = z
        /\ b[k + 4 + 1] = z /\ b[k + 5 + 1] = x /\ b[k + 6 + 1] = y /\ b[k + 7 + 1] = z
    <3>1. \A i \in 1..n : b[i] = data[i]
      BY <2>1
    <3>2. Bytes(k) /\ data[3] = z
      BY <1>3
    <3>3. CASE k = 6
      BY <2>5, <3>1, <3>2, <3>3
    <3>4. CASE k = 8
      BY <2>5, <3>1, <3>2, <3>4
    <3> QED
      BY <3>3, <3>4
  <2>7. Id = IF b[6] = 0 THEN Sysex!Pair(b[7], b[8]) ELSE b[6]
    <3> HIDE DEF Id
    <3> QED
      BY <1>3, <2>3, <2>6
  <2> HIDE DEF Id
  <2>8. Said(b, k) = Meant
    BY <1>4, <2>6, <2>7, Zenon DEF Said
  <2> QED
    BY <2>4, <2>8 DEF b
<1> QED
  BY <1>5, <1>6, <1>7, Zenon


(* The checksum tells sums apart that differ by less than 128.                *)
LEMMA ChecksumsDiffer ==
  ASSUME NEW a \in Nat, NEW b \in Nat, a # b, a < b + 128, b < a + 128
  PROVE  (128 - (a % 128)) % 128 # (128 - (b % 128)) % 128
<1>1. ASSUME NEW r \in Nat, r < 128
      PROVE  (128 - r) % 128 = IF r = 0 THEN 0 ELSE 128 - r
  <2>1. CASE r = 0
    BY <2>1
  <2>2. CASE r # 0
    <3> DEFINE m == 128 - r
    <3>1. m \in Nat /\ m < 128
      BY <1>1, <2>2
    <3> HIDE DEF m
    <3>2. m % 128 = m
      BY <3>1
    <3> QED
      BY <2>2, <3>2 DEF m
  <2> QED
    BY <2>1, <2>2
<1>2. /\ a % 128 \in Nat /\ a % 128 < 128 /\ b % 128 \in Nat /\ b % 128 < 128
      /\ a = (a \div 128) * 128 + (a % 128) /\ b = (b \div 128) * 128 + (b % 128)
      /\ a \div 128 \in Nat /\ b \div 128 \in Nat
  OBVIOUS
<1>3. a % 128 # b % 128
  BY <1>2
<1> DEFINE p == a % 128  q == b % 128
<1>4. p \in Nat /\ p < 128 /\ q \in Nat /\ q < 128 /\ p # q
  BY <1>2, <1>3
<1> HIDE DEF p, q
<1>5. (128 - p) % 128 # (128 - q) % 128
  BY <1>1, <1>4
<1> QED
  BY <1>5 DEF p, q

(* One byte of three changed.                                                 *)
LEMMA OneChanged ==
  ASSUME NEW p \in Nat, NEW q \in Nat, NEW r \in Nat, NEW v \in Nat, p < 128, v < 128, v # p
  PROVE  /\ p + q + r \in Nat /\ v + q + r \in Nat /\ p + q + r # v + q + r
         /\ p + q + r < v + q + r + 128 /\ v + q + r < p + q + r + 128
OBVIOUS

(* A byte changed is a sequence of bytes still.                               *)
LEMMA ByteChanged ==
  ASSUME NEW s \in Seq(Nat), NEW i \in 1..Len(s), NEW v \in Nat
  PROVE  [s EXCEPT ![i] = v] \in Seq(Nat) /\ Len([s EXCEPT ![i] = v]) = Len(s)
OBVIOUS

(* A message verifies, and not with a byte of the three changed.              *)
LEMMA ChecksumReads == RolandInv => Sysex!ChecksumDetects
<1> SUFFICES ASSUME RolandInv, purpose.by = "roland"
             PROVE  /\ Sysex!VerifyRoland(data)
                    /\ \A i \in 6..8, v \in DataBytes :
                         v # data[i] => ~Sysex!VerifyRoland([data EXCEPT ![i] = v])
  BY Zenon DEF Sysex!ChecksumDetects
<1> DEFINE Check(s) == (128 - (s % 128)) % 128
<1>1. PICK x \in Bytes7, y \in Bytes7, z \in Bytes7 :
        data = <<Sysex!SOX, 65, 16, 66, 18, x, y, z, Check(x + y + z), Sysex!EOX>>
  BY Zenon DEF RolandInv
<1>2. \A v \in Bytes7 : v \in Nat /\ v < 128
  BY DEF Bytes7
<1>3. Check(x + y + z) \in Nat
  <2>1. x + y + z \in Nat
    BY <1>2
  <2> DEFINE s == x + y + z
  <2> HIDE DEF s
  <2>2. Check(s) \in Nat
    BY <2>1 DEF s
  <2> QED
    BY <2>2 DEF s
<1> HIDE DEF Check
<1>4. /\ data \in Seq(Nat) /\ Len(data) = 10 /\ data[6] = x /\ data[7] = y /\ data[8] = z
      /\ data[9] = Check(data[6] + data[7] + data[8])
  <2>1. Len(data) = 10 /\ data[6] = x /\ data[7] = y /\ data[8] = z /\ data[9] = Check(x + y + z)
    BY <1>1
  <2>2. data \in Seq(Nat)
    BY <1>1, <1>2, <1>3 DEF Sysex!SOX, Sysex!EOX
  <2> QED
    BY <2>1, <2>2
<1>5. \A b \in Seq(Nat) : Len(b) = 10 =>
        (Sysex!VerifyRoland(b) <=> Check(b[6] + b[7] + b[8]) = b[9])
  <2> SUFFICES ASSUME NEW b \in Seq(Nat), Len(b) = 10
               PROVE  Sysex!VerifyRoland(b) <=> Check(b[6] + b[7] + b[8]) = b[9]
    OBVIOUS
  <2>1. Sysex!Checksum(b) = Check(b[6] + b[7] + b[8])
    BY ChecksumOfThree DEF Check
  <2>2. Len(b) >= 8 /\ Len(b) - 1 = 9
    OBVIOUS
  <2> QED
    BY <2>1, <2>2 DEF Sysex!VerifyRoland
<1>6. Sysex!VerifyRoland(data)
  BY <1>4, <1>5
<1>7. ASSUME NEW i \in 6..8, NEW v \in DataBytes, v # data[i]
      PROVE  ~Sysex!VerifyRoland([data EXCEPT ![i] = v])
  <2> DEFINE b == [data EXCEPT ![i] = v]
  <2>1. v \in Nat /\ v < 128
    BY NodesAssumption
  <2>2. b \in Seq(Nat) /\ Len(b) = 10
    <3>1. i \in 1..Len(data)
      BY <1>4
    <3>2. data \in Seq(Nat) /\ Len(data) = 10
      BY <1>4
    <3>3. v \in Nat
      BY <2>1
    <3> QED
      BY <3>1, <3>2, <3>3, ByteChanged
  <2>3. b[9] = data[9] /\ b[i] = v /\ \A j \in 6..8 : j # i => b[j] = data[j]
    <3>1. DOMAIN data = 1..10
      BY <1>4
    <3> QED
      BY <3>1
  <2> HIDE DEF b
  <2> DEFINE s == data[6] + data[7] + data[8]
             t == b[6] + b[7] + b[8]
  <2>4. s \in Nat /\ t \in Nat /\ s # t /\ s < t + 128 /\ t < s + 128
    <3>1. /\ data[6] \in Nat /\ data[6] < 128 /\ data[7] \in Nat /\ data[7] < 128
          /\ data[8] \in Nat /\ data[8] < 128
      BY <1>2, <1>4
    <3>2. CASE i = 6
      <4>1. b[6] = v /\ b[7] = data[7] /\ b[8] = data[8] /\ v # data[6]
        BY <1>7, <2>3, <3>2
      <4> QED
        BY <2>1, <3>1, <4>1, OneChanged
    <3>3. CASE i = 7
      <4>1. b[7] = v /\ b[6] = data[6] /\ b[8] = data[8] /\ v # data[7]
        BY <1>7, <2>3, <3>3
      <4>2. s = data[7] + data[6] + data[8] /\ t = v + data[6] + data[8]
        BY <2>1, <3>1, <4>1
      <4> HIDE DEF s, t
      <4> QED
        BY <2>1, <3>1, <4>1, <4>2, OneChanged
    <3>4. CASE i = 8
      <4>1. b[8] = v /\ b[6] = data[6] /\ b[7] = data[7] /\ v # data[8]
        BY <1>7, <2>3, <3>4
      <4>2. s = data[8] + data[6] + data[7] /\ t = v + data[6] + data[7]
        BY <2>1, <3>1, <4>1
      <4> HIDE DEF s, t
      <4> QED
        BY <2>1, <3>1, <4>1, <4>2, OneChanged
    <3>5. i = 6 \/ i = 7 \/ i = 8
      OBVIOUS
    <3> QED
      BY <3>2, <3>3, <3>4, <3>5
  <2> HIDE DEF s, t
  <2>5. Check(t) # Check(s)
    BY <2>4, ChecksumsDiffer DEF Check
  <2>6. b[9] = Check(s)
    BY <1>4, <2>3 DEF s
  <2>7. ~Sysex!VerifyRoland(b)
    BY <1>5, <2>2, <2>5, <2>6 DEF t
  <2> QED
    BY <2>7 DEF b
<1> QED
  BY <1>6, <1>7

(* A SysEx message is the stream, or what one of the factories built.         *)
THEOREM SysexInvariance == Spec => []SysexInv
<1>1. SysexInv /\ [Next]_vars => SysexInv'
  <2> SUFFICES ASSUME SysexInv, [Next]_vars PROVE SysexInv'
    OBVIOUS
  <2>1. CASE UNCHANGED <<data, purpose, content>>
    BY <2>1, SMTT(30) DEF SysexInv, StreamInv, UniversalInv, ManufacturerInv, IdentityInv, RolandInv
  <2>2. CASE SysexStep
    BY <2>2, SysexKept DEF SysexStep
  <2> QED
    BY <2>1, <2>2, OneSteps
<1> QED
  BY <1>1, SysexStarts, PTL DEF Spec

-----------------------------------------------------------------------------
(* The DC blockers.                                                           *)

(* A non-empty set of naturals has a least element: what holds of 0 and       *)
(* passes from k to k + 1 has no least exception.                             *)
LEMMA NoLeastException ==
  ASSUME NEW T, T \subseteq Nat, 0 \notin T, \A k \in Nat : k \notin T => k + 1 \notin T
  PROVE  T = {}
<1> SUFFICES ASSUME T # {} PROVE FALSE
  OBVIOUS
<1>1. PICK n \in T : \A m \in T : <<m, n>> \notin OpToRel(<, Nat)
  BY WFMin, NatLessThanWellFounded, Zenon
<1>2. \A m \in T : ~(m < n)
  BY <1>1, Zenon DEF OpToRel
<1>3. n \in Nat /\ n # 0
  OBVIOUS
<1>4. n - 1 \in Nat /\ (n - 1) + 1 = n /\ n - 1 < n
  BY <1>3
<1> QED
  BY <1>2, <1>4

(* The sums of a sequence of terms, and the powers of a radius.               *)
Sums(s, t, n) ==
  s \in [0..n -> Int] /\ s[0] = 0 /\ \A k \in 1..n : s[k] = s[k - 1] + t[k]
Decays(d, r, n) ==
  d \in [0..n -> Int] /\ d[0] = 1 /\ \A k \in 1..n : d[k] = r * d[k - 1]

(* There are such sums and powers up to every number.                         *)
LEMMA SumsExist ==
  ASSUME NEW n \in Nat, NEW t \in [1..n -> Int] PROVE \E s : Sums(s, t, n)
<1> DEFINE Upto(k) == k <= n => \E s : Sums(s, t, k)
           T == {k \in Nat : ~Upto(k)}
<1>1. 0 \notin T
  <2>1. Sums([k \in 0..0 |-> 0], t, 0)
    BY DEF Sums
  <2> QED
    BY <2>1
<1>2. ASSUME NEW k \in Nat, k \notin T PROVE k + 1 \notin T
  <2> SUFFICES ASSUME k + 1 <= n PROVE \E s : Sums(s, t, k + 1)
    OBVIOUS
  <2>1. PICK s : Sums(s, t, k)
    BY <1>2
  <2>2. s \in [0..k -> Int] /\ s[0] = 0 /\ \A i \in 1..k : s[i] = s[i - 1] + t[i]
    BY <2>1 DEF Sums
  <2> DEFINE u == [i \in 0..(k + 1) |-> IF i = k + 1 THEN s[k] + t[k + 1] ELSE s[i]]
  <2>3. s[k] + t[k + 1] \in Int /\ \A i \in 0..k : s[i] \in Int
    BY <2>2
  <2>4. u \in [0..(k + 1) -> Int] /\ u[0] = 0 /\ u[k + 1] = s[k] + t[k + 1] /\ \A i \in 0..k : u[i] = s[i]
    BY <2>2, <2>3
  <2> HIDE DEF u
  <2>5. ASSUME NEW i \in 1..(k + 1) PROVE u[i] = u[i - 1] + t[i]
    <3>1. CASE i = k + 1
      <4>1. i - 1 = k /\ k \in 0..k
        BY <3>1
      <4> QED
        BY <2>4, <3>1, <4>1
    <3>2. CASE i # k + 1
      <4>1. i \in 1..k /\ i \in 0..k /\ i - 1 \in 0..k
        BY <3>2
      <4> QED
        BY <2>2, <2>4, <4>1
    <3> QED
      BY <3>1, <3>2
  <2>6. Sums(u, t, k + 1)
    BY <2>4, <2>5 DEF Sums
  <2> QED
    BY <2>6
<1> HIDE DEF Upto
<1>3. T = {}
  <2>1. T \subseteq Nat /\ \A k \in Nat : k \notin T => k + 1 \notin T
    BY <1>2
  <2> HIDE DEF T
  <2> QED
    BY <1>1, <2>1, NoLeastException
<1>4. Upto(n)
  BY <1>3
<1> QED
  BY <1>4 DEF Upto

LEMMA DecaysExist ==
  ASSUME NEW n \in Nat, NEW r \in Int PROVE \E d : Decays(d, r, n)
<1> DEFINE Upto(k) == \E d : Decays(d, r, k)
           T == {k \in Nat : ~Upto(k)}
<1>1. 0 \notin T
  <2>1. Decays([k \in 0..0 |-> 1], r, 0)
    BY DEF Decays
  <2> QED
    BY <2>1
<1>2. ASSUME NEW k \in Nat, k \notin T PROVE k + 1 \notin T
  <2>1. PICK d : Decays(d, r, k)
    BY <1>2
  <2>2. d \in [0..k -> Int] /\ d[0] = 1 /\ \A i \in 1..k : d[i] = r * d[i - 1]
    BY <2>1 DEF Decays
  <2> DEFINE next == r * d[k]
             u == [i \in 0..(k + 1) |-> IF i = k + 1 THEN next ELSE d[i]]
  <2>3. next \in Int /\ \A i \in 0..k : d[i] \in Int
    BY <2>2
  <2>4. u \in [0..(k + 1) -> Int] /\ u[0] = 1 /\ u[k + 1] = next /\ \A i \in 0..k : u[i] = d[i]
    <3> HIDE DEF next
    <3> QED
      BY <2>2, <2>3
  <2> HIDE DEF u
  <2>5. ASSUME NEW i \in 1..(k + 1) PROVE u[i] = r * u[i - 1]
    <3>1. CASE i = k + 1
      <4>1. i - 1 = k /\ k \in 0..k
        BY <3>1
      <4> QED
        BY <2>4, <3>1, <4>1
    <3>2. CASE i # k + 1
      <4>1. i \in 1..k /\ i \in 0..k /\ i - 1 \in 0..k
        BY <3>2
      <4> QED
        BY <2>2, <2>4, <4>1
    <3> QED
      BY <3>1, <3>2
  <2>6. Decays(u, r, k + 1)
    BY <2>4, <2>5 DEF Decays
  <2> QED
    BY <2>6
<1> HIDE DEF Upto
<1>3. T = {}
  <2>1. T \subseteq Nat /\ \A k \in Nat : k \notin T => k + 1 \notin T
    BY <1>2
  <2> HIDE DEF T
  <2> QED
    BY <1>1, <2>1, NoLeastException
<1>4. Upto(n)
  BY <1>3
<1> QED
  BY <1>4 DEF Upto

(* The powers up to one number and up to the next are the same powers.        *)
LEMMA DecaysAgree ==
  ASSUME NEW n \in Nat, NEW r \in Int, NEW d, NEW e, Decays(d, r, n), Decays(e, r, n + 1)
  PROVE  \A k \in 0..n : d[k] = e[k]
<1> DEFINE T == {k \in 0..n : d[k] # e[k]}
<1>1. /\ d[0] = 1 /\ \A k \in 1..n : d[k] = r * d[k - 1]
      /\ e[0] = 1 /\ \A k \in 1..(n + 1) : e[k] = r * e[k - 1]
  BY DEF Decays
<1>2. ASSUME NEW k \in Nat, k \notin T PROVE k + 1 \notin T
  <2> SUFFICES ASSUME k + 1 \in 0..n PROVE d[k + 1] = e[k + 1]
    OBVIOUS
  <2>1. k \in 0..n /\ k + 1 \in 1..n /\ k + 1 \in 1..(n + 1) /\ (k + 1) - 1 = k
    OBVIOUS
  <2>2. d[k] = e[k]
    BY <1>2, <2>1
  <2> QED
    BY <1>1, <2>1, <2>2
<1>3. T \subseteq Nat /\ 0 \notin T
  BY <1>1
<1> HIDE DEF T
<1>4. T = {}
  BY <1>2, <1>3, NoLeastException
<1> QED
  BY <1>4 DEF T

(* The terms of a response: each step of the input, decayed since.            *)
StepOf(xs, k) == xs[k] - (IF k = 1 THEN 0 ELSE xs[k - 1])
Terms(xs, d) == [k \in 1..Len(xs) |-> StepOf(xs, k) * d[Len(xs) - k]]

(* Steps, terms and, for integers, all of them integers.                      *)
LEMMA TermsType ==
  ASSUME NEW xs \in Seq(Int), NEW d \in [0..Len(xs) -> Int]
  PROVE  /\ \A k \in 1..Len(xs) : StepOf(xs, k) \in Int
         /\ Terms(xs, d) \in [1..Len(xs) -> Int]
<1>1. \A k \in 1..Len(xs) : StepOf(xs, k) \in Int
  <2> SUFFICES ASSUME NEW k \in 1..Len(xs) PROVE StepOf(xs, k) \in Int
    OBVIOUS
  <2>1. xs[k] \in Int /\ (k # 1 => xs[k - 1] \in Int)
    <3>1. k # 1 => k - 1 \in 1..Len(xs)
      OBVIOUS
    <3> QED
      BY <3>1, ElementOfSeq
  <2> QED
    BY <2>1 DEF StepOf
<1>2. ASSUME NEW k \in 1..Len(xs) PROVE StepOf(xs, k) * d[Len(xs) - k] \in Int
  <2>1. Len(xs) - k \in 0..Len(xs)
    OBVIOUS
  <2>2. d[Len(xs) - k] \in Int
    BY <2>1
  <2> DEFINE a == StepOf(xs, k)  b == d[Len(xs) - k]
  <2>3. a \in Int /\ b \in Int
    BY <1>1, <2>2
  <2> HIDE DEF a, b
  <2>4. a * b \in Int
    BY <2>3
  <2> QED
    BY <2>4 DEF a, b
<1> QED
  BY <1>1, <1>2 DEF Terms

(* A response is the last of the sums of its terms.                           *)
LEMMA ResponseIs ==
  ASSUME NEW r \in Int, NEW xs \in Seq(Int)
  PROVE  \E d, s : /\ Decays(d, r, Len(xs)) /\ Sums(s, Terms(xs, d), Len(xs))
                  /\ Bank!Response(r, xs) = s[Len(xs)]
<1> DEFINE n == Len(xs)
           Powers(d) == d = [k \in 0..n |-> IF k = 0 THEN 1 ELSE r * d[k - 1]]
           Adds(s, d) == s = [k \in 0..n |-> IF k = 0 THEN 0
                                           ELSE s[k - 1] + (xs[k] - (IF k = 1 THEN 0 ELSE xs[k - 1])) * d[n - k]]
           d == CHOOSE f : Powers(f)
           s == CHOOSE f : Adds(f, d)
<1>0. n \in Nat
  OBVIOUS
<1>1. ASSUME NEW f, Decays(f, r, n) PROVE Powers(f)
  <2>1. f \in [0..n -> Int] /\ f[0] = 1 /\ \A k \in 1..n : f[k] = r * f[k - 1]
    BY <1>1 DEF Decays
  <2> HIDE DEF n
  <2>2. \A k \in 0..n : f[k] = IF k = 0 THEN 1 ELSE r * f[k - 1]
    BY <2>1
  <2> QED
    BY <2>1, <2>2
<1>2. Powers(d)
  <2>1. \E f : Powers(f)
    BY <1>0, <1>1, DecaysExist
  <2> QED
    BY <2>1, Zenon
<1> HIDE DEF d
<1>3. Decays(d, r, n)
  <2>1. PICK f : Decays(f, r, n)
    BY <1>0, DecaysExist
  <2> DEFINE T == {k \in 0..n : d[k] # f[k]}
  <2>2. f \in [0..n -> Int] /\ f[0] = 1 /\ \A k \in 1..n : f[k] = r * f[k - 1]
    BY <2>1 DEF Decays
  <2> HIDE DEF n
  <2>3. DOMAIN d = 0..n /\ \A k \in 0..n : d[k] = IF k = 0 THEN 1 ELSE r * d[k - 1]
    BY <1>2
  <2>4. ASSUME NEW k \in Nat, k \notin T PROVE k + 1 \notin T
    <3> SUFFICES ASSUME k + 1 \in 0..n PROVE d[k + 1] = f[k + 1]
      OBVIOUS
    <3>1. k \in 0..n /\ k + 1 \in 1..n /\ k + 1 # 0 /\ (k + 1) - 1 = k
      BY <1>0
    <3>2. d[k] = f[k]
      BY <2>4, <3>1
    <3> QED
      BY <2>2, <2>3, <3>1, <3>2
  <2>5. T \subseteq Nat /\ 0 \notin T
    BY <1>0, <2>2, <2>3
  <2> HIDE DEF T
  <2>6. T = {}
    BY <2>4, <2>5, NoLeastException
  <2>7. \A k \in 0..n : d[k] = f[k]
    BY <2>6 DEF T
  <2>8. d = f
    <3>1. d = [k \in 0..n |-> d[k]] /\ f = [k \in 0..n |-> f[k]]
      BY <1>2, <2>2
    <3> QED
      BY <2>7, <3>1
  <2> QED
    BY <2>1, <2>8
<1>4. d \in [0..n -> Int]
  BY <1>3 DEF Decays
<1>5. ASSUME NEW f, Sums(f, Terms(xs, d), n) PROVE Adds(f, d)
  <2>1. f \in [0..n -> Int] /\ f[0] = 0 /\ \A k \in 1..n : f[k] = f[k - 1] + Terms(xs, d)[k]
    BY <1>5 DEF Sums
  <2>2. \A k \in 1..n : Terms(xs, d)[k] = (xs[k] - (IF k = 1 THEN 0 ELSE xs[k - 1])) * d[n - k]
    BY Zenon DEF Terms, StepOf
  <2> HIDE DEF n
  <2>3. ASSUME NEW k \in 0..n
        PROVE  f[k] = IF k = 0 THEN 0
                      ELSE f[k - 1] + (xs[k] - (IF k = 1 THEN 0 ELSE xs[k - 1])) * d[n - k]
    <3>1. k # 0 => k \in 1..n
      BY <1>0
    <3>2. k # 0 => f[k] = f[k - 1] + Terms(xs, d)[k]
      BY <2>1, <3>1
    <3>3. k # 0 => f[k] = f[k - 1] + (xs[k] - (IF k = 1 THEN 0 ELSE xs[k - 1])) * d[n - k]
      BY <2>2, <3>1, <3>2, Zenon
    <3> QED
      BY <2>1, <3>3, Zenon
  <2>4. f = [k \in 0..n |-> f[k]]
    BY <2>1
  <2> QED
    BY <2>3, <2>4, Zenon
<1>6. Adds(s, d)
  <2>1. Terms(xs, d) \in [1..n -> Int]
    BY <1>4, TermsType
  <2>2. \E f : Adds(f, d)
    BY <1>0, <1>5, <2>1, SumsExist
  <2> QED
    BY <2>2, Zenon
<1>7. Bank!Response(r, xs) = s[n]
  BY Zenon DEF Bank!Response, d, s
<1> HIDE DEF s
<1>8. Sums(s, Terms(xs, d), n)
  <2>1. Terms(xs, d) \in [1..n -> Int]
    BY <1>4, TermsType
  <2>2. PICK f : Sums(f, Terms(xs, d), n)
    BY <1>0, <2>1, SumsExist
  <2> DEFINE T == {k \in 0..n : s[k] # f[k]}
             add(k) == (xs[k] - (IF k = 1 THEN 0 ELSE xs[k - 1])) * d[n - k]
  <2>3. Adds(f, d)
    BY <1>5, <2>2
  <2>4. /\ DOMAIN f = 0..n /\ \A k \in 0..n : f[k] = IF k = 0 THEN 0 ELSE f[k - 1] + add(k)
        /\ DOMAIN s = 0..n /\ \A k \in 0..n : s[k] = IF k = 0 THEN 0 ELSE s[k - 1] + add(k)
    BY <1>6, <2>3
  <2> HIDE DEF n, add
  <2>5. ASSUME NEW k \in Nat, k \notin T PROVE k + 1 \notin T
    <3> SUFFICES ASSUME k + 1 \in 0..n PROVE s[k + 1] = f[k + 1]
      OBVIOUS
    <3>1. k \in 0..n /\ k + 1 # 0 /\ (k + 1) - 1 = k
      BY <1>0
    <3>2. s[k] = f[k]
      BY <2>5, <3>1
    <3> QED
      BY <2>4, <3>1, <3>2
  <2>6. T \subseteq Nat /\ 0 \notin T
    BY <1>0, <2>4
  <2> HIDE DEF T
  <2>7. T = {}
    BY <2>5, <2>6, NoLeastException
  <2>8. \A k \in 0..n : s[k] = f[k]
    BY <2>7 DEF T
  <2>9. s = f
    <3>1. s = [k \in 0..n |-> s[k]] /\ f = [k \in 0..n |-> f[k]]
      <4>1. Adds(s, d) /\ Adds(f, d)
        BY <1>6, <2>3
      <4> QED
        BY <4>1
    <3> QED
      BY <2>8, <3>1
  <2> QED
    BY <2>2, <2>9
<1> QED
  BY <1>3, <1>7, <1>8


(* What the products of a sample and powers obey.                             *)
LEMMA Products ==
  ASSUME NEW a \in Int, NEW b \in Int, NEW r \in Int
  PROVE  /\ a * b \in Int /\ a * (r * b) = r * (a * b) /\ r * (a + b) = r * a + r * b
         /\ a * 1 = a /\ r * 0 = 0
OBVIOUS

(* The memory of the last sample.                                             *)
LastOf(xs) == IF xs = <<>> THEN 0 ELSE xs[Len(xs)]

(* A sample more: what has been decays once, and its step is added.           *)
LEMMA ResponseGrows ==
  ASSUME NEW r \in Int, NEW xs \in Seq(Int), NEW x \in Int
  PROVE  /\ Bank!Response(r, xs) \in Int
         /\ Bank!Response(r, Append(xs, x)) = x - LastOf(xs) + r * Bank!Response(r, xs)
<1> DEFINE n == Len(xs)  ys == Append(xs, x)
<1>1. /\ n \in Nat /\ ys \in Seq(Int) /\ Len(ys) = n + 1 /\ ys[n + 1] = x
      /\ \A k \in 1..n : ys[k] = xs[k] /\ xs[k] \in Int
  BY AppendProperties
<1> HIDE DEF ys
<1>2. PICK d, s : /\ Decays(d, r, n) /\ Sums(s, Terms(xs, d), n) /\ Bank!Response(r, xs) = s[n]
  BY ResponseIs
<1>3. PICK e, u : /\ Decays(e, r, n + 1) /\ Sums(u, Terms(ys, e), n + 1)
                  /\ Bank!Response(r, ys) = u[n + 1]
  BY <1>1, ResponseIs, ZenonT(30)
<1>4. /\ d \in [0..n -> Int] /\ e \in [0..(n + 1) -> Int] /\ e[0] = 1
      /\ \A k \in 1..(n + 1) : e[k] = r * e[k - 1]
  BY <1>2, <1>3 DEF Decays
<1>5. \A k \in 0..n : d[k] = e[k]
  BY <1>1, <1>2, <1>3, DecaysAgree
<1>6. /\ s \in [0..n -> Int] /\ s[0] = 0 /\ \A k \in 1..n : s[k] = s[k - 1] + Terms(xs, d)[k]
      /\ u \in [0..(n + 1) -> Int] /\ u[0] = 0
      /\ \A k \in 1..(n + 1) : u[k] = u[k - 1] + Terms(ys, e)[k]
  BY <1>2, <1>3 DEF Sums
<1>7. /\ \A k \in 1..n : StepOf(xs, k) \in Int
      /\ Terms(xs, d) \in [1..n -> Int] /\ Terms(ys, e) \in [1..(n + 1) -> Int]
  BY <1>1, <1>4, TermsType
<1>8. ASSUME NEW k \in 1..n PROVE Terms(ys, e)[k] = r * Terms(xs, d)[k]
  <2> HIDE DEF n
  <2>1. /\ k \in 1..(n + 1) /\ n - k \in 0..n /\ (n + 1) - k \in 1..(n + 1)
        /\ ((n + 1) - k) - 1 = n - k
    BY <1>1
  <2>2. e[(n + 1) - k] = r * d[n - k]
    BY <1>4, <1>5, <2>1
  <2>3. StepOf(ys, k) = StepOf(xs, k)
    <3>1. ys[k] = xs[k] /\ (k # 1 => ys[k - 1] = xs[k - 1])
      <4>1. k # 1 => k - 1 \in 1..n
        BY <1>1
      <4> QED
        BY <1>1, <4>1
    <3> QED
      BY <3>1 DEF StepOf
  <2>4. Terms(ys, e)[k] = StepOf(ys, k) * e[(n + 1) - k]
    BY <1>1, <2>1 DEF Terms
  <2>5. Terms(xs, d)[k] = StepOf(xs, k) * d[n - k]
    BY DEF Terms, n
  <2> DEFINE a == StepOf(xs, k)  b == d[n - k]
  <2>6. a \in Int /\ b \in Int
    BY <1>4, <1>7, <2>1
  <2>7. Terms(ys, e)[k] = a * (r * b) /\ Terms(xs, d)[k] = a * b
    BY <2>2, <2>3, <2>4, <2>5
  <2> HIDE DEF a, b
  <2> QED
    BY <2>6, <2>7, Products
<1>9. Terms(ys, e)[n + 1] = x - LastOf(xs)
  <2>1. Terms(ys, e)[n + 1] = StepOf(ys, n + 1) * e[0]
    <3> HIDE DEF n
    <3>1. n + 1 \in 1..(n + 1) /\ (n + 1) - (n + 1) = 0
      BY <1>1
    <3> QED
      BY <1>1, <3>1 DEF Terms
  <2>2. StepOf(ys, n + 1) = x - LastOf(xs) /\ LastOf(xs) \in Int
    <3>1. CASE n = 0
      <4>1. xs = <<>> /\ n + 1 = 1
        BY <3>1
      <4> QED
        BY <1>1, <4>1 DEF StepOf, LastOf
    <3>2. CASE n # 0
      <4>1. xs # <<>>
        BY <3>2
      <4> HIDE DEF n
      <4>2. n \in 1..n /\ n + 1 # 1 /\ (n + 1) - 1 = n
        BY <1>1, <3>2
      <4>3. StepOf(ys, n + 1) = x - xs[n] /\ xs[n] \in Int
        BY <1>1, <4>2 DEF StepOf
      <4> QED
        BY <4>1, <4>3 DEF LastOf, n
    <3> QED
      BY <3>1, <3>2
  <2> DEFINE a == x - LastOf(xs)
  <2>3. a \in Int
    BY <2>2
  <2>4. Terms(ys, e)[n + 1] = a * 1
    BY <1>4, <2>1, <2>2
  <2> HIDE DEF a
  <2>5. Terms(ys, e)[n + 1] = a
    BY <2>3, <2>4, Products
  <2> QED
    BY <2>5 DEF a
<1>10. u[n] = r * s[n]
  <2> HIDE DEF n
  <2> DEFINE T == {k \in 0..n : u[k] # r * s[k]}
  <2>1. T \subseteq Nat /\ 0 \notin T
    <3>1. r * 0 = 0
      OBVIOUS
    <3> QED
      BY <1>1, <1>6, <3>1
  <2>2. ASSUME NEW k \in Nat, k \notin T PROVE k + 1 \notin T
    <3> SUFFICES ASSUME k + 1 \in 0..n PROVE u[k + 1] = r * s[k + 1]
      OBVIOUS
    <3>1. k \in 0..n /\ k + 1 \in 1..n /\ k + 1 \in 1..(n + 1) /\ (k + 1) - 1 = k
      BY <1>1
    <3>2. u[k] = r * s[k]
      BY <2>2, <3>1
    <3> DEFINE a == s[k]  b == Terms(xs, d)[k + 1]
    <3>3. a \in Int /\ b \in Int
      BY <1>6, <1>7, <3>1
    <3>4. Terms(ys, e)[k + 1] = r * b
      BY <1>8, <3>1
    <3>5. s[k + 1] = a + b
      BY <1>6, <3>1
    <3>6. u[k + 1] = r * a + r * b
      BY <1>6, <3>1, <3>2, <3>4
    <3> HIDE DEF a, b
    <3> QED
      BY <3>3, <3>5, <3>6, Products
  <2> HIDE DEF T
  <2>3. T = {}
    BY <2>1, <2>2, NoLeastException
  <2> QED
    BY <1>1, <2>3 DEF T
<1>11. u[n + 1] = x - LastOf(xs) + r * s[n] /\ s[n] \in Int
  <2> HIDE DEF n
  <2>1. n + 1 \in 1..(n + 1) /\ (n + 1) - 1 = n /\ n \in 0..n
    BY <1>1
  <2>2. u[n + 1] = u[n] + Terms(ys, e)[n + 1] /\ u[n] \in Int /\ Terms(ys, e)[n + 1] \in Int
    BY <1>6, <1>7, <2>1
  <2>3. u[n + 1] = Terms(ys, e)[n + 1] + u[n]
    BY <2>2
  <2> QED
    BY <1>6, <1>9, <1>10, <2>1, <2>3
<1> QED
  BY <1>2, <1>3, <1>11 DEF ys


(* A blocker has the bank's radius, the last sample of its channel, and, with *)
(* one radius all along, the response to the channel's samples.               *)
Follows(b, xs, r, one) ==
  /\ b \in [R : Int, x1 : Int, y1 : Int] /\ xs \in Seq(Int)
  /\ b.R = r /\ b.x1 = LastOf(xs) /\ (one => b.y1 = Bank!Response(r, xs))

Chs == 0..(numChannels - 1)

BankInv ==
  /\ numChannels \in Nat /\ R \in Int /\ cutoff \in Nat /\ blockerRate \in Nat \ {0}
  /\ DOMAIN blockers = Chs /\ DOMAIN heard = Chs
  /\ \A ch \in Chs : Follows(blockers[ch], heard[ch], R, steady)
  /\ agreed => R = Bank!calculateR(cutoff, blockerRate)

(* A blocker that was reset follows no samples.                               *)
LEMMA NothingHeard == ASSUME NEW r \in Int PROVE \A one : Follows(Bank!Fresh(r), <<>>, r, one)
<1>1. Bank!Response(r, <<>>) = 0
  <2>1. PICK d, s : Sums(s, Terms(<<>>, d), Len(<<>>)) /\ Bank!Response(r, <<>>) = s[Len(<<>>)]
    <3>1. <<>> \in Seq(Int)
      OBVIOUS
    <3> QED
      BY <3>1, ResponseIs
  <2>2. Len(<<>>) = 0
    OBVIOUS
  <2> QED
    BY <2>1, <2>2 DEF Sums
<1> QED
  BY <1>1 DEF Follows, LastOf, Bank!Fresh

(* A blocker that follows its channel follows it one sample further.          *)
LEMMA SampleFollows ==
  ASSUME NEW b, NEW xs, NEW r \in Int, NEW one, NEW x \in Int, Follows(b, xs, r, one)
  PROVE  Follows(Bank!Sample(b, x), Append(xs, x), r, one)
<1> DEFINE c == Bank!Sample(b, x)  ys == Append(xs, x)
<1>1. b \in [R : Int, x1 : Int, y1 : Int] /\ xs \in Seq(Int) /\ b.R = r /\ b.x1 = LastOf(xs)
  BY DEF Follows
<1> DEFINE product == b.R * b.y1
<1>2. product \in Int
  <2> DEFINE p == b.R  q == b.y1
  <2>1. p \in Int /\ q \in Int
    BY <1>1
  <2> HIDE DEF p, q
  <2>2. p * q \in Int
    BY <2>1
  <2> QED
    BY <2>2 DEF p, q
<1>3. c = [b EXCEPT !.x1 = x, !.y1 = x - b.x1 + product]
  BY DEF Bank!Sample
<1> HIDE DEF c
<1>4. c \in [R : Int, x1 : Int, y1 : Int] /\ c.R = r /\ c.x1 = x /\ c.y1 = x - b.x1 + product
  <2> DEFINE v == x - b.x1 + product
  <2>1. v \in Int
    <3> HIDE DEF product
    <3> QED
      BY <1>1, <1>2
  <2>2. c = [b EXCEPT !.x1 = x, !.y1 = v]
    BY <1>3
  <2> HIDE DEF v
  <2>3. c \in [R : Int, x1 : Int, y1 : Int] /\ c.R = r /\ c.x1 = x /\ c.y1 = v
    BY <1>1, <2>1, <2>2
  <2> QED
    BY <2>3 DEF v
<1>5. ys \in Seq(Int) /\ Len(ys) = Len(xs) + 1 /\ ys[Len(xs) + 1] = x
  BY <1>1, AppendProperties
<1>6. LastOf(ys) = x
  <2> HIDE DEF ys
  <2> QED
    BY <1>1, <1>5 DEF LastOf
<1>7. ASSUME one PROVE c.y1 = Bank!Response(r, ys)
  <2>1. b.y1 = Bank!Response(r, xs)
    BY <1>7 DEF Follows
  <2>2. Bank!Response(r, ys) = x - LastOf(xs) + r * Bank!Response(r, xs)
    BY <1>1, ResponseGrows
  <2>3. product = r * Bank!Response(r, xs)
    BY <1>1, <2>1
  <2> HIDE DEF product, ys
  <2> QED
    BY <1>1, <1>4, <2>2, <2>3
<1>8. Follows(c, ys, r, one)
  <2> HIDE DEF ys, product
  <2> QED
    BY <1>4, <1>5, <1>6, <1>7 DEF Follows
<1> QED
  BY <1>8 DEF c

LEMMA BankStarts == Init => BankInv
<1> SUFFICES ASSUME Bank!BlockersInit PROVE BankInv
  BY DEF Init
<1>1. /\ numChannels = 2 /\ R = 3 /\ blockers = Bank!Bank(2, 3) /\ cutoff = 2 /\ blockerRate = 1
      /\ heard = Bank!Nothing(2) /\ agreed = FALSE
  BY DEF Bank!BlockersInit
<1>2. \A ch \in Chs : Follows(blockers[ch], heard[ch], R, steady)
  <2>1. \A ch \in Chs : blockers[ch] = Bank!Fresh(3) /\ heard[ch] = <<>>
    BY <1>1 DEF Bank!Bank, Bank!Nothing, Chs
  <2> QED
    BY <1>1, <2>1, NothingHeard
<1> QED
  BY <1>1, <1>2 DEF BankInv, Chs, Bank!Bank, Bank!Nothing

(* Two frames appended are one and then the other.                            *)
LEMMA TwoMore ==
  ASSUME NEW xs \in Seq(Int), NEW x \in Int, NEW y \in Int
  PROVE  xs \o <<x, y>> = Append(Append(xs, x), y)
OBVIOUS

(* A block of two frames, found where they were put.                          *)
LEMMA BlockKeeps ==
  ASSUME BankInv, NEW chs, NEW frames, NEW found, Bank!Block(chs, frames, found),
         \A f \in 0..1 : \A ch \in chs \intersect Chs : frames[f][ch] \in Int /\ found[f][ch] = frames[f][ch]
  PROVE  BankInv'
<1>1. /\ numChannels \in Nat /\ R \in Int /\ DOMAIN blockers = Chs /\ DOMAIN heard = Chs
      /\ \A ch \in Chs : Follows(blockers[ch], heard[ch], R, steady)
  BY DEF BankInv
<1>2. /\ blockers' = [ch \in Chs |->
           IF ch \in chs THEN Bank!Sample(Bank!Sample(blockers[ch], found[0][ch]), found[1][ch])
           ELSE blockers[ch]]
      /\ heard' = [ch \in Chs |->
           IF ch \in chs THEN heard[ch] \o <<frames[0][ch], frames[1][ch]>> ELSE heard[ch]]
      /\ UNCHANGED <<form, numChannels, R, cutoff, blockerRate, blockerBypassed, steady, agreed>>
  BY <1>1, Zenon DEF Bank!Block
<1>3. ASSUME NEW ch \in Chs PROVE Follows(blockers'[ch], heard'[ch], R, steady)
  <2>1. CASE ch \notin chs
    BY <1>1, <1>2, <2>1
  <2>2. CASE ch \in chs
    <3> DEFINE x == frames[0][ch]  y == frames[1][ch]
    <3>1. x \in Int /\ y \in Int /\ found[0][ch] = x /\ found[1][ch] = y
      <4>1. 0 \in 0..1 /\ 1 \in 0..1 /\ ch \in chs \intersect Chs
        BY <2>2
      <4> QED
        BY <4>1
    <3>2. blockers'[ch] = Bank!Sample(Bank!Sample(blockers[ch], x), y) /\ heard'[ch] = heard[ch] \o <<x, y>>
      BY <1>2, <2>2, <3>1
    <3> HIDE DEF x, y
    <3>3. Follows(blockers[ch], heard[ch], R, steady) /\ heard[ch] \in Seq(Int)
      BY <1>1 DEF Follows
    <3>4. heard[ch] \o <<x, y>> = Append(Append(heard[ch], x), y)
      BY <3>1, <3>3, TwoMore
    <3>5. Follows(Bank!Sample(blockers[ch], x), Append(heard[ch], x), R, steady)
      BY <1>1, <3>1, <3>3, SampleFollows
    <3>6. Follows(Bank!Sample(Bank!Sample(blockers[ch], x), y), Append(Append(heard[ch], x), y), R, steady)
      BY <1>1, <3>1, <3>5, SampleFollows
    <3> QED
      BY <3>2, <3>4, <3>6
  <2> QED
    BY <2>1, <2>2
<1>4. DOMAIN blockers' = Chs /\ DOMAIN heard' = Chs
  BY <1>2
<1> QED
  BY <1>2, <1>3, <1>4 DEF BankInv, Chs

(* Where a sample is in an interleaved buffer is where it was put.            *)
LEMMA InterleavedFound ==
  ASSUME NEW n \in Nat, NEW f \in 0..1, NEW ch \in 0..(n - 1)
  PROVE  /\ f * n + ch \in 0..(2 * n - 1) /\ (f * n + ch) \div n = f /\ (f * n + ch) % n = ch
<1>1. n \in Nat \ {0} /\ ch \in Nat /\ ch < n
  OBVIOUS
<1>2. CASE f = 0
  <2>1. f * n + ch = ch /\ ch \in 0..(2 * n - 1)
    BY <1>1, <1>2
  <2>2. ch % n = ch
    BY <1>1, RestOfIndex
  <2>3. ch \div n = 0
    BY <1>1
  <2> QED
    BY <1>2, <2>1, <2>2, <2>3
<1>3. CASE f = 1
  <2>1. f * n + ch = n + ch /\ n + ch \in 0..(2 * n - 1) /\ n + ch \in Nat /\ n + ch < n + n
        /\ ~(n + ch < n) /\ (n + ch) - n = ch
    BY <1>1, <1>3
  <2>2. (n + ch) % n = ch
    <3> DEFINE a == n + ch
    <3>1. a \in Nat /\ a < n + n /\ ~(a < n) /\ a - n = ch
      BY <2>1
    <3> HIDE DEF a
    <3>2. a % n = ch
      BY <1>1, <3>1, RestOfIndex
    <3> QED
      BY <3>2 DEF a
  <2>3. (n + ch) \div n = 1
    BY <1>1
  <2> QED
    BY <1>3, <2>1, <2>2, <2>3
<1> QED
  BY <1>2, <1>3

(* Every blocker takes a radius, and none its past for another's.             *)
LEMMA RadiusKeeps ==
  ASSUME BankInv, NEW r \in Int, Bank!SetRadius(r), cutoff' \in Nat, blockerRate' \in Nat \ {0},
         agreed' => r = Bank!calculateR(cutoff', blockerRate')
  PROVE  BankInv'
<1>1. /\ numChannels \in Nat /\ R \in Int /\ DOMAIN blockers = Chs /\ DOMAIN heard = Chs
      /\ \A ch \in Chs : Follows(blockers[ch], heard[ch], R, steady)
  BY DEF BankInv
<1>2. /\ R' = r /\ blockers' = [ch \in Chs |-> [blockers[ch] EXCEPT !.R = r]]
      /\ steady' = (r = R /\ steady) /\ UNCHANGED <<form, numChannels, blockerBypassed, heard>>
  BY <1>1, Zenon DEF Bank!SetRadius
<1>3. ASSUME NEW ch \in Chs PROVE Follows(blockers'[ch], heard'[ch], r, steady')
  <2>1. Follows(blockers[ch], heard[ch], R, steady)
    BY <1>1
  <2>2. blockers'[ch] = [blockers[ch] EXCEPT !.R = r] /\ heard' = heard
    BY <1>2
  <2> DEFINE b == blockers[ch]  c == blockers'[ch]
  <2>3. b \in [R : Int, x1 : Int, y1 : Int] /\ c = [b EXCEPT !.R = r]
    BY <2>1, <2>2 DEF Follows
  <2> HIDE DEF b, c
  <2>4. c \in [R : Int, x1 : Int, y1 : Int] /\ c.R = r /\ c.x1 = b.x1 /\ c.y1 = b.y1
    BY <2>3
  <2>5. steady' => steady /\ r = R
    BY <1>2
  <2> QED
    BY <2>1, <2>2, <2>4, <2>5 DEF Follows, b, c
<1>4. DOMAIN blockers' = Chs
  BY <1>2
<1> QED
  BY <1>1, <1>2, <1>3, <1>4 DEF BankInv, Chs

(* The clamped radius is a number.                                            *)
LEMMA RadiusType == ASSUME NEW c \in Nat, NEW hz \in Nat \ {0} PROVE Bank!calculateR(c, hz) \in Int
<1>1. c \div hz \in Int
  OBVIOUS
<1> QED
  BY <1>1 DEF Bank!calculateR, Bank!Clamp, Bank!Scale

(* However blocks come and the settings change.                               *)
LEMMA BankKept == ASSUME BankInv, Bank!BlockersNext PROVE BankInv'
<1>0. /\ Inputs \subseteq Int /\ Cutoffs \subseteq Nat /\ ChannelCounts \subseteq Nat
      /\ SampleRates \subseteq Nat \ {0}
  BY NodesAssumption
<1>1. /\ numChannels \in Nat /\ R \in Int /\ cutoff \in Nat /\ blockerRate \in Nat \ {0}
      /\ DOMAIN blockers = Chs /\ DOMAIN heard = Chs
      /\ \A ch \in Chs : Follows(blockers[ch], heard[ch], R, steady)
  BY DEF BankInv
<1>2. ASSUME NEW frames \in Bank!Frames, NEW f \in 0..1, NEW ch \in Chs PROVE frames[f][ch] \in Int
  <2>1. frames[f] \in [Chs -> Inputs]
    BY DEF Bank!Frames, Chs
  <2> QED
    BY <1>0, <2>1
<1>3. ASSUME NEW frames \in Bank!Frames, Bank!ProcessInterleaved(frames) PROVE BankInv'
  <2> DEFINE found == [f \in 0..1 |-> [ch \in 0..(numChannels - 1) |->
                         Bank!Interleaved(frames)[Bank!Index(f, ch, numChannels)]]]
  <2>1. Bank!Block(0..(numChannels - 1), frames, found)
    BY <1>3, Zenon DEF Bank!ProcessInterleaved
  <2>2. ASSUME NEW f \in 0..1, NEW ch \in Chs PROVE found[f][ch] = frames[f][ch]
    <3>1. /\ f * numChannels + ch \in 0..(2 * numChannels - 1)
          /\ (f * numChannels + ch) \div numChannels = f /\ (f * numChannels + ch) % numChannels = ch
      BY <1>1, InterleavedFound DEF Chs
    <3>2. found[f][ch] = Bank!Interleaved(frames)[f * numChannels + ch]
      BY DEF Bank!Index, Chs
    <3>3. Bank!Interleaved(frames)[f * numChannels + ch] = frames[f][ch]
      BY <3>1, Zenon DEF Bank!Interleaved
    <3> QED
      BY <3>2, <3>3
  <2> DEFINE all == 0..(numChannels - 1)
  <2>3. Bank!Block(all, frames, found)
    BY <2>1
  <2> HIDE DEF found, all
  <2>4. \A f \in 0..1 : \A ch \in all \intersect Chs :
          frames[f][ch] \in Int /\ found[f][ch] = frames[f][ch]
    BY <1>2, <2>2
  <2> QED
    BY <2>3, <2>4, BlockKeeps
<1>4. ASSUME NEW frames \in Bank!Frames, Bank!ProcessNonInterleaved(frames) PROVE BankInv'
  BY <1>2, <1>4, BlockKeeps DEF Bank!ProcessNonInterleaved
<1>5. ASSUME NEW frames \in Bank!Frames, NEW n \in 1..2, Bank!ProcessNode(frames, n) PROVE BankInv'
  BY <1>2, <1>5, BlockKeeps DEF Bank!ProcessNode
<1>6. ASSUME NEW c \in Cutoffs, NEW hz \in SampleRates, Bank!SetCutoffFrequency(c, hz) PROVE BankInv'
  <2>1. c \in Nat /\ hz \in Nat \ {0}
    BY <1>0
  <2>2. /\ Bank!SetRadius(Bank!calculateR(c, hz)) /\ cutoff' = c /\ blockerRate' = hz /\ agreed' = TRUE
    BY <1>6 DEF Bank!SetCutoffFrequency
  <2>3. Bank!calculateR(c, hz) \in Int
    BY <2>1, RadiusType
  <2> QED
    BY <2>1, <2>2, <2>3, RadiusKeeps
<1>7. ASSUME NEW hz \in SampleRates, Bank!Prepare(hz) PROVE BankInv'
  <2>1. hz \in Nat \ {0}
    BY <1>0
  <2>2. /\ Bank!SetRadius(Bank!calculateR(cutoff, hz)) /\ cutoff' = cutoff /\ blockerRate' = hz
        /\ agreed' = TRUE
    BY <1>7 DEF Bank!Prepare
  <2>3. Bank!calculateR(cutoff, hz) \in Int
    BY <1>1, <2>1, RadiusType
  <2> QED
    BY <1>1, <2>1, <2>2, <2>3, RadiusKeeps
<1>8. ASSUME NEW r \in 1..3, Bank!SetR(r) PROVE BankInv'
  <2>1. r \in Int
    OBVIOUS
  <2>2. Bank!SetRadius(r) /\ agreed' = FALSE /\ cutoff' = cutoff /\ blockerRate' = blockerRate
    BY <1>8 DEF Bank!SetR
  <2> QED
    BY <1>1, <2>1, <2>2, RadiusKeeps
<1>9. ASSUME NEW n \in ChannelCounts, Bank!SetNumChannels(n) PROVE BankInv'
  <2>1. /\ numChannels' = n /\ blockers' = Bank!Bank(n, R) /\ heard' = Bank!Nothing(n)
        /\ UNCHANGED <<R, cutoff, blockerRate, agreed>> /\ n \in Nat
    BY <1>0, <1>9 DEF Bank!SetNumChannels
  <2>2. DOMAIN blockers' = 0..(n - 1) /\ DOMAIN heard' = 0..(n - 1)
    BY <2>1 DEF Bank!Bank, Bank!Nothing
  <2>3. \A ch \in 0..(n - 1) : Follows(blockers'[ch], heard'[ch], R, steady')
    <3>1. \A ch \in 0..(n - 1) : blockers'[ch] = Bank!Fresh(R) /\ heard'[ch] = <<>>
      BY <2>1 DEF Bank!Bank, Bank!Nothing
    <3> QED
      BY <1>1, <3>1, NothingHeard
  <2> QED
    BY <1>1, <2>1, <2>2, <2>3 DEF BankInv, Chs
<1>10. ASSUME Bank!Reset PROVE BankInv'
  <2>1. /\ blockers' = [ch \in Chs |-> Bank!Fresh(blockers[ch].R)] /\ heard' = Bank!Nothing(numChannels)
        /\ UNCHANGED <<numChannels, R, cutoff, blockerRate, agreed>>
    BY <1>1, <1>10 DEF Bank!Reset, Bank!Cleared
  <2>2. \A ch \in Chs : Follows(blockers'[ch], heard'[ch], R, steady')
    <3>1. \A ch \in Chs : blockers'[ch] = Bank!Fresh(R) /\ heard'[ch] = <<>>
      BY <1>1, <2>1 DEF Bank!Nothing, Chs, Follows
    <3> QED
      BY <1>1, <3>1, NothingHeard
  <2>3. DOMAIN blockers' = Chs /\ DOMAIN heard' = Chs
    BY <2>1 DEF Bank!Nothing, Chs
  <2> QED
    BY <1>1, <2>1, <2>2, <2>3 DEF BankInv, Chs
<1>11. ASSUME NEW on \in BOOLEAN, Bank!SetBypassed(on) PROVE BankInv'
  BY <1>11 DEF Bank!SetBypassed, BankInv, Chs
<1> QED
  BY <1>3, <1>4, <1>5, <1>6, <1>7, <1>8, <1>9, <1>10, <1>11, Zenon DEF Bank!BlockersNext

(* So channels stay apart.                                                    *)
LEMMA BankReads == BankInv => Bank!ChannelsApart
BY DEF BankInv, Follows, Bank!ChannelsApart

(* Every blocker follows its channel, for every layout, count and cutoff.     *)
THEOREM BankInvariance == Spec => []BankInv
<1>1. BankInv /\ [Next]_vars => BankInv'
  <2> SUFFICES ASSUME BankInv, [Next]_vars PROVE BankInv'
    OBVIOUS
  <2>1. CASE UNCHANGED bank
    BY <2>1 DEF BankInv, Chs, bank
  <2>2. CASE BankStep
    BY <2>2, BankKept DEF BankStep
  <2> QED
    BY <2>1, <2>2, OneSteps
<1> QED
  BY <1>1, BankStarts, PTL DEF Spec

-----------------------------------------------------------------------------
(* The properties of the runs.                                                *)

(* A filter block runs both halves of the design it computed, however the     *)
(* steps of process() and of a change callback follow each other, unless a    *)
(* callback overlapped the block.                                             *)
THEOREM HalvesAlways == Spec => []HalvesMatch
<1>1. FilterInv => HalvesMatch
  BY DEF FilterInv, HalvesMatch, Filter!HalvesMatch
<1> QED
  BY <1>1, FilterInvariance, PTL

(* Whatever the sizes, rates and calls: a ring that was not resized with      *)
(* samples in it has its past in order and as far back as it is read, a       *)
(* scope's trace has no gap, and an oscillator's phase loses no tick.         *)
THEOREM PastAlways == Spec => []PastIsExact
<1>1. DelayInv /\ ScopeInv /\ OscillatorInv => PastIsExact
  BY RingReaches, TraceReads DEF DelayInv, OscillatorInv, PastIsExact
<1> QED
  BY <1>1, DelayInvariance, ScopeInvariance, OscillatorInvariance, PTL

(* Impulses and held samples keep their interval, a meter divides by as many  *)
(* squares as it gathered, the block conversion reads inside its padded copy  *)
(* and the stream counts exactly and makes each output of the place it is due *)
(* at or of its call's last frame, for every interval, level, window, step.   *)
THEOREM CountsAlways == Spec => []SamplesInPlace
<1>1. MeterInv => Taps!LevelsBounded
  BY DEF MeterInv, Taps!LevelsBounded
<1>2. ClockInv /\ MeterInv /\ ResamplerInv => SamplesInPlace
  BY <1>1, BlockReads DEF ClockInv, ResamplerInv, SamplesInPlace
<1> QED
  BY <1>2, ClockInvariance, MeterInvariance, ResamplerInvariance, PTL

(* Messages read back as what they were built from, for every channel, byte,  *)
(* number, bend and id, and a DC blocker's output is the response to its own  *)
(* channel, for every layout, channel count, rate and cutoff.                 *)
THEOREM ResultsAlways == Spec => []ResultsExact
<1>1. MidiInv /\ SysexInv /\ BankInv => ResultsExact
  BY MessageReads, ParametersRead, PayloadReads, IdsRead, ReplyReads, ChecksumReads, BankReads, Zenon
     DEF SysexInv, ResultsExact
<1> QED
  BY <1>1, MidiInvariance, SysexInvariance, BankInvariance, PTL
=============================================================================
