------------------------------ MODULE Oscillators -----------------------------
(***************************************************************************)
(* The phases that SineOscillator (src/src/nodes/source), Phaser and       *)
(* RingModulator (src/src/nodes/effect) advance once a sample.  A cycle is *)
(* Cycle ticks, a frequency the ticks of one sample at rate 1; what is     *)
(* made of the phase, the mix and the all-pass stages are left out.        *)
(* Rounding is too: the code's phases are floats.                          *)
(***************************************************************************)
EXTENDS Integers

CONSTANTS Frequencies, SampleRates, Phases, MaxPhase

VARIABLES
  node,
  frequency, sampleRate, phaseIncrement, phase, active, bypassed,
  advanced,    (* history: ticks since the phase was set, within a cycle     *)
  tame         (* history: no step since was outside a cycle                 *)

oscillatorsVars == <<node, frequency, sampleRate, phaseIncrement, phase, active, bypassed, advanced, tame>>

Cycle == 4

Increment(f, rate) == f \div rate

(* The constructors compute the increment, but for the sine's.                *)
InitialIncrement(n) == IF n = "sine" THEN 0 ELSE Increment(2, 1)

OscillatorsInit ==
  /\ node \in {"sine", "phaser", "ring"}
  /\ frequency = 2 /\ sampleRate = 1 /\ phaseIncrement = InitialIncrement(node)
  /\ phase = 0 /\ active = (node # "sine") /\ bypassed = FALSE
  /\ advanced = 0 /\ tame = TRUE

-----------------------------------------------------------------------------
(* Faulty variants of definitions below, used by no action.                   *)
StrictWrap(p) == IF p > Cycle THEN p - Cycle ELSE p
WrapToZero(p) == IF p >= Cycle THEN 0 ELSE p

(* At most one cycle is taken off, and none added.                            *)
Wrapped(p) == IF p >= Cycle THEN p - Cycle ELSE p

(* One sample of process() or generate().                                     *)
Advance ==
  /\ active /\ ~bypassed
  /\ phase \in -MaxPhase..MaxPhase
  /\ phase' = Wrapped(phase + phaseIncrement)
  /\ advanced' = (advanced + phaseIncrement) % Cycle
  /\ tame' = (tame /\ phaseIncrement \in 0..(Cycle - 1))
  /\ UNCHANGED <<node, frequency, sampleRate, phaseIncrement, active, bypassed>>

UpdatePhaseIncrement(f, rate) ==
  /\ frequency' = f /\ sampleRate' = rate
  /\ phaseIncrement' = Increment(f, rate)
  /\ UNCHANGED <<node, phase, active, bypassed, advanced, tame>>

SetFrequency(f) == UpdatePhaseIncrement(f, sampleRate)
Prepare(rate) == UpdatePhaseIncrement(frequency, rate)

PhaseSet(p) ==
  /\ phase' = p /\ advanced' = p % Cycle /\ tame' = (p \in 0..(Cycle - 1))
  /\ UNCHANGED <<node, frequency, sampleRate, phaseIncrement, active, bypassed>>

Reset == PhaseSet(0)
SetPhase(p) == node = "sine" /\ PhaseSet(p)

StartStop(on) ==
  /\ node = "sine" /\ active' = on
  /\ UNCHANGED <<node, frequency, sampleRate, phaseIncrement, phase, bypassed, advanced, tame>>

SetBypassed(on) ==
  /\ bypassed' = on
  /\ UNCHANGED <<node, frequency, sampleRate, phaseIncrement, phase, active, advanced, tame>>

OscillatorsNext ==
  \/ Advance \/ Reset
  \/ \E f \in Frequencies : SetFrequency(f)
  \/ \E rate \in SampleRates : Prepare(rate)
  \/ \E p \in Phases : SetPhase(p)
  \/ \E on \in BOOLEAN : StartStop(on) \/ SetBypassed(on)

-----------------------------------------------------------------------------
(* Whatever the sequence of frequencies, rates, starts and bypasses, no tick  *)
(* is lost or invented where the phase wraps, and the phase stays within the  *)
(* cycle until a frequency is negative, or above the sample rate, or a phase  *)
(* is set outside it; a frequency above the rate makes it grow without end.   *)
PhaseKept ==
  /\ phase % Cycle = advanced
  /\ tame => phase \in 0..(Cycle - 1)
=============================================================================
