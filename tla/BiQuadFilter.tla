----------------------------- MODULE BiQuadFilter -----------------------------
(***************************************************************************)
(* BiQuadFilter (src/src/nodes/effect/BiQuadFilter.cpp).  process() runs   *)
(* on the audio thread and recomputes the target coefficients in every     *)
(* block; the setters run on the application's, and their change callbacks *)
(* write the same targets, with nothing between the two.                   *)
(*                                                                         *)
(* The coefficients are kept in two halves, b0..b2 and a1..a2, that one    *)
(* thread can write while the other reads; a half is the design it belongs *)
(* to.  Q and the gain move as the frequency does and are left out, as are *)
(* the samples and the formulas of the designs.                            *)
(***************************************************************************)
EXTENDS Naturals

CONSTANTS
  MaxFrequency,
  Ramp,        (* blocks a running coefficient needs to reach its target     *)
  MaxWrites    (* bound on the calls of the application                      *)

VARIABLES
  frequency, filterType,     (* the parameters                               *)
  smoothedFrequency, sampleRate, bypassed,
  target,                    (* the two halves of the target coefficients    *)
  running,                   (* those of the running ones: [design, left]    *)
  audio, audioDesign,        (* where process() is, and what it computed     *)
  control, controlDesign,    (* the same for a change callback               *)
  overlapped,                (* history: a callback ran during the last block*)
  writes

params == <<frequency, filterType, sampleRate, bypassed>>
filterVars == <<params, smoothedFrequency, target, running, audio, audioDesign, control,
                controlDesign, overlapped, writes>>

Halves == {"b", "a"}

(* Just below half the sample rate.                                           *)
Nyquist(rate) == rate + 1

(* computeTargetCoefficients(): the other four types pass the input through.  *)
Design(f, type, rate) ==
  IF type = "AllPass" THEN [type |-> type, at |-> 0]
  ELSE [type |-> type, at |-> IF f > Nyquist(rate) THEN Nyquist(rate) ELSE f]

Both(x) == [h \in Halves |-> x]
At(design) == [design |-> design, left |-> 0]

FilterInit ==
  /\ frequency = 1 /\ filterType = "LowPass" /\ sampleRate = 2 /\ bypassed = FALSE
  /\ smoothedFrequency = frequency
  /\ target = Both(Design(1, "LowPass", 2)) /\ running = Both(At(Design(1, "LowPass", 2)))
  /\ audio = "idle" /\ audioDesign = Design(1, "LowPass", 2)
  /\ control = "idle" /\ controlDesign = audioDesign
  /\ overlapped = FALSE /\ writes = 0

-----------------------------------------------------------------------------
(* Faulty variants of definitions below, used by no action.                   *)
TargetsOfCallback(h) == target
NoSmoothing == smoothedFrequency

(* Stage 1 of process(): a block's worth of steps toward the parameter.       *)
NextSmoothed ==
  IF smoothedFrequency < frequency THEN smoothedFrequency + 1
  ELSE IF smoothedFrequency > frequency THEN smoothedFrequency - 1
  ELSE frequency

(* Stage 2: the design of the smoothed parameters.                            *)
SmoothedDesign == Design(NextSmoothed, filterType, sampleRate)

TargetsOfBlock(h) == [target EXCEPT ![h] = audioDesign]

(* Stage 3: a running half after a block toward d.                            *)
Toward(r, d) ==
  IF r = At(d) THEN r
  ELSE [design |-> d, left |-> IF r.design # d THEN Ramp ELSE r.left - 1]

BlockBegin ==
  /\ audio = "idle" /\ ~bypassed
  /\ audio' = "b"
  /\ smoothedFrequency' = NextSmoothed
  /\ audioDesign' = SmoothedDesign
  /\ overlapped' = (control # "idle")
  /\ UNCHANGED <<params, target, running, control, controlDesign, writes>>

BlockWrite(h) ==
  /\ audio = h
  /\ audio' = IF h = "b" THEN "a" ELSE "run"
  /\ target' = TargetsOfBlock(h)
  /\ UNCHANGED <<params, smoothedFrequency, running, audioDesign, control, controlDesign,
                 overlapped, writes>>

(* Both channels start from the same coefficients, so that one trajectory     *)
(* stands for both.                                                           *)
BlockRun ==
  /\ audio = "run" /\ audio' = "idle"
  /\ running' = [h \in Halves |-> Toward(running[h], target[h])]
  /\ UNCHANGED <<params, smoothedFrequency, target, audioDesign, control, controlDesign,
                 overlapped, writes>>

Process == BlockBegin \/ BlockRun \/ \E h \in Halves : BlockWrite(h)

-----------------------------------------------------------------------------
MayWrite == control = "idle" /\ writes < MaxWrites /\ writes' = writes + 1

(* setFrequency() and setFilterType(): a changed value calls back, and the    *)
(* callback computes from the values as they are, not as they are smoothed.   *)
SetParameter(f, type) ==
  /\ MayWrite /\ <<f, type>> # <<frequency, filterType>>
  /\ frequency' = f /\ filterType' = type
  /\ control' = "b" /\ controlDesign' = Design(f, type, sampleRate)
  /\ overlapped' = (overlapped \/ audio # "idle")
  /\ UNCHANGED <<sampleRate, bypassed, smoothedFrequency, target, running, audio, audioDesign>>

CallbackWrite(h) ==
  /\ control = h
  /\ control' = IF h = "b" THEN "a" ELSE "idle"
  /\ target' = [target EXCEPT ![h] = controlDesign]
  /\ UNCHANGED <<params, smoothedFrequency, running, audio, audioDesign, controlDesign,
                 overlapped, writes>>

(* prepare() and reset() are called between two blocks.                       *)
Prepare(rate) ==
  /\ MayWrite /\ audio = "idle"
  /\ sampleRate' = rate
  /\ smoothedFrequency' = frequency
  /\ target' = Both(Design(frequency, filterType, rate))
  /\ running' = Both(At(Design(frequency, filterType, rate)))
  /\ overlapped' = FALSE
  /\ UNCHANGED <<frequency, filterType, bypassed, audio, audioDesign, control, controlDesign>>

(* The smoothed parameters stay where they are.                               *)
Reset ==
  /\ MayWrite /\ audio = "idle"
  /\ running' = [h \in Halves |-> At(target[h])]
  /\ UNCHANGED <<params, smoothedFrequency, target, audio, audioDesign, control, controlDesign,
                 overlapped>>

SetBypassed ==
  /\ MayWrite
  /\ bypassed' = ~bypassed
  /\ UNCHANGED <<frequency, filterType, sampleRate, smoothedFrequency, target, running, audio,
                 audioDesign, control, controlDesign, overlapped>>

FilterNext ==
  \/ Process
  \/ \E f \in 0..MaxFrequency, type \in {"LowPass", "AllPass"} : SetParameter(f, type)
  \/ \E h \in Halves : CallbackWrite(h)
  \/ \E rate \in 1..2 : Prepare(rate)
  \/ Reset \/ SetBypassed

-----------------------------------------------------------------------------
(* A block that no change callback overlapped runs toward the design it       *)
(* computed, both halves, and leaves both halves of the running coefficients  *)
(* heading for one design; after one that was overlapped the two threads may  *)
(* have left half of each one's design, until the next block computes again.  *)
HalvesMatch ==
  ~overlapped =>
    /\ audio = "run" => target = Both(audioDesign)
    /\ audio = "idle" => running["b"].design = running["a"].design
    /\ audio = "idle" /\ control = "idle" => target["b"] = target["a"]

(* When the application stops calling, a filter that is not bypassed comes to *)
(* run the design of its parameters and stays there, whatever the callbacks   *)
(* left in the targets.                                                       *)
FilterSettles == <>[](bypassed \/ running = Both(At(Design(frequency, filterType, sampleRate))))
=============================================================================
