------------------------------ MODULE DelayLines ------------------------------
(***************************************************************************)
(* The effects that keep the past of their input in a ring                 *)
(* (src/src/nodes/effect): SimpleDelay, Chorus, Flanger and the direct     *)
(* convolution of ReverbConvolution.  All four write at an index that only *)
(* reset() sets back, into a buffer that prepare(), or a new impulse       *)
(* response, resizes as it is.                                             *)
(*                                                                         *)
(* A sample is the number of the input it came from, 0 for silence; mixes, *)
(* feedback, interpolation and the second channel are left out.  Lengths   *)
(* are in units of 10 ms (flanger), 25 ms (chorus) or one sample; an index *)
(* of the ring that is read is always taken modulo the size, and only the  *)
(* write index is not.                                                     *)
(***************************************************************************)
EXTENDS Naturals

CONSTANTS Rates, Lengths, MaxTime

VARIABLES
  kind,
  ring, size, writeIndex,   (* delayBuffer or inputBuffer                    *)
  delayLength, maxLength,   (* delayTimeMs or delayMs; maxDelayTimeMs        *)
  rate,                     (* samples in a unit                             *)
  time,                     (* history: samples since reset()                *)
  resized                   (* history: the ring was resized after one       *)

delayVars == <<kind, ring, size, writeIndex, delayLength, maxLength, rate, time, resized>>

Kinds == {"delay", "chorus", "flanger", "convolution"}

ChorusUnits == 4    (* 0.1 s of 25 ms                                        *)
FlangerUnits == 2   (* 0.02 s of 10 ms                                       *)

DelayInit ==
  /\ kind \in Kinds
  /\ ring = [i \in {} |-> 0] /\ size = 0 /\ writeIndex = 0
  /\ delayLength = 1 /\ maxLength = 2 /\ rate = 1
  /\ time = 0 /\ resized = FALSE

-----------------------------------------------------------------------------
(* Faulty variants of definitions below, used by no action.                   *)
NoWrap(i) == IF i + 1 > size THEN 0 ELSE i + 1
FullSwing == 2 * delayLength

Advance(i) == (i + 1) % size

(* vector::resize() keeps what is there.                                      *)
Resize(n) ==
  /\ size' = n
  /\ ring' = [i \in 0..(n - 1) |-> IF i < size THEN ring[i] ELSE 0]
  /\ resized' = (resized \/ (n # size /\ time > 0))

DelayPrepare(r) == rate' = r /\ Resize(maxLength * r) /\ UNCHANGED <<delayLength, maxLength>>
ChorusPrepare(r) == rate' = r /\ Resize(ChorusUnits * r) /\ UNCHANGED <<delayLength, maxLength>>
FlangerPrepare(r) == rate' = r /\ Resize(FlangerUnits * r) /\ UNCHANGED <<delayLength, maxLength>>

(* The convolution's ring is as long as its impulse response (delayLength),   *)
(* already since the response was loaded.                                     *)
ConvolutionPrepare(r) == rate' = r /\ UNCHANGED <<ring, size, resized, delayLength, maxLength>>

Prepare(r) ==
  /\ \/ kind = "delay" /\ DelayPrepare(r)
     \/ kind = "chorus" /\ ChorusPrepare(r)
     \/ kind = "flanger" /\ FlangerPrepare(r)
     \/ kind = "convolution" /\ ConvolutionPrepare(r)
  /\ UNCHANGED <<kind, writeIndex, time>>

LoadImpulseResponse(n) ==
  /\ kind = "convolution"
  /\ delayLength' = n /\ Resize(n)
  /\ UNCHANGED <<kind, writeIndex, maxLength, rate, time>>

UnloadImpulseResponse ==
  /\ kind = "convolution"
  /\ delayLength' = 0 /\ Resize(0)
  /\ UNCHANGED <<kind, writeIndex, maxLength, rate, time>>

Reset ==
  /\ ring' = [i \in DOMAIN ring |-> 0]
  /\ writeIndex' = 0 /\ time' = 0 /\ resized' = FALSE
  /\ UNCHANGED <<kind, size, delayLength, maxLength, rate>>

(* setDelayTime() is capped by maxDelayTimeMs, setDelay() of the other two by *)
(* a constant.                                                                *)
SetDelay(n) ==
  /\ kind # "convolution"
  /\ delayLength' = IF kind = "delay" /\ n > maxLength THEN maxLength ELSE IF n > 2 THEN 2 ELSE n
  /\ UNCHANGED <<kind, ring, size, writeIndex, maxLength, rate, time, resized>>

(* Neither the delay nor the ring follows.                                    *)
SetMaxDelayTime(n) ==
  /\ kind = "delay"
  /\ maxLength' = n
  /\ UNCHANGED <<kind, ring, size, writeIndex, delayLength, rate, time, resized>>

(* One sample of process().  A write index outside the ring writes elsewhere, *)
(* which is undefined: here the sample is lost.                               *)
ProcessSample ==
  /\ size > 0 /\ time < MaxTime
  /\ ring' = IF writeIndex < size THEN [ring EXCEPT ![writeIndex] = time + 1] ELSE ring
  /\ writeIndex' = Advance(writeIndex)
  /\ time' = time + 1
  /\ UNCHANGED <<kind, size, delayLength, maxLength, rate, resized>>

DelayNext ==
  \/ \E r \in Rates : Prepare(r)
  \/ \E n \in Lengths : LoadImpulseResponse(n) \/ SetDelay(n) \/ SetMaxDelayTime(n)
  \/ UnloadImpulseResponse \/ Reset \/ ProcessSample

-----------------------------------------------------------------------------
(* The longest delay the LFO can swing to, in units: half the depth for the   *)
(* chorus.                                                                    *)
ChorusSwing == delayLength + (delayLength + 1) \div 2

(* How far back, in samples, each effect reads after it has written.          *)
Ages ==
  CASE kind = "chorus" -> 0..(ChorusSwing * rate)
    [] kind = "convolution" -> 0..(delayLength - 1)
    [] OTHER -> {}

(* Through every sequence of samples, parameter changes and resets the write  *)
(* index is inside the ring and the ring is the past: the place k steps back  *)
(* holds the input of k steps ago, silence before the first.  Only a ring     *)
(* that was resized without a reset() may have its index outside or its past  *)
(* in the wrong order.                                                        *)
RingIsPast ==
  size > 0 /\ ~resized =>
    /\ writeIndex < size
    /\ \A k \in 1..size :
         ring[(writeIndex + size - k) % size] = IF k <= time THEN time + 1 - k ELSE 0

(* The chorus, swung out, and the convolution never ask for more past than    *)
(* the ring has; the flanger may, its ring being as long as its unswung delay.*)
PastReaches == size > 0 => \A k \in Ages : k < size
=============================================================================
