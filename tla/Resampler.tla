------------------------------- MODULE Resampler ------------------------------
(***************************************************************************)
(* Resampler (src/src/utils/dsp): the block conversion, which pads a copy  *)
(* of its input for the filter and reads around a source index, and the    *)
(* streaming one, which keeps a phase from call to call.  The two share    *)
(* nothing but the object, and are used each by itself here.               *)
(*                                                                         *)
(* A step is how far one output moves in the input, in halves of a sample. *)
(* A sample is the place in the input it stands for: between two           *)
(* neighbours where the stream interpolates them.  The weights of the      *)
(* block filters are left out.                                             *)
(***************************************************************************)
EXTENDS Integers

CONSTANTS Steps, MaxInput, Rooms, MaxStream

VARIABLES
  use,
  quality, ratio,
  phase,                   (* of the stream, in halves                       *)
  block,                   (* the last block conversion                      *)
  origin,                  (* history: the phase when the ratio was set      *)
  produced, consumed,      (* history: outputs and inputs since              *)
  call,                    (* history: the last call since                   *)
  cramped                  (* history: a call whose output room ran out      *)

resamplerVars == <<use, quality, ratio, phase, block, origin, produced, consumed, call, cramped>>

One == 2
Qualities == {"Fast", "Medium", "High", "Best"}

filterTaps(q) == CASE q = "Fast" -> 2 [] q = "Medium" -> 4 [] q = "High" -> 8 [] q = "Best" -> 32

CeilDiv(a, b) == (a + b - 1) \div b

NoBlock == [frames |-> 0, outputs |-> 0, step |-> One, quality |-> "Medium", rounded |-> FALSE]

(* A call: its inputs, what its outputs stand for, and how many of both there *)
(* were before it.                                                            *)
NoCall == [frames |-> 0, output |-> <<>>, produced |-> 0, consumed |-> 0]

ResamplerInit ==
  /\ use \in {"block", "stream"}
  /\ quality \in Qualities /\ ratio = One /\ phase = 0
  /\ block = NoBlock /\ origin = 0 /\ produced = 0 /\ consumed = 0 /\ call = NoCall
  /\ cramped = FALSE

-----------------------------------------------------------------------------
(* Faulty variants of definitions below, used by no action.                   *)
CentredTaps(q, source) == source..(source + filterTaps(q))
PhaseRestarted(p, n) == 0
PastTheEnd(p, n) == p

getOutputSize(n, step) == CeilDiv(n * One, step)

SourceIndex(i, step) == (i * step) \div One

(* The places of the padded copy an output is made from, the input starting   *)
(* at half the taps.                                                          *)
Taps(q, source) ==
  LET first == source + filterTaps(q) \div 2 - 1
  IN CASE q = "Fast" -> first..(first + 1)
       [] q = "Medium" -> first..(first + 3)
       [] OTHER -> source..(source + filterTaps(q) - 1)

(* The quotient of two rates is rounded, and up in some: the product with a   *)
(* size it should divide is then just above a whole number, and its ceiling   *)
(* one more.                                                                  *)
Resample(n, step, up) ==
  /\ use = "block"
  /\ up => (n * One) % step = 0
  /\ block' = [frames |-> n, step |-> step, quality |-> quality, rounded |-> up,
               outputs |-> IF up THEN getOutputSize(n, step) + 1 ELSE getOutputSize(n, step)]
  /\ UNCHANGED <<use, quality, ratio, phase, origin, produced, consumed, call, cramped>>

(* The history that setQuality() resizes is read by nothing.                  *)
SetQuality(q) ==
  /\ quality' = q
  /\ UNCHANGED <<use, ratio, phase, block, origin, produced, consumed, call, cramped>>

Restart ==
  origin' = phase' /\ produced' = 0 /\ consumed' = 0 /\ call' = NoCall /\ cramped' = FALSE

(* The phase stays as the ratio changes.                                      *)
SetRatio(step) ==
  /\ use = "stream" /\ ratio' = step
  /\ UNCHANGED <<use, quality, phase, block>>
  /\ Restart

ResetStream == phase' = 0 /\ Restart /\ UNCHANGED <<use, quality, ratio, block>>

Due(n) == IF phase >= n * One THEN 0 ELSE CeilDiv(n * One - phase, ratio)

(* What is made of phase p in n frames: the last frame of a call has no       *)
(* neighbour to be interpolated with, and is taken as it is.                  *)
Sampled(p, n) == IF p \div One + 1 < n THEN p ELSE (p \div One) * One

(* What is left of the phase when the input of the call is gone.              *)
Carried(p, n) == IF p - n * One < 0 THEN 0 ELSE p - n * One

Process(n, room) ==
  LET outputs == IF Due(n) < room THEN Due(n) ELSE room
  IN /\ use = "stream" /\ consumed + n <= MaxStream
     /\ phase' = Carried(phase + outputs * ratio, n)
     /\ produced' = produced + outputs /\ consumed' = consumed + n
     /\ call' = [frames |-> n, produced |-> produced, consumed |-> consumed,
                 output |-> [k \in 0..(outputs - 1) |-> Sampled(phase + k * ratio, n)]]
     /\ cramped' = (cramped \/ outputs < Due(n))
     /\ UNCHANGED <<use, quality, ratio, block, origin>>

ResamplerNext ==
  \/ \E n \in 1..MaxInput : \E step \in Steps : \E up \in BOOLEAN : Resample(n, step, up)
  \/ \E q \in Qualities : SetQuality(q)
  \/ \E step \in Steps : SetRatio(step)
  \/ ResetStream
  \/ \E n \in 1..MaxInput : \E room \in Rooms : Process(n, room)

-----------------------------------------------------------------------------
Sources == {SourceIndex(i, block.step) : i \in 0..(block.outputs - 1)}

(* The filter never reads past the padded copy, and leaves no output unmade,  *)
(* except when the output size was rounded up at the default quality: the     *)
(* last output's fourth sample is then one past the end.                      *)
BlockInBounds ==
  \A source \in Sources :
    /\ source + filterTaps(block.quality) \div 2 < block.frames + filterTaps(block.quality)
    /\ (block.rounded => block.quality # "Medium") =>
         Taps(block.quality, source) \subseteq 0..(block.frames + filterTaps(block.quality) - 1)

(* The stream counts exactly: outputs and inputs differ by the phase, however *)
(* the input is cut into calls, until a call runs out of room for its outputs *)
(* and what it has not read is dropped.                                       *)
StreamCounts ==
  /\ ~cramped => phase + consumed * One = origin + produced * ratio
  /\ phase >= 0
  /\ cramped => phase + consumed * One >= origin + produced * ratio

(* Until then output k stands for the place k steps from the start, but where *)
(* that lies between the last frame of a call and the first of the next: it   *)
(* then stands for that last frame, which an output may have taken before.    *)
StreamInPlace ==
  ~cramped =>
    \A k \in DOMAIN call.output :
      LET due == origin + (call.produced + k) * ratio
          seam == (call.consumed + call.frames - 1) * One
      IN call.consumed * One + call.output[k] = IF due <= seam THEN due ELSE seam
=============================================================================
