------------------------------ MODULE DCBlockers ------------------------------
(***************************************************************************)
(* The DC blockers: MultiChannelDCBlocker over DCBlocker                   *)
(* (src/src/utils/dsp) and DCBlockerNode (src/src/nodes/utility), which    *)
(* has the same filter written out for two channels.                       *)
(*                                                                         *)
(* The filter is linear, so samples and pole radii are integers here, and  *)
(* a radius is Scale less the cutoff over the rate, clamped; a block is    *)
(* two frames.  Rounding is left out.                                      *)
(***************************************************************************)
EXTENDS Integers, Sequences

CONSTANTS Inputs, Cutoffs, SampleRates, ChannelCounts, MaxHeard

VARIABLES
  form,                     (* "multi" or "node"                             *)
  numChannels, R, blockers, (* blockers[ch]: R, x1, y1                       *)
  cutoff, sampleRate,       (* of the node, or last given to the bank        *)
  bypassed,
  heard,                    (* history: what each blocker filtered           *)
  steady,                   (* history: one radius since reset()             *)
  agreed                    (* history: the radius was set from the cutoff   *)

blockersVars == <<form, numChannels, R, blockers, cutoff, sampleRate, bypassed, heard, steady, agreed>>

Scale == 4
Clamp(r) == IF r < 1 THEN 1 ELSE IF r > 3 THEN 3 ELSE r

calculateR(c, rate) == Clamp(Scale - c \div rate)

Fresh(r) == [R |-> r, x1 |-> 0, y1 |-> 0]
Bank(n, r) == [ch \in 0..(n - 1) |-> Fresh(r)]
Nothing(n) == [ch \in 0..(n - 1) |-> <<>>]

(* The node starts with a coefficient of its own, not that of its cutoff.     *)
BlockersInit ==
  /\ form \in {"multi", "node"}
  /\ numChannels = 2 /\ R = 3 /\ blockers = Bank(2, 3)
  /\ cutoff = 2 /\ sampleRate = 1 /\ bypassed = FALSE
  /\ heard = Nothing(2) /\ steady = TRUE /\ agreed = FALSE

-----------------------------------------------------------------------------
(* Faulty variants of definitions below, used by no action.                   *)
MemoryKept(b) == [b EXCEPT !.x1 = 0]
Planar(frame, ch, n) == ch * 2 + frame

Sample(b, x) ==
  [b EXCEPT !.x1 = x, !.y1 = x - b.x1 + b.R * b.y1]

Cleared(b) == Fresh(b.R)

(* Where a channel's sample of a frame is in an interleaved buffer.           *)
Index(frame, ch, n) == frame * n + ch

(* Both frames of a block through the blockers of the channels in chs: what   *)
(* the caller meant, frames[frame][ch], and found, what the code reads.       *)
Block(chs, frames, found) ==
  /\ \A ch \in chs : Len(heard[ch]) < MaxHeard
  /\ blockers' = [ch \in DOMAIN blockers |->
       IF ch \in chs THEN Sample(Sample(blockers[ch], found[0][ch]), found[1][ch]) ELSE blockers[ch]]
  /\ heard' = [ch \in DOMAIN heard |->
       IF ch \in chs THEN heard[ch] \o <<frames[0][ch], frames[1][ch]>> ELSE heard[ch]]
  /\ UNCHANGED <<form, numChannels, R, cutoff, sampleRate, bypassed, steady, agreed>>

Interleaved(frames) == [i \in 0..(2 * numChannels - 1) |-> frames[i \div numChannels][i % numChannels]]

ProcessInterleaved(frames) ==
  LET found == [frame \in 0..1 |-> [ch \in 0..(numChannels - 1) |->
                  Interleaved(frames)[Index(frame, ch, numChannels)]]]
  IN form = "multi" /\ Block(0..(numChannels - 1), frames, found)

ProcessNonInterleaved(frames) ==
  form = "multi" /\ Block(0..(numChannels - 1), frames, frames)

(* A mono block leaves the right channel's memory alone, a bypassed one both. *)
ProcessNode(frames, n) ==
  form = "node" /\ ~bypassed /\ Block(0..(n - 1), frames, frames)

SetRadius(r) ==
  /\ R' = r
  /\ blockers' = [ch \in DOMAIN blockers |-> [blockers[ch] EXCEPT !.R = r]]
  /\ steady' = (r = R /\ steady)
  /\ UNCHANGED <<form, numChannels, bypassed, heard>>

SetR(r) ==
  /\ form = "multi"
  /\ SetRadius(r) /\ agreed' = FALSE /\ UNCHANGED <<cutoff, sampleRate>>

(* setCutoffFrequency() of the bank is given the rate, the node keeps the one *)
(* of prepare().                                                              *)
SetCutoffFrequency(c, rate) ==
  /\ form = "node" => rate = sampleRate
  /\ SetRadius(calculateR(c, rate)) /\ cutoff' = c /\ sampleRate' = rate /\ agreed' = TRUE

Prepare(rate) ==
  /\ form = "node"
  /\ SetRadius(calculateR(cutoff, rate)) /\ sampleRate' = rate /\ agreed' = TRUE /\ UNCHANGED cutoff

SetNumChannels(n) ==
  /\ form = "multi" /\ n # numChannels
  /\ numChannels' = n /\ blockers' = Bank(n, R) /\ heard' = Nothing(n) /\ steady' = TRUE
  /\ UNCHANGED <<form, R, cutoff, sampleRate, bypassed, agreed>>

Reset ==
  /\ blockers' = [ch \in DOMAIN blockers |-> Cleared(blockers[ch])]
  /\ heard' = Nothing(numChannels) /\ steady' = TRUE
  /\ UNCHANGED <<form, numChannels, R, cutoff, sampleRate, bypassed, agreed>>

SetBypassed(on) ==
  /\ form = "node" /\ bypassed' = on
  /\ UNCHANGED <<form, numChannels, R, blockers, cutoff, sampleRate, heard, steady, agreed>>

Frames == [0..1 -> [0..(numChannels - 1) -> Inputs]]

BlockersNext ==
  \/ \E frames \in Frames :
       \/ ProcessInterleaved(frames) \/ ProcessNonInterleaved(frames)
       \/ \E n \in 1..2 : ProcessNode(frames, n)
  \/ \E c \in Cutoffs : \E rate \in SampleRates : SetCutoffFrequency(c, rate)
  \/ \E rate \in SampleRates : Prepare(rate)
  \/ \E r \in 1..3 : SetR(r)
  \/ \E n \in ChannelCounts : SetNumChannels(n)
  \/ \E on \in BOOLEAN : SetBypassed(on)
  \/ Reset

-----------------------------------------------------------------------------
(* y[n]: every step of the input, decayed by the radius once a sample since.  *)
Response(r, xs) ==
  LET n == Len(xs)
      decay[k \in 0..n] == IF k = 0 THEN 1 ELSE r * decay[k - 1]
      step(k) == xs[k] - (IF k = 1 THEN 0 ELSE xs[k - 1])
      sum[k \in 0..n] == IF k = 0 THEN 0 ELSE sum[k - 1] + step(k) * decay[n - k]
  IN sum[n]

(* However blocks are laid out and whichever channels they have, a channel's  *)
(* output is its own input's response, from reset() or a new channel count    *)
(* on, as long as the radius stays; and every blocker has the bank's radius,  *)
(* which is the cutoff's once one was set.                                    *)
ChannelsApart ==
  /\ \A ch \in DOMAIN blockers :
       /\ blockers[ch].R = R
       /\ steady => blockers[ch].y1 = Response(R, heard[ch])
  /\ agreed => R = calculateR(cutoff, sampleRate)
=============================================================================
