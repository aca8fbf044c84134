--------------------------- MODULE ParametersProofs ---------------------------
(***************************************************************************)
(* Parameters and their groups, for any parameters, ranges, steps, options *)
(* and trees, and however deep callbacks call setters again: values are    *)
(* legal, callbacks know them, resetAll() reaches the whole tree, and      *)
(* lookups find what is there.  And presets, for any number of names,      *)
(* directories, serializers and files: the index with the files behind it  *)
(* is a store of presets, and the current preset is in it.                 *)
(***************************************************************************)
EXTENDS Parameters, PresetManager, SequenceTheorems, TLAPS

-----------------------------------------------------------------------------
(* Arithmetic of the setters.                                                 *)
LEMMA ClampInside ==
  ASSUME NEW v \in Int, NEW lo \in Int, NEW hi \in Int, lo <= hi
  PROVE  Clamp(v, lo, hi) \in lo..hi
  BY DEF Clamp

LEMMA MultipleOnGrid ==
  ASSUME NEW s \in Nat \ {0}, NEW k \in Int
  PROVE  (k * s) \in Int /\ (k * s) % s = 0
  OBVIOUS

LEMMA TruncatedValue ==
  ASSUME NEW d \in Int, NEW s \in Nat \ {0}
  PROVE  /\ Truncated(d, s) \in Int
         /\ d >= 0 => Truncated(d, s) * s \in 0..d
<1>1. d >= 0 => d \div s \in Nat /\ (d \div s) * s <= d /\ (d \div s) * s >= 0
  OBVIOUS
<1>2. d < 0 => (-d) \div s \in Nat
  OBVIOUS
<1> QED
  BY <1>1, <1>2 DEF Truncated

LEMMA QuantizeValue ==
  ASSUME NEW v \in Int, NEW lo \in Int, NEW s \in Int
  PROVE  /\ Quantize(v, lo, s) \in Int
         /\ v >= lo => Quantize(v, lo, s) \in lo..v
         /\ s > 1 => (Quantize(v, lo, s) - lo) % s = 0
<1>1. CASE s <= 1
  BY <1>1 DEF Quantize
<1>2. CASE s > 1
  <2> DEFINE t == Truncated(v - lo, s)
  <2>1. s \in Nat \ {0} /\ v - lo \in Int
    BY <1>2
  <2>2. t \in Int /\ (v - lo >= 0 => t * s \in 0..(v - lo))
    BY <2>1, TruncatedValue
  <2>3. Quantize(v, lo, s) = lo + t * s
    BY <1>2 DEF Quantize
  <2> HIDE DEF t
  <2>4. (t * s) \in Int /\ (t * s) % s = 0
    BY <2>1, <2>2, MultipleOnGrid
  <2>5. \A x \in Int : (lo + x) - lo = x
    OBVIOUS
  <2>6. (Quantize(v, lo, s) - lo) % s = 0
    BY <2>3, <2>4, <2>5
  <2>7. \A x \in Int : x \in 0..(v - lo) => lo + x \in lo..v
    OBVIOUS
  <2>8. v >= lo => v - lo >= 0
    OBVIOUS
  <2> QED
    BY <2>2, <2>3, <2>4, <2>6, <2>7, <2>8
<1> QED
  BY <1>1, <1>2

(* What a setter stores is in the range and on the grid.                      *)
LEMMA TargetValue ==
  ASSUME NEW o \in Fields, NEW v \in Int, o.lo <= o.hi
  PROVE  /\ Target(o, v) \in o.lo..o.hi
         /\ o.step <= 1 \/ (Target(o, v) - o.lo) % o.step = 0 \/ Target(o, v) = o.hi
<1> DEFINE q == Quantize(v, o.lo, o.step)
<1>1. o.lo \in Int /\ o.hi \in Int /\ o.step \in Int
  BY DEF Fields
<1>2. q \in Int /\ (o.step > 1 => (q - o.lo) % o.step = 0)
  BY <1>1, QuantizeValue
<1>3. Target(o, v) = Clamp(q, o.lo, o.hi)
  BY DEF Target
<1> HIDE DEF q
<1>4. Target(o, v) \in o.lo..o.hi
  BY <1>1, <1>2, <1>3, ClampInside
<1>5. o.step > 1 => (o.lo - o.lo) % o.step = 0
  BY <1>1
<1>6. Target(o, v) \in {q, o.lo, o.hi}
  BY <1>3 DEF Clamp
<1> QED
  BY <1>1, <1>2, <1>4, <1>5, <1>6

-----------------------------------------------------------------------------
(* What holds of a parameter of class k with fields o after the losses lost.  *)
(* Beside the properties: which bounds a class has, that only the options of  *)
(* an enum are lost, and that an enum without options since it was made has   *)
(* index 0, so that the first option it is given is selected.                 *)
Bounded(o, k) ==
  IF k = "enum" THEN o.lo = 0 /\ o.hi >= -1 /\ o.value >= 0
  ELSE o.lo <= o.hi /\ (k = "trigger" => o.lo = 0 /\ o.hi = 1)

Empty(o, k) == k = "enum" /\ o.hi < o.lo

Legal(o, k, lost) ==
  /\ o \in Fields /\ k \in Kinds
  /\ Bounded(o, k)
  /\ "options" \in lost => k = "enum"
  /\ Empty(o, k) /\ "options" \notin lost => o.value = 0
  /\ "options" \in lost \/ Empty(o, k) \/ Inside(o.value, o)
  /\ k = "float" /\ "smooth" \notin lost => Inside(o.smoothed, o)
  /\ k = "int" => \/ o.step <= 1 \/ (o.value - o.lo) % o.step = 0
                  \/ o.value = o.hi \/ "grid" \in lost

Lost(p) == {l \in Losses : <<p, l>> \in lapsed}

AllLegal == \A p \in Params : Legal(object[p], kind[p], Lost(p))

LEMMA LegalNew ==
  ASSUME NEW m \in Making
  PROVE  Legal(New(m), m.kind, {})
<1> DEFINE lo == IF m.kind \in {"float", "int"} THEN m.range[1] ELSE 0
           hi == IF m.kind \in {"float", "int"} THEN m.range[2] ELSE IF m.kind = "enum" THEN m.options - 1 ELSE 1
           o == [value |-> m.default, lo |-> lo, hi |-> hi, default |-> m.default,
                 step |-> IF m.kind = "int" THEN m.step ELSE 1, smoothed |-> m.default, smoothing |-> FALSE]
           v == IF hi < lo THEN 0 ELSE Target(o, m.default)
<1>1. /\ m.kind \in Kinds /\ m.default \in Int /\ lo \in Int /\ hi \in Int
      /\ m.kind = "int" => m.step \in Int
      /\ IF m.kind = "enum" THEN lo = 0 /\ hi >= -1
         ELSE lo <= hi /\ (m.kind = "trigger" => lo = 0 /\ hi = 1)
  BY DEF Making, Kinds, Intervals
<1>2. New(m) = [o EXCEPT !.value = v, !.smoothed = v]
  BY DEF New
<1> HIDE DEF lo, hi
<1>3. o \in Fields /\ o.lo = lo /\ o.hi = hi /\ (m.kind # "int" => o.step = 1)
  BY <1>1 DEF Fields
<1>4. lo <= hi => Target(o, m.default) \in lo..hi
  BY <1>1, <1>3, TargetValue
<1>5. m.kind = "int" => \/ o.step <= 1 \/ (Target(o, m.default) - lo) % o.step = 0
                        \/ Target(o, m.default) = hi
  BY <1>1, <1>3, TargetValue
<1> HIDE DEF o
<1>6. v \in Int /\ New(m) \in Fields /\ New(m).lo = lo /\ New(m).hi = hi /\ New(m).step = o.step
      /\ New(m).value = v /\ New(m).smoothed = v
  <2>1. v \in Int
    BY <1>1, <1>4
  <2> HIDE DEF v
  <2> QED
    BY <1>2, <1>3, <2>1 DEF Fields
<1> QED
  BY <1>1, <1>4, <1>5, <1>6 DEF Legal, Bounded, Empty, Inside

(* setValue().                                                                *)
LEMMA LegalTarget ==
  ASSUME NEW o, NEW k, NEW lost \in SUBSET Losses, Legal(o, k, lost), NEW v \in Int, ~Empty(o, k)
  PROVE  Legal([o EXCEPT !.value = Target(o, v)], k, lost \ {"grid", "options"})
<1>1. o \in Fields /\ o.lo \in Int /\ o.hi \in Int /\ o.lo <= o.hi
  BY DEF Legal, Bounded, Empty, Fields
<1>2. /\ Target(o, v) \in o.lo..o.hi
      /\ o.step <= 1 \/ (Target(o, v) - o.lo) % o.step = 0 \/ Target(o, v) = o.hi
  BY <1>1, TargetValue
<1> QED
  BY <1>1, <1>2 DEF Legal, Bounded, Empty, Fields, Inside

(* A number of losses more.                                                   *)
LEMMA LegalLoses ==
  ASSUME NEW o, NEW k, NEW lost \in SUBSET Losses, Legal(o, k, lost), NEW more \in SUBSET {"heard", "grid", "smooth"}
  PROVE  Legal(o, k, lost \union more)
  BY DEF Legal

LEMMA LegalHeard ==
  ASSUME NEW o, NEW k, NEW lost \in SUBSET Losses, Legal(o, k, lost)
  PROVE  Legal(o, k, lost \ {"heard"})
  BY DEF Legal

-----------------------------------------------------------------------------
(* Steps of one parameter.  A setter, called with a stack of calls.           *)
Typed ==
  /\ object \in [Params -> Fields] /\ kind \in [Params -> Kinds]
  /\ calls \in Seq(Frames)
  /\ heard \in [Params -> Int \union {Nobody}] /\ lapsed \subseteq Params \X Losses

LEMMA LostParts ==
  ASSUME NEW p \in Params, NEW L \in SUBSET Losses, NEW old, NEW q \in Params
  PROVE  /\ {l \in Losses : <<q, l>> \in old \ Pairs(p, L)} =
              IF q = p THEN {l \in Losses : <<q, l>> \in old} \ L ELSE {l \in Losses : <<q, l>> \in old}
         /\ {l \in Losses : <<q, l>> \in old \union Pairs(p, L)} =
              IF q = p THEN {l \in Losses : <<q, l>> \in old} \union L ELSE {l \in Losses : <<q, l>> \in old}
  BY DEF Pairs

LEMMA SetLegal ==
  ASSUME AllLegal, object \in [Params -> Fields], NEW p \in Params, NEW v \in Int, NEW stack, Set(p, v, stack), kind' = kind
  PROVE  AllLegal' /\ object' \in [Params -> Fields]
<1> DEFINE called == Accepted(p, v) # object[p].value /\ heard[p] # Nobody
           gone == (IF EmptyEnum(p) THEN {} ELSE {"grid", "options"}) \union (IF called THEN {"heard"} ELSE {})
           o == [object[p] EXCEPT !.value = Accepted(p, v)]
<1>1. Legal(object[p], kind[p], Lost(p))
  BY DEF AllLegal
<1>2. lapsed' = lapsed \ Pairs(p, gone) /\ object' = [object EXCEPT ![p] = o]
  BY DEF Set, Pairs
<1>3. gone \in SUBSET Losses
  BY DEF Losses
<1>4. Legal(o, kind[p], Lost(p) \ gone)
  <2>1. Lost(p) \in SUBSET Losses
    BY DEF Lost
  <2>2. CASE EmptyEnum(p)
    <3>1. o = object[p]
      BY <1>1, <2>2 DEF Accepted, Legal, Fields
    <3>2. gone = {} \/ gone = {"heard"}
      BY <2>2
    <3>3. Lost(p) \ {} = Lost(p)
      OBVIOUS
    <3> HIDE DEF o, gone
    <3> QED
      BY <1>1, <2>1, <3>1, <3>2, <3>3, LegalHeard
  <2>3. CASE ~EmptyEnum(p)
    <3>1. o = [object[p] EXCEPT !.value = Target(object[p], v)]
      BY <2>3 DEF Accepted
    <3>2. ~Empty(object[p], kind[p])
      BY <2>3 DEF EmptyEnum, Empty
    <3>3. Legal(o, kind[p], Lost(p) \ {"grid", "options"})
      <4> HIDE DEF o
      <4> QED
        BY <1>1, <2>1, <3>1, <3>2, LegalTarget
    <3>4. Legal(o, kind[p], (Lost(p) \ {"grid", "options"}) \ {"heard"})
      <4>1. Lost(p) \ {"grid", "options"} \in SUBSET Losses
        BY <2>1
      <4> HIDE DEF o
      <4> QED
        BY <3>3, <4>1, LegalHeard
    <3>5. \/ Lost(p) \ gone = Lost(p) \ {"grid", "options"}
          \/ Lost(p) \ gone = (Lost(p) \ {"grid", "options"}) \ {"heard"}
      BY <2>3
    <3> QED
      BY <3>3, <3>4, <3>5
  <2> QED
    BY <2>2, <2>3
<1> HIDE DEF o, gone
<1>5. o \in Fields
  BY <1>4 DEF Legal
<1>6. \A q \in Params : Lost(q)' = IF q = p THEN Lost(p) \ gone ELSE Lost(q)
  BY <1>2, <1>3, LostParts DEF Lost
<1>7. \A q \in Params : object'[q] = IF q = p THEN o ELSE object[q]
  BY <1>2
<1>8. AllLegal'
  <2> SUFFICES ASSUME NEW q \in Params PROVE Legal(object'[q], kind'[q], Lost(q)')
    BY DEF AllLegal
  <2> QED
    BY <1>4, <1>6, <1>7 DEF AllLegal
<1> QED
  BY <1>2, <1>5, <1>8

(* A change without the callback.                                             *)
LEMMA SilentlyLegal ==
  ASSUME AllLegal, object \in [Params -> Fields], NEW p \in Params, NEW o, NEW losses \in SUBSET Losses,
         Silently(p, o, losses), Legal(o, kind[p], Lost(p) \union losses)
  PROVE  AllLegal' /\ object' \in [Params -> Fields]
<1> DEFINE more == losses \union IF o.value # object[p].value /\ heard[p] # Nobody THEN {"heard"} ELSE {}
<1>1. more \in SUBSET Losses
  BY DEF Losses
<1>2. lapsed' = lapsed \union Pairs(p, more) /\ object' = [object EXCEPT ![p] = o] /\ kind' = kind
  BY DEF Silently
<1>3. Legal(o, kind[p], Lost(p) \union more)
  <2>1. \/ Lost(p) \union more = Lost(p) \union losses
        \/ Lost(p) \union more = (Lost(p) \union losses) \union {"heard"}
    OBVIOUS
  <2>2. Lost(p) \union losses \in SUBSET Losses
    BY DEF Lost
  <2> HIDE DEF more
  <2> QED
    BY <2>1, <2>2, LegalLoses
<1> HIDE DEF more
<1>4. o \in Fields
  BY <1>3 DEF Legal
<1>5. \A q \in Params : Lost(q)' = IF q = p THEN Lost(p) \union more ELSE Lost(q)
  BY <1>1, <1>2, LostParts DEF Lost
<1>6. \A q \in Params : object'[q] = IF q = p THEN o ELSE object[q]
  BY <1>2
<1>7. AllLegal'
  <2> SUFFICES ASSUME NEW q \in Params PROVE Legal(object'[q], kind'[q], Lost(q)')
    BY DEF AllLegal
  <2> QED
    BY <1>2, <1>3, <1>5, <1>6 DEF AllLegal
<1> QED
  BY <1>2, <1>4, <1>7

(* A change of one parameter.                                                 *)
LEMMA ChangeLegal ==
  ASSUME AllLegal, object \in [Params -> Fields], NEW p \in Params, NEW o,
         object' = [object EXCEPT ![p] = o], kind' = kind,
         \A q \in Params \ {p} : Lost(q)' = Lost(q), Legal(o, kind[p], Lost(p)')
  PROVE  AllLegal' /\ object' \in [Params -> Fields]
<1>1. \A q \in Params : object'[q] = IF q = p THEN o ELSE object[q]
  OBVIOUS
<1>2. AllLegal'
  <2> SUFFICES ASSUME NEW q \in Params PROVE Legal(object'[q], kind'[q], Lost(q)')
    BY DEF AllLegal
  <2> QED
    BY <1>1 DEF AllLegal
<1> QED
  BY <1>2 DEF Legal

WithRange(o, a, b, v) == [o EXCEPT !.lo = a, !.hi = b, !.value = v]
WithStep(o, a, v) == [o EXCEPT !.step = a, !.value = v]
WithTop(o, a, v) == [o EXCEPT !.hi = a, !.value = v]

LEMMA WithRangeFields ==
  ASSUME NEW o \in Fields, NEW a \in Int, NEW b \in Int, NEW v \in Int
  PROVE  /\ WithRange(o, a, b, v) \in Fields
         /\ WithRange(o, a, b, v).lo = a /\ WithRange(o, a, b, v).hi = b /\ WithRange(o, a, b, v).value = v
  BY DEF Fields, WithRange

LEMMA WithStepFields ==
  ASSUME NEW o \in Fields, NEW a \in Int, NEW v \in Int
  PROVE  /\ WithStep(o, a, v) \in Fields
         /\ WithStep(o, a, v).step = a /\ WithStep(o, a, v).value = v
         /\ WithStep(o, a, v).lo = o.lo /\ WithStep(o, a, v).hi = o.hi
  BY DEF Fields, WithStep

LEMMA WithTopFields ==
  ASSUME NEW o \in Fields, NEW a \in Int, NEW v \in Int
  PROVE  /\ WithTop(o, a, v) \in Fields
         /\ WithTop(o, a, v).hi = a /\ WithTop(o, a, v).value = v /\ WithTop(o, a, v).lo = o.lo
  BY DEF Fields, WithTop

LEMMA RangeLegal ==
  ASSUME NEW o, NEW k \in {"float", "int"}, NEW lost \in SUBSET Losses, Legal(o, k, lost), NEW r \in Intervals
  PROVE  Legal([o EXCEPT !.lo = r[1], !.hi = r[2], !.value = Clamp(@, r[1], r[2])], k,
               lost \union {"grid", "smooth"})
<1>1. o \in Fields /\ o.value \in Int /\ r[1] \in Int /\ r[2] \in Int /\ r[1] <= r[2]
  BY DEF Legal, Fields, Intervals
<1>2. Clamp(o.value, r[1], r[2]) \in r[1]..r[2]
  BY <1>1, ClampInside
<1> DEFINE n == [o EXCEPT !.lo = r[1], !.hi = r[2], !.value = Clamp(@, r[1], r[2])]
<1>3. n \in Fields /\ n.lo = r[1] /\ n.hi = r[2] /\ n.value = Clamp(o.value, r[1], r[2])
  <2>1. n = WithRange(o, r[1], r[2], Clamp(o.value, r[1], r[2]))
    BY DEF WithRange
  <2>2. Clamp(o.value, r[1], r[2]) \in Int
    BY <1>1, <1>2
  <2> HIDE DEF n
  <2> QED
    BY <1>1, <2>1, <2>2, WithRangeFields
<1> HIDE DEF n
<1>4. Legal(n, k, lost \union {"grid", "smooth"})
  BY <1>1, <1>2, <1>3 DEF Legal, Bounded, Empty, Inside
<1> QED
  BY <1>4 DEF n

LEMMA StepSizeLegal ==
  ASSUME NEW o, NEW lost \in SUBSET Losses, Legal(o, "int", lost), NEW s \in Nat \ {0}
  PROVE  Legal([o EXCEPT !.step = s, !.value = Requantized(o, s)], "int", lost)
<1>1. o \in Fields /\ o.value \in Int /\ o.lo \in Int /\ o.hi \in Int /\ o.value >= o.lo /\ o.value <= o.hi
  BY DEF Legal, Fields, Inside, Empty
<1>2. /\ Requantized(o, s) \in o.lo..o.value
      /\ s > 1 => (Requantized(o, s) - o.lo) % s = 0
  <2>1. s \in Int
    OBVIOUS
  <2>2. /\ Quantize(o.value, o.lo, s) \in o.lo..o.value
        /\ s > 1 => (Quantize(o.value, o.lo, s) - o.lo) % s = 0
    BY <1>1, <2>1, QuantizeValue
  <2> QED
    BY <2>2 DEF Requantized
<1> DEFINE n == [o EXCEPT !.step = s, !.value = Requantized(o, s)]
<1>3. /\ n \in Fields /\ n.step = s /\ n.value = Requantized(o, s)
      /\ n.lo = o.lo /\ n.hi = o.hi
  <2>1. Requantized(o, s) \in Int /\ s \in Int
    BY <1>1, <1>2
  <2>2. n = WithStep(o, s, Requantized(o, s))
    BY DEF WithStep
  <2> HIDE DEF n
  <2> QED
    BY <1>1, <2>1, <2>2, WithStepFields
<1> HIDE DEF n
<1>4. Legal(n, "int", lost)
  BY <1>1, <1>2, <1>3 DEF Legal, Bounded, Empty, Inside
<1> QED
  BY <1>4 DEF n

LEMMA OptionsLegal ==
  ASSUME NEW o, NEW lost \in SUBSET Losses, Legal(o, "enum", lost), NEW n \in Nat
  PROVE  /\ Legal([o EXCEPT !.hi = n - 1, !.value = IF n > 0 /\ @ >= n THEN n - 1 ELSE @], "enum",
                  lost \union IF n = 0 THEN {"options"} ELSE {})
         /\ Legal([o EXCEPT !.hi = @ + 1], "enum", lost)
<1>1. o \in Fields /\ o.value \in Nat /\ o.lo = 0 /\ o.hi \in Int /\ o.hi >= -1
  BY DEF Legal, Fields, Bounded
<1> DEFINE r == [o EXCEPT !.hi = n - 1, !.value = IF n > 0 /\ @ >= n THEN n - 1 ELSE @]
           a == [o EXCEPT !.hi = @ + 1]
           more == lost \union IF n = 0 THEN {"options"} ELSE {}
<1>2. /\ r \in Fields /\ r.hi = n - 1 /\ r.value = (IF n > 0 /\ o.value >= n THEN n - 1 ELSE o.value)
      /\ r.lo = 0
  <2> DEFINE v == IF n > 0 /\ o.value >= n THEN n - 1 ELSE o.value
  <2>1. v \in Int /\ n - 1 \in Int
    BY <1>1
  <2>2. r = WithTop(o, n - 1, v)
    BY DEF WithTop
  <2> HIDE DEF r
  <2>3. r \in Fields /\ r.hi = n - 1 /\ r.value = v /\ r.lo = o.lo
    <3> HIDE DEF v
    <3> QED
      BY <1>1, <2>1, <2>2, WithTopFields
  <2> QED
    BY <1>1, <2>3
<1>3. a \in Fields /\ a.hi = o.hi + 1 /\ a.value = o.value /\ a.lo = 0
  BY <1>1 DEF Fields
<1> HIDE DEF r, a
<1>4. Legal(r, "enum", more)
  BY <1>1, <1>2 DEF Legal, Bounded, Empty, Inside
<1>5. Legal(a, "enum", lost)
  BY <1>1, <1>3 DEF Legal, Bounded, Empty, Inside
<1> QED
  BY <1>4, <1>5 DEF r, a

(* Smoothing ends at the value, or comes between it and where it was.         *)
LEMMA SmoothedLegal ==
  ASSUME NEW o, NEW lost \in SUBSET Losses, Legal(o, "float", lost), NEW n \in Fields,
         n.value = o.value, n.lo = o.lo, n.hi = o.hi, n.step = o.step
  PROVE  /\ n.smoothed = o.value => Legal(n, "float", lost \ {"smooth"})
         /\ n.smoothed = o.smoothed \/ n.smoothed \in Between(o) => Legal(n, "float", lost)
<1>1. o.value \in Int /\ o.lo \in Int /\ o.hi \in Int /\ o.smoothed \in Int
  BY DEF Legal, Fields
<1> QED
  BY <1>1 DEF Legal, Bounded, Empty, Inside, Between

-----------------------------------------------------------------------------
(* What every step keeps of the values: they are legal, and callbacks know    *)
(* them.                                                                      *)
ValuesInv == AllLegal /\ Typed /\ HeardIsCurrent

ResetFrames ==
  [op : {"resetAll"}, group : Groups, left : Seq(Params), below : Seq(Groups), touched : SUBSET Params]

LEMMA FrameKinds ==
  ASSUME NEW f \in Frames
  PROVE  /\ f.op \in {"callback", "reset", "resetAll"}
         /\ f.op = "resetAll" => f \in ResetFrames
         /\ f.op = "reset" => f.param \in Params
  BY DEF Frames, ResetFrames

LEMMA NotedFrames ==
  ASSUME calls \in Seq(Frames), NEW p \in Params
  PROVE  /\ Noted(p) \in Seq(Frames) /\ Len(Noted(p)) = Len(calls)
         /\ \A i \in 1..Len(calls) :
              /\ Noted(p)[i] = IF calls[i].op = "resetAll" THEN [calls[i] EXCEPT !.touched = @ \union {p}] ELSE calls[i]
              /\ Noted(p)[i] \in Frames
<1>1. DOMAIN calls = 1..Len(calls) /\ \A i \in 1..Len(calls) : calls[i] \in Frames
  OBVIOUS
<1>2. ASSUME NEW i \in 1..Len(calls), calls[i].op = "resetAll"
      PROVE  [calls[i] EXCEPT !.touched = @ \union {p}] \in Frames
  <2>1. calls[i] \in ResetFrames
    BY <1>1, <1>2, FrameKinds
  <2>2. [calls[i] EXCEPT !.touched = @ \union {p}] \in ResetFrames
    BY <2>1 DEF ResetFrames
  <2> QED
    BY <2>2 DEF Frames, ResetFrames
<1>3. \A i \in 1..Len(calls) :
        /\ Noted(p)[i] = IF calls[i].op = "resetAll" THEN [calls[i] EXCEPT !.touched = @ \union {p}] ELSE calls[i]
        /\ Noted(p)[i] \in Frames
  BY <1>1, <1>2 DEF Noted
<1>4. Noted(p) \in [1..Len(calls) -> Frames]
  BY <1>1, <1>3 DEF Noted
<1> QED
  BY <1>3, <1>4

LEMMA SimpleFrames ==
  /\ [op |-> "callback"] \in Frames
  /\ \A p \in Params : [op |-> "reset", param |-> p] \in Frames
  BY DEF Frames

LEMMA SetKeeps ==
  ASSUME ValuesInv, NEW p \in Params, NEW v \in Int, NEW stack \in Seq(Frames), Set(p, v, stack), kind' = kind
  PROVE  ValuesInv'
<1> DEFINE called == Accepted(p, v) # object[p].value /\ heard[p] # Nobody
<1>1. AllLegal' /\ object' \in [Params -> Fields]
  BY SetLegal DEF ValuesInv, Typed
<1>2. Accepted(p, v) \in Int /\ object'[p].value = Accepted(p, v)
      /\ \A q \in Params \ {p} : object'[q] = object[q]
  <2>1. object'[p] = [object[p] EXCEPT !.value = Accepted(p, v)]
        /\ \A q \in Params \ {p} : object'[q] = object[q]
    BY DEF Set, ValuesInv, Typed
  <2>2. object'[p].value = Accepted(p, v)
    BY <2>1 DEF ValuesInv, Typed, Fields
  <2>3. object'[p].value \in Int
    BY <1>1 DEF Fields
  <2> QED
    BY <2>1, <2>2, <2>3
<1>3. heard' = (IF called THEN [heard EXCEPT ![p] = Accepted(p, v)] ELSE heard)
  BY DEF Set, Told
<1>4. lapsed' \subseteq lapsed
      /\ \A q \in Params : <<q, "heard">> \in lapsed' \/ <<q, "heard">> \notin lapsed \/ (q = p /\ called)
  BY DEF Set, Pairs
<1>5. calls' \in Seq(Frames)
  BY SimpleFrames DEF Set
<1> HIDE DEF called
<1>6. Typed'
  BY <1>1, <1>2, <1>3, <1>4, <1>5 DEF Typed, ValuesInv
<1>7. HeardIsCurrent'
  <2> SUFFICES ASSUME NEW q \in Params, kind'[q] # "trigger", heard'[q] # Nobody, <<q, "heard">> \notin lapsed'
               PROVE  heard'[q] = object'[q].value
    BY DEF HeardIsCurrent
  <2>1. CASE q = p /\ called
    BY <1>2, <1>3, <2>1 DEF ValuesInv, Typed
  <2>2. CASE q = p /\ ~called
    <3>1. heard[p] = object[p].value
      BY <1>3, <1>4, <2>2 DEF ValuesInv, HeardIsCurrent
    <3>2. Accepted(p, v) = object[p].value
      BY <1>3, <2>2 DEF called
    <3> QED
      BY <1>2, <1>3, <2>2, <3>1, <3>2
  <2>3. CASE q # p
    BY <1>2, <1>3, <1>4, <2>3 DEF ValuesInv, HeardIsCurrent, Typed
  <2> QED
    BY <2>1, <2>2, <2>3
<1> QED
  BY <1>1, <1>6, <1>7 DEF ValuesInv

LEMMA SilentlyKeeps ==
  ASSUME ValuesInv, NEW p \in Params, NEW o, NEW losses \in SUBSET Losses,
         Silently(p, o, losses), Legal(o, kind[p], Lost(p) \union losses)
  PROVE  ValuesInv'
<1>1. AllLegal' /\ object' \in [Params -> Fields]
  BY SilentlyLegal DEF ValuesInv, Typed
<1>2. object'[p] = o /\ \A q \in Params \ {p} : object'[q] = object[q]
  BY DEF Silently, ValuesInv, Typed
<1>3. kind' = kind /\ heard' = heard /\ lapsed \subseteq lapsed' /\ lapsed' \subseteq Params \X Losses
      /\ (o.value # object[p].value /\ heard[p] # Nobody => <<p, "heard">> \in lapsed')
  BY DEF Silently, Pairs, ValuesInv, Typed, Losses
<1>4. calls' \in Seq(Frames)
  BY NotedFrames DEF Silently, ValuesInv, Typed
<1>5. Typed'
  BY <1>1, <1>3, <1>4 DEF Typed, ValuesInv
<1>6. HeardIsCurrent'
  BY <1>2, <1>3 DEF HeardIsCurrent, ValuesInv
<1> QED
  BY <1>1, <1>5, <1>6 DEF ValuesInv

(* A step that leaves the values as they are, and one that changes a          *)
(* parameter but not the value its callback was told.                         *)
LEMMA PlainKeeps ==
  ASSUME ValuesInv, UNCHANGED <<kind, object, heard, lapsed>>, calls' \in Seq(Frames)
  PROVE  ValuesInv'
BY DEF ValuesInv, AllLegal, Lost, Typed, HeardIsCurrent

LEMMA ChangeKeeps ==
  ASSUME ValuesInv, NEW p \in Params, NEW o, NEW L \in SUBSET {"smooth"},
         object' = [object EXCEPT ![p] = o], lapsed' = lapsed \ Pairs(p, L),
         Legal(o, kind[p], Lost(p) \ L), o.value = object[p].value \/ kind[p] = "trigger",
         UNCHANGED <<kind, heard>>, calls' \in Seq(Frames)
  PROVE  ValuesInv'
<1>1. \A q \in Params : Lost(q)' = IF q = p THEN Lost(p) \ L ELSE Lost(q)
  <2>1. L \in SUBSET Losses
    BY DEF Losses
  <2> QED
    BY <2>1, LostParts DEF Lost
<1>2. AllLegal' /\ object' \in [Params -> Fields]
  BY <1>1, ChangeLegal DEF ValuesInv, Typed
<1>3. object'[p] = o /\ \A q \in Params \ {p} : object'[q] = object[q]
  BY DEF ValuesInv, Typed
<1>4. \A q \in Params : <<q, "heard">> \in lapsed' <=> <<q, "heard">> \in lapsed
  BY DEF Pairs
<1>5. Typed'
  BY <1>2 DEF ValuesInv, Typed
<1>6. HeardIsCurrent'
  BY <1>3, <1>4 DEF ValuesInv, HeardIsCurrent
<1> QED
  BY <1>2, <1>5, <1>6 DEF ValuesInv

LEMMA ResetParamKeeps ==
  ASSUME ValuesInv, NEW p \in Params, NEW stack \in Seq(Frames), ResetParam(p, stack), kind' = kind
  PROVE  ValuesInv'
<1>1. object[p] \in Fields /\ Legal(object[p], kind[p], Lost(p))
  BY DEF ValuesInv, Typed, AllLegal
<1>2. CASE kind[p] = "trigger"
  <2> DEFINE o == [object[p] EXCEPT !.value = 0]
  <2>1. o \in Fields /\ o.value = 0 /\ o.lo = object[p].lo /\ o.hi = object[p].hi
    BY <1>1 DEF Fields
  <2>2. object' = [object EXCEPT ![p] = o] /\ lapsed' = lapsed \ Pairs(p, {}) /\ UNCHANGED heard /\ calls' = stack
    BY <1>2 DEF ResetParam, Pairs
  <2> HIDE DEF o
  <2>3. Legal(o, kind[p], Lost(p) \ {})
    BY <1>1, <1>2, <2>1 DEF Legal, Bounded, Empty, Inside
  <2>4. {} \in SUBSET {"smooth"} /\ calls' \in Seq(Frames)
    BY <2>2
  <2> QED
    BY ONLY ValuesInv, p \in Params, kind' = kind, <1>2, <2>2, <2>3, <2>4, ChangeKeeps
<1>3. CASE kind[p] # "trigger"
  <2> DEFINE below == IF kind[p] = "float" THEN Append(stack, [op |-> "reset", param |-> p]) ELSE stack
  <2>1. below \in Seq(Frames)
    BY SimpleFrames
  <2>2. Set(p, object[p].default, below)
    BY <1>3 DEF ResetParam
  <2>3. object[p].default \in Int
    BY <1>1 DEF Fields
  <2> HIDE DEF below
  <2> QED
    BY <2>1, <2>2, <2>3, SetKeeps
<1> QED
  BY <1>2, <1>3

-----------------------------------------------------------------------------
(* The calls of the application.                                              *)
LEMMA NoneLost == \A p \in Params : Lost(p) \in SUBSET Losses /\ Lost(p) \union {} = Lost(p) /\ Lost(p) \ {} = Lost(p)
BY DEF Lost

LEMMA NeighboursTyped ==
  ASSUME ValuesInv, NEW p \in Params
  PROVE  Neighbours(p) \subseteq Int
<1>1. object[p] \in Fields /\ Legal(object[p], kind[p], Lost(p))
  BY DEF ValuesInv, Typed, AllLegal
<1>2. object[p].value \in Int /\ object[p].step \in Int /\ object[p].hi \in Int
  BY <1>1 DEF Fields
<1>3. CASE kind[p] = "enum" /\ ~EmptyEnum(p)
  <2>1. object[p].hi >= 0
    BY <1>1, <1>2, <1>3 DEF Legal, Bounded, EmptyEnum
  <2>2. (object[p].value + 1) % (object[p].hi + 1) \in Int
    BY <1>2, <2>1
  <2> QED
    BY <1>2, <1>3, <2>2 DEF Neighbours
<1>4. CASE kind[p] = "int"
  BY <1>2, <1>4 DEF Neighbours
<1>5. CASE kind[p] = "bool"
  BY <1>2, <1>5 DEF Neighbours
<1>6. CASE kind[p] \notin {"int", "bool"} /\ ~(kind[p] = "enum" /\ ~EmptyEnum(p))
  BY <1>6 DEF Neighbours
<1> QED
  BY <1>3, <1>4, <1>5, <1>6

LEMMA ArgumentsTyped == \A k : Arguments(k) \subseteq Int
BY ParametersAssumption DEF Arguments

LEMMA CallKeeps ==
  ASSUME ValuesInv, NEW p \in Params, Call(p)
  PROVE  ValuesInv'
<1>1. /\ object[p] \in Fields /\ Legal(object[p], kind[p], Lost(p)) /\ Lost(p) \in SUBSET Losses
      /\ object[p].value \in Int /\ Lost(p) \union {} = Lost(p) /\ Lost(p) \ {} = Lost(p)
  BY NoneLost DEF ValuesInv, Typed, AllLegal, Fields
<1>2. calls \in Seq(Frames) /\ Noted(p) \in Seq(Frames)
  BY NotedFrames DEF ValuesInv, Typed
<1>3. ASSUME NEW v \in Arguments(kind[p]), SetValue(p, v) PROVE ValuesInv'
  <2>1. v \in Int
    BY ArgumentsTyped
  <2> QED
    BY <1>2, <1>3, <2>1, SetKeeps DEF SetValue
<1>4. CASE StepValue(p)
  <2>1. PICK v \in Neighbours(p) : Set(p, v, Noted(p))
    BY <1>4 DEF StepValue
  <2>2. v \in Int /\ kind' = kind
    BY <1>4, NeighboursTyped DEF StepValue
  <2> QED
    BY <1>2, <2>1, <2>2, SetKeeps
<1>5. CASE AddOption(p)
  <2> DEFINE o == [object[p] EXCEPT !.hi = @ + 1]
  <2>1. kind[p] = "enum" /\ Silently(p, o, {})
    BY <1>5 DEF AddOption
  <2>2. Legal(o, kind[p], Lost(p) \union {})
    BY <1>1, <2>1, OptionsLegal
  <2> HIDE DEF o
  <2> QED
    BY <2>1, <2>2, SilentlyKeeps
<1>6. CASE GetSmoothedValue(p)
  <2>1. PICK x \in Between(object[p]) : object' = [object EXCEPT ![p].smoothed = x]
    BY <1>6 DEF GetSmoothedValue
  <2> DEFINE o == [object[p] EXCEPT !.smoothed = x]
  <2>2. x \in Int
    BY <1>1 DEF Between, Fields
  <2>3. /\ o \in Fields /\ o.value = object[p].value /\ o.lo = object[p].lo
        /\ o.hi = object[p].hi /\ o.step = object[p].step /\ o.smoothed = x
    BY <1>1, <2>2 DEF Fields
  <2>4. object' = [object EXCEPT ![p] = o]
    BY <2>1
  <2>5. kind[p] = "float" /\ lapsed' = lapsed \ Pairs(p, {}) /\ kind' = kind /\ heard' = heard /\ calls' \in Seq(Frames)
    BY <1>2, <1>6 DEF GetSmoothedValue, Pairs
  <2> HIDE DEF o
  <2>6. Legal(o, kind[p], Lost(p) \ {})
    BY <1>1, <2>1, <2>3, <2>5, SmoothedLegal
  <2>7. {} \in SUBSET {"smooth"}
    OBVIOUS
  <2> QED
    BY <2>3, <2>4, <2>5, <2>6, <2>7, ChangeKeeps
<1>7. CASE Trigger(p)
  <2> DEFINE o == [object[p] EXCEPT !.value = 1]
  <2>1. o \in Fields /\ o.value = 1 /\ o.lo = object[p].lo /\ o.hi = object[p].hi
    BY <1>1 DEF Fields
  <2>2. /\ object' = [object EXCEPT ![p] = o] /\ lapsed' = lapsed \ Pairs(p, {})
        /\ kind' = kind /\ heard' = heard /\ kind[p] = "trigger"
    BY <1>7 DEF Trigger, Pairs
  <2>3. calls' \in Seq(Frames)
    BY <1>2, <1>7, SimpleFrames DEF Trigger
  <2>4. {} \in SUBSET {"smooth"}
    OBVIOUS
  <2> HIDE DEF o
  <2>5. Legal(o, kind[p], Lost(p) \ {})
    BY <1>1, <2>1, <2>2 DEF Legal, Bounded, Empty, Inside
  <2> QED
    BY <2>2, <2>3, <2>4, <2>5, ChangeKeeps
<1>8. CASE Consume(p)
  <2> DEFINE o == [object[p] EXCEPT !.value = 0]
  <2>1. o \in Fields /\ o.value = 0 /\ o.lo = object[p].lo /\ o.hi = object[p].hi
    BY <1>1 DEF Fields
  <2>2. /\ object' = [object EXCEPT ![p] = o] /\ lapsed' = lapsed \ Pairs(p, {})
        /\ kind' = kind /\ heard' = heard /\ kind[p] = "trigger" /\ calls' \in Seq(Frames)
    BY <1>2, <1>8 DEF Consume, Pairs
  <2>4. {} \in SUBSET {"smooth"}
    OBVIOUS
  <2> HIDE DEF o
  <2>5. Legal(o, kind[p], Lost(p) \ {})
    BY <1>1, <2>1, <2>2 DEF Legal, Bounded, Empty, Inside
  <2> QED
    BY <2>2, <2>4, <2>5, ChangeKeeps
<1>9. ASSUME NEW r \in Ranges, SetRange(p, r) PROVE ValuesInv'
  <2> DEFINE o == [object[p] EXCEPT !.lo = r[1], !.hi = r[2], !.value = Clamp(@, r[1], r[2])]
  <2>1. kind[p] \in {"float", "int"} /\ Silently(p, o, {"grid", "smooth"})
    BY <1>9 DEF SetRange
  <2>2. r \in Intervals /\ {"grid", "smooth"} \in SUBSET Losses
    BY ParametersAssumption DEF Losses
  <2>3. Legal(o, kind[p], Lost(p) \union {"grid", "smooth"})
    BY <1>1, <2>1, <2>2, RangeLegal
  <2> HIDE DEF o
  <2> QED
    BY <2>1, <2>2, <2>3, SilentlyKeeps
<1>10. ASSUME NEW n \in Steps, SetStepSize(p, n) PROVE ValuesInv'
  <2> DEFINE s == IF n < 1 THEN 1 ELSE n
             o == [object[p] EXCEPT !.step = s, !.value = Requantized(object[p], s)]
  <2>1. kind[p] = "int" /\ Silently(p, o, {})
    BY <1>10 DEF SetStepSize
  <2>2. s \in Nat \ {0} /\ {} \in SUBSET Losses
    BY ParametersAssumption
  <2> HIDE DEF s
  <2>3. Legal(o, kind[p], Lost(p) \union {})
    <3>1. Legal(object[p], "int", Lost(p))
      BY <1>1, <2>1
    <3>2. Legal(o, "int", Lost(p))
      BY <1>1, <2>2, <3>1, StepSizeLegal
    <3> QED
      BY <1>1, <2>1, <3>2
  <2> HIDE DEF o
  <2> QED
    BY <2>1, <2>2, <2>3, SilentlyKeeps
<1>11. ASSUME NEW n \in 0..MaxOptions, SetOptions(p, n) PROVE ValuesInv'
  <2> DEFINE o == [object[p] EXCEPT !.hi = n - 1, !.value = IF n > 0 /\ @ >= n THEN n - 1 ELSE @]
             losses == IF n = 0 THEN {"options"} ELSE {}
  <2>1. kind[p] = "enum" /\ Silently(p, o, losses)
    BY <1>11 DEF SetOptions
  <2>2. n \in Nat /\ losses \in SUBSET Losses
    BY ParametersAssumption DEF Losses
  <2>3. Legal(o, kind[p], Lost(p) \union losses)
    <3>1. Legal(object[p], "enum", Lost(p))
      BY <1>1, <2>1
    <3>2. Legal(o, "enum", Lost(p) \union losses)
      BY <1>1, <2>2, <3>1, OptionsLegal
    <3> QED
      BY <2>1, <3>2
  <2> HIDE DEF o, losses
  <2> QED
    BY <2>1, <2>2, <2>3, SilentlyKeeps
<1>12. ASSUME NEW on \in BOOLEAN, EnableSmoothing(p, on) PROVE ValuesInv'
  <2> DEFINE o == [object[p] EXCEPT !.smoothing = on, !.smoothed = IF on THEN @ ELSE object[p].value]
             L == IF on THEN {} ELSE {"smooth"}
  <2>1. /\ o \in Fields /\ o.value = object[p].value /\ o.lo = object[p].lo
        /\ o.hi = object[p].hi /\ o.step = object[p].step
        /\ o.smoothed = IF on THEN object[p].smoothed ELSE object[p].value
    BY <1>1 DEF Fields
  <2>2. object' = [object EXCEPT ![p] = o]
    BY <1>12 DEF EnableSmoothing
  <2>3. /\ kind[p] = "float" /\ lapsed' = lapsed \ Pairs(p, L) /\ kind' = kind /\ heard' = heard
        /\ calls' \in Seq(Frames)
    BY <1>2, <1>12 DEF EnableSmoothing, Pairs
  <2>4. L \in SUBSET {"smooth"}
    OBVIOUS
  <2> HIDE DEF o
  <2>5. Legal(o, kind[p], Lost(p) \ L)
    BY <1>1, <2>1, <2>3, SmoothedLegal
  <2> HIDE DEF L
  <2> QED
    BY <2>1, <2>2, <2>3, <2>4, <2>5, ChangeKeeps
<1>13. CASE SetChangeCallback(p) \/ RemoveChangeCallback(p)
  <2>1. /\ UNCHANGED <<kind, object, calls>> /\ lapsed' = lapsed \ Pairs(p, {"heard"})
        /\ heard' = [heard EXCEPT ![p] = object[p].value] \/ heard' = [heard EXCEPT ![p] = Nobody]
    BY <1>13 DEF SetChangeCallback, RemoveChangeCallback
  <2>2. \A q \in Params : Lost(q)' = IF q = p THEN Lost(p) \ {"heard"} ELSE Lost(q)
    <3>1. {"heard"} \in SUBSET Losses
      BY DEF Losses
    <3> QED
      BY <2>1, <3>1, LostParts DEF Lost
  <2>3. AllLegal'
    <3> SUFFICES ASSUME NEW q \in Params PROVE Legal(object'[q], kind'[q], Lost(q)')
      BY DEF AllLegal
    <3> QED
      BY <1>1, <2>1, <2>2, LegalHeard DEF ValuesInv, AllLegal
  <2>4. Typed'
    BY <1>1, <2>1 DEF ValuesInv, Typed
  <2>5. HeardIsCurrent'
    <3>1. \A q \in Params \ {p} : heard'[q] = heard[q] /\ (<<q, "heard">> \in lapsed' <=> <<q, "heard">> \in lapsed)
      <4>1. \A q \in Params \ {p} : <<q, "heard">> \notin Pairs(p, {"heard"})
        BY DEF Pairs
      <4> QED
        BY <2>1, <4>1 DEF ValuesInv, Typed
    <3>2. heard'[p] \in {object[p].value, Nobody}
      BY <2>1 DEF ValuesInv, Typed
    <3> QED
      BY <2>1, <3>1, <3>2 DEF ValuesInv, HeardIsCurrent
  <2> QED
    BY <2>3, <2>4, <2>5 DEF ValuesInv
<1>14. CASE Reset(p)
  BY <1>2, <1>14, ResetParamKeeps DEF Reset
<1> QED
  BY <1>3, <1>4, <1>5, <1>6, <1>7, <1>8, <1>9, <1>10, <1>11, <1>12, <1>13, <1>14 DEF Call

-----------------------------------------------------------------------------
(* What goes on after a call returns, and the start.                          *)
LEMMA TopTyped ==
  ASSUME calls \in Seq(Frames), calls # <<>>
  PROVE  /\ Last(calls) \in Frames /\ Front(calls) \in Seq(Frames)
         /\ Len(calls) \in Nat \ {0} /\ Len(Front(calls)) = Len(calls) - 1
         /\ \A i \in 1..(Len(calls) - 1) : Front(calls)[i] = calls[i]
         /\ Last(calls) = calls[Len(calls)]
BY DEF Last, Front

LEMMA ResettingTyped ==
  ASSUME GroupTypeOK, NEW g \in Groups
  PROVE  Resetting(g) \in ResetFrames
BY DEF GroupTypeOK, Resetting, ResetFrames, Below

(* The innermost resetAll(), one parameter or one group further.              *)
LEMMA AdvancedTyped ==
  ASSUME NEW f \in ResetFrames
  PROVE  /\ f.left # <<>> => /\ Head(f.left) \in Params
                             /\ [f EXCEPT !.left = Tail(@)] \in ResetFrames
         /\ f.below # <<>> => /\ Head(f.below) \in Groups
                              /\ [f EXCEPT !.below = Tail(@)] \in ResetFrames
<1>1. f.left \in Seq(Params) /\ f.below \in Seq(Groups)
  BY DEF ResetFrames
<1>2. f.left # <<>> => Head(f.left) \in Params /\ Tail(f.left) \in Seq(Params)
  BY <1>1
<1>3. f.below # <<>> => Head(f.below) \in Groups /\ Tail(f.below) \in Seq(Groups)
  BY <1>1
<1> QED
  BY <1>2, <1>3 DEF ResetFrames

LEMMA ResetFramesAreFrames == ResetFrames \subseteq Frames
BY DEF ResetFrames, Frames

LEMMA ContinueKeeps ==
  ASSUME ValuesInv, GroupTypeOK, Continue
  PROVE  ValuesInv'
<1>1. calls # <<>> /\ calls \in Seq(Frames)
  BY DEF Continue, ReturnFromCallback, FinishReset, ResetNext, Descend, ReturnFromResetAll, ValuesInv, Typed
<1>2. Last(calls) \in Frames /\ Front(calls) \in Seq(Frames)
  BY <1>1, TopTyped
<1>3. CASE ReturnFromCallback \/ ReturnFromResetAll
  BY <1>2, <1>3, PlainKeeps DEF ReturnFromCallback, ReturnFromResetAll
<1>4. CASE FinishReset
  <2>1. PICK p \in Params : p = Last(calls).param
    BY <1>2, <1>4, FrameKinds DEF FinishReset
  <2>2. object[p] \in Fields /\ Legal(object[p], kind[p], Lost(p)) /\ Lost(p) \in SUBSET Losses
    BY NoneLost DEF ValuesInv, Typed, AllLegal
  <2> DEFINE o == [object[p] EXCEPT !.smoothed = object[p].value]
  <2>3. /\ o \in Fields /\ o.value = object[p].value /\ o.lo = object[p].lo
        /\ o.hi = object[p].hi /\ o.step = object[p].step /\ o.smoothed = object[p].value
    BY <2>2 DEF Fields
  <2>4. /\ object' = [object EXCEPT ![p] = o] /\ lapsed' = lapsed \ Pairs(p, {"smooth"})
        /\ kind' = kind /\ heard' = heard /\ calls' \in Seq(Frames)
    BY <1>2, <1>4, <2>1 DEF FinishReset
  <2> HIDE DEF o
  <2>5. Legal(o, kind[p], Lost(p) \ {"smooth"})
    BY <2>2, <2>3 DEF Legal, Bounded, Empty, Inside
  <2> QED
    BY <2>3, <2>4, <2>5, ChangeKeeps
<1>5. CASE ResetNext
  <2>1. Last(calls) \in ResetFrames /\ Last(calls).left # <<>>
    BY <1>2, <1>5, FrameKinds DEF ResetNext
  <2>2. /\ Head(Last(calls).left) \in Params
        /\ [Last(calls) EXCEPT !.left = Tail(@)] \in Frames
    BY <2>1, AdvancedTyped, ResetFramesAreFrames
  <2>3. Append(Front(calls), [Last(calls) EXCEPT !.left = Tail(@)]) \in Seq(Frames)
    BY <1>2, <2>2
  <2> QED
    BY <1>5, <2>2, <2>3, ResetParamKeeps DEF ResetNext
<1>6. CASE Descend
  <2>1. Last(calls) \in ResetFrames /\ Last(calls).below # <<>>
    BY <1>2, <1>6, FrameKinds DEF Descend
  <2>2. /\ Head(Last(calls).below) \in Groups
        /\ [Last(calls) EXCEPT !.below = Tail(@)] \in Frames
    BY <2>1, AdvancedTyped, ResetFramesAreFrames
  <2>3. Resetting(Head(Last(calls).below)) \in Frames
    BY <2>2, ResettingTyped, ResetFramesAreFrames
  <2>4. calls' \in Seq(Frames)
    BY <1>2, <1>6, <2>2, <2>3 DEF Descend
  <2> QED
    BY <1>6, <2>4, PlainKeeps DEF Descend
<1> QED
  BY <1>3, <1>4, <1>5, <1>6 DEF Continue

LEMMA ValuesStart == Init => ValuesInv
<1> SUFFICES ASSUME Init PROVE ValuesInv
  OBVIOUS
<1>1. PICK m \in Makings : kind = [p \in Params |-> m[p].kind] /\ object = [p \in Params |-> New(m[p])]
  BY DEF Init
<1>2. \A p \in Params : m[p] \in Making
  BY ParametersAssumption
<1>3. \A p \in Params : Lost(p) = {}
  BY DEF Init, Lost
<1>4. AllLegal
  BY <1>1, <1>2, <1>3, LegalNew DEF AllLegal
<1>5. Typed
  <2>1. kind \in [Params -> Kinds] /\ object \in [Params -> Fields]
    BY <1>1, <1>4 DEF AllLegal, Legal
  <2> QED
    BY <2>1 DEF Init, Typed
<1>6. HeardIsCurrent
  BY DEF Init, HeardIsCurrent
<1> QED
  BY <1>4, <1>5, <1>6 DEF ValuesInv

LEMMA ValuesStep ==
  ASSUME ValuesInv, GroupTypeOK, [Next]_vars
  PROVE  ValuesInv'
<1>1. CASE Continue
  BY <1>1, ContinueKeeps
<1>2. CASE ChangeGroups \/ UNCHANGED vars
  BY <1>2, PlainKeeps DEF ChangeGroups, vars, ValuesInv, Typed
<1>3. ASSUME NEW p \in Params, Call(p) PROVE ValuesInv'
  BY <1>3, CallKeeps
<1>4. ASSUME NEW g \in Groups, ResetAll(g) PROVE ValuesInv'
  <2>1. calls' \in Seq(Frames)
    BY <1>4, ResettingTyped, ResetFramesAreFrames DEF ResetAll, ValuesInv, Typed
  <2> QED
    BY <1>4, <2>1, PlainKeeps DEF ResetAll
<1> QED
  BY <1>1, <1>2, <1>3, <1>4 DEF Next

-----------------------------------------------------------------------------
(* The indices: a position of each entry, and an entry at each position.      *)
Exact(index, k) ==
  /\ DOMAIN index \subseteq Names /\ index \in [DOMAIN index -> 1..k]
  /\ \A m, n \in DOMAIN index : index[m] = index[n] => m = n
  /\ \A i \in 1..k : \E n \in DOMAIN index : index[n] = i

LEMMA WithExact ==
  ASSUME NEW k \in Nat, NEW index, Exact(index, k), NEW n \in Names \ DOMAIN index, NEW top, top = k + 1
  PROVE  /\ Exact(With(index, n, top), top)
         /\ DOMAIN With(index, n, top) = DOMAIN index \union {n}
         /\ \A m \in DOMAIN index \union {n} : With(index, n, top)[m] = IF m = n THEN top ELSE index[m]
<1> DEFINE w == With(index, n, top)
           D == DOMAIN index \union {n}
<1>1. DOMAIN w = D /\ \A m \in D : w[m] = IF m = n THEN top ELSE index[m]
  BY DEF With
<1>2. \A m \in DOMAIN index : index[m] \in 1..k /\ m # n
  BY DEF Exact
<1>3. w \in [D -> 1..top]
  <2>1. \A m \in D : w[m] \in 1..top
    BY <1>1, <1>2
  <2> QED
    BY <1>1, <2>1 DEF With
<1>4. D \subseteq Names
  BY DEF Exact
<1>5. \A a, b \in D : w[a] = w[b] => a = b
  BY <1>1, <1>2 DEF Exact
<1>6. ASSUME NEW i \in 1..top PROVE \E m \in D : w[m] = i
  <2>1. CASE i = top
    BY <1>1, <2>1
  <2>2. CASE i # top
    <3>1. i \in 1..k
      BY <2>2
    <3>2. PICK m \in DOMAIN index : index[m] = i
      BY <3>1 DEF Exact
    <3> QED
      BY <1>1, <1>2, <3>2
  <2> QED
    BY <2>1, <2>2
<1> HIDE DEF w, D
<1>7. Exact(w, top)
  BY <1>1, <1>3, <1>4, <1>5, <1>6 DEF Exact
<1> QED
  BY <1>1, <1>7 DEF w, D

LEMMA WithoutExact ==
  ASSUME NEW k \in Nat, NEW index, Exact(index, k), NEW n \in DOMAIN index
  PROVE  /\ k > 0 /\ index[n] \in 1..k
         /\ Exact(Without(index, n), k - 1)
         /\ DOMAIN Without(index, n) = DOMAIN index \ {n}
         /\ \A m \in DOMAIN index \ {n} :
              /\ index[m] # index[n] /\ index[m] \in 1..k
              /\ Without(index, n)[m] = IF index[m] > index[n] THEN index[m] - 1 ELSE index[m]
<1> DEFINE w == Without(index, n)
           D == DOMAIN index \ {n}
<1>1. DOMAIN w = D /\ \A m \in D : w[m] = IF index[m] > index[n] THEN index[m] - 1 ELSE index[m]
  BY DEF Without
<1>2. \A m \in DOMAIN index : index[m] \in 1..k
  BY DEF Exact
<1>3. k > 0 /\ index[n] \in 1..k /\ \A m \in D : index[m] # index[n]
  BY <1>2 DEF Exact
<1>4. w \in [D -> 1..(k - 1)]
  <2>1. \A m \in D : w[m] \in 1..(k - 1)
    BY <1>1, <1>2, <1>3
  <2> QED
    BY <1>1, <2>1 DEF Without
<1>5. D \subseteq Names
  BY DEF Exact
<1>6. \A a, b \in D : w[a] = w[b] => a = b
  <2>1. \A a, b \in D : w[a] = w[b] => index[a] = index[b]
    BY <1>1, <1>2, <1>3
  <2> QED
    BY <2>1 DEF Exact
<1>7. ASSUME NEW i \in 1..(k - 1) PROVE \E m \in D : w[m] = i
  <2> DEFINE j == IF i < index[n] THEN i ELSE i + 1
  <2>1. j \in 1..k /\ j # index[n]
    BY <1>3
  <2>2. PICK m \in DOMAIN index : index[m] = j
    BY <2>1 DEF Exact
  <2>3. m \in D
    BY <2>1, <2>2
  <2>4. w[m] = i
    BY <1>1, <1>3, <2>2, <2>3
  <2> QED
    BY <2>3, <2>4
<1> HIDE DEF w, D
<1>8. Exact(w, k - 1)
  BY <1>1, <1>4, <1>5, <1>6, <1>7 DEF Exact
<1> QED
  BY <1>1, <1>2, <1>3, <1>8 DEF w, D

LEMMA EmptyExact == Exact(<<>>, 0)
BY DEF Exact

(* The vector an entry was erased from.                                       *)
LEMMA RemoveAtShifts ==
  ASSUME NEW T, NEW s \in Seq(T), NEW i \in 1..Len(s)
  PROVE  /\ RemoveAt(s, i) \in Seq(T) /\ Len(RemoveAt(s, i)) = Len(s) - 1
         /\ \A j \in 1..(Len(s) - 1) : RemoveAt(s, i)[j] = s[IF j < i THEN j ELSE j + 1]
<1> DEFINE a == SubSeq(s, 1, i - 1)
           b == SubSeq(s, i + 1, Len(s))
<1>1. a \in Seq(T) /\ Len(a) = i - 1 /\ \A j \in 1..(i - 1) : a[j] = s[j]
  OBVIOUS
<1>2. b \in Seq(T) /\ Len(b) = Len(s) - i /\ \A j \in 1..(Len(s) - i) : b[j] = s[i + j]
  OBVIOUS
<1>3. RemoveAt(s, i) = a \o b
  BY DEF RemoveAt
<1> HIDE DEF a, b
<1>4. Len(s) \in Nat /\ i \in Int
  OBVIOUS
<1>6. /\ a \o b \in Seq(T) /\ Len(a \o b) = Len(a) + Len(b)
      /\ \A j \in 1..(Len(a) + Len(b)) : (a \o b)[j] = IF j <= Len(a) THEN a[j] ELSE b[j - Len(a)]
  BY <1>1, <1>2, ConcatProperties
<1>7. Len(a) + Len(b) = Len(s) - 1
  BY <1>1, <1>2, <1>4
<1>5. ASSUME NEW j \in 1..(Len(s) - 1) PROVE (a \o b)[j] = s[IF j < i THEN j ELSE j + 1]
  <2>1. (a \o b)[j] = IF j <= i - 1 THEN a[j] ELSE b[j - (i - 1)]
    BY <1>1, <1>6, <1>7
  <2>2. CASE j < i
    BY <1>1, <1>4, <2>1, <2>2
  <2>3. CASE ~(j < i)
    <3>1. j - (i - 1) \in 1..(Len(s) - i) /\ i + (j - (i - 1)) = j + 1 /\ ~(j <= i - 1)
      BY <1>4, <2>3
    <3> QED
      BY <1>2, <2>1, <2>3, <3>1
  <2> QED
    BY <2>2, <2>3
<1> QED
  BY <1>3, <1>5, <1>6, <1>7

-----------------------------------------------------------------------------
(* Trees of groups, for any ownership f.                                      *)
OwnedIn(f, S) == UNION {Range(f[g]) : g \in S}
Closed(f, S) == S \subseteq Groups /\ OwnedIn(f, S) \subseteq S
TreeIn(f, g) == {h \in Groups : \A S \in SUBSET Groups : g \in S /\ OwnedIn(f, S) \subseteq S => h \in S}

LEMMA TreeInGroups ==
  ASSUME NEW g
  PROVE  Tree(g) = TreeIn(groups, g) /\ \A S : Owned(S) = OwnedIn(groups, S)
BY DEF Tree, Owned, TreeIn, OwnedIn

LEMMA TreeLeast ==
  ASSUME NEW f, NEW g, NEW S, Closed(f, S), g \in S
  PROVE  TreeIn(f, g) \subseteq S
BY DEF TreeIn, Closed

LEMMA TreeHas ==
  ASSUME NEW f, NEW g \in Groups
  PROVE  g \in TreeIn(f, g) /\ TreeIn(f, g) \subseteq Groups
BY DEF TreeIn

LEMMA TreeClosed ==
  ASSUME NEW f \in [Groups -> Seq(Groups)], NEW g \in Groups
  PROVE  Closed(f, TreeIn(f, g))
<1>1. \A x \in Groups : Range(f[x]) \subseteq Groups
  BY DEF Range
<1>2. ASSUME NEW x \in TreeIn(f, g), NEW h \in Range(f[x]), NEW S \in SUBSET Groups,
             g \in S, OwnedIn(f, S) \subseteq S
      PROVE  h \in S
  <2>1. x \in S
    BY <1>2 DEF TreeIn
  <2> QED
    BY <1>2, <2>1 DEF OwnedIn
<1>3. ASSUME NEW x \in TreeIn(f, g), NEW h \in Range(f[x]) PROVE h \in TreeIn(f, g)
  <2>1. x \in Groups
    BY DEF TreeIn
  <2>2. h \in Groups
    BY <1>1, <1>3, <2>1
  <2> QED
    BY <1>2, <2>2 DEF TreeIn
<1> QED
  BY <1>3, TreeHas DEF Closed, OwnedIn

(* A tree is its root and the trees of the groups the root owns.              *)
LEMMA TreeUnfold ==
  ASSUME NEW f \in [Groups -> Seq(Groups)], NEW g \in Groups
  PROVE  TreeIn(f, g) \subseteq {g} \union UNION {TreeIn(f, h) : h \in Range(f[g])}
<1> DEFINE S == {g} \union UNION {TreeIn(f, h) : h \in Range(f[g])}
<1>1. \A h \in Range(f[g]) : h \in Groups
  BY DEF Range
<1>2. \A h \in Range(f[g]) : h \in TreeIn(f, h) /\ TreeIn(f, h) \subseteq Groups /\ OwnedIn(f, TreeIn(f, h)) \subseteq TreeIn(f, h)
  BY <1>1, TreeHas, TreeClosed DEF Closed
<1>3. S \subseteq Groups
  BY <1>2
<1>4. ASSUME NEW x \in S, NEW y \in Range(f[x]) PROVE y \in S
  <2>1. CASE x = g
    BY <1>2, <1>4, <2>1
  <2>2. CASE x # g
    <3>1. PICK h \in Range(f[g]) : x \in TreeIn(f, h)
      BY <1>4, <2>2
    <3>2. y \in OwnedIn(f, TreeIn(f, h))
      BY <1>4, <3>1 DEF OwnedIn
    <3> QED
      BY <1>2, <3>1, <3>2
  <2> QED
    BY <2>1, <2>2
<1>5. Closed(f, S) /\ g \in S
  BY <1>3, <1>4 DEF Closed, OwnedIn
<1> HIDE DEF S
<1>6. TreeIn(f, g) \subseteq S
  BY <1>5, TreeLeast
<1> QED
  BY <1>6 DEF S

(* No group is in a tree below itself: when groups are taken away, and when a *)
(* group nobody owns is given to one outside of its tree.                     *)
Acyclic(f) == \A g \in Groups : g \notin OwnedIn(f, TreeIn(f, g))

LEMMA AcyclicWithLess ==
  ASSUME NEW f \in [Groups -> Seq(Groups)], Acyclic(f), NEW e,
         \A g \in Groups : Range(e[g]) \subseteq Range(f[g])
  PROVE  Acyclic(e)
<1> SUFFICES ASSUME NEW g \in Groups PROVE g \notin OwnedIn(e, TreeIn(e, g))
  BY DEF Acyclic
<1>1. TreeIn(f, g) \subseteq Groups /\ g \in TreeIn(f, g) /\ OwnedIn(f, TreeIn(f, g)) \subseteq TreeIn(f, g)
  BY TreeHas, TreeClosed DEF Closed
<1>2. OwnedIn(e, TreeIn(f, g)) \subseteq OwnedIn(f, TreeIn(f, g))
  BY <1>1 DEF OwnedIn
<1>3. Closed(e, TreeIn(f, g))
  BY <1>1, <1>2 DEF Closed
<1>4. TreeIn(e, g) \subseteq TreeIn(f, g)
  BY <1>1, <1>3, TreeLeast
<1>5. OwnedIn(e, TreeIn(e, g)) \subseteq OwnedIn(f, TreeIn(f, g))
  BY <1>2, <1>4 DEF OwnedIn
<1> QED
  BY <1>5 DEF Acyclic

LEMMA AcyclicWithMore ==
  ASSUME NEW f \in [Groups -> Seq(Groups)], Acyclic(f), NEW g \in Groups, NEW h \in Groups,
         g \notin TreeIn(f, h), NEW e,
         \A x \in Groups : Range(e[x]) = IF x = g THEN Range(f[g]) \union {h} ELSE Range(f[x])
  PROVE  Acyclic(e)
<1> SUFFICES ASSUME NEW k \in Groups PROVE k \notin OwnedIn(e, TreeIn(e, k))
  BY DEF Acyclic
<1> DEFINE T == TreeIn(f, k)
           H == TreeIn(f, h)
<1>1. T \subseteq Groups /\ k \in T /\ OwnedIn(f, T) \subseteq T /\ k \notin OwnedIn(f, T)
  BY TreeHas, TreeClosed DEF Closed, Acyclic
<1>2. H \subseteq Groups /\ h \in H /\ OwnedIn(f, H) \subseteq H /\ g \notin H
  BY TreeHas, TreeClosed DEF Closed
<1>3. k \in H => T \subseteq H
  BY <1>2, TreeLeast DEF Closed
<1> HIDE DEF T, H
<1>4. CASE g \notin T
  <2>1. OwnedIn(e, T) = OwnedIn(f, T)
    BY <1>1, <1>4 DEF OwnedIn
  <2>2. TreeIn(e, k) \subseteq T
    BY <1>1, <2>1, TreeLeast DEF Closed
  <2>3. OwnedIn(e, TreeIn(e, k)) \subseteq OwnedIn(e, T)
    BY <2>2 DEF OwnedIn
  <2> QED
    BY <1>1, <2>1, <2>3
<1>5. CASE g \in T
  <2> DEFINE S == T \union H
  <2>1. OwnedIn(e, S) \subseteq OwnedIn(f, T) \union OwnedIn(f, H) \union {h}
    <3>1. ASSUME NEW x \in S, NEW y \in Range(e[x])
          PROVE  y \in OwnedIn(f, T) \union OwnedIn(f, H) \union {h}
      <4>1. x \in T \/ x \in H
        OBVIOUS
      <4>2. y \in Range(f[x]) \/ y = h
        BY <1>1, <1>2, <3>1, <4>1
      <4> QED
        BY <4>1, <4>2 DEF OwnedIn
    <3> HIDE DEF S
    <3>2. ASSUME NEW y \in OwnedIn(e, S) PROVE \E x \in S : y \in Range(e[x])
      BY DEF OwnedIn
    <3> QED
      BY <3>1, <3>2
  <2>2. Closed(e, S) /\ k \in S
    BY <1>1, <1>2, <2>1 DEF Closed
  <2> HIDE DEF S
  <2>3. TreeIn(e, k) \subseteq S
    BY <2>2, TreeLeast
  <2>4. OwnedIn(e, TreeIn(e, k)) \subseteq OwnedIn(e, S)
    BY <2>3 DEF OwnedIn
  <2>5. k \notin H
    BY <1>2, <1>3, <1>5
  <2> QED
    BY <1>1, <1>2, <2>1, <2>4, <2>5
<1> QED
  BY <1>4, <1>5

-----------------------------------------------------------------------------
(* The groups between calls: every index is exact, every parameter is under   *)
(* its own name, every group has one place in one group, and none is below    *)
(* itself.                                                                    *)
Named(s, index) == Exact(index, Len(s)) /\ \A n \in DOMAIN index : NameOf[s[index[n]]] = n
Owners(f) ==
  \A g, h \in Groups : \A i \in 1..Len(f[g]), j \in 1..Len(f[h]) : f[g][i] = f[h][j] => g = h /\ i = j

GroupTypes ==
  /\ name \in [Groups -> Names]
  /\ parameters \in [Groups -> Seq(Params)] /\ groups \in [Groups -> Seq(Groups)]
  /\ DOMAIN parameterIndex = Groups /\ DOMAIN groupIndex = Groups
IndicesExact ==
  \A g \in Groups : Named(parameters[g], parameterIndex[g]) /\ Exact(groupIndex[g], Len(groups[g]))
GroupInv == GroupTypes /\ IndicesExact /\ Owners(groups) /\ Acyclic(groups)

LEMMA NamedWith ==
  ASSUME NEW s \in Seq(Params), NEW index, Named(s, index), NEW p \in Params, NameOf[p] \notin DOMAIN index,
         NEW top, top = Len(s) + 1
  PROVE  Named(Append(s, p), With(index, NameOf[p], top))
<1> DEFINE n == NameOf[p]
           w == With(index, n, top)
<1>1. Len(s) \in Nat /\ n \in Names \ DOMAIN index /\ Exact(index, Len(s))
  BY GroupAssumption DEF Named
<1> HIDE DEF n
<1>2. /\ Exact(w, top) /\ DOMAIN w = DOMAIN index \union {n}
      /\ \A m \in DOMAIN index \union {n} : w[m] = IF m = n THEN top ELSE index[m]
  <2>1. Exact(w, top)
    BY <1>1, WithExact
  <2>2. DOMAIN w = DOMAIN index \union {n} /\ \A m \in DOMAIN index \union {n} : w[m] = IF m = n THEN top ELSE index[m]
    BY DEF With
  <2> QED
    BY <2>1, <2>2
<1> HIDE DEF w
<1>3. Len(Append(s, p)) = top /\ Append(s, p)[top] = p
      /\ \A i \in 1..Len(s) : Append(s, p)[i] = s[i]
  OBVIOUS
<1>4. \A m \in DOMAIN index : index[m] \in 1..Len(s)
  BY DEF Named, Exact
<1>5. ASSUME NEW m \in DOMAIN w PROVE NameOf[Append(s, p)[w[m]]] = m
  BY <1>1, <1>2, <1>3, <1>4 DEF Named, n
<1> QED
  BY <1>2, <1>3, <1>5 DEF Named, n, w

LEMMA NamedWithout ==
  ASSUME NEW s \in Seq(Params), NEW index, Named(s, index), NEW n \in DOMAIN index
  PROVE  Named(RemoveAt(s, index[n]), Without(index, n))
<1> DEFINE w == Without(index, n)
           r == RemoveAt(s, index[n])
           i == index[n]
<1>1. Len(s) \in Nat
  OBVIOUS
<1>2. /\ i \in 1..Len(s) /\ Exact(w, Len(s) - 1) /\ DOMAIN w = DOMAIN index \ {n}
      /\ \A m \in DOMAIN index \ {n} : /\ index[m] # i /\ index[m] \in 1..Len(s)
                                       /\ w[m] = IF index[m] > i THEN index[m] - 1 ELSE index[m]
  BY <1>1, WithoutExact DEF Named
<1> HIDE DEF w, i
<1>3. Len(r) = Len(s) - 1 /\ \A j \in 1..(Len(s) - 1) : r[j] = s[IF j < i THEN j ELSE j + 1]
  BY <1>2, RemoveAtShifts DEF i
<1> HIDE DEF r
<1>4. ASSUME NEW m \in DOMAIN w PROVE NameOf[r[w[m]]] = m
  <2>1. w[m] \in 1..(Len(s) - 1) /\ (IF w[m] < i THEN w[m] ELSE w[m] + 1) = index[m]
    BY <1>1, <1>2
  <2>2. r[w[m]] = s[index[m]]
    BY <1>3, <2>1
  <2> QED
    BY <1>2, <2>2 DEF Named
<1>5. Named(r, w)
  BY <1>2, <1>3, <1>4 DEF Named
<1> QED
  BY <1>5 DEF w, r

LEMMA NamedEmpty == Named(<<>>, <<>>)
BY EmptyExact DEF Named

LEMMA SeqRange ==
  ASSUME NEW T, NEW s \in Seq(T)
  PROVE  /\ Range(s) \subseteq T
         /\ \A x : x \in Range(s) <=> \E i \in 1..Len(s) : s[i] = x
<1>1. DOMAIN s = 1..Len(s) /\ \A i \in 1..Len(s) : s[i] \in T
  OBVIOUS
<1> QED
  BY <1>1 DEF Range

(* A group takes another one nobody owns.                                     *)
LEMMA OwnersWith ==
  ASSUME NEW f \in [Groups -> Seq(Groups)], Owners(f), NEW g \in Groups, NEW h \in Groups,
         \A x \in Groups : h \notin Range(f[x])
  PROVE  /\ Owners([f EXCEPT ![g] = Append(@, h)])
         /\ \A x \in Groups : Range([f EXCEPT ![g] = Append(@, h)][x])
                                 = IF x = g THEN Range(f[g]) \union {h} ELSE Range(f[x])
<1> DEFINE e == [f EXCEPT ![g] = Append(@, h)]
<1>1. \A x \in Groups : e[x] = IF x = g THEN Append(f[g], h) ELSE f[x]
  OBVIOUS
<1>2. /\ f[g] \in Seq(Groups) /\ Len(f[g]) \in Nat /\ Append(f[g], h) \in Seq(Groups)
      /\ Len(Append(f[g], h)) = Len(f[g]) + 1
      /\ \A i \in 1..(Len(f[g]) + 1) : Append(f[g], h)[i] = IF i = Len(f[g]) + 1 THEN h ELSE f[g][i]
  OBVIOUS
<1>3. \A x \in Groups : \A i \in 1..Len(f[x]) : f[x][i] # h
  BY SeqRange
<1> HIDE DEF e
<1>4. ASSUME NEW x \in Groups, NEW i \in 1..Len(e[x])
      PROVE  (x = g /\ i = Len(f[g]) + 1 /\ e[x][i] = h) \/ (i \in 1..Len(f[x]) /\ e[x][i] = f[x][i])
  <2>1. CASE x = g
    <3>1. i \in 1..(Len(f[g]) + 1) /\ e[x][i] = IF i = Len(f[g]) + 1 THEN h ELSE f[g][i]
      BY <1>1, <1>2, <2>1
    <3> QED
      BY <1>2, <2>1, <3>1
  <2>2. CASE x # g
    BY <1>1, <2>2
  <2> QED
    BY <2>1, <2>2
<1>5. ASSUME NEW x \in Groups, NEW y \in Groups, NEW i \in 1..Len(e[x]), NEW j \in 1..Len(e[y]), e[x][i] = e[y][j]
      PROVE  x = y /\ i = j
  <2>1. CASE i \in 1..Len(f[x]) /\ e[x][i] = f[x][i] /\ j \in 1..Len(f[y]) /\ e[y][j] = f[y][j]
    <3>1. f[x][i] = f[y][j]
      BY <1>5, <2>1
    <3> QED
      BY <2>1, <3>1 DEF Owners
  <2> QED
    BY <1>3, <1>4, <1>5, <2>1
<1>6. Range(Append(f[g], h)) = Range(f[g]) \union {h}
  <2>1. \A x : x \in Range(Append(f[g], h)) <=> \E i \in 1..(Len(f[g]) + 1) : Append(f[g], h)[i] = x
    <3>1. DOMAIN Append(f[g], h) = 1..(Len(f[g]) + 1)
      BY <1>2
    <3> QED
      BY <3>1 DEF Range
  <2>2. \A x : x \in Range(f[g]) <=> \E i \in 1..Len(f[g]) : f[g][i] = x
    BY <1>2 DEF Range
  <2>3. ASSUME NEW x PROVE x \in Range(Append(f[g], h)) <=> x \in Range(f[g]) \union {h}
    <3>1. \A i \in 1..(Len(f[g]) + 1) : i \in 1..Len(f[g]) \/ i = Len(f[g]) + 1
      BY <1>2
    <3>2. ASSUME x \in Range(Append(f[g], h)) PROVE x \in Range(f[g]) \union {h}
      <4>1. PICK i \in 1..(Len(f[g]) + 1) : Append(f[g], h)[i] = x
        BY <2>1, <3>2
      <4> QED
        BY <1>2, <2>2, <3>1, <4>1
    <3>3. ASSUME x \in Range(f[g]) PROVE x \in Range(Append(f[g], h))
      <4>1. PICK i \in 1..Len(f[g]) : f[g][i] = x
        BY <2>2, <3>3
      <4>2. i \in 1..(Len(f[g]) + 1) /\ i # Len(f[g]) + 1
        BY <1>2
      <4> QED
        BY <1>2, <2>1, <4>1, <4>2
    <3>4. h \in Range(Append(f[g], h))
      <4>1. Len(f[g]) + 1 \in 1..(Len(f[g]) + 1)
        BY <1>2
      <4> QED
        BY <1>2, <2>1, <4>1
    <3> QED
      BY <3>2, <3>3, <3>4
  <2> QED
    BY <2>3
<1>7. Owners(e)
  BY <1>5 DEF Owners
<1> QED
  BY <1>1, <1>6, <1>7 DEF e

LEMMA RangeMembers ==
  ASSUME NEW S, NEW s \in Seq(S)
  PROVE  \A y : y \in Range(s) <=> \E i \in 1..Len(s) : s[i] = y
  BY DEF Range

(* A group loses one of those it has, and groups are emptied.                 *)
LEMMA OwnersWithLess ==
  ASSUME NEW f \in [Groups -> Seq(Groups)], Owners(f), NEW e, NEW k,
         \A x \in Groups : e[x] \in {<<>>, f[x]} \/ (k \in 1..Len(f[x]) /\ e[x] = RemoveAt(f[x], k))
  PROVE  Owners(e) /\ \A x \in Groups : Range(e[x]) \subseteq Range(f[x]) /\ e[x] \in Seq(Groups)
<1>1. ASSUME NEW x \in Groups, NEW i \in 1..Len(e[x])
      PROVE  \E m \in 1..Len(f[x]) :
               /\ e[x][i] = f[x][m]
               /\ \/ m = i /\ e[x] = f[x]
                  \/ m = (IF i < k THEN i ELSE i + 1) /\ e[x] = RemoveAt(f[x], k) /\ k \in 1..Len(f[x])
  <2>1. f[x] \in Seq(Groups) /\ Len(f[x]) \in Nat
    OBVIOUS
  <2>2. e[x] # <<>>
    OBVIOUS
  <2>3. CASE e[x] = f[x]
    BY <2>3
  <2>4. CASE k \in 1..Len(f[x]) /\ e[x] = RemoveAt(f[x], k)
    <3>1. Len(e[x]) = Len(f[x]) - 1 /\ e[x][i] = f[x][IF i < k THEN i ELSE i + 1]
      <4>1. /\ Len(RemoveAt(f[x], k)) = Len(f[x]) - 1
            /\ \A j \in 1..(Len(f[x]) - 1) : RemoveAt(f[x], k)[j] = f[x][IF j < k THEN j ELSE j + 1]
        BY <2>1, <2>4, RemoveAtShifts
      <4>2. i \in 1..(Len(f[x]) - 1)
        BY <2>4, <4>1
      <4> QED
        BY <2>4, <4>1, <4>2
    <3>2. (IF i < k THEN i ELSE i + 1) \in 1..Len(f[x])
      BY <2>1, <2>4, <3>1
    <3> QED
      BY <2>4, <3>1, <3>2
  <2> QED
    BY <2>2, <2>3, <2>4
<1>2. ASSUME NEW x \in Groups PROVE e[x] \in Seq(Groups)
  <2>1. f[x] \in Seq(Groups)
    OBVIOUS
  <2> QED
    <3>1. <<>> \in Seq(Groups)
      OBVIOUS
    <3>2. k \in 1..Len(f[x]) => RemoveAt(f[x], k) \in Seq(Groups)
      BY <2>1, RemoveAtShifts
    <3> QED
      BY <2>1, <3>1, <3>2
<1>3. ASSUME NEW x \in Groups PROVE Range(e[x]) \subseteq Range(f[x])
  <2>1. f[x] \in Seq(Groups)
    OBVIOUS
  <2> QED
    <3>1. \A y : y \in Range(e[x]) <=> \E i \in 1..Len(e[x]) : e[x][i] = y
      BY <1>2, RangeMembers
    <3>2. \A y : y \in Range(f[x]) <=> \E i \in 1..Len(f[x]) : f[x][i] = y
      BY <2>1, RangeMembers
    <3> QED
      BY <1>1, <3>1, <3>2
<1>4. ASSUME NEW x \in Groups, NEW y \in Groups, NEW i \in 1..Len(e[x]), NEW j \in 1..Len(e[y]), e[x][i] = e[y][j]
      PROVE  x = y /\ i = j
  <2>1. PICK m \in 1..Len(f[x]) :
               /\ e[x][i] = f[x][m]
               /\ \/ m = i /\ e[x] = f[x]
                  \/ m = (IF i < k THEN i ELSE i + 1) /\ e[x] = RemoveAt(f[x], k) /\ k \in 1..Len(f[x])
    BY <1>1
  <2>2. PICK n \in 1..Len(f[y]) :
               /\ e[y][j] = f[y][n]
               /\ \/ n = j /\ e[y] = f[y]
                  \/ n = (IF j < k THEN j ELSE j + 1) /\ e[y] = RemoveAt(f[y], k) /\ k \in 1..Len(f[y])
    BY <1>1
  <2>3. f[x][m] = f[y][n]
    BY <1>4, <2>1, <2>2
  <2>4. x = y /\ m = n
    BY <2>3 DEF Owners
  <2>5. f[x] \in Seq(Groups) /\ Len(f[x]) \in Nat
    OBVIOUS
  <2>6. k \in 1..Len(f[x]) => Len(RemoveAt(f[x], k)) # Len(f[x])
    BY <2>5, RemoveAtShifts
  <2> QED
    BY <2>1, <2>2, <2>4, <2>5, <2>6
<1> QED
  BY <1>2, <1>3, <1>4 DEF Owners

LEMMA GroupStart == GroupInit => GroupInv
<1> SUFFICES ASSUME GroupInit PROVE GroupInv
  OBVIOUS
<1>1. GroupTypes
  BY DEF GroupInit, GroupTypes
<1>2. \A g \in Groups : parameters[g] = <<>> /\ parameterIndex[g] = <<>> /\ groups[g] = <<>> /\ groupIndex[g] = <<>>
  BY DEF GroupInit
<1>3. Len(<<>>) = 0 /\ Range(<<>>) = {}
  BY DEF Range
<1>4. IndicesExact
  BY <1>2, <1>3, EmptyExact, NamedEmpty DEF IndicesExact
<1>5. Owners(groups)
  BY <1>2, <1>3 DEF Owners
<1>6. Acyclic(groups)
  <2>1. \A g \in Groups : TreeIn(groups, g) \subseteq Groups
    BY DEF TreeIn
  <2>2. \A g \in Groups : OwnedIn(groups, TreeIn(groups, g)) = {}
    BY <1>2, <1>3, <2>1 DEF OwnedIn
  <2> QED
    BY <2>2 DEF Acyclic
<1> QED
  BY <1>1, <1>4, <1>5, <1>6 DEF GroupInv

LEMMA GroupParts ==
  ASSUME GroupInv, NEW g \in Groups
  PROVE  /\ parameters[g] \in Seq(Params) /\ groups[g] \in Seq(Groups)
         /\ Len(parameters[g]) \in Nat /\ Len(groups[g]) \in Nat
         /\ Named(parameters[g], parameterIndex[g]) /\ Exact(groupIndex[g], Len(groups[g]))
BY DEF GroupInv, GroupTypes, IndicesExact

LEMMA AddParameterKeeps ==
  ASSUME GroupInv, NEW g \in Groups, NEW p \in Params, AddParameter(g, p)
  PROVE  GroupInv'
<1> DEFINE s == Append(parameters[g], p)
           w == With(parameterIndex[g], NameOf[p], Len(parameters[g]) + 1)
<1>1. parameters' = [parameters EXCEPT ![g] = s] /\ parameterIndex' = [parameterIndex EXCEPT ![g] = w]
      /\ UNCHANGED <<name, groups, groupIndex>>
  BY DEF AddParameter
<1>2. s \in Seq(Params) /\ Named(s, w)
  BY GroupParts, NamedWith DEF AddParameter
<1> HIDE DEF s, w
<1>3. GroupTypes'
  BY <1>1, <1>2 DEF GroupInv, GroupTypes
<1>4. IndicesExact'
  BY <1>1, <1>2 DEF GroupInv, GroupTypes, IndicesExact
<1> QED
  BY <1>1, <1>3, <1>4 DEF GroupInv

LEMMA RemoveParameterKeeps ==
  ASSUME GroupInv, NEW g \in Groups, NEW n \in Names, RemoveParameter(g, n)
  PROVE  GroupInv'
<1> DEFINE s == RemoveAt(parameters[g], parameterIndex[g][n])
           w == Without(parameterIndex[g], n)
<1>1. parameters' = [parameters EXCEPT ![g] = s] /\ parameterIndex' = [parameterIndex EXCEPT ![g] = w]
      /\ UNCHANGED <<name, groups, groupIndex>> /\ n \in DOMAIN parameterIndex[g]
  BY DEF RemoveParameter
<1>2. Named(s, w)
  BY <1>1, GroupParts, NamedWithout
<1>3. s \in Seq(Params)
  <2>1. parameterIndex[g][n] \in 1..Len(parameters[g])
    BY <1>1, GroupParts DEF Named, Exact
  <2> QED
    BY <2>1, GroupParts, RemoveAtShifts
<1> HIDE DEF s, w
<1>4. GroupTypes'
  BY <1>1, <1>3 DEF GroupInv, GroupTypes
<1>5. IndicesExact'
  BY <1>1, <1>2 DEF GroupInv, GroupTypes, IndicesExact
<1> QED
  BY <1>1, <1>4, <1>5 DEF GroupInv

LEMMA AddGroupKeeps ==
  ASSUME GroupInv, NEW g \in Groups, NEW h \in Groups, AddGroup(g, h)
  PROVE  GroupInv'
<1> DEFINE w == With(groupIndex[g], name[h], Len(groups[g]) + 1)
           e == [groups EXCEPT ![g] = Append(@, h)]
<1>1. groups' = e /\ groupIndex' = [groupIndex EXCEPT ![g] = w]
      /\ UNCHANGED <<name, parameters, parameterIndex>>
      /\ name[h] \in Names \ DOMAIN groupIndex[g]
  BY DEF AddGroup, GroupInv, GroupTypes
<1>2. groups \in [Groups -> Seq(Groups)] /\ Owners(groups) /\ Acyclic(groups)
  BY DEF GroupInv, GroupTypes
<1>3. (\A x \in Groups : h \notin Range(groups[x])) /\ g \notin TreeIn(groups, h)
  BY TreeInGroups DEF AddGroup, Free, Owned
<1>4. /\ Owners(e)
      /\ \A x \in Groups : Range(e[x]) = IF x = g THEN Range(groups[g]) \union {h} ELSE Range(groups[x])
  BY <1>2, <1>3, OwnersWith
<1>5. Exact(w, Len(groups[g]) + 1)
  <2> DEFINE top == Len(groups[g]) + 1
  <2>1. top = Len(groups[g]) + 1
    OBVIOUS
  <2> HIDE DEF top
  <2>2. Exact(With(groupIndex[g], name[h], top), top)
    BY <1>1, <2>1, GroupParts, WithExact
  <2> QED
    BY <2>2 DEF top
<1>6. e \in [Groups -> Seq(Groups)] /\ Len(e[g]) = Len(groups[g]) + 1
      /\ \A x \in Groups \ {g} : e[x] = groups[x]
  BY <1>2
<1> HIDE DEF e, w
<1>7. Acyclic(e)
  BY <1>2, <1>3, <1>4, AcyclicWithMore
<1>8. GroupTypes'
  BY <1>1, <1>6 DEF GroupInv, GroupTypes
<1>9. IndicesExact'
  BY <1>1, <1>5, <1>6 DEF GroupInv, GroupTypes, IndicesExact
<1> QED
  BY <1>1, <1>4, <1>7, <1>8, <1>9 DEF GroupInv

LEMMA RemoveGroupKeeps ==
  ASSUME GroupInv, NEW g \in Groups, NEW n \in Names, RemoveGroup(g, n)
  PROVE  GroupInv'
<1> DEFINE i == groupIndex[g][n]
           gone == Tree(groups[g][i])
           w == Without(groupIndex[g], n)
           r == RemoveAt(groups[g], i)
<1>1. /\ n \in DOMAIN groupIndex[g]
      /\ groups' = [x \in Groups |-> IF x \in gone THEN <<>> ELSE [groups EXCEPT ![g] = r][x]]
      /\ groupIndex' = [x \in Groups |-> IF x \in gone THEN <<>> ELSE [groupIndex EXCEPT ![g] = w][x]]
      /\ parameters' = [x \in Groups |-> IF x \in gone THEN <<>> ELSE parameters[x]]
      /\ parameterIndex' = [x \in Groups |-> IF x \in gone THEN <<>> ELSE parameterIndex[x]]
      /\ name' = name
  BY DEF RemoveGroup, Destroyed
<1>2. /\ groups[g] \in Seq(Groups) /\ i \in 1..Len(groups[g]) /\ Exact(w, Len(groups[g]) - 1)
  BY <1>1, GroupParts, WithoutExact
<1>3. r \in Seq(Groups) /\ Len(r) = Len(groups[g]) - 1
  BY <1>2, RemoveAtShifts
<1> HIDE DEF gone
<1>4. \A x \in Groups : groups'[x] \in {<<>>, groups[x]} \/ (i \in 1..Len(groups[x]) /\ groups'[x] = RemoveAt(groups[x], i))
  BY <1>1, <1>2 DEF GroupInv, GroupTypes
<1> HIDE DEF i, w, r
<1>5. Owners(groups') /\ \A x \in Groups : Range(groups'[x]) \subseteq Range(groups[x]) /\ groups'[x] \in Seq(Groups)
  BY <1>4, OwnersWithLess DEF GroupInv, GroupTypes
<1>6. Acyclic(groups')
  BY <1>5, AcyclicWithLess DEF GroupInv, GroupTypes
<1>7. GroupTypes'
  <2>1. groups' \in [Groups -> Seq(Groups)]
    BY <1>1, <1>5
  <2>2. parameters' \in [Groups -> Seq(Params)]
    BY <1>1 DEF GroupInv, GroupTypes
  <2> QED
    BY <1>1, <2>1, <2>2 DEF GroupInv, GroupTypes
<1>8. IndicesExact'
  <2> SUFFICES ASSUME NEW x \in Groups
               PROVE  Named(parameters'[x], parameterIndex'[x]) /\ Exact(groupIndex'[x], Len(groups'[x]))
    BY DEF IndicesExact
  <2>1. CASE x \in gone
    <3>1. /\ parameters'[x] = <<>> /\ parameterIndex'[x] = <<>>
          /\ groups'[x] = <<>> /\ groupIndex'[x] = <<>> /\ Len(<<>>) = 0
      BY <1>1, <2>1
    <3> QED
      BY <3>1, EmptyExact, NamedEmpty
  <2>2. CASE x \notin gone
    <3>1. /\ parameters'[x] = parameters[x] /\ parameterIndex'[x] = parameterIndex[x]
          /\ groups'[x] = IF x = g THEN r ELSE groups[x]
          /\ groupIndex'[x] = IF x = g THEN w ELSE groupIndex[x]
      BY <1>1, <2>2 DEF GroupInv, GroupTypes
    <3> QED
      BY <1>2, <1>3, <3>1, GroupParts
  <2> QED
    BY <2>1, <2>2
<1> QED
  BY <1>5, <1>6, <1>7, <1>8 DEF GroupInv

LEMMA ClearKeeps ==
  ASSUME GroupInv, NEW g \in Groups, Clear(g)
  PROVE  GroupInv'
<1> DEFINE gone == Tree(g)
<1>1. /\ groups' = [x \in Groups |-> IF x \in gone THEN <<>> ELSE groups[x]]
      /\ groupIndex' = [x \in Groups |-> IF x \in gone THEN <<>> ELSE groupIndex[x]]
      /\ parameters' = [x \in Groups |-> IF x \in gone THEN <<>> ELSE parameters[x]]
      /\ parameterIndex' = [x \in Groups |-> IF x \in gone THEN <<>> ELSE parameterIndex[x]]
      /\ name' = name
  BY DEF Clear, Destroyed
<1> HIDE DEF gone
<1>2. \A x \in Groups : groups'[x] \in {<<>>, groups[x]}
  BY <1>1
<1>3. Owners(groups') /\ \A x \in Groups : Range(groups'[x]) \subseteq Range(groups[x]) /\ groups'[x] \in Seq(Groups)
  BY <1>2, OwnersWithLess DEF GroupInv, GroupTypes
<1>4. Acyclic(groups')
  BY <1>3, AcyclicWithLess DEF GroupInv, GroupTypes
<1>5. GroupTypes'
  <2>1. groups' \in [Groups -> Seq(Groups)]
    BY <1>1, <1>3
  <2>2. parameters' \in [Groups -> Seq(Params)]
    BY <1>1 DEF GroupInv, GroupTypes
  <2> QED
    BY <1>1, <2>1, <2>2 DEF GroupInv, GroupTypes
<1>6. IndicesExact'
  <2> SUFFICES ASSUME NEW x \in Groups
               PROVE  Named(parameters'[x], parameterIndex'[x]) /\ Exact(groupIndex'[x], Len(groups'[x]))
    BY DEF IndicesExact
  <2>1. CASE x \in gone
    <3>1. /\ parameters'[x] = <<>> /\ parameterIndex'[x] = <<>>
          /\ groups'[x] = <<>> /\ groupIndex'[x] = <<>> /\ Len(<<>>) = 0
      BY <1>1, <2>1
    <3> QED
      BY <3>1, EmptyExact, NamedEmpty
  <2>2. CASE x \notin gone
    BY <1>1, <2>2, GroupParts
  <2> QED
    BY <2>1, <2>2
<1> QED
  BY <1>3, <1>4, <1>5, <1>6 DEF GroupInv

LEMMA GroupStep ==
  ASSUME GroupInv, GroupNext
  PROVE  GroupInv'
<1>1. ASSUME NEW g \in Groups, NEW n \in Names, SetName(g, n) PROVE GroupInv'
  BY <1>1 DEF SetName, GroupInv, GroupTypes, IndicesExact
<1> QED
  BY <1>1, AddParameterKeeps, RemoveParameterKeeps, AddGroupKeeps, RemoveGroupKeeps, ClearKeeps DEF GroupNext

LEMMA GroupInvTypes ==
  ASSUME GroupInv
  PROVE  GroupTypeOK
<1>1. ASSUME NEW index, NEW k \in Nat, NEW s, Len(s) = k, Exact(index, k) PROVE index \in IndexOf(s)
  BY <1>1 DEF Exact, IndexOf
<1>2. \A g \in Groups : parameterIndex[g] \in IndexOf(parameters[g]) /\ groupIndex[g] \in IndexOf(groups[g])
  BY <1>1, GroupParts DEF Named
<1> QED
  BY <1>2 DEF GroupInv, GroupTypes, GroupTypeOK

LEMMA GroupInvLookups ==
  ASSUME GroupInv
  PROVE  LookupsExact
<1> SUFFICES ASSUME NEW g \in Groups
             PROVE  /\ {<<n, parameterIndex[g][n]>> : n \in DOMAIN parameterIndex[g]}
                         = {<<NameOf[parameters[g][i]], i>> : i \in DOMAIN parameters[g]}
                    /\ IsInjective(groupIndex[g]) /\ Range(groupIndex[g]) = DOMAIN groups[g]
                    /\ IsInjective(groups[g]) /\ g \notin Owned(Tree(g))
                    /\ \A h \in Groups \ {g} : Range(groups[g]) \intersect Range(groups[h]) = {}
  BY DEF LookupsExact
<1>1. /\ parameters[g] \in Seq(Params) /\ groups[g] \in Seq(Groups)
      /\ Named(parameters[g], parameterIndex[g]) /\ Exact(groupIndex[g], Len(groups[g]))
      /\ DOMAIN parameters[g] = 1..Len(parameters[g]) /\ DOMAIN groups[g] = 1..Len(groups[g])
  BY GroupParts
<1>2. {<<n, parameterIndex[g][n]>> : n \in DOMAIN parameterIndex[g]}
         = {<<NameOf[parameters[g][i]], i>> : i \in DOMAIN parameters[g]}
  <2> DEFINE index == parameterIndex[g]
             s == parameters[g]
  <2>1. /\ \A n \in DOMAIN index : index[n] \in DOMAIN s /\ NameOf[s[index[n]]] = n
        /\ \A i \in DOMAIN s : \E n \in DOMAIN index : index[n] = i
    BY <1>1 DEF Named, Exact
  <2> HIDE DEF index, s
  <2>2. \A n \in DOMAIN index : <<n, index[n]>> \in {<<NameOf[s[i]], i>> : i \in DOMAIN s}
    BY <2>1
  <2>3. \A i \in DOMAIN s : <<NameOf[s[i]], i>> \in {<<n, index[n]>> : n \in DOMAIN index}
    <3> SUFFICES ASSUME NEW i \in DOMAIN s PROVE <<NameOf[s[i]], i>> \in {<<n, index[n]>> : n \in DOMAIN index}
      OBVIOUS
    <3>1. PICK n \in DOMAIN index : index[n] = i
      BY <2>1
    <3> QED
      BY <2>1, <3>1
  <2>4. {<<n, index[n]>> : n \in DOMAIN index} = {<<NameOf[s[i]], i>> : i \in DOMAIN s}
    BY <2>2, <2>3
  <2> QED
    BY <2>4 DEF index, s
<1>3. IsInjective(groupIndex[g]) /\ Range(groupIndex[g]) = DOMAIN groups[g]
  BY <1>1 DEF Exact, IsInjective, Range
<1>4. IsInjective(groups[g])
  BY <1>1 DEF GroupInv, Owners, IsInjective
<1>5. g \notin Owned(Tree(g))
  BY TreeInGroups DEF GroupInv, Acyclic
<1>6. ASSUME NEW h \in Groups \ {g} PROVE Range(groups[g]) \intersect Range(groups[h]) = {}
  <2>1. DOMAIN groups[h] = 1..Len(groups[h])
    BY GroupParts
  <2> QED
    BY <1>1, <2>1 DEF GroupInv, Owners, Range
<1> QED
  BY <1>2, <1>3, <1>4, <1>5, <1>6

-----------------------------------------------------------------------------
(* The stack of resetAll() calls.  Below each group it resets, a frame leaves *)
(* only parameters at their defaults, parameters a callback has changed, and  *)
(* what it has still to do, itself or in the frame above it; and a frame knows*)
(* of all that the frames it called know of.                                  *)
Done(p, f) == p \in f.touched \/ AtDefault(p)
Child(s, i, h) == i < Len(s) /\ s[i + 1].op = "resetAll" /\ s[i + 1].group = h

FrameOK(s, i) ==
  s[i].op = "resetAll" =>
    /\ \A p \in Range(parameters[s[i].group]) : p \in Range(s[i].left) \/ Done(p, s[i])
    /\ \A h \in Range(groups[s[i].group]) :
         \/ h \in Range(s[i].below) \/ Child(s, i, h)
         \/ \A p \in ParametersOf(Tree(h)) : Done(p, s[i])
    /\ i < Len(s) /\ s[i + 1].op = "resetAll" => s[i + 1].touched \subseteq s[i].touched
ResetInv == \A i \in 1..Len(calls) : FrameOK(calls, i)

LEMMA ParametersTyped ==
  ASSUME GroupInv, NEW g
  PROVE  /\ ParametersOf(Tree(g)) \subseteq Params
         /\ g \in Groups => Range(parameters[g]) \subseteq Params /\ Range(groups[g]) \subseteq Groups
<1>1. \A h \in Groups : Range(parameters[h]) \subseteq Params
  BY GroupParts, SeqRange
<1>2. Tree(g) \subseteq Groups
  BY DEF Tree
<1>3. g \in Groups => Range(groups[g]) \subseteq Groups
  BY GroupParts, SeqRange
<1> QED
  BY <1>1, <1>2, <1>3 DEF ParametersOf

(* Frames keep, when no parameter leaves its default that they do not note,   *)
(* what they have still to do is done or left, and none is called or returns. *)
LEMMA FramesKept ==
  ASSUME GroupInv, calls \in Seq(Frames), ResetInv, UNCHANGED <<parameters, groups>>,
         NEW P, \A p \in Params : AtDefault(p) => AtDefault(p)' \/ p \in P,
         calls' \in Seq(Frames), Len(calls') >= Len(calls),
         \A i \in 1..Len(calls) :
           /\ calls'[i].op = calls[i].op
           /\ calls[i].op = "resetAll" =>
                /\ calls'[i].group = calls[i].group /\ calls'[i].below = calls[i].below
                /\ calls'[i].touched = calls[i].touched \union P
                /\ \A p \in Range(calls[i].left) : p \in Range(calls'[i].left) \/ AtDefault(p)',
         \A i \in 1..Len(calls') : i > Len(calls) => calls'[i].op # "resetAll"
  PROVE  ResetInv'
<1> SUFFICES ASSUME NEW i \in 1..Len(calls'), calls'[i].op = "resetAll"
             PROVE  FrameOK(calls, i)'
  BY DEF ResetInv, FrameOK
<1>1. i \in 1..Len(calls) /\ calls[i].op = "resetAll" /\ Len(calls) \in Nat /\ Len(calls') \in Nat
  OBVIOUS
<1> DEFINE f == calls[i]
<1>2. FrameOK(calls, i) /\ f \in ResetFrames
  BY <1>1, FrameKinds DEF ResetInv
<1> PICK g \in Groups : g = f.group
  BY <1>2 DEF ResetFrames
<1>3. Range(parameters[g]) \subseteq Params /\ \A h : ParametersOf(Tree(h)) \subseteq Params
  BY ParametersTyped
<1>4. /\ calls'[i].group = g /\ calls'[i].below = f.below /\ calls'[i].touched = f.touched \union P
      /\ \A p \in Range(f.left) : p \in Range(calls'[i].left) \/ AtDefault(p)'
  BY <1>1
<1>5. \A p \in Params : Done(p, f) => Done(p, calls[i])'
  BY <1>4 DEF Done
<1>6. \A h : Child(calls, i, h) => Child(calls, i, h)'
  <2> SUFFICES ASSUME NEW h, Child(calls, i, h) PROVE Child(calls, i, h)'
    OBVIOUS
  <2>1. i + 1 \in 1..Len(calls) /\ calls[i + 1].op = "resetAll" /\ calls[i + 1].group = h
    BY <1>1 DEF Child
  <2>2. calls'[i + 1].op = "resetAll" /\ calls'[i + 1].group = h
    BY <2>1
  <2> QED
    BY <1>1, <2>1, <2>2 DEF Child
<1>7. \A h : Tree(h)' = Tree(h) /\ ParametersOf(Tree(h))' = ParametersOf(Tree(h))
  BY DEF Tree, Owned, ParametersOf
<1>8. \A p \in Range(parameters[g]) : p \in Range(calls'[i].left) \/ Done(p, calls[i])'
  <2> SUFFICES ASSUME NEW p \in Range(parameters[g]) PROVE p \in Range(calls'[i].left) \/ Done(p, calls[i])'
    OBVIOUS
  <2>1. p \in Range(f.left) \/ Done(p, f)
    BY <1>1, <1>2 DEF FrameOK
  <2> QED
    BY <1>3, <1>4, <1>5, <2>1 DEF Done
<1>9. \A h \in Range(groups[g]) :
        \/ h \in Range(f.below) \/ Child(calls, i, h)'
        \/ \A p \in ParametersOf(Tree(h)) : Done(p, calls[i])'
  <2> SUFFICES ASSUME NEW h \in Range(groups[g]), h \notin Range(f.below), ~Child(calls, i, h)',
                      NEW p \in ParametersOf(Tree(h))
               PROVE  Done(p, calls[i])'
    OBVIOUS
  <2>1. Done(p, f)
    BY <1>1, <1>2, <1>6 DEF FrameOK
  <2> QED
    BY <1>3, <1>5, <2>1
<1>10. i < Len(calls') /\ calls'[i + 1].op = "resetAll" => calls'[i + 1].touched \subseteq calls'[i].touched
  <2> SUFFICES ASSUME i < Len(calls'), calls'[i + 1].op = "resetAll"
               PROVE  calls'[i + 1].touched \subseteq calls'[i].touched
    OBVIOUS
  <2>1. i + 1 \in 1..Len(calls') /\ i + 1 \in 1..Len(calls)
    BY <1>1
  <2>2. calls[i + 1].op = "resetAll" /\ calls'[i + 1].touched = calls[i + 1].touched \union P
    BY <2>1
  <2>3. calls[i + 1].touched \subseteq f.touched
    BY <1>1, <1>2, <2>1, <2>2 DEF FrameOK
  <2> QED
    BY <1>4, <2>2, <2>3
<1> HIDE DEF f
<1> QED
  BY <1>4, <1>7, <1>8, <1>9, <1>10 DEF FrameOK

(* Who is at its default after one parameter has changed.                     *)
LEMMA OthersDefault ==
  ASSUME object \in [Params -> Fields], NEW p \in Params, NEW o, object' = [object EXCEPT ![p] = o], kind' = kind
  PROVE  \A q \in Params \ {p} : AtDefault(q) => AtDefault(q)'
<1>1. \A q \in Params \ {p} : object'[q] = object[q]
  OBVIOUS
<1> QED
  BY <1>1 DEF AtDefault, EmptyEnum

LEMMA DefaultKept ==
  ASSUME object \in [Params -> Fields], NEW p \in Params, NEW o, object' = [object EXCEPT ![p] = o], kind' = kind,
         \/ kind[p] = "trigger"
         \/ /\ o.value = object[p].value /\ o.lo = object[p].lo /\ o.hi = object[p].hi
            /\ o.default = object[p].default /\ o.step = object[p].step
  PROVE  \A q \in Params : AtDefault(q) => AtDefault(q)'
<1>1. object'[p] = o
  OBVIOUS
<1>2. AtDefault(p) => AtDefault(p)'
  BY <1>1 DEF AtDefault, EmptyEnum, Target
<1> QED
  BY <1>2, OthersDefault

LEMMA SetDefaults ==
  ASSUME object \in [Params -> Fields], NEW p \in Params, NEW v, NEW stack, Set(p, v, stack), kind' = kind
  PROVE  /\ \A q \in Params \ {p} : AtDefault(q) => AtDefault(q)'
         /\ v = object[p].default => AtDefault(p)'
<1> DEFINE o == [object[p] EXCEPT !.value = Accepted(p, v)]
<1>1. object' = [object EXCEPT ![p] = o] /\ object[p] \in Fields
  BY DEF Set
<1>2. /\ o.value = Accepted(p, v) /\ o.lo = object[p].lo /\ o.hi = object[p].hi
      /\ o.default = object[p].default /\ o.step = object[p].step
  BY <1>1 DEF Fields
<1> HIDE DEF o
<1>3. object'[p] = o
  BY <1>1
<1>4. v = object[p].default => AtDefault(p)'
  BY <1>2, <1>3 DEF AtDefault, EmptyEnum, Accepted, Target
<1> QED
  BY <1>1, <1>4, OthersDefault

(* Calls that a setter makes are on top of those in progress.                 *)
Extends(s, t) ==
  /\ Len(t) >= Len(s) /\ \A i \in 1..Len(s) : t[i] = s[i]
  /\ \A i \in 1..Len(t) : i > Len(s) => t[i].op # "resetAll"

LEMMA ExtendsSelf ==
  ASSUME NEW s \in Seq(Frames)
  PROVE  Extends(s, s)
BY DEF Extends

LEMMA ExtendsAppend ==
  ASSUME NEW s \in Seq(Frames), NEW t \in Seq(Frames), Extends(s, t), NEW f \in Frames, f.op # "resetAll"
  PROVE  Extends(s, Append(t, f)) /\ Append(t, f) \in Seq(Frames)
<1>1. Len(t) \in Nat /\ Len(s) \in Nat /\ Len(Append(t, f)) = Len(t) + 1 /\ Append(t, f)[Len(t) + 1] = f
      /\ \A i \in 1..Len(t) : Append(t, f)[i] = t[i]
  OBVIOUS
<1>2. \A i \in 1..(Len(t) + 1) : i \in 1..Len(t) \/ i = Len(t) + 1
  BY <1>1
<1>3. \A i \in 1..Len(s) : i \in 1..Len(t)
  BY <1>1 DEF Extends
<1> QED
  BY <1>1, <1>2, <1>3 DEF Extends

LEMMA SetExtends ==
  ASSUME NEW s \in Seq(Frames), NEW stack \in Seq(Frames), Extends(s, stack), NEW p, NEW v, Set(p, v, stack)
  PROVE  Extends(s, calls') /\ calls' \in Seq(Frames)
<1>1. calls' = Append(stack, [op |-> "callback"]) \/ calls' = stack
  BY DEF Set
<1>2. [op |-> "callback"].op # "resetAll"
  OBVIOUS
<1> QED
  BY <1>1, <1>2, SimpleFrames, ExtendsAppend

LEMMA ResetParamExtends ==
  ASSUME NEW s \in Seq(Frames), NEW stack \in Seq(Frames), Extends(s, stack), NEW p \in Params, ResetParam(p, stack)
  PROVE  Extends(s, calls') /\ calls' \in Seq(Frames)
<1>1. CASE kind[p] = "trigger"
  BY <1>1 DEF ResetParam
<1>2. CASE kind[p] # "trigger"
  <2> DEFINE f == [op |-> "reset", param |-> p]
  <2>1. f \in Frames /\ f.op # "resetAll"
    BY SimpleFrames
  <2>2. Extends(s, Append(stack, f)) /\ Append(stack, f) \in Seq(Frames)
    BY <2>1, ExtendsAppend
  <2>3. Set(p, object[p].default, Append(stack, f)) \/ Set(p, object[p].default, stack)
    BY <1>2 DEF ResetParam
  <2> QED
    BY <2>2, <2>3, SetExtends
<1> QED
  BY <1>1, <1>2

LEMMA ResetParamDefaults ==
  ASSUME object \in [Params -> Fields], NEW p \in Params, NEW stack, ResetParam(p, stack), kind' = kind
  PROVE  \A q \in Params : (AtDefault(q) => AtDefault(q)') /\ AtDefault(p)'
<1>1. CASE kind[p] = "trigger"
  <2> DEFINE o == [object[p] EXCEPT !.value = 0]
  <2>1. object' = [object EXCEPT ![p] = o] /\ AtDefault(p)'
    BY <1>1 DEF ResetParam, AtDefault
  <2> HIDE DEF o
  <2> QED
    BY <2>1, OthersDefault
<1>2. CASE kind[p] # "trigger"
  <2>1. PICK s : Set(p, object[p].default, s)
    BY <1>2 DEF ResetParam
  <2> QED
    BY <2>1, SetDefaults
<1> QED
  BY <1>1, <1>2

LEMMA NotedKept ==
  ASSUME GroupInv, ValuesInv, ResetInv, UNCHANGED <<parameters, groups>>, NEW p \in Params,
         Extends(Noted(p), calls'), calls' \in Seq(Frames),
         \A q \in Params \ {p} : AtDefault(q) => AtDefault(q)'
  PROVE  ResetInv'
<1>1. calls \in Seq(Frames) /\ Len(Noted(p)) = Len(calls)
      /\ \A i \in 1..Len(calls) :
           Noted(p)[i] = IF calls[i].op = "resetAll" THEN [calls[i] EXCEPT !.touched = @ \union {p}] ELSE calls[i]
  BY NotedFrames DEF ValuesInv, Typed
<1>2. ASSUME NEW i \in 1..Len(calls)
      PROVE  /\ calls'[i].op = calls[i].op
             /\ calls[i].op = "resetAll" =>
                /\ calls'[i].group = calls[i].group /\ calls'[i].below = calls[i].below
                /\ calls'[i].touched = calls[i].touched \union {p}
                /\ calls'[i].left = calls[i].left
  <2>1. calls'[i] = IF calls[i].op = "resetAll" THEN [calls[i] EXCEPT !.touched = @ \union {p}] ELSE calls[i]
    BY <1>1 DEF Extends
  <2>2. calls[i].op = "resetAll" => calls[i] \in ResetFrames
    BY <1>1, FrameKinds
  <2> QED
    BY <2>1, <2>2 DEF ResetFrames
<1>3. Len(calls') >= Len(calls) /\ \A i \in 1..Len(calls') : i > Len(calls) => calls'[i].op # "resetAll"
  BY <1>1 DEF Extends
<1>4. \A q \in Params : AtDefault(q) => AtDefault(q)' \/ q \in {p}
  OBVIOUS
<1> QED
  BY <1>1, <1>2, <1>3, <1>4, FramesKept

LEMMA StackKept ==
  ASSUME GroupInv, ValuesInv, ResetInv, UNCHANGED <<parameters, groups, calls>>,
         \A q \in Params : AtDefault(q) => AtDefault(q)'
  PROVE  ResetInv'
<1>1. calls \in Seq(Frames) /\ calls' \in Seq(Frames)
  BY DEF ValuesInv, Typed
<1>2. \A q \in Params : AtDefault(q) => AtDefault(q)' \/ q \in {}
  OBVIOUS
<1>3. \A i \in 1..Len(calls) :
           /\ calls'[i].op = calls[i].op
           /\ calls[i].op = "resetAll" =>
                /\ calls'[i].group = calls[i].group /\ calls'[i].below = calls[i].below
                /\ calls'[i].touched = calls[i].touched \union {}
                /\ \A p \in Range(calls[i].left) : p \in Range(calls'[i].left) \/ AtDefault(p)'
  OBVIOUS
<1>4. Len(calls') >= Len(calls) /\ \A i \in 1..Len(calls') : i > Len(calls) => calls'[i].op # "resetAll"
  BY <1>1
<1> QED
  BY <1>1, <1>2, <1>3, <1>4, FramesKept

LEMMA CallResets ==
  ASSUME GroupInv, ValuesInv, ResetInv, NEW p \in Params, Call(p)
  PROVE  ResetInv'
<1>1. UNCHANGED <<parameters, groups, kind>>
  BY DEF Call, SetValue, StepValue, AddOption, GetSmoothedValue, Trigger, Consume, SetRange, SetStepSize, SetOptions,
         EnableSmoothing, SetChangeCallback, RemoveChangeCallback, Reset, Silently, groupVars
<1>2. /\ Noted(p) \in Seq(Frames) /\ Extends(Noted(p), Noted(p))
      /\ object \in [Params -> Fields] /\ object[p] \in Fields /\ calls \in Seq(Frames)
  BY NotedFrames, ExtendsSelf DEF ValuesInv, Typed
<1>3. CASE \E v : Set(p, v, Noted(p))
  <2>1. PICK v : Set(p, v, Noted(p))
    BY <1>3
  <2>2. Extends(Noted(p), calls') /\ calls' \in Seq(Frames)
    BY <1>2, <2>1, SetExtends
  <2>3. \A q \in Params \ {p} : AtDefault(q) => AtDefault(q)'
    BY <1>1, <1>2, <2>1, SetDefaults
  <2> QED
    BY <1>1, <2>2, <2>3, NotedKept
<1>4. CASE \E o, losses : Silently(p, o, losses)
  <2>1. PICK o : object' = [object EXCEPT ![p] = o] /\ calls' = Noted(p)
    BY <1>4 DEF Silently
  <2>2. \A q \in Params \ {p} : AtDefault(q) => AtDefault(q)'
    BY <1>1, <1>2, <2>1, OthersDefault
  <2> QED
    BY <1>1, <1>2, <2>1, <2>2, NotedKept
<1>5. CASE Trigger(p)
  <2>1. PICK o : object' = [object EXCEPT ![p] = o]
    BY <1>5 DEF Trigger
  <2>2. \A q \in Params \ {p} : AtDefault(q) => AtDefault(q)'
    BY <1>1, <1>2, <2>1, OthersDefault
  <2>3. [op |-> "callback"].op # "resetAll"
    OBVIOUS
  <2>4. Extends(Noted(p), calls') /\ calls' \in Seq(Frames)
    BY <1>2, <1>5, <2>3, SimpleFrames, ExtendsAppend DEF Trigger
  <2> QED
    BY <1>1, <2>2, <2>4, NotedKept
<1>6. CASE Reset(p)
  <2>1. ResetParam(p, Noted(p))
    BY <1>6 DEF Reset
  <2>2. Extends(Noted(p), calls') /\ calls' \in Seq(Frames)
    BY <1>2, <2>1, ResetParamExtends
  <2>3. \A q \in Params \ {p} : AtDefault(q) => AtDefault(q)'
    BY <1>1, <1>2, <2>1, ResetParamDefaults
  <2> QED
    BY <1>1, <2>2, <2>3, NotedKept
<1>7. ASSUME NEW on \in BOOLEAN, EnableSmoothing(p, on) PROVE ResetInv'
  <2> DEFINE o == [object[p] EXCEPT !.smoothing = on, !.smoothed = IF on THEN @ ELSE object[p].value]
  <2>1. object' = [object EXCEPT ![p] = o] /\ calls' = calls
    BY <1>7 DEF EnableSmoothing
  <2>2. /\ o.value = object[p].value /\ o.lo = object[p].lo /\ o.hi = object[p].hi
        /\ o.default = object[p].default /\ o.step = object[p].step
    BY <1>2 DEF Fields
  <2> HIDE DEF o
  <2>3. \A q \in Params : AtDefault(q) => AtDefault(q)'
    BY <1>1, <1>2, <2>1, <2>2, DefaultKept
  <2> QED
    BY <1>1, <2>1, <2>3, StackKept
<1>8. CASE GetSmoothedValue(p)
  <2>1. PICK x : object' = [object EXCEPT ![p].smoothed = x]
    BY <1>8 DEF GetSmoothedValue
  <2> DEFINE o == [object[p] EXCEPT !.smoothed = x]
  <2>2. object' = [object EXCEPT ![p] = o] /\ calls' = calls
    BY <1>8, <2>1 DEF GetSmoothedValue
  <2>3. /\ o.value = object[p].value /\ o.lo = object[p].lo /\ o.hi = object[p].hi
        /\ o.default = object[p].default /\ o.step = object[p].step
    BY <1>2 DEF Fields
  <2> HIDE DEF o
  <2>4. \A q \in Params : AtDefault(q) => AtDefault(q)'
    BY <1>1, <1>2, <2>2, <2>3, DefaultKept
  <2> QED
    BY <1>1, <2>2, <2>4, StackKept
<1>9. CASE Consume(p)
  <2>1. PICK o : object' = [object EXCEPT ![p] = o]
    BY <1>9 DEF Consume
  <2>2. kind[p] = "trigger" /\ calls' = calls
    BY <1>9 DEF Consume
  <2>3. \A q \in Params : AtDefault(q) => AtDefault(q)'
    BY <1>1, <1>2, <2>1, <2>2, DefaultKept
  <2> QED
    BY <1>1, <2>2, <2>3, StackKept
<1>10. CASE SetChangeCallback(p) \/ RemoveChangeCallback(p)
  <2>1. calls' = calls /\ object' = object
    BY <1>10 DEF SetChangeCallback, RemoveChangeCallback
  <2>2. \A q \in Params : AtDefault(q) => AtDefault(q)'
    BY <1>1, <2>1 DEF AtDefault, EmptyEnum
  <2> QED
    BY <1>1, <2>1, <2>2, StackKept
<1>11. (\E v : SetValue(p, v)) \/ StepValue(p) => \E v : Set(p, v, Noted(p))
  BY DEF SetValue, StepValue
<1>12. ASSUME AddOption(p) \/ (\E r : SetRange(p, r)) \/ (\E n : SetStepSize(p, n)) \/ (\E n : SetOptions(p, n))
       PROVE  \E o, losses : Silently(p, o, losses)
  BY <1>12 DEF AddOption, SetRange, SetStepSize, SetOptions
<1> QED
  BY <1>3, <1>4, <1>5, <1>6, <1>7, <1>8, <1>9, <1>10, <1>11, <1>12 DEF Call

(* What a resetAll() that has nothing left to do has reached.                 *)
LEMMA FinishedReaches ==
  ASSUME GroupInv, ValuesInv, ResetInv, calls # <<>>, Finished(Last(calls))
  PROVE  \A p \in ParametersOf(Tree(Last(calls).group)) : Done(p, Last(calls))
<1> DEFINE n == Len(calls)
           f == Last(calls)
           g == Last(calls).group
<1>1. calls \in Seq(Frames) /\ n \in Nat \ {0} /\ n \in 1..n /\ f = calls[n] /\ f \in Frames
  BY TopTyped DEF ValuesInv, Typed
<1>2. f.op = "resetAll" /\ f.left = <<>> /\ f.below = <<>> /\ Range(<<>>) = {}
  BY DEF Finished, Range
<1>3. g \in Groups
  BY <1>1, <1>2, FrameKinds DEF ResetFrames
<1>4. FrameOK(calls, n) /\ \A h : ~Child(calls, n, h)
  BY <1>1 DEF ResetInv, Child
<1>5. \A p \in Range(parameters[g]) : Done(p, f)
  BY <1>1, <1>2, <1>4 DEF FrameOK
<1>6. \A h \in Range(groups[g]) : \A p \in ParametersOf(Tree(h)) : Done(p, f)
  BY <1>1, <1>2, <1>4 DEF FrameOK
<1>7. Tree(g) \subseteq {g} \union UNION {TreeIn(groups, h) : h \in Range(groups[g])}
  BY <1>3, TreeUnfold, TreeInGroups DEF GroupInv, GroupTypes
<1> HIDE DEF n, f, g
<1>8. ASSUME NEW p \in ParametersOf(Tree(g)) PROVE Done(p, f)
  <2>1. PICK x \in Tree(g) : p \in Range(parameters[x])
    BY DEF ParametersOf
  <2>2. CASE x = g
    BY <1>5, <2>1, <2>2
  <2>3. CASE x # g
    <3>1. PICK h \in Range(groups[g]) : x \in TreeIn(groups, h)
      BY <1>7, <2>3
    <3>2. p \in ParametersOf(Tree(h))
      BY <2>1, <3>1, TreeInGroups DEF ParametersOf
    <3> QED
      BY <1>6, <3>2
  <2> QED
    BY <2>2, <2>3
<1> QED
  BY <1>8 DEF f, g

LEMMA SameTrees ==
  ASSUME UNCHANGED <<parameters, groups>>
  PROVE  \A h : /\ parameters'[h] = parameters[h] /\ groups'[h] = groups[h]
                /\ Tree(h)' = Tree(h) /\ ParametersOf(Tree(h))' = ParametersOf(Tree(h))
BY DEF Tree, Owned, ParametersOf

(* A call returns, a finished resetAll() among them.                          *)
LEMMA ReturnResets ==
  ASSUME GroupInv, ValuesInv, ResetInv, calls # <<>>, calls' = Front(calls), UNCHANGED <<parameters, groups>>,
         \A q \in Params : AtDefault(q) => AtDefault(q)',
         Last(calls).op # "resetAll" \/ Finished(Last(calls))
  PROVE  ResetInv'
<1> DEFINE n == Len(calls)
<1>1. /\ n \in Nat \ {0} /\ Len(calls') = n - 1 /\ Last(calls) = calls[n]
      /\ \A i \in 1..(n - 1) : calls'[i] = calls[i]
      /\ \A i \in 1..n : calls[i] \in Frames
  BY TopTyped DEF ValuesInv, Typed
<1> HIDE DEF n
<1> SUFFICES ASSUME NEW i \in 1..(n - 1) PROVE FrameOK(calls, i)'
  BY <1>1 DEF ResetInv
<1> SUFFICES ASSUME calls[i].op = "resetAll" PROVE FrameOK(calls, i)'
  BY <1>1 DEF FrameOK
<1>2. i \in 1..n /\ i + 1 \in 1..n /\ calls'[i] = calls[i] /\ calls[i] \in Frames
  BY <1>1
<1>3. FrameOK(calls, i) /\ calls[i] \in ResetFrames
  BY <1>2, FrameKinds DEF ResetInv, n
<1> PICK g \in Groups : g = calls[i].group
  BY <1>3 DEF ResetFrames
<1>4. Range(parameters[g]) \subseteq Params /\ \A h : ParametersOf(Tree(h)) \subseteq Params
  BY ParametersTyped
<1>5. \A p \in Params : Done(p, calls[i]) => Done(p, calls[i])'
  BY <1>2 DEF Done
<1>6. ASSUME NEW h, Child(calls, i, h), ~Child(calls, i, h)'
      PROVE  \A p \in ParametersOf(Tree(h)) : Done(p, calls[i])
  <2>1. calls[i + 1].op = "resetAll" /\ calls[i + 1].group = h
    BY <1>6 DEF Child
  <2>2. i + 1 = n
    <3>1. ~(i < n - 1 /\ calls'[i + 1].op = "resetAll" /\ calls'[i + 1].group = h)
      BY <1>1, <1>6 DEF Child
    <3>2. i < n - 1 => calls'[i + 1] = calls[i + 1]
      BY <1>1
    <3> QED
      BY <1>1, <2>1, <3>1, <3>2
  <2>3. \A p \in ParametersOf(Tree(h)) : Done(p, calls[n])
    BY <1>1, <2>1, <2>2, FinishedReaches
  <2>4. calls[n].touched \subseteq calls[i].touched
    BY <1>1, <1>3, <2>1, <2>2 DEF FrameOK, n
  <2> QED
    BY <2>3, <2>4 DEF Done
<1>7. \A p \in Range(parameters[g]) : p \in Range(calls[i].left) \/ Done(p, calls[i])'
  BY <1>3, <1>4, <1>5 DEF FrameOK
<1>8. ASSUME NEW h \in Range(groups[g]), h \notin Range(calls[i].below), ~Child(calls, i, h)', NEW p \in ParametersOf(Tree(h))
      PROVE  Done(p, calls[i])'
  <2>1. Done(p, calls[i])
    BY <1>3, <1>6, <1>8 DEF FrameOK
  <2> QED
    BY <1>4, <1>5, <2>1
<1>9. i < n - 1 /\ calls'[i + 1].op = "resetAll" => calls'[i + 1].touched \subseteq calls[i].touched
  <2> SUFFICES ASSUME i < n - 1, calls'[i + 1].op = "resetAll" PROVE calls'[i + 1].touched \subseteq calls[i].touched
    OBVIOUS
  <2>1. calls'[i + 1] = calls[i + 1] /\ i < n
    BY <1>1
  <2> QED
    BY <1>3, <2>1 DEF FrameOK, n
<1> QED
  BY <1>1, <1>2, <1>7, <1>8, <1>9, SameTrees DEF FrameOK

(* A resetAll() is called from outside, from a callback or from another one.  *)
LEMMA CalledResets ==
  ASSUME GroupInv, ValuesInv, ResetInv, UNCHANGED <<parameters, groups, object, kind>>,
         NEW s \in Seq(Frames), NEW g \in Groups, calls' = Append(s, Resetting(g)), Len(s) = Len(calls),
         \A i \in 1..Len(s) :
           /\ s[i].op = calls[i].op
           /\ s[i].op = "resetAll" =>
                /\ s[i].group = calls[i].group /\ s[i].touched = calls[i].touched /\ s[i].left = calls[i].left
                /\ Range(calls[i].below) \subseteq
                     Range(s[i].below) \union IF i = Len(s) THEN {g} ELSE {}
  PROVE  ResetInv'
<1> DEFINE n == Len(s)
           f == Resetting(g)
<1>1. /\ n \in Nat /\ Len(calls') = n + 1 /\ calls'[n + 1] = f
      /\ \A i \in 1..n : calls'[i] = s[i] /\ calls[i] \in Frames
  BY DEF ValuesInv, Typed
<1>2. /\ f.op = "resetAll" /\ f.group = g /\ f.left = parameters[g] /\ f.below = groups[g] /\ f.touched = {}
  BY DEF Resetting, Below
<1>3. \A p : AtDefault(p)' <=> AtDefault(p)
  BY DEF AtDefault, EmptyEnum
<1> HIDE DEF n, f
<1>4. FrameOK(calls, n + 1)'
  <2>1. ~(n + 1 < Len(calls'))
    BY <1>1
  <2> QED
    BY <1>1, <1>2, <2>1, SameTrees DEF FrameOK
<1>5. ASSUME NEW i \in 1..n, s[i].op = "resetAll" PROVE FrameOK(calls, i)'
  <2>1. /\ FrameOK(calls, i) /\ calls[i] \in ResetFrames /\ calls[i].op = "resetAll"
        /\ calls'[i] = s[i]
    BY <1>1, <1>5, FrameKinds DEF ResetInv, n
  <2> PICK x \in Groups : x = calls[i].group
    BY <2>1 DEF ResetFrames
  <2>2. /\ calls'[i].op = "resetAll" /\ calls'[i].group = x /\ calls'[i].left = calls[i].left
        /\ calls'[i].touched = calls[i].touched
        /\ Range(calls[i].below) \subseteq Range(calls'[i].below) \union IF i = n THEN {g} ELSE {}
    BY <1>5, <2>1 DEF n
  <2>3. \A p : Done(p, calls[i]) => Done(p, calls[i])'
    BY <1>3, <2>2 DEF Done
  <2>4. \A h : Child(calls, i, h) \/ (i = n /\ h = g) => Child(calls, i, h)'
    <3>1. i = n => i < Len(calls') /\ calls'[i + 1].op = "resetAll" /\ calls'[i + 1].group = g
      BY <1>1, <1>2
    <3>2. ASSUME i # n PROVE i < n /\ i + 1 \in 1..n /\ calls'[i + 1] = s[i + 1] /\ i < Len(calls')
      BY <1>1, <3>2
    <3>3. ASSUME i # n, NEW h, Child(calls, i, h) PROVE Child(calls, i, h)'
      <4>1. calls[i + 1].op = "resetAll" /\ calls[i + 1].group = h
        BY <3>3 DEF Child
      <4>2. calls'[i + 1].op = "resetAll" /\ calls'[i + 1].group = h
        BY <3>2, <3>3, <4>1 DEF n
      <4> QED
        BY <3>2, <3>3, <4>2 DEF Child
    <3>4. i = n => \A h : ~Child(calls, i, h)
      BY <1>1 DEF Child, n
    <3> QED
      BY <3>1, <3>3, <3>4 DEF Child
  <2>5. \A p \in Range(parameters[x]) : p \in Range(calls'[i].left) \/ Done(p, calls[i])'
    BY <2>1, <2>2, <2>3 DEF FrameOK
  <2>6. ASSUME NEW h \in Range(groups[x]), h \notin Range(calls'[i].below), ~Child(calls, i, h)',
               NEW p \in ParametersOf(Tree(h))
        PROVE  Done(p, calls[i])'
    <3>1. h \notin Range(calls[i].below) /\ ~Child(calls, i, h)
      BY <2>2, <2>4, <2>6
    <3> QED
      BY <2>1, <2>3, <3>1 DEF FrameOK
  <2>7. i < Len(calls') /\ calls'[i + 1].op = "resetAll" => calls'[i + 1].touched \subseteq calls'[i].touched
    <3>1. CASE i = n
      BY <1>1, <1>2, <3>1
    <3>2. CASE i # n
      <4>1. i < n /\ i + 1 \in 1..n /\ calls'[i + 1] = s[i + 1]
        BY <1>1, <3>2
      <4>2. s[i + 1].op = "resetAll" =>
              calls[i + 1].op = "resetAll" /\ s[i + 1].touched = calls[i + 1].touched
        BY <4>1 DEF n
      <4>3. calls[i + 1].op = "resetAll" => calls[i + 1].touched \subseteq calls[i].touched
        BY <2>1, <4>1 DEF FrameOK, n
      <4> QED
        BY <2>2, <4>1, <4>2, <4>3
    <3> QED
      BY <3>1, <3>2
  <2>8. /\ parameters'[x] = parameters[x] /\ groups'[x] = groups[x]
        /\ \A h : ParametersOf(Tree(h))' = ParametersOf(Tree(h))
    BY SameTrees
  <2>9. \A h \in Range(groups[x]) :
          \/ h \in Range(calls'[i].below) \/ Child(calls, i, h)'
          \/ \A p \in ParametersOf(Tree(h))' : Done(p, calls[i])'
    <3> SUFFICES ASSUME NEW h \in Range(groups[x]), h \notin Range(calls'[i].below), ~Child(calls, i, h)',
                        NEW p \in ParametersOf(Tree(h))'
                 PROVE  Done(p, calls[i])'
      OBVIOUS
    <3>1. p \in ParametersOf(Tree(h))
      BY <2>8
    <3> QED
      BY <2>6, <3>1
  <2> QED
    BY <2>2, <2>5, <2>7, <2>8, <2>9 DEF FrameOK
<1> SUFFICES ASSUME NEW i \in 1..(n + 1) PROVE FrameOK(calls, i)'
  BY <1>1 DEF ResetInv
<1>6. CASE i = n + 1
  BY <1>4, <1>6
<1>7. CASE i # n + 1
  <2>1. i \in 1..n /\ calls'[i] = s[i]
    BY <1>1, <1>7
  <2> QED
    BY <1>5, <2>1 DEF FrameOK
<1> QED
  BY <1>6, <1>7

LEMMA ResetAllResets ==
  ASSUME GroupInv, ValuesInv, ResetInv, NEW g \in Groups, ResetAll(g)
  PROVE  ResetInv'
<1>1. /\ calls' = Append(calls, Resetting(g)) /\ calls \in Seq(Frames)
      /\ UNCHANGED <<parameters, groups, object, kind>>
  BY DEF ResetAll, groupVars, ValuesInv, Typed
<1> QED
  BY <1>1, CalledResets

LEMMA ContinueResets ==
  ASSUME GroupInv, ValuesInv, ResetInv, Continue
  PROVE  ResetInv'
<1> DEFINE f == Last(calls)
           n == Len(calls)
<1>1. /\ calls # <<>> /\ UNCHANGED <<parameters, groups, kind>> /\ object \in [Params -> Fields]
  BY DEF Continue, ReturnFromCallback, FinishReset, ResetNext, Descend, ReturnFromResetAll, groupVars, ValuesInv, Typed
<1>2. /\ f \in Frames /\ Front(calls) \in Seq(Frames) /\ n \in Nat \ {0} /\ Len(Front(calls)) = n - 1
      /\ \A i \in 1..(n - 1) : Front(calls)[i] = calls[i]
      /\ f = calls[n]
  BY <1>1, TopTyped DEF ValuesInv, Typed
<1>3. CASE ReturnFromCallback \/ ReturnFromResetAll
  <2>1. calls' = Front(calls) /\ UNCHANGED object /\ (f.op # "resetAll" \/ Finished(f))
    BY <1>3 DEF ReturnFromCallback, ReturnFromResetAll
  <2>2. \A q \in Params : AtDefault(q) => AtDefault(q)'
    BY <1>1, <2>1 DEF AtDefault, EmptyEnum
  <2> QED
    BY <1>1, <2>1, <2>2, ReturnResets
<1>4. CASE FinishReset
  <2>1. PICK p \in Params : p = f.param
    BY <1>2, <1>4, FrameKinds DEF FinishReset
  <2> DEFINE o == [object[p] EXCEPT !.smoothed = object[p].value]
  <2>2. object' = [object EXCEPT ![p] = o] /\ calls' = Front(calls) /\ f.op # "resetAll"
    BY <1>4, <2>1 DEF FinishReset
  <2>3. /\ o.value = object[p].value /\ o.lo = object[p].lo /\ o.hi = object[p].hi
        /\ o.default = object[p].default /\ o.step = object[p].step
    BY <1>1 DEF Fields
  <2> HIDE DEF o
  <2>4. \A q \in Params : AtDefault(q) => AtDefault(q)'
    BY <1>1, <2>2, <2>3, DefaultKept
  <2> QED
    BY <1>1, <2>2, <2>4, ReturnResets
<1>5. CASE ResetNext
  <2> DEFINE e == [f EXCEPT !.left = Tail(@)]
             s == Append(Front(calls), e)
  <2>1. f \in ResetFrames /\ f.left # <<>> /\ f.op = "resetAll"
    BY <1>2, <1>5, FrameKinds DEF ResetNext
  <2>2. /\ Head(f.left) \in Params /\ e \in Frames
        /\ e.op = "resetAll" /\ e.group = f.group /\ e.below = f.below /\ e.touched = f.touched /\ e.left = Tail(f.left)
    BY <2>1, AdvancedTyped, ResetFramesAreFrames DEF ResetFrames
  <2>3. \A q \in Range(f.left) : q = Head(f.left) \/ q \in Range(Tail(f.left))
    <3>1. f.left \in Seq(Params)
      BY <2>1 DEF ResetFrames
    <3>2. ASSUME NEW i \in 1..Len(f.left), i # 1 PROVE f.left[i] \in Range(Tail(f.left))
      <4>1. i - 1 \in DOMAIN Tail(f.left) /\ Tail(f.left)[i - 1] = f.left[i]
        BY <2>1, <3>1, <3>2
      <4> QED
        BY <4>1 DEF Range
    <3>3. Head(f.left) = f.left[1]
      BY <3>1
    <3>4. DOMAIN f.left = 1..Len(f.left)
      BY <3>1
    <3> QED
      BY <3>2, <3>3, <3>4 DEF Range
  <2> PICK p \in Params : p = Head(f.left)
    BY <2>2
  <2>4. ResetParam(p, s)
    BY <1>5 DEF ResetNext
  <2> HIDE DEF e, f
  <2>5. s \in Seq(Frames) /\ Len(s) = n /\ s[n] = e /\ \A i \in 1..(n - 1) : s[i] = calls[i]
    BY <1>2, <2>2
  <2> HIDE DEF s
  <2>6. Extends(s, calls') /\ calls' \in Seq(Frames)
    BY <2>2, <2>4, <2>5, ExtendsSelf, ResetParamExtends
  <2>7. AtDefault(p)' /\ \A q \in Params : AtDefault(q) => AtDefault(q)'
    BY <1>1, <2>2, <2>4, ResetParamDefaults
  <2>8. ASSUME NEW i \in 1..n
        PROVE  /\ calls'[i].op = calls[i].op
               /\ calls[i].op = "resetAll" =>
                    /\ calls'[i].group = calls[i].group /\ calls'[i].below = calls[i].below
                    /\ calls'[i].touched = calls[i].touched \union {}
                    /\ \A q \in Range(calls[i].left) : q \in Range(calls'[i].left) \/ AtDefault(q)'
    <3>1. calls'[i] = s[i]
      BY <2>5, <2>6 DEF Extends
    <3>2. CASE i = n
      <4>1. calls[i] = f /\ calls'[i] = e
        BY <1>2, <2>5, <3>1, <3>2
      <4>2. \A q \in Range(f.left) : q \in Range(e.left) \/ AtDefault(q)'
        BY <2>2, <2>3, <2>7
      <4> QED
        BY <2>1, <2>2, <4>1, <4>2
    <3>3. CASE i # n
      <4>1. i \in 1..(n - 1)
        BY <1>2, <3>3
      <4> QED
        BY <2>5, <3>1, <4>1
    <3> QED
      BY <3>2, <3>3
  <2>9. Len(calls') >= Len(calls) /\ \A i \in 1..Len(calls') : i > Len(calls) => calls'[i].op # "resetAll"
    BY <2>5, <2>6 DEF Extends
  <2>10. (\A q \in Params : AtDefault(q) => AtDefault(q)' \/ q \in {}) /\ calls \in Seq(Frames)
    BY <2>7 DEF ValuesInv, Typed
  <2> QED
    BY <1>1, <2>6, <2>8, <2>9, <2>10, FramesKept
<1>6. CASE Descend
  <2> DEFINE e == [f EXCEPT !.below = Tail(@)]
             s == Append(Front(calls), e)
             g == Head(f.below)
  <2>1. f \in ResetFrames /\ f.below # <<>> /\ f.op = "resetAll"
    BY <1>2, <1>6, FrameKinds DEF Descend
  <2>2. /\ g \in Groups /\ e \in Frames
        /\ e.op = "resetAll" /\ e.group = f.group /\ e.left = f.left /\ e.touched = f.touched /\ e.below = Tail(f.below)
    BY <2>1, AdvancedTyped, ResetFramesAreFrames DEF ResetFrames
  <2>3. Range(f.below) \subseteq Range(Tail(f.below)) \union {g}
    <3>1. f.below \in Seq(Groups)
      BY <2>1 DEF ResetFrames
    <3>2. ASSUME NEW i \in 1..Len(f.below), i # 1 PROVE f.below[i] \in Range(Tail(f.below))
      <4>1. i - 1 \in DOMAIN Tail(f.below) /\ Tail(f.below)[i - 1] = f.below[i]
        BY <2>1, <3>1, <3>2
      <4> QED
        BY <4>1 DEF Range
    <3>3. g = f.below[1]
      BY <3>1
    <3>4. DOMAIN f.below = 1..Len(f.below)
      BY <3>1
    <3> QED
      BY <3>2, <3>3, <3>4 DEF Range
  <2>4. calls' = Append(s, Resetting(g)) /\ UNCHANGED object
    BY <1>6 DEF Descend
  <2> HIDE DEF e, f, g
  <2>5. s \in Seq(Frames) /\ Len(s) = n /\ s[n] = e /\ \A i \in 1..(n - 1) : s[i] = calls[i]
    BY <1>2, <2>2
  <2> HIDE DEF s
  <2>6. ASSUME NEW i \in 1..Len(s)
        PROVE  /\ s[i].op = calls[i].op
               /\ s[i].op = "resetAll" =>
                    /\ s[i].group = calls[i].group /\ s[i].touched = calls[i].touched /\ s[i].left = calls[i].left
                    /\ Range(calls[i].below) \subseteq
                         Range(s[i].below) \union IF i = Len(s) THEN {g} ELSE {}
    <3>1. CASE i = n
      BY <1>2, <2>1, <2>2, <2>3, <2>5, <3>1
    <3>2. CASE i # n
      <4>1. i \in 1..(n - 1)
        BY <1>2, <2>5, <3>2
      <4> QED
        BY <2>5, <4>1
    <3> QED
      BY <3>1, <3>2
  <2> QED
    BY <1>1, <2>2, <2>4, <2>5, <2>6, CalledResets
<1> QED
  BY <1>3, <1>4, <1>5, <1>6 DEF Continue

-----------------------------------------------------------------------------
(* The three invariants together, of every behaviour.                         *)
IInv == GroupInv /\ ValuesInv /\ ResetInv

LEMMA Start == Init => IInv
<1> SUFFICES ASSUME Init PROVE IInv
  OBVIOUS
<1>1. GroupInv /\ ValuesInv
  BY GroupStart, ValuesStart DEF Init
<1>2. ResetInv
  BY DEF Init, ResetInv
<1> QED
  BY <1>1, <1>2 DEF IInv

LEMMA Step == IInv /\ [Next]_vars => IInv'
<1> SUFFICES ASSUME IInv, [Next]_vars PROVE IInv'
  OBVIOUS
<1>1. GroupInv /\ ValuesInv /\ ResetInv /\ GroupTypeOK
  BY GroupInvTypes DEF IInv
<1>2. ValuesInv'
  BY <1>1, ValuesStep
<1>3. CASE Continue
  <2>1. UNCHANGED groupVars
    BY <1>3 DEF Continue, ReturnFromCallback, FinishReset, ResetNext, Descend, ReturnFromResetAll
  <2>2. GroupInv'
    BY <1>1, <2>1 DEF GroupInv, GroupTypes, IndicesExact, groupVars
  <2> QED
    BY <1>1, <1>2, <1>3, <2>2, ContinueResets DEF IInv
<1>4. CASE ChangeGroups
  <2>1. GroupInv'
    BY <1>1, <1>4, GroupStep DEF ChangeGroups
  <2>2. ResetInv'
    BY <1>4 DEF ChangeGroups, ResetInv
  <2> QED
    BY <1>2, <2>1, <2>2 DEF IInv
<1>5. ASSUME NEW p \in Params, Call(p) PROVE IInv'
  <2>1. UNCHANGED groupVars
    BY <1>5 DEF Call, SetValue, StepValue, AddOption, GetSmoothedValue, Trigger, Consume, SetRange, SetStepSize,
         SetOptions, EnableSmoothing, SetChangeCallback, RemoveChangeCallback, Reset, Silently
  <2>2. GroupInv'
    BY <1>1, <2>1 DEF GroupInv, GroupTypes, IndicesExact, groupVars
  <2> QED
    BY <1>1, <1>2, <1>5, <2>2, CallResets DEF IInv
<1>6. ASSUME NEW g \in Groups, ResetAll(g) PROVE IInv'
  <2>1. GroupInv'
    BY <1>1, <1>6 DEF ResetAll, GroupInv, GroupTypes, IndicesExact, groupVars
  <2> QED
    BY <1>1, <1>2, <1>6, <2>1, ResetAllResets DEF IInv
<1>7. CASE UNCHANGED vars
  <2>1. GroupInv'
    BY <1>1, <1>7 DEF GroupInv, GroupTypes, IndicesExact, groupVars, vars
  <2>2. \A q \in Params : AtDefault(q) => AtDefault(q)'
    BY <1>7 DEF AtDefault, EmptyEnum, vars
  <2>3. ResetInv'
    BY <1>1, <1>7, <2>2, StackKept DEF vars, groupVars
  <2> QED
    BY <1>2, <2>1, <2>3 DEF IInv
<1> QED
  BY <1>3, <1>4, <1>5, <1>6, <1>7 DEF Next

(* The values, what callbacks were told, the groups' lookups and the progress *)
(* of every resetAll() are as the invariants say in every state.              *)
THEOREM ParametersInvariance == Spec => []IInv
<1> QED
  BY Start, Step, PTL DEF Spec

(* Every parameter holds a value that its own setter could have given it,     *)
(* whatever setters, ranges, steps, options, resets and callbacks came before.*)
THEOREM LegalAlways == Spec => []ValuesLegal
<1>1. IInv => ValuesLegal
  <2> SUFFICES ASSUME IInv PROVE ValuesLegal
    OBVIOUS
  <2>1. GroupInv /\ AllLegal /\ Typed
    BY DEF IInv, ValuesInv
  <2>2. TypeOK
    BY <2>1, GroupInvTypes DEF Typed, TypeOK
  <2>3. \A p \in Params : \A l \in Losses : l \in Lost(p) <=> <<p, l>> \in lapsed
    BY DEF Lost
  <2>4. InRange
    BY <2>1, <2>3 DEF AllLegal, Legal, InRange, Empty, EmptyEnum, Losses
  <2>5. OnGrid
    BY <2>1, <2>3 DEF AllLegal, Legal, OnGrid, Losses
  <2> QED
    BY <2>2, <2>4, <2>5 DEF ValuesLegal
<1> QED
  BY <1>1, ParametersInvariance, PTL

(* What a change callback was told last is the value, however callbacks set   *)
(* parameters again before they return.                                       *)
THEOREM HeardAlways == Spec => []HeardIsCurrent
<1>1. IInv => HeardIsCurrent
  BY DEF IInv, ValuesInv
<1> QED
  BY <1>1, ParametersInvariance, PTL

(* getParameter() and getGroup() find what is there under one name, and the   *)
(* groups are a forest, whatever was added, removed, renamed and cleared.     *)
THEOREM LookupsAlways == Spec => []LookupsExact
<1>1. IInv => LookupsExact
  BY GroupInvLookups DEF IInv
<1> QED
  BY <1>1, ParametersInvariance, PTL

(* resetAll() reaches the whole tree, whatever its callbacks do meanwhile.    *)
THEOREM ResetReachesTree == Spec => []ResetReaches
<1>1. IInv => ResetReaches
  BY FinishedReaches DEF IInv, ResetReaches, Done
<1> QED
  BY <1>1, ParametersInvariance, PTL

-----------------------------------------------------------------------------
(* Presets.                                                                   *)
PresetIInv == PresetTypeOK /\ OwnFile /\ CurrentListed

storage == [n \in DOMAIN presets |-> file[presets[n]]]

-----------------------------------------------------------------------------
LEMMA PathType ==
  ASSUME PresetTypeOK, NEW n \in PresetNames
  PROVE  BuildPresetPath(n) \in Path /\ BuildPresetPath(n).name = n
BY DEF PresetTypeOK, BuildPresetPath, Path

(* A file of a preset's own is no other preset's.                             *)
LEMMA FilesApart ==
  ASSUME PresetTypeOK, OwnFile, NEW n \in DOMAIN presets, NEW m \in DOMAIN presets, presets[n] = presets[m]
  PROVE  n = m
BY DEF OwnFile

LEMMA IndexType ==
  ASSUME PresetTypeOK, NEW n \in DOMAIN presets
  PROVE  n \in PresetNames /\ presets[n] \in Path /\ file[presets[n]] \in Contents \union {Missing}
BY DEF PresetTypeOK, Range

(* What is written is the content of a file, broken off or not.               *)
LEMMA PartsAreContents ==
  ASSUME NEW c \in Contents, NEW p \in Parts(c)
  PROVE  p \in Contents
BY DEF Parts, Contents

LEMMA WholeIsContents ==
  ASSUME NEW s \in Formats, NEW v \in Variants
  PROVE  [format |-> s, variant |-> v] \in Whole /\ [format |-> s, variant |-> v] \in Contents
BY DEF Whole, Contents

THEOREM PresetInitEstablishes == PresetInit => PresetIInv
<1> SUFFICES ASSUME PresetInit PROVE PresetIInv
  OBVIOUS
<1>1. DOMAIN presets = {}
  BY DEF PresetInit
<1>2. OwnFile /\ CurrentListed
  BY <1>1 DEF PresetInit, OwnFile, CurrentListed
<1>3. Range(presets) = {}
  BY <1>1 DEF Range
<1>4. file \in [Path -> Contents \union {Missing}] /\ DOMAIN presets \subseteq PresetNames /\ Range(presets) \subseteq Path
  BY <1>1, <1>3 DEF PresetInit
<1>5. presetDirectory \in Dirs /\ serializer \in Formats \union {NoSerializer} /\ currentPreset \in PresetNames \union {NoPreset}
  BY PresetAssumption DEF PresetInit
<1>6. meddling \in 0..MaxMeddling
  BY PresetAssumption DEF PresetInit
<1>7. modified = FALSE /\ rescanned = FALSE
  BY DEF PresetInit
<1> QED
  BY <1>2, <1>4, <1>5, <1>6, <1>7 DEF PresetIInv, PresetTypeOK

-----------------------------------------------------------------------------
(* The types: one step per action.                                            *)
LEMMA TypePreserved ==
  ASSUME PresetTypeOK, [PresetNext]_presetVars
  PROVE  PresetTypeOK'
<1> USE DEF PresetTypeOK
<1>1. ASSUME NEW d \in Dirs, SetPresetDirectory(d) PROVE PresetTypeOK'
  BY <1>1 DEF SetPresetDirectory
<1>2. ASSUME NEW s \in Formats \union {NoSerializer}, SetSerializer(s) PROVE PresetTypeOK'
  BY <1>2 DEF SetSerializer
<1>3. ASSUME ScanPresets PROVE PresetTypeOK'
  <2>1. PICK S \in SUBSET {f.name : f \in Scannable} : presets' \in [S -> Scannable]
    BY <1>3 DEF ScanPresets
  <2>2. Scannable \subseteq Path /\ {f.name : f \in Scannable} \subseteq PresetNames
    BY DEF Scannable, Path
  <2>3. DOMAIN presets' \subseteq PresetNames /\ Range(presets') \subseteq Path
    BY <2>1, <2>2 DEF Range
  <2>4. rescanned' \in BOOLEAN
    BY <1>3 DEF ScanPresets
  <2> QED
    BY <1>3, <2>3, <2>4 DEF ScanPresets, settings
<1>4. ASSUME NEW n \in PresetNames, SavePreset(n) PROVE PresetTypeOK'
  <2>1. BuildPresetPath(n) \in Path
    BY PathType
  <2>2. PICK v \in Variants :
          file' = [file EXCEPT ![BuildPresetPath(n)] = [format |-> serializer, variant |-> v]]
    BY <1>4 DEF SavePreset
  <2>3. [format |-> serializer, variant |-> v] \in Contents
    BY <1>4, WholeIsContents DEF SavePreset, CanSave
  <2>4. file' \in [Path -> Contents \union {Missing}]
    BY <2>2, <2>3
  <2>5. DOMAIN presets' \subseteq PresetNames /\ Range(presets') \subseteq Path
    BY <1>4, <2>1 DEF SavePreset, Indexed, Range
  <2> QED
    BY <1>4, <2>4, <2>5 DEF SavePreset, settings
<1>5. ASSUME NEW n \in PresetNames, SaveBreaksOff(n) PROVE PresetTypeOK'
  <2>1. PICK v \in Variants : \E c \in Parts([format |-> serializer, variant |-> v]) :
          file' = [file EXCEPT ![BuildPresetPath(n)] = c]
    BY <1>5 DEF SaveBreaksOff
  <2>2. [format |-> serializer, variant |-> v] \in Contents
    BY <1>5, WholeIsContents DEF SaveBreaksOff, CanSave
  <2>3. file' \in [Path -> Contents \union {Missing}]
    BY <2>1, <2>2, PartsAreContents
  <2> QED
    BY <1>5, <2>3 DEF SaveBreaksOff, settings
<1>6. ASSUME NEW n \in PresetNames, LoadPreset(n) PROVE PresetTypeOK'
  BY <1>6 DEF LoadPreset, settings
<1>7. ASSUME NEW n \in PresetNames, DeletePreset(n) PROVE PresetTypeOK'
  <2>1. DOMAIN presets' \subseteq PresetNames /\ Range(presets') \subseteq Path
    BY <1>7 DEF DeletePreset, Unindexed, Range
  <2>2. file' \in [Path -> Contents \union {Missing}]
    BY <1>7 DEF DeletePreset
  <2>3. currentPreset' \in PresetNames \union {NoPreset} /\ rescanned' \in BOOLEAN
    BY <1>7 DEF DeletePreset, CurrentAfter
  <2> QED
    BY <1>7, <2>1, <2>2, <2>3 DEF DeletePreset, settings
<1>8. ASSUME NEW n \in PresetNames, NEW m \in PresetNames, RenamePreset(n, m) PROVE PresetTypeOK'
  <2>1. BuildPresetPath(m) \in Path /\ file[presets[n]] \in Contents \union {Missing}
    BY <1>8, PathType, IndexType DEF RenamePreset
  <2>2. DOMAIN presets' \subseteq PresetNames /\ Range(presets') \subseteq Path
    BY <1>8, <2>1 DEF RenamePreset, Moved, Range
  <2>3. file' \in [Path -> Contents \union {Missing}]
    BY <1>8, <2>1 DEF RenamePreset
  <2>4. currentPreset' \in PresetNames \union {NoPreset}
    BY <1>8 DEF RenamePreset, CurrentAfter
  <2> QED
    BY <1>8, <2>2, <2>3, <2>4 DEF RenamePreset, settings
<1>9. ASSUME NEW n \in PresetNames, NEW m \in PresetNames, DuplicatePreset(n, m) PROVE PresetTypeOK'
  <2>1. BuildPresetPath(m) \in Path /\ file[presets[n]] \in Contents \union {Missing}
    BY <1>9, PathType, IndexType DEF DuplicatePreset, CanCopy
  <2>2. DOMAIN presets' \subseteq PresetNames /\ Range(presets') \subseteq Path
    BY <1>9, <2>1 DEF DuplicatePreset, CanCopy, Indexed, Range
  <2>3. file' \in [Path -> Contents \union {Missing}]
    BY <1>9, <2>1 DEF DuplicatePreset
  <2> QED
    BY <1>9, <2>2, <2>3 DEF DuplicatePreset, settings
<1>10. ASSUME NEW flag \in BOOLEAN, MarkAsModified(flag) PROVE PresetTypeOK'
  BY <1>10 DEF MarkAsModified, settings
<1>11. ASSUME NEW f \in Path, NEW c \in Contents \union {Missing}, Meddle(f, c) PROVE PresetTypeOK'
  BY <1>11, PresetAssumption DEF Meddle, settings
<1>12. CASE UNCHANGED presetVars
  BY <1>12 DEF presetVars
<1>13. ASSUME NEW n \in PresetNames, NEW m \in PresetNames, CopyBreaksOff(n, m) PROVE PresetTypeOK'
  <2>1. file[presets[n]] \in Contents
    BY <1>13, IndexType DEF CopyBreaksOff, CanCopy, Exists
  <2>2. file' \in [Path -> Contents \union {Missing}]
    BY <1>13, <2>1, PartsAreContents DEF CopyBreaksOff
  <2> QED
    BY <1>13, <2>2 DEF CopyBreaksOff, settings
<1> QED
  BY <1>1, <1>2, <1>3, <1>4, <1>5, <1>6, <1>7, <1>8, <1>9, <1>10, <1>11, <1>12, <1>13
  DEF PresetNext

-----------------------------------------------------------------------------
(* What the operations on the index do to it.                                 *)
LEMMA OwnFilePreserved ==
  ASSUME PresetTypeOK, OwnFile, [PresetNext]_presetVars
  PROVE  OwnFile'
<1>1. CASE UNCHANGED presets
  BY <1>1 DEF OwnFile
<1>2. CASE ScanPresets
  BY <1>2 DEF ScanPresets, OwnFile
<1>3. ASSUME NEW n \in PresetNames, SavePreset(n) PROVE OwnFile'
  BY <1>3, PathType DEF SavePreset, Indexed, OwnFile
<1>4. ASSUME NEW n \in PresetNames, DeletePreset(n) PROVE OwnFile'
  BY <1>4 DEF DeletePreset, Unindexed, OwnFile
<1>5. ASSUME NEW n \in PresetNames, NEW m \in PresetNames, RenamePreset(n, m) PROVE OwnFile'
  BY <1>5, PathType DEF RenamePreset, Moved, OwnFile
<1>6. ASSUME NEW n \in PresetNames, NEW m \in PresetNames, DuplicatePreset(n, m) PROVE OwnFile'
  BY <1>6, PathType DEF DuplicatePreset, Indexed, OwnFile
<1> QED
  BY <1>1, <1>2, <1>3, <1>4, <1>5, <1>6
  DEF PresetNext, presetVars, SetPresetDirectory, SetSerializer, SaveBreaksOff, CopyBreaksOff, LoadPreset,
      MarkAsModified, Meddle

LEMMA CurrentPreserved ==
  ASSUME PresetTypeOK, CurrentListed, [PresetNext]_presetVars
  PROVE  CurrentListed'
<1> USE DEF CurrentListed
<1>1. CASE UNCHANGED <<presets, currentPreset, rescanned>>
  BY <1>1
<1>2. CASE ScanPresets
  BY <1>2 DEF ScanPresets
<1>3. ASSUME NEW n \in PresetNames, SavePreset(n) PROVE CurrentListed'
  BY <1>3 DEF SavePreset, Indexed
<1>4. ASSUME NEW n \in PresetNames, LoadPreset(n) PROVE CurrentListed'
  BY <1>4 DEF LoadPreset
<1>5. ASSUME NEW n \in PresetNames, DeletePreset(n) PROVE CurrentListed'
  BY <1>5 DEF DeletePreset, Unindexed, CurrentAfter
<1>6. ASSUME NEW n \in PresetNames, NEW m \in PresetNames, RenamePreset(n, m) PROVE CurrentListed'
  BY <1>6 DEF RenamePreset, Moved, CurrentAfter
<1>7. ASSUME NEW n \in PresetNames, NEW m \in PresetNames, DuplicatePreset(n, m) PROVE CurrentListed'
  BY <1>7 DEF DuplicatePreset, Indexed
<1> QED
  BY <1>1, <1>2, <1>3, <1>4, <1>5, <1>6, <1>7
  DEF PresetNext, presetVars, SetPresetDirectory, SetSerializer, SaveBreaksOff, CopyBreaksOff, MarkAsModified,
      Meddle

THEOREM PresetInvariance == PresetSpec => []PresetIInv
<1>1. PresetIInv /\ [PresetNext]_presetVars => PresetIInv'
  BY TypePreserved, OwnFilePreserved, CurrentPreserved DEF PresetIInv
<1> QED
  BY <1>1, PresetInitEstablishes, PTL DEF PresetSpec

(* Files, index, current preset and settings are typed.                       *)
THEOREM PresetTypeCorrect == PresetSpec => []PresetTypeOK
BY PresetInvariance, PTL DEF PresetIInv

(* The file of a preset is its own: no call on one preset reaches another's.  *)
THEOREM FilesOwned == PresetSpec => []OwnFile
BY PresetInvariance, PTL DEF PresetIInv

(* The current preset is in the index until a scan no longer finds it.        *)
THEOREM CurrentKnown == PresetSpec => []CurrentListed
BY PresetInvariance, PTL DEF PresetIInv

-----------------------------------------------------------------------------
(* Refinement.  A call that leaves index, current preset, flag and the files  *)
(* in the index alone is a stutter of the store.                              *)
LEMMA StepImplements ==
  ASSUME PresetIInv, [PresetNext]_presetVars
  PROVE  [Store!StoreNext]_(Store!storeVars)
<1> USE DEF PresetIInv
<1>1. CASE UNCHANGED <<file, presets, currentPreset, modified, meddling>>
  BY <1>1 DEF Store!storeVars
<1>2. CASE ScanPresets
  <2>1. PICK S \in SUBSET {f.name : f \in Scannable} : presets' \in [S -> Scannable]
    BY <1>2 DEF ScanPresets
  <2>2. S \subseteq PresetNames
    BY <2>1 DEF Scannable, Path
  <2>3. \A f \in Scannable : file[f] \in Contents
    BY DEF Scannable, Exists, PresetTypeOK
  <2>4. storage' \in [S -> Contents]
    BY <1>2, <2>1, <2>3 DEF storage, ScanPresets
  <2> QED
    BY <1>2, <2>2, <2>4 DEF storage, ScanPresets, Store!Rescanned, Store!StoreNext
<1>3. ASSUME NEW n \in PresetNames, SavePreset(n) PROVE Store!StoreNext
  <2> DEFINE f == BuildPresetPath(n)
  <2>1. \A v \in Variants : [format |-> serializer, variant |-> v] \in Whole
    BY <1>3, WholeIsContents DEF SavePreset, CanSave, PresetTypeOK
  <2>2. PICK c \in Whole : file' = [file EXCEPT ![f] = c]
    BY <1>3, <2>1 DEF SavePreset
  <2>3. f \in Path /\ f.name = n
    BY PathType
  <2>4. \A m \in DOMAIN presets : m # n => presets[m] # f
    BY <2>3 DEF OwnFile
  <2> HIDE DEF f
  <2>5. presets' = Indexed(n, f)
    BY <1>3 DEF SavePreset, f
  <2>6. storage' = [m \in DOMAIN presets \union {n} |-> IF m = n THEN c ELSE storage[m]]
    BY <2>2, <2>3, <2>4, <2>5, IndexType DEF storage, Indexed, PresetTypeOK
  <2>7. Store!Saved(n, c)
    BY <1>3, <2>6 DEF Store!Saved, Store!Put, Store!Listed, storage, SavePreset
  <2> QED
    BY <2>7 DEF Store!StoreNext
<1>4. ASSUME NEW n \in PresetNames, SaveBreaksOff(n) PROVE [Store!StoreNext]_(Store!storeVars)
  <2> DEFINE f == BuildPresetPath(n)
  <2>1. f \in Path /\ f.name = n
    BY PathType
  <2>2. \A m \in DOMAIN presets : m # n => presets[m] # f
    BY <2>1 DEF OwnFile
  <2> HIDE DEF f
  <2>3. PICK c \in Contents : file' = [file EXCEPT ![f] = c] /\ presets' = presets
    <3>1. PICK v \in Variants : \E c \in Parts([format |-> serializer, variant |-> v]) :
            file' = [file EXCEPT ![f] = c]
      BY <1>4 DEF SaveBreaksOff, f
    <3>2. [format |-> serializer, variant |-> v] \in Contents
      BY <1>4, WholeIsContents DEF SaveBreaksOff, CanSave, PresetTypeOK
    <3> QED
      BY <1>4, <3>1, <3>2, PartsAreContents DEF SaveBreaksOff
  <2>4. CASE n \in DOMAIN presets /\ presets[n] = f
    <3>1. storage' = [m \in DOMAIN presets \union {n} |-> IF m = n THEN c ELSE storage[m]]
      BY <2>1, <2>2, <2>3, <2>4, IndexType DEF storage, PresetTypeOK
    <3>2. Store!BrokeOff(n, c)
      BY <1>4, <2>4, <3>1 DEF Store!BrokeOff, Store!Put, Store!Listed, storage, SaveBreaksOff
    <3> QED
      BY <3>2 DEF Store!StoreNext
  <2>5. CASE ~(n \in DOMAIN presets /\ presets[n] = f)
    <3>1. storage' = storage
      BY <2>2, <2>3, <2>5, IndexType DEF storage, PresetTypeOK
    <3> QED
      BY <1>4, <3>1 DEF Store!storeVars, storage, SaveBreaksOff
  <2> QED
    BY <2>4, <2>5
<1>5. ASSUME NEW n \in PresetNames, LoadPreset(n) PROVE Store!StoreNext
  <2>1. serializer \in Formats /\ file[presets[n]] \in Readable(serializer)
    BY <1>5 DEF LoadPreset, PresetTypeOK
  <2>2. file[presets[n]] \in [format : Formats, variant : Variants \union {Cut}]
    BY <2>1 DEF Readable
  <2>3. file[presets[n]] \notin {Missing, Broken}
    BY <2>2, PresetAssumption DEF Contents
  <2>4. Store!Loaded(n)
    BY <1>5, <2>3 DEF Store!Loaded, Store!Listed, LoadPreset
  <2> QED
    BY <2>4 DEF Store!StoreNext
<1>6. ASSUME NEW n \in PresetNames, DeletePreset(n) PROVE Store!StoreNext
  <2>1. \A m \in DOMAIN presets : m # n => presets[m] # presets[n]
    BY <1>6 DEF OwnFile, DeletePreset
  <2>2. storage' = [m \in DOMAIN presets \ {n} |-> storage[m]]
    BY <1>6, <2>1, IndexType DEF storage, DeletePreset, Unindexed, PresetTypeOK
  <2>3. Store!Deleted(n)
    BY <1>6, <2>2 DEF Store!Deleted, Store!Drop, Store!Listed, storage, DeletePreset, CurrentAfter
  <2> QED
    BY <2>3 DEF Store!StoreNext
<1>7. ASSUME NEW n \in PresetNames, NEW m \in PresetNames, RenamePreset(n, m) PROVE Store!StoreNext
  <2> DEFINE f == BuildPresetPath(m)
  <2>1. f \in Path /\ f.name = m
    BY PathType
  <2>2. n \in DOMAIN presets /\ m \notin DOMAIN presets /\ n # m
    BY <1>7 DEF RenamePreset
  <2>3. \A k \in DOMAIN presets : presets[k] # f /\ (k # n => presets[k] # presets[n])
    BY <2>1, <2>2 DEF OwnFile
  <2> HIDE DEF f
  <2>4. /\ file' = [file EXCEPT ![f] = file[presets[n]], ![presets[n]] = Missing]
        /\ presets' = [k \in (DOMAIN presets \ {n}) \union {m} |-> IF k = m THEN f ELSE presets[k]]
    BY <1>7 DEF RenamePreset, Moved, f
  <2>5. file'[f] = file[presets[n]]
    BY <2>1, <2>2, <2>3, <2>4, IndexType DEF PresetTypeOK
  <2>6. \A k \in DOMAIN presets \ {n} : file'[presets[k]] = file[presets[k]]
    BY <2>3, <2>4, IndexType DEF PresetTypeOK
  <2>7. storage' = [k \in (DOMAIN presets \ {n}) \union {m} |-> IF k = m THEN storage[n] ELSE storage[k]]
    BY <2>2, <2>4, <2>5, <2>6 DEF storage
  <2>8. Store!Renamed(n, m)
    BY <1>7, <2>2, <2>7 DEF Store!Renamed, Store!Listed, storage, RenamePreset, CurrentAfter
  <2> QED
    BY <2>8 DEF Store!StoreNext
<1>8. ASSUME NEW n \in PresetNames, NEW m \in PresetNames, DuplicatePreset(n, m) PROVE Store!StoreNext
  <2> DEFINE f == BuildPresetPath(m)
  <2>1. f \in Path /\ f.name = m
    BY PathType
  <2>2. n \in DOMAIN presets /\ m \notin DOMAIN presets
    BY <1>8 DEF DuplicatePreset, CanCopy
  <2>3. \A k \in DOMAIN presets : presets[k] # f
    BY <2>1, <2>2 DEF OwnFile
  <2> HIDE DEF f
  <2>4. file' = [file EXCEPT ![f] = file[presets[n]]] /\ presets' = Indexed(m, f)
    BY <1>8 DEF DuplicatePreset, f
  <2>5. storage' = [k \in DOMAIN presets \union {m} |-> IF k = m THEN storage[n] ELSE storage[k]]
    BY <2>1, <2>2, <2>3, <2>4, IndexType DEF storage, Indexed, PresetTypeOK
  <2>6. Store!Duplicated(n, m)
    BY <1>8, <2>2, <2>5 DEF Store!Duplicated, Store!Put, Store!Listed, storage, DuplicatePreset
  <2> QED
    BY <2>6 DEF Store!StoreNext
<1>9. ASSUME NEW flag \in BOOLEAN, MarkAsModified(flag) PROVE Store!StoreNext
  BY <1>9 DEF MarkAsModified, Store!Marked, Store!StoreNext
<1>10. ASSUME NEW f \in Path, NEW c \in Contents \union {Missing}, Meddle(f, c) PROVE Store!StoreNext
  <2>1. file' \in [Path -> Contents \union {Missing}] /\ presets' = presets
    BY <1>10 DEF Meddle, PresetTypeOK
  <2>2. storage' \in [DOMAIN presets -> Contents \union {Missing}]
    BY <2>1, IndexType DEF storage
  <2>3. Store!Meddled
    BY <1>10, <2>2 DEF Store!Meddled, Store!Listed, storage, Meddle
  <2> QED
    BY <2>3 DEF Store!StoreNext
<1>11. ASSUME NEW n \in PresetNames, NEW m \in PresetNames, CopyBreaksOff(n, m)
       PROVE  UNCHANGED Store!storeVars
  <2> DEFINE f == BuildPresetPath(m)
  <2>1. f \in Path /\ f.name = m
    BY PathType
  <2>2. n \in DOMAIN presets /\ m \notin DOMAIN presets
    BY <1>11 DEF CopyBreaksOff, CanCopy
  <2>3. \A k \in DOMAIN presets : presets[k] # f
    BY <2>1, <2>2 DEF OwnFile
  <2> HIDE DEF f
  <2>4. (\E c : file' = [file EXCEPT ![f] = c]) /\ presets' = presets
    BY <1>11 DEF CopyBreaksOff, f
  <2>5. storage' = storage
    BY <2>3, <2>4, IndexType DEF storage, PresetTypeOK
  <2> QED
    BY <1>11, <2>5 DEF Store!storeVars, storage, CopyBreaksOff
<1> QED
  BY <1>1, <1>2, <1>3, <1>4, <1>5, <1>6, <1>7, <1>8, <1>9, <1>10, <1>11
  DEF PresetNext, presetVars, settings, SetPresetDirectory, SetSerializer

(* The index with the files behind it behaves as the store of presets that    *)
(* PresetStore describes: files and paths cannot be told from outside.        *)
THEOREM Implements == PresetSpec => IsPresetStore
<1>1. PresetInit => Store!StoreInit
  BY DEF PresetInit, Store!StoreInit
<1>2. PresetIInv /\ [PresetNext]_presetVars => [Store!StoreNext]_(Store!storeVars)
  BY StepImplements
<1> QED
  BY <1>1, <1>2, PresetInvariance, PTL DEF PresetSpec, IsPresetStore, Store!StoreSpec
=============================================================================
