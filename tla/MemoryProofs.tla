----------------------------- MODULE MemoryProofs -----------------------------
(***************************************************************************)
(* The two parts of core/memory.  The ring between one producer and one    *)
(* consumer is a first-in first-out queue, for every capacity, set of      *)
(* samples and size of calls, but for the time a clear() crosses a call of *)
(* the other thread; even then no index leaves the buffer.  Every block of *)
(* the allocators has one place, for any number of allocators, blocks,     *)
(* scoped blocks and pointers: the places of a block are counted, and      *)
(* every operation takes one where it adds one.                            *)
(***************************************************************************)
EXTENDS CircularBuffer, BlockAllocators, SequenceTheorems, FiniteSetTheorems, TLAPS

-----------------------------------------------------------------------------
(* Arithmetic of the ring.                                                    *)
LEMMA ModuloBelow ==
  ASSUME NEW c \in Nat \ {0}, NEW a \in 0..(c - 1)
  PROVE  a % c = a
  OBVIOUS

LEMMA ModuloWrapped ==
  ASSUME NEW c \in Nat \ {0}, NEW a \in c..(2 * c - 1)
  PROVE  a % c = a - c
  OBVIOUS

(* An index advanced by less than a turn.                                     *)
LEMMA AdvanceValue ==
  ASSUME NEW i \in Slots, NEW n \in Slots
  PROVE  /\ Advance(i, n) = IF i + n < Capacity THEN i + n ELSE i + n - Capacity
         /\ Advance(i, n) \in Slots
<1>1. CASE i + n < Capacity
  <2>1. Advance(i, n) = i + n
    BY <1>1, ModuloBelow, ConstantsAssumption DEF Advance, Slots
  <2> QED
    BY <1>1, <2>1, ConstantsAssumption DEF Slots
<1>2. CASE i + n >= Capacity
  <2>1. Advance(i, n) = i + n - Capacity
    BY <1>2, ModuloWrapped, ConstantsAssumption DEF Advance, Slots
  <2> QED
    BY <1>2, <2>1, ConstantsAssumption DEF Slots
<1> QED
  BY <1>1, <1>2, ConstantsAssumption DEF Slots

(* The number of samples between two indices is less than a turn, advancing   *)
(* by it leads from one to the other, and it is the only such number.         *)
LEMMA DistanceValue ==
  ASSUME NEW r \in Slots, NEW w \in Slots
  PROVE  /\ AvailableForRead(r, w) \in Slots
         /\ Advance(r, AvailableForRead(r, w)) = w
         /\ \A n \in Slots : Advance(r, n) = w => n = AvailableForRead(r, w)
<1> DEFINE d == AvailableForRead(r, w)
<1>1. d \in Slots /\ (IF r + d < Capacity THEN r + d ELSE r + d - Capacity) = w
  BY ConstantsAssumption DEF AvailableForRead, Slots
<1>2. ASSUME NEW n \in Slots, Advance(r, n) = w
      PROVE  n = d
  <2>1. (IF r + n < Capacity THEN r + n ELSE r + n - Capacity) = w
    BY <1>2, AdvanceValue
  <2> QED
    BY <2>1, ConstantsAssumption DEF AvailableForRead, Slots
<1>3. Advance(r, d) = w
  BY <1>1, AdvanceValue
<1> QED
  BY <1>1, <1>2, <1>3

LEMMA DistanceNumber ==
  ASSUME NEW r \in Slots, NEW w \in Slots
  PROVE  AvailableForRead(r, w) \in Nat /\ AvailableForRead(r, w) < Capacity
  BY ConstantsAssumption DEF AvailableForRead, Slots

(* Numbers of samples add up while they stay below a turn.                    *)
LEMMA DistancesAdd ==
  ASSUME NEW a \in Slots, NEW b \in Slots, NEW c \in Slots
  PROVE  /\ AvailableForRead(a, b) + AvailableForRead(b, c) < Capacity
              => AvailableForRead(a, c) = AvailableForRead(a, b) + AvailableForRead(b, c)
         /\ AvailableForRead(a, b) <= AvailableForRead(a, c)
              => AvailableForRead(b, c) = AvailableForRead(a, c) - AvailableForRead(a, b)
  BY ConstantsAssumption DEF AvailableForRead, Slots

(* Advancing twice.                                                           *)
LEMMA AdvanceAdd ==
  ASSUME NEW i \in Slots, NEW n \in Slots, NEW k \in Slots, n + k < Capacity
  PROVE  Advance(Advance(i, n), k) = Advance(i, n + k)
<1>1. n + k \in Slots
  BY ConstantsAssumption DEF Slots
<1>2. Advance(i, n + k) = IF i + (n + k) < Capacity THEN i + (n + k) ELSE i + (n + k) - Capacity
  BY <1>1, AdvanceValue
<1> DEFINE j == Advance(i, n)
<1>3. j \in Slots /\ j = IF i + n < Capacity THEN i + n ELSE i + n - Capacity
  BY AdvanceValue
<1> HIDE DEF j
<1>4. Advance(j, k) = IF j + k < Capacity THEN j + k ELSE j + k - Capacity
  BY <1>3, AdvanceValue
<1>5. Advance(j, k) = Advance(i, n + k)
  BY <1>2, <1>3, <1>4, ConstantsAssumption DEF Slots
<1> QED
  BY <1>5 DEF j

(* One step from b makes one sample more since a, unless that is a full turn. *)
LEMMA AdvanceOne ==
  ASSUME NEW a \in Slots, NEW b \in Slots, AvailableForRead(a, b) + 1 < Capacity
  PROVE  /\ Advance(b, 1) \in Slots
         /\ AvailableForRead(a, Advance(b, 1)) = AvailableForRead(a, b) + 1
<1>1. AvailableForRead(a, b) \in Slots
  BY DistanceValue
<1>2. 1 \in Slots
  BY <1>1, ConstantsAssumption DEF Slots
<1> DEFINE c == Advance(b, 1)
<1>3. c \in Slots /\ c = IF b + 1 < Capacity THEN b + 1 ELSE b + 1 - Capacity
  BY <1>2, AdvanceValue
<1> HIDE DEF c
<1>4. AvailableForRead(a, c) = AvailableForRead(a, b) + 1
  BY <1>1, <1>3, ConstantsAssumption DEF AvailableForRead, Slots
<1> QED
  BY <1>3, <1>4 DEF c

-----------------------------------------------------------------------------
(* The samples of a ring b from index r up to index w.                        *)
Ring(b, r, w) == [i \in 1..AvailableForRead(r, w) |-> b[Advance(r, i - 1)]]

LEMMA RingIsSequence ==
  ASSUME NEW b \in [Slots -> Samples], NEW r \in Slots, NEW w \in Slots
  PROVE  /\ Ring(b, r, w) \in Seq(Samples)
         /\ Len(Ring(b, r, w)) = AvailableForRead(r, w)
         /\ \A i \in 1..AvailableForRead(r, w) : Ring(b, r, w)[i] = b[Advance(r, i - 1)]
<1>1. AvailableForRead(r, w) \in Slots /\ AvailableForRead(r, w) \in Nat
  BY DistanceValue DEF Slots
<1>2. ASSUME NEW i \in 1..AvailableForRead(r, w)
      PROVE  b[Advance(r, i - 1)] \in Samples
  <2>1. i - 1 \in Slots
    BY <1>1, ConstantsAssumption DEF Slots
  <2> QED
    BY <2>1, AdvanceValue
<1>3. Ring(b, r, w) \in [1..AvailableForRead(r, w) -> Samples]
  BY <1>2 DEF Ring
<1> QED
  BY <1>1, <1>3 DEF Ring

(* A write beyond the ring's last sample does not change it.                  *)
LEMMA RingKept ==
  ASSUME NEW b \in [Slots -> Samples], NEW r \in Slots, NEW w \in Slots,
         NEW p \in Slots, AvailableForRead(r, p) >= AvailableForRead(r, w), NEW v \in Samples
  PROVE  Ring([b EXCEPT ![p] = v], r, w) = Ring(b, r, w)
<1>1. AvailableForRead(r, w) \in Slots /\ AvailableForRead(r, p) \in Slots
  BY DistanceValue
<1>2. ASSUME NEW i \in 1..AvailableForRead(r, w)
      PROVE  Advance(r, i - 1) \in Slots /\ Advance(r, i - 1) # p
  <2>1. i - 1 \in Slots /\ i - 1 # AvailableForRead(r, p)
    BY <1>1, ConstantsAssumption DEF Slots
  <2> QED
    BY <2>1, DistanceValue, AdvanceValue
<1>3. \A i \in 1..AvailableForRead(r, w) :
        [b EXCEPT ![p] = v][Advance(r, i - 1)] = b[Advance(r, i - 1)]
  BY <1>2
<1> QED
  BY <1>3 DEF Ring

(* Samples beyond the last one are appended when the last index moves on.     *)
LEMMA RingExtended ==
  ASSUME NEW b \in [Slots -> Samples], NEW r \in Slots, NEW w \in Slots, NEW p \in Slots,
         NEW s \in Seq(Samples), Len(s) = AvailableForRead(w, p),
         AvailableForRead(r, w) + Len(s) < Capacity,
         \A i \in 1..Len(s) : s[i] = b[Advance(w, i - 1)]
  PROVE  Ring(b, r, p) = Ring(b, r, w) \o s
<1> DEFINE d == AvailableForRead(r, w)
<1>1. d \in Slots /\ Len(s) \in Nat
  BY DistanceValue, LenProperties
<1>2. AvailableForRead(r, p) = d + Len(s)
  BY DistancesAdd
<1> DEFINE q == Ring(b, r, w)
           t == Ring(b, r, p)
<1>3. /\ t \in Seq(Samples) /\ Len(t) = d + Len(s)
      /\ \A i \in 1..(d + Len(s)) : t[i] = b[Advance(r, i - 1)]
  <2>1. /\ t \in Seq(Samples) /\ Len(t) = AvailableForRead(r, p)
        /\ \A i \in 1..AvailableForRead(r, p) : t[i] = b[Advance(r, i - 1)]
    BY RingIsSequence
  <2> QED
    BY <2>1, <1>2
<1>4. /\ q \in Seq(Samples) /\ Len(q) = d
      /\ \A i \in 1..d : q[i] = b[Advance(r, i - 1)]
  BY RingIsSequence
<1>5. Advance(r, d) = w
  BY DistanceValue
<1> HIDE DEF d, q, t
<1>6. /\ q \o s \in Seq(Samples) /\ Len(q \o s) = d + Len(s)
      /\ \A i \in 1..(d + Len(s)) : (q \o s)[i] = IF i <= d THEN q[i] ELSE s[i - d]
  BY <1>4, ConcatProperties
<1>7. ASSUME NEW i \in 1..(d + Len(s))
      PROVE  t[i] = (q \o s)[i]
  <2>1. CASE i <= d
    <3>1. i \in 1..d
      BY <2>1, <1>1, ConstantsAssumption DEF Slots
    <3> QED
      BY <2>1, <3>1, <1>3, <1>4, <1>6
  <2>2. CASE ~(i <= d)
    <3> DEFINE k == i - d
    <3>1. k \in 1..Len(s) /\ k - 1 \in Slots /\ d + (k - 1) = i - 1 /\ d + (k - 1) < Capacity
      BY <2>2, <1>1, ConstantsAssumption DEF d, Slots
    <3>2. Advance(w, k - 1) = Advance(r, i - 1)
      <4> HIDE DEF k
      <4> QED
        BY <3>1, <1>1, <1>5, AdvanceAdd
    <3>3. (q \o s)[i] = s[k]
      BY <2>2, <1>6
    <3>4. s[k] = b[Advance(w, k - 1)]
      BY <3>1
    <3> QED
      BY <3>2, <3>3, <3>4, <1>3
  <2> QED
    BY <2>1, <2>2
<1>8. t = q \o s
  BY <1>3, <1>6, <1>7, SeqEqual
<1> QED
  BY <1>8 DEF t, q

(* The ring from a later index is what is left when the first are gone.       *)
LEMMA RingRest ==
  ASSUME NEW b \in [Slots -> Samples], NEW r \in Slots, NEW w \in Slots, NEW c \in Slots,
         AvailableForRead(r, c) <= AvailableForRead(r, w)
  PROVE  /\ AvailableForRead(r, c) \in 0..Len(Ring(b, r, w))
         /\ Ring(b, c, w)
              = SubSeq(Ring(b, r, w), AvailableForRead(r, c) + 1, Len(Ring(b, r, w)))
<1> DEFINE d == AvailableForRead(r, w)
           n == AvailableForRead(r, c)
           q == Ring(b, r, w)
<1>1. d \in Slots /\ n \in Slots /\ n <= d /\ d \in Nat /\ n \in Nat
  BY DistanceValue DEF Slots
<1>2. AvailableForRead(c, w) = d - n
  BY DistancesAdd
<1>3. /\ Ring(b, c, w) \in Seq(Samples) /\ Len(Ring(b, c, w)) = d - n
      /\ \A i \in 1..(d - n) : Ring(b, c, w)[i] = b[Advance(c, i - 1)]
  <2>1. /\ Ring(b, c, w) \in Seq(Samples) /\ Len(Ring(b, c, w)) = AvailableForRead(c, w)
        /\ \A i \in 1..AvailableForRead(c, w) : Ring(b, c, w)[i] = b[Advance(c, i - 1)]
    BY RingIsSequence
  <2> QED
    BY <2>1, <1>2
<1>4. /\ q \in Seq(Samples) /\ Len(q) = d
      /\ \A i \in 1..d : q[i] = b[Advance(r, i - 1)] /\ q[i] \in Samples
  BY RingIsSequence, ElementOfSeq
<1>5. Advance(r, n) = c
  BY DistanceValue
<1> HIDE DEF d, n, q
<1>6. \A i \in (n + 1)..d : q[i] \in Samples
  BY <1>1, <1>4
<1>7. /\ SubSeq(q, n + 1, d) \in Seq(Samples)
      /\ Len(SubSeq(q, n + 1, d)) = d - n
      /\ \A i \in 1..(d - n) : SubSeq(q, n + 1, d)[i] = q[n + i]
  BY <1>1, <1>6, SubSeqProperties
<1>8. ASSUME NEW i \in 1..(d - n)
      PROVE  Ring(b, c, w)[i] = SubSeq(q, n + 1, d)[i]
  <2>1. i - 1 \in Slots /\ n + (i - 1) = (n + i) - 1 /\ n + (i - 1) < Capacity
        /\ n + i \in 1..d
    BY <1>1, ConstantsAssumption DEF Slots
  <2>2. Advance(c, i - 1) = Advance(r, (n + i) - 1)
    BY <2>1, <1>1, <1>5, AdvanceAdd
  <2> QED
    BY <2>1, <2>2, <1>3, <1>4, <1>7
<1>9. Ring(b, c, w) = SubSeq(q, n + 1, d)
  BY <1>3, <1>7, <1>8, SeqEqual
<1> QED
  BY <1>1, <1>4, <1>9 DEF n, q

(* Samples copied from the first index on are a prefix of the ring.           *)
LEMMA RingPrefix ==
  ASSUME NEW b \in [Slots -> Samples], NEW r \in Slots, NEW w \in Slots,
         NEW s \in Seq(Samples), Len(s) <= AvailableForRead(r, w),
         \A i \in 1..Len(s) : s[i] = b[Advance(r, i - 1)]
  PROVE  s = SubSeq(Ring(b, r, w), 1, Len(s))
<1> DEFINE q == Ring(b, r, w)
<1>1. Len(s) \in Nat /\ AvailableForRead(r, w) \in Nat
  BY LenProperties, DistanceValue DEF Slots
<1>2. /\ q \in Seq(Samples)
      /\ \A i \in 1..Len(s) : q[i] = s[i] /\ q[i] \in Samples
  <2>1. /\ q \in Seq(Samples)
        /\ \A i \in 1..AvailableForRead(r, w) : q[i] = b[Advance(r, i - 1)]
    BY RingIsSequence
  <2>2. \A i \in 1..Len(s) : i \in 1..AvailableForRead(r, w) /\ s[i] \in Samples
    BY <1>1, ElementOfSeq
  <2> QED
    BY <2>1, <2>2
<1> HIDE DEF q
<1>3. /\ SubSeq(q, 1, Len(s)) \in Seq(Samples)
      /\ Len(SubSeq(q, 1, Len(s))) = Len(s)
      /\ \A i \in 1..Len(s) : SubSeq(q, 1, Len(s))[i] = q[i]
  BY <1>1, <1>2, SubSeqProperties
<1>4. s = SubSeq(q, 1, Len(s))
  BY <1>2, <1>3, SeqEqual
<1> QED
  BY <1>4 DEF q

-----------------------------------------------------------------------------
(* While no clear() is crossed, a clear() has the ring for itself.            *)
Apart ==
  /\ pStep = "clear" => cStep = "idle"
  /\ cStep = "clear" => pStep = "idle"
  /\ "clear" \in {pStep, cStep} => readIndex = 0

(* The producer's call: what it has copied lies behind writeIndex and, with   *)
(* what it will copy, fits the space it found.                                *)
Producing ==
  /\ pStep = "seen" => pIdx = writeIndex
  /\ pStep = "sized" => AvailableForRead(readIndex, writeIndex) + pLeft < Capacity
  /\ pStep = "copy" => /\ AvailableForRead(writeIndex, pIdx) = Len(pData)
                       /\ AvailableForRead(readIndex, writeIndex) + Len(pData) + pLeft < Capacity
                       /\ \A i \in 1..Len(pData) : pData[i] = buffer[Advance(writeIndex, i - 1)]

(* The consumer's call: what it has copied is what lies behind readIndex and, *)
(* with what it will copy or skip, is no more than what was published.        *)
Copying == cStep = "copy" /\ cOp # "skip"
Skipping == cStep = "copy" /\ cOp = "skip"

Consuming ==
  /\ cStep = "seen" =>
       AvailableForRead(readIndex, cIdx) <= AvailableForRead(readIndex, writeIndex)
  /\ cStep = "sized" => cLeft <= AvailableForRead(readIndex, writeIndex)
  /\ Copying => /\ AvailableForRead(readIndex, cIdx) = Len(cData)
                /\ Len(cData) + cLeft <= AvailableForRead(readIndex, writeIndex)
                /\ \A i \in 1..Len(cData) : cData[i] = buffer[Advance(readIndex, i - 1)]
  /\ Skipping => /\ cLeft = 0
                 /\ AvailableForRead(readIndex, cIdx) <= AvailableForRead(readIndex, writeIndex)

(* Nothing is copied before the copying.                                      *)
Blank == (pStep # "copy" => pData = <<>>) /\ (cStep # "copy" => cData = <<>>)

TInv == TypeOK /\ Blank

Ordered == Apart /\ Producing /\ Consuming

(* The inductive invariant.                                                   *)
IInv == TInv /\ (~crossed => Ordered)

(* The invariant where no clear() is crossed.                                 *)
QInv == TInv /\ Ordered

LEMMA InitEstablishes == Init => QInv
<1> SUFFICES ASSUME Init PROVE QInv
  OBVIOUS
<1>1. 0 \in Slots
  BY ConstantsAssumption DEF Slots
<1>2. buffer \in [Slots -> Samples] /\ <<>> \in Seq(Samples)
  BY ConstantsAssumption, EmptySeq DEF Init
<1>3. TInv
  BY <1>1, <1>2, ConstantsAssumption DEF Init, TInv, TypeOK, Blank, Ops, Steps
<1>4. Ordered
  BY DEF Init, Ordered, Apart, Producing, Consuming, Copying, Skipping
<1> QED
  BY <1>3, <1>4 DEF QInv

(* The smaller of two numbers.                                                *)
LEMMA LeastValue ==
  ASSUME NEW a \in Nat, NEW b \in Nat
  PROVE  Least(a, b) \in Nat /\ Least(a, b) <= a /\ Least(a, b) <= b
  BY DEF Least

(* There is room for less than a turn, whatever two indices were loaded.      *)
LEMMA RoomNumber ==
  ASSUME NEW r \in Slots, NEW w \in Slots
  PROVE  AvailableForWrite(r, w) \in Nat /\ AvailableForRead(r, w) + AvailableForWrite(r, w) < Capacity
<1>1. AvailableForRead(r, w) \in Nat /\ AvailableForRead(r, w) < Capacity
  BY DistanceNumber
<1> QED
  BY <1>1, ConstantsAssumption DEF AvailableForWrite

LEMMA AdvanceStays ==
  ASSUME NEW i \in Slots, NEW n \in Nat
  PROVE  Advance(i, n) \in Slots
  BY ConstantsAssumption DEF Advance, Slots

-----------------------------------------------------------------------------
(* Crossed or not, no index leaves the buffer.                                *)
LEMMA WriteTypes ==
  ASSUME TInv, Write
  PROVE  TInv'
<1> USE DEF TInv, TypeOK, Blank
<1>1. CASE \E n \in Batches : WriteBegin(n)
  BY <1>1, ConstantsAssumption
     DEF WriteBegin, BeginsBeside, shared, consumer, Batches, Steps
<1>2. CASE WriteSize
  <2>1. Least(pLeft, AvailableForWrite(readIndex, pIdx)) \in Nat
    BY RoomNumber, LeastValue
  <2> QED
    BY <1>2, <2>1 DEF WriteSize, shared, consumer, Steps
<1>3. CASE WriteStart
  BY <1>3 DEF WriteStart, shared, consumer, Steps
<1>4. CASE WriteCopy
  <2>1. PICK v \in Samples : buffer' = [buffer EXCEPT ![pIdx] = v] /\ pData' = Append(pData, v)
    BY <1>4 DEF WriteCopy
  <2>2. pData' \in Seq(Samples) /\ buffer' \in [Slots -> Samples]
    BY <2>1, AppendProperties
  <2>3. pLeft' \in Nat /\ pIdx' \in Slots
    BY <1>4, AdvanceStays DEF WriteCopy
  <2> QED
    BY <1>4, <2>2, <2>3 DEF WriteCopy, consumer
<1>5. CASE WriteEnd
  <2>1. 0 \in Slots /\ <<>> \in Seq(Samples)
    BY ConstantsAssumption, EmptySeq DEF Slots
  <2> QED
    BY <1>5, <2>1 DEF WriteEnd, EndsBeside, consumer, Steps
<1> QED
  BY <1>1, <1>2, <1>3, <1>4, <1>5 DEF Write

LEMMA ReadTypes ==
  ASSUME TInv, Read
  PROVE  TInv'
<1> USE DEF TInv, TypeOK, Blank
<1>1. CASE \E op \in Ops, n \in Batches : ReadBegin(op, n)
  BY <1>1, ConstantsAssumption
     DEF ReadBegin, BeginsBeside, shared, producer, Batches, Steps
<1>2. CASE ReadSize
  <2>1. Least(cLeft, AvailableForRead(readIndex, cIdx)) \in Nat
    BY DistanceNumber, LeastValue
  <2> QED
    BY <1>2, <2>1 DEF ReadSize, shared, producer, Steps
<1>3. CASE ReadStart
  BY <1>3 DEF ReadStart, shared, producer, Steps
<1>4. CASE SkipStart
  BY <1>4, AdvanceStays DEF SkipStart, shared, producer, Steps
<1>5. CASE ReadCopy
  <2>1. buffer[cIdx] \in Samples
    OBVIOUS
  <2>2. cData' \in Seq(Samples)
    BY <1>5, <2>1, AppendProperties DEF ReadCopy
  <2>3. cLeft' \in Nat /\ cIdx' \in Slots
    BY <1>5, AdvanceStays DEF ReadCopy
  <2> QED
    BY <1>5, <2>2, <2>3 DEF ReadCopy, shared, producer
<1>6. CASE ReadEnd
  <2>1. 0 \in Slots /\ <<>> \in Seq(Samples)
    BY ConstantsAssumption, EmptySeq DEF Slots
  <2> QED
    BY <1>6, <2>1 DEF ReadEnd, EndsBeside, producer, Steps, Ops
<1> QED
  BY <1>1, <1>2, <1>3, <1>4, <1>5, <1>6 DEF Read

LEMMA ClearTypes ==
  ASSUME TInv, ClearBegin \/ ClearEnd
  PROVE  TInv'
<1> USE DEF TInv, TypeOK, Blank
<1>1. 0 \in Slots
  BY ConstantsAssumption DEF Slots
<1> QED
  BY <1>1 DEF ClearBegin, ClearEnd, BeginsBeside, EndsBeside, Steps

LEMMA TypesKept == TInv /\ [Next]_vars => TInv'
<1> SUFFICES ASSUME TInv, [Next]_vars PROVE TInv'
  OBVIOUS
<1>1. CASE Next
  BY <1>1, WriteTypes, ReadTypes, ClearTypes DEF Next
<1>2. CASE UNCHANGED vars
  BY <1>2 DEF vars, shared, producer, consumer, TInv, TypeOK, Blank
<1> QED
  BY <1>1, <1>2

-----------------------------------------------------------------------------
(* The producer's steps keep the order, where no clear() is crossed.          *)
LEMMA WriteLoadsKeep ==
  ASSUME QInv, ~crossed', (\E n \in Batches : WriteBegin(n)) \/ WriteSize \/ WriteStart
  PROVE  Ordered'
<1> USE DEF QInv, TInv, TypeOK, Ordered
<1>1. UNCHANGED <<shared, pData, consumer>> /\ pStep' # "clear" /\ pStep # "clear"
  BY DEF WriteBegin, WriteSize, WriteStart
<1>2. Apart'
  <2>1. cStep # "clear"
    BY DEF WriteBegin, WriteSize, WriteStart, BeginsBeside, Apart
  <2> QED
    BY <1>1, <2>1 DEF Apart, shared, consumer
<1>3. Consuming'
  BY <1>1 DEF shared, consumer, Consuming, Copying, Skipping
<1>4. Producing'
  <2>1. CASE \E n \in Batches : WriteBegin(n)
    BY <2>1 DEF WriteBegin, shared, Producing
  <2>2. CASE WriteSize
    <3> DEFINE d == AvailableForRead(readIndex, writeIndex)
               m == AvailableForWrite(readIndex, writeIndex)
    <3>1. d \in Nat /\ m \in Nat /\ d + m < Capacity
      BY DistanceNumber, RoomNumber
    <3>2. pLeft' = Least(pLeft, m)
      BY <2>2 DEF WriteSize, Producing
    <3> HIDE DEF m
    <3>3. pLeft' \in Nat /\ pLeft' <= m
      BY <3>1, <3>2, LeastValue
    <3>4. d + pLeft' < Capacity
      <4> HIDE DEF d
      <4>1. ASSUME NEW k \in Nat, k <= m PROVE d + k < Capacity
        BY <3>1, <4>1, ConstantsAssumption
      <4> QED
        BY <3>3, <4>1
    <3> QED
      BY <2>2, <3>4 DEF WriteSize, shared, Producing
  <2>3. CASE WriteStart
    <3>1. AvailableForRead(writeIndex, writeIndex) = 0
      BY ConstantsAssumption DEF AvailableForRead, Slots
    <3>2. pData = <<>> /\ Len(pData) = 0
      BY <2>3 DEF WriteStart, Blank
    <3>3. AvailableForRead(readIndex, writeIndex) \in Nat
      BY DistanceNumber
    <3> QED
      BY <2>3, <3>1, <3>2, <3>3 DEF WriteStart, shared, Producing
  <2> QED
    BY <2>1, <2>2, <2>3
<1> QED
  BY <1>2, <1>3, <1>4

(* The slot a WriteCopy fills is beyond everything published or copied.       *)
LEMMA WriteCopyBeyond ==
  ASSUME QInv, WriteCopy
  PROVE  /\ Len(pData) \in Nat
         /\ AvailableForRead(readIndex, writeIndex) \in Nat
         /\ AvailableForRead(readIndex, writeIndex) + Len(pData) + 1 < Capacity
         /\ AvailableForRead(readIndex, pIdx)
              = AvailableForRead(readIndex, writeIndex) + Len(pData)
<1> USE DEF QInv, TInv, TypeOK, Ordered
<1>1. Len(pData) \in Nat /\ AvailableForRead(readIndex, writeIndex) \in Nat /\ pLeft >= 1
      /\ pLeft \in Nat
  BY LenProperties, DistanceNumber, ConstantsAssumption DEF WriteCopy
<1>2. /\ AvailableForRead(writeIndex, pIdx) = Len(pData)
      /\ AvailableForRead(readIndex, writeIndex) + Len(pData) + pLeft < Capacity
  BY DEF WriteCopy, Producing
<1> QED
  BY <1>1, <1>2, DistancesAdd, ConstantsAssumption

LEMMA WriteCopyKeeps ==
  ASSUME QInv, WriteCopy
  PROVE  Ordered'
<1> USE DEF QInv, TInv, TypeOK, Ordered
<1> DEFINE d == AvailableForRead(readIndex, writeIndex)
<1>1. PICK v \in Samples : buffer' = [buffer EXCEPT ![pIdx] = v] /\ pData' = Append(pData, v)
  BY DEF WriteCopy
<1>2. Len(pData) \in Nat /\ d \in Nat /\ d + Len(pData) + 1 < Capacity
      /\ AvailableForRead(readIndex, pIdx) = d + Len(pData)
  BY WriteCopyBeyond
<1>3. /\ pData' \in Seq(Samples) /\ Len(pData') = Len(pData) + 1
      /\ \A i \in 1..Len(pData) : pData'[i] = pData[i]
      /\ pData'[Len(pData) + 1] = v
  BY <1>1, AppendProperties
<1>4. /\ pIdx' \in Slots
      /\ AvailableForRead(writeIndex, pIdx') = Len(pData) + 1
  <2>1. AvailableForRead(writeIndex, pIdx) = Len(pData)
    BY DEF WriteCopy, Producing
  <2>2. AvailableForRead(writeIndex, pIdx) + 1 < Capacity
    BY <1>2, <2>1, ConstantsAssumption
  <2> QED
    BY <2>1, <2>2, AdvanceOne DEF WriteCopy
<1>5. pLeft' = pLeft - 1 /\ pLeft \in Nat /\ pLeft > 0
  BY ConstantsAssumption DEF WriteCopy
<1>6. UNCHANGED <<readIndex, writeIndex, pStep, consumer>> /\ pStep = "copy"
  BY DEF WriteCopy
<1>7. Apart'
  BY <1>6 DEF Apart, consumer
<1>8. Producing'
  <2>1. ASSUME NEW i \in 1..(Len(pData) + 1)
        PROVE  pData'[i] = buffer'[Advance(writeIndex, i - 1)]
    <3>1. i - 1 \in Slots /\ Len(pData) \in Slots
      BY <1>2, ConstantsAssumption DEF Slots
    <3>2. CASE i = Len(pData) + 1
      <4>1. Advance(writeIndex, Len(pData)) = pIdx
        BY DistanceValue DEF WriteCopy, Producing
      <4>2. i - 1 = Len(pData)
        BY <1>2, <3>2
      <4> QED
        BY <1>1, <1>3, <3>2, <4>1, <4>2
    <3>3. CASE i # Len(pData) + 1
      <4>1. i \in 1..Len(pData) /\ i - 1 # Len(pData)
        BY <1>2, <3>3
      <4>2. Advance(writeIndex, i - 1) # pIdx /\ Advance(writeIndex, i - 1) \in Slots
        BY <3>1, <4>1, DistanceValue, AdvanceValue DEF WriteCopy, Producing
      <4>3. pData[i] = buffer[Advance(writeIndex, i - 1)]
        BY <4>1 DEF WriteCopy, Producing
      <4> QED
        BY <1>1, <1>3, <4>1, <4>2, <4>3
    <3> QED
      BY <3>2, <3>3
  <2>2. d + Len(pData) + pLeft < Capacity
    BY DEF WriteCopy, Producing
  <2>3. d + (Len(pData) + 1) + pLeft' < Capacity
    BY <1>2, <1>5, <2>2, ConstantsAssumption
  <2> QED
    BY <1>3, <1>4, <1>6, <2>1, <2>3 DEF Producing
<1>9. Consuming'
  <2>1. ASSUME Copying, NEW i \in 1..Len(cData)
        PROVE  buffer'[Advance(readIndex, i - 1)] = buffer[Advance(readIndex, i - 1)]
    <3>1. Len(cData) \in Nat /\ Len(cData) <= d
      BY <2>1, <1>2, LenProperties DEF Consuming
    <3>2. i - 1 \in Slots /\ i - 1 # AvailableForRead(readIndex, pIdx)
      BY <1>2, <3>1, ConstantsAssumption DEF Slots
    <3>3. Advance(readIndex, i - 1) \in Slots /\ Advance(readIndex, i - 1) # pIdx
      BY <3>2, DistanceValue, AdvanceValue
    <3> QED
      BY <1>1, <3>3
  <2> QED
    BY <1>6, <2>1 DEF consumer, Consuming, Copying, Skipping
<1> QED
  BY <1>7, <1>8, <1>9

LEMMA WriteEndKeeps ==
  ASSUME QInv, WriteEnd
  PROVE  Ordered'
<1> USE DEF QInv, TInv, TypeOK, Ordered
<1>1. Len(pData) \in Nat /\ AvailableForRead(readIndex, writeIndex) \in Nat
  BY LenProperties, DistanceNumber
<1>2. AvailableForRead(readIndex, pIdx)
        = AvailableForRead(readIndex, writeIndex) + Len(pData)
  BY <1>1, DistancesAdd, ConstantsAssumption DEF WriteEnd, Producing
<1>3. Apart'
  BY DEF WriteEnd, consumer, Apart
<1>4. Producing'
  BY DEF WriteEnd, Producing
<1>5. Consuming'
  <2>1. cLeft \in Nat /\ Len(cData) \in Nat
    BY LenProperties, ConstantsAssumption
  <2>2. UNCHANGED <<buffer, readIndex, consumer>> /\ writeIndex' = pIdx
    BY DEF WriteEnd
  <2>3. AvailableForRead(readIndex, cIdx) \in Nat
    BY DistanceNumber
  <2> QED
    BY <1>1, <1>2, <2>1, <2>2, <2>3 DEF consumer, Consuming, Copying, Skipping
<1> QED
  BY <1>3, <1>4, <1>5

-----------------------------------------------------------------------------
(* The consumer's steps keep the order.                                       *)
LEMMA ReadLoadsKeep ==
  ASSUME QInv, ~crossed',
         \/ \E op \in Ops, n \in Batches : ReadBegin(op, n)
         \/ ReadSize \/ ReadStart \/ SkipStart
  PROVE  Ordered'
<1> USE DEF QInv, TInv, TypeOK, Ordered
<1> DEFINE d == AvailableForRead(readIndex, writeIndex)
<1>1. UNCHANGED <<shared, producer, cData>> /\ cStep' # "clear" /\ cStep # "clear"
      /\ cStep # "copy"
  BY DEF ReadBegin, ReadSize, ReadStart, SkipStart
<1>2. d \in Nat /\ d < Capacity
  BY DistanceNumber
<1>3. Apart'
  <2>1. pStep # "clear"
    BY DEF ReadBegin, ReadSize, ReadStart, SkipStart, BeginsBeside, Apart
  <2> QED
    BY <1>1, <2>1 DEF Apart, shared, producer
<1>4. Producing'
  BY <1>1 DEF shared, producer, Producing
<1>5. Consuming'
  <2>1. CASE \E op \in Ops, n \in Batches : ReadBegin(op, n)
    BY <2>1, <1>2 DEF ReadBegin, shared, Consuming, Copying, Skipping
  <2>2. CASE ReadSize
    <3> DEFINE k == AvailableForRead(readIndex, cIdx)
    <3>1. k \in Nat /\ k <= d
      BY <2>2, DistanceNumber DEF ReadSize, Consuming
    <3>2. cLeft' = Least(cLeft, k)
      BY <2>2 DEF ReadSize
    <3> HIDE DEF k
    <3>3. cLeft' \in Nat /\ cLeft' <= k
      BY <3>1, <3>2, LeastValue
    <3>4. cLeft' <= d
      <4> HIDE DEF d
      <4> QED
        BY <1>2, <3>1, <3>3
    <3> QED
      BY <2>2, <3>4 DEF ReadSize, shared, Consuming, Copying, Skipping
  <2>3. CASE ReadStart
    <3>1. AvailableForRead(readIndex, readIndex) = 0
      BY ConstantsAssumption DEF AvailableForRead, Slots
    <3>2. cData = <<>> /\ Len(cData) = 0
      BY <2>3 DEF ReadStart, Blank
    <3> QED
      BY <2>3, <3>1, <3>2, <1>2 DEF ReadStart, shared, Consuming, Copying, Skipping
  <2>4. CASE SkipStart
    <3>1. cLeft \in Slots /\ cLeft <= d
      BY <2>4, <1>2, ConstantsAssumption DEF SkipStart, Consuming, Slots
    <3>2. cIdx' = Advance(readIndex, cLeft) /\ cIdx' \in Slots
      BY <2>4, <3>1, AdvanceValue DEF SkipStart
    <3>3. AvailableForRead(readIndex, cIdx') = cLeft
      BY <3>1, <3>2, DistanceValue
    <3> QED
      BY <2>4, <3>1, <3>3 DEF SkipStart, shared, Consuming, Copying, Skipping
  <2> QED
    BY <2>1, <2>2, <2>3, <2>4
<1> QED
  BY <1>3, <1>4, <1>5

LEMMA ReadCopyKeeps ==
  ASSUME QInv, ReadCopy
  PROVE  Ordered'
<1> USE DEF QInv, TInv, TypeOK, Ordered
<1> DEFINE d == AvailableForRead(readIndex, writeIndex)
           v == buffer[cIdx]
<1>1. Copying
  BY DEF ReadCopy, Consuming, Copying, Skipping
<1>2. /\ d \in Nat /\ d < Capacity /\ Len(cData) \in Nat /\ cLeft \in Nat /\ cLeft > 0
      /\ AvailableForRead(readIndex, cIdx) = Len(cData) /\ Len(cData) + cLeft <= d
  BY <1>1, DistanceNumber, LenProperties, ConstantsAssumption DEF ReadCopy, Consuming
<1>3. /\ cData' \in Seq(Samples) /\ Len(cData') = Len(cData) + 1
      /\ \A i \in 1..Len(cData) : cData'[i] = cData[i]
      /\ cData'[Len(cData) + 1] = v
  BY AppendProperties DEF ReadCopy
<1>4. cIdx' \in Slots /\ AvailableForRead(readIndex, cIdx') = Len(cData) + 1
  <2>1. AvailableForRead(readIndex, cIdx) + 1 < Capacity
    BY <1>2, ConstantsAssumption
  <2> QED
    BY <1>2, <2>1, AdvanceOne DEF ReadCopy
<1>5. UNCHANGED <<shared, producer, cStep, cOp>> /\ cLeft' = cLeft - 1
  BY DEF ReadCopy
<1>6. Apart' /\ Producing'
  BY <1>5 DEF shared, producer, Apart, Producing
<1>7. Consuming'
  <2>1. ASSUME NEW i \in 1..(Len(cData) + 1)
        PROVE  cData'[i] = buffer[Advance(readIndex, i - 1)]
    <3>1. CASE i = Len(cData) + 1
      <4>1. Advance(readIndex, Len(cData)) = cIdx /\ i - 1 = Len(cData)
        BY <1>2, <3>1, DistanceValue
      <4> QED
        BY <1>3, <3>1, <4>1
    <3>2. CASE i # Len(cData) + 1
      <4>1. i \in 1..Len(cData)
        BY <1>2, <3>2
      <4> QED
        BY <1>1, <1>3, <4>1 DEF Consuming
    <3> QED
      BY <3>1, <3>2
  <2>2. Copying' /\ ~Skipping' /\ cStep' = "copy"
    BY <1>1, <1>5 DEF Copying, Skipping
  <2>3. (Len(cData) + 1) + cLeft' <= d
    BY <1>2, <1>5
  <2> QED
    BY <1>3, <1>4, <1>5, <2>1, <2>2, <2>3 DEF shared, Consuming
<1> QED
  BY <1>6, <1>7

(* The consumer gives slots back up to an index it has reached: less remains, *)
(* and the producer's call still fits.                                        *)
LEMMA Reached ==
  ASSUME QInv, ReadEnd
  PROVE  AvailableForRead(readIndex, cIdx) <= AvailableForRead(readIndex, writeIndex)
<1> USE DEF QInv, TInv, TypeOK, Ordered
<1>1. Len(cData) \in Nat /\ cLeft \in Nat /\ AvailableForRead(readIndex, writeIndex) \in Nat
  BY LenProperties, DistanceNumber
<1> QED
  BY <1>1 DEF ReadEnd, Consuming, Copying, Skipping

LEMMA ReadEndKeeps ==
  ASSUME QInv, ReadEnd
  PROVE  Ordered'
<1> USE DEF QInv, TInv, TypeOK, Ordered
<1>1. /\ AvailableForRead(readIndex, writeIndex) \in Nat
      /\ AvailableForRead(readIndex', writeIndex) \in Nat
      /\ AvailableForRead(readIndex', writeIndex) <= AvailableForRead(readIndex, writeIndex)
  <2>1. /\ AvailableForRead(readIndex, writeIndex) \in Nat
        /\ AvailableForRead(readIndex, cIdx) \in Nat
        /\ AvailableForRead(cIdx, writeIndex) \in Nat
    BY DistanceNumber
  <2>2. CASE readIndex' = readIndex
    BY <2>1, <2>2
  <2>3. CASE readIndex' = cIdx
    <3>1. AvailableForRead(readIndex, cIdx) <= AvailableForRead(readIndex, writeIndex)
      BY Reached
    <3> QED
      BY <2>1, <2>3, <3>1, DistancesAdd
  <2> QED
    BY <2>2, <2>3 DEF ReadEnd
<1>2. Apart'
  BY DEF ReadEnd, producer, Apart
<1>3. Producing'
  <2>1. Len(pData) \in Nat /\ pLeft \in Nat
    BY LenProperties, ConstantsAssumption
  <2>2. UNCHANGED <<buffer, writeIndex, producer>>
    BY DEF ReadEnd
  <2> QED
    BY <1>1, <2>1, <2>2, ConstantsAssumption DEF producer, Producing
<1>4. Consuming'
  BY DEF ReadEnd, Consuming, Copying, Skipping
<1> QED
  BY <1>2, <1>3, <1>4

(* A clear() that crosses nothing finds the other thread idle.                *)
LEMMA ClearKeeps ==
  ASSUME QInv, ~crossed', ClearBegin \/ ClearEnd
  PROVE  Ordered'
<1> USE DEF QInv, TInv, TypeOK, Ordered
<1>1. CASE ClearBegin
  <2>1. /\ pStep \in {"idle", "clear"} /\ pStep' \in {"idle", "clear"}
        /\ cStep \in {"idle", "clear"} /\ cStep' \in {"idle", "clear"}
        /\ "idle" \in {pStep', cStep'} /\ readIndex' = 0
    BY <1>1 DEF ClearBegin, BeginsBeside
  <2> QED
    BY <2>1 DEF Apart, Producing, Consuming, Copying, Skipping
<1>2. CASE ClearEnd
  <2>1. pStep' = "idle" /\ cStep' = "idle"
    BY <1>2 DEF ClearEnd, EndsBeside, Apart
  <2> QED
    BY <2>1 DEF Apart, Producing, Consuming, Copying, Skipping
<1> QED
  BY <1>1, <1>2

LEMMA OrderKept ==
  ASSUME QInv, ~crossed', [Next]_vars
  PROVE  Ordered'
<1>1. CASE Write
  BY <1>1, WriteLoadsKeep, WriteCopyKeeps, WriteEndKeeps DEF Write
<1>2. CASE Read
  BY <1>2, ReadLoadsKeep, ReadCopyKeeps, ReadEndKeeps DEF Read
<1>3. CASE ClearBegin \/ ClearEnd
  BY <1>3, ClearKeeps
<1>4. CASE UNCHANGED vars
  BY <1>4 DEF vars, shared, producer, consumer, QInv, Ordered, Apart, Producing, Consuming,
              Copying, Skipping
<1> QED
  BY <1>1, <1>2, <1>3, <1>4 DEF Next

(* A crossing is over when both threads are out of their calls.               *)
LEMMA CrossingEnds ==
  ASSUME TInv, crossed, ~crossed', [Next]_vars
  PROVE  pStep' = "idle" /\ cStep' = "idle"
<1>1. CASE Write
  BY <1>1 DEF Write, WriteBegin, WriteSize, WriteStart, WriteCopy, WriteEnd, BeginsBeside,
              EndsBeside, consumer
<1>2. CASE Read
  BY <1>2 DEF Read, ReadBegin, ReadSize, ReadStart, SkipStart, ReadCopy, ReadEnd, BeginsBeside,
              EndsBeside, producer
<1>3. CASE ClearBegin \/ ClearEnd
  BY <1>3 DEF ClearBegin, ClearEnd, BeginsBeside, EndsBeside
<1>4. CASE UNCHANGED vars
  BY <1>4 DEF vars
<1> QED
  BY <1>1, <1>2, <1>3, <1>4 DEF Next

LEMMA NextKeeps == IInv /\ [Next]_vars => IInv'
<1> SUFFICES ASSUME IInv, [Next]_vars PROVE IInv'
  OBVIOUS
<1>1. TInv'
  BY TypesKept DEF IInv
<1>2. ASSUME ~crossed' PROVE Ordered'
  <2>1. CASE ~crossed
    BY <1>2, <2>1, OrderKept DEF IInv, QInv
  <2>2. CASE crossed
    <3>1. pStep' = "idle" /\ cStep' = "idle"
      BY <1>2, <2>2, CrossingEnds DEF IInv
    <3> QED
      BY <3>1 DEF Ordered, Apart, Producing, Consuming, Copying, Skipping
  <2> QED
    BY <2>1, <2>2
<1> QED
  BY <1>1, <1>2 DEF IInv

THEOREM Invariance == Spec => []IInv
<1>1. Init => IInv
  BY InitEstablishes DEF IInv, QInv
<1> QED
  BY <1>1, NextKeeps, PTL DEF Spec

-----------------------------------------------------------------------------
(* Types, and: all indices stay within the ring, even when a clear() crosses  *)
(* a call.                                                                    *)
THEOREM TypeCorrect == Spec => []TypeOK
<1>1. IInv => TypeOK
  BY DEF IInv, TInv
<1> QED
  BY <1>1, Invariance, PTL

(* The producer never writes the slot the consumer is reading, while no       *)
(* clear() is crossed.                                                        *)
THEOREM RaceFree == Spec => []NoDataRace
<1>1. IInv => NoDataRace
  <2> SUFFICES ASSUME IInv, ~crossed, pStep = "copy", pLeft > 0, cStep = "copy", cLeft > 0
               PROVE  pIdx # cIdx
    BY DEF NoDataRace
  <2> USE DEF IInv, TInv, TypeOK, Ordered
  <2>1. /\ Len(pData) \in Nat /\ pLeft \in Nat /\ Len(cData) \in Nat /\ cLeft \in Nat
        /\ AvailableForRead(readIndex, writeIndex) \in Nat
    BY LenProperties, DistanceNumber, ConstantsAssumption
  <2>2. AvailableForRead(readIndex, pIdx)
          = AvailableForRead(readIndex, writeIndex) + Len(pData)
    BY <2>1, DistancesAdd, ConstantsAssumption DEF Producing
  <2>3. AvailableForRead(readIndex, cIdx) < AvailableForRead(readIndex, writeIndex)
    BY <2>1 DEF Consuming, Copying, Skipping
  <2> QED
    BY <2>1, <2>2, <2>3
<1> QED
  BY <1>1, Invariance, PTL

-----------------------------------------------------------------------------
(* The ring implements the queue: every step of the ring is a step of the     *)
(* queue or changes nothing of it.                                            *)
LEMMA EmptyRing ==
  ASSUME NEW b \in [Slots -> Samples], NEW r \in Slots
  PROVE  Ring(b, r, r) = <<>>
<1>1. AvailableForRead(r, r) = 0
  BY ConstantsAssumption DEF AvailableForRead, Slots
<1>2. Ring(b, r, r) \in Seq(Samples) /\ Len(Ring(b, r, r)) = 0
  BY <1>1, RingIsSequence
<1> QED
  BY <1>2, EmptySeq

LEMMA ContentsAreRing ==
  Contents = IF "clear" \in {pStep, cStep} THEN <<>> ELSE Ring(buffer, readIndex, writeIndex)
  BY DEF Contents, Ring

LEMMA ContentsAreRingNext ==
  Contents' = IF "clear" \in {pStep', cStep'} THEN <<>>
              ELSE Ring(buffer', readIndex', writeIndex')
  BY DEF Contents, Ring

(* The contents are samples, and less than the capacity.                      *)
LEMMA RingBounded ==
  ASSUME NEW b \in [Slots -> Samples], NEW r \in Slots, NEW w \in Slots
  PROVE  Ring(b, r, w) \in Seq(Samples) /\ Len(Ring(b, r, w)) <= Capacity - 1
<1>1. AvailableForRead(r, w) \in Nat /\ AvailableForRead(r, w) < Capacity
  BY DistanceNumber
<1> QED
  BY <1>1, RingIsSequence, ConstantsAssumption

LEMMA ContentsBounded ==
  ASSUME TypeOK'
  PROVE  Contents' \in Seq(Samples) /\ Len(Contents') <= Capacity - 1
<1>1. CASE "clear" \in {pStep', cStep'}
  <2>1. Contents' = <<>>
    BY <1>1, ContentsAreRingNext
  <2> QED
    BY <2>1, EmptySeq, ConstantsAssumption
<1>2. CASE "clear" \notin {pStep', cStep'}
  <2>1. Contents' = Ring(buffer', readIndex', writeIndex')
    BY <1>2, ContentsAreRingNext
  <2> QED
    BY <2>1, RingBounded DEF TypeOK
<1> QED
  BY <1>1, <1>2

(* The call of a thread changes with the thread's step.                       *)
LEMMA CallIs ==
  /\ Call["producer"] = PCall /\ Call["consumer"] = CCall
  /\ Fifo!Other("producer") = "consumer" /\ Fifo!Other("consumer") = "producer"
  BY DEF Call, Fifo!Other

LEMMA CallChanges ==
  /\ UNCHANGED CCall => Call' = [Call EXCEPT !["producer"] = PCall']
  /\ UNCHANGED PCall => Call' = [Call EXCEPT !["consumer"] = CCall']
  /\ UNCHANGED <<PCall, CCall>> => UNCHANGED Call
  BY Zenon DEF Call

(* Begins and ends of calls, of either side.                                  *)
LEMMA ProducerBegins ==
  ASSUME TypeOK, pStep = "idle", UNCHANGED <<cStep, cOp>>, pStep' \in {"seen", "clear"},
         BeginsBeside(cStep, pStep' = "clear")
  PROVE  Fifo!Begin("producer", IF pStep' = "clear" THEN "clear" ELSE "write")
<1>1. PCall = "idle" /\ PCall' = IF pStep' = "clear" THEN "clear" ELSE "write"
  BY DEF PCall
<1>2. UNCHANGED CCall /\ (CCall = "clear" <=> cStep = "clear") /\ (CCall = "idle" <=> cStep = "idle")
  BY DEF CCall, TypeOK, Ops
<1>3. crossed' = (crossed \/ CCall = "clear" \/ (pStep' = "clear" /\ CCall # "idle"))
  BY <1>2 DEF BeginsBeside
<1> QED
  BY <1>1, <1>2, <1>3, CallIs, CallChanges DEF Fifo!Begin

LEMMA ConsumerBegins ==
  ASSUME TypeOK, cStep = "idle", UNCHANGED pStep, cStep' \in {"seen", "clear"}, cOp' \in Ops,
         BeginsBeside(pStep, cStep' = "clear")
  PROVE  Fifo!Begin("consumer", IF cStep' = "clear" THEN "clear" ELSE cOp')
<1>1. CCall = "idle" /\ CCall' = IF cStep' = "clear" THEN "clear" ELSE cOp'
  BY DEF CCall
<1>2. UNCHANGED PCall /\ (PCall = "clear" <=> pStep = "clear") /\ (PCall = "idle" <=> pStep = "idle")
  BY DEF PCall
<1>3. crossed' = (crossed \/ PCall = "clear" \/ (cStep' = "clear" /\ PCall # "idle"))
  BY <1>2 DEF BeginsBeside
<1>4. cOp' = "clear" => FALSE
  BY DEF Ops
<1> QED
  BY <1>1, <1>2, <1>3, <1>4, CallIs, CallChanges DEF Fifo!Begin

LEMMA ProducerEnds ==
  ASSUME TypeOK, pStep # "idle", UNCHANGED <<cStep, cOp>>, pStep' = "idle", EndsBeside(cStep)
  PROVE  Fifo!End("producer")
<1>1. PCall # "idle" /\ PCall' = "idle"
  BY DEF PCall
<1>2. UNCHANGED CCall /\ (CCall = "idle" <=> cStep = "idle")
  BY DEF CCall, TypeOK, Ops
<1>3. crossed' = (crossed /\ CCall # "idle")
  BY <1>2 DEF EndsBeside
<1> QED
  BY <1>1, <1>2, <1>3, CallIs, CallChanges DEF Fifo!End

LEMMA ConsumerEnds ==
  ASSUME TypeOK, cStep # "idle", UNCHANGED pStep, cStep' = "idle", EndsBeside(pStep)
  PROVE  Fifo!End("consumer")
<1>1. CCall # "idle" /\ CCall' = "idle"
  BY DEF CCall, TypeOK, Ops
<1>2. UNCHANGED PCall /\ (PCall = "idle" <=> pStep = "idle")
  BY DEF PCall
<1>3. crossed' = (crossed /\ PCall # "idle")
  BY <1>2 DEF EndsBeside
<1> QED
  BY <1>1, <1>2, <1>3, CallIs, CallChanges DEF Fifo!End

LEMMA InitRefines == Init => Fifo!Init
<1> SUFFICES ASSUME Init PROVE Fifo!Init
  OBVIOUS
<1>1. Ring(buffer, readIndex, writeIndex) = <<>>
  BY InitEstablishes, EmptyRing DEF Init, QInv, TInv, TypeOK
<1>2. Contents = <<>>
  BY <1>1, ContentsAreRing
<1>3. Call = [s \in Fifo!Sides |-> "idle"]
  BY DEF Init, Call, PCall, CCall, Fifo!Sides
<1> QED
  BY <1>2, <1>3 DEF Init, Fifo!Init

-----------------------------------------------------------------------------
(* The steps of the producer.                                                 *)
LEMMA WriteBeginRefines ==
  ASSUME QInv, ~crossed', NEW n \in Batches, WriteBegin(n)
  PROVE  Fifo!BeginCall("producer")
<1>1. Fifo!Begin("producer", "write")
  BY ProducerBegins DEF WriteBegin, consumer, QInv, TInv, BeginsBeside
<1>2. Contents' = Contents
  BY ContentsAreRing, ContentsAreRingNext DEF WriteBegin, shared, consumer
<1>3. "write" \in Fifo!Calls("producer") \ {"clear"}
  BY DEF Fifo!Calls
<1> QED
  BY <1>1, <1>2, <1>3 DEF WriteBegin, consumer, Fifo!BeginCall

(* A sample copied into the ring joins the batch that is offered.             *)
LEMMA WriteCopyRefines ==
  ASSUME QInv, WriteCopy
  PROVE  Fifo!Offer
<1>1. PICK v \in Samples : buffer' = [buffer EXCEPT ![pIdx] = v] /\ pData' = Append(pData, v)
  BY DEF WriteCopy
<1>2. AvailableForRead(readIndex, pIdx) >= AvailableForRead(readIndex, writeIndex)
  BY WriteCopyBeyond
<1>3. Ring(buffer', readIndex, writeIndex) = Ring(buffer, readIndex, writeIndex)
  <2>1. /\ buffer \in [Slots -> Samples]
        /\ readIndex \in Slots /\ writeIndex \in Slots /\ pIdx \in Slots
    BY DEF QInv, TInv, TypeOK
  <2>2. Ring([buffer EXCEPT ![pIdx] = v], readIndex, writeIndex)
          = Ring(buffer, readIndex, writeIndex)
    BY <1>2, <2>1, RingKept
  <2> QED
    BY <1>1, <2>2
<1>4. UNCHANGED <<readIndex, writeIndex, pStep, cStep, cOp, delivered, crossed>>
  BY DEF WriteCopy, consumer
<1>5. Contents' = Contents
  BY <1>3, <1>4, ContentsAreRing, ContentsAreRingNext
<1>6. UNCHANGED Call /\ Call["producer"] = "write"
  BY <1>4, CallIs, CallChanges DEF PCall, CCall, WriteCopy
<1> QED
  BY <1>1, <1>4, <1>5, <1>6 DEF Fifo!Offer

(* The store of writeIndex puts the batch.                                    *)
LEMMA WriteEndRefines ==
  ASSUME QInv, WriteEnd
  PROVE  Fifo!Put
<1> USE DEF QInv, TInv, Ordered
<1>1. /\ cStep # "clear" /\ AvailableForRead(writeIndex, pIdx) = Len(pData)
      /\ AvailableForRead(readIndex, writeIndex) + Len(pData) < Capacity
      /\ \A i \in 1..Len(pData) : pData[i] = buffer[Advance(writeIndex, i - 1)]
  <2>1. /\ Len(pData) \in Nat /\ pLeft = 0
        /\ AvailableForRead(readIndex, writeIndex) \in Nat
    BY LenProperties, DistanceNumber DEF WriteEnd, TypeOK
  <2> QED
    BY <2>1, ConstantsAssumption DEF WriteEnd, Producing, Apart, TypeOK
<1>2. Ring(buffer, readIndex, pIdx) = Ring(buffer, readIndex, writeIndex) \o pData
  <2>1. /\ buffer \in [Slots -> Samples] /\ pData \in Seq(Samples)
        /\ readIndex \in Slots /\ writeIndex \in Slots /\ pIdx \in Slots
        /\ Len(pData) = AvailableForRead(writeIndex, pIdx)
    BY <1>1 DEF TypeOK
  <2> QED
    BY <1>1, <2>1, RingExtended
<1>3. /\ UNCHANGED <<buffer, readIndex, cStep, cOp, delivered>>
      /\ pStep = "copy" /\ pStep' = "idle" /\ writeIndex' = pIdx /\ pData' = <<>>
  BY DEF WriteEnd, consumer
<1>4. Contents' = Contents \o pData /\ Contents' = Ring(buffer, readIndex, pIdx)
  BY <1>1, <1>2, <1>3, ContentsAreRing, ContentsAreRingNext
<1>5. Len(Contents') <= Capacity - 1
  <2>1. AvailableForRead(readIndex, pIdx) \in Nat /\ AvailableForRead(readIndex, pIdx) < Capacity
    BY DistanceNumber DEF TypeOK
  <2>2. Len(Ring(buffer, readIndex, pIdx)) = AvailableForRead(readIndex, pIdx)
    BY RingIsSequence DEF TypeOK
  <2> QED
    BY <1>4, <2>1, <2>2, ConstantsAssumption
<1>6. Fifo!End("producer") /\ Call["producer"] = "write"
  BY <1>3, ProducerEnds, CallIs DEF WriteEnd, PCall
<1> QED
  BY <1>3, <1>4, <1>5, <1>6 DEF Fifo!Put

-----------------------------------------------------------------------------
(* The steps of the consumer.                                                 *)
LEMMA ReadBeginRefines ==
  ASSUME QInv, ~crossed', NEW op \in Ops, NEW n \in Batches, ReadBegin(op, n)
  PROVE  Fifo!BeginCall("consumer")
<1>1. Fifo!Begin("consumer", op)
  BY ConsumerBegins DEF ReadBegin, producer, QInv, TInv, BeginsBeside
<1>2. Contents' = Contents
  BY ContentsAreRing, ContentsAreRingNext DEF ReadBegin, shared, producer
<1>3. op \in Fifo!Calls("consumer") \ {"clear"}
  BY DEF Fifo!Calls, Ops
<1> QED
  BY <1>1, <1>2, <1>3 DEF ReadBegin, producer, Fifo!BeginCall

(* The store of readIndex takes what was copied; peek() looks at it, skip()   *)
(* gives nothing.                                                             *)
LEMMA ReadEndRefines ==
  ASSUME QInv, ReadEnd
  PROVE  Fifo!Take \/ Fifo!Look \/ Fifo!Skip
<1> USE DEF QInv, TInv, TypeOK, Ordered
<1> DEFINE d == AvailableForRead(readIndex, writeIndex)
           n == Len(cData)
<1>1. /\ cStep = "copy" /\ cStep' = "idle" /\ pStep # "clear" /\ cLeft = 0
      /\ UNCHANGED <<buffer, writeIndex, pStep, pData>>
  BY DEF ReadEnd, producer, Apart
<1>2. Contents = Ring(buffer, readIndex, writeIndex)
  BY <1>1, ContentsAreRing
<1>3. Contents' = Ring(buffer, readIndex', writeIndex)
  BY <1>1, ContentsAreRingNext
<1>4. Fifo!End("consumer") /\ Call["consumer"] = cOp
  BY <1>1, ConsumerEnds, CallIs DEF ReadEnd, CCall
<1>5. /\ AvailableForRead(readIndex, cIdx) \in 0..Len(Contents)
      /\ Ring(buffer, cIdx, writeIndex)
           = SubSeq(Contents, AvailableForRead(readIndex, cIdx) + 1, Len(Contents))
  BY <1>2, Reached, RingRest
<1>6. cOp # "skip" => /\ n \in 0..Len(Contents) /\ cData = SubSeq(Contents, 1, n)
                      /\ AvailableForRead(readIndex, cIdx) = n
  <2> SUFFICES ASSUME cOp # "skip"
               PROVE  /\ n \in 0..Len(Contents) /\ cData = SubSeq(Contents, 1, n)
                      /\ AvailableForRead(readIndex, cIdx) = n
    OBVIOUS
  <2>1. /\ n \in Nat /\ d \in Nat /\ n <= d /\ AvailableForRead(readIndex, cIdx) = n
        /\ \A i \in 1..n : cData[i] = buffer[Advance(readIndex, i - 1)]
    BY <1>1, LenProperties, DistanceNumber DEF Consuming, Copying
  <2>2. cData = SubSeq(Contents, 1, n)
    BY <1>2, <2>1, RingPrefix
  <2> QED
    BY <1>5, <2>1, <2>2
<1>7. CASE cOp = "read"
  <2>1. readIndex' = cIdx /\ delivered' = cData
    BY <1>7 DEF ReadEnd
  <2>2. \E k \in 0..Len(Contents) : /\ delivered' = SubSeq(Contents, 1, k)
                                    /\ Contents' = SubSeq(Contents, k + 1, Len(Contents))
    BY <1>3, <1>5, <1>6, <1>7, <2>1
  <2> QED
    BY <1>1, <1>4, <1>7, <2>2 DEF Fifo!Take
<1>8. CASE cOp = "peek"
  <2>1. readIndex' = readIndex /\ delivered' = cData
    BY <1>8 DEF ReadEnd
  <2>2. \E k \in 0..Len(Contents) : delivered' = SubSeq(Contents, 1, k)
    BY <1>6, <1>8, <2>1
  <2> QED
    BY <1>1, <1>2, <1>3, <1>4, <1>8, <2>1, <2>2 DEF Fifo!Look
<1>9. CASE cOp = "skip"
  <2>1. readIndex' = cIdx /\ delivered' = delivered
    BY <1>9 DEF ReadEnd
  <2>2. \E k \in 0..Len(Contents) : Contents' = SubSeq(Contents, k + 1, Len(Contents))
    BY <1>3, <1>5, <2>1
  <2> QED
    BY <1>1, <1>4, <1>9, <2>1, <2>2 DEF Fifo!Skip
<1> QED
  BY <1>7, <1>8, <1>9 DEF Ops

-----------------------------------------------------------------------------
(* clear() empties the queue with its first store.                            *)
LEMMA ClearBeginRefines ==
  ASSUME QInv, ~crossed', ClearBegin
  PROVE  \E s \in Fifo!Sides : Fifo!BeginClear(s)
<1>1. Contents' = <<>> /\ UNCHANGED <<pData, delivered>>
  BY ContentsAreRingNext DEF ClearBegin
<1>2. Fifo!Begin("producer", "clear") \/ Fifo!Begin("consumer", "clear")
  <2>1. CASE pStep = "idle" /\ pStep' = "clear" /\ BeginsBeside(cStep, TRUE) /\ UNCHANGED cStep
    BY <2>1, ProducerBegins DEF ClearBegin, QInv, TInv, BeginsBeside
  <2>2. CASE cStep = "idle" /\ cStep' = "clear" /\ BeginsBeside(pStep, TRUE) /\ UNCHANGED pStep
    <3>1. cOp' \in Ops
      BY DEF ClearBegin, QInv, TInv, TypeOK
    <3> QED
      BY <2>2, <3>1, ConsumerBegins DEF QInv, TInv, BeginsBeside
  <2> QED
    BY <2>1, <2>2 DEF ClearBegin
<1> QED
  BY <1>1, <1>2 DEF Fifo!BeginClear, Fifo!Sides

LEMMA ClearEndRefines ==
  ASSUME QInv, ClearEnd
  PROVE  \E s \in Fifo!Sides : Fifo!EndClear(s)
<1> USE DEF QInv, TInv, TypeOK, Ordered
<1>1. 0 \in Slots /\ readIndex = 0
  BY ConstantsAssumption DEF ClearEnd, Apart, Slots
<1>2. pStep' = "idle" /\ cStep' = "idle"
  BY DEF ClearEnd, Apart
<1>3. Contents = <<>> /\ Contents' = <<>>
  <2>1. Contents = <<>>
    BY ContentsAreRing DEF ClearEnd
  <2>2. buffer' = buffer /\ readIndex' = 0 /\ writeIndex' = 0
    BY <1>1 DEF ClearEnd
  <2>3. Contents' = Ring(buffer, 0, 0)
    BY <1>2, <2>2, ContentsAreRingNext
  <2> QED
    BY <1>1, <2>1, <2>3, EmptyRing
<1>4. UNCHANGED <<pData, delivered, cOp>>
  BY DEF ClearEnd
<1>5. CASE pStep = "clear" /\ EndsBeside(cStep) /\ UNCHANGED cStep
  <2>1. Fifo!End("producer") /\ Call["producer"] = "clear"
    BY <1>2, <1>4, <1>5, ProducerEnds, CallIs DEF PCall
  <2> QED
    BY <1>3, <1>4, <2>1 DEF Fifo!EndClear, Fifo!Sides
<1>6. CASE cStep = "clear" /\ EndsBeside(pStep) /\ UNCHANGED pStep
  <2>1. Fifo!End("consumer") /\ Call["consumer"] = "clear"
    BY <1>2, <1>6, ConsumerEnds, CallIs DEF CCall
  <2> QED
    BY <1>3, <1>4, <2>1 DEF Fifo!EndClear, Fifo!Sides
<1> QED
  BY <1>5, <1>6 DEF ClearEnd

(* The steps that only load an index or copy a sample out.                    *)
LEMMA OthersStutter ==
  ASSUME \/ WriteSize \/ WriteStart \/ ReadSize \/ ReadStart \/ SkipStart \/ ReadCopy
         \/ UNCHANGED vars
  PROVE  UNCHANGED Fifo!vars
<1>1. UNCHANGED <<shared, pData, delivered, crossed>>
  BY DEF WriteSize, WriteStart, ReadSize, ReadStart, SkipStart, ReadCopy, vars, shared, producer,
         consumer
<1>2. UNCHANGED <<PCall, CCall>> /\ (pStep = "clear" <=> pStep' = "clear")
      /\ (cStep = "clear" <=> cStep' = "clear")
  BY DEF WriteSize, WriteStart, ReadSize, ReadStart, SkipStart, ReadCopy, vars, shared, producer,
         consumer, PCall, CCall
<1>3. UNCHANGED Call
  BY <1>2, CallChanges
<1>4. Contents' = Contents
  BY <1>1, <1>2, ContentsAreRing, ContentsAreRingNext DEF shared
<1> QED
  BY <1>1, <1>3, <1>4 DEF Fifo!vars

(* Where no clear() is crossed, the steps are those of the queue.             *)
LEMMA QuietRefines ==
  ASSUME QInv, ~crossed, ~crossed', [Next]_vars
  PROVE  [Fifo!Next]_(Fifo!vars)
<1>1. CASE Write
  <2>1. ASSUME NEW n \in Batches, WriteBegin(n) PROVE Fifo!Next
    <3>1. Fifo!BeginCall("producer")
      BY <2>1, WriteBeginRefines
    <3> QED
      BY <3>1 DEF Fifo!Next, Fifo!Quiet, Fifo!Sides
  <2>2. CASE WriteCopy
    BY <2>2, WriteCopyRefines DEF Fifo!Next, Fifo!Quiet
  <2>3. CASE WriteEnd
    BY <2>3, WriteEndRefines DEF Fifo!Next, Fifo!Quiet
  <2> QED
    BY <1>1, <2>1, <2>2, <2>3, OthersStutter DEF Write
<1>2. CASE Read
  <2>1. ASSUME NEW op \in Ops, NEW n \in Batches, ReadBegin(op, n) PROVE Fifo!Next
    <3>1. Fifo!BeginCall("consumer")
      BY <2>1, ReadBeginRefines
    <3> QED
      BY <3>1 DEF Fifo!Next, Fifo!Quiet, Fifo!Sides
  <2>2. CASE ReadEnd
    BY <2>2, ReadEndRefines DEF Fifo!Next, Fifo!Quiet
  <2> QED
    BY <1>2, <2>1, <2>2, OthersStutter DEF Read
<1>3. CASE ClearBegin \/ ClearEnd
  BY <1>3, ClearBeginRefines, ClearEndRefines DEF Fifo!Next, Fifo!Quiet
<1>4. CASE UNCHANGED vars
  BY <1>4, OthersStutter
<1> QED
  BY <1>1, <1>2, <1>3, <1>4 DEF Next

-----------------------------------------------------------------------------
(* Where one is, calls still begin and end as the queue says ...              *)
LEMMA CallsBeginAndEnd ==
  ASSUME TInv, [Next]_vars
  PROVE  \/ \E s \in Fifo!Sides : Fifo!End(s) \/ \E c \in Fifo!Calls(s) : Fifo!Begin(s, c)
         \/ UNCHANGED <<Call, crossed>>
<1> USE DEF TInv
<1> DEFINE Goal == \/ \E s \in Fifo!Sides : \/ Fifo!End(s)
                                            \/ \E c \in Fifo!Calls(s) : Fifo!Begin(s, c)
                   \/ UNCHANGED <<Call, crossed>>
<1> SUFFICES Goal
  OBVIOUS
<1>1. /\ Fifo!End("producer") => Goal
      /\ Fifo!End("consumer") => Goal
      /\ Fifo!Begin("producer", "write") \/ Fifo!Begin("producer", "clear") => Goal
      /\ \A c \in Ops \union {"clear"} : Fifo!Begin("consumer", c) => Goal
  BY DEF Fifo!Sides, Fifo!Calls, Ops
<1>2. UNCHANGED <<PCall, CCall, crossed>> => Goal
  BY CallChanges
<1> HIDE DEF Goal
<1>3. CASE Write
  <2>1. CASE \E n \in Batches : WriteBegin(n)
    <3>1. Fifo!Begin("producer", "write")
      BY <2>1, ProducerBegins DEF WriteBegin, consumer, BeginsBeside
    <3> QED
      BY <1>1, <3>1
  <2>2. CASE WriteSize \/ WriteStart \/ WriteCopy
    <3>1. UNCHANGED <<PCall, CCall, crossed>>
      BY <2>2 DEF WriteSize, WriteStart, WriteCopy, consumer, PCall, CCall
    <3> QED
      BY <1>2, <3>1
  <2>3. CASE WriteEnd
    <3>1. Fifo!End("producer")
      BY <2>3, ProducerEnds DEF WriteEnd, consumer
    <3> QED
      BY <1>1, <3>1
  <2> QED
    BY <1>3, <2>1, <2>2, <2>3 DEF Write
<1>4. CASE Read
  <2>1. ASSUME NEW op \in Ops, NEW n \in Batches, ReadBegin(op, n) PROVE Goal
    <3>1. Fifo!Begin("consumer", op)
      BY <2>1, ConsumerBegins DEF ReadBegin, producer, BeginsBeside
    <3> QED
      BY <1>1, <3>1
  <2>2. CASE ReadSize \/ ReadStart \/ SkipStart \/ ReadCopy
    <3>1. UNCHANGED <<PCall, CCall, crossed>>
      BY <2>2 DEF ReadSize, ReadStart, SkipStart, ReadCopy, producer, PCall, CCall
    <3> QED
      BY <1>2, <3>1
  <2>3. CASE ReadEnd
    <3>1. Fifo!End("consumer")
      BY <2>3, ConsumerEnds DEF ReadEnd, producer
    <3> QED
      BY <1>1, <3>1
  <2> QED
    BY <1>4, <2>1, <2>2, <2>3 DEF Read
<1>5. CASE ClearBegin
  <2>1. CASE pStep = "idle" /\ pStep' = "clear" /\ BeginsBeside(cStep, TRUE) /\ UNCHANGED cStep
    <3>1. Fifo!Begin("producer", "clear")
      BY <1>5, <2>1, ProducerBegins DEF ClearBegin, BeginsBeside
    <3> QED
      BY <1>1, <3>1
  <2>2. CASE cStep = "idle" /\ cStep' = "clear" /\ BeginsBeside(pStep, TRUE) /\ UNCHANGED pStep
    <3>1. cOp' \in Ops
      BY <1>5 DEF ClearBegin, TypeOK
    <3>2. Fifo!Begin("consumer", "clear")
      BY <2>2, <3>1, ConsumerBegins DEF BeginsBeside
    <3> QED
      BY <1>1, <3>2
  <2> QED
    BY <1>5, <2>1, <2>2 DEF ClearBegin
<1>6. CASE ClearEnd
  <2>1. Fifo!End("producer") \/ Fifo!End("consumer")
    BY <1>6, ProducerEnds, ConsumerEnds DEF ClearEnd
  <2> QED
    BY <1>1, <2>1
<1>7. CASE UNCHANGED vars
  <2>1. UNCHANGED <<PCall, CCall, crossed>>
    BY <1>7 DEF vars, producer, consumer, PCall, CCall
  <2> QED
    BY <1>2, <2>1
<1> QED
  BY <1>3, <1>4, <1>5, <1>6, <1>7 DEF Next

(* ... and nothing leaves its type.                                           *)
LEMMA CrossedRefines ==
  ASSUME TInv, crossed \/ crossed', [Next]_vars
  PROVE  Fifo!Crossed
<1>1. TypeOK'
  BY TypesKept DEF TInv
<1>2. Contents' \in Seq(Samples) /\ Len(Contents') <= Capacity - 1
  BY <1>1, ContentsBounded
<1> QED
  BY <1>1, <1>2, CallsBeginAndEnd DEF Fifo!Crossed, TypeOK

(* The ring is a first-in first-out queue of Capacity - 1 samples, whatever   *)
(* its capacity and however the two threads interleave, but for the time a    *)
(* clear() crosses a call; and never more than a ring.                        *)
THEOREM Refinement == Spec => IsFifo
<1>1. IInv /\ [Next]_vars => [Fifo!Next]_(Fifo!vars)
  <2> SUFFICES ASSUME IInv, [Next]_vars PROVE [Fifo!Next]_(Fifo!vars)
    OBVIOUS
  <2>1. CASE crossed \/ crossed'
    BY <2>1, CrossedRefines DEF IInv, Fifo!Next
  <2>2. CASE ~crossed /\ ~crossed'
    BY <2>2, QuietRefines DEF IInv, QInv
  <2> QED
    BY <2>1, <2>2
<1> QED
  BY <1>1, InitRefines, Invariance, PTL DEF Spec, IsFifo, Fifo!Spec

-----------------------------------------------------------------------------
(* The allocators.                                                            *)
PointersHome == \A x \in Pointers : pointer[x] # Null => pointer[x] \in BlocksOf(pointer[x].home)

AllocatorsInv == AllocatorsTypeOK /\ PointersHome /\ ComesHome /\ OnePlace

At(b, s) == {i \in DOMAIN s : s[i] = b}
Pointed(b) == {x \in Pointers : pointer[x] = b}

(* 1 when two values are the same, when s is in S.                            *)
Same(v, w) == IF v = w THEN 1 ELSE 0
Member(s, S) == IF s \in S THEN 1 ELSE 0

-----------------------------------------------------------------------------
(* Counting                                                                   *)

LEMMA TimesType ==
  ASSUME NEW s \in Seq(Block), NEW b
  PROVE  IsFiniteSet(At(b, s)) /\ Times(b, s) \in Nat
<1>1. At(b, s) \subseteq 1..Len(s) /\ IsFiniteSet(1..Len(s))
  BY FS_Interval DEF At
<1>2. IsFiniteSet(At(b, s))
  BY <1>1, FS_Subset
<1> QED
  BY <1>2, FS_CardinalityType DEF Times, At

LEMMA TimesAppend ==
  ASSUME NEW s \in Seq(Block), NEW b, NEW c \in Block
  PROVE  Times(b, Append(s, c)) = Times(b, s) + Same(b, c)
<1> DEFINE n == Len(s) + 1
<1>1. n \in Nat /\ DOMAIN s = 1..Len(s) /\ n \notin DOMAIN s /\ DOMAIN Append(s, c) = DOMAIN s \union {n}
  OBVIOUS
<1>2. (\A i \in DOMAIN s : Append(s, c)[i] = s[i]) /\ Append(s, c)[n] = c
  OBVIOUS
<1>3. At(b, Append(s, c)) = At(b, s) \union (IF b = c THEN {n} ELSE {}) /\ n \notin At(b, s)
  BY <1>1, <1>2 DEF At
<1>4. Cardinality(At(b, s) \union {n}) = Cardinality(At(b, s)) + 1
  BY <1>3, TimesType, FS_AddElement
<1>5. Cardinality(At(b, Append(s, c))) = Cardinality(At(b, s)) + Same(b, c)
  <2>1. CASE b = c
    BY <1>3, <1>4, <2>1 DEF Same
  <2>2. CASE b # c
    <3>1. At(b, Append(s, c)) = At(b, s) /\ Cardinality(At(b, s)) \in Nat
      BY <1>3, <2>2, TimesType, FS_CardinalityType
    <3> QED
      BY <2>2, <3>1 DEF Same
  <2> QED
    BY <2>1, <2>2
<1> QED
  BY <1>5 DEF Times, At

LEMMA FrontIsShorter ==
  ASSUME NEW s \in Seq(Block), s # <<>>
  PROVE  /\ Front(s) \in Seq(Block) /\ Last(s) \in Block
         /\ Len(s) \in Nat \ {0} /\ Last(s) = s[Len(s)]
         /\ DOMAIN s = 1..Len(s) /\ DOMAIN Front(s) = 1..(Len(s) - 1)
         /\ \A i \in 1..(Len(s) - 1) : Front(s)[i] = s[i]
<1>1. Len(s) \in Nat \ {0} /\ DOMAIN s = 1..Len(s)
  OBVIOUS
<1> QED
  BY <1>1 DEF Front, Last

LEMMA TimesFront ==
  ASSUME NEW s \in Seq(Block), s # <<>>, NEW b
  PROVE  Times(b, Front(s)) = Times(b, s) - Same(b, Last(s))
<1> DEFINE n == Len(s)
           f == Front(s)
<1>0. /\ n \in Nat \ {0} /\ Last(s) = s[n] /\ DOMAIN s = 1..n /\ DOMAIN f = 1..(n - 1)
      /\ \A i \in 1..(n - 1) : f[i] = s[i]
  BY FrontIsShorter
<1> HIDE DEF n, f
<1>1. At(b, f) = At(b, s) \ {n} /\ ((n \in At(b, s)) <=> (b = Last(s)))
  BY <1>0 DEF At
<1>2. Cardinality(At(b, s) \ {n}) = IF n \in At(b, s) THEN Cardinality(At(b, s)) - 1 ELSE Cardinality(At(b, s))
  BY TimesType, FS_RemoveElement
<1>3. Times(b, s) = Cardinality(At(b, s)) /\ Times(b, s) \in Nat /\ Times(b, f) = Cardinality(At(b, f))
  BY TimesType DEF Times, At
<1>4. Times(b, f) = Times(b, s) - Same(b, Last(s))
  BY <1>1, <1>2, <1>3 DEF Same
<1> QED
  BY <1>4 DEF f

LEMMA TimesFull ==
  ASSUME NEW a \in Allocators, NEW b \in BlocksOf(a)
  PROVE  Times(b, Full(a)) = 1
<1>1. a \in memory /\ b \in Block /\ b.home = a /\ NumBlocks \in Nat
  BY BlocksAssumption DEF BlocksOf
<1>2. b = [home |-> a, index |-> b.index] /\ b.index \in 1..NumBlocks
  BY <1>1 DEF Block
<1>3. {i \in DOMAIN Full(a) : Full(a)[i] = b} = {b.index}
  BY <1>1, <1>2 DEF Full
<1> QED
  BY <1>3, FS_Singleton DEF Times

LEMMA FullIsHome ==
  ASSUME NEW a \in Allocators
  PROVE  Full(a) \in Seq(Block) /\ Range(Full(a)) \subseteq BlocksOf(a)
<1>1. \A i \in 1..NumBlocks : [home |-> a, index |-> i] \in Block
  BY DEF Block
<1>2. CASE a \in memory
  BY <1>1, <1>2, BlocksAssumption DEF Full, Range, BlocksOf
<1>3. CASE a \notin memory
  BY <1>3 DEF Full, Range, BlocksOf
<1> QED
  BY <1>2, <1>3

LEMMA OneMember ==
  ASSUME NEW S, IsFiniteSet(S), NEW A \in SUBSET S, NEW B \in SUBSET S, NEW s \in S, A \ {s} = B \ {s}
  PROVE  /\ Cardinality(A) \in Nat /\ Cardinality(B) \in Nat
         /\ Cardinality(B) = Cardinality(A) - Member(s, A) + Member(s, B)
<1>1. IsFiniteSet(A) /\ IsFiniteSet(B) /\ Cardinality(A) \in Nat /\ Cardinality(B) \in Nat
  BY FS_Subset, FS_CardinalityType
<1>2. Cardinality(A \ {s}) = IF s \in A THEN Cardinality(A) - 1 ELSE Cardinality(A)
  BY <1>1, FS_RemoveElement
<1>3. Cardinality(B \ {s}) = IF s \in B THEN Cardinality(B) - 1 ELSE Cardinality(B)
  BY <1>1, FS_RemoveElement
<1> DEFINE a == Cardinality(A)
           b == Cardinality(B)
           c == Cardinality(B \ {s})
<1>4. /\ a \in Nat /\ b \in Nat /\ c = IF s \in A THEN a - 1 ELSE a
      /\ c = IF s \in B THEN b - 1 ELSE b
  BY <1>1, <1>2, <1>3
<1> HIDE DEF a, b, c
<1>5. b = a - Member(s, A) + Member(s, B)
  BY <1>4 DEF Member
<1> QED
  BY <1>4, <1>5 DEF a, b

(* One pointer changes; one scoped block changes.                             *)
Holders(f, b) == {s \in Scopes : f[s] # Gone /\ f[s].block = b}
Holding(o, b) == IF o # Gone /\ o.block = b THEN 1 ELSE 0

LEMMA PointerChanges ==
  ASSUME AllocatorsTypeOK, NEW b, NEW x \in Pointers, NEW v, pointer' = [pointer EXCEPT ![x] = v]
  PROVE  /\ Cardinality(Pointed(b)) \in Nat /\ Cardinality(Pointed(b)') \in Nat
         /\ Cardinality(Pointed(b)') = Cardinality(Pointed(b)) - Same(pointer[x], b) + Same(v, b)
<1>1. Pointed(b) \ {x} = Pointed(b)' \ {x} /\ Pointed(b) \subseteq Pointers /\ Pointed(b)' \subseteq Pointers
  BY DEF AllocatorsTypeOK, Pointed
<1>2. ((x \in Pointed(b)) <=> (pointer[x] = b)) /\ ((x \in Pointed(b)') <=> (v = b))
  BY DEF AllocatorsTypeOK, Pointed
<1> QED
  BY <1>1, <1>2, OneMember, BlocksAssumption DEF Same, Member

LEMMA ScopeChanges ==
  ASSUME NEW T, NEW f \in [Scopes -> T], NEW b, NEW s \in Scopes, NEW v
  PROVE  /\ Cardinality(Holders(f, b)) \in Nat /\ Cardinality(Holders([f EXCEPT ![s] = v], b)) \in Nat
         /\ Cardinality(Holders([f EXCEPT ![s] = v], b)) =
              Cardinality(Holders(f, b)) - Holding(f[s], b) + Holding(v, b)
<1> DEFINE A == Holders(f, b)
           B == Holders([f EXCEPT ![s] = v], b)
<1>1. A \ {s} = B \ {s} /\ A \subseteq Scopes /\ B \subseteq Scopes
  BY DEF Holders
<1>2. ((s \in A) <=> (f[s] # Gone /\ f[s].block = b)) /\ ((s \in B) <=> (v # Gone /\ v.block = b))
  BY DEF Holders
<1> HIDE DEF A, B
<1>3. /\ Cardinality(A) \in Nat /\ Cardinality(B) \in Nat
      /\ Cardinality(B) = Cardinality(A) - Member(s, A) + Member(s, B)
  BY <1>1, OneMember, BlocksAssumption
<1>4. Member(s, A) = Holding(f[s], b) /\ Member(s, B) = Holding(v, b)
  BY <1>2 DEF Holding, Member
<1> QED
  BY <1>3, <1>4 DEF A, B

LEMMA HoldersFinite == ASSUME NEW f, NEW b PROVE Cardinality(Holders(f, b)) \in Nat
<1>1. Holders(f, b) \subseteq Scopes
  BY DEF Holders
<1> QED
  BY <1>1, FS_Subset, FS_CardinalityType, BlocksAssumption

LEMMA PointedFinite == ASSUME NEW b PROVE Cardinality(Pointed(b)) \in Nat
<1>1. Pointed(b) \subseteq Pointers
  BY DEF Pointed
<1> QED
  BY <1>1, FS_Subset, FS_CardinalityType, BlocksAssumption

(* What the places of a block are, before and after a step.                   *)
LEMMA PlacesSum ==
  ASSUME NEW b
  PROVE  /\ Places(b) = Times(b, freeBlocks[b.home]) + Cardinality(Holders(scope, b)) + Cardinality(Pointed(b))
         /\ Places(b)' = Times(b, freeBlocks'[b.home]) + Cardinality(Holders(scope', b)) + Cardinality(Pointed(b)')
  BY DEF Places, Holders, Pointed, Times

(* An operation that keeps the number of places of every block keeps OnePlace.*)
LEMMA Balanced ==
  ASSUME OnePlace, memory' = memory, misused' = misused, \A b \in Block : Places(b)' = Places(b)
  PROVE  OnePlace'
<1> SUFFICES ASSUME NEW a \in Allocators \ misused', NEW b \in BlocksOf(a)'
             PROVE  Places(b)' = 1
  BY DEF OnePlace
<1>1. b \in BlocksOf(a) /\ b \in Block
  BY DEF BlocksOf
<1> QED
  BY <1>1 DEF OnePlace

-----------------------------------------------------------------------------
(* The two operations on a stack                                              *)

LEMMA PopKeeps ==
  ASSUME AllocatorsTypeOK, ComesHome, NEW a \in Allocators, freeBlocks' = Popped(a), memory' = memory
  PROVE  /\ freeBlocks' \in [Allocators -> Seq(Block)]
         /\ \A c \in Allocators : Range(freeBlocks'[c]) \subseteq BlocksOf(c)'
         /\ Top(a) # Null => Top(a) \in BlocksOf(a)
         /\ \A b \in Block :
              /\ Times(b, freeBlocks[b.home]) \in Nat
              /\ Times(b, freeBlocks'[b.home]) = Times(b, freeBlocks[b.home]) - Same(Top(a), b)
<1> DEFINE s == freeBlocks[a]
<1>1. s \in Seq(Block) /\ Range(s) \subseteq BlocksOf(a) /\ freeBlocks \in [Allocators -> Seq(Block)]
  BY DEF AllocatorsTypeOK, ComesHome
<1>2. \A c : BlocksOf(c)' = BlocksOf(c)
  BY DEF BlocksOf
<1>3. \A b \in Block : b.home \in Allocators /\ Times(b, freeBlocks[b.home]) \in Nat
  <2> TAKE b \in Block
  <2>1. b.home \in Allocators /\ freeBlocks[b.home] \in Seq(Block)
    BY <1>1 DEF Block
  <2> QED
    BY <2>1, TimesType
<1>4. CASE s = <<>>
  <2>1. freeBlocks' = freeBlocks /\ Top(a) = Null
    BY <1>1, <1>4 DEF Popped, Top
  <2>2. \A b \in Block : Same(Top(a), b) = 0
    BY <2>1, BlocksAssumption DEF Same
  <2> QED
    BY <1>1, <1>2, <1>3, <2>1, <2>2 DEF ComesHome
<1>5. CASE s # <<>>
  <2>1. Front(s) \in Seq(Block) /\ Last(s) \in Range(s) /\ Range(Front(s)) \subseteq Range(s)
    <3> DEFINE f == Front(s)
    <3>1. /\ f \in Seq(Block) /\ Len(s) \in Nat \ {0} /\ Last(s) = s[Len(s)] /\ DOMAIN s = 1..Len(s)
          /\ DOMAIN f = 1..(Len(s) - 1) /\ \A i \in 1..(Len(s) - 1) : f[i] = s[i]
      BY <1>1, <1>5, FrontIsShorter
    <3> HIDE DEF f, s
    <3>2. Range(f) \subseteq Range(s) /\ Last(s) \in Range(s)
      BY <3>1 DEF Range
    <3> QED
      BY <3>1, <3>2 DEF f
  <2>2. Top(a) = Last(s) /\ freeBlocks' = [freeBlocks EXCEPT ![a] = Front(s)]
    BY <1>5 DEF Top, Popped
  <2>3. Top(a) \in BlocksOf(a) /\ Top(a).home = a
    BY <1>1, <2>1, <2>2 DEF BlocksOf
  <2>4. \A b \in Block : Times(b, freeBlocks'[b.home]) = Times(b, freeBlocks[b.home]) - Same(Top(a), b)
    <3> TAKE b \in Block
    <3>1. CASE b.home = a
      <4>1. Times(b, Front(s)) = Times(b, s) - Same(b, Last(s))
        BY <1>1, <1>5, TimesFront
      <4>2. freeBlocks'[b.home] = Front(s) /\ freeBlocks[b.home] = s
        BY <1>1, <2>2, <3>1
      <4> QED
        BY <2>2, <4>1, <4>2 DEF Same
    <3>2. CASE b.home # a
      <4>1. freeBlocks'[b.home] = freeBlocks[b.home] /\ Top(a) # b
        BY <1>1, <1>3, <2>2, <2>3, <3>2
      <4> QED
        BY <1>3, <4>1 DEF Same
    <3> QED
      BY <3>1, <3>2
  <2>5. freeBlocks' \in [Allocators -> Seq(Block)] /\ \A c \in Allocators : Range(freeBlocks'[c]) \subseteq BlocksOf(c)
    BY <1>1, <2>1, <2>2 DEF ComesHome
  <2> QED
    BY <1>2, <1>3, <2>3, <2>4, <2>5
<1> QED
  BY <1>4, <1>5

LEMMA PushKeeps ==
  ASSUME AllocatorsTypeOK, ComesHome, NEW a \in Allocators, NEW d \in BlocksOf(a), memory' = memory,
         freeBlocks' = [freeBlocks EXCEPT ![a] = Append(@, d)]
  PROVE  /\ freeBlocks' \in [Allocators -> Seq(Block)]
         /\ \A c \in Allocators : Range(freeBlocks'[c]) \subseteq BlocksOf(c)'
         /\ \A b \in Block :
              /\ Times(b, freeBlocks[b.home]) \in Nat
              /\ Times(b, freeBlocks'[b.home]) = Times(b, freeBlocks[b.home]) + Same(d, b)
<1> DEFINE s == freeBlocks[a]
<1>1. /\ s \in Seq(Block) /\ Range(s) \subseteq BlocksOf(a) /\ freeBlocks \in [Allocators -> Seq(Block)]
      /\ d \in Block /\ d.home = a
  BY DEF AllocatorsTypeOK, ComesHome, BlocksOf
<1>2. \A c : BlocksOf(c)' = BlocksOf(c)
  BY DEF BlocksOf
<1>3. \A b \in Block : b.home \in Allocators /\ Times(b, freeBlocks[b.home]) \in Nat
  <2> TAKE b \in Block
  <2>1. b.home \in Allocators /\ freeBlocks[b.home] \in Seq(Block)
    BY <1>1 DEF Block
  <2> QED
    BY <2>1, TimesType
<1>4. freeBlocks' = [freeBlocks EXCEPT ![a] = Append(s, d)] /\ Append(s, d) \in Seq(Block)
  BY <1>1
<1>5. Range(Append(s, d)) \subseteq BlocksOf(a)
  <2>1. \A i \in DOMAIN Append(s, d) : Append(s, d)[i] = d \/ (i \in DOMAIN s /\ Append(s, d)[i] = s[i])
    BY <1>1
  <2> QED
    BY <1>1, <2>1 DEF Range
<1>6. \A b \in Block : Times(b, freeBlocks'[b.home]) = Times(b, freeBlocks[b.home]) + Same(d, b)
  <2> TAKE b \in Block
  <2>1. CASE b.home = a
    <3>1. Times(b, Append(s, d)) = Times(b, s) + Same(b, d)
      BY <1>1, TimesAppend
    <3>2. freeBlocks'[b.home] = Append(s, d) /\ freeBlocks[b.home] = s
      BY <1>1, <1>4, <2>1
    <3> QED
      BY <3>1, <3>2 DEF Same
  <2>2. CASE b.home # a
    <3>1. freeBlocks'[b.home] = freeBlocks[b.home] /\ d # b
      BY <1>1, <1>3, <1>4, <2>2
    <3> QED
      BY <1>3, <3>1 DEF Same
  <2> QED
    BY <2>1, <2>2
<1>7. freeBlocks' \in [Allocators -> Seq(Block)] /\ \A c \in Allocators : Range(freeBlocks'[c]) \subseteq BlocksOf(c)
  BY <1>1, <1>4, <1>5 DEF ComesHome
<1> QED
  BY <1>2, <1>3, <1>6, <1>7

-----------------------------------------------------------------------------
(* The operations                                                             *)

Object == {Gone, Empty} \union [allocator : AudioAllocators, block : Block \union {Null}]

(* What a ScopedAudioBlock holds, if anything, is of its allocator.           *)
LEMMA Held ==
  ASSUME AllocatorsInv, NEW s \in Scopes, scope[s] # Gone
  PROVE  /\ scope[s] \in Object
         /\ \/ scope[s].block = Null
            \/ /\ scope[s].allocator \in AudioAllocators /\ scope[s].block \in Block
               /\ scope[s].block \in BlocksOf(scope[s].allocator)
<1>1. scope[s] \in Object
  BY DEF AllocatorsInv, AllocatorsTypeOK, Object
<1>2. scope[s].block = Null \/ (scope[s].allocator \in AudioAllocators /\ scope[s].block \in Block)
  BY <1>1 DEF Object, Empty
<1>3. scope[s].block # Null => scope[s].block \in BlocksOf(scope[s].allocator)
  BY DEF AllocatorsInv, ComesHome
<1> QED
  BY <1>1, <1>2, <1>3

LEMMA NotNull == Null \notin Block /\ \A a, b : a \in AudioAllocators /\ b \in Block \union {Null} => [allocator |-> a, block |-> b] # Gone
  BY BlocksAssumption

LEMMA AllocatorsInitEstablishes == AllocatorsInit => AllocatorsInv
<1> SUFFICES ASSUME AllocatorsInit PROVE AllocatorsInv
  OBVIOUS
<1>1. \A a \in Allocators : freeBlocks[a] = Full(a) /\ Full(a) \in Seq(Block) /\ Range(Full(a)) \subseteq BlocksOf(a)
  BY FullIsHome DEF AllocatorsInit
<1>2. AllocatorsTypeOK
  BY <1>1 DEF AllocatorsInit, AllocatorsTypeOK, Allocators
<1>3. PointersHome /\ ComesHome
  BY <1>1 DEF AllocatorsInit, PointersHome, ComesHome
<1>4. OnePlace
  <2> SUFFICES ASSUME NEW a \in Allocators, NEW b \in BlocksOf(a) PROVE Places(b) = 1
    BY DEF OnePlace
  <2>1. b \in Block /\ b.home = a /\ Times(b, freeBlocks[b.home]) = 1
    BY <1>1, TimesFull DEF BlocksOf
  <2>2. Holders(scope, b) = {} /\ Pointed(b) = {}
    BY <2>1, NotNull DEF AllocatorsInit, Holders, Pointed
  <2> QED
    <3>1. Cardinality(Holders(scope, b)) = 0 /\ Cardinality(Pointed(b)) = 0
      BY <2>2, FS_EmptySet
    <3> QED
      BY <2>1, <3>1, PlacesSum
<1> QED
  BY <1>2, <1>3, <1>4 DEF AllocatorsInv

LEMMA AllocateKeeps ==
  ASSUME AllocatorsInv, NEW x \in Pointers, NEW a \in Allocators, Allocate(x, a)
  PROVE  AllocatorsInv'
<1>1. /\ AllocatorsTypeOK /\ ComesHome /\ freeBlocks' = Popped(a) /\ memory' = memory /\ misused' = misused /\ scope' = scope
      /\ pointer[x] = Null /\ pointer' = [pointer EXCEPT ![x] = Top(a)]
  BY DEF Allocate, AllocatorsInv
<1>2. Top(a) \in Block \union {Null} /\ (Top(a) # Null => Top(a) \in BlocksOf(a))
  BY <1>1, PopKeeps DEF BlocksOf
<1>3. AllocatorsTypeOK'
  BY <1>1, <1>2, PopKeeps DEF AllocatorsTypeOK
<1>4. PointersHome' /\ ComesHome'
  <2>1. \A c : BlocksOf(c)' = BlocksOf(c)
    BY <1>1 DEF BlocksOf
  <2>2. Top(a) # Null => Top(a).home = a
    BY <1>2 DEF BlocksOf
  <2>3. \A y \in Pointers : pointer'[y] = pointer[y] \/ pointer'[y] = Top(a)
    BY <1>1 DEF AllocatorsTypeOK
  <2>4. PointersHome'
    BY <1>2, <2>1, <2>2, <2>3 DEF AllocatorsInv, PointersHome
  <2>5. ComesHome'
    BY <1>1, <2>1, PopKeeps DEF AllocatorsInv, ComesHome
  <2> QED
    BY <2>4, <2>5
<1>5. \A b \in Block : Places(b)' = Places(b)
  <2> TAKE b \in Block
  <2> DEFINE S == Cardinality(Holders(scope, b))
  <2>1. /\ Cardinality(Pointed(b)) \in Nat
        /\ Cardinality(Pointed(b)') = Cardinality(Pointed(b)) - Same(pointer[x], b) + Same(Top(a), b)
    BY <1>1, PointerChanges
  <2>2. S \in Nat /\ Cardinality(Holders(scope', b)) = S
    BY <1>1, HoldersFinite
  <2>3. Same(pointer[x], b) = 0 /\ Same(Top(a), b) \in Nat
    BY <1>1, NotNull DEF Same
  <2>4. /\ Times(b, freeBlocks[b.home]) \in Nat
        /\ Times(b, freeBlocks'[b.home]) = Times(b, freeBlocks[b.home]) - Same(Top(a), b)
    BY <1>1, PopKeeps
  <2> QED
    BY <2>1, <2>2, <2>3, <2>4, PlacesSum
<1> QED
  BY <1>1, <1>3, <1>4, <1>5, Balanced DEF AllocatorsInv

(* Both kinds of deallocate(), once they take the block.                      *)
LEMMA DeallocateKeeps ==
  ASSUME AllocatorsInv, NEW x \in Pointers, pointer[x] # Null,
         freeBlocks' = [freeBlocks EXCEPT ![pointer[x].home] = Append(@, pointer[x])],
         pointer' = [pointer EXCEPT ![x] = Null], UNCHANGED <<memory, scope, misused>>
  PROVE  AllocatorsInv'
<1> DEFINE d == pointer[x]
<1>1. AllocatorsTypeOK /\ ComesHome /\ d \in BlocksOf(d.home) /\ d \in Block /\ d.home \in Allocators
  BY DEF AllocatorsInv, AllocatorsTypeOK, PointersHome, Block
<1>2. /\ freeBlocks' = [freeBlocks EXCEPT ![d.home] = Append(@, d)]
      /\ memory' = memory /\ scope' = scope /\ misused' = misused
      /\ d = pointer[x] /\ pointer' = [pointer EXCEPT ![x] = Null]
  OBVIOUS
<1> HIDE DEF d
<1>3. AllocatorsTypeOK'
  BY <1>1, <1>2, PushKeeps DEF AllocatorsTypeOK
<1>4. PointersHome' /\ ComesHome'
  <2>1. \A c : BlocksOf(c)' = BlocksOf(c)
    BY <1>2 DEF BlocksOf
  <2>2. \A y \in Pointers : pointer'[y] = pointer[y] \/ pointer'[y] = Null
    BY <1>1, <1>2 DEF AllocatorsTypeOK
  <2>3. PointersHome'
    BY <2>1, <2>2 DEF AllocatorsInv, PointersHome
  <2>4. ComesHome'
    BY <1>1, <1>2, <2>1, PushKeeps DEF AllocatorsInv, ComesHome
  <2> QED
    BY <2>3, <2>4
<1>5. \A b \in Block : Places(b)' = Places(b)
  <2> TAKE b \in Block
  <2> DEFINE S == Cardinality(Holders(scope, b))
  <2>1. /\ Cardinality(Pointed(b)) \in Nat
        /\ Cardinality(Pointed(b)') = Cardinality(Pointed(b)) - Same(pointer[x], b) + Same(Null, b)
    BY <1>1, <1>2, PointerChanges
  <2>2. S \in Nat /\ Cardinality(Holders(scope', b)) = S
    BY <1>2, HoldersFinite
  <2>3. Same(Null, b) = 0 /\ Same(d, b) \in Nat /\ Same(pointer[x], b) = Same(d, b)
    BY <1>2, NotNull DEF Same
  <2>4. /\ Times(b, freeBlocks[b.home]) \in Nat
        /\ Times(b, freeBlocks'[b.home]) = Times(b, freeBlocks[b.home]) + Same(d, b)
    BY <1>1, <1>2, PushKeeps
  <2> QED
    BY <2>1, <2>2, <2>3, <2>4, PlacesSum
<1> QED
  BY <1>3, <1>4, <1>5, Balanced DEF AllocatorsInv

LEMMA ConstructKeeps ==
  ASSUME AllocatorsInv, NEW s \in Scopes, NEW a \in AudioAllocators, Construct(s, a)
  PROVE  AllocatorsInv'
<1> DEFINE v == [allocator |-> a, block |-> Top(a)]
<1>1. /\ AllocatorsTypeOK /\ ComesHome /\ freeBlocks' = Popped(a) /\ memory' = memory /\ misused' = misused /\ pointer' = pointer
      /\ scope[s] = Gone /\ scope' = [scope EXCEPT ![s] = v] /\ a \in Allocators /\ scope \in [Scopes -> Object]
  BY DEF Construct, AllocatorsInv, Allocators, AllocatorsTypeOK, Object
<1>2. Top(a) \in Block \union {Null} /\ (Top(a) # Null => Top(a) \in BlocksOf(a))
  BY <1>1, PopKeeps DEF BlocksOf
<1>3. v \in Object /\ v.block = Top(a) /\ v.allocator = a /\ v # Gone
  BY <1>2, NotNull DEF Object
<1> HIDE DEF v
<1>4. AllocatorsTypeOK'
  <2>1. scope' \in [Scopes -> Object]
    BY <1>1, <1>3
  <2> QED
    BY <1>1, <2>1, PopKeeps DEF AllocatorsTypeOK, Object
<1>5. PointersHome' /\ ComesHome'
  <2>1. \A c : BlocksOf(c)' = BlocksOf(c)
    BY <1>1 DEF BlocksOf
  <2>2. \A t \in Scopes : scope'[t] = v \/ scope'[t] = scope[t]
    BY <1>1
  <2> QED
    BY <1>1, <1>2, <1>3, <2>1, <2>2, PopKeeps DEF AllocatorsInv, PointersHome, ComesHome
<1>6. \A b \in Block : Places(b)' = Places(b)
  <2> TAKE b \in Block
  <2>1. /\ Cardinality(Holders(scope, b)) \in Nat
        /\ Cardinality(Holders(scope', b)) = Cardinality(Holders(scope, b)) - Holding(Gone, b) + Holding(v, b)
    BY <1>1, ScopeChanges
  <2>2. Cardinality(Pointed(b)) \in Nat /\ Pointed(b)' = Pointed(b)
    BY <1>1, PointedFinite DEF Pointed
  <2>3. Holding(Gone, b) = 0 /\ Holding(v, b) = Same(Top(a), b) /\ Same(Top(a), b) \in Nat
    BY <1>3 DEF Holding, Same
  <2>4. /\ Times(b, freeBlocks[b.home]) \in Nat
        /\ Times(b, freeBlocks'[b.home]) = Times(b, freeBlocks[b.home]) - Same(Top(a), b)
    BY <1>1, PopKeeps
  <2> QED
    BY <2>1, <2>2, <2>3, <2>4, PlacesSum
<1> QED
  BY <1>1, <1>4, <1>5, <1>6, Balanced DEF AllocatorsInv

(* What ~ScopedAudioBlock, or a move to the object, does to the stacks.       *)
LEMMA ReleaseKeeps ==
  ASSUME AllocatorsInv, NEW s \in Scopes, scope[s] # Gone, freeBlocks' = Released(scope[s]), memory' = memory
  PROVE  /\ freeBlocks' \in [Allocators -> Seq(Block)]
         /\ \A c \in Allocators : Range(freeBlocks'[c]) \subseteq BlocksOf(c)'
         /\ \A b \in Block :
              /\ Times(b, freeBlocks[b.home]) \in Nat /\ Holding(scope[s], b) \in Nat
              /\ Times(b, freeBlocks'[b.home]) = Times(b, freeBlocks[b.home]) + Holding(scope[s], b)
<1> DEFINE o == scope[s]
<1>1. AllocatorsTypeOK /\ ComesHome /\ o # Gone /\ freeBlocks' = Released(o)
  BY DEF AllocatorsInv
<1>2. o \in Object /\ (o.block = Null \/ (o.allocator \in AudioAllocators /\ o.block \in BlocksOf(o.allocator) /\ o.block \in Block))
  BY Held
<1> HIDE DEF o
<1>3. CASE o.block = Null
  <2>1. freeBlocks' = freeBlocks
    BY <1>1, <1>3 DEF Released
  <2>2. \A b \in Block : Holding(o, b) = 0
    BY <1>3, NotNull DEF Holding
  <2>3. \A b \in Block : Times(b, freeBlocks[b.home]) \in Nat
    BY <1>1, TimesType DEF AllocatorsTypeOK, Block
  <2>4. \A c : BlocksOf(c)' = BlocksOf(c)
    BY DEF BlocksOf
  <2> QED
    BY <1>1, <2>1, <2>2, <2>3, <2>4 DEF AllocatorsTypeOK, ComesHome, o
<1>4. CASE o.block # Null
  <2>1. o.allocator \in Allocators /\ o.block \in BlocksOf(o.allocator) /\ o.allocator # Null
    BY <1>2, <1>4, BlocksAssumption DEF Allocators
  <2>2. freeBlocks' = [freeBlocks EXCEPT ![o.allocator] = Append(@, o.block)]
    BY <1>1, <1>4, <2>1 DEF Released
  <2>3. \A b \in Block : Holding(o, b) = Same(o.block, b) /\ Same(o.block, b) \in Nat
    BY <1>1 DEF Holding, Same
  <2> QED
    BY <1>1, <2>1, <2>2, <2>3, PushKeeps DEF o
<1> QED
  BY <1>3, <1>4

LEMMA DestroyKeeps ==
  ASSUME AllocatorsInv, NEW s \in Scopes, Destroy(s)
  PROVE  AllocatorsInv'
<1>1. /\ AllocatorsTypeOK /\ ComesHome /\ scope[s] # Gone /\ freeBlocks' = Released(scope[s])
      /\ memory' = memory /\ misused' = misused /\ pointer' = pointer
      /\ scope' = [scope EXCEPT ![s] = Gone] /\ scope \in [Scopes -> Object]
  BY DEF Destroy, AllocatorsInv, AllocatorsTypeOK, Object
<1>2. AllocatorsTypeOK'
  <2>1. scope' \in [Scopes -> Object]
    BY <1>1 DEF Object
  <2> QED
    BY <1>1, <2>1, ReleaseKeeps DEF AllocatorsTypeOK, Object
<1>3. PointersHome' /\ ComesHome'
  <2>1. \A c : BlocksOf(c)' = BlocksOf(c)
    BY <1>1 DEF BlocksOf
  <2>2. \A t \in Scopes : scope'[t] = Gone \/ scope'[t] = scope[t]
    BY <1>1
  <2> QED
    BY <1>1, <2>1, <2>2, ReleaseKeeps DEF AllocatorsInv, PointersHome, ComesHome
<1>4. \A b \in Block : Places(b)' = Places(b)
  <2> TAKE b \in Block
  <2>1. /\ Cardinality(Holders(scope, b)) \in Nat
        /\ Cardinality(Holders(scope', b)) = Cardinality(Holders(scope, b)) - Holding(scope[s], b) + Holding(Gone, b)
    BY <1>1, ScopeChanges
  <2>2. Cardinality(Pointed(b)) \in Nat /\ Pointed(b)' = Pointed(b)
    BY <1>1, PointedFinite DEF Pointed
  <2>3. Holding(Gone, b) = 0
    BY DEF Holding
  <2>4. /\ Times(b, freeBlocks[b.home]) \in Nat /\ Holding(scope[s], b) \in Nat
        /\ Times(b, freeBlocks'[b.home]) = Times(b, freeBlocks[b.home]) + Holding(scope[s], b)
    BY <1>1, ReleaseKeeps
  <2> QED
    BY <2>1, <2>2, <2>3, <2>4, PlacesSum
<1> QED
  BY <1>1, <1>2, <1>3, <1>4, Balanced DEF AllocatorsInv

(* A move: what t held is held by s, t is empty, what s held is let go.       *)
LEMMA MoveChanges ==
  ASSUME AllocatorsInv, NEW s \in Scopes, NEW t \in Scopes, s # t, scope[t] # Gone,
         scope' = [scope EXCEPT ![s] = scope[t], ![t] = MovedFrom(scope[t])],
         memory' = memory
  PROVE  /\ scope' \in [Scopes -> Object]
         /\ \A u \in Scopes : scope'[u] # Gone /\ scope'[u].block # Null =>
              scope'[u].block \in BlocksOf(scope'[u].allocator)
         /\ \A b \in Block :
              /\ Cardinality(Holders(scope, b)) \in Nat
              /\ Cardinality(Holders(scope', b)) = Cardinality(Holders(scope, b)) - Holding(scope[s], b)
<1> DEFINE v == scope[t]
           f == [scope EXCEPT ![s] = v]
<1>1. scope \in [Scopes -> Object] /\ v \in Object /\ f \in [Scopes -> Object] /\ Empty \in Object /\ Empty.block = Null
  BY DEF AllocatorsInv, AllocatorsTypeOK, Object, Empty
<1>2. scope' = [f EXCEPT ![t] = Empty] /\ f[t] = v
  BY <1>1 DEF MovedFrom
<1>0. v = scope[t]
  OBVIOUS
<1> HIDE DEF v
<1>3. ASSUME NEW b \in Block
      PROVE  /\ Cardinality(Holders(scope, b)) \in Nat
             /\ Cardinality(Holders(f, b)) = Cardinality(Holders(scope, b)) - Holding(scope[s], b) + Holding(v, b)
  <2> DEFINE g == scope
             o == scope[s]
  <2>1. g \in [Scopes -> Object] /\ g[s] = o
    BY <1>1
  <2> HIDE DEF g, o
  <2>2. /\ Cardinality(Holders(g, b)) \in Nat
        /\ Cardinality(Holders([g EXCEPT ![s] = v], b)) = Cardinality(Holders(g, b)) - Holding(g[s], b) + Holding(v, b)
    BY <2>1, ScopeChanges
  <2> QED
    BY <2>1, <2>2 DEF f, g, o
<1> HIDE DEF f
<1>4. ASSUME NEW b \in Block
      PROVE  Cardinality(Holders(scope', b)) = Cardinality(Holders(f, b)) - Holding(v, b) + Holding(Empty, b)
  <2>1. Cardinality(Holders([f EXCEPT ![t] = Empty], b)) = Cardinality(Holders(f, b)) - Holding(f[t], b) + Holding(Empty, b)
    BY <1>1, ScopeChanges
  <2> QED
    BY <1>2, <2>1
<1>5. \A b \in Block : Holding(Empty, b) = 0 /\ Holding(v, b) \in Nat /\ Holding(scope[s], b) \in Nat
  BY <1>1, NotNull DEF Holding
<1>6. \A c : BlocksOf(c)' = BlocksOf(c)
  BY DEF BlocksOf
<1>7. \A u \in Scopes : scope'[u] = Empty \/ scope'[u] = scope[t] \/ scope'[u] = scope[u]
  BY <1>0, <1>1 DEF MovedFrom
<1>8. \A u \in Scopes : scope'[u] # Gone /\ scope'[u].block # Null =>
        scope'[u].block \in BlocksOf(scope'[u].allocator)
  BY <1>1, <1>6, <1>7 DEF AllocatorsInv, ComesHome
<1>9. scope' \in [Scopes -> Object]
  BY <1>1, <1>2
<1>10. ASSUME NEW b \in Block
       PROVE  Cardinality(Holders(scope', b)) = Cardinality(Holders(scope, b)) - Holding(scope[s], b)
  <2>1. Holding(Empty, b) = 0 /\ Holding(v, b) \in Nat /\ Holding(scope[s], b) \in Nat
    BY <1>5
  <2>2. /\ Cardinality(Holders(scope, b)) \in Nat
        /\ Cardinality(Holders(f, b)) = Cardinality(Holders(scope, b)) - Holding(scope[s], b) + Holding(v, b)
    BY <1>3
  <2>3. Cardinality(Holders(scope', b)) = Cardinality(Holders(f, b)) - Holding(v, b) + Holding(Empty, b)
    BY <1>4
  <2> QED
    BY <2>1, <2>2, <2>3
<1> QED
  BY <1>3, <1>8, <1>9, <1>10

LEMMA MoveConstructKeeps ==
  ASSUME AllocatorsInv, NEW s \in Scopes, NEW t \in Scopes, MoveConstruct(s, t)
  PROVE  AllocatorsInv'
<1>1. /\ scope[s] = Gone /\ scope[t] # Gone /\ s # t /\ memory' = memory /\ misused' = misused /\ pointer' = pointer
      /\ scope' = [scope EXCEPT ![s] = scope[t], ![t] = MovedFrom(scope[t])] /\ freeBlocks' = freeBlocks
  BY DEF MoveConstruct
<1>2. \A c : BlocksOf(c)' = BlocksOf(c)
  BY <1>1 DEF BlocksOf
<1>3. AllocatorsTypeOK' /\ PointersHome' /\ ComesHome'
  <2>1. AllocatorsTypeOK'
    BY <1>1, MoveChanges DEF AllocatorsInv, AllocatorsTypeOK, Object
  <2>2. PointersHome'
    BY <1>1, <1>2 DEF AllocatorsInv, PointersHome
  <2>3. ComesHome'
    BY <1>1, <1>2, MoveChanges DEF AllocatorsInv, ComesHome
  <2> QED
    BY <2>1, <2>2, <2>3
<1>4. \A b \in Block : Places(b)' = Places(b)
  <2> TAKE b \in Block
  <2>1. /\ Cardinality(Holders(scope, b)) \in Nat
        /\ Cardinality(Holders(scope', b)) = Cardinality(Holders(scope, b)) - Holding(scope[s], b)
    BY <1>1, MoveChanges
  <2>2. Holding(scope[s], b) = 0 /\ Pointed(b)' = Pointed(b)
    BY <1>1 DEF Holding, Pointed
  <2>3. Cardinality(Holders(scope', b)) = Cardinality(Holders(scope, b))
    BY <2>1, <2>2
  <2> QED
    BY <1>1, <2>2, <2>3, PlacesSum
<1> QED
  BY <1>1, <1>3, <1>4, Balanced DEF AllocatorsInv

LEMMA MoveAssignKeeps ==
  ASSUME AllocatorsInv, NEW s \in Scopes, NEW t \in Scopes, MoveAssign(s, t)
  PROVE  AllocatorsInv'
<1>1. /\ scope[s] # Gone /\ scope[t] # Gone /\ s # t /\ memory' = memory /\ misused' = misused /\ pointer' = pointer
      /\ scope' = [scope EXCEPT ![s] = scope[t], ![t] = MovedFrom(scope[t])] /\ freeBlocks' = Released(scope[s])
  BY DEF MoveAssign
<1>2. \A c : BlocksOf(c)' = BlocksOf(c)
  BY <1>1 DEF BlocksOf
<1>3. AllocatorsTypeOK' /\ PointersHome' /\ ComesHome'
  <2>1. AllocatorsTypeOK'
    BY <1>1, MoveChanges, ReleaseKeeps DEF AllocatorsInv, AllocatorsTypeOK, Object
  <2>2. PointersHome'
    BY <1>1, <1>2 DEF AllocatorsInv, PointersHome
  <2>3. ComesHome'
    BY <1>1, <1>2, MoveChanges, ReleaseKeeps DEF AllocatorsInv, ComesHome
  <2> QED
    BY <2>1, <2>2, <2>3
<1>4. \A b \in Block : Places(b)' = Places(b)
  <2> TAKE b \in Block
  <2>1. /\ Cardinality(Holders(scope, b)) \in Nat
        /\ Cardinality(Holders(scope', b)) = Cardinality(Holders(scope, b)) - Holding(scope[s], b)
    BY <1>1, MoveChanges
  <2>2. Cardinality(Pointed(b)) \in Nat /\ Pointed(b)' = Pointed(b)
    BY <1>1, PointedFinite DEF Pointed
  <2>3. /\ Times(b, freeBlocks[b.home]) \in Nat /\ Holding(scope[s], b) \in Nat
        /\ Times(b, freeBlocks'[b.home]) = Times(b, freeBlocks[b.home]) + Holding(scope[s], b)
    BY <1>1, ReleaseKeeps
  <2> QED
    BY <2>1, <2>2, <2>3, PlacesSum
<1> QED
  BY <1>1, <1>3, <1>4, Balanced DEF AllocatorsInv

LEMMA ResetKeeps ==
  ASSUME AllocatorsInv, NEW a \in Allocators, Reset(a)
  PROVE  AllocatorsInv'
<1>1. /\ AllocatorsTypeOK /\ ComesHome /\ freeBlocks' = [freeBlocks EXCEPT ![a] = Full(a)] /\ memory' = memory /\ scope' = scope
      /\ pointer' = [x \in Pointers |-> IF pointer[x] \in BlocksOf(a) THEN Null ELSE pointer[x]]
      /\ misused' = IF Live(a) = {} THEN misused \ {a} ELSE misused \union {a}
  BY DEF Reset, Refill, AllocatorsInv
<1>2. Full(a) \in Seq(Block) /\ Range(Full(a)) \subseteq BlocksOf(a)
  BY FullIsHome
<1>3. \A c : BlocksOf(c)' = BlocksOf(c)
  BY <1>1 DEF BlocksOf
<1>4. a \in Pools => Live(a) = {}
  <2> SUFFICES ASSUME NEW s \in Live(a), a \in Pools PROVE FALSE
    OBVIOUS
  <2>1. s \in Scopes /\ scope[s] # Gone /\ scope[s].block \in BlocksOf(a)
    BY DEF Live
  <2>2. scope[s].block \in Block /\ scope[s].block.home = a
    BY <2>1 DEF BlocksOf
  <2>3. scope[s].block # Null
    BY <2>2, NotNull
  <2>4. scope[s].allocator \in AudioAllocators /\ scope[s].block \in BlocksOf(scope[s].allocator)
    BY <2>1, <2>3, Held
  <2> QED
    BY <2>2, <2>4, BlocksAssumption DEF BlocksOf
<1>5. AllocatorsTypeOK'
  <2>1. freeBlocks' \in [Allocators -> Seq(Block)]
    BY <1>1, <1>2 DEF AllocatorsTypeOK
  <2>2. misused' \subseteq AudioAllocators
    BY <1>1, <1>4 DEF AllocatorsTypeOK, Allocators
  <2>3. pointer' \in [Pointers -> Block \union {Null}]
    BY <1>1 DEF AllocatorsTypeOK
  <2> QED
    BY <1>1, <2>1, <2>2, <2>3 DEF AllocatorsTypeOK
<1>6. PointersHome'
  BY <1>1, <1>3 DEF AllocatorsInv, PointersHome
<1>7. ComesHome'
  <2>1. \A c \in Allocators : Range(freeBlocks'[c]) \subseteq BlocksOf(c)
    BY <1>1, <1>2 DEF AllocatorsTypeOK, ComesHome
  <2> QED
    BY <1>1, <1>3, <2>1 DEF ComesHome
<1>8. OnePlace'
  <2> SUFFICES ASSUME NEW c \in Allocators \ misused', NEW b \in BlocksOf(c) PROVE Places(b)' = 1
    BY <1>3 DEF OnePlace
  <2>1. b \in Block /\ b.home = c
    BY DEF BlocksOf
  <2>2. CASE c = a
    <3>1. Live(a) = {}
      BY <1>1, <2>2
    <3>2. Holders(scope', b) = {} /\ Pointed(b)' = {}
      BY <1>1, <2>1, <2>2, <3>1, NotNull DEF Holders, Live, Pointed
    <3>3. freeBlocks'[b.home] = Full(a) /\ Times(b, Full(a)) = 1
      BY <1>1, <2>1, <2>2, TimesFull DEF AllocatorsTypeOK
    <3>4. Cardinality(Holders(scope', b)) = 0 /\ Cardinality(Pointed(b)') = 0
      BY <3>2, FS_EmptySet
    <3> QED
      BY <3>3, <3>4, PlacesSum
  <2>3. CASE c # a
    <3>1. c \notin misused /\ Places(b) = 1
      BY <1>1, <2>3 DEF AllocatorsInv, OnePlace
    <3>2. b \notin BlocksOf(a)
      BY <2>1, <2>3 DEF BlocksOf
    <3>3. Pointed(b)' = Pointed(b)
      BY <1>1, <2>1, <3>2, NotNull DEF Pointed
    <3>4. freeBlocks'[b.home] = freeBlocks[b.home]
      BY <1>1, <2>1, <2>3 DEF AllocatorsTypeOK
    <3> QED
      BY <1>1, <3>1, <3>3, <3>4, PlacesSum
  <2> QED
    BY <2>2, <2>3
<1> QED
  BY <1>5, <1>6, <1>7, <1>8 DEF AllocatorsInv

LEMMA AllocatorsNextKeeps == AllocatorsInv /\ [AllocatorsNext]_allocatorVars => AllocatorsInv'
<1> SUFFICES ASSUME AllocatorsInv, [AllocatorsNext]_allocatorVars PROVE AllocatorsInv'
  OBVIOUS
<1>1. CASE UNCHANGED allocatorVars
  BY <1>1 DEF allocatorVars, AllocatorsInv, AllocatorsTypeOK, PointersHome, ComesHome, OnePlace, Places, Times, BlocksOf
<1>2. ASSUME NEW x \in Pointers, DeallocateAudio(x) PROVE AllocatorsInv'
  BY <1>2, DeallocateKeeps DEF DeallocateAudio
<1>3. ASSUME NEW x \in Pointers, NEW p \in Pools, DeallocatePool(x, p) PROVE AllocatorsInv'
  <2>1. pointer[x] # Null /\ pointer[x].home = p
    BY <1>3, NotNull DEF DeallocatePool, Owns, BlocksOf
  <2> QED
    BY <1>3, <2>1, DeallocateKeeps DEF DeallocatePool
<1> QED
  BY <1>1, <1>2, <1>3, AllocateKeeps, ConstructKeeps, DestroyKeeps, MoveConstructKeeps, MoveAssignKeeps, ResetKeeps DEF AllocatorsNext

(* The strengthening holds in every reachable state.                          *)
THEOREM AllocatorsInvariance == AllocatorsSpec => []AllocatorsInv
  BY AllocatorsInitEstablishes, AllocatorsNextKeeps, PTL DEF AllocatorsSpec

(* Objects and stacks are what their types say, moved-from objects empty.     *)
THEOREM AllocatorsTypeCorrect == AllocatorsSpec => []AllocatorsTypeOK
<1>1. AllocatorsInv => AllocatorsTypeOK
  BY DEF AllocatorsInv
<1> QED
  BY <1>1, AllocatorsInvariance, PTL

(* No block is lost or owned twice, but for a reset under a scoped block.     *)
THEOREM Conservation == AllocatorsSpec => []OnePlace
<1>1. AllocatorsInv => OnePlace
  BY DEF AllocatorsInv
<1> QED
  BY <1>1, AllocatorsInvariance, PTL

(* Every allocator's stack holds its own blocks only.                         *)
THEOREM HomeProved == AllocatorsSpec => []ComesHome
<1>1. AllocatorsInv => ComesHome
  BY DEF AllocatorsInv
<1> QED
  BY <1>1, AllocatorsInvariance, PTL

(* Every block has one place, and that place is its own allocator's.          *)
THEOREM BlocksProved == AllocatorsSpec => []BlocksAccounted
<1>1. AllocatorsInv => BlocksAccounted
  BY DEF AllocatorsInv, BlocksAccounted
<1> QED
  BY <1>1, AllocatorsInvariance, PTL
=============================================================================
