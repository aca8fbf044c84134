--------------------------- MODULE CircularBuffer ---------------------------
(***************************************************************************)
(* nap::CircularBuffer (src/src/core/memory/CircularBuffer.cpp): the       *)
(* lock-free ring between one producer thread and one consumer thread.     *)
(*                                                                         *)
(* A step is one access to shared memory: the load of an index, the copy   *)
(* of one sample, or the store of an index.  clear() stores both indices,  *)
(* so that neither thread owns one, and every load is a step of its own.   *)
(* Nothing keeps clear() from running in either thread at any time.  A     *)
(* load that the hardware serves late is, for the properties below, one    *)
(* made earlier.                                                           *)
(***************************************************************************)
EXTENDS Integers, Sequences

CONSTANTS
  Capacity,  (* the constructor's argument                                    *)
  Samples,   (* the values a sample may have                                  *)
  Zero,      (* 0.0f, what the constructor fills the buffer with              *)
  MaxBatch   (* bound: samples asked for in one call                          *)

ASSUME ConstantsAssumption ==
  /\ Capacity \in Nat \ {0}
  /\ MaxBatch \in Nat
  /\ Zero \in Samples

Slots == 0..(Capacity - 1)
Batches == 0..MaxBatch

VARIABLES
  buffer, readIndex, writeIndex,  (* the members of Impl                      *)
  pStep, pIdx, pLeft, pData,      (* the producer's call: where it is, the    *)
                                  (* index it loaded, the samples to write,   *)
                                  (* and what it has copied in                *)
  cOp, cStep, cIdx, cLeft, cData, (* the consumer's call, likewise, and what  *)
                                  (* it has copied out ("read" if no call)    *)
  delivered,                      (* what its last read() or peek() returned  *)
  crossed                         (* history: a clear() has overlapped a call *)
                                  (* of the other thread, and since then      *)
                                  (* there was always a call under way        *)

shared == <<buffer, readIndex, writeIndex>>
producer == <<pStep, pIdx, pLeft, pData>>
consumer == <<cOp, cStep, cIdx, cLeft, cData, delivered>>
vars == <<shared, producer, consumer, crossed>>

(* Where a call is: it has loaded writeIndex for getAvailableForRead(), has   *)
(* loaded readIndex and knows how many samples there are, has loaded its own  *)
(* index again and copies; or it is between the two stores of clear().        *)
Steps == {"idle", "seen", "sized", "copy", "clear"}
Ops == {"read", "peek", "skip"}

TypeOK ==
  /\ buffer \in [Slots -> Samples]
  /\ readIndex \in Slots /\ writeIndex \in Slots
  /\ pStep \in Steps /\ pIdx \in Slots /\ pLeft \in Nat
  /\ cOp \in Ops /\ cStep \in Steps /\ cIdx \in Slots /\ cLeft \in Nat
  /\ pData \in Seq(Samples) /\ cData \in Seq(Samples) /\ delivered \in Seq(Samples)
  /\ crossed \in BOOLEAN

Init ==
  /\ buffer = [i \in Slots |-> Zero]
  /\ readIndex = 0 /\ writeIndex = 0
  /\ pStep = "idle" /\ pIdx = 0 /\ pLeft = 0 /\ pData = <<>>
  /\ cOp = "read" /\ cStep = "idle" /\ cIdx = 0 /\ cLeft = 0
  /\ cData = <<>> /\ delivered = <<>>
  /\ crossed = FALSE

-----------------------------------------------------------------------------
(* Faulty variants of definitions below, used by no action.                   *)
SpaceToTheLastSlot(r, w) ==
  Capacity - (IF w >= r THEN w - r ELSE Capacity - r + w)

Least(a, b) == IF a < b THEN a ELSE b

(* (i + n) % capacity.                                                        *)
Advance(i, n) == (i + n) % Capacity

(* getAvailableForRead() and getAvailableForWrite() for the index values r    *)
(* and w that were loaded.                                                    *)
AvailableForRead(r, w) == IF w >= r THEN w - r ELSE Capacity - r + w

AvailableForWrite(r, w) == Capacity - AvailableForRead(r, w) - 1

(* A call begins, a clear() or another, or ends while the other thread is at  *)
(* step other.                                                                *)
BeginsBeside(other, clearing) ==
  crossed' = (crossed \/ other = "clear" \/ (clearing /\ other # "idle"))

EndsBeside(other) == crossed' = (crossed /\ other # "idle")

(* write(data, n): getAvailableForWrite() loads writeIndex ...                *)
WriteBegin(n) ==
  /\ pStep = "idle" /\ pStep' = "seen"
  /\ pIdx' = writeIndex /\ pLeft' = n
  /\ BeginsBeside(cStep, FALSE)
  /\ UNCHANGED <<shared, pData, consumer>>

(* ... and readIndex, which decides how many samples fit ...                  *)
WriteSize ==
  /\ pStep = "seen" /\ pStep' = "sized"
  /\ pLeft' = Least(pLeft, AvailableForWrite(readIndex, pIdx))
  /\ UNCHANGED <<shared, pIdx, pData, consumer, crossed>>

(* ... write() loads writeIndex again, copies, and stores it.                 *)
WriteStart ==
  /\ pStep = "sized" /\ pStep' = "copy"
  /\ pIdx' = writeIndex
  /\ UNCHANGED <<shared, pLeft, pData, consumer, crossed>>

WriteCopy ==
  /\ pStep = "copy" /\ pLeft > 0
  /\ \E v \in Samples : /\ buffer' = [buffer EXCEPT ![pIdx] = v]
                         /\ pData' = Append(pData, v)
  /\ pIdx' = Advance(pIdx, 1)
  /\ pLeft' = pLeft - 1
  /\ UNCHANGED <<readIndex, writeIndex, pStep, consumer, crossed>>

WriteEnd ==
  /\ pStep = "copy" /\ pLeft = 0 /\ pStep' = "idle"
  /\ writeIndex' = pIdx
  /\ pIdx' = 0 /\ pData' = <<>>
  /\ EndsBeside(cStep)
  /\ UNCHANGED <<buffer, readIndex, pLeft, consumer>>

(* read(), peek() and skip() of n samples begin alike: getAvailableForRead()  *)
(* loads writeIndex, then readIndex.                                          *)
ReadBegin(op, n) ==
  /\ cStep = "idle" /\ cStep' = "seen" /\ cOp' = op
  /\ cIdx' = writeIndex /\ cLeft' = n
  /\ BeginsBeside(pStep, FALSE)
  /\ UNCHANGED <<shared, producer, cData, delivered>>

ReadSize ==
  /\ cStep = "seen" /\ cStep' = "sized"
  /\ cLeft' = Least(cLeft, AvailableForRead(readIndex, cIdx))
  /\ UNCHANGED <<shared, producer, cOp, cIdx, cData, delivered, crossed>>

(* read() and peek() load readIndex again and copy; skip() advances it.       *)
ReadStart ==
  /\ cStep = "sized" /\ cOp # "skip" /\ cStep' = "copy"
  /\ cIdx' = readIndex
  /\ UNCHANGED <<shared, producer, cOp, cLeft, cData, delivered, crossed>>

SkipStart ==
  /\ cStep = "sized" /\ cOp = "skip" /\ cStep' = "copy"
  /\ cIdx' = Advance(readIndex, cLeft) /\ cLeft' = 0
  /\ UNCHANGED <<shared, producer, cOp, cData, delivered, crossed>>

ReadCopy ==
  /\ cStep = "copy" /\ cLeft > 0
  /\ cData' = Append(cData, buffer[cIdx])
  /\ cIdx' = Advance(cIdx, 1)
  /\ cLeft' = cLeft - 1
  /\ UNCHANGED <<shared, producer, cOp, cStep, delivered, crossed>>

(* read() and skip() store readIndex, peek() leaves it alone.                 *)
ReadEnd ==
  /\ cStep = "copy" /\ cLeft = 0 /\ cStep' = "idle"
  /\ readIndex' = IF cOp = "peek" THEN readIndex ELSE cIdx
  /\ delivered' = IF cOp = "skip" THEN delivered ELSE cData
  /\ cOp' = "read" /\ cIdx' = 0 /\ cData' = <<>>
  /\ EndsBeside(pStep)
  /\ UNCHANGED <<buffer, writeIndex, producer, cLeft>>

(* clear() stores one index, then the other, whatever the other thread does.  *)
(* Either thread may call it.                                                 *)
ClearBegin ==
  /\ \/ /\ pStep = "idle" /\ pStep' = "clear" /\ BeginsBeside(cStep, TRUE)
        /\ UNCHANGED cStep
     \/ /\ cStep = "idle" /\ cStep' = "clear" /\ BeginsBeside(pStep, TRUE)
        /\ UNCHANGED pStep
  /\ readIndex' = 0
  /\ UNCHANGED <<buffer, writeIndex, pIdx, pLeft, pData, cOp, cIdx, cLeft, cData, delivered>>

ClearEnd ==
  /\ \/ pStep = "clear" /\ pStep' = "idle" /\ EndsBeside(cStep) /\ UNCHANGED cStep
     \/ cStep = "clear" /\ cStep' = "idle" /\ EndsBeside(pStep) /\ UNCHANGED pStep
  /\ writeIndex' = 0
  /\ UNCHANGED <<buffer, readIndex, pIdx, pLeft, pData, cOp, cIdx, cLeft, cData, delivered>>

Write == (\E n \in Batches : WriteBegin(n)) \/ WriteSize \/ WriteStart \/ WriteCopy \/ WriteEnd

Read ==
  \/ \E op \in Ops, n \in Batches : ReadBegin(op, n)
  \/ ReadSize \/ ReadStart \/ SkipStart \/ ReadCopy \/ ReadEnd

Next == Write \/ Read \/ ClearBegin \/ ClearEnd

Spec == Init /\ [][Next]_vars

-----------------------------------------------------------------------------
(* The producer never writes the slot the consumer is reading, as long as no  *)
(* clear() crosses their calls.                                               *)
NoDataRace ==
  ~crossed /\ pStep = "copy" /\ pLeft > 0 /\ cStep = "copy" /\ cLeft > 0 => pIdx # cIdx

(* What is in the ring, as a queue: the published samples from readIndex on.  *)
(* Between the two stores of clear() it is already empty.                     *)
Contents ==
  IF "clear" \in {pStep, cStep} THEN <<>>
  ELSE [i \in 1..AvailableForRead(readIndex, writeIndex) |->
          buffer[Advance(readIndex, i - 1)]]

(* The call each thread is in.                                                *)
PCall == IF pStep \in {"idle", "clear"} THEN pStep ELSE "write"
CCall == IF cStep \in {"idle", "clear"} THEN cStep ELSE cOp
Call == [s \in {"producer", "consumer"} |-> IF s = "producer" THEN PCall ELSE CCall]

Fifo == INSTANCE BoundedFifo WITH
  Values <- Samples, Bound <- Capacity - 1, queue <- Contents, offered <- pData,
  call <- Call

(* The ring is a first-in first-out queue of Capacity - 1 samples: whatever   *)
(* the interleaving, the consumer gets the oldest published samples in order, *)
(* none lost, duplicated, torn or overwritten before it was read.  A clear()  *)
(* that overlaps a call of the other thread spoils that, but never leads out  *)
(* of the buffer, and only until both threads are out of their calls: from    *)
(* then on the ring is a queue again.                                         *)
IsFifo == Fifo!Spec

(* "Clear all data from the buffer" (CircularBuffer.h:91): what clear() took  *)
(* out stays out, a write() makes nothing readable but what it wrote.  The    *)
(* code does not: a write() under way stores the index it loaded before.      *)
ClearedForGood ==
  [][WriteEnd /\ cStep # "clear" => Contents' = Contents \o pData]_vars
=============================================================================
