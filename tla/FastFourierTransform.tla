------------------------- MODULE FastFourierTransform -------------------------
(***************************************************************************)
(* FastFourierTransform (src/src/utils/dsp): the sizes it takes, the       *)
(* padding and cutting of what it is given, and the iterative transform    *)
(* with its bit-reversal table, whose work buffer every call uses again.   *)
(*                                                                         *)
(* The complex numbers are the integers modulo 17, where Generator is a    *)
(* root of unity of order 16 and every division by a size is exact.        *)
(* Rounding, magnitudes and phases, and the imaginary part that inverse()  *)
(* drops and a real signal's spectrum does not leave, are not modelled.    *)
(***************************************************************************)
EXTENDS Integers, Sequences, FiniteSetsExt

CONSTANTS Sizes, Samples, MaxLength

VARIABLES
  size, bitReversalTable,
  workBuffer,
  signal,      (* history: what forward() was given                          *)
  spectrum     (* what forward() returned                                    *)

fftVars == <<size, bitReversalTable, workBuffer, signal, spectrum>>

Field == 17
Generator == 3

(* A number as the set of its bits; the sizes here have less than 8.          *)
Bits(n) == {j \in 0..7 : (n \div 2 ^ j) % 2 = 1}
Number(B) == MapThenSumSet(LAMBDA j : 2 ^ j, B)
Shifted(B, k) == {j - k : j \in {i \in B : i >= k}}

isPowerOfTwo(n) == n > 0 /\ Bits(n) \intersect Bits(n - 1) = {}

(* Every bit below the highest one set.                                       *)
Smear(n) ==
  LET by1 == Bits(n) \union Shifted(Bits(n), 1)
      by2 == by1 \union Shifted(by1, 2)
  IN Number(by2 \union Shifted(by2, 4))

nextPowerOfTwo(n) == IF n = 0 THEN 1 ELSE Smear(n - 1) + 1
SizeFor(n) == IF isPowerOfTwo(n) THEN n ELSE nextPowerOfTwo(n)

Log2(n) == CHOOSE b \in 0..8 : 2 ^ b <= n /\ n < 2 ^ (b + 1)

-----------------------------------------------------------------------------
(* Faulty variants of definitions below, used by no action.                   *)
Unscaled(x, n) == x
Mirrored(i, bits) == 2 ^ bits - 1 - i
Rest(n, xs) == [i \in 0..(n - 1) |-> IF i < Len(xs) THEN xs[i + 1] % Field ELSE workBuffer[i % size]]

Reversed(i, bits) == Number({bits - 1 - j : j \in Bits(i)})

Table(n) == [i \in 0..(n - 1) |-> Reversed(i, Log2(n))]

Padded(n, xs) == [i \in 0..(n - 1) |-> IF i < Len(xs) THEN xs[i + 1] % Field ELSE 0]

Power(x, n) == LET p[k \in 0..n] == IF k = 0 THEN 1 ELSE (p[k - 1] * x) % Field IN p[n]
Reciprocal(x) == Power(x, Field - 2)

(* wlen: the root of unity of a stage, or its reciprocal for the inverse.     *)
Root(len, inverse) ==
  LET w == Power(Generator, 16 \div len) IN IF inverse THEN Reciprocal(w) ELSE w

(* Swapping every i below its image; the table is its own inverse.            *)
Swapped(data, table) == [i \in DOMAIN data |-> data[table[i]]]

Butterflies(data, len, inverse) ==
  [k \in DOMAIN data |->
     LET j == k % len
         half == len \div 2
         u == IF j < half THEN data[k] ELSE data[k - half]
         t == Power(Root(len, inverse), j % half) * (IF j < half THEN data[k + half] ELSE data[k])
     IN (IF j < half THEN u + t ELSE u - t) % Field]

Normalized(x, n) == (x * Reciprocal(n)) % Field

cooleyTukeyFFT(data, n, table, inverse) ==
  LET after[s \in 0..Log2(n)] ==
        IF s = 0 THEN Swapped(data, table) ELSE Butterflies(after[s - 1], 2 ^ s, inverse)
      last == after[Log2(n)]
  IN IF inverse THEN [i \in DOMAIN last |-> Normalized(last[i], n)] ELSE last

Object(n) ==
  /\ size' = SizeFor(n)
  /\ bitReversalTable' = Table(SizeFor(n))
  /\ workBuffer' = [i \in 0..(SizeFor(n) - 1) |-> 0]

FftInit ==
  /\ size = 2 /\ bitReversalTable = Table(2) /\ workBuffer = [i \in 0..1 |-> 0]
  /\ signal = <<>> /\ spectrum = workBuffer

(* A size that is not a power of two builds the object anew every time; the   *)
(* caller starts over with it.                                                *)
SetSize(n) ==
  /\ n # size /\ Object(n)
  /\ signal' = <<>> /\ spectrum' = workBuffer'

Forward(xs) ==
  /\ workBuffer' = cooleyTukeyFFT(Padded(size, xs), size, bitReversalTable, FALSE)
  /\ signal' = xs /\ spectrum' = workBuffer'
  /\ UNCHANGED <<size, bitReversalTable>>

Backward ==
  /\ workBuffer' = cooleyTukeyFFT(spectrum, size, bitReversalTable, TRUE)
  /\ UNCHANGED <<size, bitReversalTable, signal, spectrum>>

Signals == UNION {[1..n -> Samples] : n \in 0..MaxLength}

FftNext ==
  \/ \E n \in Sizes : SetSize(n)
  \/ \E xs \in Signals : Forward(xs)
  \/ Backward

-----------------------------------------------------------------------------
DFT(xs, n) ==
  [k \in 0..(n - 1) |->
     MapThenSumSet(LAMBDA i : xs[i] * Power(Root(n, FALSE), i * k), 0..(n - 1)) % Field]

(* A size is the least power of two that holds what was asked for.            *)
SizesFit ==
  /\ \E b \in 0..8 : size = 2 ^ b
  /\ \A n \in 1..64 : SizeFor(n) >= n /\ SizeFor(n) < 2 * n

(* The staged transform is the discrete Fourier transform of the signal, cut  *)
(* or padded with zeros to the size, whatever the work buffer held before;    *)
(* and the inverse gives that signal back.  The two halves of the in-place    *)
(* swap agree because the table is its own inverse.                           *)
SpectrumExact ==
  /\ \A i \in 0..(size - 1) : bitReversalTable[bitReversalTable[i]] = i
  /\ signal # <<>> =>
       /\ spectrum = DFT(Padded(size, signal), size)
       /\ cooleyTukeyFFT(spectrum, size, bitReversalTable, TRUE) = Padded(size, signal)
  /\ SizesFit
=============================================================================
