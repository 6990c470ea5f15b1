---------------------------- MODULE FloatSummation ----------------------------
(***************************************************************************)
(* The sum and the mean of a float column (stillflow-engine, profile.rs:   *)
(* ExactFloatSum, BigMag, kept_to_f64, magnitude_to_f64).  Every float is  *)
(* a whole multiple of the least subnormal, so it is modelled by that      *)
(* multiple; the positive and the negative values of a column are added up *)
(* apart, exactly, in little-endian limbs, and only the end rounds.        *)
(*                                                                         *)
(* The widths are parameters: f64 has Precision 53, 11 exponent bits, hence *)
(* a TopExponent of 2097 (1023 above the binary point, 1074 below it), and *)
(* limbs of 32 bits.                                                       *)
(***************************************************************************)
EXTENDS Integers, Sequences, FiniteSets, SequencesExt, FiniteSetsExt, Functions

CONSTANTS
    Precision,      \* significant bits of a float
    ExponentBits,   \* bits of its exponent
    LimbBits,       \* bits of a limb
    FloatBits,      \* the finite values of the column, as to_bits gives them
    MaxFloats       \* bound: values of the column

ASSUME FloatAssumption ==
    /\ Precision \in Nat \ {0, 1} /\ ExponentBits \in Nat \ {0, 1} /\ LimbBits \in Nat \ {0}
    /\ \A bits \in FloatBits :
         /\ bits \in 0..(2^(Precision + ExponentBits) - 1)
         /\ (bits \div 2^(Precision - 1)) % 2^ExponentBits # 2^ExponentBits - 1

VARIABLES
    positive, negative,  \* ExactFloatSum: two magnitudes in limbs
    added,               \* the values that were added, in their order
    sumResult            \* [sum, mean] once the column is finished

sumVars == <<positive, negative, added, sumResult>>

Infinite == "infinite"
\* The highest bit of a finite float, counted on the grid of the least subnormal.
TopExponent == 2^ExponentBits + Precision - 4
NoResult == [sum |-> Infinite, mean |-> Infinite, negative |-> FALSE, done |-> FALSE]

-----------------------------------------------------------------------------
(* BigMag *)

BitOf(n, i) == (n \div 2^i) % 2
BigBit(mag, i) ==
    IF i \div LimbBits < Len(mag) THEN BitOf(mag[i \div LimbBits + 1], i % LimbBits) ELSE 0
BigBits(mag) == {i \in 0..(Len(mag) * LimbBits - 1) : BigBit(mag, i) = 1}
TopBit(mag) == IF BigBits(mag) = {} THEN -1 ELSE Max(BigBits(mag))

Padded(mag, n) == [i \in 1..Max({Len(mag), n}) |-> IF i <= Len(mag) THEN mag[i] ELSE 0]

\* The carry out of a limb is lost.
CarryLost(acc, sum) == acc \div 2^LimbBits

(* What is still to be added after one limb.                               *)
CarryOn(acc, sum) == acc \div 2^LimbBits + sum \div 2^LimbBits

AddLimb(s, index) ==
    IF s.acc = 0 THEN s
    ELSE LET mag == Padded(s.mag, index)
             sum == mag[index] + (s.acc % 2^LimbBits)
         IN  [mag |-> [mag EXCEPT ![index] = sum % 2^LimbBits], acc |-> CarryOn(s.acc, sum)]

(* add_mantissa *)
AddMantissa(mag, mantissa, grid) ==
    LET limb == grid \div LimbBits
        start == [mag |-> Padded(mag, limb + 3), acc |-> mantissa * 2^(grid % LimbBits)]
    IN  FoldLeft(AddLimb, start, [k \in 1..(TopExponent + Precision) |-> limb + k]).mag

(* cmp: -1, 0 or 1.                                                        *)
Compare(a, b) ==
    LET differ == {i \in 0..Max({TopBit(a), TopBit(b), 0}) : BigBit(a, i) # BigBit(b, i)}
    IN  IF differ = {} THEN 0 ELSE IF BigBit(a, Max(differ)) = 1 THEN 1 ELSE -1

(* subtract, bit by bit: a borrow turns the bit of the minuend over, and   *)
(* the outgoing borrow is read off the turned bit alone.                   *)
SubtractBit(s, index) ==
    LET own == BigBit(s.mag, index)
        a == IF s.borrow THEN 1 - own ELSE own
        b == BigBit(s.other, index)
        diff == IF a = b THEN 0 ELSE 1
        limb == index \div LimbBits + 1
    IN  [s EXCEPT !.mag[limb] = @ + (diff - own) * 2^(index % LimbBits),
                  !.borrow = (a = 0 /\ b = 1)]

Subtract(a, b) ==
    FoldLeft(SubtractBit, [mag |-> a, other |-> b, borrow |-> FALSE],
             [k \in 1..(TopBit(a) + 1) |-> k - 1]).mag

(* exact_magnitude *)
ExactMagnitude ==
    CASE Compare(positive, negative) = 0 -> [mag |-> <<>>, negative |-> FALSE]
      [] Compare(positive, negative) = 1 -> [mag |-> Subtract(positive, negative), negative |-> FALSE]
      [] OTHER -> [mag |-> Subtract(negative, positive), negative |-> TRUE]

-----------------------------------------------------------------------------
(* Rounding.  A result is a multiple of the least subnormal, or Infinite.  *)

SumOfBits(mag, bits) == MapThenSumSet(LAMBDA i: 2^i, bits)

\* A tie is always rounded up.
RoundsUpHalf(round, sticky, kept) == round = 1

(* Round to nearest, a tie to the even one.                                *)
RoundsUp(round, sticky, kept) == round = 1 /\ (sticky \/ kept % 2 = 1)

(* magnitude_to_f64 *)
MagnitudeToFloat(mag) ==
    LET top == TopBit(mag)
        shift == top + 1 - Precision
        kept == SumOfBits(mag, {i \in BigBits(mag) : i >= shift}) \div 2^shift
        sticky == \E i \in BigBits(mag) : i < shift - 1
        up == shift > 0 /\ RoundsUp(BigBit(mag, shift - 1), sticky, kept)
        rounded == IF up THEN kept + 1 ELSE kept
    IN  CASE top = -1 -> 0
          [] top > TopExponent -> Infinite
          [] top <= TopExponent /\ top < Precision - 1 -> SumOfBits(mag, BigBits(mag))
          [] OTHER -> IF rounded = 2^Precision /\ top = TopExponent THEN Infinite
                      ELSE rounded * 2^shift

BitLength(n) == IF n = 0 THEN 0 ELSE Max({i \in 0..(Precision + 2) : BitOf(n, i) = 1}) + 1

(* kept_to_f64: the exponent is that of the highest bit of kept, and every *)
(* shift that brings kept to full width moves the exponent with it.        *)
KeptToFloat(kept, exponent) ==
    LET length == BitLength(kept)
        wide == length > Precision
        full == IF wide THEN kept \div 2 ELSE kept * 2^(Precision - length)
        top == exponent + length - 1 + (IF wide THEN 1 ELSE -(Precision - length))
        right == Max({-top, 0})
        mantissa == full \div 2^right
        sticky == full % 2^(Max({right - 1, 0})) # 0
        round == IF right > 0 THEN BitOf(full, right - 1) ELSE 0
    IN  CASE kept = 0 -> 0
          [] kept > 0 /\ top > TopExponent -> Infinite
          [] kept > 0 /\ top < Precision - 1 ->
                IF RoundsUp(round, sticky, mantissa) THEN mantissa + 1 ELSE mantissa
          [] OTHER -> full * 2^(top - Precision + 1)

(* One step of the long division of finalize_mean.                         *)
DivideBit(s, index) ==
    LET remainder == 2 * s.remainder + BigBit(s.mag, index)
        one == remainder >= s.count
        keeps == s.produced < Precision + 1
    IN  [s EXCEPT !.remainder = IF one THEN remainder - s.count ELSE remainder,
                  !.kept = IF one /\ keeps THEN @ + 2^(Precision - s.produced) ELSE @,
                  !.produced = IF keeps THEN @ + 1 ELSE @,
                  !.sticky = @ \/ (one /\ ~keeps)]

(* finalize_mean *)
Mean(mag, count) ==
    LET top == TopBit(mag)
        end == FoldLeft(DivideBit,
                 [mag |-> mag, count |-> count, kept |-> 0, remainder |-> 0, produced |-> 0,
                  sticky |-> FALSE],
                 [k \in 1..(top + 1) |-> top + 1 - k])
        half == end.kept \div 2
        up == RoundsUp(end.kept % 2, end.sticky \/ end.remainder # 0, half)
    IN  IF top = -1 THEN 0
        ELSE KeptToFloat(IF up THEN half + 1 ELSE half, top - Precision)

-----------------------------------------------------------------------------
(* The column *)

(* add_f64 takes the sign, the exponent and the fraction from the bits; a  *)
(* normal float has a hidden bit above its fraction.                       *)
Decoded(bits) ==
    LET hidden == 2^(Precision - 1)
        exponent == (bits \div hidden) % 2^ExponentBits
        fraction == bits % hidden
    IN  [negative |-> bits \div (hidden * 2^ExponentBits) = 1,
         mantissa |-> IF exponent = 0 THEN fraction ELSE fraction + hidden,
         grid |-> IF exponent = 0 THEN 0 ELSE exponent - 1]

(* add_f64; zero of either sign adds nothing.                              *)
AddFloat(bits) ==
    LET v == Decoded(bits) IN
    /\ ~sumResult.done /\ Len(added) < MaxFloats
    /\ added' = Append(added, v)
    /\ \/ v.mantissa = 0 /\ UNCHANGED <<positive, negative>>
       \/ /\ v.mantissa # 0 /\ v.negative
          /\ negative' = AddMantissa(negative, v.mantissa, v.grid) /\ UNCHANGED positive
       \/ /\ v.mantissa # 0 /\ ~v.negative
          /\ positive' = AddMantissa(positive, v.mantissa, v.grid) /\ UNCHANGED negative
    /\ UNCHANGED sumResult

(* finalize_sum and finalize_mean, when the column has a finite value.     *)
FinishColumn ==
    /\ ~sumResult.done /\ added # <<>>
    /\ sumResult' = [sum |-> MagnitudeToFloat(ExactMagnitude.mag),
                  mean |-> Mean(ExactMagnitude.mag, Len(added)),
                  negative |-> ExactMagnitude.negative, done |-> TRUE]
    /\ UNCHANGED <<positive, negative, added>>

FsInit == positive = <<>> /\ negative = <<>> /\ added = <<>> /\ sumResult = NoResult

FsNext == FinishColumn \/ \E bits \in FloatBits : AddFloat(bits)

FsSpec == FsInit /\ [][FsNext]_sumVars

-----------------------------------------------------------------------------
FloatOf(v) == v.mantissa * 2^v.grid

(* The exact total of the values of one sign.                              *)
FloatTotal(sign) ==
    FoldLeft(LAMBDA n, v: IF v.negative = sign THEN n + FloatOf(v) ELSE n, 0, added)

(* The float nearest to n/d, the even one of two: the reference the code   *)
(* is held to.                                                             *)
Unit(n, d) ==
    LET fits == {e \in 0..(TopExponent + Precision) : n < d * 2^(Precision + e)}
    IN  2^Min(fits)

Nearest(n, d) ==
    LET unit == Unit(n, d)
        low == n \div (d * unit)
        rest == n - low * d * unit
        up == 2 * rest > d * unit \/ (2 * rest = d * unit /\ low % 2 = 1)
        value == (IF up THEN low + 1 ELSE low) * unit
    IN  IF value >= 2^(TopExponent + 1) THEN Infinite ELSE value

(* The limbs hold the exact totals whatever the order and the batches the  *)
(* values came in, carries through full limbs included; and a column whose *)
(* values have one sign gets the float nearest to its sum.                 *)
FloatTotalsExact ==
    /\ SumOfBits(positive, BigBits(positive)) = FloatTotal(FALSE)
    /\ SumOfBits(negative, BigBits(negative)) = FloatTotal(TRUE)
    /\ sumResult.done /\ (FloatTotal(TRUE) = 0 \/ FloatTotal(FALSE) = 0) =>
          sumResult.sum = Nearest(FloatTotal(FALSE) + FloatTotal(TRUE), 1)

(* finalize_sum and finalize_mean: the sum of a column and its mean are    *)
(* the floats nearest to the exact ones ("Exact sum rounded to the nearest *)
(* f64 (ties to even)", "Exact mean = (exact sum) / count, rounded to the  *)
(* nearest f64").                                                          *)
FloatStatisticsExact ==
    sumResult.done =>
        LET larger == Max({FloatTotal(FALSE), FloatTotal(TRUE)})
            exact == 2 * larger - FloatTotal(FALSE) - FloatTotal(TRUE)
        IN  /\ sumResult.sum = Nearest(exact, 1)
            /\ sumResult.mean = Nearest(exact, Len(added))
=============================================================================
