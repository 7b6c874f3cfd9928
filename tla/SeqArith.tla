------------------------------ MODULE SeqArith ------------------------------
(***************************************************************************)
(* Wrap-aware sequence arithmetic (crates/rist-core/src/seq.rs).  Half is  *)
(* HALF = 2^(N-1) of the macro define_seq!, so one module stands for both  *)
(* Seq16 and Seq32.  wrapping_add and wrapping_sub are written without %:  *)
(* both operands are already reduced, and the provers know IF better.      *)
(***************************************************************************)
EXTENDS Integers

CONSTANT Half

ASSUME HalfAssumption == Half \in Nat \ {0}

SeqSize == 2 * Half
SeqNum == 0 .. SeqSize - 1

\* u32::wrapping_add / wrapping_sub of two sequence numbers.
WrappingAdd(a, k) == IF a + k >= SeqSize THEN a + k - SeqSize ELSE a + k
WrappingSub(a, b) == IF a >= b THEN a - b ELSE a - b + SeqSize

\* Seq::add / Seq::sub take any signed offset (rem_euclid of the modulus).
Add(a, n) == WrappingAdd(a, n % SeqSize)
Sub(a, n) == Add(a, -n)

\* The forward gap from a to b, 0 .. SeqSize - 1.
RawGap(a, b) == WrappingSub(b, a)

\* Signed circular distance, in -(Half - 1) .. Half.
Distance(a, b) ==
  IF RawGap(a, b) <= Half THEN RawGap(a, b) ELSE RawGap(a, b) - SeqSize

Less(a, b) == Distance(a, b) > 0

WrappingCmp(a, b) ==
  IF a = b THEN "Equal" ELSE IF Less(a, b) THEN "Less" ELSE "Greater"

\* The raw gap and whether it reads as loss rather than as a wrap.
ForwardGap(a, b) == <<RawGap(a, b), RawGap(a, b) <= Half>>
=============================================================================
