------------------------------ MODULE DataLab ------------------------------
(***************************************************************************)
(* bits.c of the data lab, the solutions to its puzzles, and tests.c, what *)
(* they are tested against.  The float puzzles take and return the bits of *)
(* a single: a sign, 8 bits of exponent, 23 bits of fraction.              *)
(***************************************************************************)
EXTENDS Words, Sequences

-----------------------------------------------------------------------------
(* bits.c *)

bitXor(x, y) == Not(x \cap y) \cap Not(Not(x) \cap Not(y))

tmin == Shl(Plus(Not({0}), {0}), 31)

\* 2x + 2 is zero for Tmax and for -1; reversed tells them apart.
isTmax(x) == Bang(Plus(Plus(Plus(x, x), {0}), Bang(Bang(Not(x)))))

allOddBits(x) ==
  LET slice == Lit(170)
      odd == Plus(Shl(Plus(Shl(Plus(Shl(slice, 8), slice), 8), slice), 8), slice)
  IN Bang(Plus(Plus(Not(odd \cap x), odd), {0}))

negate(x) == Plus(Not(x), {0})

isAsciiDigit(x) ==
  LET diffSum == Plus(Shl(x, 1), Plus(Not(Lit(105)), {0}))
  IN Bang(Sar(x, 6) \cup Sar(Plus(Not(diffSum), Lit(10)), 31) \cup Sar(Plus(diffSum, Lit(9)), 31))

conditional(x, y, z) ==
  LET allSameBits == Plus(Not(Bang(Bang(x))), {0})
  IN (allSameBits \cap y) \cup (Not(allSameBits) \cap z)

\* mutant: the difference decides, whatever the signs
isLessOrEqualWrap(x, y) ==
  LET diff == Plus(Plus(x, Not(y)), {0})
  IN Truth(diff = {} \/ Sign \in diff)

isLessOrEqual(x, y) ==
  LET SignBit(w) == Sar(w, 31) \cap {0}
      diff == Plus(Plus(x, Not(y)), {0})
      sameSign == Bang(Xor(SignBit(x), SignBit(y)))
  IN (SignBit(x) \cap Bang(SignBit(y)))
       \cup (sameSign \cap (Not(Bang(Bang(diff))) \cup SignBit(diff)))

\* w smeared to the right by its ones, k places a time.
Smear(w, k) == w \cup Sar(w, k)
logicalNeg(x) == Not(Smear(Smear(Smear(Smear(Smear(x, 16), 8), 4), 2), 1)) \cap {0}

\* One halving: are there ones among the upper half of 2*k bits?  y and the
\* count so far, and what they become.
Halve(s, k) ==
  LET some == s.y \cap (k..2 * k - 1) # {}
  IN [y |-> IF some THEN Sar(s.y, k) ELSE s.y, result |-> IF some THEN s.result + k ELSE s.result]
howManyBits(x) ==
  LET start == [y |-> Xor(x, Sar(x, 31)), result |-> 1]
      s == Halve(Halve(Halve(Halve(Halve(start, 16), 8), 4), 2), 1)
  IN Plus(Lit(s.result), s.y \cap {0})

-----------------------------------------------------------------------------
(* bits.c: single precision *)

ExpMask == 23..30
FracMask == 0..22
oneExp == {23}

float_twice(uf) ==
  LET exp == uf \cap ExpMask
      next == Plus(uf, oneExp)
  IN CASE exp = ExpMask -> uf
       [] exp = {} -> (TMin \cap uf) \cup IF uf \cap FracMask = {} THEN {} ELSE Shl(uf, 1)
       [] exp = ExpMask \ oneExp -> next \cap (TMin \cup ExpMask)
       [] OTHER -> next

\* The sticky bits of a number with 25 bits are read by a shift of 32 places:
\* all of xu, where none was meant.
float_i2f(xi) ==
  LET signBit == xi \cap TMin
      xu == IF signBit # {} THEN Neg(xi) ELSE xi
      first == Max(xu)                                  \* firstOneIdx
      rest == xu \ {first}
      roundBitIdx == first - 24
      kept == Shr(rest, first - 23)
      up == /\ roundBitIdx \in xu
            /\ Shl(xu, 32 - roundBitIdx) # {} \/ roundBitIdx + 1 \in xu
      frac == IF first <= 23 THEN Shl(rest, 23 - first) ELSE Plus(kept, Truth(up))
      exp == Shl(Lit(first + 127), 23)
  IN IF xu = {} THEN {} ELSE Plus(Plus(signBit, exp), frac)

\* fracMask is 0x008ffff: six of the 23 bits are not in it.
fracMask == (0..15) \cup {19}
Lost == FracMask \ fracMask
Exponent(uf) == Int32(Shr(uf \cap ExpMask, 23)) - 127

\* "exp == expMask" compares a shifted with an unshifted value and never holds:
\* infinity and NaN leave by E > 30.
float_f2i(uf) ==
  LET E == Exponent(uf)
      M == {23} \cup (fracMask \cap uf)
      res == IF E > 23 THEN Shl(M, E - 23) ELSE Shr(M, 23 - E)
  IN CASE uf \ TMin = {} -> {}
       [] uf \cap ExpMask = {} -> {}
       [] E < 0 -> {}
       [] E > 30 -> TMin
       [] OTHER -> IF Sign \in uf THEN Neg(res) ELSE res

-----------------------------------------------------------------------------
(* tests.c; the conversions of the hardware are IEEE 754's: a number that is *)
(* no single is rounded to the nearest, from half way to the even one.       *)

test_bitXor(x, y) == Xor(x, y)
test_tmin == TMin
test_isTmax(x) == Truth(x = TMax)
test_allOddBits(x) == Truth({b \in Bits : b % 2 = 1} \subseteq x)
test_negate(x) == Minus({}, x)
test_isAsciiDigit(x) == Truth(48 <= Int32(x) /\ Int32(x) <= 57)
test_conditional(x, y, z) == IF x # {} THEN y ELSE z
test_isLessOrEqual(x, y) == Truth(Int32(x) <= Int32(y))
test_logicalNeg(x) == Truth(x = {})
test_howManyBits(x) ==
  LET a == IF Sign \in x THEN Not(x) ELSE x             \* -x - 1
  IN Lit(1 + Max({0} \cup {b + 1 : b \in a}))

isnan(uf) == uf \cap ExpMask = ExpMask /\ uf \cap FracMask # {}
\* Twice a finite value: a zero fraction and exponent stay, a denormal moves
\* into its exponent, the largest exponent overflows to infinity.
test_float_twice(uf) ==
  LET finite == uf \cap ExpMask # ExpMask
      doubled == IF uf \cap ExpMask = {} THEN Shl(uf \ TMin, 1) ELSE Plus(uf \ TMin, oneExp)
  IN IF isnan(uf) \/ ~finite THEN uf
     ELSE (uf \cap TMin) \cup IF ExpMask \subseteq doubled THEN ExpMask ELSE doubled

test_float_i2f(x) ==
  LET m == IF Sign \in x THEN Neg(x) ELSE x
      top == Max(m)
      ulp == top - 23                                   \* the last bit that is kept
      beyond == {b \in m : b < ulp}
      even == ulp \notin m
      up == beyond # {} /\ (beyond \ {ulp - 1} # {} \/ ~even) /\ ulp - 1 \in beyond
      mantissa == Plus(IF ulp >= 0 THEN Shr(m, ulp) ELSE Shl(m, -ulp), Truth(up))
  IN IF m = {} THEN {}
     ELSE (x \cap TMin) \cup Plus(Shl(Lit(top + 126), 23), mantissa)

\* The part of the mantissa left of the point; out of range is Tmin on x86.
test_float_f2i(uf) ==
  LET E == Exponent(uf)
      mantissa == {23} \cup (uf \cap FracMask)
      whole == {b + E - 23 : b \in mantissa} \cap Bits
  IN IF E < 0 THEN {} ELSE IF E > 30 THEN TMin
     ELSE IF Sign \in uf THEN Neg(whole) ELSE whole
=============================================================================
