------------------------------- MODULE Words -------------------------------
(***************************************************************************)
(* 32-bit words as gcc -m32 on x86 computes with them, each the set of the *)
(* positions of its one bits.  A shift by a variable count uses the count  *)
(* modulo 32, whatever C leaves undefined.                                 *)
(***************************************************************************)
EXTENDS Integers, FiniteSets, FiniteSetsExt

Bits == 0..31
Word == SUBSET Bits
Sign == 31
TMin == {Sign}
TMax == Bits \ {Sign}
Minus1 == Bits

Lit(n) == {b \in 0..30 : (n \div 2^b) % 2 = 1}          \* a literal below 2^31
Truth(p) == IF p THEN {0} ELSE {}
Bang(x) == Truth(x = {})                                \* !x
Not(x) == Bits \ x                                      \* ~x
Xor(x, y) == (x \ y) \cup (y \ x)

Shl(x, k) == {b + (k % 32) : b \in x} \cap Bits
Shr(x, k) == {b - (k % 32) : b \in x} \cap Bits         \* of an unsigned
Sar(x, k) == Shr(x, k) \cup IF Sign \in x THEN (Sign - (k % 32))..Sign ELSE {}

\* A carry reaches bit i when two ones below it meet and ones lie in between.
Carry(x, y, i) == \E j \in x \cap y : j < i /\ (j + 1)..(i - 1) \subseteq x \cup y
Plus(x, y) == {i \in Bits : (i \in Xor(x, y)) # Carry(x, y, i)}
Neg(x) == Plus(Not(x), {0})
Minus(x, y) == Plus(x, Neg(y))

\* The integer a word stands for as an int.
Int32(x) ==
  LET low == SumSet({2^b : b \in x \ TMin})
  IN IF Sign \in x THEN (low - 2147483647) - 1 ELSE low
=============================================================================
