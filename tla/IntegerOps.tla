----------------------------- MODULE IntegerOps -----------------------------
(* Arithmetic of signed integers as GMP and Python name it.  TLA+ defines    *)
(* \div and % for positive divisors only.                                    *)
EXTENDS Integers

Magnitude(x) == IF x < 0 THEN -x ELSE x
Sign(x) == IF x < 0 THEN -1 ELSE IF x = 0 THEN 0 ELSE 1

\* mpz_fdiv_q and mpz_fdiv_r (Python's // and %): towards minus infinity.
FloorDiv(x, y) == IF y > 0 THEN x \div y ELSE (-x) \div (-y)
FloorMod(x, y) == x - y * FloorDiv(x, y)

\* mpz_tdiv_q, and the / of C: towards zero.
TruncDiv(x, y) == Sign(x) * Sign(y) * (Magnitude(x) \div Magnitude(y))

\* mpz_sizeinbase(x, 2); 0 has no bits here.
Bits(x) == CHOOSE n \in 0 .. 31 : IF n = 31 THEN Magnitude(x) >= 2^30
                                  ELSE Magnitude(x) < 2^n /\ (n > 0 => Magnitude(x) >= 2^(n - 1))

RECURSIVE GcdExtNonneg(_, _)
GcdExtNonneg(x, y) ==
  IF y = 0 THEN [g |-> x, s |-> 1, t |-> 0]
  ELSE LET r == GcdExtNonneg(y, x % y)
       IN  [g |-> r.g, s |-> r.t, t |-> r.s - (x \div y) * r.t]

\* mpz_gcdext and gmpy2.gcdext: g = s * x + t * y.
GcdExt(x, y) ==
  LET r == GcdExtNonneg(Magnitude(x), Magnitude(y))
  IN  [g |-> r.g, s |-> Sign(x) * r.s, t |-> Sign(y) * r.t]

Gcd(x, y) == GcdExtNonneg(Magnitude(x), Magnitude(y)).g
=============================================================================
