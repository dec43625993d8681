----------------------------- MODULE ClassGroup -----------------------------
(***************************************************************************)
(* Composition, squaring and reduction of binary quadratic forms, as       *)
(* written three times in the repository: chiavdf's vdf_new.h and          *)
(* vdf_original.h, and HeadStart's bqf.py.  A form a x^2 + b x y + c y^2   *)
(* is a triple <<a, b, c>>.  The reference is the composition of Gauss and *)
(* Dirichlet, stated by its congruences, and reduction one elementary      *)
(* substitution at a time.                                                 *)
(***************************************************************************)
EXTENDS IntegerOps, FiniteSets

Discriminant(f) == f[2] * f[2] - 4 * f[1] * f[3]

-----------------------------------------------------------------------------
(* The reference.                                                          *)

Canonical(f) ==
  /\ -f[1] < f[2] /\ f[2] <= f[1]
  /\ f[1] < f[3] \/ (f[1] = f[3] /\ f[2] >= 0)

\* The reduced forms of discriminant D with the given first coefficients.
FormsOver(D, as) ==
  {f \in UNION {{<<a, b, (b * b - D) \div (4 * a)>> : b \in 1 - a .. a} : a \in as} :
     Discriminant(f) = D /\ Canonical(f)}

RECURSIVE ReduceByHand(_, _, _)
ReduceByHand(a, b, c) ==
  IF b > a THEN ReduceByHand(a, b - 2 * a, a - b + c)
  ELSE IF b <= -a THEN ReduceByHand(a, b + 2 * a, a + b + c)
  ELSE IF a > c \/ (a = c /\ b < 0) THEN ReduceByHand(c, -b, a)
  ELSE <<a, b, c>>

Product(f, g) ==
  LET e == Gcd(Gcd(f[1], g[1]), (f[2] + g[2]) \div 2)
      A == (f[1] * g[1]) \div (e * e)
      D == Discriminant(f)
      root == CHOOSE B \in {f[2] + n * ((2 * f[1]) \div e) : n \in 0 .. g[1] - 1} :
             /\ (B - g[2]) % ((2 * g[1]) \div e) = 0
             /\ (((f[2] + g[2]) \div 2) * B - (D + f[2] * g[2]) \div 2) % (2 * A * e) = 0
      B == IF root > A THEN root - 2 * A ELSE root
  IN  ReduceByHand(A, B, (B * B - D) \div (4 * A))

-----------------------------------------------------------------------------
(* vdf_new.h                                                               *)

Normalize(f) ==
  LET a == f[1]  b == f[2]  r == FloorDiv(a - b, 2 * a)
  IN  <<a, b + 2 * r * a, a * r * r + b * r + f[3]>>

\* Mutant of ReduceImpl: the sign of b is kept when a and c change places.
ReduceImplKeepsSign(f) ==
  LET a == f[1]  b == f[2]  c == f[3]  s == FloorDiv(c + b, 2 * c)
  IN  <<c, b - 2 * s * c, c * s * s - b * s + a>>

ReduceImpl(f) ==
  LET a == f[1]  b == f[2]  c == f[3]  s == FloorDiv(c + b, 2 * c)
  IN  <<c, 2 * s * c - b, c * s * s - b * s + a>>

RECURSIVE ReduceLoop(_)
ReduceLoop(f) ==
  IF f[1] > f[3] \/ (f[1] = f[3] /\ f[2] < 0) THEN ReduceLoop(ReduceImpl(f)) ELSE f

Reduce(f) == Normalize(ReduceLoop(Normalize(f)))

FromAbd(a, b, D) == Reduce(<<a, b, FloorDiv(b * b - D, 4 * a)>>)
FromAbc(a, b, c) == Reduce(<<a, b, c>>)
Identity(D) == FromAbd(1, 1, D)
Generator(D) == FromAbd(2, 1, D)
GeneratorForDiscriminant(D) == Reduce(<<2, 1, FloorDiv(1 - D, 8)>>)

IsReduced(f) ==
  /\ f[1] < f[3] \/ (f[1] = f[3] /\ f[2] >= 0)
  /\ f[1] > Magnitude(f[2]) \/ f[1] = f[2]

InverseForm(f) == Reduce(<<f[1], -f[2], f[3]>>)
CheckValid(f, D) == Discriminant(f) = D

\* square: the discriminant is a negative prime, so a and b are coprime.
Square(f) ==
  LET a == f[1]  b == f[2]  c == f[3]
      r == GcdExt(b, a)
      u == FloorMod(FloorDiv(c, r.g) * r.s, a)
  IN  Reduce(<<a * a, b - 2 * a * u, u * u - FloorDiv(b * u - c, a)>>)

ThreeGcd(a, b, c) == Gcd(Gcd(a, b), c)

\* x = mu + v * n solves a * x = b modulo m.
SolveLinearCongruence(a, b, m) ==
  LET r == GcdExt(a, m)
  IN  [mu |-> FloorMod(FloorDiv(b, r.g) * r.s, m), v |-> FloorDiv(m, r.g), solvable |-> FloorMod(b, r.g) = 0]

\* multiply up to its reduction, with every congruence solvable: v has the
\* coefficients divided by the common divisor w.
ComposeSolved(w, v, first, second) ==
  LET k == first.mu + first.v * second.mu
      l == FloorDiv(v.t * k - v.h, v.s)
      m == FloorDiv(v.t * v.u * k - v.h * v.u - v.s * v.c, v.s * v.t)
  IN  [form |-> <<v.s * v.t, w * v.u - (k * v.t + l * v.s), k * l - w * m>>,
       solvable |-> first.solvable /\ second.solvable]

ComposeThen(w, v, first) ==
  ComposeSolved(w, v, first, SolveLinearCongruence(v.t * first.v, v.h - v.t * first.mu, v.s))

ComposeWith(w, v) ==
  ComposeThen(w, v, SolveLinearCongruence(v.t * v.u, v.h * v.u + v.s * v.c, v.s * v.t))

ComposeOver(f1, f2, g, w) ==
  ComposeWith(w, [h |-> FloorDiv(f2[2] - f1[2], 2), s |-> FloorDiv(f1[1], w), t |-> FloorDiv(f2[1], w),
                  u |-> FloorDiv(g, w), c |-> f1[3]])

Compose(f1, f2) ==
  LET g == FloorDiv(f2[2] + f1[2], 2) IN ComposeOver(f1, f2, g, ThreeGcd(f1[1], f2[1], g))

Multiply(f1, f2) == Reduce(Compose(f1, f2).form)

\* The euclidean loop of test_gcd, whose assertions compare it with GMP's.
RECURSIVE TestGcdLoop(_, _, _, _, _)
TestGcdLoop(a, b, u0, u1, parity) ==
  IF b = 0 THEN [g |-> a, u |-> u0, parity |-> parity]
  ELSE TestGcdLoop(b, a % b, u1, u0 + (a \div b) * u1, -parity)

TestGcd(x, y) ==
  LET a == Magnitude(x)
      b == Magnitude(y)
      end == IF a < b THEN TestGcdLoop(b, a, 0, 1, -1) ELSE TestGcdLoop(a, b, 1, 0, 1)
  IN  [g |-> end.g, s |-> IF (x < 0) # (end.parity = -1) THEN -end.u ELSE end.u]

-----------------------------------------------------------------------------
(* class vdf_original: the same formulas, with a test before normalizing   *)
(* and no remainder checked when squaring.                                 *)

OriginalNormalize(f) == IF f[2] > -f[1] /\ f[2] <= f[1] THEN f ELSE Normalize(f)

RECURSIVE OriginalReduceLoop(_)
OriginalReduceLoop(f) ==
  IF f[1] > f[3] \/ (f[1] = f[3] /\ f[2] < 0)
  THEN LET s == FloorDiv(f[3] + f[2], 2 * f[3])
       IN  OriginalReduceLoop(<<f[3], -f[2] + 2 * s * f[3], f[3] * s * s - f[2] * s + f[1]>>)
  ELSE f

OriginalReduce(f) == OriginalNormalize(OriginalReduceLoop(OriginalNormalize(f)))

OriginalMultiply(f1, f2) == OriginalReduce(Compose(f1, f2).form)

OriginalSolve(a, b, m) ==
  LET r == GcdExt(a, m) IN FloorMod(FloorDiv(b, r.g) * r.s, m)

\* Mutant of OriginalSquare: the congruence is solved for -c.
OriginalSquareNegated(f) ==
  LET mu == OriginalSolve(f[2], -f[3], f[1])
      m == FloorDiv(f[2] * mu - f[3], f[1])
  IN  OriginalReduce(<<f[1] * f[1], f[2] - 2 * mu * f[1], mu * mu - m>>)

OriginalSquare(f) ==
  LET mu == OriginalSolve(f[2], f[3], f[1])
      m == FloorDiv(f[2] * mu - f[3], f[1])
  IN  OriginalReduce(<<f[1] * f[1], f[2] - 2 * mu * f[1], mu * mu - m>>)

RECURSIVE RepeatedSquare(_, _)
RepeatedSquare(f, iterations) ==
  IF iterations = 0 THEN f ELSE RepeatedSquare(OriginalSquare(f), iterations - 1)

-----------------------------------------------------------------------------
(* class BinaryQF                                                          *)

RECURSIVE PyReduceLoop(_)
PyReduceLoop(f) ==
  IF f[1] < f[3] \/ (f[1] = f[3] /\ f[2] >= 0) THEN f ELSE PyReduceLoop(ReduceImpl(f))

PyReducedForm(f) == PyReduceLoop(Normalize(f))

\* square, unreduced; solve_linmod raises when there is no solution.
PySquare(f) ==
  LET solve == SolveLinearCongruence(f[2], f[3], f[1])
  IN  [form |-> <<f[1] * f[1], f[2] - 2 * f[1] * solve.mu,
                  solve.mu * solve.mu - FloorDiv(f[2] * solve.mu - f[3], f[1])>>,
       solvable |-> solve.solvable]

PyMul(f, g) == IF f = g THEN PySquare(f) ELSE Compose(f, g)

PyPrincipalForm(D) == <<1, D % 2, FloorDiv((D % 2) * (D % 2) - D, 4)>>

RECURSIVE PyPowLoop(_, _, _)
PyPowLoop(r, x, n) ==
  IF n = 0 THEN r
  ELSE PyPowLoop(IF n % 2 = 1 THEN PyReducedForm(PyMul(r, x).form) ELSE r,
                 PyReducedForm(PyMul(x, x).form), n \div 2)

QfPow(x, n) == PyPowLoop(PyPrincipalForm(Discriminant(x)), x, n)
=============================================================================
