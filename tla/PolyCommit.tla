----------------------------- MODULE PolyCommit ------------------------------
(***************************************************************************)
(* The loot-box protocol's commitments to polynomials (KZG10.py), the      *)
(* check of an evaluation (common.py), and what a value of the committed   *)
(* function wins (common.py, interactive_server.py).                       *)
(*                                                                         *)
(* The field is that of integers modulo Order.  A point of either group of *)
(* the pairing, and of its target, is written as its logarithm: addition   *)
(* of points is that of logarithms, the pairing multiplies them.           *)
(***************************************************************************)
EXTENDS Integers, Sequences, SequencesExt, FiniteSetsExt

CONSTANTS
  Order,        \* curve_order
  Alpha,        \* the trusted setup's secret
  SetupSize,    \* its t
  Precision     \* bits of a floating point number between 0 and 1

Field(v) == v % Order
FieldInverse(v) == CHOOSE w \in 0 .. Order - 1 : Field(v * w) = 1
Quotient(v, w) == Field(v * FieldInverse(w))

\* i + 1 is the index of the coefficient of x^i.
Polynomial(x, coeffs) ==
  FoldLeft(LAMBDA acc, c : [sum |-> Field(acc.sum + c * acc.cur), cur |-> acc.cur * x],
           [sum |-> coeffs[1], cur |-> x], Tail(coeffs)).sum

-----------------------------------------------------------------------------
(* Commitments.                                                            *)

\* Repeated multiplication by the secret, in either group.
Powers == FoldLeft(LAMBDA powers, i : Append(powers, Field(Last(powers) * Alpha)), <<1>>, [i \in 1 .. SetupSize + 1 |-> i])

\* There is no sum for no coefficient: the function is not a constant.
CommitSum(coeff) == FoldLeft(LAMBDA acc, i : Field(acc + Powers[i] * coeff[i]), 0, [i \in DOMAIN coeff |-> i])

\* The terms of (phi(x) - phi(y)) / (x - y) one by one.
CommitDivision(y, coeff) ==
  LET yPowers == FoldLeft(LAMBDA powers, i : Append(powers, Field(Last(powers) * y)), <<1>>, coeff)
      row(i) == FoldLeft(LAMBDA acc, j : Field(acc + Powers[j] * yPowers[i - j + 1] * coeff[i + 1]), 0, [j \in 1 .. i |-> j])
  IN  FoldLeft(LAMBDA acc, i : Field(acc + row(i)), 0, [i \in 1 .. Len(coeff) - 1 |-> i])

\* The coefficients left when zeros at the end are popped.
RECURSIVE WithoutZeros(_)
WithoutZeros(s) == IF s # <<>> /\ Last(s) = 0 THEN WithoutZeros(Front(s)) ELSE s

\* The loop of polynomial_division: s is [quotient, remainder, degree].
RECURSIVE PolynomialDivision(_, _)
PolynomialDivision(s, divisor) ==
  LET term == Quotient(Last(s.remainder), Last(divisor))
      reduced == [i \in DOMAIN s.remainder |->
                    IF i - s.degree \in DOMAIN divisor THEN Field(s.remainder[i] - term * divisor[i - s.degree]) ELSE s.remainder[i]]
      kept == WithoutZeros(reduced)
  IN  IF Len(s.remainder) < Len(divisor) THEN s
      ELSE PolynomialDivision([quotient |-> [s.quotient EXCEPT ![s.degree + 1] = term], remainder |-> kept,
                               degree |-> s.degree - (Len(reduced) - Len(kept))], divisor)

Divide(dividend, divisor) ==
  LET degree == Len(dividend) - Len(divisor)
  IN  PolynomialDivision([quotient |-> [i \in 1 .. degree + 1 |-> 0], remainder |-> dividend, degree |-> degree], divisor)

CommitDivisionOptimized(i, coeff) ==
  CommitSum(Divide([coeff EXCEPT ![1] = Field(@ - Polynomial(i, coeff))], <<Field(-i), 1>>).quotient)

-----------------------------------------------------------------------------
(* Evaluations.                                                            *)

\* evalAndProofRaw
EvalAndProof(coeff, i) == [y |-> Polynomial(i, coeff), W |-> CommitDivisionOptimized(i, coeff)]

\* e(x - i, W) e(1, -(c - y)) is one.
VerifyEvalProof(c, i, y, W) == Field((Powers[2] - i) * W - (c - y)) = 0

-----------------------------------------------------------------------------
(* What a value wins.                                                      *)

\* The real probability is a half.
IsWinning(y) == y % 2 = 0

\* y / m, rounded: a value near m becomes 1.
One == 2^Precision
Ratio(y) == (2 * y * One + Order) \div (2 * Order)

\* Per cent of the values, and number of cards, of those with three stars,
\* two and one.
Cards == <<[stars |-> 3, from |-> 0, share |-> 3, number |-> 10], [stars |-> 2, from |-> 3, share |-> 17, number |-> 30],
           [stars |-> 1, from |-> 20, share |-> 80, number |-> 100]>>

PostProcess(y) ==
  LET p == Ratio(y)
      kind == Cards[Max({k \in DOMAIN Cards : 100 * p >= Cards[k].from * One})]
  IN  [stars |-> kind.stars, idx |-> ((100 * p - kind.from * One) * kind.number) \div (kind.share * One)]

=============================================================================
