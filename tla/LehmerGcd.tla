----------------------------- MODULE LehmerGcd -----------------------------
(***************************************************************************)
(* The partial gcd that one reduction of a form is made of: gcd_unsigned.h *)
(* takes the leading two words of both numbers, gcd_128.h takes leading    *)
(* doubles of these, and gcd_base_continued_fractions.h finds quotients in *)
(* doubles, many at a time from a table or one at a time.  A matrix of     *)
(* cofactors is what each level returns.  Words have WordBits bits in      *)
(* place of 64 and doubles Precision bits in place of 53.                  *)
(*                                                                         *)
(* Every double here is an integer or the quotient of two.  A sum or       *)
(* product that does not fit is truncated to a number out of range, so     *)
(* that range_check fails exactly when the exact result is out of range.   *)
(***************************************************************************)
EXTENDS IntegerOps, Sequences, SequencesExt, FiniteSetsExt

CONSTANTS
  WordBits,         \* 64
  Precision,        \* 53
  TableExponent,    \* gcd_table_num_exponent_bits
  TableFraction     \* gcd_table_num_fraction_bits

\* The choices of a build are a record b: the table, whether doubles are fused,
\* and the bits and iterations of each level.

Word == 2^WordBits
Identity == <<<<1, 0>>, <<0, 1>>>>
QuotientMatrix(q) == <<<<0, 1>>, <<1, -q>>>>

Dot(x, y) == x[1] * y[1] + x[2] * y[2]
Column(m, j) == <<m[1][j], m[2][j]>>
Times(m, x) == <<Dot(m[1], x), Dot(m[2], x)>>
MatTimes(m, n) == [i \in 1 .. 2 |-> [j \in 1 .. 2 |-> Dot(m[i], Column(n, j))]]
Entries(m) == {m[1][1], m[1][2], m[2][1], m[2][2]}
AbsMatrix(m) == [i \in 1 .. 2 |-> [j \in 1 .. 2 |-> Magnitude(m[i][j])]]

RangeCheck(v) == Magnitude(v) < 2^Precision

\* Whether the doubles compute the dot product exactly: with fma the second
\* product is not rounded by itself.
DotExact(x, y, fused) ==
  /\ RangeCheck(x[1] * y[1])
  /\ fused \/ RangeCheck(x[2] * y[2])
  /\ RangeCheck(Dot(x, y))
TimesExact(m, x, fused) == \A i \in 1 .. 2 : DotExact(m[i], x, fused)
MatTimesExact(m, n, fused) == \A i, j \in 1 .. 2 : DotExact(m[i], Column(n, j), fused)

\* The same for unsigned words.
WordDotExact(x, y) == x[1] * y[1] < Word /\ x[2] * y[2] < Word /\ Dot(x, y) < Word
WordTimesExact(m, n) == \A i, j \in 1 .. 2 : WordDotExact(m[i], Column(n, j))

-----------------------------------------------------------------------------
(* Doubles from one on, as what their bits say less the bits of 1.0, so     *)
(* that adding 1 is nextafter.  Quotients are truncated.                    *)

OneBits == 2^(Precision - 1)
DoubleExponent(n, d) == Bits(n \div d) - 1
ToDouble(n, d) ==
  LET e == DoubleExponent(n, d) IN (e - 1) * OneBits + (n * OneBits) \div (d * 2^e)
DoubleIsExact(n, d) == (n * OneBits) % (d * 2^DoubleExponent(n, d)) = 0

-----------------------------------------------------------------------------
(* The table: for each interval of doubles the quotients with which every   *)
(* continued fraction in it begins.                                         *)

FractionMatrix(f) == FoldLeft(LAMBDA m, q : MatTimes(QuotientMatrix(q), m), Identity, f)

\* [q1; q2, ..., qn] as numerator and denominator, the last one larger by 1.
FractionValue(f, last) ==
  FoldRight(LAMBDA q, r : <<q * r[1] + r[2], r[1]>>, Front(f), <<Last(f) + last, 1>>)

\* From the first double inside to the first one outside.
GetBound(f) ==
  LET x == FractionValue(f, 0)
      y == FractionValue(f, 1)
      ends == IF x[1] * y[2] <= y[1] * x[2] THEN <<x, y>> ELSE <<y, x>>
      at(v) == ToDouble(v[1], v[2])
  IN  <<at(ends[1]) + (IF DoubleIsExact(ends[1][1], ends[1][2]) THEN 0 ELSE 1), at(ends[2]) + 1>>

Delta == 2^(Precision - 1 - TableFraction)
TableSize == 2^(TableExponent + TableFraction)

\* The slots that lie inside a bound; the bound is worth storing when it is at
\* least half a slot wide and not beyond the table.
Storable(b) == b[1] <= TableSize * Delta /\ 2 * (b[2] - b[1]) >= Delta /\ b[2] > b[1]
SlotsWithin(b) == {i \in 0 .. TableSize - 1 : b[1] <= i * Delta /\ (i + 1) * Delta <= b[2]}

AddToTable(table, f) == [i \in DOMAIN table |-> IF i \in SlotsWithin(GetBound(f)) THEN f ELSE table[i]]

\* Children are added after their parent, with a growing last quotient until
\* the first one that is not worth storing.
RECURSIVE AddChildren(_, _)
RECURSIVE AddChildrenFrom(_, _, _)
AddChildren(table, f) == AddChildrenFrom(table, f, 1)
AddChildrenFrom(table, f, q) ==
  LET child == Append(f, q)
  IN  IF ~Storable(GetBound(child)) THEN table
      ELSE AddChildrenFrom(AddChildren(AddToTable(table, child), child), f, q + 1)

\* continued_fraction::truncate: as many quotients as exact doubles can hold.
RECURSIVE TruncateFraction(_, _)
TruncateFraction(f, limit) ==
  IF \E v \in Entries(FractionMatrix(f)) : Magnitude(v) > limit THEN TruncateFraction(Front(f), limit) ELSE f

GenerateTable ==
  LET full == AddChildren([i \in 0 .. TableSize - 1 |-> <<>>], <<>>)
  IN  [i \in DOMAIN full |-> TruncateFraction(full[i], 2^Precision)]

\* The quotients for a double, none when it is beyond the table or next to an
\* end of its slot.
Lookup(table, bits) ==
  IF bits >= TableSize * Delta \/ bits % Delta \in {0, Delta - 1} THEN <<>>
  ELSE table[bits \div Delta]

-----------------------------------------------------------------------------
(* gcd_base_continued_fraction: quotients of doubles.                       *)

\* A sum of two doubles in range, truncated.
Sum2(x, y) ==
  LET s == x + y IN IF RangeCheck(s) THEN s ELSE Sign(s) * 2 * (Magnitude(s) \div 2)

\* The quotients do not depend on the digits that were cut off.
LehmerPassed(ab, uv) ==
  /\ ab[2] >= -uv[2][1] /\ Sum2(ab[1] - ab[2], uv[1][2]) >= uv[2][2]
  /\ ab[2] >= -uv[2][2] /\ Sum2(ab[1] - ab[2], uv[1][1]) >= uv[2][1]

Applied(m, s, fused) ==
  [ok |-> TimesExact(m, s.ab, fused) /\ MatTimesExact(m, s.uv, fused),
   ab |-> Times(m, s.ab), uv |-> MatTimes(m, s.uv), iter |-> s.iter + 1]

\* The quotients found in the table, if they may be used, or else the next one.
NextOf(s, found, byTable, threshold, b) ==
  IF found # <<>> /\ byTable.ok /\ byTable.ab[1] > threshold THEN byTable
  ELSE Applied(QuotientMatrix(s.ab[1] \div s.ab[2]), s, b.fused)

Checked(next, lehmer) == [next EXCEPT !.ok = @ /\ (lehmer => LehmerPassed(next.ab, next.uv))]

BaseStep(s, found, lehmer, threshold, b) ==
  Checked(NextOf(s, found, Applied(FractionMatrix(found), s, b.fused), threshold, b), lehmer)

RECURSIVE BaseLoop(_, _, _, _)
BaseLoop(s, lehmer, threshold, b) ==
  IF s.ab[2] <= threshold \/ s.iter = b.baseIter THEN s
  ELSE LET next == BaseStep(s, Lookup(b.table, ToDouble(s.ab[1], s.ab[2])), lehmer, threshold, b)
       IN  IF next.ok THEN BaseLoop(next, lehmer, threshold, b) ELSE s

GcdBase(ab, lehmer, threshold, b) ==
  BaseLoop([ok |-> TRUE, ab |-> ab, uv |-> Identity, iter |-> 0], lehmer, threshold, b)

-----------------------------------------------------------------------------
(* gcd_128: quotients of double words.                                      *)

\* The bits by which double words are shifted into BaseBits bits; with more
\* digits behind them at least a word and a half counts as their length.
ShiftOf128(a, lehmer, baseBits) ==
  Max({0, Max({Bits(a), IF lehmer THEN (3 * WordBits) \div 2 ELSE 0}) - baseBits})

\* Products are cut to double words; the order of the subtraction follows the
\* parity.
NewAb(ab, uv, parity) ==
  LET s == IF parity = 0 THEN 1 ELSE -1
  IN  <<(s * (ab[1] * uv[1][1] - ab[2] * uv[1][2])) % Word^2, (s * (ab[2] * uv[2][2] - ab[1] * uv[2][1])) % Word^2>>

Lehmer128(ab, uv, parity) ==
  IF parity = 0 THEN ab[2] >= uv[2][1] /\ ab[1] - ab[2] >= uv[2][2] + uv[1][2]
  ELSE ab[2] >= uv[2][2] /\ ab[1] - ab[2] >= uv[2][1] + uv[1][1]

\* The state after a matrix, from the numbers that the loop started with.
After128(s, start, m, iter, uv, parity, ab, lehmer, threshold) ==
  [ok |-> /\ iter > 0
          /\ s.iter > 0 => WordTimesExact(m, s.uv)
          /\ lehmer => Lehmer128(ab, uv, parity)
          /\ ab[1] > threshold,
   ab |-> ab, uv |-> uv, parity |-> parity, iter |-> s.iter + 1]

With128(s, start, m, iter, uv, parity, lehmer, threshold) ==
  After128(s, start, m, iter, uv, parity, NewAb(start, uv, parity), lehmer, threshold)

Apply128(s, start, base, lehmer, threshold) ==
  With128(s, start, AbsMatrix(base.uv), base.iter, MatTimes(AbsMatrix(base.uv), s.uv),
          (s.parity + IF base.uv[2][2] < 0 THEN 1 ELSE 0) % 2, lehmer, threshold)

Base128(ab, shift, lehmer, threshold, b) ==
  GcdBase(<<ab[1] \div 2^shift, ab[2] \div 2^shift>>, lehmer \/ shift # 0, threshold \div 2^shift, b)

RECURSIVE Loop128(_, _, _, _, _)
Loop128(s, start, lehmer, threshold, b) ==
  IF s.ab[2] <= threshold \/ s.iter = b.maxIter THEN s
  ELSE LET next == Apply128(s, start, Base128(s.ab, ShiftOf128(s.ab[1], lehmer, b.baseBits), lehmer, threshold, b),
                            lehmer, threshold)
       IN  IF next.ok THEN Loop128(next, start, lehmer, threshold, b) ELSE s

\* No progress was made when iter is 0.
Gcd128(ab, lehmer, threshold, b) ==
  Loop128([ok |-> TRUE, ab |-> ab, uv |-> Identity, parity |-> 0, iter |-> 0], ab, lehmer, threshold, b)

-----------------------------------------------------------------------------
(* gcd_unsigned: any numbers.                                               *)

RECURSIVE GcdUnsignedSlow(_, _)
GcdUnsignedSlow(s, threshold) ==
  IF s.ab[2] <= threshold THEN s
  ELSE GcdUnsignedSlow([ab |-> <<s.ab[2], s.ab[1] % s.ab[2]>>,
                        uv |-> <<s.uv[2], s.uv[1] + (s.ab[1] \div s.ab[2]) * s.uv[2]>>,
                        parity |-> -s.parity], threshold)

ShiftToHeads(a) == Max({0, Bits(a) - 2 * WordBits})

\* The leading double words.
Heads(ab, threshold, shift, b) ==
  Gcd128(<<(ab[1] \div 2^shift) % Word^2, (ab[2] \div 2^shift) % Word^2>>, shift # 0,
         (threshold \div 2^shift) % Word^2, b)

UnsignedNext(s, r, sign) ==
  [ab |-> <<sign * (r.uv[1][1] * s.ab[1] - r.uv[1][2] * s.ab[2]), sign * (r.uv[2][2] * s.ab[2] - r.uv[2][1] * s.ab[1])>>,
   uv |-> Times(r.uv, s.uv), parity |-> sign * s.parity]

\* The loop with the matrices it has used; not valid when it got stuck.
RECURSIVE UnsignedLoop(_, _, _, _)
UnsignedLoop(s, mats, threshold, b) ==
  IF s.ab[1] <= threshold THEN [valid |-> FALSE, s |-> s, mats |-> mats]
  ELSE IF s.ab[2] <= threshold THEN [valid |-> TRUE, s |-> s, mats |-> mats]
  ELSE LET r == Heads(s.ab, threshold, ShiftToHeads(s.ab[1]), b)
       IN  IF r.iter = 0 THEN [valid |-> FALSE, s |-> s, mats |-> mats]
           ELSE UnsignedLoop(UnsignedNext(s, r, IF r.parity = 0 THEN 1 ELSE -1),
                             Append(mats, <<r.uv, r.parity>>), threshold, b)

GcdUnsigned(s, threshold, b) == UnsignedLoop(s, <<>>, threshold, b)
=============================================================================
