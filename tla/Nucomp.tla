------------------------------- MODULE Nucomp -------------------------------
(***************************************************************************)
(* The composition of forms that the timelord, its provers and its         *)
(* verifier use: NUCOMP and NUDUPL with a partial extended gcd by Lehmer's *)
(* method (nucomp.h, xgcd_partial.c), and the reduction by approximations  *)
(* in one machine word (Reducer.h).  Words have WordBits bits instead of   *)
(* 64, and the constants derived from the word are scaled with it.         *)
(***************************************************************************)
EXTENDS ClassGroup

CONSTANT WordBits    \* even, and at most 14 for TLC's integers

\* The fourth root of |D|, root(-D, 4).
RootL(D) == CHOOSE L \in 1 .. 200 : L^4 <= -D /\ (L + 1)^4 > -D

-----------------------------------------------------------------------------
(* mpz_xgcd_partial                                                        *)

\* A word of the quotients, with the cofactors found for it.  Mutant of
\* LehmerStops: the test of odd steps is used at every step.
LehmerStopsUnalternated(i, rr1, t1, t2, t3, aa1, bb1) == t1 < -t3 \/ rr1 - t1 < t2 - aa1

LehmerStops(i, rr1, t1, t2, t3, aa1, bb1) ==
  IF i % 2 = 1 THEN t1 < -t3 \/ rr1 - t1 < t2 - aa1
  ELSE t1 < -t2 \/ rr1 - t1 < t3 - bb1

RECURSIVE LehmerWord(_, _, _)
LehmerWord(w, bb, i) ==
  IF w.rr1 = 0 \/ w.rr1 <= bb THEN [w |-> w, i |-> i]
  ELSE LET q == w.rr2 \div w.rr1
           t1 == w.rr2 - q * w.rr1
           t2 == w.aa2 - q * w.aa1
           t3 == w.bb2 - q * w.bb1
       IN  IF LehmerStops(i, w.rr1, t1, t2, t3, w.aa1, w.bb1) THEN [w |-> w, i |-> i]
           ELSE LehmerWord([rr2 |-> w.rr1, rr1 |-> t1, aa2 |-> w.aa1, aa1 |-> t2,
                            bb2 |-> w.bb1, bb1 |-> t3], bb, i + 1)

Positive(r, co) == IF r < 0 THEN <<-r, -co>> ELSE <<r, co>>

\* The quotients of a word applied to the numbers, or one division if there are none.
XgcdApplied(co2, co1, r2, r1, end) ==
  LET w == end.w
      one == Positive(r1 * w.aa1 + r2 * w.bb1, co1 * w.aa1 + co2 * w.bb1)
      two == Positive(r2 * w.bb2 + r1 * w.aa2, co2 * w.bb2 + co1 * w.aa2)
  IN  IF end.i = 0 THEN [co2 |-> co1, co1 |-> co2 - (r2 \div r1) * co1, r2 |-> r1, r1 |-> r2 % r1]
      ELSE [co2 |-> two[2], co1 |-> one[2], r2 |-> two[1], r1 |-> one[1]]

\* The bits that the longer number has beyond a word.
ExcessBits(r2, r1) ==
  LET longer == IF Bits(r2) > Bits(r1) THEN Bits(r2) ELSE Bits(r1)
  IN  IF longer < WordBits THEN 0 ELSE longer - WordBits + 1

LehmerStart(r2, r1, L, bits) ==
  LehmerWord([rr2 |-> r2 \div 2^bits, rr1 |-> r1 \div 2^bits, aa2 |-> 0, aa1 |-> 1, bb2 |-> 1, bb1 |-> 0],
             L \div 2^bits, 0)

RECURSIVE XgcdLoop(_, _)
XgcdLoop(e, L) ==
  IF e.r1 = 0 \/ e.r1 <= L THEN e
  ELSE XgcdLoop(XgcdApplied(e.co2, e.co1, e.r2, e.r1, LehmerStart(e.r2, e.r1, L, ExcessBits(e.r2, e.r1))), L)

XgcdSigned(e) ==
  IF e.r2 < 0 THEN [co2 |-> -e.co2, co1 |-> -e.co1, r2 |-> -e.r2, r1 |-> e.r1] ELSE e

XgcdPartial(r2, r1, L) == XgcdSigned(XgcdLoop([co2 |-> 0, co1 |-> -1, r2 |-> r2, r1 |-> r1], L))

-----------------------------------------------------------------------------
(* qfb_nucomp and qfb_nudupl                                               *)

\* A form from its a and b, made positive; a may be negative.
Complete(ca, cb, D) ==
  LET cc == FloorDiv(FloorDiv(cb * cb - D, ca), 4)
  IN  IF ca < 0 THEN <<-ca, cb, -cc>> ELSE <<ca, cb, cc>>

\* The two gcds: a divisor s common to both forms, and k.
NucompSecond(f, g, k1, first, second) ==
  LET s == IF first.g = 1 THEN 1 ELSE second.g
      a1 == f[1] \div s
  IN  [a1 |-> a1, a2 |-> g[1] \div s, c2 |-> g[3] * s,
       k |-> IF first.g = 1 THEN k1 ELSE FloorMod(k1 * second.t - second.s * g[3], a1)]

NucompFirst(f, g, first) ==
  NucompSecond(f, g, FloorMod(FloorDiv(f[2] - g[2], 2) * first.s, f[1]), first,
               GcdExt(FloorDiv(f[2] + g[2], 2), first.g))

\* The form from the partial gcd e.
NucompFinish(f, g, r, e, D) ==
  LET m1 == FloorDiv(FloorDiv(f[2] - g[2], 2) * e.co1 + r.a2 * e.r1, r.a1)
      m2 == FloorDiv(FloorDiv(f[2] + g[2], 2) * e.r1 - r.c2 * e.co1, r.a1)
      ca == IF e.co1 < 0 THEN e.r1 * m1 - e.co1 * m2 ELSE e.co1 * m2 - e.r1 * m1
  IN  Complete(ca, FloorMod(FloorDiv(2 * (r.a2 * e.r1 - ca * e.co2), e.co1) - g[2], 2 * ca), D)

NucompWith(f, g, r, D, L) ==
  IF r.a1 < L THEN <<r.a2 * r.a1, 2 * r.a2 * r.k + g[2], FloorDiv((g[2] + r.a2 * r.k) * r.k + r.c2, r.a1)>>
  ELSE NucompFinish(f, g, r, XgcdPartial(r.a1, r.k, L), D)

RECURSIVE QfbNucomp(_, _, _, _)
QfbNucomp(f, g, D, L) ==
  IF f[1] > g[1] THEN QfbNucomp(g, f, D, L)
  ELSE LET t == g[1] % f[1]
           first == IF t = 0 THEN [g |-> f[1], s |-> 0] ELSE GcdExt(t, f[1])
       IN  NucompWith(f, g, NucompFirst(f, g, first), D, L)

\* Mutant of NuduplStart: k is not negated.
NuduplStartSigned(f, r) ==
  LET a1 == FloorDiv(f[1], r.g) IN [a1 |-> a1, c1 |-> f[3] * r.g, k |-> FloorMod(r.s * f[3], a1)]

NuduplStart(f, r) ==
  LET a1 == FloorDiv(f[1], r.g) IN [a1 |-> a1, c1 |-> f[3] * r.g, k |-> FloorMod(-(r.s * f[3]), a1)]

NuduplFinish(f, r, e, D) ==
  LET m2 == FloorDiv(f[2] * e.r1 - r.c1 * e.co1, r.a1)
      a == IF e.co1 >= 0 THEN e.co1 * m2 - e.r1 * e.r1 ELSE e.r1 * e.r1 - e.co1 * m2
  IN  Complete(a, FloorMod(FloorDiv(2 * (r.a1 * e.r1 - a * e.co2), e.co1) - f[2], 2 * a), D)

NuduplWith(f, r, D, L) ==
  IF r.a1 < L THEN <<r.a1 * r.a1, 2 * r.a1 * r.k + f[2], FloorDiv((f[2] + r.a1 * r.k) * r.k + r.c1, r.a1)>>
  ELSE NuduplFinish(f, r, XgcdPartial(r.a1, r.k, L), D)

QfbNudupl(f, D, L) == NuduplWith(f, NuduplStart(f, GcdExt(f[2], f[1])), D, L)


-----------------------------------------------------------------------------
(* class Reducer                                                           *)

Threshold == 2^(WordBits \div 2 - 1)
ExpThreshold == WordBits \div 2 - 1

\* A signed word keeps the low bits of what is assigned to it.
Word(x) == ((x + 2^(WordBits - 1)) % 2^WordBits) - 2^(WordBits - 1)

\* mpz_get_si_2exp: the leading bits, one less than a word has, and the length.
GetSi2exp(op) ==
  LET exp == Bits(op)
      top == IF exp >= WordBits - 1 THEN Magnitude(op) \div 2^(exp - WordBits + 1)
             ELSE Magnitude(op) * 2^(WordBits - 1 - exp)
  IN  [r |-> Sign(op) * top, exp |-> exp]

\* reducer: one exact step.
ReducerStep(f) ==
  LET s == FloorDiv(FloorDiv(f[2], f[3]) + 1, 2)
  IN  <<f[3], 2 * f[3] * s - f[2], f[1] + s * (f[3] * s - f[2])>>

NoStep == <<1, 0, 0, 1>>

\* BitOr of two numbers is at most a power of two when both are, unless both
\* are that power of two or one is and the other is not 0.
OrAtMost(x, y, power) == (x < power /\ y < power) \/ {x, y} \in {{power}, {0, power}}

\* calc_uvwx: steps of the approximations while their product is small.
RECURSIVE CalcUvwx(_, _, _, _)
CalcUvwx(a, b, c, m) ==
  LET s == TruncDiv(IF b >= 0 THEN b + c ELSE b - c, 2 * c)
      c1 == Word(a - Word(s * Word(b - Word(c * s))))
      next == <<m[2], Word(s * m[2] - m[1]), m[4], Word(s * m[4] - m[3])>>
      below == OrAtMost(Magnitude(next[2]), Magnitude(next[4]), Threshold)
  IN  IF ~below THEN m
      ELSE IF c > c1 /\ c1 > 0 THEN CalcUvwx(c, Word(2 * Word(c * s) - b), c1, next)
      ELSE next

Transform(f, m) ==
  LET u == m[1]  v == m[2]  w == m[3]  x == m[4]
  IN  <<f[1] * u * u + f[2] * u * w + f[3] * w * w,
        f[1] * (2 * u * v) + f[2] * (u * x + v * w) + f[3] * (2 * w * x),
        f[1] * v * v + f[2] * v * x + f[3] * x * x>>

\* isReduced, with what it does to a form that is.
ReducerDone(f) == Magnitude(f[1]) >= Magnitude(f[2]) /\ Magnitude(f[3]) >= Magnitude(f[2])
ReducerEnd(f) ==
  IF f[1] > f[3] THEN <<f[3], -f[2], f[1]>>
  ELSE IF f[1] = f[3] /\ f[2] < 0 THEN <<f[1], -f[2], f[3]>>
  ELSE f

RECURSIVE ReducerRun(_)
ReducerRun(f) ==
  IF ReducerDone(f) THEN ReducerEnd(f)
  ELSE LET top == [i \in 1 .. 3 |-> GetSi2exp(f[i])]
           exps == {top[i].exp : i \in 1 .. 3}
           max == CHOOSE e \in exps : \A d \in exps : d <= e
           min == CHOOSE e \in exps : \A d \in exps : e <= d
           at(i) == top[i].r \div 2^(max + 1 - top[i].exp)
       IN  IF max - min > ExpThreshold THEN ReducerRun(ReducerStep(f))
           ELSE ReducerRun(Transform(f, CalcUvwx(at(1), at(2), at(3), NoStep)))

-----------------------------------------------------------------------------
(* proof_common.h                                                          *)

\* The size in words, _mp_size; |D| has none beyond what TLC's numbers hold.
Limbs(x) == (Bits(x) + WordBits - 1) \div WordBits

ReduceLarge(f, D) == IF Limbs(f[1]) > Limbs(D) \div 2 THEN ReducerRun(f) ELSE f

RECURSIVE PowLoop(_, _, _, _, _, _)
PowLoop(res, x, D, n, i, L) ==
  IF i < 0 THEN res
  ELSE LET small == ReduceLarge(QfbNudupl(res, D, L), D)
       IN  PowLoop(IF (n \div 2^i) % 2 = 1 THEN QfbNucomp(small, x, D, L) ELSE small,
                   x, D, n, i - 1, L)

FastPowFormNucomp(x, D, n, L) ==
  IF n = 0 THEN Identity(D) ELSE ReducerRun(PowLoop(x, x, D, n, Bits(n) - 2, L))
=============================================================================
