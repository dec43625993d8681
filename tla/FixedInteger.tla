---------------------------- MODULE FixedInteger ----------------------------
(***************************************************************************)
(* Integers of a fixed number of limbs (gpu_integer.h): [sign, limbs], the *)
(* sign 0 or -1 (all bits of its word), the limbs little endian.  Zero has *)
(* either sign.                                                            *)
(***************************************************************************)
EXTENDS Integers, Sequences, SequencesExt, IntegerOps

CONSTANT LimbBits     \* bits of a limb, 64 or 32

Base == 2^LimbBits

Size(v) == Len(v.limbs)
LimbOf(v, i) == IF i + 1 \in DOMAIN v.limbs THEN v.limbs[i + 1] ELSE 0
Zeros(size) == [i \in 1 .. size |-> 0]

-----------------------------------------------------------------------------
(* One limb.                                                               *)

AddCarry(a, b, carry) == [limb |-> (a + b + carry) % Base, carry |-> (a + b + carry) \div Base]
SubCarry(a, b, carry) == [limb |-> (a - b - carry) % Base, carry |-> IF a - b - carry < 0 THEN 1 ELSE 0]

Clz(a) == LimbBits - Bits(a)
MulHigh(a, b) == (a * b) \div Base

-----------------------------------------------------------------------------
(* Conversions.                                                            *)

OfInteger(i, size) ==
  [sign |-> IF i < 0 THEN -1 ELSE 0, limbs |-> [x \in 1 .. size |-> (Magnitude(i) \div Base^(x - 1)) % Base]]

ToInteger(v) ==
  LET m == FoldRight(LAMBDA limb, acc : limb + Base * acc, v.limbs, 0) IN IF v.sign = -1 THEN -m ELSE m

IsZero(v) == \A x \in DOMAIN v.limbs : v.limbs[x] = 0
IsNegative(v) == ~IsZero(v) /\ v.sign = -1
SetNegative(v, negative) == [v EXCEPT !.sign = IF negative THEN -1 ELSE 0]
AbsOf(v) == SetNegative(v, FALSE)
Negated(v) == [v EXCEPT !.sign = -1 - @]

\* Truncation, or padding by zeros.
Truncated(v, size) == [sign |-> v.sign, limbs |-> [x \in 1 .. size |-> LimbOf(v, x - 1)]]

\* subset, which is only ever taken from limb 0.
Subset(v, size) == Truncated(v, size)

\* Pairs of limbs as one, and back.
ToUint64(v) ==
  [sign |-> IF IsNegative(v) THEN -1 ELSE 0,
   limbs |-> [x \in 1 .. (Size(v) + 1) \div 2 |-> LimbOf(v, 2 * x - 2) + Base * LimbOf(v, 2 * x - 1)]]
ToUint32(w) ==
  [sign |-> IF IsNegative(w) THEN -1 ELSE 0,
   limbs |-> [x \in 1 .. 2 * Size(w) |-> IF x % 2 = 1 THEN w.limbs[(x + 1) \div 2] % Base
                                         ELSE w.limbs[x \div 2] \div Base]]

-----------------------------------------------------------------------------
(* Comparison, of integers of one size.                                    *)

\* The limbs of |a| - |b| are or-ed together.
Compare(a, b) ==
  LET step(acc, x) == LET s == SubCarry(a.limbs[x], b.limbs[x], acc.carry)
                      IN  [carry |-> s.carry, zero |-> acc.zero /\ s.limb = 0]
      end == FoldLeft(step, [carry |-> 0, zero |-> TRUE], [x \in 1 .. Size(a) |-> x])
      res == IF end.carry = 1 THEN -1 ELSE IF end.zero THEN 0 ELSE 1
  IN  IF a.sign = b.sign THEN (IF a.sign = -1 THEN -res ELSE res)
      ELSE IF res = 0 THEN 0 ELSE IF a.sign = -1 THEN -1 ELSE 1

-----------------------------------------------------------------------------
(* Sums.                                                                   *)

\* Only the two highest limbs tell which of two integers of one size is
\* subtracted from the other.
LessAtTheTop(a, b) ==
  LET n == Size(a)
  IN  IF n >= 2 /\ a.limbs[n] = b.limbs[n] THEN a.limbs[n - 1] < b.limbs[n - 1] ELSE a.limbs[n] < b.limbs[n]

LessAtTheTopLimb(a, b) == a.limbs[Size(a)] < b.limbs[Size(a)]

Xor(limb, mask) == IF mask THEN Base - 1 - limb ELSE limb

\* The limbs of a + b or, under the mask, a - b.
SumLimbs(a, b, mask, size) ==
  LET step(acc, x) == LET s == AddCarry(LimbOf(a, x - 1), Xor(LimbOf(b, x - 1), mask), acc.carry)
                      IN  [limbs |-> Append(acc.limbs, s.limb), carry |-> s.carry]
  IN  FoldLeft(step, [limbs |-> <<>>, carry |-> IF mask THEN 1 ELSE 0], [x \in 1 .. size |-> x])

TwosComplement(limbs) ==
  LET step(acc, x) == LET s == AddCarry(Base - 1 - limbs[x], IF x = 1 THEN 1 ELSE 0, acc.carry)
                      IN  [limbs |-> Append(acc.limbs, s.limb), carry |-> s.carry]
  IN  FoldLeft(step, [limbs |-> <<>>, carry |-> 0], [x \in DOMAIN limbs |-> x]).limbs

\* No carry out of a difference: it was taken in the wrong order.
WrongOrder(carry, mask) == mask /\ carry = 0

\* The integer with more limbs comes first; the sign is that of the one from
\* which the other is subtracted.
Add(a, b, size) ==
  LET swapped == Size(b) > Size(a) \/ (Size(a) = Size(b) /\ LessAtTheTop(a, b))
      x == IF swapped THEN b ELSE a
      y == IF swapped THEN a ELSE b
      mask == a.sign # b.sign
      sum == SumLimbs(x, y, mask, size)
  IN  IF WrongOrder(sum.carry, mask)
      THEN [sign |-> -1 - x.sign, limbs |-> TwosComplement(sum.limbs)]
      ELSE [sign |-> x.sign, limbs |-> sum.limbs]

WiderBy1(a, b) == 1 + IF Size(a) > Size(b) THEN Size(a) ELSE Size(b)

Plus(a, b) == Add(a, b, WiderBy1(a, b))
Minus(a, b) == Add(a, Negated(b), WiderBy1(a, b))
PlusInPlace(a, b) == Add(a, b, Size(a))
MinusInPlace(a, b) == Add(a, Negated(b), Size(a))

-----------------------------------------------------------------------------
(* Products.                                                               *)

\* mad: a * b + c for one limb b; what is carried out at the top is lost.
Mad(limbs, b, c, size) ==
  LET step(acc, x) ==
        LET a == IF x \in DOMAIN limbs THEN limbs[x] ELSE 0
            m == AddCarry((a * b) % Base, acc.high, acc.mul)
            s == AddCarry(m.limb, IF x \in DOMAIN c THEN c[x] ELSE 0, acc.add)
        IN  [limbs |-> Append(acc.limbs, s.limb), high |-> MulHigh(a, b), mul |-> m.carry, add |-> s.carry,
             asserted |-> acc.asserted /\ (x > Len(limbs) => m.carry = 0) /\ (x > Len(limbs) + 1 => m.limb = 0)]
  IN  FoldLeft(step, [limbs |-> <<>>, high |-> 0, mul |-> 0, add |-> 0, asserted |-> TRUE], [x \in 1 .. size |-> x])

TimesLimb(v, b) == [v EXCEPT !.limbs = Mad(@, b, <<>>, Size(v)).limbs]

LeftShiftLimbs(v, n) == [v EXCEPT !.limbs = [x \in DOMAIN @ |-> IF x - n \in DOMAIN @ THEN @[x - n] ELSE 0]]
RightShiftLimbs(v, n) == [v EXCEPT !.limbs = [x \in DOMAIN @ |-> IF x + n \in DOMAIN @ THEN @[x + n] ELSE 0]]

\* Shifts by less than a limb.
ShiftLeft(v, n) ==
  [v EXCEPT !.limbs = [x \in DOMAIN @ |-> ((@[x] * 2^n) % Base) + (IF x = 1 THEN 0 ELSE @[x - 1]) \div 2^(LimbBits - n)]]
ShiftRight(v, n) ==
  [v EXCEPT !.limbs = [x \in DOMAIN @ |-> (@[x] \div 2^n)
                                            + (((IF x = Len(@) THEN 0 ELSE @[x + 1]) * 2^(LimbBits - n)) % Base)]]
ShiftedLeft(v, n) == ShiftLeft(Subset(v, Size(v) + 1), n)

\* The partial product of one limb of b, shifted in place, is added without sign.
Times(a, b) ==
  LET size == Size(a) + Size(b)
      partial(x) == LeftShiftLimbs(TimesLimb(AbsOf(Subset(a, size)), b.limbs[x]), x - 1)
      sum == FoldLeft(LAMBDA acc, x : PlusInPlace(acc, partial(x)), [sign |-> 0, limbs |-> Zeros(size)], [x \in DOMAIN b.limbs |-> x])
  IN  [sum EXCEPT !.sign = IF a.sign = b.sign THEN 0 ELSE -1]

-----------------------------------------------------------------------------
(* Bits.                                                                   *)

\* 0 has one bit.
NumBits(v) ==
  LET top == CHOOSE x \in DOMAIN v.limbs : (v.limbs[x] # 0 \/ x = 1) /\ \A y \in x + 1 .. Size(v) : v.limbs[y] = 0
  IN  (top - 1) * LimbBits + (IF v.limbs[top] = 0 THEN 1 ELSE LimbBits - Clz(v.limbs[top]))

\* The limb's worth of bits that starts at a bit.
Window(v, bit) ==
  LET x == bit \div LimbBits
      off == bit % LimbBits
      start == LimbOf(v, x) \div 2^off
  IN  IF off = 0 THEN start ELSE start + ((LimbOf(v, x + 1) * 2^(LimbBits - off)) % Base)
=============================================================================
