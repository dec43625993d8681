------------------------------- MODULE Avx512 -------------------------------
(***************************************************************************)
(* Multiplication and addition by vector instructions                      *)
(* (asm_avx512_ifma.h, avx512_integer.h): numbers of 64-bit words are      *)
(* spread over limbs of 52 bits, whose products are added up lane by lane  *)
(* before the carries are taken.                                           *)
(*                                                                         *)
(* A GMP integer is [size, data]: |size| words, the sign that of size,     *)
(* rubbish in the words above.  An AVX integer is [sign, limbs, data]: the *)
(* sign 0 or -1, data with one vector of zeros on either side.             *)
(***************************************************************************)
EXTENDS Integers, Sequences, SequencesExt, FiniteSetsExt, Bitwise, IntegerOps

CONSTANTS
  WordBits,     \* bits of a word, 64
  LimbBits,     \* bits of a limb, 52
  Lanes         \* words of a vector register, 8

Word == 2^WordBits
Limb == 2^LimbBits

CeilDiv(a, b) == (a + b - 1) \div b

\* The limbs of avx512_integer_for_size.
LimbsFor(words) == CeilDiv(words * WordBits, LimbBits)

Vectors(n) == CeilDiv(n, Lanes)
Slots(n) == 0 .. Vectors(n) * Lanes - 1

Padded(n, registers) ==
  [i \in -Lanes .. (Vectors(n) + 1) * Lanes - 1 |-> IF i \in DOMAIN registers THEN registers[i] ELSE 0]

-----------------------------------------------------------------------------
(* Between words and limbs.                                                *)

\* The shifts of one lane, or-ed together; those of slots that no register
\* has, or that shift everything out, give 0.
ApplyShifts(registers, shifts) ==
  FoldLeft(LAMBDA acc, s :
             IF s.from \notin DOMAIN registers \/ s.by >= WordBits THEN acc
             ELSE acc | (IF s.right THEN registers[s.from] \div 2^s.by ELSE (registers[s.from] * 2^s.by) % Word),
           0, shifts)

\* The words above |size| are masked away when they are loaded.
ToAvx512(in, words, limbs) ==
  LET registers == [i \in Slots(words) |-> IF Magnitude(in.size) > i THEN in.data[i] ELSE 0]
      limbAt(i) == LET bit == i * LimbBits
                       from == bit \div WordBits
                       off == bit - from * WordBits
                   IN  ApplyShifts(registers, <<[from |-> from, by |-> off, right |-> TRUE],
                                                [from |-> from + 1, by |-> WordBits - off, right |-> FALSE]>>) % Limb
  IN  [sign |-> IF in.size < 0 THEN -1 ELSE 0, limbs |-> limbs,
       data |-> Padded(limbs, [i \in Slots(limbs) |-> limbAt(i)])]

\* The word at i is taken from up to three limbs.
GmpWord(registers, i) ==
  LET bit == i * WordBits
      from == bit \div LimbBits
      off == bit - from * LimbBits
  IN  ApplyShifts(registers, <<[from |-> from, by |-> off, right |-> TRUE],
                               [from |-> from + 1, by |-> LimbBits - off, right |-> FALSE],
                               [from |-> from + 2, by |-> 2 * LimbBits - off, right |-> FALSE]>>)

ToGmp(in, words) ==
  LET registers == [i \in Slots(in.limbs) |-> in.data[i]]
      data == [i \in Slots(words) |-> GmpWord(registers, i)]
      size == Max({IF data[i] # 0 THEN i + 1 ELSE 0 : i \in DOMAIN data})
  IN  [size |-> IF in.sign = 0 THEN size ELSE -size, data |-> data]

-----------------------------------------------------------------------------
(* Carries.                                                                *)

\* VPSRAQ: what a word carries, as a signed word.
CarryOf(word) == (IF word >= Word \div 2 THEN word - Word ELSE word) \div Limb

\* A vector takes the carries of the limbs below its own and drops its own.
CarryVector(registers, v) ==
  [i \in DOMAIN registers |->
     IF i \div Lanes # v THEN registers[i]
     ELSE ((registers[i] % Limb) + CarryOf(IF i = 0 THEN 0 ELSE registers[i - 1])) % Word]

\* Mutant of CarryPass: the bottom vector first.
CarryPassUpwards(registers, vectors) ==
  FoldLeft(LAMBDA r, k : CarryVector(r, k - 1), registers, [k \in 1 .. vectors |-> k])

\* The top vector first, as carries are dropped where they are read.
CarryPass(registers, vectors) ==
  FoldLeft(LAMBDA r, k : CarryVector(r, vectors - k), registers, [k \in 1 .. vectors |-> k])

RECURSIVE Carried(_, _)
Carried(registers, vectors) ==
  LET r == CarryPass(registers, vectors)
  IN  IF \A i \in DOMAIN r : r[i] < Limb THEN r ELSE Carried(r, vectors)

ApplyCarry(sign, limbs, registers) ==
  [sign |-> sign, limbs |-> limbs, data |-> Padded(limbs, Carried(registers, Vectors(limbs)))]

-----------------------------------------------------------------------------
(* Sums and differences of numbers with as many limbs.                     *)

\* The sign of the result and what is done to a and b, by the signs of the
\* two and then by whether |a| >= |b|.
AddTable == <<<<-1, 0, 0, 0>>, <<0, -1, 0, 1>>, <<-1, -1, 0, 1>>, <<0, 0, 0, 0>>,
              <<-1, 0, 0, 0>>, <<-1, 0, -1, 1>>, <<0, 0, -1, 1>>, <<0, 0, 0, 0>>>>

XorMask(word, mask) == IF mask = 0 THEN word ELSE Word - 1 - word

\* The numbers are compared where they differ last, at 0 if nowhere.
SetSum(a, b, bSign) ==
  LET slots == Slots(a.limbs)
      pivot == Max({IF a.data[i] # b.data[i] THEN i ELSE 0 : i \in slots})
      row == AddTable[1 + 2 * a.sign + bSign + 3 + (IF a.data[pivot] >= b.data[pivot] THEN 4 ELSE 0)]
      limbAt(i) == (XorMask(a.data[i], row[2]) + row[4] + XorMask(b.data[i], row[3])) % Word
  IN  ApplyCarry(row[1], a.limbs, [i \in slots |-> limbAt(i)])

SetAdd(a, b) == SetSum(a, b, b.sign)
SetSub(a, b) == SetSum(a, b, -1 - b.sign)

-----------------------------------------------------------------------------
(* Products.                                                               *)

\* The limbs of a that are multiplied with a vector of b for vector v.
Multipliers(a, b, v) ==
  {i \in 0 .. a.limbs - 1 : v * Lanes - i < b.limbs /\ v * Lanes - i > -Lanes}

\* Low and high halves of the products of a lane are added up apart; the
\* high ones belong one limb higher.
SetMul(a, b, limbs) ==
  LET slots == Slots(limbs)
      product(i, j) == a.data[i] * b.data[j - i]
      low == [j \in slots |-> MapThenSumSet(LAMBDA i : product(i, j) % Limb, Multipliers(a, b, j \div Lanes))]
      high == [j \in slots |-> MapThenSumSet(LAMBDA i : product(i, j) \div Limb, Multipliers(a, b, j \div Lanes))]
  IN  ApplyCarry(IF a.sign = b.sign THEN 0 ELSE -1, limbs,
                 [j \in slots |-> (low[j] + (IF j = 0 THEN 0 ELSE high[j - 1])) % Word])

\* mpz_impl_set_mul with AVX-512: the product of two GMP integers.
MulByAvx512(a, b, aWords, bWords, words) ==
  ToGmp(SetMul(ToAvx512(a, aWords, LimbsFor(aWords)), ToAvx512(b, bWords, LimbsFor(bWords)), LimbsFor(words)), words)
=============================================================================
