------------------------------ MODULE ClassHash ------------------------------
(***************************************************************************)
(* Hashing into the class group and to primes, over the sequence of        *)
(* candidates that the hash function gives: H_G and H_GFast of aggutil.h,  *)
(* H_QF of toy_vdf.py, and HashPrimeWithIteration and HashPrimeFast.       *)
(***************************************************************************)
EXTENDS ClassGroup, Sequences

RECURSIVE PowMod(_, _, _)
PowMod(base, exp, n) ==
  IF exp = 0 THEN 1 % n
  ELSE LET half == PowMod(base, exp \div 2, n)
       IN  (((half * half) % n) * (IF exp % 2 = 1 THEN base % n ELSE 1)) % n

IsPrime(a) == a > 1 /\ \A d \in 2 .. a - 1 : d * d > a \/ a % d # 0

Residue(D, a) == PowMod(D % a, (a - 1) \div 2, a) = 1

\* Mutant of FormOver: b is taken even.
FormOverEven(a, D) ==
  LET b == PowMod(D % a, (a + 1) \div 4, a) IN FromAbd(a, IF b % 2 = 0 THEN b ELSE a - b, D)

\* The form of discriminant D whose first coefficient is the prime a.
FormOver(a, D) ==
  LET b == PowMod(D % a, (a + 1) \div 4, a) IN FromAbd(a, IF b % 2 = 0 THEN a - b ELSE b, D)

\* The next seed that is hashed: bytes are counted up from the last one, until
\* one has become zero (H_G) or one has not (everywhere else).
RECURSIVE NextSprout(_, _, _, _)
NextSprout(sprout, i, atZero, Byte) ==
  LET next == [sprout EXCEPT ![i] = (@ + 1) % Byte]
  IN  IF i = 1 \/ (next[i] = 0 <=> atZero) THEN next ELSE NextSprout(next, i - 1, atZero, Byte)

SproutOfH_G(sprout, Byte) == NextSprout(sprout, Len(sprout), TRUE, Byte)
SproutOfHashPrime(sprout, Byte) == NextSprout(sprout, Len(sprout), FALSE, Byte)

Suitable(a, D) == IsPrime(a) /\ Residue(D, a)

FirstIn(cands, Test(_)) == CHOOSE i \in DOMAIN cands : Test(cands[i]) /\ \A j \in 1 .. i - 1 : ~Test(cands[j])

\* a with the bits of the mask set: 3 modulo 4.
Masked(a) == 4 * (a \div 4) + 3

\* The form and the number of the candidate it was made from.
H_G(cands, D) ==
  LET ii == FirstIn(cands, LAMBDA a : Suitable(Masked(a), D)) IN <<FormOver(Masked(cands[ii]), D), ii>>

\* The forms H_GFast can return: "or this will stuck in the loop" gives the
\* identity where a_iter names no prime; but a prime modulo which D is no
\* square is passed over for ever.
H_GFast(cands, D, a_iter) ==
  LET a == Masked(cands[a_iter])
  IN  IF ~IsPrime(a) THEN {Identity(D)}
      ELSE IF Residue(D, a) THEN {FormOver(a, D)}
      ELSE {}

\* H_QF reduces as bqf.py does.
H_QF(cands, D) ==
  LET a == Masked(cands[FirstIn(cands, LAMBDA c : Suitable(Masked(c), D))])
      b0 == PowMod(D % a, (a + 1) \div 4, a)
      b == IF b0 % 2 # 1 THEN a - b0 ELSE b0
  IN  PyReducedForm(<<a, b, FloorDiv(b * b - D, 4 * a)>>)

\* The prime and the iteration it was found in; with p forced odd.
Odd(p) == 2 * (p \div 2) + 1
HashPrimeWithIteration(cands) ==
  LET i == FirstIn(cands, LAMBDA p : IsPrime(Odd(p))) IN <<Odd(cands[i]), i>>

\* HashPrimeFast: the candidates before skip_to_iteration are not tested.
HashPrimeFast(cands, skip_to_iteration) ==
  LET rest == SubSeq(cands, IF skip_to_iteration < 1 THEN 1 ELSE skip_to_iteration, Len(cands))
  IN  Odd(rest[FirstIn(rest, LAMBDA p : IsPrime(Odd(p)))])
=============================================================================
