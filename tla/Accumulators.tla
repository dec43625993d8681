---------------------------- MODULE Accumulators ----------------------------
(***************************************************************************)
(* HeadStart's accumulators by exponentiation: RSAAccumulator over the     *)
(* integers modulo n, BQFAccumulator over the class group in Python, and   *)
(* ChiaBQFAccumulator over the class group of chiavdf, whose binding takes *)
(* a list of exponents.  Data are the exponents themselves.                *)
(***************************************************************************)
EXTENDS Integers, SequencesExt

CONSTANTS
  G,               \* g
  ExpAll(_, _)     \* an element to the power of every exponent in a sequence

Accumulate(X) == ExpAll(G, X)

\* Mutant of RootFactor: each half is raised by its own data.
RECURSIVE RootFactorSameHalf(_, _)
RootFactorSameHalf(g, X) ==
  LET h == Len(X) \div 2
      first == SubSeq(X, 1, h)
      rest == SubSeq(X, h + 1, Len(X))
  IN  IF Len(X) = 1 THEN <<g>>
      ELSE RootFactorSameHalf(ExpAll(g, first), first) \o RootFactorSameHalf(ExpAll(g, rest), rest)

\* root_factor of batch_witgen: every half is raised by the data of the other.
RECURSIVE RootFactor(_, _)
RootFactor(g, X) ==
  LET h == Len(X) \div 2
      first == SubSeq(X, 1, h)
      rest == SubSeq(X, h + 1, Len(X))
  IN  IF Len(X) = 1 THEN <<g>>
      ELSE RootFactor(ExpAll(g, rest), first) \o RootFactor(ExpAll(g, first), rest)

\* witgen: its cache is keyed by the data.
Witgen(X, index) == RootFactor(G, X)[index]

Verify(acc, w, x) == ExpAll(w, <<x>>) = acc

=============================================================================
