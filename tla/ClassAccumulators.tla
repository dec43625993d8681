-------------------------- MODULE ClassAccumulators --------------------------
(***************************************************************************)
(* The three groups of the accumulators, and what only one of them has:    *)
(* non-membership witnesses over primes (RSAPrimeAccumulator).             *)
(***************************************************************************)
EXTENDS Nucomp, ClassHash, SequencesExt

\* gmpy2.powmod: a negative exponent takes the inverse.
SignedPowMod(base, exp, n) ==
  IF exp >= 0 THEN PowMod(base, exp, n) ELSE PowMod(GcdExt(base, n).s % n, -exp, n)

RsaExpAll(g, X, n) == FoldLeft(LAMBDA r, x : PowMod(r, x, n), g, X)

BqfExpAll(g, X) == FoldLeft(QfPow, g, X)

\* The forms that chai_exp returns: to_bytes drops the sign of b.
Unsigned(f) == <<f[1], Magnitude(f[2]), f[3]>>

\* chiavdf.exp, and chai_exp.
ChiaExpAll(g, X) ==
  LET D == Discriminant(g)
  IN  Unsigned(FoldLeft(LAMBDA x, exp : FastPowFormNucomp(x, D, exp, RootL(D)), FromAbc(g[1], g[2], g[3]), X))

-----------------------------------------------------------------------------
(* class RSAPrimeAccumulator; the data are the primes that H_P makes.      *)

NonmemWitgen(g, n, X, p) ==
  LET r == GcdExt(FoldLeft(LAMBDA s, x : s * x, 1, X), p) IN <<r.s, SignedPowMod(g, r.t, n)>>

NonmemVerify(g, n, acc, w, p) == (SignedPowMod(acc, w[1], n) * SignedPowMod(w[2], p, n)) % n = g
=============================================================================
