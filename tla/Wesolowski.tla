----------------------------- MODULE Wesolowski -----------------------------
(***************************************************************************)
(* The proofs of the delay functions as algorithms: the three provers of   *)
(* chiavdf (prover_base.hpp, prover_parallel.hpp, prover_slow.h) and its   *)
(* verifier of nested proofs (verifier.h).  The class group is any abelian *)
(* group (Nucomp shows how its operation is computed, FormCodec that the   *)
(* encoding of its elements can be read back); the hash to a prime is an   *)
(* operator of the model checker's choice.  How proofs are made in threads *)
(* that pause and stop is the subject of ProverManager.                    *)
(***************************************************************************)
EXTENDS Integers, SequencesExt

CONSTANTS
  Op(_, _), Id,      \* the group
  HashPrime(_)       \* a sequence of elements -> an odd prime

Failed == [ok |-> FALSE]

\* SerializeForm and DeserializeForm of proof_common.h.
SerializeForm(y) == [form |-> y]
DeserializeForm(s) == IF "form" \in DOMAIN s THEN [ok |-> TRUE, form |-> s.form] ELSE Failed

\* FastPow: a power modulo B.
RECURSIVE FastPow(_, _, _)
FastPow(base, exp, B) == IF exp = 0 THEN 1 % B ELSE (base * FastPow(base, exp - 1, B)) % B

GetB(x, y) == HashPrime(<<x, y>>)

\* FastPowFormNucomp, from the top bit of the exponent down.
RECURSIVE FastPowForm(_, _)
FastPowForm(x, n) ==
  IF n = 0 THEN Id
  ELSE LET half == FastPowForm(x, n \div 2)
       IN  IF n % 2 = 1 THEN Op(Op(half, half), x) ELSE Op(half, half)

RECURSIVE SquareFormN(_, _)
SquareFormN(f, cnt) == IF cnt = 0 THEN f ELSE SquareFormN(Op(f, f), cnt - 1)

OpAll(first, forms) == FoldLeft(Op, first, forms)

-----------------------------------------------------------------------------
(* The provers.  A segment is [x, y, T]; stored[i] is the form after i * k *)
(* * l squarings.                                                          *)

StoredForms(x, T, k, l) ==
  [i \in 0 .. (T + k * l - 1) \div (k * l) - 1 |-> SquareFormN(x, i * k * l)]

\* GetBlock: the i-th digit of 2^T / B in base 2^k, the lowest one last.
GetBlock(i, k, T, B) == (FastPow(2, T - k * (i + 1), B) * 2^k) \div B

\* Mutant of Limit: an incomplete last group of blocks is left out.
LimitFloor(T, k, l) == T \div (k * l)
Limit(T, k, l) == (T \div (k * l)) + (IF T % (k * l) = 0 THEN 0 ELSE 1)

\* ys: the product of the stored forms whose block has each value.
Buckets(j, seg, k, l, B, stored) ==
  [b \in 0 .. 2^k - 1 |->
     LET here(i) == /\ seg.T >= k * (i * l + j + 1)
                    /\ GetBlock(i * l + j, k, seg.T, B) = b
     IN  FoldLeft(LAMBDA y, i : IF here(i - 1) THEN Op(y, stored[i - 1]) ELSE y, Id,
                  [i \in 1 .. Limit(seg.T, k, l) |-> i])]

\* The body of the loop over j, which the three provers share: every bucket to
\* the power of its index, the high bits by rows and the low ones by columns.
Round(x, j, seg, k, l, B, stored) ==
  LET k1 == k \div 2
      k0 == k - k1
      ys == Buckets(j, seg, k, l, B, stored)
      row(b1) == OpAll(Id, [i \in 1 .. 2^k0 |-> ys[b1 * 2^k0 + i - 1]])
      column(b0) == OpAll(Id, [i \in 1 .. 2^k1 |-> ys[(i - 1) * 2^k0 + b0]])
  IN  OpAll(FastPowForm(x, 2^k),
            [i \in 1 .. 2^k1 |-> FastPowForm(row(i - 1), (i - 1) * 2^k0)]
            \o [i \in 1 .. 2^k0 |-> FastPowForm(column(i - 1), i - 1)])

\* The loop for j from start - 1 down to end.
Rounds(start, end, seg, k, l, stored) ==
  FoldLeft(LAMBDA x, j : Round(x, j, seg, k, l, GetB(seg.x, seg.y), stored), Id,
           [n \in 1 .. start - end |-> start - n])

\* Prover::GenerateProof
GenerateProof(seg, k, l, stored) == Rounds(l, 0, seg, k, l, stored)

\* Mutant of ProvePart: the part of the high rounds is not squared.
ProvePartUnshifted(start, len, seg, k, l, stored) == Rounds(start, start - len, seg, k, l, stored)

\* ParallelProver::ProvePart: the rounds below it are squarings.
ProvePart(start, len, seg, k, l, stored) ==
  SquareFormN(Rounds(start, start - len, seg, k, l, stored), (start - len) * k)

\* ParallelProver::GenerateProof: the upper half of l in a thread of its own.
GenerateProofParallel(seg, k, l, stored) ==
  LET l0 == l \div 2
      l1 == l - l0
  IN  Op(ProvePart(l, l0, seg, k, l, stored), ProvePart(l1, l1, seg, k, l, stored))

\* ProveSlow: the squarings, the forms kept on the way, and GenerateWesolowski.
ProveSlow(x, T, k, l) ==
  LET seg == [x |-> x, y |-> SquareFormN(x, T), T |-> T]
  IN  [y |-> SerializeForm(seg.y),
       proof |-> SerializeForm(Rounds(l, 0, seg, k, l, StoredForms(x, T, k, l)))]

-----------------------------------------------------------------------------
(* verifier.h                                                              *)

\* x ^ (2 ^ iters) as the proof claims it.
Claimed(x, proof, B, iters) == Op(FastPowForm(proof, B), FastPowForm(x, FastPow(2, iters, B)))

VerifyWesoSegment(x, proof, B, iters) ==
  LET out_y == Claimed(x, proof, B, iters) IN [ok |-> B = GetB(x, out_y), y |-> out_y]

VerifyWesolowskiProof(x, y, proof, iters) == Claimed(x, proof, GetB(x, y), iters) = y

\* CheckProofOfTimeNWesolowskiCommon: the segments of a blob, the last one in
\* it first; a segment is [iters, B, proof].
Segments(x, segments, iterations, skip_check) ==
  LET step(s, acc) ==
        LET proof == DeserializeForm(s.proof)
            r == VerifyWesoSegment(acc.x, proof.form, s.B, s.iters)
        IN  IF ~acc.ok \/ ~proof.ok \/ (~skip_check /\ ~r.ok) \/ s.iters > acc.iterations
            THEN [acc EXCEPT !.ok = FALSE]
            ELSE [x |-> r.y, iterations |-> acc.iterations - s.iters, ok |-> TRUE]
  IN  FoldRight(step, segments, [x |-> x, iterations |-> iterations, ok |-> TRUE])

\* CheckProofOfTimeNWesolowski; a blob is [y, proof, segments].
CheckNWesolowski(x_s, blob, iterations, depth) ==
  LET x == DeserializeForm(x_s)
      after == Segments(x.form, blob.segments, iterations, FALSE)
      y == DeserializeForm(blob.y)
      proof == DeserializeForm(blob.proof)
  IN  x.ok /\ Len(blob.segments) = depth /\ after.ok /\ y.ok /\ proof.ok
      /\ VerifyWesolowskiProof(after.x, y.form, proof.form, after.iterations)

\* CheckProofOfTimeNWesolowskiWithB: the blob has no y, the answer has.
CheckNWesolowskiWithB(B, x_s, blob, iterations, depth) ==
  LET x == DeserializeForm(x_s)
      after == Segments(x.form, blob.segments, iterations, FALSE)
      proof == DeserializeForm(blob.proof)
      r == VerifyWesoSegment(after.x, proof.form, B, after.iterations)
  IN  IF x.ok /\ Len(blob.segments) = depth /\ after.ok /\ proof.ok /\ r.ok
      THEN [ok |-> TRUE, y |-> SerializeForm(r.y)] ELSE Failed

\* GetBFromProof
GetBFromProof(x_s, blob, iterations, depth) ==
  LET after == Segments(DeserializeForm(x_s).form, blob.segments, iterations, TRUE)
  IN  IF Len(blob.segments) = depth /\ after.ok
      THEN [ok |-> TRUE, B |-> GetB(after.x, DeserializeForm(blob.y).form)] ELSE Failed

-----------------------------------------------------------------------------
(* fastvdf.cpp: the same for Python, which has serialized forms.           *)

\* DeserializeForm throws for what is no form; nothing is verified then.
PyVerifyWesolowski(x_s, y_s, proof_s, iters) ==
  LET forms == [i \in 1 .. 3 |-> DeserializeForm(<<x_s, y_s, proof_s>>[i])]
  IN  /\ \A i \in 1 .. 3 : forms[i].ok
      /\ VerifyWesolowskiProof(forms[1].form, forms[2].form, forms[3].form, iters)

PyProve(x_s, iters, k, l) ==
  LET x == DeserializeForm(x_s) IN IF x.ok THEN ProveSlow(x.form, iters, k, l) ELSE Failed
=============================================================================
