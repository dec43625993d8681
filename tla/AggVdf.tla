------------------------------- MODULE AggVdf -------------------------------
(***************************************************************************)
(* The delay functions with one proof for many outputs: chiavdf's aggvdf   *)
(* and its binding for Python, and HeadStart's toy_vdf.py.  A challenge is *)
(* hashed into the group by HashForm (ClassHash has H_G and H_QF).         *)
(***************************************************************************)
EXTENDS Wesolowski

CONSTANTS
  HashForm(_),       \* a challenge -> an element of the group
  HashIter(_),       \* ... and the iteration H_G finds it in
  HashFormFast(_, _),  \* a challenge and an iteration -> what H_GFast finds
  PrimeIter(_),      \* a transcript -> the iteration its prime is found in
  HashPrimeFast(_, _), \* a transcript and the first iteration -> a prime
  HashInt(_, _),     \* an index and the transcript -> an exponent
  Byte               \* 256 in the code

\* What is hashed: forms and outputs in turn, in Python all forms first.
Transcript(gs, ys) == FlattenSeq([i \in DOMAIN gs |-> <<gs[i], ys[i]>>])
ToyTranscript(gs, ys) == gs \o ys

-----------------------------------------------------------------------------
(* aggvdf.h                                                                *)

\* PowFormWithQuotient: g ^ (2 ^ T / B), one bit of the quotient at a time.
PowFormWithQuotient(g, T, B) ==
  LET step(acc, i) == [x |-> IF acc.r * 2 >= B THEN Op(Op(acc.x, acc.x), g) ELSE Op(acc.x, acc.x),
                       r |-> (acc.r * 2) % B]
  IN  FoldLeft(step, [x |-> Id, r |-> 1], [i \in 1 .. T |-> i]).x

\* The output, and the iteration of the hash that saves others the search.
EvalAggVdf(challenge, T) == <<SquareFormN(HashForm(challenge), T), HashIter(challenge)>>

\* The product of the forms, each to the power of its own hash; indices from 0.
Combined(forms, s, first, end) ==
  FoldLeft(LAMBDA acc, i : Op(acc, FastPowForm(forms[i + 1], HashInt(i, s))), Id,
           [n \in 1 .. end - first |-> first + n - 1])

AggreateVdfProofs(challenges, ys, T, a_iters) ==
  LET gs == [i \in DOMAIN challenges |-> HashFormFast(challenges[i], a_iters[i])]
      s == Transcript(gs, ys)
  IN  <<PowFormWithQuotient(Combined(gs, s, 0, Len(gs)), T, HashPrime(s)), PrimeIter(s)>>

\* Mutant of ThreadEnd: the last thread stops where its share ends.
ThreadEndEven(tt, n, nthreads) == (tt + 1) * (n \div nthreads)

\* The first index of a thread and the one where it ends.
ThreadStart(tt, n, nthreads) == (tt * n) \div nthreads
ThreadEnd(tt, n, nthreads) == IF tt + 1 = nthreads THEN n ELSE ((tt + 1) * n) \div nthreads

VerifyAggProof(challenges, ys, proof, T, nthreads, a_iters, b_iter) ==
  LET gs == [i \in DOMAIN challenges |-> HashFormFast(challenges[i], a_iters[i])]
      s == Transcript(gs, ys)
      n == Len(challenges)
      B == HashPrimeFast(s, b_iter)
      all(forms) == OpAll(Id, [t \in 1 .. nthreads |->
                      Combined(forms, s, ThreadStart(t - 1, n, nthreads), ThreadEnd(t - 1, n, nthreads))])
  IN  Op(FastPowForm(proof, B), FastPowForm(all(gs), FastPow(2, T, B))) = all(ys)

-----------------------------------------------------------------------------
(* fastvdf.cpp: to Python a form and its iteration are one string, here the *)
(* serialized form followed by bytes.                                      *)

Iters(n) == [i \in 1 .. 4 |-> (n \div Byte^(i - 1)) % Byte]
WithIters(form, n) == <<SerializeForm(form)>> \o Iters(n)

ItersOf(s) == FoldLeft(LAMBDA n, i : n + s[Len(s) - 4 + i] * Byte^(i - 1), 0, <<1, 2, 3, 4>>)
FormOf(s) == DeserializeForm(SubSeq(s, 1, Len(s) - 4)[1])

AggvdfEval(challenges, T) ==
  [i \in DOMAIN challenges |->
     LET y == EvalAggVdf(challenges[i], T) IN WithIters(y[1], y[2])]

FormsOf(strings) == [i \in DOMAIN strings |-> FormOf(strings[i]).form]
AllIters(strings) == [i \in DOMAIN strings |-> ItersOf(strings[i])]

\* A string that is no form throws, as DeserializeForm does.
AggvdfProve(challenges, ys, T) ==
  IF \E i \in DOMAIN ys : ~FormOf(ys[i]).ok THEN Failed
  ELSE LET proof == AggreateVdfProofs(challenges, FormsOf(ys), T, AllIters(ys))
       IN  [ok |-> TRUE, proof |-> WithIters(proof[1], proof[2])]

AggvdfVerify(challenges, ys, proof, T) ==
  /\ FormOf(proof).ok /\ \A i \in DOMAIN ys : FormOf(ys[i]).ok
  /\ VerifyAggProof(challenges, FormsOf(ys), FormOf(proof).form, T, 4, AllIters(ys), ItersOf(proof))

-----------------------------------------------------------------------------
(* toy_vdf.py                                                              *)

\* compute_proof: as PowFormWithQuotient, with the bit as an exponent.
ComputeProof(g, B, T) ==
  LET step(acc, i) == [x |-> Op(Op(acc.x, acc.x), FastPowForm(g, (2 * acc.r) \div B)),
                       r |-> (2 * acc.r) % B]
  IN  FoldLeft(step, [x |-> Id, r |-> 1], [i \in 1 .. T |-> i]).x

ToyEvalAndProve(g, T) ==
  LET y == SquareFormN(g, T) IN [y |-> y, pi |-> ComputeProof(g, HashPrime(<<g, y>>), T)]

ToyVerify(g, y, pi, T) ==
  LET l == HashPrime(<<g, y>>) IN Op(FastPowForm(pi, l), FastPowForm(g, FastPow(2, T, l))) = y

\* AggregateToyVDF; the indices that are hashed start at 1.
ToyCombined(forms, s) ==
  FoldLeft(LAMBDA G, j : Op(G, FastPowForm(forms[j], HashInt(j, s))), Id, [j \in DOMAIN forms |-> j])

ToyAggregate(challenges, ys, T) ==
  LET gs == [i \in DOMAIN challenges |-> HashForm(challenges[i])]
      s == ToyTranscript(gs, ys)
  IN  ComputeProof(ToyCombined(gs, s), HashPrime(s), T)

ToyAggregateVerify(challenges, ys, pi, T) ==
  LET gs == [i \in DOMAIN challenges |-> HashForm(challenges[i])]
      s == ToyTranscript(gs, ys)
      l == HashPrime(s)
  IN  Op(FastPowForm(pi, l), FastPowForm(ToyCombined(gs, s), FastPow(2, T, l))) = ToyCombined(ys, s)
=============================================================================
