----------------------------- MODULE Algorithms -----------------------------
(***************************************************************************)
(* The pure algorithms, one input at a time: arithmetic of the class       *)
(* group, the encoding of its elements, hashing into it, the accumulators  *)
(* over it, commitments to functions, the provers and verifiers of the     *)
(* delay functions, the partial gcd, numbers in limbs and in registers.    *)
(* Each property compares what the code computes with a definition.        *)
(***************************************************************************)
EXTENDS Integers, Sequences, SequencesExt, FiniteSets

CONSTANTS
  Cycle,            \* order of the group in which proofs are made
  MaxIterations     \* bound: the squarings of a delay

VARIABLE input      \* what the algorithms are applied to, [of |-> ..., ...]

\* Words of eight bits, bytes of two: the constants of the code are scaled.
F == INSTANCE FormCodec WITH WordBits <- 8, ByteBits <- 2, FormSize <- 13
H == INSTANCE ClassHash
A == INSTANCE ClassAccumulators WITH WordBits <- 8

-----------------------------------------------------------------------------
(* Composition of forms.                                                   *)

\* All pairs of one group, and pairs of a larger one in which the words of
\* the approximations are too short for the numbers.
SmallD == -1151
LargeD == -64951
FormInputs ==
  [of : {"forms"}, D : {SmallD}, f : F!FormsOver(SmallD, 1 .. 19), g : F!FormsOver(SmallD, 1 .. 19)]
  \cup [of : {"forms"}, D : {LargeD}, f : F!FormsOver(LargeD, 1 .. 147), g : F!FormsOver(LargeD, {3, 59, 129, 143})]

\* isReduced of Reducer.h takes b = -a, which vdf_new.h excludes.
UpToSignAtEdge(r, p) == r = p \/ (r[1] = p[1] /\ p[2] = p[1] /\ r[2] = -p[2] /\ r[3] = p[3])

Composed(f, g, D, L, p) ==
  /\ F!Canonical(p) /\ F!CheckValid(p, D)
  /\ F!Multiply(f, g) = p /\ F!OriginalMultiply(f, g) = p /\ F!Compose(f, g).solvable
  /\ F!PyReducedForm(F!PyMul(f, g).form) = p /\ F!PyMul(f, g).solvable
  /\ F!CheckValid(F!QfbNucomp(f, g, D, L), D) /\ UpToSignAtEdge(F!ReducerRun(F!QfbNucomp(f, g, D, L)), p)

Squared(f, D, L, p) ==
  /\ F!Square(f) = p /\ F!OriginalSquare(f) = p
  /\ F!CheckValid(F!QfbNudupl(f, D, L), D) /\ UpToSignAtEdge(F!ReducerRun(F!QfbNudupl(f, D, L)), p)
  /\ F!Multiply(f, F!InverseForm(f)) = F!Identity(D)

Powered(f, D, L, power) ==
  /\ power = F!Multiply(F!RepeatedSquare(f, 2), F!RepeatedSquare(f, 1))
  /\ UpToSignAtEdge(F!FastPowFormNucomp(f, D, 6, L), power)

\* Every way the repository has to compose two forms, square one or raise it
\* to a power gives the reduced form of their product (vdf_new.h,
\* vdf_original.h, bqf.py, nucomp.h with Reducer.h).
ComposersAgree ==
  input.of = "forms" =>
    /\ Composed(input.f, input.g, input.D, F!RootL(input.D), F!Product(input.f, input.g))
    /\ input.f = input.g =>
         /\ Squared(input.f, input.D, F!RootL(input.D), F!Product(input.f, input.f))
         /\ Powered(input.f, input.D, F!RootL(input.D), F!QfPow(input.f, 6))
    /\ LET e == F!TestGcd(input.f[2], input.f[1])
       IN  e.g = F!Gcd(input.f[1], input.f[2]) /\ (e.s * input.f[2] - e.g) % input.f[1] = 0

-----------------------------------------------------------------------------
(* The encoding of forms.                                                  *)

CodeInputs == UNION {[of : {"code"}, D : {d}, f : F!FormsOver(d, 1 .. 147)] : d \in {-1151, -64951, -65063}}

\* Registers of four bytes of two bits, coefficients of four bits in five:
\* numbers of 3, 3 and 5 coefficients in as many, 3 and 4 registers.
R == INSTANCE HwRegisters WITH ByteBits <- 2, WordBits <- 4, RedundantBits <- 5,
       Coeffs1X <- 3, Coeffs2X <- 3, Coeffs4X <- 5, Count1X <- 3, Count2X <- 3, Count4X <- 4,
       Sizes <- {4, 16, 32, 48}, JobSetSize <- 80, BurstHead <- 8, Engines <- 3, MaxDivq <- 1

RegisterNumbers == {0, 1, 16, 255, 4095, -1, -16, -256, -4095, -3003}
RegisterInputs ==
  [of : {"registers"}, a : RegisterNumbers, f : RegisterNumbers, d : {-7, -65537, -1048575}, iters : {255, 65535}]
    \cup [of : {"clock"}, mhz : {2400, 2791, 2999, 3000}] \cup [of : {"voltage"}, v : {70000 + 125 * i : i \in 0 .. 240}]

\* A job reaches the engine whole and starts it once, within the engine's
\* registers whatever pads the last transfer; and each engine's status is read
\* as it is now, also the first one's behind the sensors.
RegistersReadBack(x, e, stale) ==
  LET job == R!PrepareJob(x.iters, x.d, x.a, x.f)
      bytes == R!SerializeJob(job)
      run == FoldLeft(LAMBDA s, cmd : R!EmuDoWrite(s, e, cmd), R!BlankSet(stale), R!FtdiWrite(R!JobAddr(e), bytes, stale))
      states == [n \in 0 .. 2 |-> IF n = e THEN [iters |-> x.iters, a |-> x.a, f |-> x.f] ELSE [iters |-> n, a |-> -n, f |-> n]]
      old == [n \in 1 .. 3 |-> R!UpdateStatus([iters |-> 9, a |-> 9, f |-> 9])]
  IN  /\ Len(bytes) = R!CmdSize /\ run.inside
      /\ run.started = <<[iters |-> x.iters, a |-> x.a, f |-> x.f, d |-> x.d, l |-> job.l]>>
      /\ \A n \in 0 .. 2 : R!ReadHwStatus(n, old, states) = states[n]

\* The clock runs at the first frequency that is not below the wanted one and
\* is read back as that, with the filter for its reference.
ClockReadsBack(mhz) ==
  LET e == R!EntryFor(mhz)
      regs == R!SetPLLFrequency(e)
      freq == R!GetPLLFrequency(regs)
      range == R!RegAt(regs[20], 0)
  IN  /\ freq[1] >= mhz * freq[2]
      /\ \A g \in R!PllEntries : R!AtLeast(g, mhz) => 200 * (g.divfi + 1) * freq[2] >= freq[1] * (g.divr + 1) * (g.divq + 1)
      /\ R!PllFilterRanges[range] * (e.divr + 1) <= 1000 /\ 1000 < R!PllFilterRanges[range + 1] * (e.divr + 1)

\* A form written by SerializeForm is read back by DeserializeForm as the same
\* reduced form, also when it was not reduced, and every field of the encoding
\* holds what is stored in it, whatever divisor is taken out (bqfc.c).  What is
\* written to the hardware's registers is what they hold: jobs, status, clock
\* and, to within the regulator's step, the voltage (vdf_driver.cpp,
\* ftdi_driver.cpp, emu_runner.cpp).
EncodingReadsBack ==
  /\ input.of = "code" =>
       LET f == input.f
           D == input.D
           unreduced == <<f[1], f[2] + 2 * f[1], f[1] + f[2] + f[3]>>
           read == [ok |-> TRUE, form |-> f]
       IN  /\ ~(f[2] = 1 /\ f[1] <= 2) => F!FieldsFit(F!Compr(f[1], f[2]), D)
           /\ Len(F!SerializeForm(f, D).bytes) = 12
           /\ F!DeserializeForm(D, F!SerializeForm(f, D)) = read
           /\ F!DeserializeForm(D, F!SerializeForm(unreduced, D)) = read
  /\ input.of = "registers" => \A e \in 0 .. 2 : RegistersReadBack(input, e, 3)
  /\ input.of = "clock" => ClockReadsBack(input.mhz)
  /\ input.of = "voltage" =>
       R!VidIsLegal(R!Vid(input.v)) /\ input.v - R!VoltageOf(R!Vid(input.v)) \in 0 .. 624

-----------------------------------------------------------------------------
(* Hashing into the group and to primes.                                   *)

\* Candidates as a hash gives them: arbitrary numbers.
Candidates(seed) == [i \in 1 .. 60 |-> ((97 * seed + 13 * i * i + 31 * i) % 300) + 20]
HashInputs == [of : {"hash"}, D : {SmallD, LargeD}, cands : {Candidates(seed) : seed \in 0 .. 49}]

Seeds(Next(_, _)) == FoldLeft(LAMBDA s, i : Append(s, Next(s[i], 4)), <<<<0, 1, 2>>>>, [i \in 1 .. 63 |-> i])

\* What is hashed into the group is a reduced form of the discriminant, the
\* same in C++ and Python, and the same again when H_GFast and HashPrimeFast
\* start from the iteration that the search has reported.  The seeds that
\* are hashed do not come back, although H_G counts them up with the test for
\* the carry turned round (aggutil.h, toy_vdf.py).
HashesAgree ==
  input.of = "hash" =>
    LET cands == input.cands
        D == input.D
        h == H!H_G(cands, D)
        p == H!HashPrimeWithIteration(cands)
    IN  /\ H!CheckValid(h[1], D) /\ H!IsReduced(h[1])
        /\ H!H_GFast(cands, D, h[2]) = {h[1]} /\ H!H_QF(cands, D) = h[1]
        /\ \A i \in 0 .. p[2] : H!HashPrimeFast(cands, i) = p[1]
        /\ cands = Candidates(0) => IsInjective(Seeds(H!SproutOfH_G)) /\ IsInjective(Seeds(H!SproutOfHashPrime))

-----------------------------------------------------------------------------
(* Accumulators.                                                           *)

RsaModulus == 11 * 23
RsaGenerator == 4         \* of order 5 * 11
FormGenerator == F!Generator(SmallD)
Primes == {3, 5, 7, 13}
NotIn == {5, 17, 19}

Rsa == INSTANCE Accumulators WITH G <- RsaGenerator, ExpAll <- LAMBDA g, X : A!RsaExpAll(g, X, RsaModulus)
Bqf == INSTANCE Accumulators WITH G <- FormGenerator, ExpAll <- A!BqfExpAll
Chia == INSTANCE Accumulators WITH G <- FormGenerator, ExpAll <- A!ChiaExpAll

AccInputs == [of : {"acc"}, X : UNION {[1 .. k -> {1, 6, 13}] : k \in 1 .. 3} \cup {<<5, 3, 13, 7, 1>>, <<3, 3, 5, 7>>}]

\* The loot-box protocol's commitments: all functions of two and three
\* coefficients, and those of four that are zero somewhere.
Poly == INSTANCE PolyCommit WITH Order <- 7, Alpha <- 3, SetupSize <- 3, Precision <- 1
Cards == INSTANCE PolyCommit WITH Order <- 1009, Alpha <- 3, SetupSize <- 1, Precision <- 9

Coeffs == [1 .. 2 -> 0 .. 6] \cup [1 .. 3 -> 0 .. 6] \cup {c \in [1 .. 4 -> {0, 2, 5}] : \E k \in 1 .. 4 : c[k] = 0}
CommitmentInputs == [of : {"commitment"}, coeffs : Coeffs] \cup {[of |-> "cards"]}

\* The terms of the sum of CommitSumTrusted and the asserts of Prove: the
\* commitment is phi at the secret and the witness the quotient there.
CommitmentOpens(coeffs, i) ==
  LET c == Poly!CommitSum(coeffs)
      e == Poly!EvalAndProof(coeffs, i)
  IN  /\ c = Poly!Polynomial(Poly!Powers[2], coeffs)
      /\ e.W = Poly!CommitDivision(i, coeffs) /\ Poly!EvalAndProof(coeffs, i + 7) = e
      /\ \A y \in 0 .. 6 : Poly!VerifyEvalProof(c, i, y, e.W) <=> y = e.y
      /\ \A j \in 0 .. 6 : Poly!VerifyEvalProof(c, j, e.y, e.W) <=> (j = i \/ e.W = 0)

\* Half of the values win; the stars come with the shares that are claimed, to
\* within the rounding, and the cards are those there are, but for values that
\* are rounded to 1.
CardsAreFair ==
  LET values == 0 .. 1008
      among(kind) == Cardinality({y \in values : Cards!PostProcess(y).stars = kind.stars})
  IN  /\ Cardinality({y \in values : Cards!IsWinning(y)}) = 505
      /\ \A k \in 1 .. 3 : 100 * among(Cards!Cards[k]) - Cards!Cards[k].share * 1009 \in -300 .. 300
      /\ \A y \in values : \E k \in 1 .. 3 :
           LET card == Cards!PostProcess(y)
           IN  card.stars = Cards!Cards[k].stars /\ (card.idx \in 0 .. Cards!Cards[k].number - 1 \/ Cards!Ratio(y) = Cards!One)

AccWitnessesVerify(X) ==
  /\ \A i \in DOMAIN X : /\ Rsa!Verify(Rsa!Accumulate(X), Rsa!Witgen(X, i), X[i])
                        /\ Bqf!Verify(Bqf!Accumulate(X), Bqf!Witgen(X, i), X[i])
                        /\ Chia!Verify(Chia!Accumulate(X), Chia!Witgen(X, i), X[i])
  /\ A!Unsigned(Bqf!Accumulate(X)) = Chia!Accumulate(X)
  /\ ToSet(X) \subseteq Primes => \A p \in Primes \cup NotIn :
       A!NonmemVerify(RsaGenerator, RsaModulus, Rsa!Accumulate(X), A!NonmemWitgen(RsaGenerator, RsaModulus, X, p), p)
       <=> p \notin ToSet(X)

\* A membership witness verifies for its datum in the RSA accumulator and in
\* both accumulators over the class group, which agree up to the sign that
\* chiavdf's binding drops.  A non-membership witness over primes verifies
\* exactly for the primes that were not accumulated.  The commitment to a
\* function opens to its value wherever it is evaluated, to no other, and the
\* witness to no other place (rsa_accumulator.py, bqf_accumulator.py, KZG10.py,
\* common.py, interactive_server.py).
WitnessesVerify ==
  /\ input.of = "acc" => AccWitnessesVerify(input.X)
  /\ input.of = "commitment" => \A i \in 0 .. 6 : CommitmentOpens(input.coeffs, i)
  /\ input.of = "cards" => CardsAreFair

-----------------------------------------------------------------------------
(* Proofs.                                                                 *)

\* The group is cyclic; primes exceed the base 2^k of the blocks, as 264 bits
\* exceed those of the code.
Op(a, b) == (a + b) % Cycle
HashPrime(fs) == <<11, 13, 17, 19, 23, 29, 31>>[(FoldLeft(LAMBDA n, f : (n * 3 + f) % 1000, 1, fs) % 7) + 1]
HashInt(i, fs) == (i + FoldLeft(LAMBDA n, f : (n * 5 + f) % 1000, 1, fs)) % 16
HashForm(c) == (c * 7 + 3) % Cycle

\* The iterations of a hash that are known, in four bytes of two bits; from
\* another iteration the search finds something else or nothing.
HashIter(c) == (c * 11) % 256
HashFormFast(c, i) == IF i = HashIter(c) THEN HashForm(c) ELSE 0
PrimeIter(fs) == (FoldLeft(LAMBDA n, f : (n * 7 + f) % 1000, 1, fs)) % 256
HashPrimeFast(fs, i) == IF i <= PrimeIter(fs) THEN HashPrime(fs) ELSE 37
V == INSTANCE AggVdf WITH Id <- 0, Byte <- 4

ProofInputs == [of : {"proof"}, x : {0, 1, 5, 17, 38}, T : 1 .. MaxIterations, k : 1 .. 3, l : 1 .. 3]

Segment(x, T) == [x |-> x, y |-> V!SquareFormN(x, T), T |-> T]
Proof(seg, k, l) == V!GenerateProof(seg, k, l, V!StoredForms(seg.x, seg.T, k, l))

\* The delay in three segments as the timelord writes it: the last one whole,
\* the others in front of it, each as iterations, B and proof.
Blob(x, T, k, l) ==
  LET s1 == Segment(x, T \div 3)
      s2 == Segment(s1.y, T \div 2 - T \div 3)
      s3 == Segment(s2.y, T - T \div 2)
      part(s) == [iters |-> s.T, B |-> V!GetB(s.x, s.y), proof |-> V!SerializeForm(Proof(s, k, l))]
  IN  [y |-> V!SerializeForm(s3.y), proof |-> V!SerializeForm(Proof(s3, k, l)), segments |-> <<part(s2), part(s1)>>]

\* The three provers make the power 2^T / B of x whatever k and l are; the
\* verifier accepts it, nested in segments too, gives the same output when it
\* gets B in its place, and accepts no other output (prover_base.hpp,
\* prover_parallel.hpp, prover_slow.h, verifier.h).  One proof for many
\* outputs verifies however its work is shared out to threads, in C++ and in
\* Python, also when outputs and proof travel as strings with the iterations
\* of their hashes (aggvdf.h, toy_vdf.py, fastvdf.cpp).
ProofsVerify ==
  input.of = "proof" =>
    LET x == input.x
        T == input.T
        k == input.k
        l == input.l
        seg == Segment(x, T)
        p == Proof(seg, k, l)
        xs == V!SerializeForm(x)
        blob == Blob(x, T, k, l)
        wrong == Op(seg.y, 1)
        fromB == V!GetBFromProof(xs, blob, T, 2)
        challenges == [i \in 1 .. k + l |-> x + i * i]
        ys == [i \in 1 .. k + l |-> V!EvalAggVdf(challenges[i], T)[1]]
        a_iters == [i \in 1 .. k + l |-> V!EvalAggVdf(challenges[i], T)[2]]
        agg == V!AggreateVdfProofs(challenges, ys, T, a_iters)
        strings == V!AggvdfEval(challenges, T)
        slow == V!PyProve(xs, T, k, l)
        toy == V!ToyEvalAndProve(x, T)
    IN  /\ seg.y = (x * 2^T) % Cycle /\ p = (x * (2^T \div V!GetB(x, seg.y))) % Cycle
        /\ V!GenerateProofParallel(seg, k, l, V!StoredForms(x, T, k, l)) = p
        /\ V!ProveSlow(x, T, k, l) = [y |-> V!SerializeForm(seg.y), proof |-> V!SerializeForm(p)]
        /\ V!VerifyWesolowskiProof(x, seg.y, p, T)
        /\ V!GetB(x, seg.y) = V!GetB(x, wrong) => ~V!VerifyWesolowskiProof(x, wrong, p, T)
        /\ V!CheckNWesolowski(xs, blob, T, 2) /\ ~V!CheckNWesolowski(xs, blob, T, 1)
        /\ fromB.ok /\ V!CheckNWesolowskiWithB(fromB.B, xs, blob, T, 2) = [ok |-> TRUE, y |-> blob.y]
        /\ \A n \in 1 .. 5 : V!VerifyAggProof(challenges, ys, agg[1], T, n, a_iters, agg[2])
        /\ V!AggvdfVerify(challenges, strings, V!AggvdfProve(challenges, strings, T).proof, T)
        /\ V!PyVerifyWesolowski(xs, slow.y, slow.proof, T) /\ ~V!PyProve(V!Failed, T, k, l).ok
        /\ V!ToyVerify(x, toy.y, toy.pi, T)
        /\ V!ToyAggregateVerify(challenges, ys, V!ToyAggregate(challenges, ys, T), T)

-----------------------------------------------------------------------------
(* The partial gcd.                                                        *)

\* Words of seven bits, doubles of six, numbers of four limbs.
G == INSTANCE AsmGcd WITH WordBits <- 7, Precision <- 6, TableExponent <- 2, TableFraction <- 3, Limbs <- 4

Builds(table) ==
  {[table |-> table, fused |-> fused, baseBits |-> 5, baseIter |-> 5, maxIter |-> 3, iterations |-> 12, divide |-> FALSE] :
     fused \in BOOLEAN}
  \cup {[table |-> table, fused |-> TRUE, baseBits |-> 6, baseIter |-> 5, maxIter |-> 2, iterations |-> 12, divide |-> TRUE,
         quotientBits |-> 3, dataSize |-> 3, indexBits |-> 3, divideIter |-> 4]}

\* Numbers below a limit, from their quotients.
Quotients(seed) ==
  [i \in 1 .. 24 |-> <<1, 2, 1, 3, 1, IF seed % 2 = 0 THEN 7 ELSE 2, 1, 1, 2, IF seed % 2 = 0 THEN 12 ELSE 3, 1>>[1 + ((seed * (i + 4) + i * i) % 11)]]
Numbers(g, seed, limit) ==
  FoldLeft(LAMBDA p, q : IF q * p[1] + p[2] >= limit THEN p ELSE <<q * p[1] + p[2], p[1]>>, <<g, 0>>, Quotients(seed))
GcdInputs ==
  [of : {"gcd"}, b : Builds(G!GenerateTable), threshold : {0, 10, 200, 2000},
   ab : {Numbers(g, seed, 2^k) : g \in {1, 5}, seed \in 1 .. 22, k \in {5, 6, 9, 11, 14, 18, 22}}]

\* A valid result is that of the plain algorithm.
ValidIsSlow(fast, slow) == fast.valid => fast.s = slow

\* The other thread gets the matrices one by one and multiplies by them.
AsmIsSlow(asm, slow) ==
  /\ G!AsmResult(asm) = slow.ab /\ asm.counter = 100 + asm.iter - 1
  /\ G!AllMultiplied(<<1, 0>>, asm.entries) = <<slow.parity * slow.uv[1], -slow.parity * slow.uv[2]>>
  /\ \A i \in DOMAIN asm.entries : asm.entries[i].exit <=> i = Len(asm.entries)

\* Matrix by matrix; the table of inverses takes other steps than the doubles.
AsmIsFast(asm, fast, b) ==
  ~b.divide =>
    /\ asm.error \/ fast.valid
    /\ ~asm.error => fast.mats = [i \in 1 .. asm.iter |-> <<asm.entries[i + 1].uv, asm.entries[i + 1].parity>>]

GcdLevelsAgree(fast, asm, slow, b) ==
  ValidIsSlow(fast, slow) /\ (~asm.error => AsmIsSlow(asm, slow)) /\ AsmIsFast(asm, fast, b)

\* The base case by a table of inverses, in C++ and in assembly.
WordsAgree(ab, cpp, asm, b) ==
  /\ cpp.asserted /\ G!Times(cpp.uv, ab) = cpp.ab
  /\ cpp.uv = asm.uv \/ -(2^b.dataSize) \in G!Entries(asm.uv)

\* Every level of the gcd, in C++ and in both assembly builds, gives the
\* numbers and cofactors of Euclid's algorithm when it gives any, and the
\* assembly the C++'s matrices; the table has quotients for every slot, and
\* division by the table of inverses is division (gcd_unsigned.h, gcd_128.h,
\* gcd_base_continued_fractions.h, gcd_base_divide_table.h, asm_gcd_*.h).
GcdsAgree ==
  input.of = "gcd" =>
    LET ab == input.ab
        b == input.b
    IN  /\ \A i \in DOMAIN b.table : b.table[i] # <<>>
        /\ ab[1] > input.threshold =>
             GcdLevelsAgree(G!GcdUnsigned([ab |-> ab, uv |-> <<1, 0>>, parity |-> 1], input.threshold, b),
                            G!AsmGcdUnsigned(ab, input.threshold, 100, b),
                            G!GcdUnsignedSlow([ab |-> ab, uv |-> <<1, 0>>, parity |-> 1], input.threshold), b)
        /\ b.divide /\ ab[1] < 2^6 /\ ab[2] > 0 =>
             /\ G!DivideTable(ab[1], ab[2], b.indexBits) = G!Divided(ab[1], ab[2])
             /\ \A approximate \in BOOLEAN :
                  WordsAgree(ab, G!Gcd64(ab, approximate, b), G!AsmBase(ab, approximate, 0, b), b)

-----------------------------------------------------------------------------
(* Numbers in limbs.                                                       *)

\* Words of nine bits in limbs of five, vectors of three; limbs of two bits.
Vec == INSTANCE Avx512 WITH WordBits <- 9, LimbBits <- 5, Lanes <- 3
Fix == INSTANCE FixedInteger WITH LimbBits <- 2

Signed(S) == S \cup {-m : m \in S}
VectorNumbers == Signed({0, 1, 15, 31, 32, 511, 512, 1023, 1024, 16399, 32767, 130560, 262113, 262143})
FixedNumbers == [sign : {0, -1}, limbs : [1 .. 1 -> 0 .. 3] \cup [1 .. 2 -> 0 .. 3] \cup [1 .. 3 -> {0, 3}]]
LimbInputs == [of : {"vectors"}, a : VectorNumbers, b : VectorNumbers] \cup [of : {"fixed"}, a : FixedNumbers, b : FixedNumbers]

\* A GMP integer in memory for some words, with rubbish above its size.
InGmp(v, words) ==
  LET size == CHOOSE n \in 0 .. words : F!Magnitude(v) < 512^n /\ \A m \in 0 .. n - 1 : F!Magnitude(v) >= 512^m
  IN  [size |-> F!Sign(v) * size, data |-> [i \in Vec!Slots(words) |-> IF i < size THEN (F!Magnitude(v) \div 512^i) % 512 ELSE 299]]

\* Normal form: as few words as the number has, and zeros above them.
IsGmp(r, v, words) ==
  r.size = InGmp(v, words).size /\ \A i \in DOMAIN r.data : r.data[i] = IF i < F!Magnitude(r.size) THEN InGmp(v, words).data[i] ELSE 0

VectorsAgree(a, b) ==
  LET av == Vec!ToAvx512(InGmp(a, 2), 2, Vec!LimbsFor(2))
      bv == Vec!ToAvx512(InGmp(b, 2), 2, Vec!LimbsFor(2))
      difference == Vec!SetSub(av, bv)
  IN  /\ IsGmp(Vec!ToGmp(av, 2), a, 2)
      /\ IsGmp(Vec!ToGmp(Vec!SetAdd(av, bv), 3), a + b, 3) /\ IsGmp(Vec!ToGmp(difference, 3), a - b, 3)
      /\ F!Magnitude(a - b) < 2^18 => IsGmp(Vec!ToGmp(Vec!SetSub(difference, av), 2), -b, 2)
      /\ F!Magnitude(a) < 512 => IsGmp(Vec!MulByAvx512(InGmp(a, 1), InGmp(b, 2), 1, 2, 3), a * b, 3)
      /\ F!Magnitude(a) < 512 /\ F!Magnitude(b) < 512 => IsGmp(Vec!MulByAvx512(InGmp(b, 2), InGmp(a, 1), 2, 1, 2), a * b, 2)

FixedAgree(a, b) ==
  LET x == Fix!ToInteger(a)
      y == Fix!ToInteger(b)
      room == 4^Fix!Size(a)
      wraps(v) == F!Sign(v) * (F!Magnitude(v) % room)
      mad == Fix!Mad(a.limbs, b.limbs[1], a.limbs, Fix!Size(a) + 2)
  IN  /\ Fix!ToInteger(Fix!Plus(a, b)) = x + y /\ Fix!ToInteger(Fix!Minus(a, b)) = x - y /\ Fix!ToInteger(Fix!Times(a, b)) = x * y
      /\ Fix!Size(a) = Fix!Size(b) =>
           /\ Fix!Compare(a, b) = (IF x = -y THEN 0 ELSE F!Sign(x - y))
           /\ Fix!ToInteger(Fix!PlusInPlace(a, b)) = wraps(x + y) /\ Fix!ToInteger(Fix!MinusInPlace(a, b)) = wraps(x - y)
      /\ mad.asserted /\ Fix!ToInteger([a EXCEPT !.limbs = mad.limbs]) = x * (b.limbs[1] + 1)
      /\ a = b =>
           /\ Fix!ToInteger(Fix!OfInteger(x, Fix!Size(a))) = x /\ Fix!IsNegative(a) = (x < 0)
           /\ Fix!ToInteger(Fix!ToUint32(Fix!ToUint64(a))) = x
           /\ Fix!ToInteger(Fix!ShiftedLeft(a, 1)) = 2 * x /\ Fix!ToInteger(Fix!ShiftRight(a, 1)) = F!TruncDiv(x, 2)
           /\ Fix!ToInteger(Fix!RightShiftLimbs(Fix!LeftShiftLimbs(a, 1), 1)) = F!Sign(x) * (F!Magnitude(x) % (room \div 4))
           /\ Fix!NumBits(a) = (IF x = 0 THEN 1 ELSE F!Bits(x))
           /\ \A bit \in 0 .. 7 : Fix!Window(a, bit) = (F!Magnitude(x) \div 2^bit) % 4

\* Sums, differences, products and conversions of numbers in limbs, by the
\* vector instructions and in integers of fixed size, are those of the
\* numbers: carries are all taken, operands may be zero of either sign, and
\* the result has no more words than it needs.  Comparison is right but for a
\* number and its negative, which it calls equal (asm_avx512_ifma.h,
\* avx512_integer.h, gpu_integer.h).
LimbsAgree ==
  /\ input.of = "vectors" => VectorsAgree(input.a, input.b)
  /\ input.of = "fixed" => FixedAgree(input.a, input.b)

-----------------------------------------------------------------------------
NoInput == [of |-> "none"]
Inputs == FormInputs \cup CodeInputs \cup HashInputs \cup AccInputs \cup ProofInputs \cup GcdInputs \cup LimbInputs \cup RegisterInputs
          \cup CommitmentInputs

AlgorithmsInit == input = NoInput

Try == input = NoInput /\ input' \in Inputs

=============================================================================
