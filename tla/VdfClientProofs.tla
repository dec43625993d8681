--------------------------- MODULE VdfClientProofs --------------------------
(***************************************************************************)
(* Theorems about the simple sessions of vdf_client.cpp (module VdfClient) *)
(* for every size of batches, steps, limits and whatever the client asks   *)
(* for: every prover reads the forms of the iterations it stands for, and  *)
(* neither the array of forms nor the pool of requests overflows.          *)
(***************************************************************************)
EXTENDS VdfClient, FiniteSetTheorems, SequenceTheorems, WellFoundedInduction, TLAPS

-----------------------------------------------------------------------------
(* The invariant.                                                          *)

SessionPcs == {"type", "readOne", "readOneStop", "joinOneVdf", "joinProver",
               "startTwo", "readTwo", "joinThreads", "joinTwoVdf", "done"}

\* What the session "T" has not touched yet.
TwoUntouched ==
  /\ switch_iters = -1
  /\ two_forms = [e \in Slots |-> IF e = 0 THEN 0 ELSE Unset]
  /\ threads = <<>>
  /\ \A n \in Asked : /\ req[n] = "none" /\ \A d \in 0 .. 1 : prover_of[n][d] = "none"
                      /\ \A d \in 0 .. 2 : split[n][d] = Unset

\* Who has started whom.
Sessions ==
  /\ session \in SessionPcs
  /\ session \in {"type", "readOne", "startTwo"} => vdf = "none" /\ prover = "none"
  /\ session \in {"type", "readOne", "readOneStop", "joinOneVdf", "joinProver"} => ~two_weso
  /\ session \in {"startTwo", "readTwo", "joinThreads", "joinTwoVdf"} => two_weso
  /\ session \in {"type", "startTwo", "readTwo"} => ~stopped
  /\ session \in {"readOneStop", "joinOneVdf", "joinProver", "readTwo", "joinThreads", "joinTwoVdf"} => vdf # "none"
  /\ two_weso => prover = "none"
  /\ vdf = "none" => num_iterations = 0 /\ last_checkpoint = 0 /\ TwoUntouched
  /\ ~two_weso => vdf \in {"none", "batch", "publish", "exit"} /\ TwoUntouched

\* Session "S": what the squarer has stored, and how far the prover knows it is.
OneStored ==
  /\ wanted_iter \in Wanted
  /\ \A k \in Nat : k * KL(wanted_iter) <= num_iterations /\ k * KL(wanted_iter) <= wanted_iter =>
                      forms[k] = k * KL(wanted_iter)
  /\ num_iterations >= wanted_iter => result = wanted_iter

OneReady ==
  /\ prover # "none" => vdf # "none"
  /\ ~two_weso /\ vdf # "none" => OneStored
  /\ prover = "test" => stopped \/ iterations >= wanted_iter
  /\ prover \in {"prove", "finished", "check", "write"} => iterations >= wanted_iter

\* Session "T": the forms up to Dense are stored with the small step, those from
\* there with the large one, and nothing is stored beyond.
Dense == IF switch_iters = -1 THEN num_iterations ELSE switch_iters
LastSlot == IF switch_iters = -1 THEN num_iterations \div SmallStep
            ELSE switch_iters \div SmallStep + ((num_iterations - switch_iters) \div LargeStep)

Steps ==
  /\ kl = IF switch_iters = -1 THEN SmallStep ELSE LargeStep
  /\ switch_index = IF switch_iters = -1 \/ vdf = "index" THEN Unset ELSE switch_iters \div SmallStep
  /\ vdf = "index" => switch_iters = num_iterations
  /\ switch_iters # -1 => /\ switch_iters \in 0 .. num_iterations /\ SwitchIters <= switch_iters
                          /\ switch_iters % LargeStep = 0

TwoStored ==
  two_weso =>
    /\ \A k \in Nat : k * SmallStep <= Dense => two_forms[k] = k * SmallStep
    /\ switch_iters # -1 =>
         \A j \in Nat : switch_iters + j * LargeStep <= num_iterations =>
           two_forms[(switch_iters \div SmallStep) + j] = switch_iters + j * LargeStep
    /\ \A e \in Slots : e > LastSlot => two_forms[e] = Unset

\* What a request's threads have waited for.
TwoReady ==
  /\ \A n \in Asked, d \in 0 .. 1 : prover_of[n][d] = "run" => SegEnd(n, d) <= iterations
  /\ \A n \in Asked : req[n] = "prove2" => n <= iterations
  /\ \A n \in Asked, d \in 0 .. 2 :
       split[n][d] # Unset => split[n][d] = EndForm(n, d) \/ EndForm(n, d) = switch_iters

\* The pool: as many iterations are kept as there are threads, up to the limit.
Pool ==
  /\ Cardinality(seen) = IF Len(threads) < MaxProcesses THEN Len(threads) ELSE MaxProcesses
  /\ ~stopped => /\ \A n \in stop_vector, m \in seen : m < n
                 /\ Len(threads) < MaxProcesses => stop_vector = {}

\* How far the squarer may be when it notices that it has passed a limit: the
\* limits are only tested at checkpoints.
CheckpointAfter(limit) == (((limit - 1) \div Interval) + 1) * Interval
Furthest(limit) == CheckpointAfter(limit) + BatchSize - 1

Paced(limit) ==
  /\ vdf \in {"none", "batch"} => num_iterations < CheckpointAfter(limit)
  /\ vdf = "publish" => num_iterations <= Furthest(limit)
  /\ vdf \in {"none", "batch", "publish"} \/ num_iterations < limit =>
       last_checkpoint <= CheckpointAfter(limit)

Reach ==
  two_weso =>
    /\ Paced(Limit)
    /\ num_iterations <= Furthest(Limit) \/ num_iterations < Furthest(SwitchIters) + LargeStep
    /\ switch_iters = -1 => /\ Paced(SwitchIters) /\ num_iterations <= Furthest(SwitchIters)
                            /\ vdf = "limit" => num_iterations < SwitchIters
    /\ switch_iters # -1 => switch_iters < Furthest(SwitchIters) + LargeStep

Checkpoints == last_checkpoint % Interval = 0

\* The hypotheses.  The blocks of a prover are on the grid of the forms stored
\* when it reads them: a segment that ends beyond kSwitchIters is long enough for
\* l = 10.  And the room that the margin leaves is that for the dense forms.
BlocksOnGrid ==
  \A n \in Asked, d \in 0 .. 2 : \A b \in Blocks(n, d) : b >= SwitchIters => b % LargeStep = 0

SwitchedBy == (Furthest(SwitchIters) + LargeStep - 1) \div LargeStep
EndedBy == Furthest(Limit) \div LargeStep
Room ==
  /\ SwitchIters > 0 /\ Limit > 0
  /\ \A end \in {SwitchedBy, EndedBy} : (Ratio - 1) * SwitchedBy + end < Space

IInv == /\ TypeOK /\ Sessions /\ OneReady /\ Steps /\ TwoStored /\ TwoReady /\ Pool /\ Checkpoints

-----------------------------------------------------------------------------
(* Arithmetic of multiples.                                                *)

LEMMA Constants ==
  /\ BatchSize \in Nat \ {0} /\ Interval \in Nat \ {0} /\ MaxCounted \in Nat
  /\ SmallStep \in Nat \ {0} /\ Ratio \in Nat \ {0, 1} /\ LargeStep \in Nat \ {0}
  /\ LargeStep = SmallStep * Ratio /\ LargeStep # SmallStep
  /\ SwitchIters \in Nat /\ MaxIters \in Nat /\ Margin \in Nat /\ Limit \in Int /\ LongSegment \in Nat
<1>1. /\ BatchSize \in Nat \ {0} /\ Interval \in Nat \ {0} /\ MaxCounted \in Nat
      /\ SmallStep \in Nat \ {0} /\ Ratio \in Nat \ {0, 1}
      /\ SwitchIters \in Nat /\ MaxIters \in Nat /\ Margin \in Nat /\ LongSegment \in Nat
  BY SquaringAssumption, TwoWesoAssumption
<1>2. ASSUME NEW a \in Nat \ {0}, NEW b \in Nat \ {0, 1} PROVE a * b \in Nat \ {0} /\ a * b # a
  <2>1. b - 2 \in Nat /\ a * (b - 2) \in Nat /\ a * b = a + a + a * (b - 2)
    OBVIOUS
  <2> QED BY <2>1
<1> QED BY <1>1, <1>2 DEF LargeStep, Limit

LEMMA DivMod ==
  ASSUME NEW m \in Nat \ {0}, NEW v \in Nat
  PROVE  /\ v \div m \in Nat /\ v % m \in 0 .. m - 1
         /\ v = (v \div m) * m + (v % m)
<1>1. v \div m \in Nat
  OBVIOUS
<1>2. v % m \in 0 .. m - 1
  OBVIOUS
<1>3. v = (v \div m) * m + (v % m)
  OBVIOUS
<1> QED BY <1>1, <1>2, <1>3

LEMMA Product == \A a, b \in Nat : a * b \in Nat
OBVIOUS

LEMMA ProductOrder ==
  ASSUME NEW m \in Nat \ {0}, NEW a \in Nat, NEW b \in Nat, a < b
  PROVE  a * m + m <= b * m
<1>1. b - a - 1 \in Nat /\ (b - a - 1) * m \in Nat /\ b * m = a * m + m + (b - a - 1) * m
  OBVIOUS
<1> QED BY <1>1

\* What v \div m is.
LEMMA DivIs ==
  ASSUME NEW m \in Nat \ {0}, NEW v \in Nat, NEW k \in Nat, k * m <= v, v < k * m + m
  PROVE  v \div m = k
<1> DEFINE q == v \div m
<1>0. q \in Nat /\ v % m \in 0 .. m - 1 /\ v = q * m + (v % m)
  BY DivMod
<1> HIDE DEF q
<1>1. q \in Nat /\ q * m \in Nat /\ q * m <= v /\ v < q * m + m /\ k * m \in Nat
  BY <1>0, Product
<1>2. ~(q < k)
  <2> SUFFICES ASSUME q < k PROVE FALSE
    OBVIOUS
  <2>1. q * m + m <= k * m
    BY <1>1, ProductOrder
  <2> QED BY <1>1, <2>1
<1>3. ~(k < q)
  <2> SUFFICES ASSUME k < q PROVE FALSE
    OBVIOUS
  <2>1. k * m + m <= q * m
    BY <1>1, ProductOrder
  <2> QED BY <1>1, <2>1
<1>4. q = k
  BY <1>1, <1>2, <1>3
<1> QED BY <1>4 DEF q

LEMMA MultipleIs ==
  ASSUME NEW m \in Nat \ {0}, NEW k \in Nat
  PROVE  /\ k * m \in Nat /\ k <= k * m
         /\ (k * m) \div m = k /\ (k * m) % m = 0
<1>1. k * m \in Nat /\ m - 1 \in Nat /\ k * (m - 1) \in Nat /\ k * m = k + k * (m - 1)
  <2>1. m - 1 \in Nat
    OBVIOUS
  <2>2. k * m \in Nat /\ k * (m - 1) \in Nat
    BY <2>1, Product
  <2>3. k * m = k + k * (m - 1)
    OBVIOUS
  <2> QED BY <2>1, <2>2, <2>3
<1>2. (k * m) \div m = k
  <2> DEFINE v == k * m
  <2>1. v \in Nat /\ k * m <= v /\ v < k * m + m
    BY <1>1
  <2> QED BY <2>1, DivIs
<1>3. (k * m) % m = 0
  <2> DEFINE v == k * m
  <2>1. v \in Nat
    BY <1>1
  <2> HIDE DEF v
  <2>2. v % m \in 0 .. m - 1 /\ v = (v \div m) * m + (v % m)
    BY <2>1, DivMod
  <2>3. v \div m = k /\ v = k * m
    BY <1>2 DEF v
  <2>4. v = v + (v % m)
    BY <2>2, <2>3
  <2>5. v % m = 0
    BY <2>1, <2>2, <2>4
  <2> QED BY <2>5 DEF v
<1> QED BY <1>1, <1>2, <1>3

LEMMA Multiple ==
  ASSUME NEW m \in Nat \ {0}, NEW v \in Nat, v % m = 0
  PROVE  v \div m \in Nat /\ v = (v \div m) * m
<1>1. v \div m \in Nat /\ v = (v \div m) * m + 0
  BY DivMod
<1>2. (v \div m) * m \in Nat
  BY <1>1, Product
<1> QED BY <1>1, <1>2

LEMMA DivOrder ==
  ASSUME NEW m \in Nat \ {0}, NEW a \in Nat, NEW b \in Nat, a <= b
  PROVE  a \div m <= b \div m
<1> DEFINE p == a \div m
           q == b \div m
<1>1. /\ p \in Nat /\ a % m \in 0 .. m - 1 /\ a = p * m + (a % m)
      /\ q \in Nat /\ b % m \in 0 .. m - 1 /\ b = q * m + (b % m)
  BY DivMod
<1>2. ~(q < p)
  <2> HIDE DEF p, q
  <2> SUFFICES ASSUME q < p PROVE FALSE
    OBVIOUS
  <2>1. q * m + m <= p * m /\ p * m \in Nat /\ q * m \in Nat
    BY <1>1, ProductOrder, Product
  <2> QED BY <1>1, <2>1
<1> QED BY <1>1, <1>2

\* A multiple of the large step is one of the small step.
LEMMA OnBothGrids ==
  ASSUME NEW k \in Nat
  PROVE  /\ k * Ratio \in Nat /\ k * LargeStep = (k * Ratio) * SmallStep
         /\ (k * LargeStep) \div SmallStep = k * Ratio
         /\ (k * LargeStep) % SmallStep = 0
<1>1. k * Ratio \in Nat /\ k * LargeStep = (k * Ratio) * SmallStep
  BY Constants
<1> QED BY <1>1, Constants, MultipleIs


-----------------------------------------------------------------------------
(* The cases of a step.                                                    *)

LEMMA StepCases ==
  ASSUME [Next]_vars
  PROVE  \/ UNCHANGED vars
         \/ ReadProverType
         \/ /\ UNCHANGED twoVars
            /\ \/ ReadWanted \/ OneMain \/ ReadOneStop \/ Prover
               \/ ~two_weso /\ \/ \E n \in 1 .. BatchSize : SquareOne(n)
                               \/ PublishOne \/ EndOneVdf
         \/ /\ UNCHANGED oneVars
            /\ \/ TwoMain \/ ReadTwoStop
               \/ two_weso /\ \/ \E n \in 1 .. BatchSize : SquareTwo(n)
                              \/ PublishTwo \/ Switch \/ SetIndex \/ TestLimit \/ EndTwoVdf
               \/ \E n \in Asked : ReadIteration(n) \/ Request(n) \/ \E d \in 0 .. 1 : FinishOf(n, d)
BY DEF Next, OneNext, TwoNext, OneVdf, TwoVdf, Idle

\* What the squarer's own steps do to its position.
LEMMA RoundsUp ==
  ASSUME num_iterations \in Nat
  PROVE  /\ RoundUp \in 0 .. LargeStep - 1
         /\ (num_iterations + RoundUp) % LargeStep = 0
<1> DEFINE k == num_iterations \div LargeStep
           r == num_iterations % LargeStep
<1>1. k \in Nat /\ r \in 0 .. LargeStep - 1 /\ num_iterations = k * LargeStep + r
  BY Constants, DivMod
<1>2. LargeStep \in Nat \ {0} /\ k * LargeStep \in Nat /\ k + 1 \in Nat
  BY <1>1, Constants, Product
<1>3. RoundUp = (LargeStep - r) % LargeStep
  BY DEF RoundUp
<1> HIDE DEF k, r
<1>4. CASE r = 0
  <2>1. LargeStep % LargeStep = 0
    <3>1. (1 * LargeStep) % LargeStep = 0
      BY <1>2, MultipleIs
    <3> QED BY <1>2, <3>1
  <2>2. RoundUp = 0
    BY <1>2, <1>3, <1>4, <2>1
  <2>3. num_iterations + RoundUp = k * LargeStep
    BY <1>1, <1>2, <1>4, <2>2
  <2> QED BY <1>1, <1>2, <2>2, <2>3, MultipleIs
<1>5. CASE r # 0
  <2> DEFINE v == LargeStep - r
  <2>1. v \in 1 .. LargeStep - 1 /\ v \in Nat
    BY <1>1, <1>2, <1>5
  <2>2. v % LargeStep = v
    <3> HIDE DEF v
    <3>1. /\ v \div LargeStep \in Nat /\ v % LargeStep \in 0 .. LargeStep - 1
          /\ v = (v \div LargeStep) * LargeStep + (v % LargeStep)
      BY <1>2, <2>1, DivMod
    <3>2. v \div LargeStep = 0
      <4>1. 0 * LargeStep <= v /\ v < 0 * LargeStep + LargeStep
        BY <1>2, <2>1
      <4> QED BY <1>2, <2>1, <4>1, DivIs
    <3>3. v = 0 * LargeStep + (v % LargeStep)
      BY <3>1, <3>2
    <3> QED BY <1>2, <2>1, <3>1, <3>3
  <2>3. RoundUp = LargeStep - r
    BY <1>3, <2>2
  <2>4. (k + 1) * LargeStep = k * LargeStep + LargeStep
    BY <1>1, <1>2
  <2>5. num_iterations + RoundUp = (k + 1) * LargeStep
    BY <1>1, <1>2, <2>3, <2>4
  <2>6. ((k + 1) * LargeStep) % LargeStep = 0
    BY <1>2, MultipleIs
  <2> QED BY <1>1, <1>2, <1>5, <2>3, <2>5, <2>6
<1> QED BY <1>4, <1>5

LEMMA TypeStep == IInv /\ [Next]_vars => SquaringOK'
<1> SUFFICES ASSUME IInv, [Next]_vars PROVE SquaringOK'
  OBVIOUS
<1>0. /\ SquaringOK /\ MaxCounted \in Nat /\ Interval \in Nat /\ num_iterations \in Nat
      /\ BatchSize \in Nat
  BY Constants DEF IInv, TypeOK, SquaringOK
<1> USE DEF SquaringOK
<1>1. CASE UNCHANGED vars
  BY <1>0, <1>1 DEF vars, squaringVars, mainVars
<1>2. CASE ReadProverType
  BY <1>0, <1>2 DEF ReadProverType, squaringVars
<1>3. CASE ReadWanted
  BY <1>0, <1>3 DEF ReadWanted, squaringVars, StartVdf
<1>4. CASE OneMain \/ ReadOneStop \/ Prover
  BY <1>0, <1>4 DEF OneMain, JoinOneVdf, JoinProver, ReadOneStop, Prover, squaringVars, PollIterations,
                    TestStopped, Finish, Abandon, LeaveWait, CheckStopped, WriteProof, OnlyProver, mainVars
<1>5. CASE (\E n \in 1 .. BatchSize : SquareOne(n)) \/ \E n \in 1 .. BatchSize : SquareTwo(n)
  BY <1>0, <1>5 DEF SquareOne, SquareTwo, Batch, mainVars
<1>6. CASE PublishOne \/ PublishTwo
  BY <1>0, <1>6 DEF PublishOne, PublishTwo, Publish, mainVars
<1>7. CASE EndOneVdf \/ EndTwoVdf
  BY <1>0, <1>7 DEF EndOneVdf, EndTwoVdf, LeaveLoop, mainVars
<1>8. CASE TwoMain \/ ReadTwoStop
  BY <1>0, <1>8 DEF TwoMain, StartTwo, StartVdf, JoinThreads, JoinTwoVdf, ReadTwoStop, squaringVars
<1>9. CASE Switch
  <2>1. RoundUp \in Nat
    BY <1>0, Constants, RoundsUp
  <2> QED BY <1>0, <1>9, <2>1 DEF Switch, mainVars
<1>10. CASE SetIndex \/ TestLimit
  BY <1>0, <1>10 DEF SetIndex, TestLimit, mainVars
<1>11. CASE \E n \in Asked : ReadIteration(n) \/ Request(n) \/ \E d \in 0 .. 1 : FinishOf(n, d)
  BY <1>0, <1>11 DEF ReadIteration, Request, TakeEnd, ProveLast, JoinProverOf, ReturnStopped, WriteTwo,
                     FinishOf, OnlyRequest, squaringVars, mainVars
<1> QED BY StepCases, <1>1, <1>2, <1>3, <1>4, <1>5, <1>6, <1>7, <1>8, <1>9, <1>10, <1>11


LEMMA OneTypeStep == IInv /\ [Next]_vars => OneWesoOK'
<1> SUFFICES ASSUME IInv, [Next]_vars PROVE OneWesoOK'
  OBVIOUS
<1>0. OneWesoOK /\ Entries = 0 .. MaxCounted /\ 0 \in Entries /\ Wanted \subseteq Nat
  BY Constants, OneWesoAssumption DEF IInv, TypeOK, Entries
<1> USE DEF OneWesoOK
<1>1. CASE UNCHANGED vars \/ UNCHANGED oneVars
  BY <1>0, <1>1 DEF vars, oneVars, callbackVars, proverVars
<1>2. CASE ReadProverType
  BY <1>0, <1>2 DEF ReadProverType, oneVars, callbackVars, proverVars
<1>3. CASE ReadWanted
  <2>1. [forms EXCEPT ![0] = 0] \in [Entries -> 0 .. MaxCounted \cup {Nothing}]
    BY <1>0
  <2> QED BY <1>0, <1>3, <2>1 DEF ReadWanted
<1>4. CASE OneMain \/ ReadOneStop \/ Prover
  BY <1>0, <1>4 DEF OneMain, JoinOneVdf, JoinProver, ReadOneStop, Prover, oneVars, callbackVars, proverVars, PollIterations,
                    TestStopped, Finish, Abandon, LeaveWait, CheckStopped, WriteProof, OnlyProver
<1>5. ASSUME NEW n \in 1 .. BatchSize, SquareOne(n) PROVE OneWesoOK'
  <2>1. InBatch(n) \subseteq 0 .. MaxCounted
    BY <1>5, Constants DEF SquareOne, Batch, InBatch, IInv, TypeOK, SquaringOK
  <2>2. Stores(n) \subseteq 0 .. MaxCounted
    BY <2>1 DEF Stores
  <2>3. \A e \in Entries : (IF \E i \in Stores(n) : i \div KL(wanted_iter) = e
                            THEN CHOOSE i \in Stores(n) : i \div KL(wanted_iter) = e
                            ELSE forms[e]) \in 0 .. MaxCounted \cup {Nothing}
    BY <1>0, <2>2
  <2>4. forms' \in [Entries -> 0 .. MaxCounted \cup {Nothing}]
    BY <1>5, <2>3 DEF SquareOne
  <2>5. 0 \notin InBatch(n)
    BY DEF IInv, TypeOK, SquaringOK, InBatch
  <2> QED BY <1>0, <1>5, <2>4, <2>5 DEF SquareOne, proverVars
<1>6. CASE PublishOne \/ EndOneVdf
  BY <1>0, <1>6 DEF PublishOne, EndOneVdf, oneVars, callbackVars, proverVars
<1> QED BY StepCases, <1>1, <1>2, <1>3, <1>4, <1>5, <1>6

-----------------------------------------------------------------------------
(* What the listener stores.                                               *)

LEMMA MaxOfOne == \A x \in Int : Max({x}) = x
BY DEF Max

LEMMA DensePosition ==
  ASSUME switch_iters = -1, NEW i \in Nat, i % SmallStep = 0, NEW e \in Nat
  PROVE  Position(i) = e <=> i = e * SmallStep
<1>1. Position(i) = i \div SmallStep
  BY DEF Position
<1>2. i \div SmallStep \in Nat /\ i = (i \div SmallStep) * SmallStep
  BY Constants, Multiple
<1>3. (e * SmallStep) \div SmallStep = e
  BY Constants, MultipleIs
<1> QED BY <1>1, <1>2, <1>3

\* The distance of two multiples.
LEMMA Apart ==
  ASSUME NEW s \in Nat, s % LargeStep = 0, NEW i \in Nat, i % LargeStep = 0, s <= i
  PROVE  /\ (i - s) \div LargeStep \in Nat
         /\ i = s + ((i - s) \div LargeStep) * LargeStep
<1> DEFINE a == s \div LargeStep
           b == i \div LargeStep
<1>1. a \in Nat /\ s = a * LargeStep /\ b \in Nat /\ i = b * LargeStep /\ LargeStep \in Nat \ {0}
  BY Constants, Multiple
<1> HIDE DEF a, b
<1>2. a <= b
  <2> SUFFICES ASSUME b < a PROVE FALSE
    BY <1>1
  <2>1. b * LargeStep + LargeStep <= a * LargeStep /\ b * LargeStep \in Nat /\ a * LargeStep \in Nat
    BY <1>1, ProductOrder, Product
  <2> QED BY <1>1, <2>1
<1>3. b - a \in Nat /\ i - s = (b - a) * LargeStep
  BY <1>1, <1>2
<1>4. ((b - a) * LargeStep) \div LargeStep = b - a
  BY <1>1, <1>3, MultipleIs
<1>5. (i - s) \div LargeStep = b - a
  BY <1>3, <1>4
<1> QED BY <1>1, <1>3, <1>5

LEMMA SparsePosition ==
  ASSUME Steps, switch_iters # -1, vdf # "index", num_iterations \in Nat,
         NEW i \in Nat, i % LargeStep = 0, switch_iters <= i, NEW e \in Int
  PROVE  /\ switch_iters \div SmallStep \in Nat
         /\ Position(i) = e <=> /\ e - (switch_iters \div SmallStep) \in Nat
                               /\ i = switch_iters + (e - (switch_iters \div SmallStep)) * LargeStep
<1> DEFINE s == switch_iters
           q == s \div SmallStep
           j == (i - s) \div LargeStep
<1>1. s \in Nat /\ s % LargeStep = 0 /\ LargeStep \in Nat \ {0} /\ SmallStep \in Nat \ {0}
  BY Constants DEF Steps
<1>2. q \in Nat
  BY <1>1, DivMod
<1>3. ~(i < s)
  BY <1>1
<1>4. Position(i) = q + j
  BY <1>1, <1>3 DEF Position, Steps
<1>5. j \in Nat /\ i = s + j * LargeStep
  BY <1>1, Apart
<1>6. ASSUME NEW d \in Nat, i = s + d * LargeStep PROVE d = j
  <2>1. i - s = d * LargeStep
    BY <1>1, <1>6, Product
  <2>2. (d * LargeStep) \div LargeStep = d
    BY <1>1, MultipleIs
  <2> QED BY <2>1, <2>2
<1> HIDE DEF j, q, s
<1>7. Position(i) = e <=> e - q \in Nat /\ i = s + (e - q) * LargeStep
  <2>1. CASE Position(i) = e
    <3>1. e - q = j
      BY <1>2, <1>4, <1>5, <2>1
    <3> QED BY <1>5, <2>1, <3>1
  <2>2. CASE e - q \in Nat /\ i = s + (e - q) * LargeStep
    <3>1. e - q = j
      BY <1>6, <2>2
    <3> QED BY <1>2, <1>4, <1>5, <2>2, <3>1
  <2> QED BY <2>1, <2>2
<1> QED BY <1>2, <1>7 DEF q, s

\* The entry e after the iterations up to m, for either step.
StoredIn(e) == IF switch_iters = -1 THEN e * SmallStep
               ELSE switch_iters + (e - (switch_iters \div SmallStep)) * LargeStep
Belongs(e) == switch_iters = -1 \/ e >= switch_iters \div SmallStep

LEMMA StoreIs ==
  ASSUME TypeOK, Steps, vdf # "index",
         NEW m \in num_iterations .. MaxCounted, Store(num_iterations + 1 .. m)
  PROVE  /\ two_forms' \in [Slots -> 0 .. MaxCounted \cup {Unset}]
         /\ \A e \in Slots :
              two_forms'[e] = IF Belongs(e) /\ StoredIn(e) \in num_iterations + 1 .. m
                              THEN StoredIn(e) ELSE two_forms[e]
<1> DEFINE I == num_iterations + 1 .. m
           stored == {i \in I : i % kl = 0}
           At(e) == {i \in stored : Position(i) = e}
<1>0. /\ num_iterations \in Nat /\ MaxCounted \in Nat /\ Slots = 0 .. MaxCounted
      /\ two_forms \in [Slots -> 0 .. MaxCounted \cup {Unset}] /\ I \subseteq 0 .. MaxCounted
  BY Constants DEF TypeOK, SquaringOK, TwoWesoOK, Slots
<1>1. two_forms' = [e \in Slots |-> IF \E i \in stored : Position(i) = e THEN Max(At(e)) ELSE two_forms[e]]
  BY DEF Store
<1>2. ASSUME NEW e \in Slots, NEW i \in I
      PROVE  (i % kl = 0 /\ Position(i) = e) <=> Belongs(e) /\ i = StoredIn(e)
  <2>0. i \in Nat /\ e \in Nat /\ LargeStep \in Nat \ {0} /\ SmallStep \in Nat \ {0}
    BY <1>0, Constants
  <2>1. CASE switch_iters = -1
    <3>1. (e * SmallStep) % SmallStep = 0
      BY <2>0, MultipleIs
    <3>2. i % SmallStep = 0 => (Position(i) = e <=> i = e * SmallStep)
      BY <2>0, <2>1, DensePosition
    <3> QED BY <2>1, <3>1, <3>2 DEF Belongs, StoredIn, Steps
  <2>2. CASE switch_iters # -1
    <3> DEFINE s == switch_iters
               q == s \div SmallStep
    <3>0. s \in 0 .. num_iterations /\ s % LargeStep = 0 /\ s <= i /\ s \in Nat
      BY <1>0, <2>0, <2>2 DEF Steps
    <3>1. s \in 0 .. num_iterations /\ s % LargeStep = 0 /\ s <= i /\ s \in Nat /\ q \in Nat
      BY <2>0, <3>0, DivMod
    <3>2. i % LargeStep = 0 => (Position(i) = e <=> e - q \in Nat /\ i = s + (e - q) * LargeStep)
      BY <1>0, <2>0, <2>2, <3>1, SparsePosition
    <3>3. ASSUME e - q \in Nat, i = s + (e - q) * LargeStep PROVE i % LargeStep = 0
      <4> DEFINE a == s \div LargeStep
                 d == e - q
      <4>1. a \in Nat /\ s = a * LargeStep
        BY <2>0, <3>1, Multiple
      <4>2. d \in Nat /\ i = s + d * LargeStep
        BY <3>3
      <4> HIDE DEF a, d
      <4>3. a + d \in Nat /\ i = (a + d) * LargeStep
        BY <2>0, <4>1, <4>2
      <4>4. ((a + d) * LargeStep) % LargeStep = 0
        BY <2>0, <4>3, MultipleIs
      <4> QED BY <4>3, <4>4
    <3>4. e - q \in Nat <=> e >= q
      BY <2>0, <3>1
    <3> QED BY <2>2, <3>2, <3>3, <3>4 DEF Belongs, StoredIn, Steps
  <2> QED BY <2>1, <2>2
<1>3. ASSUME NEW e \in Slots
      PROVE  (IF \E i \in stored : Position(i) = e THEN Max(At(e)) ELSE two_forms[e])
               = IF Belongs(e) /\ StoredIn(e) \in I THEN StoredIn(e) ELSE two_forms[e]
  <2>1. CASE Belongs(e) /\ StoredIn(e) \in I
    <3>1. At(e) = {StoredIn(e)}
      BY <1>2, <2>1
    <3>2. StoredIn(e) \in Int
      BY <1>0, <2>1
    <3>3. Max(At(e)) = StoredIn(e)
      BY <3>1, <3>2, MaxOfOne
    <3>4. \E i \in stored : Position(i) = e
      BY <3>1
    <3> QED BY <2>1, <3>3, <3>4
  <2>2. CASE ~(Belongs(e) /\ StoredIn(e) \in I)
    <3>1. ~\E i \in stored : Position(i) = e
      BY <1>2, <2>2
    <3> QED BY <2>2, <3>1
  <2> QED BY <2>1, <2>2
<1> HIDE DEF I, stored, At
<1>4. \A e \in Slots : two_forms'[e] = IF Belongs(e) /\ StoredIn(e) \in I THEN StoredIn(e) ELSE two_forms[e]
  BY <1>1, <1>3
<1>5. two_forms' \in [Slots -> 0 .. MaxCounted \cup {Unset}]
  <2> DEFINE value(e) == IF \E i \in stored : Position(i) = e THEN Max(At(e)) ELSE two_forms[e]
  <2>1. ASSUME NEW e \in Slots PROVE value(e) \in 0 .. MaxCounted \cup {Unset}
    <3>1. value(e) = IF Belongs(e) /\ StoredIn(e) \in I THEN StoredIn(e) ELSE two_forms[e]
      BY <1>3
    <3> HIDE DEF value
    <3>2. two_forms[e] \in 0 .. MaxCounted \cup {Unset}
      BY <1>0
    <3> QED BY <1>0, <3>1, <3>2
  <2>2. two_forms' = [e \in Slots |-> value(e)]
    BY <1>1
  <2> HIDE DEF value
  <2> QED BY <2>1, <2>2
<1> QED BY <1>4, <1>5 DEF I


-----------------------------------------------------------------------------
(* The sessions and their types.                                           *)

LEMMA LeastNat ==
  ASSUME NEW S, S \subseteq Nat, S # {}
  PROVE  \E x \in S : \A m \in S : x <= m
<1>1. PICK x \in S : \A m \in S : ~(<<m, x>> \in OpToRel(<, Nat))
  BY NatLessThanWellFounded, WFMin, Zenon
<1>2. \A m \in S : ~(m < x)
  BY <1>1 DEF OpToRel
<1> QED BY <1>2

\* A finite set of numbers has a greatest one: a smallest set without one would
\* not be the smallest.
LEMMA GreatestOf ==
  ASSUME NEW S, S \subseteq Nat, IsFiniteSet(S), S # {}
  PROVE  \E x \in S : \A m \in S : m <= x
<1> DEFINE HasMax(A) == \E x \in A : \A m \in A : m <= x
           Bad == {A \in SUBSET S : A # {} /\ ~HasMax(A)}
           Sizes == {Cardinality(A) : A \in Bad}
<1>1. SUFFICES ASSUME Bad # {} PROVE FALSE
  BY <1>1
<1>2. \A A \in Bad : IsFiniteSet(A) /\ Cardinality(A) \in Nat /\ A # {} /\ A \subseteq Nat
  BY FS_Subset, FS_CardinalityType
<1>3. PICK c \in Sizes : \A s \in Sizes : c <= s
  <2>1. Sizes \subseteq Nat /\ Sizes # {}
    <3> HIDE DEF Bad
    <3> QED BY <1>1, <1>2
  <2> HIDE DEF Sizes
  <2> QED BY <2>1, LeastNat
<1>4. PICK A \in Bad : Cardinality(A) = c
  OBVIOUS
<1>5. PICK a \in A : TRUE
  BY <1>2
<1> DEFINE B == A \ {a}
<1>6. IsFiniteSet(B) /\ Cardinality(B) = Cardinality(A) - 1 /\ Cardinality(A) \in Nat
  BY <1>2, <1>5, FS_RemoveElement
<1>7. B # {}
  <2> SUFFICES ASSUME B = {} PROVE FALSE
    OBVIOUS
  <2>1. A = {a} /\ a \in Nat
    BY <1>2, <1>5
  <2>2. HasMax(A)
    BY <2>1
  <2> QED BY <2>2
<1>8. HasMax(B)
  <2> SUFFICES ASSUME ~HasMax(B) PROVE FALSE
    OBVIOUS
  <2>1. B \in Bad
    BY <1>7
  <2>2. c <= Cardinality(B)
    BY <1>3, <2>1
  <2> QED BY <1>4, <1>6, <2>2
<1>9. PICK b \in B : \A m \in B : m <= b
  BY <1>8
<1>10. a \in Nat /\ b \in Nat /\ \A m \in A : m \in Nat
  BY <1>2, <1>5, <1>9
<1>11. CASE a <= b
  <2>1. \A m \in A : m <= b
    BY <1>9, <1>11
  <2> QED BY <1>9, <2>1
<1>12. CASE ~(a <= b)
  <2>1. \A m \in A : m <= a
    BY <1>9, <1>10, <1>12
  <2> QED BY <1>5, <2>1
<1> QED BY <1>11, <1>12

LEMMA PoolFinite ==
  ASSUME TypeOK, Pool, Len(threads) >= MaxProcesses
  PROVE  /\ IsFiniteSet(seen) /\ seen # {} /\ Max(seen) \in seen
         /\ \A m \in seen : m <= Max(seen)
<1>1. seen \subseteq Asked /\ Asked \subseteq Nat /\ IsFiniteSet(Asked)
  BY TwoWesoAssumption DEF TypeOK, TwoWesoOK, Range
<1>2. IsFiniteSet(seen)
  BY <1>1, FS_Subset
<1>3. MaxProcesses \in Nat \ {0} /\ Len(threads) \in Nat
  BY TwoWesoAssumption DEF TypeOK, TwoWesoOK
<1>4. seen # {}
  BY <1>3, FS_EmptySet DEF Pool
<1>5. \E x \in seen : \A m \in seen : m <= x
  BY <1>1, <1>2, <1>4, GreatestOf
<1>6. \E x \in seen : \A m \in seen : x >= m
  BY <1>1, <1>5
<1>7. Max(seen) \in seen /\ \A m \in seen : Max(seen) >= m
  BY <1>6 DEF Max
<1> QED BY <1>1, <1>2, <1>4, <1>7


-----------------------------------------------------------------------------
(* The segments of a request, and the forms that are read.                 *)

LEMMA TwoThirdsIs ==
  ASSUME NEW len \in Nat
  PROVE  /\ TwoThirds(len) \in Nat /\ TwoThirds(len) % LargeStep = 0
         /\ 3 * TwoThirds(len) <= 2 * len /\ 2 * len < 3 * TwoThirds(len) + 3 * LargeStep
<1> DEFINE x == (len * 2) \div 3
           k == x \div LargeStep
           r == x % LargeStep
<1>1. x \in Nat /\ 3 * x <= 2 * len /\ 2 * len <= 3 * x + 2
  OBVIOUS
<1>2. k \in Nat /\ r \in 0 .. LargeStep - 1 /\ x = k * LargeStep + r /\ LargeStep \in Nat \ {0}
  <2> HIDE DEF x
  <2> QED BY <1>1, Constants, DivMod
<1>3. TwoThirds(len) = x - r
  BY DEF TwoThirds
<1>4. k * LargeStep \in Nat /\ (k * LargeStep) % LargeStep = 0
  BY <1>2, MultipleIs
<1> HIDE DEF x, k, r
<1>5. TwoThirds(len) = k * LargeStep
  BY <1>2, <1>3, <1>4
<1>6. /\ 3 * (k * LargeStep) <= 2 * len /\ 2 * len < 3 * (k * LargeStep) + 3 * LargeStep
  BY <1>1, <1>2, <1>4
<1> QED BY <1>4, <1>5, <1>6

LEMMA SumOfMultiples ==
  ASSUME NEW a \in Nat, NEW b \in Nat, a % LargeStep = 0, b % LargeStep = 0
  PROVE  (a + b) % LargeStep = 0
<1> DEFINE k == a \div LargeStep
           j == b \div LargeStep
<1>1. k \in Nat /\ a = k * LargeStep /\ j \in Nat /\ b = j * LargeStep /\ LargeStep \in Nat \ {0}
  BY Constants, Multiple
<1> HIDE DEF k, j
<1>2. a + b = (k + j) * LargeStep /\ k + j \in Nat
  BY <1>1
<1>3. ((k + j) * LargeStep) % LargeStep = 0
  BY <1>1, <1>2, MultipleIs
<1> QED BY <1>2, <1>3

\* The three segments follow one another; all but the last end on the large grid.
LEMMA SegmentsAre ==
  ASSUME NEW n \in Nat
  PROVE  /\ \A d \in 0 .. 2 : /\ SegStart(n, d) \in Nat /\ SegStart(n, d) % LargeStep = 0
                             /\ SegEnd(n, d) \in Nat /\ SegStart(n, d) <= SegEnd(n, d) /\ SegEnd(n, d) <= n
                             /\ EndForm(n, d) \in Nat /\ EndForm(n, d) % LargeStep = 0
                             /\ EndForm(n, d) <= SegEnd(n, d)
                             /\ SegLength(n, d) \in Nat /\ SegLength(n, d) = SegEnd(n, d) - SegStart(n, d)
         /\ SegEnd(n, 2) = n
         /\ LargeStep <= LongSegment /\ 9 * LongSegment <= n =>
              \A d \in 0 .. 2 : SegLength(n, d) >= LongSegment
<1> DEFINE T == TwoThirds(n)
           rest == n - T
           U == TwoThirds(rest)
<1>1. T \in Nat /\ T % LargeStep = 0 /\ 3 * T <= 2 * n /\ 2 * n < 3 * T + 3 * LargeStep
  BY TwoThirdsIs
<1>2. rest \in Nat
  <2> HIDE DEF T
  <2> QED BY <1>1
<1>3. U \in Nat /\ U % LargeStep = 0 /\ 3 * U <= 2 * rest /\ 2 * rest < 3 * U + 3 * LargeStep
  <2> HIDE DEF rest
  <2> QED BY <1>2, TwoThirdsIs
<1>4. /\ SegStart(n, 0) = 0 /\ SegStart(n, 1) = T /\ SegStart(n, 2) = T + U
      /\ SegEnd(n, 0) = T /\ SegEnd(n, 1) = T + U /\ SegEnd(n, 2) = n
  BY DEF SegStart, SegEnd
<1>5. /\ EndForm(n, 0) = T /\ EndForm(n, 1) = T + U /\ EndForm(n, 2) = n - (n % LargeStep)
  BY <1>4 DEF EndForm
<1>6. /\ n - (n % LargeStep) \in Nat /\ (n - (n % LargeStep)) % LargeStep = 0 /\ n - (n % LargeStep) <= n
  <2> DEFINE k == n \div LargeStep
             r == n % LargeStep
  <2>1. k \in Nat /\ r \in 0 .. LargeStep - 1 /\ n = k * LargeStep + r /\ LargeStep \in Nat \ {0}
    BY Constants, DivMod
  <2>2. k * LargeStep \in Nat /\ (k * LargeStep) % LargeStep = 0
    BY <2>1, MultipleIs
  <2> HIDE DEF k, r
  <2>3. n - r = k * LargeStep /\ n - r <= n
    BY <2>1, <2>2
  <2> QED BY <2>2, <2>3 DEF r
<1>7. (T + U) % LargeStep = 0
  <2> HIDE DEF T, U
  <2> QED BY <1>1, <1>3, SumOfMultiples
<1>8. 0 % LargeStep = 0
  <2>1. (0 * LargeStep) % LargeStep = 0 /\ 0 * LargeStep = 0
    BY Constants, MultipleIs
  <2> QED BY <2>1
<1>9. /\ SegLength(n, 0) = T /\ SegLength(n, 1) = U /\ SegLength(n, 2) = n - (T + U)
  <2> HIDE DEF T, U
  <2>1. SegLength(n, 0) = T - 0 /\ SegLength(n, 1) = (T + U) - T /\ SegLength(n, 2) = n - (T + U)
    BY <1>4 DEF SegLength
  <2> QED BY <1>1, <1>3, <2>1
<1>10. T <= T + U /\ T + U <= n /\ T + U \in Nat /\ n - (T + U) \in Nat /\ T <= n
  <2>1. rest = n - T
    OBVIOUS
  <2> HIDE DEF T, U, rest
  <2> QED BY <1>1, <1>2, <1>3, <2>1
<1>11. LargeStep <= LongSegment /\ 9 * LongSegment <= n =>
         T >= LongSegment /\ U >= LongSegment /\ n - (T + U) >= LongSegment
  <2>1. rest = n - T /\ LongSegment \in Nat /\ LargeStep \in Nat
    BY Constants
  <2> HIDE DEF T, U, rest
  <2> QED BY <1>1, <1>2, <1>3, <2>1
<1> HIDE DEF T, U, rest
<1>12. \A d \in 0 .. 2 : d = 0 \/ d = 1 \/ d = 2
  OBVIOUS
<1>13. \A d \in 0 .. 2 : /\ SegStart(n, d) \in Nat /\ SegStart(n, d) % LargeStep = 0
                         /\ SegEnd(n, d) \in Nat /\ SegStart(n, d) <= SegEnd(n, d) /\ SegEnd(n, d) <= n
  BY <1>1, <1>3, <1>4, <1>7, <1>8, <1>10, <1>12
<1>14. \A d \in 0 .. 2 : EndForm(n, d) \in Nat /\ EndForm(n, d) % LargeStep = 0 /\ EndForm(n, d) <= SegEnd(n, d)
  BY <1>1, <1>3, <1>4, <1>5, <1>6, <1>7, <1>10, <1>12
<1>15. \A d \in 0 .. 2 : SegLength(n, d) \in Nat /\ SegLength(n, d) = SegEnd(n, d) - SegStart(n, d)
  BY <1>1, <1>3, <1>4, <1>9, <1>10, <1>12
<1>16. LargeStep <= LongSegment /\ 9 * LongSegment <= n =>
         \A d \in 0 .. 2 : SegLength(n, d) >= LongSegment
  BY <1>9, <1>11, <1>12
<1> QED BY <1>4, <1>13, <1>14, <1>15, <1>16

\* The entry of an iteration that was stored, once the index is set.
LEMMA FormAt ==
  ASSUME TypeOK, Steps, TwoStored, two_weso, NEW b \in Nat, b <= num_iterations, b % SmallStep = 0,
         switch_iters # -1 /\ b >= switch_iters => b % LargeStep = 0 /\ vdf # "index"
  PROVE  Positions(b) = {Position(b)} /\ Position(b) \in Slots /\ two_forms[Position(b)] = b
<1>0. /\ SmallStep \in Nat \ {0} /\ LargeStep \in Nat \ {0} /\ num_iterations \in 0 .. MaxCounted
      /\ MaxCounted \in Nat
  BY Constants DEF TypeOK, SquaringOK
<1> DEFINE k == b \div SmallStep
<1>1. k \in Nat /\ b = k * SmallStep /\ k <= b
  <2>1. k \in Nat /\ b = k * SmallStep
    BY <1>0, Multiple
  <2> HIDE DEF k
  <2> QED BY <1>0, <2>1, MultipleIs
<1>2. CASE switch_iters = -1 \/ b < switch_iters
  <2>1. Position(b) = k
    BY <1>2 DEF Position
  <2>2. b <= Dense
    <3>1. switch_iters # -1 => switch_iters \in Nat
      BY <1>0 DEF Steps
    <3> QED BY <1>0, <1>2, <3>1 DEF Dense
  <2> HIDE DEF k
  <2>3. two_forms[k] = b
    BY <1>1, <2>2 DEF TwoStored
  <2>4. ~(switch_iters # -1 /\ b >= switch_iters)
    <3>1. switch_iters # -1 => switch_iters \in Nat
      BY <1>0 DEF Steps
    <3> QED BY <1>0, <1>2, <3>1
  <2>5. k \in Slots
    BY <1>0, <1>1 DEF Slots
  <2> QED BY <2>1, <2>3, <2>4, <2>5 DEF Positions
<1>3. CASE switch_iters # -1 /\ ~(b < switch_iters)
  <2> DEFINE s == switch_iters
             q == s \div SmallStep
             j == (b - s) \div LargeStep
  <2>1. s \in Nat /\ s % LargeStep = 0 /\ s <= b /\ b % LargeStep = 0 /\ vdf # "index"
    BY <1>0, <1>3 DEF Steps
  <2>2. j \in Nat /\ b = s + j * LargeStep
    BY <1>0, <2>1, Apart
  <2>3. q \in Nat /\ q <= s
    <3> DEFINE v == s
    <3>1. v \in Nat
      BY <2>1
    <3> HIDE DEF v
    <3>2. v \div SmallStep \in Nat /\ v % SmallStep \in 0 .. SmallStep - 1
          /\ v = (v \div SmallStep) * SmallStep + (v % SmallStep)
      BY <1>0, <3>1, DivMod
    <3>3. (v \div SmallStep) <= (v \div SmallStep) * SmallStep /\ (v \div SmallStep) * SmallStep \in Nat
      BY <1>0, <3>2, MultipleIs
    <3>4. v \div SmallStep <= v
      BY <1>0, <3>2, <3>3
    <3> QED BY <3>2, <3>4 DEF v
  <2>4. Position(b) = q + j
    BY <1>3, <2>1 DEF Position, Steps
  <2>5. Positions(b) = {Position(b)}
    <3>1. switch_index = q
      BY <1>3, <2>1 DEF Steps
    <3>2. switch_index # Unset
      <4> HIDE DEF q
      <4> QED BY <2>3, <3>1 DEF Unset
    <3> QED BY <3>2 DEF Positions
  <2> HIDE DEF j
  <2>6. two_forms[q + j] = b
    BY <1>3, <2>2 DEF TwoStored
  <2>7. j <= j * LargeStep /\ j * LargeStep \in Nat
    BY <1>0, <2>2, MultipleIs
  <2> HIDE DEF q, s
  <2>8. q + j \in Slots
    BY <1>0, <2>1, <2>2, <2>3, <2>7 DEF Slots
  <2> QED BY <2>4, <2>5, <2>6, <2>8
<1> QED BY <1>2, <1>3


-----------------------------------------------------------------------------
(* Every step keeps the invariant.                                         *)

\* A wait for the end of a segment takes a form that was stored.
LEMMA EndTaken ==
  ASSUME IInv, NEW n \in Asked, NEW d \in 0 .. 2, two_weso, iterations >= SegEnd(n, d),
         NEW p \in Positions(EndForm(n, d))
  PROVE  two_forms[p] \in 0 .. MaxCounted \cup {Unset} /\
         (two_forms[p] = EndForm(n, d) \/ EndForm(n, d) = switch_iters)
<1> DEFINE b == EndForm(n, d)
<1>1. /\ n \in Nat /\ iterations \in 0 .. num_iterations /\ num_iterations \in 0 .. MaxCounted /\ MaxCounted \in Nat
      /\ two_forms \in [Slots -> 0 .. MaxCounted \cup {Unset}]
  BY Constants, TwoWesoAssumption DEF IInv, TypeOK, SquaringOK, TwoWesoOK
<1>2. /\ b \in Nat /\ b % LargeStep = 0 /\ b <= SegEnd(n, d) /\ SegEnd(n, d) \in Nat
  BY <1>1, SegmentsAre
<1> HIDE DEF b
<1>3. b <= iterations /\ b <= num_iterations
  BY <1>1, <1>2
<1>4. b % SmallStep = 0
  <2> DEFINE k == b \div LargeStep
  <2>1. k \in Nat /\ b = k * LargeStep
    BY <1>2, Constants, Multiple
  <2> HIDE DEF k
  <2> QED BY <2>1, OnBothGrids
<1>5. CASE switch_iters # -1 /\ b >= switch_iters /\ vdf = "index"
  <2>1. b = switch_iters
    BY <1>1, <1>2, <1>3, <1>5 DEF IInv, Steps
  <2>2. p \in Slots
    <3>1. switch_index = Unset
      BY <1>5 DEF IInv, Steps
    <3> QED BY <1>5, <3>1 DEF Positions, Unset, b
  <2> QED BY <1>1, <2>1, <2>2 DEF b
<1>6. CASE ~(switch_iters # -1 /\ b >= switch_iters /\ vdf = "index")
  <2>1. Positions(b) = {Position(b)} /\ Position(b) \in Slots /\ two_forms[Position(b)] = b
    BY <1>2, <1>3, <1>4, <1>6, FormAt DEF IInv
  <2>2. p = Position(b)
    BY <2>1 DEF b
  <2>3. two_forms[p] = b /\ p \in Slots
    BY <2>1, <2>2
  <2> QED BY <1>1, <2>3 DEF b
<1> QED BY <1>5, <1>6

\* Only a request of session "T" has a thread.
LEMMA RequestsOfTwo ==
  ASSUME IInv, NEW n \in Asked, req[n] # "none" \/ \E d \in 0 .. 1 : prover_of[n][d] # "none"
  PROVE  two_weso /\ vdf # "none"
BY DEF IInv, Sessions, TwoUntouched, TypeOK, SquaringOK

LEMMA TakeEndType ==
  ASSUME IInv, NEW n \in Asked, NEW d \in 0 .. 2, TakeEnd(n, d)
  PROVE  TwoWesoOK'
<1>0. TwoWesoOK
  BY DEF IInv, TypeOK
<1>1. d = 0 \/ d = 1 \/ d = 2
  OBVIOUS
<1>2. req[n] # "none"
  BY <1>1 DEF TakeEnd, Wait
<1>3. two_weso
  BY <1>2, RequestsOfTwo
<1>4. PICK p \in Positions(EndForm(n, d)) : split' = [split EXCEPT ![n][d] = two_forms[p]]
  BY DEF TakeEnd
<1>5. two_forms[p] \in 0 .. MaxCounted \cup {Unset}
  BY <1>3, EndTaken DEF TakeEnd
<1>6. split' \in [Asked -> [0 .. 2 -> 0 .. MaxCounted \cup {Unset}]]
  BY <1>0, <1>4, <1>5 DEF TwoWesoOK
<1>7. prover_of' \in [Asked -> [0 .. 1 -> {"none", "run", "finished", "abandoned"}]]
  <2>1. d < 2 => d \in 0 .. 1
    BY <1>1
  <2> QED BY <1>0, <2>1 DEF TakeEnd, TwoWesoOK
<1>8. (IF d < 2 THEN Wait[d + 2] ELSE "prove2") \in {"wait1", "wait2", "prove2"}
  BY <1>1 DEF Wait
<1>9. req' \in [Asked -> {"none", "wait0", "wait1", "wait2", "prove2", "join1", "join0", "write", "exit"}]
  BY <1>0, <1>8 DEF TakeEnd, Goto, TwoWesoOK
<1> QED BY <1>0, <1>6, <1>7, <1>9 DEF TakeEnd, OnlyRequest, squaringVars, mainVars, listenerVars, acceptVars, TwoWesoOK

LEMMA RangeAppend ==
  ASSUME NEW S, NEW s \in Seq(S), NEW x \in S
  PROVE  Append(s, x) \in Seq(S) /\ Len(Append(s, x)) = Len(s) + 1
         /\ Range(Append(s, x)) = Range(s) \cup {x} /\ Len(s) \in Nat
<1>1. /\ Append(s, x) \in Seq(S) /\ Len(Append(s, x)) = Len(s) + 1 /\ Len(s) \in Nat
      /\ \A i \in 1 .. Len(s) : Append(s, x)[i] = s[i]
      /\ Append(s, x)[Len(s) + 1] = x
  OBVIOUS
<1>2. DOMAIN Append(s, x) = 1 .. Len(s) + 1 /\ DOMAIN s = 1 .. Len(s)
  BY <1>1
<1>3. \A y : y \in Range(Append(s, x)) <=> y \in Range(s) \cup {x}
  <2>1. 1 .. Len(s) + 1 = (1 .. Len(s)) \cup {Len(s) + 1}
    BY <1>1
  <2> QED BY <1>1, <1>2, <2>1 DEF Range
<1> QED BY <1>1, <1>3

LEMMA TwoTypeStep == IInv /\ [Next]_vars => TwoWesoOK'
<1> SUFFICES ASSUME IInv, [Next]_vars PROVE TwoWesoOK'
  OBVIOUS
<1>0. /\ TwoWesoOK /\ SquaringOK /\ Slots = 0 .. MaxCounted /\ MaxCounted \in Nat
      /\ SmallStep \in Nat \ {0} /\ LargeStep \in Nat \ {0}
  BY Constants DEF IInv, TypeOK, Slots
<1>1. CASE UNCHANGED vars \/ UNCHANGED twoVars
  BY <1>0, <1>1 DEF vars, twoVars, listenerVars, acceptVars, requestVars, TwoWesoOK
<1>2. CASE ReadProverType
  BY <1>0, <1>2 DEF ReadProverType, twoVars, listenerVars, acceptVars, requestVars, TwoWesoOK
<1>3. CASE TwoMain
  BY <1>0, <1>3 DEF TwoMain, StartTwo, JoinThreads, JoinTwoVdf, twoVars, listenerVars, acceptVars, requestVars, TwoWesoOK
<1>4. CASE ReadTwoStop
  BY <1>0, <1>4 DEF ReadTwoStop, listenerVars, requestVars, TwoWesoOK
<1>5. ASSUME NEW n \in 1 .. BatchSize, SquareTwo(n) PROVE TwoWesoOK'
  <2>1. vdf # "index" /\ num_iterations + n \in num_iterations .. MaxCounted /\ Store(num_iterations + 1 .. num_iterations + n)
    BY <1>0, <1>5, Constants DEF SquareTwo, Batch, InBatch, SquaringOK
  <2>2. two_forms' \in [Slots -> 0 .. MaxCounted \cup {Unset}]
    BY <2>1, StoreIs DEF IInv
  <2> QED BY <1>0, <1>5, <2>2 DEF SquareTwo, acceptVars, requestVars, TwoWesoOK
<1>6. CASE PublishTwo \/ TestLimit \/ EndTwoVdf
  BY <1>0, <1>6 DEF PublishTwo, TestLimit, EndTwoVdf, twoVars, listenerVars, acceptVars, requestVars, TwoWesoOK
<1>7. CASE Switch
  <2>1. RoundUp \in Nat
    BY <1>0, Constants, RoundsUp DEF SquaringOK
  <2>2. CASE num_iterations >= SwitchIters /\ kl # LargeStep
    <3>1. vdf # "index" /\ num_iterations + RoundUp \in num_iterations .. MaxCounted /\ Store(num_iterations + 1 .. num_iterations + RoundUp)
      BY <1>0, <1>7, <2>1, <2>2 DEF Switch, SquaringOK
    <3>2. two_forms' \in [Slots -> 0 .. MaxCounted \cup {Unset}]
      BY <3>1, StoreIs DEF IInv
    <3> QED BY <1>0, <1>7, <2>2, <3>1, <3>2 DEF Switch, acceptVars, requestVars, TwoWesoOK, SquaringOK
  <2>3. CASE ~(num_iterations >= SwitchIters /\ kl # LargeStep)
    BY <1>0, <1>7, <2>3 DEF Switch, acceptVars, requestVars, TwoWesoOK
  <2> QED BY <2>2, <2>3
<1>8. CASE SetIndex
  <2>1. num_iterations \div SmallStep \in Slots
    <3> DEFINE q == num_iterations \div SmallStep
               r == num_iterations % SmallStep
    <3>0. num_iterations \in 0 .. MaxCounted /\ num_iterations \in Nat
      BY <1>0 DEF SquaringOK
    <3>1. q \in Nat /\ r \in 0 .. SmallStep - 1 /\ num_iterations = q * SmallStep + r
      BY <1>0, <3>0, DivMod
    <3> HIDE DEF q, r
    <3>2. q <= q * SmallStep /\ q * SmallStep \in Nat
      BY <1>0, <3>1, MultipleIs
    <3>3. q \in 0 .. MaxCounted
      BY <1>0, <3>0, <3>1, <3>2
    <3> QED BY <1>0, <3>3 DEF q
  <2> QED BY <1>0, <1>8, <2>1 DEF SetIndex, acceptVars, requestVars, TwoWesoOK
<1>9. ASSUME NEW n \in Asked, ReadIteration(n) PROVE TwoWesoOK'
  <2>1. /\ threads' \in Seq(Asked) /\ Range(threads') = Range(threads) \cup {n}
    BY <1>0, <1>9, RangeAppend DEF ReadIteration, TwoWesoOK
  <2>2. Len(threads) >= MaxProcesses => Max(seen) \in seen
    BY PoolFinite DEF IInv
  <2>3. seen' \subseteq Range(threads') /\ stop_vector' \subseteq Range(threads')
    BY <1>0, <1>9, <2>1, <2>2 DEF ReadIteration, Evicted, TwoWesoOK
  <2> QED BY <1>0, <1>9, <2>1, <2>3 DEF ReadIteration, Goto, listenerVars, TwoWesoOK
<1>10. ASSUME NEW n \in Asked, Request(n) PROVE TwoWesoOK'
  <2>1. CASE \E d \in 0 .. 2 : TakeEnd(n, d)
    BY <2>1, TakeEndType
  <2>2. CASE ProveLast(n) \/ ReturnStopped(n) \/ WriteTwo(n) \/ \E d \in 0 .. 1 : JoinProverOf(n, d)
    <3>1. \E pc \in {"join1", "join0", "write", "exit"} : Goto(n, pc)
      BY <2>2 DEF ProveLast, ReturnStopped, WriteTwo, JoinProverOf
    <3>2. req' \in [Asked -> {"none", "wait0", "wait1", "wait2", "prove2", "join1", "join0", "write", "exit"}]
      BY <1>0, <3>1 DEF Goto, TwoWesoOK
    <3>3. sent' \subseteq Asked
      BY <1>0, <2>2 DEF ProveLast, ReturnStopped, WriteTwo, JoinProverOf, TwoWesoOK
    <3>4. UNCHANGED <<listenerVars, acceptVars, split, prover_of, mainVars, squaringVars>>
      BY <2>2 DEF ProveLast, ReturnStopped, WriteTwo, JoinProverOf, OnlyRequest
    <3> QED BY <1>0, <3>2, <3>3, <3>4 DEF listenerVars, acceptVars, TwoWesoOK
  <2> QED BY <1>10, <2>1, <2>2 DEF Request
<1>11. ASSUME NEW n \in Asked, NEW d \in 0 .. 1, FinishOf(n, d) PROVE TwoWesoOK'
  <2>1. prover_of' \in [Asked -> [0 .. 1 -> {"none", "run", "finished", "abandoned"}]]
    <3>1. PICK v \in {"finished", "abandoned"} : prover_of' = [prover_of EXCEPT ![n][d] = v]
      BY <1>11 DEF FinishOf
    <3> QED BY <1>0, <3>1 DEF TwoWesoOK
  <2> QED BY <1>0, <1>11, <2>1 DEF FinishOf, OnlyRequest, listenerVars, acceptVars, TwoWesoOK
<1> QED BY StepCases, <1>1, <1>2, <1>3, <1>4, <1>5, <1>6, <1>7, <1>8, <1>9, <1>10, <1>11

LEMMA SessionsStep == IInv /\ [Next]_vars => Sessions'
<1> SUFFICES ASSUME IInv, [Next]_vars PROVE Sessions'
  OBVIOUS
<1>0. Sessions /\ SquaringOK
  BY DEF IInv, TypeOK
<1> USE DEF Sessions, SessionPcs
<1>1. CASE UNCHANGED vars
  BY <1>0, <1>1 DEF vars, oneVars, proverVars, twoVars, squaringVars, mainVars, TwoUntouched, listenerVars, acceptVars, requestVars
<1>2. CASE UNCHANGED twoVars /\ (ReadProverType \/ ReadWanted \/ OneMain \/ ReadOneStop \/ Prover
                                 \/ (~two_weso /\ ((\E n \in 1 .. BatchSize : SquareOne(n)) \/ PublishOne \/ EndOneVdf)))
  <2>1. TwoUntouched => TwoUntouched'
    BY <1>2 DEF TwoUntouched, twoVars, listenerVars, acceptVars, requestVars
  <2>2. CASE ReadProverType
    BY <1>0, <2>1, <2>2 DEF ReadProverType, squaringVars, oneVars, proverVars
  <2>3. CASE ReadWanted
    BY <1>0, <2>1, <2>3 DEF ReadWanted, StartVdf, squaringVars
  <2>4. CASE OneMain \/ ReadOneStop
    BY <1>0, <2>1, <2>4 DEF OneMain, JoinOneVdf, JoinProver, ReadOneStop, squaringVars, oneVars, proverVars
  <2>5. CASE Prover
    BY <1>0, <2>1, <2>5 DEF Prover, PollIterations, TestStopped, Finish, Abandon, LeaveWait, CheckStopped,
                            WriteProof, OnlyProver, squaringVars, mainVars
  <2>6. CASE ~two_weso /\ \E n \in 1 .. BatchSize : SquareOne(n)
    BY <1>0, <2>1, <2>6 DEF SquareOne, Batch, mainVars, proverVars
  <2>7. CASE ~two_weso /\ (PublishOne \/ EndOneVdf)
    BY <1>0, <2>1, <2>7 DEF PublishOne, EndOneVdf, Publish, LeaveLoop, mainVars, oneVars, proverVars
  <2> QED BY <1>2, <2>2, <2>3, <2>4, <2>5, <2>6, <2>7
<1>3. CASE UNCHANGED oneVars /\ (TwoMain \/ ReadTwoStop)
  <2>1. CASE StartTwo
    BY <1>0, <1>3, <2>1 DEF StartTwo, StartVdf, oneVars, proverVars
  <2>2. CASE JoinThreads \/ JoinTwoVdf
    BY <1>0, <1>3, <2>2 DEF JoinThreads, JoinTwoVdf, squaringVars, oneVars, proverVars
  <2>3. CASE ReadTwoStop
    BY <1>0, <1>3, <2>3 DEF ReadTwoStop, squaringVars, oneVars, proverVars
  <2> QED BY <1>3, <2>1, <2>2, <2>3 DEF TwoMain
<1>4. CASE /\ UNCHANGED oneVars /\ two_weso
           /\ (\E n \in 1 .. BatchSize : SquareTwo(n)) \/ PublishTwo \/ Switch \/ SetIndex \/ TestLimit \/ EndTwoVdf
  <2>1. vdf # "none" /\ vdf' # "none" /\ UNCHANGED mainVars
    BY <1>4 DEF SquareTwo, Batch, PublishTwo, Publish, Switch, SetIndex, TestLimit, EndTwoVdf, LeaveLoop
  <2> QED BY <1>0, <1>4, <2>1 DEF mainVars, oneVars, proverVars
<1>5. CASE UNCHANGED oneVars /\ \E n \in Asked : ReadIteration(n) \/ Request(n) \/ \E d \in 0 .. 1 : FinishOf(n, d)
  <2>1. UNCHANGED <<squaringVars, mainVars>>
    BY <1>5 DEF ReadIteration, Request, TakeEnd, ProveLast, JoinProverOf, ReturnStopped, WriteTwo, FinishOf, OnlyRequest
  <2>2. PICK n \in Asked : ReadIteration(n) \/ Request(n) \/ \E d \in 0 .. 1 : FinishOf(n, d)
    BY <1>5
  <2>3. CASE ReadIteration(n)
    <3>1. two_weso /\ vdf # "none"
      BY <1>0, <2>3 DEF ReadIteration
    <3> QED BY <1>0, <1>5, <2>1, <3>1 DEF squaringVars, mainVars, oneVars, proverVars
  <2>4. CASE Request(n) \/ \E d \in 0 .. 1 : FinishOf(n, d)
    <3>1. req[n] # "none" \/ \E d \in 0 .. 1 : prover_of[n][d] # "none"
      BY <2>4 DEF Request, TakeEnd, Wait, ProveLast, JoinProverOf, ReturnStopped, WriteTwo, FinishOf
    <3>2. two_weso /\ vdf # "none"
      BY <3>1, RequestsOfTwo
    <3> QED BY <1>0, <1>5, <2>1, <3>2 DEF squaringVars, mainVars, oneVars, proverVars
  <2> QED BY <2>2, <2>3, <2>4
<1>6. ReadProverType => UNCHANGED twoVars
  BY DEF ReadProverType
<1> HIDE DEF Sessions, SessionPcs
<1> QED BY StepCases, <1>1, <1>2, <1>3, <1>4, <1>5, <1>6

LEMMA CheckpointsStep == IInv /\ [Next]_vars => Checkpoints'
<1> SUFFICES ASSUME IInv, [Next]_vars PROVE Checkpoints'
  OBVIOUS
<1>0. Checkpoints /\ last_checkpoint \in Nat /\ Interval \in Nat \ {0}
  BY Constants DEF IInv, TypeOK, SquaringOK
<1>1. last_checkpoint' \in {last_checkpoint, last_checkpoint + Interval}
  BY StepCases DEF vars, squaringVars, ReadProverType, ReadWanted, StartVdf, OneMain, JoinOneVdf, JoinProver, ReadOneStop,
     Prover, PollIterations, TestStopped, Finish, Abandon, LeaveWait, CheckStopped, WriteProof, OnlyProver,
     SquareOne, Batch, PublishOne, Publish, EndOneVdf, LeaveLoop, TwoMain, StartTwo, JoinThreads, JoinTwoVdf,
     ReadTwoStop, SquareTwo, PublishTwo, Switch, SetIndex, TestLimit, EndTwoVdf, ReadIteration, Request, TakeEnd,
     ProveLast, JoinProverOf, ReturnStopped, WriteTwo, FinishOf, OnlyRequest
<1>2. (last_checkpoint + Interval) % Interval = 0
  <2> DEFINE k == last_checkpoint \div Interval
  <2>1. k \in Nat /\ last_checkpoint = k * Interval
    BY <1>0, Multiple DEF Checkpoints
  <2> HIDE DEF k
  <2>2. last_checkpoint + Interval = (k + 1) * Interval
    BY <1>0, <2>1
  <2>3. ((k + 1) * Interval) % Interval = 0
    BY <1>0, <2>1, MultipleIs
  <2> QED BY <2>2, <2>3
<1> QED BY <1>0, <1>1, <1>2 DEF Checkpoints

LEMMA PoolStep == IInv /\ [Next]_vars => Pool'
<1> SUFFICES ASSUME IInv, [Next]_vars PROVE Pool'
  OBVIOUS
<1>0. /\ Pool /\ SquaringOK /\ TwoWesoOK /\ MaxProcesses \in Nat \ {0}
      /\ seen \subseteq Asked /\ Asked \subseteq Nat /\ IsFiniteSet(seen)
      /\ stop_vector \subseteq Asked /\ threads \in Seq(Asked)
  <2>1. seen \subseteq Asked /\ stop_vector \subseteq Asked /\ threads \in Seq(Asked)
    BY DEF IInv, TypeOK, TwoWesoOK, Range
  <2> QED BY <2>1, TwoWesoAssumption, FS_Subset DEF IInv, TypeOK
<1>1. CASE UNCHANGED acceptVars /\ (stopped' = stopped \/ stopped')
  BY <1>0, <1>1 DEF Pool, acceptVars
<1>2. CASE ReadTwoStop
  BY <1>0, <1>2 DEF ReadTwoStop, Pool
<1>3. ASSUME NEW n \in Asked, ReadIteration(n) PROVE Pool'
  <2>1. /\ threads' = Append(threads, n) /\ Len(threads') = Len(threads) + 1 /\ Len(threads) \in Nat
        /\ stopped' = stopped /\ n \notin seen
        /\ Len(threads) < MaxProcesses \/ \A m \in seen : n < m
    BY <1>0, <1>3, RangeAppend DEF ReadIteration, mainVars, Welcome
  <2>2. IsFiniteSet(seen \cup {n}) /\ Cardinality(seen \cup {n}) = Cardinality(seen) + 1 /\ Cardinality(seen) \in Nat
    BY <1>0, <2>1, FS_AddElement, FS_CardinalityType
  <2>3. CASE Len(threads) < MaxProcesses
    <3>1. seen' = seen \cup {n} /\ stop_vector' = stop_vector
      BY <1>0, <1>3, <2>1, <2>3 DEF ReadIteration
    <3>2. Cardinality(seen) = Len(threads) /\ (~stopped => stop_vector = {})
      BY <1>0, <2>3 DEF Pool
    <3> QED BY <1>0, <2>1, <2>2, <2>3, <3>1, <3>2 DEF Pool
  <2>4. CASE Len(threads) >= MaxProcesses
    <3> DEFINE top == Max(seen)
    <3>1. seen' = (seen \cup {n}) \ {top} /\ stop_vector' = stop_vector \cup {top}
      BY <1>0, <1>3, <2>1, <2>4 DEF ReadIteration, Evicted
    <3>2. top \in seen /\ \A m \in seen : m <= top
      BY <1>0, <2>4, PoolFinite DEF IInv
    <3> HIDE DEF top
    <3>3. Cardinality(seen') = Cardinality(seen)
      <4>1. Cardinality((seen \cup {n}) \ {top}) = Cardinality(seen \cup {n}) - 1
        BY <2>2, <3>2, FS_RemoveElement
      <4> QED BY <2>2, <3>1, <4>1
    <3>4. \A m \in seen : n < m
      BY <1>0, <2>1, <2>4
    <3>5. ~stopped => \A x \in stop_vector, m \in seen : m < x
      BY <1>0 DEF Pool
    <3>6. n < top /\ top \in Nat /\ n \in Nat
      BY <1>0, <3>2, <3>4
    <3>7. ASSUME ~stopped, NEW x \in stop_vector', NEW m \in seen' PROVE m < x
      <4>1. CASE x = top
        BY <1>0, <3>1, <3>2, <3>6, <4>1
      <4>2. CASE x # top /\ m # n
        BY <1>0, <3>1, <3>5, <3>7, <4>2
      <4>3. CASE x # top /\ m = n
        <5>1. x \in stop_vector /\ top < x
          BY <3>1, <3>2, <3>5, <3>7, <4>3
        <5> QED BY <1>0, <3>6, <4>3, <5>1
      <4> QED BY <4>1, <4>2, <4>3
    <3> QED BY <1>0, <2>1, <2>4, <3>3, <3>7 DEF Pool
  <2> QED BY <1>0, <2>1, <2>3, <2>4
<1>4. CASE \/ UNCHANGED vars \/ ReadProverType
           \/ /\ UNCHANGED twoVars
              /\ \/ ReadWanted \/ OneMain \/ ReadOneStop \/ Prover
                 \/ (\E n \in 1 .. BatchSize : SquareOne(n)) \/ PublishOne \/ EndOneVdf
  BY <1>1, <1>4 DEF vars, twoVars, mainVars, ReadProverType, ReadWanted, OneMain, JoinOneVdf, JoinProver, ReadOneStop,
     Prover, PollIterations, TestStopped, Finish, Abandon, LeaveWait, CheckStopped, WriteProof, OnlyProver,
     SquareOne, PublishOne, EndOneVdf
<1>5. CASE TwoMain \/ (\E n \in 1 .. BatchSize : SquareTwo(n)) \/ PublishTwo \/ Switch \/ SetIndex \/ TestLimit \/ EndTwoVdf
  BY <1>1, <1>5 DEF twoVars, mainVars, TwoMain, StartTwo, JoinThreads, JoinTwoVdf, SquareTwo, PublishTwo, Switch, SetIndex,
     TestLimit, EndTwoVdf
<1>6. CASE \E n \in Asked : Request(n) \/ \E d \in 0 .. 1 : FinishOf(n, d)
  BY <1>1, <1>6 DEF mainVars, Request, TakeEnd, ProveLast, JoinProverOf, ReturnStopped, WriteTwo, FinishOf, OnlyRequest
<1> QED BY StepCases, <1>2, <1>3, <1>4, <1>5, <1>6

LEMMA KLType == \A w \in Nat : KL(w) \in Nat \ {0}
<1> SUFFICES ASSUME NEW w \in Nat PROVE KL(w) \in Nat \ {0}
  OBVIOUS
<1>1. \A a, b \in Nat \ {0} : a * b \in Nat \ {0}
  <2> SUFFICES ASSUME NEW a \in Nat \ {0}, NEW b \in Nat \ {0} PROVE a * b \in Nat \ {0}
    OBVIOUS
  <2>1. a <= a * b /\ a * b \in Nat
    BY MultipleIs
  <2> QED BY <2>1
<1>2. K \in Nat \ {0} /\ L \in Nat \ {0} /\ ShortK \in Nat \ {0}
  BY OneWesoAssumption
<1>3. KL(w) = K * L \/ KL(w) = ShortK * 1
  BY DEF KL, Params
<1> QED BY <1>1, <1>2, <1>3

\* A batch of session "S" stores the forms on its way, and the result.
LEMMA SquareOneStores ==
  ASSUME IInv, OneStored, NEW n \in 1 .. BatchSize, SquareOne(n)
  PROVE  OneStored'
<1> DEFINE m == KL(wanted_iter)
<1>0. /\ SquaringOK /\ OneWesoOK /\ Entries = 0 .. MaxCounted /\ MaxCounted \in Nat /\ BatchSize \in Nat
      /\ wanted_iter \in Wanted /\ Wanted \subseteq Nat /\ num_iterations \in Nat /\ n \in Nat
  BY Constants, OneWesoAssumption DEF IInv, TypeOK, Entries, OneStored, SquaringOK
<1>1. m \in Nat \ {0}
  BY <1>0, KLType
<1>2. /\ wanted_iter' = wanted_iter /\ num_iterations' = num_iterations + n /\ num_iterations + n <= MaxCounted
      /\ forms' = [e \in Entries |->
                     IF \E i \in Stores(n) : i \div m = e
                     THEN CHOOSE i \in Stores(n) : i \div m = e
                     ELSE forms[e]]
      /\ result' = IF wanted_iter \in InBatch(n) THEN wanted_iter ELSE result
  BY DEF SquareOne, Batch
<1>3. \A i : i \in Stores(n) <=> i \in num_iterations + 1 .. num_iterations + n /\ i % m = 0 /\ i <= wanted_iter
  BY DEF Stores, InBatch
<1>4. \A k \in Nat : k * m <= num_iterations /\ k * m <= wanted_iter => forms[k] = k * m
  BY DEF OneStored
<1>5. KL(wanted_iter)' = m
  BY <1>2 DEF KL, Params
<1> HIDE DEF m
<1>6. ASSUME NEW k \in Nat, k * m <= num_iterations + n, k * m <= wanted_iter
      PROVE  forms'[k] = k * m
  <2> DEFINE v == k * m
  <2>1. v \in Nat /\ k <= v /\ v \div m = k /\ v % m = 0
    BY <1>1, MultipleIs
  <2>2. \A i \in Stores(n) : i \div m = k => i = v
    <3> SUFFICES ASSUME NEW i \in Stores(n), i \div m = k PROVE i = v
      OBVIOUS
    <3>1. i \in Nat /\ i % m = 0
      BY <1>0, <1>3
    <3>2. i = (i \div m) * m
      BY <1>1, <3>1, Multiple
    <3> QED BY <3>2
  <2>3. k \in Entries
    <3> HIDE DEF v
    <3>1. v <= num_iterations + n
      BY <1>6 DEF v
    <3> QED BY <1>0, <1>2, <2>1, <3>1
  <2>4. CASE v <= num_iterations
    <3>1. v \notin Stores(n)
      <4> HIDE DEF v
      <4> QED BY <1>0, <1>3, <2>1, <2>4
    <3>2. ~\E i \in Stores(n) : i \div m = k
      BY <2>2, <3>1
    <3>3. forms'[k] = forms[k]
      BY <1>2, <2>3, <3>2
    <3> QED BY <1>4, <1>6, <2>4, <3>3
  <2>5. CASE ~(v <= num_iterations)
    <3>1. v \in Stores(n)
      <4>1. v <= num_iterations + n /\ v <= wanted_iter
        BY <1>6
      <4> HIDE DEF v
      <4>2. v \in num_iterations + 1 .. num_iterations + n
        BY <1>0, <2>1, <2>5, <4>1
      <4> QED BY <1>3, <2>1, <4>1, <4>2
    <3> HIDE DEF v
    <3>2. (CHOOSE i \in Stores(n) : i \div m = k) = v
      BY <2>1, <2>2, <3>1
    <3>3. forms'[k] = v
      BY <1>2, <2>1, <2>3, <3>1, <3>2
    <3> QED BY <3>3 DEF v
  <2> QED BY <2>4, <2>5
<1>7. num_iterations + n >= wanted_iter => result' = wanted_iter
  BY <1>0, <1>2 DEF InBatch, OneStored
<1> QED BY <1>0, <1>2, <1>5, <1>6, <1>7 DEF OneStored

LEMMA OneReadyStep == IInv /\ [Next]_vars => OneReady'
<1> SUFFICES ASSUME IInv, [Next]_vars PROVE OneReady'
  OBVIOUS
<1>0. OneReady /\ Sessions /\ SquaringOK /\ OneWesoOK /\ Wanted \subseteq Nat \ {0} /\ MaxCounted \in Nat
  BY Constants, OneWesoAssumption DEF IInv, TypeOK
<1>1. UNCHANGED <<wanted_iter, forms, result, num_iterations>> => OneStored' = OneStored
  BY DEF OneStored, KL, Params
<1>2. CASE UNCHANGED vars \/ ReadProverType
  BY <1>0, <1>1, <1>2 DEF vars, squaringVars, mainVars, oneVars, callbackVars, proverVars, ReadProverType, OneReady, Sessions
<1>3. CASE ReadWanted
  <2>1. CASE UNCHANGED <<squaringVars, wanted_iter, forms, prover>>
    BY <1>0, <1>1, <1>3, <2>1 DEF ReadWanted, squaringVars, OneReady, Sessions
  <2>2. CASE \E w \in Wanted :
               /\ wanted_iter' = w /\ forms' = [forms EXCEPT ![0] = 0] /\ StartVdf
               /\ prover' = "poll" /\ session' = "readOneStop"
    <3>1. PICK w \in Wanted :
               /\ wanted_iter' = w /\ forms' = [forms EXCEPT ![0] = 0] /\ StartVdf
               /\ prover' = "poll" /\ session' = "readOneStop"
      BY <2>2
    <3>2. num_iterations' = 0 /\ vdf' = "batch" /\ w \in Nat \ {0}
      BY <1>0, <1>3, <3>1 DEF ReadWanted, StartVdf, Sessions
    <3>3. forms'[0] = 0
      BY <1>0, <3>1 DEF OneWesoOK, Entries
    <3>4. ASSUME NEW k \in Nat, k * KL(w) <= 0 PROVE forms'[k] = k * KL(w)
      <4>1. k * KL(w) \in Nat /\ k <= k * KL(w)
        BY <3>2, KLType, MultipleIs
      <4>2. k = 0 /\ k * KL(w) = 0
        BY <3>4, <4>1
      <4> QED BY <3>3, <4>2
    <3>5. KL(wanted_iter)' = KL(w)
      BY <3>1 DEF KL, Params
    <3>6. OneStored'
      BY <3>1, <3>2, <3>4, <3>5 DEF OneStored
    <3> QED BY <3>1, <3>2, <3>6 DEF OneReady
  <2> QED BY <1>3, <2>1, <2>2 DEF ReadWanted
<1>4. CASE OneMain \/ ReadOneStop
  BY <1>0, <1>1, <1>4 DEF OneMain, JoinOneVdf, JoinProver, ReadOneStop, squaringVars, mainVars, oneVars, callbackVars,
                          proverVars, OneReady, Sessions
<1>5. CASE Prover
  BY <1>0, <1>1, <1>5 DEF Prover, PollIterations, TestStopped, Finish, Abandon, LeaveWait, CheckStopped, WriteProof,
                          OnlyProver, squaringVars, mainVars, callbackVars, OneReady
<1>6. ASSUME ~two_weso, NEW n \in 1 .. BatchSize, SquareOne(n) PROVE OneReady'
  <2>1. OneStored'
    BY <1>0, <1>6, SquareOneStores DEF SquareOne, Batch, OneReady
  <2> QED BY <1>0, <1>6, <2>1 DEF SquareOne, Batch, mainVars, proverVars, OneReady
<1>7. CASE ~two_weso /\ (PublishOne \/ EndOneVdf)
  <2>1. iterations' >= iterations
    BY <1>0, <1>7 DEF PublishOne, Publish, EndOneVdf, LeaveLoop, SquaringOK
  <2>2. wanted_iter \in Nat /\ iterations \in Nat /\ iterations' \in Nat
    BY <1>0, <1>7, OneWesoAssumption DEF PublishOne, Publish, EndOneVdf, LeaveLoop, SquaringOK, OneWesoOK
  <2> QED BY <1>0, <1>1, <1>7, <2>1, <2>2 DEF PublishOne, Publish, EndOneVdf, LeaveLoop, mainVars, oneVars, callbackVars,
                                        proverVars, OneReady
<1>8. CASE two_weso /\ UNCHANGED oneVars /\ [Next]_vars
  <2>1. (two_weso' /\ vdf' # "none") \/ UNCHANGED <<vdf, num_iterations, two_weso>>
    BY StepCases, <1>8 DEF vars, squaringVars, mainVars, ReadProverType, ReadWanted, StartVdf, OneMain, JoinOneVdf, JoinProver,
      ReadOneStop, Prover, PollIterations, TestStopped, Finish, Abandon, LeaveWait, CheckStopped, WriteProof, OnlyProver,
      TwoMain, StartTwo, JoinThreads, JoinTwoVdf, ReadTwoStop, SquareTwo, Batch, PublishTwo, Publish, Switch, SetIndex,
      TestLimit, EndTwoVdf, LeaveLoop, ReadIteration, Request, TakeEnd, ProveLast, JoinProverOf, ReturnStopped, WriteTwo,
      FinishOf, OnlyRequest
  <2> QED BY <1>0, <1>1, <1>8, <2>1 DEF OneReady, oneVars, callbackVars, proverVars, Sessions
<1>9. CASE UNCHANGED oneVars /\ (TwoMain \/ ReadTwoStop)
  <2>1. two_weso
    BY <1>0, <1>9 DEF TwoMain, StartTwo, JoinThreads, JoinTwoVdf, ReadTwoStop, Sessions
  <2> QED BY <1>8, <1>9, <2>1
<1>10. ASSUME UNCHANGED oneVars, NEW n \in Asked, ReadIteration(n) \/ Request(n) \/ \E d \in 0 .. 1 : FinishOf(n, d) PROVE OneReady'
  <2>1. two_weso
    <3>1. CASE ReadIteration(n)
      BY <1>0, <3>1 DEF ReadIteration, Sessions
    <3>2. CASE Request(n) \/ \E d \in 0 .. 1 : FinishOf(n, d)
      <4>1. req[n] # "none" \/ \E d \in 0 .. 1 : prover_of[n][d] # "none"
        BY <3>2 DEF Request, TakeEnd, Wait, ProveLast, JoinProverOf, ReturnStopped, WriteTwo, FinishOf
      <4> QED BY <4>1, RequestsOfTwo
    <3> QED BY <1>10, <3>1, <3>2
  <2> QED BY <1>8, <1>10, <2>1
<1> QED BY StepCases, <1>2, <1>3, <1>4, <1>5, <1>6, <1>7, <1>8, <1>9, <1>10

\* What the squarer does to the steps, and that nobody else touches them.
LEMMA Listens ==
  ASSUME IInv, [Next]_vars
  PROVE  \/ UNCHANGED <<num_iterations, two_weso, listenerVars>> /\ vdf # "index" /\ vdf' # "index"
         \/ UNCHANGED <<num_iterations, two_weso, listenerVars, vdf>>
         \/ ReadProverType
         \/ ~two_weso /\ UNCHANGED <<two_weso, listenerVars>> /\ vdf # "index" /\ vdf' # "index"
         \/ two_weso /\ ((\E n \in 1 .. BatchSize : SquareTwo(n)) \/ Switch \/ SetIndex)
<1>1. CASE (UNCHANGED twoVars /\ (ReadWanted \/ OneMain \/ ReadOneStop \/ Prover)) \/ TwoMain \/ ReadTwoStop
  BY <1>1 DEF twoVars, listenerVars, squaringVars, mainVars, ReadWanted, StartVdf, OneMain, JoinOneVdf, JoinProver,
      ReadOneStop, Prover, PollIterations, TestStopped, Finish, Abandon, LeaveWait, CheckStopped, WriteProof, OnlyProver,
      TwoMain, StartTwo, JoinThreads, JoinTwoVdf, ReadTwoStop
<1>2. ASSUME NEW n \in Asked, ReadIteration(n) \/ Request(n) \/ \E d \in 0 .. 1 : FinishOf(n, d)
      PROVE  UNCHANGED <<num_iterations, two_weso, listenerVars, vdf>>
  BY <1>2 DEF listenerVars, squaringVars, mainVars, ReadIteration, Request, TakeEnd, ProveLast, JoinProverOf, ReturnStopped,
      WriteTwo, FinishOf, OnlyRequest
<1>3. CASE /\ UNCHANGED twoVars /\ ~two_weso
           /\ (\E n \in 1 .. BatchSize : SquareOne(n)) \/ PublishOne \/ EndOneVdf
  BY <1>3 DEF SquareOne, Batch, PublishOne, Publish, EndOneVdf, LeaveLoop, twoVars, listenerVars, mainVars
<1>4. CASE PublishTwo \/ TestLimit \/ EndTwoVdf
  BY <1>4 DEF PublishTwo, Publish, TestLimit, EndTwoVdf, LeaveLoop, twoVars, listenerVars, mainVars
<1>5. CASE UNCHANGED vars
  BY <1>5 DEF vars, squaringVars, mainVars, twoVars, listenerVars
<1> QED BY StepCases, <1>1, <1>2, <1>3, <1>4, <1>5

LEMMA StepsStep == IInv /\ [Next]_vars => Steps'
<1> SUFFICES ASSUME IInv, [Next]_vars PROVE Steps'
  OBVIOUS
<1>0. /\ Steps /\ SquaringOK /\ Sessions /\ num_iterations \in Nat /\ BatchSize \in Nat /\ LargeStep # SmallStep
      /\ SwitchIters \in Nat
  BY Constants DEF IInv, TypeOK, SquaringOK
<1>1. CASE UNCHANGED <<num_iterations, listenerVars>> /\ (UNCHANGED vdf \/ (vdf # "index" /\ vdf' # "index"))
  BY <1>0, <1>1 DEF listenerVars, Steps
<1>2. CASE ReadProverType
  BY <1>1, <1>2 DEF ReadProverType, squaringVars, twoVars, listenerVars
<1>3. CASE ~two_weso /\ UNCHANGED <<two_weso, listenerVars>> /\ vdf # "index" /\ vdf' # "index"
  <2>1. switch_iters = -1 /\ switch_iters' = -1
    BY <1>0, <1>3 DEF Sessions, TwoUntouched, listenerVars
  <2> QED BY <1>0, <1>3, <2>1 DEF Steps, listenerVars
<1>4. CASE \E n \in 1 .. BatchSize : SquareTwo(n)
  BY <1>0, <1>4 DEF SquareTwo, Batch, Steps
<1>5. CASE Switch
  <2>1. CASE num_iterations >= SwitchIters /\ kl # LargeStep
    <3>1. RoundUp \in Nat /\ (num_iterations + RoundUp) % LargeStep = 0
      BY <1>0, Constants, RoundsUp
    <3>2. /\ switch_iters = -1 /\ kl' = LargeStep /\ switch_iters' = num_iterations + RoundUp /\ vdf' = "index"
          /\ num_iterations' = num_iterations + RoundUp /\ switch_index' = switch_index
      BY <1>0, <1>5, <2>1 DEF Switch, Steps
    <3>3. switch_iters' \in Nat /\ SwitchIters <= switch_iters' /\ switch_iters' # -1
      BY <1>0, <2>1, <3>1, <3>2
    <3> QED BY <1>0, <3>1, <3>2, <3>3 DEF Steps
  <2>2. CASE ~(num_iterations >= SwitchIters /\ kl # LargeStep)
    BY <1>0, <1>5, <2>2 DEF Switch, Steps
  <2> QED BY <2>1, <2>2
<1>6. CASE SetIndex
  <2>1. switch_iters = num_iterations /\ switch_iters # -1
    BY <1>0, <1>6 DEF SetIndex, Steps
  <2> QED BY <1>0, <1>6, <2>1 DEF SetIndex, Steps
<1> QED BY Listens, <1>1, <1>2, <1>3, <1>4, <1>5, <1>6

\* The forms are stored densely up to m.
LEMMA DenseStored ==
  ASSUME IInv, two_weso, switch_iters = -1, vdf # "index",
         NEW m \in num_iterations .. MaxCounted, Store(num_iterations + 1 .. m)
  PROVE  /\ \A k \in Nat : k * SmallStep <= m => two_forms'[k] = k * SmallStep
         /\ \A e \in Slots : e > m \div SmallStep => two_forms'[e] = Unset
<1>0. /\ SmallStep \in Nat \ {0} /\ MaxCounted \in Nat /\ Slots = 0 .. MaxCounted /\ num_iterations \in Nat
      /\ m \in Nat /\ num_iterations <= m /\ m <= MaxCounted
  BY Constants DEF IInv, TypeOK, SquaringOK, Slots
<1>1. \A e \in Slots : two_forms'[e] = IF e * SmallStep \in num_iterations + 1 .. m THEN e * SmallStep ELSE two_forms[e]
  BY StoreIs DEF IInv, Belongs, StoredIn
<1>2. \A k \in Nat : k * SmallStep <= num_iterations => two_forms[k] = k * SmallStep
  BY DEF IInv, TwoStored, Dense
<1>3. \A e \in Slots : e > num_iterations \div SmallStep => two_forms[e] = Unset
  BY DEF IInv, TwoStored, LastSlot
<1>4. ASSUME NEW k \in Nat, k * SmallStep <= m PROVE two_forms'[k] = k * SmallStep
  <2> DEFINE v == k * SmallStep
  <2>1. v \in Nat /\ k <= v /\ v <= m
    BY <1>0, <1>4, MultipleIs
  <2>2. k \in Slots /\ (v <= num_iterations => two_forms[k] = v)
    <3>1. v <= num_iterations => two_forms[k] = v
      BY <1>2
    <3> HIDE DEF v
    <3> QED BY <1>0, <2>1, <3>1
  <2>3. two_forms'[k] = IF v \in num_iterations + 1 .. m THEN v ELSE two_forms[k]
    BY <1>1, <2>2
  <2> HIDE DEF v
  <2>4. two_forms'[k] = v
    BY <1>0, <2>1, <2>2, <2>3
  <2> QED BY <2>4 DEF v
<1>5. ASSUME NEW e \in Slots, e > m \div SmallStep PROVE two_forms'[e] = Unset
  <2> DEFINE q == m \div SmallStep
             v == e * SmallStep
  <2>0. e \in Nat
    BY <1>0
  <2>1. /\ q \in Nat /\ m % SmallStep \in 0 .. SmallStep - 1 /\ m = q * SmallStep + (m % SmallStep)
    BY <1>0, DivMod
  <2>2. q * SmallStep + SmallStep <= v /\ q * SmallStep \in Nat /\ v \in Nat
    <3>1. q < e
      BY <1>5, <2>0, <2>1
    <3> HIDE DEF q
    <3> QED BY <1>0, <2>0, <2>1, <3>1, ProductOrder, Product
  <2>3. num_iterations \div SmallStep <= q /\ num_iterations \div SmallStep \in Nat
    BY <1>0, DivOrder, DivMod
  <2>4. two_forms[e] = Unset
    <3>1. e > num_iterations \div SmallStep
      <4> DEFINE o == num_iterations \div SmallStep
      <4>1. e > q /\ o <= q /\ o \in Nat
        BY <1>5, <2>3
      <4> HIDE DEF q, o
      <4>2. e > o
        BY <2>0, <2>1, <4>1
      <4> QED BY <4>2 DEF o
    <3> QED BY <1>3, <3>1
  <2>5. two_forms'[e] = IF v \in num_iterations + 1 .. m THEN v ELSE two_forms[e]
    BY <1>1
  <2> HIDE DEF v, q
  <2>6. v > m
    BY <1>0, <2>1, <2>2
  <2> QED BY <1>0, <2>4, <2>5, <2>6
<1> QED BY <1>4, <1>5

\* A quotient is no larger than what is divided.
LEMMA DivBelow ==
  ASSUME NEW m \in Nat \ {0}, NEW v \in Nat
  PROVE  v \div m \in Nat /\ v \div m <= v /\ (v \div m) * m <= v /\ v < (v \div m) * m + m
<1> DEFINE q == v \div m
<1>1. q \in Nat /\ v % m \in 0 .. m - 1 /\ v = q * m + (v % m)
  BY DivMod
<1> HIDE DEF q
<1>2. q <= q * m /\ q * m \in Nat
  BY <1>1, MultipleIs
<1>3. q \in Nat /\ q <= v /\ q * m <= v /\ v < q * m + m
  BY <1>1, <1>2
<1> QED BY <1>3 DEF q

\* After the switch the dense forms stay, and those up to m are stored sparsely.
LEMMA SparseStored ==
  ASSUME IInv, two_weso, switch_iters # -1, vdf # "index",
         NEW m \in num_iterations .. MaxCounted, Store(num_iterations + 1 .. m)
  PROVE  /\ \A k \in Nat : k * SmallStep <= switch_iters => two_forms'[k] = k * SmallStep
         /\ \A j \in Nat : switch_iters + j * LargeStep <= m =>
              two_forms'[(switch_iters \div SmallStep) + j] = switch_iters + j * LargeStep
         /\ \A e \in Slots : e > switch_iters \div SmallStep + ((m - switch_iters) \div LargeStep) =>
              two_forms'[e] = Unset
<1> DEFINE s == switch_iters
           q == s \div SmallStep
<1>0. /\ SmallStep \in Nat \ {0} /\ LargeStep \in Nat \ {0} /\ MaxCounted \in Nat /\ Slots = 0 .. MaxCounted
      /\ num_iterations \in Nat /\ m \in Nat /\ num_iterations <= m /\ m <= MaxCounted
      /\ s \in Nat /\ s <= num_iterations /\ s % LargeStep = 0
  BY Constants DEF IInv, TypeOK, SquaringOK, Slots, Steps
<1>1. q \in Nat /\ q <= s /\ q * SmallStep <= s /\ s < q * SmallStep + SmallStep
  <2> HIDE DEF s
  <2> QED BY <1>0, DivBelow
<1>2. \A e \in Slots : two_forms'[e] = IF e >= q /\ s + (e - q) * LargeStep \in num_iterations + 1 .. m
                                      THEN s + (e - q) * LargeStep ELSE two_forms[e]
  BY StoreIs DEF IInv, Belongs, StoredIn
<1>3. /\ \A k \in Nat : k * SmallStep <= s => two_forms[k] = k * SmallStep
      /\ \A j \in Nat : s + j * LargeStep <= num_iterations => two_forms[q + j] = s + j * LargeStep
      /\ \A e \in Slots : e > q + ((num_iterations - s) \div LargeStep) => two_forms[e] = Unset
  BY DEF IInv, TwoStored, Dense, LastSlot
<1> HIDE DEF s, q
<1>4. ASSUME NEW k \in Nat, k * SmallStep <= s PROVE two_forms'[k] = k * SmallStep
  <2>1. k * SmallStep \in Nat /\ k <= k * SmallStep
    BY <1>0, MultipleIs
  <2>2. k \in Slots /\ k <= q
    <3>1. ~(q < k)
      <4> SUFFICES ASSUME q < k PROVE FALSE
        OBVIOUS
      <4>1. q * SmallStep + SmallStep <= k * SmallStep /\ q * SmallStep \in Nat
        BY <1>0, <1>1, ProductOrder, Product
      <4> QED BY <1>0, <1>1, <1>4, <2>1, <4>1
    <3> QED BY <1>0, <1>1, <1>4, <2>1, <3>1
  <2>3. ~(k >= q /\ s + (k - q) * LargeStep \in num_iterations + 1 .. m)
    <3> SUFFICES ASSUME k >= q, s + (k - q) * LargeStep \in num_iterations + 1 .. m PROVE FALSE
      OBVIOUS
    <3>1. k - q = 0
      BY <1>1, <2>2
    <3>2. s + (k - q) * LargeStep = s
      BY <1>0, <3>1
    <3> QED BY <1>0, <3>2
  <2>4. two_forms'[k] = two_forms[k]
    BY <1>2, <2>2, <2>3
  <2> QED BY <1>3, <1>4, <2>4
<1>5. ASSUME NEW j \in Nat, s + j * LargeStep <= m PROVE two_forms'[q + j] = s + j * LargeStep
  <2> DEFINE v == j * LargeStep
             e == q + j
  <2>1. v \in Nat /\ j <= v
    BY <1>0, MultipleIs
  <2>2. s + v <= m /\ (s + v <= num_iterations => two_forms[e] = s + v)
    BY <1>3, <1>5
  <2>3. e >= q /\ e - q = j
    BY <1>1
  <2>4. s + (e - q) * LargeStep = s + v
    BY <2>3
  <2> HIDE DEF v
  <2>5. e \in Slots
    BY <1>0, <1>1, <2>1, <2>2
  <2> HIDE DEF e
  <2>6. two_forms'[e] = IF s + v \in num_iterations + 1 .. m THEN s + v ELSE two_forms[e]
    BY <1>2, <2>3, <2>4, <2>5
  <2>7. two_forms'[e] = s + v
    BY <1>0, <2>1, <2>2, <2>6
  <2> QED BY <2>7 DEF v, e
<1>6. ASSUME NEW e \in Slots, e > q + ((m - s) \div LargeStep) PROVE two_forms'[e] = Unset
  <2> DEFINE f == (m - s) \div LargeStep
             g == (num_iterations - s) \div LargeStep
             j == e - q
  <2>0. m - s \in Nat /\ num_iterations - s \in Nat /\ num_iterations - s <= m - s /\ e \in Nat
    BY <1>0
  <2>1. f \in Nat /\ m - s < f * LargeStep + LargeStep
    <3> DEFINE v == m - s
    <3>1. v \in Nat
      BY <2>0
    <3> HIDE DEF v
    <3>2. v \div LargeStep \in Nat /\ v < (v \div LargeStep) * LargeStep + LargeStep
      BY <1>0, <3>1, DivBelow
    <3> QED BY <3>2 DEF v
  <2>2. g \in Nat /\ g <= f
    <3> DEFINE v == m - s
               w == num_iterations - s
    <3>1. v \in Nat /\ w \in Nat /\ w <= v
      BY <2>0
    <3> HIDE DEF v, w
    <3>2. w \div LargeStep <= v \div LargeStep /\ w \div LargeStep \in Nat
      BY <1>0, <3>1, DivOrder, DivMod
    <3> QED BY <3>2 DEF v, w
  <2>3. e > q + f
    BY <1>6
  <2>3a. e > q + g => two_forms[e] = Unset
    BY <1>3
  <2> HIDE DEF f, g
  <2>4. two_forms[e] = Unset
    BY <1>1, <2>0, <2>1, <2>2, <2>3, <2>3a
  <2>5. j \in Nat /\ f < j
    BY <1>1, <2>0, <2>1, <2>3
  <2>6. two_forms'[e] = IF e >= q /\ s + j * LargeStep \in num_iterations + 1 .. m THEN s + j * LargeStep ELSE two_forms[e]
    BY <1>2
  <2> HIDE DEF j
  <2>7. f * LargeStep + LargeStep <= j * LargeStep /\ f * LargeStep \in Nat /\ j * LargeStep \in Nat
    BY <1>0, <2>1, <2>5, ProductOrder, Product
  <2>8. s + j * LargeStep > m
    BY <1>0, <2>1, <2>7
  <2> QED BY <1>0, <2>4, <2>6, <2>7, <2>8
<1> QED BY <1>4, <1>5, <1>6 DEF s, q

LEMMA TwoStoredStep == IInv /\ [Next]_vars => TwoStored'
<1> SUFFICES ASSUME IInv, [Next]_vars PROVE TwoStored'
  OBVIOUS
<1>0. /\ TwoStored /\ Steps /\ Sessions /\ num_iterations \in Nat /\ MaxCounted \in Nat /\ num_iterations <= MaxCounted
      /\ SmallStep \in Nat \ {0} /\ LargeStep \in Nat \ {0} /\ BatchSize \in Nat /\ Slots = 0 .. MaxCounted
      /\ LargeStep # SmallStep
  BY Constants DEF IInv, TypeOK, SquaringOK, Slots
<1>1. CASE UNCHANGED <<num_iterations, two_weso, listenerVars>>
  BY <1>0, <1>1 DEF TwoStored, Dense, LastSlot, listenerVars
<1>2. CASE ReadProverType
  <2>1. CASE two_weso'
    <3>1. /\ num_iterations = 0 /\ num_iterations' = 0 /\ switch_iters' = -1
          /\ two_forms' = [e \in Slots |-> IF e = 0 THEN 0 ELSE Unset]
      BY <1>0, <1>2 DEF ReadProverType, Sessions, TwoUntouched, squaringVars, twoVars, listenerVars
    <3>2. ASSUME NEW k \in Nat, k * SmallStep <= 0 PROVE two_forms'[k] = k * SmallStep
      <4>1. k <= k * SmallStep /\ k * SmallStep \in Nat
        BY <1>0, MultipleIs
      <4>2. k = 0 /\ k * SmallStep = 0 /\ 0 \in Slots
        BY <1>0, <3>2, <4>1
      <4> QED BY <3>1, <4>2
    <3>3. 0 \div SmallStep = 0
      <4>1. (0 * SmallStep) \div SmallStep = 0 /\ 0 * SmallStep = 0
        BY <1>0, MultipleIs
      <4> QED BY <4>1
    <3>4. \A e \in Slots : e > 0 \div SmallStep => two_forms'[e] = Unset
      BY <1>0, <3>1, <3>3
    <3> QED BY <3>1, <3>2, <3>4 DEF TwoStored, Dense, LastSlot
  <2>2. CASE ~two_weso'
    BY <2>2 DEF TwoStored
  <2> QED BY <2>1, <2>2
<1>3. CASE ~two_weso /\ two_weso' = two_weso
  BY <1>3 DEF TwoStored
<1>4. ASSUME two_weso, NEW n \in 1 .. BatchSize, SquareTwo(n) PROVE TwoStored'
  <2> DEFINE m == num_iterations + n
  <2>1. /\ m \in num_iterations .. MaxCounted /\ Store(num_iterations + 1 .. m) /\ num_iterations' = m /\ vdf # "index"
        /\ UNCHANGED <<two_weso, switch_iters>>
    BY <1>0, <1>4 DEF SquareTwo, Batch, InBatch, mainVars
  <2> HIDE DEF m
  <2>2. CASE switch_iters = -1
    BY <1>4, <2>1, <2>2, DenseStored DEF TwoStored, Dense, LastSlot
  <2>3. CASE switch_iters # -1
    BY <1>4, <2>1, <2>3, SparseStored DEF TwoStored, Dense, LastSlot
  <2> QED BY <2>2, <2>3
<1>5. CASE two_weso /\ Switch
  <2>1. CASE num_iterations >= SwitchIters /\ kl # LargeStep
    <3> DEFINE m == num_iterations + RoundUp
    <3>1. m \in Nat /\ num_iterations <= m /\ m % LargeStep = 0
      BY <1>0, Constants, RoundsUp
    <3>2. /\ m <= MaxCounted /\ Store(num_iterations + 1 .. m) /\ vdf # "index" /\ switch_iters = -1
          /\ num_iterations' = m /\ switch_iters' = m /\ two_weso' = two_weso
      BY <1>0, <1>5, <2>1 DEF Switch, mainVars, Steps
    <3> HIDE DEF m
    <3>3. m \in num_iterations .. MaxCounted
      BY <1>0, <3>1, <3>2
    <3>4. /\ \A k \in Nat : k * SmallStep <= m => two_forms'[k] = k * SmallStep
          /\ \A e \in Slots : e > m \div SmallStep => two_forms'[e] = Unset
      BY <1>5, <3>2, <3>3, DenseStored
    <3> DEFINE c == m \div SmallStep
    <3>5. c \in Nat /\ c * SmallStep = m
      <4> DEFINE k == m \div LargeStep
      <4>1. k \in Nat /\ m = k * LargeStep
        BY <1>0, <3>1, Multiple
      <4> HIDE DEF k
      <4>2. m % SmallStep = 0
        BY <4>1, OnBothGrids
      <4> QED BY <1>0, <3>1, <4>2, Multiple
    <3>6. ASSUME NEW j \in Nat, m + j * LargeStep <= m PROVE two_forms'[c + j] = m + j * LargeStep
      <4>1. j * LargeStep \in Nat /\ j <= j * LargeStep
        BY <1>0, MultipleIs
      <4>2. j = 0 /\ j * LargeStep = 0
        BY <3>1, <3>6, <4>1
      <4>3. two_forms'[c] = m
        <5>1. \A k \in Nat : k * SmallStep = m => two_forms'[k] = m
          BY <3>1, <3>4
        <5> HIDE DEF c
        <5> QED BY <3>5, <5>1
      <4> HIDE DEF c
      <4>4. c + j = c /\ m + j * LargeStep = m
        BY <3>1, <3>5, <4>2
      <4> QED BY <4>3, <4>4
    <3>7. \A e \in Slots : e > c + ((m - m) \div LargeStep) => two_forms'[e] = Unset
      <4>1. (0 * LargeStep) \div LargeStep = 0 /\ 0 * LargeStep = 0
        BY <1>0, MultipleIs
      <4>2. m - m = 0
        BY <3>1
      <4>3. \A e \in Slots : e > c => two_forms'[e] = Unset
        BY <3>4
      <4> HIDE DEF c
      <4>4. c + ((m - m) \div LargeStep) = c
        BY <3>5, <4>1, <4>2
      <4> QED BY <4>3, <4>4
    <3>8. m # -1
      BY <3>1
    <3> QED BY <3>2, <3>4, <3>6, <3>7, <3>8 DEF TwoStored, Dense, LastSlot, c
  <2>2. CASE ~(num_iterations >= SwitchIters /\ kl # LargeStep)
    BY <1>1, <1>5, <2>2 DEF Switch, mainVars, listenerVars
  <2> QED BY <2>1, <2>2
<1>6. CASE SetIndex
  BY <1>0, <1>6 DEF SetIndex, mainVars, TwoStored, Dense, LastSlot
<1> QED BY Listens, <1>1, <1>2, <1>3, <1>4, <1>5, <1>6

LEMMA IterationsGrow == IInv /\ [Next]_vars => iterations <= iterations' /\ iterations \in Nat /\ iterations' \in Nat
<1> SUFFICES ASSUME IInv, [Next]_vars PROVE iterations <= iterations' /\ iterations \in Nat /\ iterations' \in Nat
  OBVIOUS
<1>0. /\ iterations \in 0 .. num_iterations /\ num_iterations \in Nat
  BY Constants DEF IInv, TypeOK, SquaringOK
<1>1. iterations' \in {iterations, num_iterations}
  BY StepCases DEF vars, squaringVars, ReadProverType, ReadWanted, StartVdf, OneMain, JoinOneVdf, JoinProver, ReadOneStop,
     Prover, PollIterations, TestStopped, Finish, Abandon, LeaveWait, CheckStopped, WriteProof, OnlyProver,
     SquareOne, Batch, PublishOne, Publish, EndOneVdf, LeaveLoop, TwoMain, StartTwo, JoinThreads, JoinTwoVdf,
     ReadTwoStop, SquareTwo, PublishTwo, Switch, SetIndex, TestLimit, EndTwoVdf, ReadIteration, Request, TakeEnd,
     ProveLast, JoinProverOf, ReturnStopped, WriteTwo, FinishOf, OnlyRequest
<1> QED BY <1>0, <1>1

\* What a request is ready for stays so: the steps change once, before which no
\* end is excused.
LEMMA ReadyStays ==
  ASSUME IInv, [Next]_vars
  PROVE  switch_iters' # switch_iters => switch_iters = -1
<1>0. Steps /\ Sessions
  BY DEF IInv
<1>1. CASE UNCHANGED listenerVars
  BY <1>1 DEF listenerVars
<1>2. CASE ReadProverType
  BY <1>2 DEF ReadProverType, twoVars, listenerVars
<1>3. CASE (\E n \in 1 .. BatchSize : SquareTwo(n)) \/ SetIndex
  BY <1>3 DEF SquareTwo, SetIndex
<1>4. CASE Switch
  BY <1>0, <1>4 DEF Switch, Steps
<1> QED BY Listens, <1>1, <1>2, <1>3, <1>4

LEMMA TwoReadyStep == IInv /\ [Next]_vars => TwoReady'
<1> SUFFICES ASSUME IInv, [Next]_vars PROVE TwoReady'
  OBVIOUS
<1>0. /\ TwoReady /\ TwoWesoOK /\ iterations <= iterations' /\ iterations \in Nat /\ iterations' \in Nat
      /\ Asked \subseteq Nat
  BY IterationsGrow, TwoWesoAssumption DEF IInv, TypeOK
<1>1. /\ \A n \in Asked, d \in 0 .. 2 : SegEnd(n, d) \in Nat /\ EndForm(n, d) \in Nat
      /\ \A n \in Asked : SegEnd(n, 2) = n /\ n \in Nat
  BY <1>0, SegmentsAre
<1>2. switch_iters' # switch_iters => switch_iters = -1
  BY ReadyStays
<1>3. \A n \in Asked, d \in 0 .. 2 : split[n][d] # Unset =>
         split[n][d] = EndForm(n, d) \/ EndForm(n, d) = switch_iters'
  BY <1>0, <1>1, <1>2 DEF TwoReady
<1>4. /\ \A n \in Asked, d \in 0 .. 1 : prover_of[n][d] = "run" => SegEnd(n, d) <= iterations'
      /\ \A n \in Asked : req[n] = "prove2" => n <= iterations'
  <2>1. \A n \in Asked, d \in 0 .. 1 : SegEnd(n, d) \in Nat
    BY <1>1
  <2> QED BY <1>0, <1>1, <2>1 DEF TwoReady
<1>5. CASE UNCHANGED requestVars
  BY <1>3, <1>4, <1>5 DEF requestVars, TwoReady
<1>6. ASSUME NEW n \in Asked, ReadIteration(n) PROVE TwoReady'
  <2>1. \A m \in Asked : req'[m] = "prove2" => req[m] = "prove2"
    BY <1>0, <1>6 DEF ReadIteration, Goto, TwoWesoOK
  <2> QED BY <1>3, <1>4, <1>6, <2>1 DEF ReadIteration, TwoReady
<1>7. ASSUME NEW n \in Asked, NEW d \in 0 .. 2, TakeEnd(n, d) PROVE TwoReady'
  <2>1. two_weso
    <3>1. req[n] # "none"
      <4>1. d = 0 \/ d = 1 \/ d = 2
        OBVIOUS
      <4> QED BY <1>7, <4>1 DEF TakeEnd, Wait
    <3> QED BY <3>1, RequestsOfTwo
  <2>2. PICK p \in Positions(EndForm(n, d)) : split' = [split EXCEPT ![n][d] = two_forms[p]]
    BY <1>7 DEF TakeEnd
  <2>3. iterations >= SegEnd(n, d) /\ switch_iters' = switch_iters
    BY <1>7 DEF TakeEnd, OnlyRequest, listenerVars
  <2>4. two_forms[p] = EndForm(n, d) \/ EndForm(n, d) = switch_iters
    BY <2>1, <2>3, EndTaken
  <2>5. \A m \in Asked, c \in 0 .. 2 : split'[m][c] # Unset =>
           split'[m][c] = EndForm(m, c) \/ EndForm(m, c) = switch_iters'
    <3> SUFFICES ASSUME NEW m \in Asked, NEW c \in 0 .. 2, split'[m][c] # Unset
                 PROVE  split'[m][c] = EndForm(m, c) \/ EndForm(m, c) = switch_iters'
      OBVIOUS
    <3>1. CASE m = n /\ c = d
      <4>1. split'[n][d] = two_forms[p]
        BY <1>0, <2>2 DEF TwoWesoOK
      <4> QED BY <2>3, <2>4, <3>1, <4>1
    <3>2. CASE ~(m = n /\ c = d)
      <4>1. split'[m][c] = split[m][c]
        BY <1>0, <2>2, <3>2 DEF TwoWesoOK
      <4> QED BY <1>3, <4>1
    <3> QED BY <3>1, <3>2
  <2>6. \A m \in Asked, c \in 0 .. 1 : prover_of'[m][c] = "run" => prover_of[m][c] = "run" \/ (m = n /\ c = d)
    <3>1. CASE d < 2
      <4>1. prover_of' = [prover_of EXCEPT ![n][d] = "run"]
        BY <1>7, <3>1 DEF TakeEnd
      <4> QED BY <1>0, <3>1, <4>1 DEF TwoWesoOK
    <3>2. CASE ~(d < 2)
      BY <1>7, <3>2 DEF TakeEnd
    <3> QED BY <3>1, <3>2
  <2>7. \A m \in Asked : req'[m] = "prove2" => req[m] = "prove2" \/ (m = n /\ d = 2)
    <3>1. (IF d < 2 THEN Wait[d + 2] ELSE "prove2") = "prove2" => d = 2
      <4>1. d = 0 \/ d = 1 \/ d = 2
        OBVIOUS
      <4> QED BY <4>1 DEF Wait
    <3> QED BY <1>0, <1>7, <3>1 DEF TakeEnd, Goto, TwoWesoOK
  <2>8. SegEnd(n, d) \in Nat /\ SegEnd(n, d) <= iterations' /\ (d = 2 => n <= iterations')
    BY <1>0, <1>1, <2>3
  <2> QED BY <1>4, <2>5, <2>6, <2>7, <2>8 DEF TwoReady
<1>8. ASSUME NEW n \in Asked, ProveLast(n) \/ ReturnStopped(n) \/ WriteTwo(n) \/ \E d \in 0 .. 1 : JoinProverOf(n, d) PROVE TwoReady'
  <2>1. \E pc \in {"join1", "join0", "write", "exit"} : Goto(n, pc)
    BY <1>8 DEF ProveLast, ReturnStopped, WriteTwo, JoinProverOf
  <2>2. \A m \in Asked : req'[m] = "prove2" => req[m] = "prove2"
    BY <1>0, <2>1 DEF Goto, TwoWesoOK
  <2>3. UNCHANGED <<split, prover_of>>
    BY <1>8 DEF ProveLast, ReturnStopped, WriteTwo, JoinProverOf
  <2> QED BY <1>3, <1>4, <2>2, <2>3 DEF TwoReady
<1>9. ASSUME NEW n \in Asked, NEW d \in 0 .. 1, FinishOf(n, d) PROVE TwoReady'
  <2>1. PICK v \in {"finished", "abandoned"} : prover_of' = [prover_of EXCEPT ![n][d] = v]
    BY <1>9 DEF FinishOf
  <2>2. \A m \in Asked, c \in 0 .. 1 : prover_of'[m][c] = "run" => prover_of[m][c] = "run"
    BY <1>0, <2>1 DEF TwoWesoOK
  <2>3. UNCHANGED <<split, req>>
    BY <1>9 DEF FinishOf
  <2> QED BY <1>3, <1>4, <2>2, <2>3 DEF TwoReady
<1>10. CASE \/ UNCHANGED vars \/ ReadProverType \/ UNCHANGED twoVars
            \/ TwoMain \/ ReadTwoStop
            \/ (\E n \in 1 .. BatchSize : SquareTwo(n)) \/ PublishTwo \/ Switch \/ SetIndex \/ TestLimit \/ EndTwoVdf
  BY <1>5, <1>10 DEF vars, twoVars, ReadProverType, TwoMain, StartTwo, JoinThreads, JoinTwoVdf, ReadTwoStop, SquareTwo,
                     PublishTwo, Switch, SetIndex, TestLimit, EndTwoVdf
<1> QED BY StepCases, <1>6, <1>7, <1>8, <1>9, <1>10 DEF Request

LEMMA Initially == Init => IInv
<1> SUFFICES ASSUME Init PROVE IInv
  OBVIOUS
<1>0. /\ MaxCounted \in Nat /\ SmallStep \in Nat \ {0} /\ Interval \in Nat \ {0} /\ MaxProcesses \in Nat \ {0}
      /\ Asked \subseteq Nat /\ Slots = 0 .. MaxCounted /\ Entries = 0 .. MaxCounted
  BY Constants, TwoWesoAssumption DEF Slots, Entries
<1>1. SquaringOK
  <2>1. InitSquaring
    BY DEF Init
  <2>2. vdf = "none" /\ num_iterations = 0 /\ last_checkpoint = 0 /\ iterations = 0
    BY <2>1 DEF InitSquaring
  <2>3. stopped \in BOOLEAN /\ two_weso \in BOOLEAN
    BY <2>1 DEF InitSquaring
  <2> QED BY <1>0, <2>2, <2>3 DEF SquaringOK
<1> USE DEF Init, InitSquaring, OneInit, TwoInit
<1>2. OneWesoOK
  BY <1>0 DEF OneWesoOK, Nothing
<1>3. TwoWesoOK
  <2>1. Range(threads) = {}
    BY DEF Range
  <2> QED BY <1>0, <2>1 DEF TwoWesoOK, Unset
<1>4. Sessions
  BY DEF Sessions, SessionPcs, TwoUntouched
<1>5. OneReady
  BY DEF OneReady
<1>6. Steps
  BY DEF Steps
<1>7. TwoStored /\ TwoReady
  BY DEF TwoStored, TwoReady
<1>8. Pool
  BY <1>0, FS_EmptySet DEF Pool
<1>9. Checkpoints
  <2>1. (0 * Interval) % Interval = 0 /\ 0 * Interval = 0
    BY <1>0, MultipleIs
  <2> QED BY <2>1 DEF Checkpoints
<1> QED BY <1>1, <1>2, <1>3, <1>4, <1>5, <1>6, <1>7, <1>8, <1>9 DEF IInv, TypeOK

\* IInv holds throughout.
LEMMA InvariantStep == IInv /\ [Next]_vars => IInv'
<1> SUFFICES ASSUME IInv, [Next]_vars PROVE IInv'
  OBVIOUS
<1>1. TypeOK'
  BY TypeStep, OneTypeStep, TwoTypeStep DEF TypeOK
<1> QED BY <1>1, SessionsStep, OneReadyStep, StepsStep, TwoStoredStep, TwoReadyStep, PoolStep, CheckpointsStep DEF IInv

LEMMA Invariance == Spec => []IInv
BY Initially, InvariantStep, PTL DEF Spec

\* Every variable keeps its type, in all three threads and every request's.
THEOREM TypeCorrect == Spec => []TypeOK
<1>1. IInv => TypeOK
  BY DEF IInv
<1> QED BY <1>1, Invariance, PTL

-----------------------------------------------------------------------------
(* What the provers read.                                                  *)

LEMMA InputsReady == IInv => ProverInputsReady
<1> SUFFICES ASSUME IInv, prover \in {"prove", "finished", "check", "write"}
             PROVE  /\ result = wanted_iter
                    /\ \A i \in FormsRead(wanted_iter) : forms[i] = i * KL(wanted_iter)
  BY DEF ProverInputsReady
<1>1. OneStored
  BY DEF IInv, OneReady, Sessions, TypeOK, SquaringOK
<1>2. /\ wanted_iter \in Nat /\ iterations >= wanted_iter /\ iterations \in 0 .. num_iterations /\ num_iterations \in Nat
      /\ num_iterations >= wanted_iter
  <2>1. /\ wanted_iter \in Nat /\ iterations >= wanted_iter /\ iterations \in 0 .. num_iterations /\ num_iterations \in Nat
    BY Constants, OneWesoAssumption DEF IInv, TypeOK, SquaringOK, OneWesoOK, OneReady
  <2> QED BY <2>1
<1>3. KL(wanted_iter) \in Nat \ {0}
  BY <1>2, KLType
<1>4. ASSUME NEW i \in FormsRead(wanted_iter) PROVE forms[i] = i * KL(wanted_iter)
  <2> DEFINE m == KL(wanted_iter)
             q == wanted_iter \div m
  <2>1. q \in Nat /\ q * m <= wanted_iter
    BY <1>2, <1>3, DivBelow
  <2>2. i \in 0 .. q
    BY DEF FormsRead
  <2>3. \A k \in Nat : k * m <= num_iterations /\ k * m <= wanted_iter => forms[k] = k * m
    BY <1>1 DEF OneStored
  <2>4. m \in Nat \ {0}
    BY <1>3
  <2> HIDE DEF m, q
  <2>5. i * m <= q * m /\ i * m \in Nat /\ q * m \in Nat
    <3>1. i \in Nat /\ i * m \in Nat /\ q * m \in Nat
      BY <2>1, <2>2, <2>4, Product
    <3>2. CASE i = q
      BY <3>1, <3>2
    <3>3. CASE i < q
      BY <2>1, <2>4, <3>1, <3>3, ProductOrder
    <3> QED BY <2>1, <2>2, <3>1, <3>2, <3>3
  <2>6. i * m <= wanted_iter /\ i * m <= num_iterations /\ i \in Nat
    BY <1>2, <2>1, <2>2, <2>5
  <2>7. forms[i] = i * m
    BY <2>3, <2>6
  <2> QED BY <2>7 DEF m
<1> QED BY <1>1, <1>2, <1>4 DEF OneStored

\* A block starts a small step or more before the end of its segment.
LEMMA BlockInSegment ==
  ASSUME NEW n \in Nat, NEW d \in 0 .. 2, NEW b \in Blocks(n, d)
  PROVE  b \in Nat /\ b % SmallStep = 0 /\ b + SmallStep <= SegEnd(n, d)
<1> DEFINE len == SegLength(n, d)
           start == SegStart(n, d)
           l == StepFactor(len)
<1>1. PICK i \in 0 .. len \div (SmallStep * l) :
        b = start + i * SmallStep * l /\ \E j \in 0 .. l - 1 : len >= SmallStep * (i * l + j + 1)
  BY DEF Blocks
<1>2. PICK j \in 0 .. l - 1 : len >= SmallStep * (i * l + j + 1)
  BY <1>1
<1>3. SmallStep \in Nat \ {0} /\ l \in Nat \ {0} /\ Ratio \in Nat \ {0}
  BY Constants DEF StepFactor
<1>4. start \in Nat /\ start % LargeStep = 0 /\ len \in Nat /\ SegEnd(n, d) = start + len
  <2>1. /\ start \in Nat /\ SegEnd(n, d) \in Nat /\ len \in Nat /\ start % LargeStep = 0
        /\ SegLength(n, d) = SegEnd(n, d) - start
    BY SegmentsAre
  <2> QED BY <2>1
<1> HIDE DEF len, start, l
<1>5. i \in Nat /\ j \in Nat
  <2>1. SmallStep * l \in Nat \ {0}
    <3>1. SmallStep <= SmallStep * l /\ SmallStep * l \in Nat
      BY <1>3, MultipleIs
    <3> QED BY <1>3, <3>1
  <2>2. len \div (SmallStep * l) \in Nat
    BY <1>4, <2>1, DivMod
  <2> QED BY <1>3, <2>2
<1> DEFINE u == i * l
<1>6. u \in Nat /\ i * SmallStep * l = u * SmallStep
  <2>1. u \in Nat
    BY <1>3, <1>5, Product
  <2>2. i * SmallStep * l = i * l * SmallStep
    BY <1>3, <1>5
  <2> QED BY <2>1, <2>2
<1>7. b = start + u * SmallStep /\ len >= SmallStep * (u + j + 1)
  BY <1>1, <1>2, <1>6
<1> HIDE DEF u
<1>8. u * SmallStep + SmallStep <= len
  <2>1. SmallStep * (u + j + 1) = u * SmallStep + j * SmallStep + SmallStep
    BY <1>3, <1>5, <1>6
  <2>2. j * SmallStep \in Nat /\ u * SmallStep \in Nat
    BY <1>3, <1>5, <1>6, Product
  <2> QED BY <1>3, <1>4, <1>7, <2>1, <2>2
<1>9. u * SmallStep \in Nat
  BY <1>3, <1>6, Product
<1>10. b % SmallStep = 0
  <2> DEFINE a == start \div LargeStep
  <2>1. a \in Nat /\ start = a * LargeStep
    BY <1>4, Constants, Multiple
  <2> HIDE DEF a
  <2>2. a * Ratio \in Nat /\ start = (a * Ratio) * SmallStep
    BY <2>1, OnBothGrids
  <2> DEFINE c == a * Ratio
  <2>3. c \in Nat /\ start = c * SmallStep
    BY <2>2
  <2> HIDE DEF c
  <2>4. b = (c + u) * SmallStep /\ c + u \in Nat
    BY <1>3, <1>6, <1>7, <2>3
  <2> QED BY <1>3, <2>4, MultipleIs
<1> QED BY <1>3, <1>4, <1>7, <1>8, <1>9, <1>10

LEMMA FormsRight == IInv /\ BlocksOnGrid => ProverFormsRight
<1> SUFFICES ASSUME IInv, BlocksOnGrid, NEW n \in Asked, NEW d \in 0 .. 2
             PROVE  /\ Proves(n, d) => \A b \in Blocks(n, d) : \A p \in Positions(b) : two_forms[p] = b
                    /\ split[n][d] # Unset => split[n][d] = EndForm(n, d) \/ EndForm(n, d) = switch_iters
  BY DEF ProverFormsRight
<1>0. /\ n \in Nat /\ SmallStep \in Nat \ {0} /\ iterations \in 0 .. num_iterations /\ num_iterations \in Nat
      /\ SwitchIters \in Nat
  BY Constants, TwoWesoAssumption DEF IInv, TypeOK, SquaringOK
<1>1. ASSUME Proves(n, d), NEW b \in Blocks(n, d), NEW p \in Positions(b) PROVE two_forms[p] = b
  <2>1. two_weso
    <3>1. CASE d = 2
      BY <1>1, <3>1, RequestsOfTwo DEF Proves
    <3>2. CASE d # 2
      <4>1. d \in 0 .. 1 /\ prover_of[n][d] = "run"
        BY <1>1, <3>2 DEF Proves
      <4> QED BY <4>1, RequestsOfTwo
    <3> QED BY <3>1, <3>2
  <2>2. SegEnd(n, d) <= iterations
    <3>1. CASE d = 2
      <4>1. SegEnd(n, d) = n
        BY <3>1 DEF SegEnd
      <4> QED BY <1>1, <3>1, <4>1 DEF Proves, IInv, TwoReady
    <3>2. CASE d # 2
      <4>1. d \in 0 .. 1 /\ prover_of[n][d] = "run"
        BY <1>1, <3>2 DEF Proves
      <4> QED BY <4>1 DEF IInv, TwoReady
    <3> QED BY <3>1, <3>2
  <2>3. b \in Nat /\ b % SmallStep = 0 /\ b + SmallStep <= SegEnd(n, d) /\ SegEnd(n, d) \in Nat
    BY <1>0, BlockInSegment, SegmentsAre
  <2>4. b < num_iterations
    BY <1>0, <2>2, <2>3
  <2>5. switch_iters # -1 /\ b >= switch_iters => b % LargeStep = 0 /\ vdf # "index"
    <3> SUFFICES ASSUME switch_iters # -1, b >= switch_iters PROVE b % LargeStep = 0 /\ vdf # "index"
      OBVIOUS
    <3>1. SwitchIters <= switch_iters /\ switch_iters \in Nat /\ (vdf = "index" => switch_iters = num_iterations)
      BY <1>0 DEF IInv, Steps
    <3>2. b >= SwitchIters
      BY <1>0, <2>3, <3>1
    <3>3. b % LargeStep = 0
      BY <3>2 DEF BlocksOnGrid
    <3>4. vdf # "index"
      BY <1>0, <2>3, <2>4, <3>1
    <3> QED BY <3>3, <3>4
  <2>6. Positions(b) = {Position(b)} /\ two_forms[Position(b)] = b
    BY <1>0, <2>1, <2>3, <2>4, <2>5, FormAt DEF IInv
  <2> QED BY <2>6
<1> QED BY <1>1 DEF IInv, TwoReady

\* From the moment a prover of either session starts until it ends, every form it
\* reads is the one of the iteration it stands for, although repeated_square goes
\* on squaring, storing and, in "T", switching its step: no form it reads is
\* stored later, at another place, or overwritten.
THEOREM ReadRightForms ==
  ASSUME BlocksOnGrid
  PROVE  Spec => []ProversReadRightForms
<1>1. IInv => ProversReadRightForms
  BY InputsReady, FormsRight DEF ProversReadRightForms
<1> QED BY <1>1, Invariance, PTL

\* kSwitchIters is large enough: a request that ends beyond it has segments of
\* at least 10^7 iterations, for which the provers take l = 10 and so a block at
\* every large step.  (9 * 10^7 <= 91 * 10^6.)
THEOREM SwitchLateEnough ==
  ASSUME LargeStep <= LongSegment, 9 * LongSegment <= SwitchIters
  PROVE  BlocksOnGrid
<1> SUFFICES ASSUME NEW n \in Asked, NEW d \in 0 .. 2, NEW b \in Blocks(n, d), b >= SwitchIters
             PROVE  b % LargeStep = 0
  BY DEF BlocksOnGrid
<1>0. n \in Nat /\ SwitchIters \in Nat /\ LongSegment \in Nat /\ SmallStep \in Nat \ {0} /\ LargeStep \in Nat \ {0}
      /\ LargeStep = SmallStep * Ratio /\ Ratio \in Nat \ {0}
  BY Constants, TwoWesoAssumption
<1>1. b \in Nat /\ b + SmallStep <= SegEnd(n, d) /\ SegEnd(n, d) <= n /\ SegEnd(n, d) \in Nat
  BY <1>0, BlockInSegment, SegmentsAre
<1>2. 9 * LongSegment <= n
  BY <1>0, <1>1
<1>3. SegLength(n, d) >= LongSegment /\ SegLength(n, d) \in Nat
  BY <1>0, <1>2, SegmentsAre
<1>4. StepFactor(SegLength(n, d)) = Ratio
  BY <1>0, <1>3 DEF StepFactor
<1> DEFINE start == SegStart(n, d)
           len == SegLength(n, d)
<1>5. PICK i \in 0 .. len \div (SmallStep * Ratio) : b = start + i * SmallStep * Ratio
  BY <1>4 DEF Blocks
<1>6. i \in Nat
  <2>1. len \div LargeStep \in Nat
    <3> HIDE DEF len
    <3> QED BY <1>0, <1>3, DivMod DEF len
  <2> QED BY <1>0, <1>5, <2>1
<1>7. i * SmallStep * Ratio = i * LargeStep
  BY <1>0, <1>6
<1>8. start \in Nat /\ start % LargeStep = 0
  BY <1>0, SegmentsAre
<1>9. i * LargeStep \in Nat /\ (i * LargeStep) % LargeStep = 0
  BY <1>0, <1>6, MultipleIs
<1>10. (start + i * LargeStep) % LargeStep = 0
  <2> DEFINE v == i * LargeStep
  <2>1. v \in Nat /\ v % LargeStep = 0
    BY <1>9
  <2> HIDE DEF v, start
  <2>2. (start + v) % LargeStep = 0
    BY <1>8, <2>1, SumOfMultiples
  <2> QED BY <2>2 DEF v
<1> QED BY <1>5, <1>7, <1>10

-----------------------------------------------------------------------------
(* How far the squarer gets.                                               *)

LEMMA ProductMono ==
  ASSUME NEW m \in Nat, NEW a \in Nat, NEW b \in Nat, a <= b
  PROVE  a * m <= b * m /\ a * m \in Nat /\ b * m \in Nat
<1>1. b - a \in Nat /\ (b - a) * m \in Nat /\ b * m = a * m + (b - a) * m
  OBVIOUS
<1>2. a * m \in Nat /\ b * m \in Nat
  BY Product
<1> QED BY <1>1, <1>2

\* The first checkpoint at or after a limit, and that a checkpoint before the
\* limit is followed by one that is not beyond it.
LEMMA CheckpointIs ==
  ASSUME NEW limit \in Nat \ {0}
  PROVE  /\ CheckpointAfter(limit) \in Nat /\ limit <= CheckpointAfter(limit)
         /\ \A c \in Nat : c % Interval = 0 /\ c < limit => c + Interval <= CheckpointAfter(limit)
<1> DEFINE v == limit - 1
           q == v \div Interval
<1>0. Interval \in Nat \ {0} /\ v \in Nat
  BY Constants
<1>1. q \in Nat /\ q * Interval <= v /\ v < q * Interval + Interval
  <2> HIDE DEF v
  <2> QED BY <1>0, DivBelow
<1>2. CheckpointAfter(limit) = (q + 1) * Interval
  BY DEF CheckpointAfter
<1>3. v = limit - 1
  OBVIOUS
<1> HIDE DEF q, v
<1>4. (q + 1) * Interval = q * Interval + Interval /\ q * Interval \in Nat
  BY <1>0, <1>1
<1>5. ASSUME NEW c \in Nat, c % Interval = 0, c < limit PROVE c + Interval <= CheckpointAfter(limit)
  <2> DEFINE k == c \div Interval
  <2>1. k \in Nat /\ c = k * Interval
    BY <1>0, <1>5, Multiple
  <2> HIDE DEF k
  <2>2. ~(q < k)
    <3> SUFFICES ASSUME q < k PROVE FALSE
      OBVIOUS
    <3>1. q * Interval + Interval <= k * Interval
      BY <1>0, <1>1, <2>1, ProductOrder
    <3> QED BY <1>0, <1>1, <1>3, <1>4, <1>5, <2>1, <3>1
  <2>3. k * Interval <= q * Interval
    BY <1>0, <1>1, <2>1, <2>2, ProductMono
  <2> QED BY <1>0, <1>2, <1>4, <2>1, <2>3
<1>6. limit <= CheckpointAfter(limit) /\ CheckpointAfter(limit) \in Nat
  BY <1>0, <1>1, <1>2, <1>3, <1>4
<1> QED BY <1>5, <1>6

PacedNext(limit) ==
  /\ vdf' \in {"none", "batch"} => num_iterations' < CheckpointAfter(limit)
  /\ vdf' = "publish" => num_iterations' <= Furthest(limit)
  /\ vdf' \in {"none", "batch", "publish"} \/ num_iterations' < limit =>
       last_checkpoint' <= CheckpointAfter(limit)

\* A limit that is only tested at checkpoints is passed by less than the interval
\* and a batch.
LEMMA PacedKept ==
  ASSUME IInv, two_weso, NEW limit \in Nat \ {0}, Paced(limit),
         \/ \E n \in 1 .. BatchSize : SquareTwo(n)
         \/ PublishTwo \/ Switch \/ SetIndex \/ EndTwoVdf
         \/ TestLimit /\ (vdf' = "batch" => num_iterations < limit)
  PROVE  PacedNext(limit)
<1> DEFINE C == CheckpointAfter(limit)
<1>0. /\ num_iterations \in Nat /\ last_checkpoint \in Nat /\ Interval \in Nat \ {0} /\ BatchSize \in Nat \ {0}
      /\ last_checkpoint % Interval = 0
  BY Constants DEF IInv, TypeOK, SquaringOK, Checkpoints
<1>1. /\ C \in Nat /\ limit <= C
      /\ last_checkpoint < limit => last_checkpoint + Interval <= C
      /\ Furthest(limit) = C + BatchSize - 1
  BY <1>0, CheckpointIs DEF Furthest
<1> HIDE DEF C
<1>2. /\ vdf \in {"none", "batch"} => num_iterations < C
      /\ vdf = "publish" => num_iterations <= Furthest(limit)
      /\ vdf \in {"none", "batch", "publish"} \/ num_iterations < limit => last_checkpoint <= C
  BY DEF Paced, C
<1>3. SUFFICES /\ vdf' \in {"none", "batch"} => num_iterations' < C
               /\ vdf' = "publish" => num_iterations' <= Furthest(limit)
               /\ vdf' \in {"none", "batch", "publish"} \/ num_iterations' < limit => last_checkpoint' <= C
  BY DEF PacedNext, C
<1>4. CASE \E n \in 1 .. BatchSize : SquareTwo(n)
  BY <1>0, <1>1, <1>2, <1>4 DEF SquareTwo, Batch
<1>5. CASE PublishTwo
  <2>1. vdf = "publish" /\ num_iterations' = num_iterations
    BY <1>5 DEF PublishTwo, Publish
  <2>2. CASE num_iterations >= last_checkpoint
    <3>1. vdf' = "switch" /\ last_checkpoint' = last_checkpoint + Interval
      BY <1>5, <2>2 DEF PublishTwo, Publish, Reached
    <3>2. num_iterations < limit => last_checkpoint < limit
      BY <1>0, <2>2
    <3> QED BY <1>0, <1>1, <2>1, <3>1, <3>2
  <2>3. CASE ~(num_iterations >= last_checkpoint)
    <3>1. vdf' = "batch" /\ last_checkpoint' = last_checkpoint
      BY <1>5, <2>3 DEF PublishTwo, Publish, Reached
    <3> QED BY <1>0, <1>1, <1>2, <2>1, <2>3, <3>1
  <2> QED BY <2>2, <2>3
<1>6. CASE Switch
  <2>1. /\ vdf' \in {"index", "limit"} /\ last_checkpoint' = last_checkpoint
        /\ num_iterations' \in {num_iterations, num_iterations + RoundUp}
    BY <1>6 DEF Switch
  <2>2. RoundUp \in Nat
    BY <1>0, Constants, RoundsUp
  <2>3. num_iterations' < limit => num_iterations < limit
    BY <1>0, <2>1, <2>2
  <2> QED BY <1>2, <2>1, <2>3
<1>7. CASE SetIndex
  BY <1>2, <1>7 DEF SetIndex
<1>8. CASE TestLimit /\ (vdf' = "batch" => num_iterations < limit)
  BY <1>0, <1>1, <1>2, <1>8 DEF TestLimit
<1>9. CASE EndTwoVdf
  BY <1>0, <1>1, <1>2, <1>9 DEF EndTwoVdf, LeaveLoop
<1> QED BY <1>4, <1>5, <1>6, <1>7, <1>8, <1>9

LEMMA ReachStep == IInv /\ Room /\ Reach /\ [Next]_vars => Reach'
<1> SUFFICES ASSUME IInv, Room, Reach, [Next]_vars PROVE Reach'
  OBVIOUS
<1>0. /\ num_iterations \in Nat /\ last_checkpoint \in Nat /\ BatchSize \in Nat \ {0} /\ LargeStep \in Nat \ {0}
      /\ LargeStep # SmallStep /\ Limit \in Nat \ {0} /\ SwitchIters \in Nat \ {0} /\ Steps /\ Sessions
  BY Constants DEF IInv, TypeOK, SquaringOK, Room
<1>1. /\ Furthest(Limit) \in Nat /\ Furthest(SwitchIters) \in Nat
      /\ CheckpointAfter(Limit) \in Nat \ {0} /\ CheckpointAfter(SwitchIters) \in Nat \ {0}
      /\ SwitchIters <= Furthest(SwitchIters)
  <2>1. /\ CheckpointAfter(Limit) \in Nat /\ CheckpointAfter(SwitchIters) \in Nat
        /\ Limit <= CheckpointAfter(Limit) /\ SwitchIters <= CheckpointAfter(SwitchIters)
    BY <1>0, CheckpointIs
  <2> QED BY <1>0, <2>1 DEF Furthest
<1> DEFINE FL == Furthest(Limit)
           FS == Furthest(SwitchIters)
<1>2. Reach' <=> (two_weso' =>
         /\ Paced(Limit)'
         /\ num_iterations' <= FL \/ num_iterations' < FS + LargeStep
         /\ switch_iters' = -1 => /\ Paced(SwitchIters)' /\ num_iterations' <= FS
                                  /\ vdf' = "limit" => num_iterations' < SwitchIters
         /\ switch_iters' # -1 => switch_iters' < FS + LargeStep)
  BY DEF Reach
<1>3. two_weso =>
         /\ Paced(Limit)
         /\ num_iterations <= FL \/ num_iterations < FS + LargeStep
         /\ switch_iters = -1 => /\ Paced(SwitchIters) /\ num_iterations <= FS
                                 /\ vdf = "limit" => num_iterations < SwitchIters
         /\ switch_iters # -1 => switch_iters < FS + LargeStep
  BY DEF Reach
<1>2a. (PacedNext(Limit) => Paced(Limit)') /\ (PacedNext(SwitchIters) => Paced(SwitchIters)')
  BY DEF PacedNext, Paced
<1>4. CASE ~two_weso'
  BY <1>4 DEF Reach
<1>5. CASE UNCHANGED <<vdf, num_iterations, last_checkpoint, two_weso, switch_iters>>
  BY <1>5 DEF Reach, Paced, Furthest, CheckpointAfter
<1>6. CASE vdf = "none" /\ vdf' \in {"none", "batch"} /\ UNCHANGED <<num_iterations, last_checkpoint, switch_iters>>
  <2>1. num_iterations' = 0 /\ last_checkpoint' = 0 /\ switch_iters' = -1
    BY <1>0, <1>6 DEF Sessions, TwoUntouched
  <2>2. Paced(Limit)' /\ Paced(SwitchIters)'
    BY <1>1, <1>6, <2>1 DEF Paced, CheckpointAfter, Furthest
  <2> HIDE DEF FL, FS
  <2>3. 0 <= FS /\ 0 <= FL
    BY <1>1 DEF FS, FL
  <2> QED BY <1>2, <1>6, <2>1, <2>2, <2>3
<1> HIDE DEF FL, FS
<1>7. FL \in Nat /\ FS \in Nat /\ SwitchIters <= FS
  BY <1>1 DEF FL, FS
<1>8. ASSUME two_weso, NEW n \in 1 .. BatchSize, SquareTwo(n) PROVE Reach'
  <2>1. Paced(Limit)' /\ (switch_iters = -1 => Paced(SwitchIters)')
    BY <1>0, <1>2a, <1>3, <1>8, PacedKept
  <2>2. vdf' = "publish" /\ switch_iters' = switch_iters
    BY <1>8 DEF SquareTwo, Batch
  <2>3. num_iterations' <= FL /\ (switch_iters = -1 => num_iterations' <= FS)
    BY <2>1, <2>2 DEF Paced, FL, FS, Furthest, CheckpointAfter
  <2> QED BY <1>2, <1>3, <1>8, <2>1, <2>2, <2>3
<1>9. ASSUME two_weso, PublishTwo \/ EndTwoVdf PROVE Reach'
  <2>1. Paced(Limit)' /\ (switch_iters = -1 => Paced(SwitchIters)')
    BY <1>0, <1>2a, <1>3, <1>9, PacedKept
  <2>2. num_iterations' = num_iterations /\ switch_iters' = switch_iters /\ vdf' # "limit"
    BY <1>9 DEF PublishTwo, Publish, EndTwoVdf, LeaveLoop, twoVars, listenerVars
  <2> QED BY <1>2, <1>3, <1>9, <2>1, <2>2
<1>10. ASSUME two_weso, Switch PROVE Reach'
  <2>1. Paced(Limit)' /\ (switch_iters = -1 => Paced(SwitchIters)')
    BY <1>0, <1>2a, <1>3, <1>10, PacedKept
  <2>2. CASE num_iterations >= SwitchIters /\ kl # LargeStep
    <3>1. RoundUp \in 0 .. LargeStep - 1
      BY <1>0, RoundsUp
    <3>2. /\ switch_iters = -1 /\ switch_iters' = num_iterations + RoundUp /\ num_iterations' = num_iterations + RoundUp
      BY <1>0, <1>10, <2>2 DEF Switch, Steps
    <3>3. num_iterations <= FS
      BY <1>3, <1>10, <3>2
    <3>4. num_iterations' < FS + LargeStep /\ switch_iters' < FS + LargeStep /\ switch_iters' # -1
      BY <1>0, <1>7, <3>1, <3>2, <3>3
    <3> QED BY <1>2, <2>1, <3>4
  <2>3. CASE ~(num_iterations >= SwitchIters /\ kl # LargeStep)
    <3>1. num_iterations' = num_iterations /\ switch_iters' = switch_iters
      BY <1>10, <2>3 DEF Switch
    <3>2. switch_iters = -1 => num_iterations < SwitchIters
      BY <1>0, <2>3 DEF Steps
    <3> QED BY <1>2, <1>3, <1>10, <2>1, <3>1, <3>2
  <2> QED BY <2>2, <2>3
<1>11. ASSUME two_weso, SetIndex PROVE Reach'
  <2>1. Paced(Limit)'
    BY <1>0, <1>2a, <1>3, <1>11, PacedKept
  <2>2. num_iterations' = num_iterations /\ switch_iters' = switch_iters /\ switch_iters # -1
    BY <1>0, <1>11 DEF SetIndex, Steps
  <2> QED BY <1>2, <1>3, <1>11, <2>1, <2>2
<1>12. ASSUME two_weso, TestLimit PROVE Reach'
  <2>1. /\ num_iterations' = num_iterations /\ switch_iters' = switch_iters /\ vdf = "limit" /\ vdf' # "limit"
        /\ vdf' = "batch" => num_iterations < Limit
    BY <1>0, <1>12 DEF TestLimit, twoVars, listenerVars
  <2>2. Paced(Limit)'
    BY <1>0, <1>2a, <1>3, <1>12, <2>1, PacedKept
  <2>3. switch_iters = -1 => Paced(SwitchIters)'
    <3> SUFFICES ASSUME switch_iters = -1 PROVE Paced(SwitchIters)'
      OBVIOUS
    <3>1. num_iterations < SwitchIters /\ Paced(SwitchIters)
      BY <1>3, <1>12, <2>1
    <3> QED BY <1>0, <1>2a, <1>12, <3>1, PacedKept
  <2> QED BY <1>2, <1>3, <1>12, <2>1, <2>2, <2>3
<1>13. CASE ReadProverType
  BY <1>0, <1>6, <1>13 DEF ReadProverType, Sessions, squaringVars, twoVars, listenerVars
<1>14. CASE TwoMain \/ ReadTwoStop
  <2>1. CASE StartTwo
    BY <1>6, <2>1 DEF StartTwo, StartVdf, twoVars, listenerVars
  <2>2. CASE JoinThreads \/ JoinTwoVdf \/ ReadTwoStop
    BY <1>5, <2>2 DEF JoinThreads, JoinTwoVdf, ReadTwoStop, squaringVars, twoVars, listenerVars
  <2> QED BY <1>14, <2>1, <2>2 DEF TwoMain
<1>15. CASE \E n \in Asked : ReadIteration(n) \/ Request(n) \/ \E d \in 0 .. 1 : FinishOf(n, d)
  BY <1>5, <1>15 DEF ReadIteration, Request, TakeEnd, ProveLast, JoinProverOf, ReturnStopped, WriteTwo, FinishOf,
                     OnlyRequest, squaringVars, mainVars, listenerVars
<1>16. CASE UNCHANGED twoVars /\ ~two_weso /\ ((\E n \in 1 .. BatchSize : SquareOne(n)) \/ PublishOne \/ EndOneVdf)
  BY <1>4, <1>16 DEF SquareOne, PublishOne, EndOneVdf, mainVars
<1>17. CASE UNCHANGED twoVars /\ (ReadWanted \/ OneMain \/ ReadOneStop)
  <2>1. ~two_weso'
    BY <1>0, <1>17 DEF ReadWanted, OneMain, JoinOneVdf, JoinProver, ReadOneStop, Sessions
  <2> QED BY <1>4, <2>1
<1>18. CASE UNCHANGED twoVars /\ Prover
  BY <1>5, <1>18 DEF Prover, PollIterations, TestStopped, Finish, Abandon, LeaveWait, CheckStopped, WriteProof, OnlyProver,
                     squaringVars, mainVars, twoVars, listenerVars
<1>19. CASE UNCHANGED vars
  BY <1>5, <1>19 DEF vars, squaringVars, mainVars, twoVars, listenerVars
<1> QED BY StepCases, <1>8, <1>9, <1>10, <1>11, <1>12, <1>13, <1>14, <1>15, <1>16, <1>17, <1>18, <1>19

LEMMA ReachInitially == Init => Reach
BY DEF Init, InitSquaring, Reach

\* The forms that were stored fit.
LEMMA LastSlotFits ==
  ASSUME IInv, Room, Reach, two_weso
  PROVE  LastSlot < Space /\ LastSlot \in Int /\ Space \in Int
<1> DEFINE FS == Furthest(SwitchIters)
           FL == Furthest(Limit)
           N == num_iterations
           a == switch_iters \div LargeStep
           b == N \div LargeStep
           SB == SwitchedBy
           EB == EndedBy
<1>0. /\ N \in Nat /\ SmallStep \in Nat \ {0} /\ LargeStep \in Nat \ {0} /\ Ratio - 1 \in Nat /\ BatchSize \in Nat \ {0}
      /\ Limit \in Nat \ {0} /\ SwitchIters \in Nat \ {0} /\ MaxIters \in Nat /\ Ratio \in Nat
  BY Constants DEF IInv, TypeOK, SquaringOK, Room
<1>1. FS \in Nat /\ FL \in Nat
  <2>1. CheckpointAfter(Limit) \in Nat /\ CheckpointAfter(SwitchIters) \in Nat
    BY <1>0, CheckpointIs
  <2> QED BY <1>0, <2>1 DEF Furthest
<1>2. SB = (FS + LargeStep - 1) \div LargeStep /\ EB = FL \div LargeStep
  BY DEF SwitchedBy, EndedBy
<1>3. (Ratio - 1) * SB + SB < Space /\ (Ratio - 1) * SB + EB < Space
  BY DEF Room
<1>4. Space \in Int
  <2>1. \A x \in Int : x \div LargeStep \in Int
    BY <1>0
  <2>2. SwitchIters \div SmallStep \in Int /\ MaxIters - SwitchIters \in Int
    BY <1>0
  <2> QED BY <2>1, <2>2 DEF Space
<1>5. /\ switch_iters = -1 => N <= FS
      /\ N <= FL \/ N < FS + LargeStep
      /\ switch_iters # -1 => switch_iters < FS + LargeStep
  BY DEF Reach
<1>6. switch_iters # -1 => switch_iters \in 0 .. N /\ switch_iters % LargeStep = 0
  BY DEF IInv, Steps
<1> HIDE DEF FS, FL
<1>7. SB \in Nat /\ EB \in Nat /\ FS <= SB * LargeStep
  <2> DEFINE v == FS + LargeStep - 1
  <2>1. v \in Nat
    BY <1>0, <1>1
  <2>2. SB = v \div LargeStep
    BY <1>2
  <2>3. v = FS + LargeStep - 1
    OBVIOUS
  <2> HIDE DEF v, SB
  <2>4. SB \in Nat /\ v < SB * LargeStep + LargeStep /\ SB * LargeStep \in Nat
    BY <1>0, <2>1, <2>2, DivBelow, Product
  <2>5. FS <= SB * LargeStep
    BY <1>0, <1>1, <2>3, <2>4
  <2> QED BY <1>0, <1>1, <1>2, <2>4, <2>5, DivMod
<1> HIDE DEF SB, EB
<1>8. CASE switch_iters = -1
  <2>1. LastSlot = N \div SmallStep
    BY <1>8 DEF LastSlot
  <2>2. SB * Ratio \in Nat /\ SB * LargeStep \in Nat /\ (SB * LargeStep) \div SmallStep = SB * Ratio
    BY <1>0, <1>7, OnBothGrids, Product
  <2>3. N <= SB * LargeStep
    BY <1>0, <1>1, <1>5, <1>7, <1>8, <2>2
  <2>4. N \div SmallStep <= SB * Ratio /\ N \div SmallStep \in Nat
    <3> DEFINE w == SB * LargeStep
               o == N \div SmallStep
    <3>1. w \in Nat /\ N <= w /\ w \div SmallStep = SB * Ratio
      BY <2>2, <2>3
    <3> HIDE DEF w, N
    <3>2. o <= w \div SmallStep
      BY <1>0, <3>1, DivOrder
    <3>3. o \in Nat
      BY <1>0, DivMod
    <3> QED BY <3>1, <3>2, <3>3
  <2>5. SB * Ratio = (Ratio - 1) * SB + SB /\ (Ratio - 1) * SB \in Nat
    BY <1>0, <1>7
  <2> QED BY <1>3, <1>4, <1>7, <2>1, <2>2, <2>4, <2>5
<1>9. CASE switch_iters # -1
  <2>1. switch_iters \in Nat /\ switch_iters <= N /\ switch_iters < FS + LargeStep /\ switch_iters % LargeStep = 0
    BY <1>0, <1>5, <1>6, <1>9
  <2>2. a \in Nat /\ switch_iters = a * LargeStep
    BY <1>0, <2>1, Multiple
  <2>3. b \in Nat /\ b * LargeStep <= N /\ N < b * LargeStep + LargeStep
    BY <1>0, DivBelow
  <2>4. a <= SB
    <3>1. switch_iters <= FS + LargeStep - 1 /\ FS + LargeStep - 1 \in Nat
      BY <1>0, <1>1, <2>1
    <3> QED BY <1>0, <1>2, <2>1, <3>1, DivOrder
  <2>5. b <= EB \/ b <= SB
    <3>1. CASE N <= FL
      BY <1>0, <1>1, <1>2, <3>1, DivOrder
    <3>2. CASE N < FS + LargeStep
      <4>1. N <= FS + LargeStep - 1 /\ FS + LargeStep - 1 \in Nat
        BY <1>0, <1>1, <3>2
      <4> QED BY <1>0, <1>2, <4>1, DivOrder
    <3> QED BY <1>5, <3>1, <3>2
  <2>6. a <= b
    BY <1>0, <2>1, DivOrder
  <2> HIDE DEF a, b, N
  <2>7. a * LargeStep \in Nat /\ b * LargeStep \in Nat /\ (b - a) * LargeStep = b * LargeStep - a * LargeStep /\ b - a \in Nat
    BY <1>0, <2>2, <2>3, <2>6
  <2>8. (N - switch_iters) \div LargeStep = b - a
    <3> DEFINE v == N - switch_iters
               k == b - a
    <3>1. v \in Nat /\ k \in Nat /\ k * LargeStep <= v /\ v < k * LargeStep + LargeStep
      BY <1>0, <2>1, <2>2, <2>3, <2>7
    <3> HIDE DEF v, k
    <3>2. v \div LargeStep = k
      BY <1>0, <3>1, DivIs
    <3> QED BY <3>2 DEF v, k
  <2>9. switch_iters \div SmallStep = a * Ratio /\ a * Ratio \in Nat
    BY <2>2, OnBothGrids
  <2>10. LastSlot = a * Ratio + (b - a)
    BY <1>9, <2>8, <2>9 DEF LastSlot, N
  <2>11. a * Ratio = a * (Ratio - 1) + a
    BY <1>0, <2>2
  <2>12. a * (Ratio - 1) <= SB * (Ratio - 1) /\ a * (Ratio - 1) \in Nat /\ SB * (Ratio - 1) \in Nat
    BY <1>0, <1>7, <2>2, <2>4, ProductMono
  <2>13. SB * (Ratio - 1) = (Ratio - 1) * SB
    BY <1>0, <1>7
  <2>14. LastSlot = a * (Ratio - 1) + b
    BY <2>2, <2>3, <2>10, <2>11, <2>12
  <2> QED BY <1>3, <1>4, <1>7, <2>3, <2>5, <2>12, <2>13, <2>14
<1> QED BY <1>8, <1>9

LEMMA BoundsKept == IInv /\ Room /\ Reach => WithinBounds
<1> SUFFICES ASSUME IInv, Room, Reach PROVE WithinBounds
  OBVIOUS
<1>1. ASSUME NEW e \in Slots, e >= Space PROVE two_forms[e] = Unset
  <2>0. e \in Nat
    BY DEF Slots
  <2>1. CASE two_weso
    <3>1. LastSlot < Space /\ LastSlot \in Int /\ Space \in Int
      BY <2>1, LastSlotFits
    <3>2. e > LastSlot
      BY <1>1, <2>0, <3>1
    <3> QED BY <2>1, <3>2 DEF IInv, TwoStored
  <2>2. CASE ~two_weso
    <3>1. two_forms = [x \in Slots |-> IF x = 0 THEN 0 ELSE Unset]
      BY <2>2 DEF IInv, Sessions, TwoUntouched
    <3>2. e # 0
      <4>1. Ratio - 1 \in Nat /\ LargeStep \in Nat \ {0} /\ Limit \in Nat \ {0} /\ SwitchIters \in Nat \ {0}
            /\ BatchSize \in Nat \ {0} /\ SmallStep \in Nat \ {0} /\ MaxIters \in Nat
        BY Constants DEF Room
      <4>2. CheckpointAfter(SwitchIters) \in Nat
        BY <4>1, CheckpointIs
      <4>3. Furthest(SwitchIters) + LargeStep - 1 \in Nat
        BY <4>1, <4>2 DEF Furthest
      <4> DEFINE v == Furthest(SwitchIters) + LargeStep - 1
      <4>4. SwitchedBy = v \div LargeStep
        BY DEF SwitchedBy
      <4>5. v \in Nat
        BY <4>3
      <4> HIDE DEF v
      <4>6. SwitchedBy \in Nat
        BY <4>1, <4>4, <4>5, DivMod
      <4>7. (Ratio - 1) * SwitchedBy \in Nat
        BY <4>1, <4>6, Product
      <4>8. (Ratio - 1) * SwitchedBy + SwitchedBy < Space
        BY DEF Room
      <4>9. Space \in Int
        <5>1. \A x \in Int : x \div LargeStep \in Int
          BY <4>1
        <5>2. SwitchIters \div SmallStep \in Int /\ MaxIters - SwitchIters \in Int
          BY <4>1
        <5> QED BY <5>1, <5>2 DEF Space
      <4> QED BY <1>1, <2>0, <4>6, <4>7, <4>8, <4>9
    <3> QED BY <3>1, <3>2
  <2> QED BY <2>1, <2>2
<1>2. ASSUME ~stopped PROVE Cardinality(seen) <= MaxProcesses /\ \A n \in stop_vector, m \in seen : m < n
  <2>1. Len(threads) \in Nat /\ MaxProcesses \in Nat
    BY TwoWesoAssumption DEF IInv, TypeOK, TwoWesoOK
  <2> QED BY <1>2, <2>1 DEF IInv, Pool
<1> QED BY <1>1, <1>2 DEF WithinBounds

\* The room between kMaxItersAllowed and the iteration at which the squarer ends
\* makes up for what it stores densely beyond kSwitchIters, as both limits are
\* only tested at the checkpoints: no form is stored outside the array that
\* TwoWesolowskiCallback allocates.  And the pool of requests never holds more
\* than kMaxProcessesAllowed, nor one that is larger than one it gave up.
THEOREM StaysWithinBounds ==
  ASSUME Room
  PROVE  Spec => []WithinBounds
<1> DEFINE Inv == IInv /\ Reach
<1>1. Init => Inv
  BY Initially, ReachInitially
<1>2. Inv /\ [Next]_vars => Inv'
  <2>1. SUFFICES ASSUME IInv, Reach, [Next]_vars PROVE IInv' /\ Reach'
    OBVIOUS
  <2>2. Reach'
    BY <2>1, ReachStep
  <2>3. IInv'
    BY <2>1, InvariantStep
  <2> QED BY <2>2, <2>3
<1>3. Inv => WithinBounds
  BY BoundsKept
<1> QED BY <1>1, <1>2, <1>3, PTL DEF Spec

=============================================================================
