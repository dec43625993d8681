------------------------------ MODULE HwProofs ------------------------------
(***************************************************************************)
(* Theorems about module HwClient, for every interval, target, number of   *)
(* auxiliary threads, thresholds, engine and requests: the forms of a      *)
(* session are right and none is forgotten, and proofs never hold all the  *)
(* auxiliary threads.                                                      *)
(***************************************************************************)
EXTENDS HwClient, FiniteSetTheorems, SequenceTheorems, WellFoundedInduction, TLAPS

LEMMA LeastNat ==
  ASSUME NEW S, S \subseteq Nat, S # {}
  PROVE  \E n \in S : \A m \in S : n <= m
<1>1. PICK n \in S : \A m \in S : ~(<<m, n>> \in OpToRel(<, Nat))
  BY NatLessThanWellFounded, WFMin, Zenon
<1>2. \A m \in S : ~(m < n)
  BY <1>1 DEF OpToRel
<1> QED BY <1>2

LEMMA MinIs ==
  ASSUME NEW S, S \subseteq Nat, S # {}
  PROVE  Min(S) \in S /\ \A m \in S : Min(S) <= m
BY LeastNat DEF Min

LEMMA MaxIs ==
  ASSUME NEW n \in Nat, NEW S, S \subseteq 0 .. n, S # {}
  PROVE  Max(S) \in S /\ \A m \in S : m <= Max(S)
<1> DEFINE T == {k \in Nat : k <= n /\ n - k \in S}
<1>1. T # {}
  <2>1. PICK s \in S : TRUE
    OBVIOUS
  <2>2. n - s \in T
    BY <2>1
  <2> QED BY <2>2
<1>2. PICK k \in T : \A j \in T : k <= j
  <2>1. T \subseteq Nat
    OBVIOUS
  <2> HIDE DEF T
  <2> QED BY <1>1, <2>1, LeastNat
<1>3. n - k \in S /\ \A m \in S : m <= n - k
  <2>1. ASSUME NEW m \in S PROVE m <= n - k
    <3>1. m \in Nat /\ n - m \in Nat /\ n - (n - m) = m
      OBVIOUS
    <3>2. n - m \in T
      BY <3>1
    <3>3. k <= n - m /\ k \in Nat
      BY <1>2, <3>2
    <3> HIDE DEF T
    <3> QED BY <3>1, <3>3
  <2> QED BY <1>2, <2>1
<1> QED BY <1>3 DEF Max

-----------------------------------------------------------------------------
(* The free slots in their order.                                          *)

LEMMA FreeFinite ==
  /\ IsFiniteSet(Free) /\ Free \subseteq 1 .. MaxAux /\ Cardinality(Free) \in Nat
  /\ \A i : FreeBefore(i) \in Nat
<1>1. MaxAux \in Nat
  BY HwAssumption
<1>2. IsFiniteSet(1 .. MaxAux) /\ Free \subseteq 1 .. MaxAux
  BY <1>1, FS_Interval DEF Free
<1>3. IsFiniteSet(Free)
  BY <1>2, FS_Subset
<1>4. ASSUME NEW i PROVE FreeBefore(i) \in Nat
  <2>1. {j \in Free : j < i} \subseteq Free
    OBVIOUS
  <2>2. IsFiniteSet({j \in Free : j < i})
    BY <1>3, <2>1, FS_Subset
  <2> QED BY <2>2, FS_CardinalityType DEF FreeBefore
<1> QED BY <1>2, <1>3, <1>4, FS_CardinalityType

\* What the first n free slots are given goes to exactly n slots.
LEMMA FirstFree ==
  ASSUME NEW n \in 0 .. Cardinality(Free)
  PROVE  LET first == {i \in Free : FreeBefore(i) < n}
         IN  /\ IsFiniteSet(first) /\ Cardinality(first) = n
             /\ \A k \in 0 .. n - 1 : \E i \in Free : FreeBefore(i) = k
<1> DEFINE R(k) == {i \in Free : FreeBefore(i) < k}
           Below(i) == {j \in Free : j < i}
<1>1. IsFiniteSet(Free) /\ Free \subseteq 1 .. MaxAux /\ MaxAux \in Nat /\ Cardinality(Free) \in Nat
  BY FreeFinite, HwAssumption
<1>2. \A i : IsFiniteSet(Below(i)) /\ FreeBefore(i) = Cardinality(Below(i)) /\ FreeBefore(i) \in Nat
  <2> SUFFICES ASSUME NEW i PROVE IsFiniteSet(Below(i)) /\ FreeBefore(i) = Cardinality(Below(i)) /\ FreeBefore(i) \in Nat
    OBVIOUS
  <2>1. Below(i) \subseteq Free
    OBVIOUS
  <2>2. IsFiniteSet(Below(i))
    BY <1>1, <2>1, FS_Subset
  <2>3. FreeBefore(i) = Cardinality(Below(i))
    BY DEF FreeBefore
  <2> QED BY <2>2, <2>3, FS_CardinalityType
<1>3. \A i, j \in Free : i < j => FreeBefore(i) < FreeBefore(j)
  <2> SUFFICES ASSUME NEW i \in Free, NEW j \in Free, i < j PROVE FreeBefore(i) < FreeBefore(j)
    OBVIOUS
  <2>A. \A k \in Free : k \in Nat
    BY <1>1
  <2>1. Below(i) \subseteq Below(j) /\ i \in Below(j) /\ i \notin Below(i)
    BY <2>A
  <2> HIDE DEF Below
  <2>2. /\ IsFiniteSet(Below(j)) /\ FreeBefore(i) = Cardinality(Below(i))
        /\ FreeBefore(j) = Cardinality(Below(j)) /\ FreeBefore(i) \in Nat /\ FreeBefore(j) \in Nat
    BY <1>2
  <2>3. Cardinality(Below(i)) <= Cardinality(Below(j))
    BY <2>1, <2>2, FS_Subset
  <2>4. Cardinality(Below(i)) # Cardinality(Below(j))
    BY <2>1, <2>2, FS_Subset
  <2> QED BY <2>2, <2>3, <2>4
<1>N. (\A i : FreeBefore(i) \in Nat) /\ (\A i \in Free : i \in Nat)
  <2>1. \A i \in Free : i \in Nat
    BY <1>1
  <2> QED BY <1>2, <2>1
<1>4. ASSUME NEW k \in Nat, k < Cardinality(Free), IsFiniteSet(R(k)), Cardinality(R(k)) = k
      PROVE  \E m \in Free : FreeBefore(m) = k /\ m \notin R(k) /\ R(k + 1) = R(k) \cup {m}
  <2>1. R(k) \subseteq Free /\ R(k) # Free
    BY <1>4
  <2>2. PICK m \in Free \ R(k) : \A j \in Free \ R(k) : m <= j
    <3>1. Free \ R(k) \subseteq Nat /\ Free \ R(k) # {}
      <4> HIDE DEF R
      <4> QED BY <1>N, <2>1
    <3> HIDE DEF R
    <3> QED BY <3>1, LeastNat
  <2>3. Below(m) = R(k)
    <3>1. ASSUME NEW j \in Below(m) PROVE j \in R(k)
      BY <1>1, <2>2
    <3>2. ASSUME NEW j \in R(k) PROVE j < m
      <4>1. j \in Free /\ m \in Free /\ FreeBefore(j) < k /\ ~(FreeBefore(m) < k)
        BY <2>2
      <4>2. CASE m < j
        BY <1>3, <1>N, <4>1, <4>2
      <4>3. CASE m = j
        BY <4>1, <4>3
      <4> QED BY <1>N, <4>1, <4>2, <4>3
    <3> QED BY <3>1, <3>2
  <2>4. FreeBefore(m) = k
    BY <1>2, <1>4, <2>3
  <2>5. R(k + 1) = R(k) \cup {m}
    <3>1. ASSUME NEW j \in Free, FreeBefore(j) < k + 1, ~(FreeBefore(j) < k) PROVE j = m
      <4>1. FreeBefore(j) = k
        BY <1>4, <1>N, <3>1
      <4>2. ~(j < m) /\ ~(m < j)
        BY <1>3, <1>N, <2>2, <2>4, <4>1
      <4> QED BY <1>N, <2>2, <4>2
    <3>2. FreeBefore(m) < k + 1 /\ \A j : FreeBefore(j) < k => FreeBefore(j) < k + 1
      BY <1>4, <1>N, <2>4
    <3> QED BY <2>2, <3>1, <3>2
  <2> QED BY <2>2, <2>4, <2>5
<1> DEFINE Good(k) == /\ IsFiniteSet(R(k)) /\ Cardinality(R(k)) = k
                      /\ \A l \in 0 .. k - 1 : \E i \in Free : FreeBefore(i) = l
           Bad == {k \in 0 .. Cardinality(Free) : ~Good(k)}
<1>5. SUFFICES ASSUME Bad # {} PROVE FALSE
  BY <1>5
<1>6. PICK k \in Bad : \A j \in Bad : k <= j
  <2>1. Bad \subseteq Nat
    BY <1>1
  <2> HIDE DEF Bad
  <2> QED BY <1>5, <2>1, LeastNat
<1>7. CASE k = 0
  <2>1. R(0) = {}
    BY <1>N
  <2>2. Good(0)
    BY <2>1, FS_EmptySet
  <2> QED BY <1>6, <1>7, <2>2
<1>8. CASE k # 0
  <2> DEFINE p == k - 1
  <2>1. p \in Nat /\ p < Cardinality(Free) /\ p \in 0 .. Cardinality(Free) /\ p + 1 = k /\ ~(k <= p)
    BY <1>1, <1>6, <1>8
  <2> HIDE DEF p
  <2>2. Good(p)
    BY <1>6, <2>1
  <2>3. PICK m \in Free : FreeBefore(m) = p /\ m \notin R(p) /\ R(p + 1) = R(p) \cup {m}
    BY <1>4, <2>1, <2>2
  <2>4. IsFiniteSet(R(k)) /\ Cardinality(R(k)) = k
    <3> HIDE DEF R
    <3> QED BY <2>1, <2>2, <2>3, FS_AddElement
  <2>5. \A l \in 0 .. k - 1 : \E i \in Free : FreeBefore(i) = l
    <3>1. \A l \in 0 .. k - 1 : l \in 0 .. p - 1 \/ l = p
      BY <2>1
    <3> QED BY <2>2, <2>3, <3>1
  <2>6. Good(k)
    BY <2>4, <2>5
  <2> QED BY <1>6, <2>6
<1> QED BY <1>7, <1>8

-----------------------------------------------------------------------------
(* The invariant.                                                          *)

\* Work begins with a right form and ends where the session does.
Works == {w \in [kind : {"work"}, from : [iters : Nat, form : Nat], next : Positions, end : Positions] :
            w.from.form = w.from.iters /\ w.next <= w.end}

Types ==
  /\ last \in [iters : 0 .. Target, form : Nat] /\ last.form = last.iters
  /\ offset \in 0 .. Target
  /\ forms \in [Positions -> Nat \cup {-1}]
  /\ wq \in Seq(Works)
  /\ slots = [i \in 1 .. MaxAux |-> slots[i]]
  /\ \A i \in 1 .. MaxAux : slots[i] = Idle \/ slots[i].kind = "proof" \/ slots[i] \in Works
  /\ owed \in Nat

\* A form is only found where it belongs, and the first one always.
FormsRight == /\ Valid(0)
              /\ \A pos \in Positions : Valid(pos) => forms[pos] = pos * Interval

\* No position the engine has passed is forgotten.
Covered(pos) ==
  \/ Valid(pos)
  \/ \E i \in 1 .. MaxAux : Covers(slots[i], pos)
  \/ \E k \in DOMAIN wq : Covers(wq[k], pos)
NothingForgotten == stopping \/ \A pos \in 0 .. last.iters \div Interval : Covered(pos)

\* Without a session the state is the initial one and no thread is at work; with
\* one that runs the engine's form is that of the offset.
Session ==
  /\ initDone <=> conn \in {"RUNNING", "IDLING"}
  /\ pc = "close" => ~initDone
  /\ pc \in {"status", "requests", "proofs", "works", "handled"} => conn = "RUNNING"
  /\ initDone \/ /\ last = [iters |-> 0, form |-> 0] /\ offset = 0 /\ stopping = FALSE
                 /\ forms = InitialForms /\ wq = <<>> /\ Free = 1 .. MaxAux
  /\ conn = "RUNNING" => eng = [on |-> eng.on, base |-> offset, at |-> eng.at] /\ eng.at \in Nat

\* n_proof_threads counts the proofs, and never goes far beyond its limit.
Counted ==
  late \/ /\ nProof = Parallel * (Cardinality(Proving) + owed)
          /\ nProof <= MaxProof + 1

Inv == Types /\ FormsRight /\ NothingForgotten /\ Session /\ Counted

\* How much work is started.
LEMMA StartedWorks ==
  ASSUME NEW l \in Nat
  PROVE  LET n == Min({l, Cardinality(Free)})
         IN  n \in Nat /\ n <= l /\ n <= Cardinality(Free)
<1> DEFINE S == {l, Cardinality(Free)}
<1>1. S \subseteq Nat /\ S # {} /\ l \in S /\ Cardinality(Free) \in S
  BY FreeFinite
<1> HIDE DEF S
<1>2. Min(S) \in S /\ \A m \in S : Min(S) <= m
  BY <1>1, MinIs
<1>3. Min(S) \in Nat /\ Min(S) <= l /\ Min(S) <= Cardinality(Free)
  BY <1>1, <1>2
<1> QED BY <1>3 DEF S

-----------------------------------------------------------------------------
(* What the steps do with the forms, the work and the threads.             *)

coreVars == <<last, offset, stopping, forms, slots, wq, nProof, owed, late>>

\* Only the offset changes, to the last good form.
OnlyOffset == offset' = LastGood * Interval /\ UNCHANGED <<last, stopping, forms, slots, wq, nProof, owed, late>>

\* A session is told to stop.
OnlyStop == stopping' = TRUE /\ initDone /\ UNCHANGED <<last, offset, forms, slots, wq, nProof, owed, late>>

LEMMA Steps ==
  [Next]_vars =>
    \/ UNCHANGED coreVars \/ OnlyStop \/ OnlyOffset
    \/ Challenge \/ ThreadsEnded \/ ReadNew
    \/ (StartProofs \/ StartWorks \/ CountDown) /\ UNCHANGED clientVars
    \/ \E i \in 1 .. MaxAux : AuxStep(i) /\ UNCHANGED clientVars
<1> SUFFICES ASSUME [Next]_vars
             PROVE  \/ UNCHANGED coreVars \/ OnlyStop \/ OnlyOffset
                    \/ Challenge \/ ThreadsEnded \/ ReadNew
                    \/ (StartProofs \/ StartWorks \/ CountDown) /\ UNCHANGED clientVars
                    \/ \E i \in 1 .. MaxAux : AuxStep(i) /\ UNCHANGED clientVars
  OBVIOUS
<1>1. CASE Connect \/ CloseConn \/ Exit \/ Interrupt
  BY <1>1 DEF Connect, CloseConn, Exit, Interrupt, coreVars, proofVars, valueVars, threadVars
<1>2. CASE GlobalStop \/ PeerStops
  <2>1. StopConn /\ UNCHANGED <<valueVars, threadVars, wq, late>>
    BY <1>2 DEF GlobalStop, PeerStops, UnchangedByStop
  <2> QED BY <2>1 DEF StopConn, coreVars, OnlyStop, valueVars, threadVars
<1>3. CASE Serve
  BY <1>3 DEF Serve, HandleProofs, EraseDone, ReceiveNothing, ReceiveRequests, coreVars, valueVars, threadVars
<1>4. CASE ReceiveFragment
  BY <1>4 DEF ReceiveFragment, coreVars, valueVars, threadVars
<1>5. CASE ProcessRequest /\ UNCHANGED clientVars
  BY <1>5 DEF ProcessRequest, coreVars, valueVars, threadVars
<1>6. CASE AfterValue
  BY <1>6 DEF AfterValue, coreVars, valueVars, threadVars
<1>7. CASE ReadStale
  <2>1. /\ Restart \/ UNCHANGED offset
        /\ UNCHANGED <<last, forms, wq, stopping, slots, nProof, owed, late>>
    BY <1>7 DEF ReadStale, UnchangedByStatus
  <2> QED BY <2>1 DEF Restart, coreVars, OnlyOffset
<1>8. CASE ReadBad
  BY <1>8 DEF ReadBad, Restart, UnchangedByStatus, OnlyOffset
<1>9. CASE UNCHANGED vars
  BY <1>9 DEF vars, proofVars, coreVars, valueVars, threadVars
<1> QED BY <1>1, <1>2, <1>3, <1>4, <1>5, <1>6, <1>7, <1>8, <1>9
        DEF Next, Stopping, WorkStep, StatusStep, Threads

-----------------------------------------------------------------------------
(* Positions.                                                              *)

LEMMA DivMod ==
  ASSUME NEW L \in Nat \ {0}, NEW v \in Nat
  PROVE  /\ v \div L \in Nat /\ v % L \in 0 .. L - 1
         /\ v = (v \div L) * L + (v % L)
OBVIOUS

LEMMA ProductOrder ==
  ASSUME NEW L \in Nat \ {0}, NEW a \in Nat, NEW b \in Nat, a < b
  PROVE  a * L + L <= b * L
OBVIOUS

LEMMA DivOrder ==
  ASSUME NEW L \in Nat \ {0}, NEW a \in Nat, NEW b \in Nat, a <= b
  PROVE  a \div L <= b \div L
<1> DEFINE p == a \div L
           q == b \div L
<1>1. /\ p \in Nat /\ p * L <= a
      /\ q \in Nat /\ b < q * L + L
  BY DivMod
<1> HIDE DEF p, q
<1>2. CASE q < p
  <2>1. q * L + L <= p * L
    BY <1>1, <1>2, ProductOrder
  <2> QED BY <1>1, <2>1
<1>3. CASE ~(q < p)
  BY <1>1, <1>3 DEF p, q
<1> QED BY <1>2, <1>3

LEMMA Reached ==
  ASSUME NEW v \in 0 .. Target
  PROVE  /\ v \div Interval \in Positions /\ v \div Interval \in Nat
         /\ (v \div Interval) * Interval \in 0 .. Target
         /\ v % Interval = 0 => v = (v \div Interval) * Interval
<1> DEFINE p == v \div Interval
<1>1. Interval \in Nat \ {0} /\ Target \in Nat /\ v \in Nat
  BY HwAssumption
<1>2. p \in Nat /\ v % Interval \in 0 .. Interval - 1 /\ v = p * Interval + (v % Interval)
  BY <1>1, DivMod
<1>3. p <= Target \div Interval
  BY <1>1, DivOrder
<1>4. Target \div Interval \in Nat
  BY <1>1, DivMod
<1>5. p * Interval \in Nat
  <2> HIDE DEF p
  <2> QED BY <1>1, <1>2
<1> HIDE DEF p
<1>6. p \in Positions
  BY <1>2, <1>3, <1>4 DEF Positions
<1>7. p * Interval \in 0 .. Target /\ (v % Interval = 0 => v = p * Interval)
  BY <1>1, <1>2, <1>5
<1> QED BY <1>2, <1>6, <1>7 DEF p

LEMMA LastGoodIs ==
  ASSUME Types, FormsRight
  PROVE  /\ LastGood \in Positions /\ Valid(LastGood)
         /\ LastGood * Interval \in 0 .. Target
<1> DEFINE n == last.iters \div Interval
           S == {pos \in 0 .. n : Valid(pos)}
<1>1. n \in Nat /\ n \in Positions /\ Interval \in Nat \ {0} /\ Target \in Nat
  BY Reached, HwAssumption DEF Types
<1>2. S # {} /\ S \subseteq 0 .. n
  BY <1>1 DEF FormsRight
<1>3. LastGood \in S
  <2>1. LastGood = Max(S)
    BY DEF LastGood
  <2> HIDE DEF S, n
  <2> QED BY <1>1, <1>2, <2>1, MaxIs
<1>4. LastGood \in Nat /\ LastGood \in Positions /\ Valid(LastGood)
  <2> HIDE DEF n
  <2> QED BY <1>1, <1>3 DEF Positions
<1>5. LastGood * Interval <= Target
  <2> DEFINE m == Target \div Interval
  <2>1. m \in Nat /\ Target = m * Interval
    <3>1. m \in Nat /\ Target = m * Interval + (Target % Interval)
      BY <1>1, DivMod
    <3>2. Target % Interval = 0 /\ m * Interval \in Nat
      <4> HIDE DEF m
      <4> QED BY <1>1, <3>1, HwAssumption
    <3> HIDE DEF m
    <3> QED BY <3>1, <3>2
  <2>2. LastGood <= m
    BY <1>4 DEF Positions
  <2> HIDE DEF m
  <2>3. CASE LastGood = m
    BY <2>1, <2>3
  <2>4. CASE LastGood < m
    <3>1. LastGood * Interval + Interval <= m * Interval
      BY <1>1, <1>4, <2>1, <2>4, ProductOrder
    <3> QED BY <1>1, <1>4, <2>1, <3>1
  <2> QED BY <1>4, <2>1, <2>2, <2>3, <2>4
<1>6. LastGood * Interval \in Nat
  BY <1>1, <1>4
<1> QED BY <1>1, <1>4, <1>5, <1>6

LEMMA NewValue ==
  ASSUME Types, Session, ReadNew
  PROVE  \E v \in 1 .. Target :
           /\ last' = [iters |-> v, form |-> v]
           /\ forms' = IF v % Interval = 0 THEN [forms EXCEPT ![v \div Interval] = v] ELSE forms
           /\ wq' = wq \o LeftToThreads([iters |-> v, form |-> v])
           /\ UNCHANGED <<offset, stopping, slots, nProof, owed, late, conn, initDone>>
           /\ pc' = "requests" /\ eng' = [eng EXCEPT !.at = eng'.at] /\ eng'.at \in Nat
<1>1. PICK s \in Strides :
        LET at == Min({eng.at + s, Target - offset})
            val == [iters |-> at + offset, form |-> eng.base + at]
        IN  at > eng.at /\ eng' = [eng EXCEPT !.at = at] /\ HandleValue(val)
  BY DEF ReadNew
<1> DEFINE at == Min({eng.at + s, Target - offset})
           val == [iters |-> at + offset, form |-> eng.base + at]
           v == at + offset
<1>2. at > eng.at /\ eng' = [eng EXCEPT !.at = at] /\ HandleValue(val)
  BY <1>1
<1>3. /\ eng.base = offset /\ eng.at \in Nat /\ s \in Nat /\ offset \in 0 .. Target /\ Target \in Nat
      /\ eng = [on |-> eng.on, base |-> eng.base, at |-> eng.at]
  BY HwAssumption, HwClientAssumption DEF ReadNew, Session, Types
<1>4. at \in Nat /\ at <= Target - offset
  <2> DEFINE S == {eng.at + s, Target - offset}
  <2>1. S \subseteq Nat /\ S # {}
    BY <1>3
  <2>2. Target - offset \in S
    OBVIOUS
  <2> HIDE DEF S
  <2>3. Min(S) \in S /\ \A m \in S : Min(S) <= m
    BY <2>1, MinIs
  <2>4. Min(S) \in Nat /\ Min(S) <= Target - offset
    BY <2>1, <2>2, <2>3
  <2> QED BY <2>4 DEF S
<1> HIDE DEF at
<1>5. v \in 1 .. Target /\ val = [iters |-> v, form |-> v]
  BY <1>2, <1>3, <1>4
<1>6. /\ last' = val /\ wq' = wq \o LeftToThreads(val) /\ pc' = "requests"
      /\ forms' = IF v % Interval = 0 THEN [forms EXCEPT ![v \div Interval] = v] ELSE forms
  <2>1. val.iters = v /\ val.form = v
    BY <1>5
  <2> HIDE DEF val, v
  <2> QED BY <1>2, <2>1 DEF HandleValue
<1>7. UNCHANGED <<offset, stopping, slots, nProof, owed, late, conn, initDone>>
  BY DEF ReadNew, UnchangedByStatus
<1>8. eng' = [eng EXCEPT !.at = eng'.at] /\ eng'.at \in Nat
  BY <1>2, <1>3, <1>4
<1> HIDE DEF val, v
<1> QED BY <1>5, <1>6, <1>7, <1>8

\* The positions between two values are the work that is left to the threads.
LEMMA LeftWork ==
  ASSUME Types, NEW v \in 1 .. Target
  PROVE  LET val == [iters |-> v, form |-> v]
         IN  /\ LeftToThreads(val) \in Seq(Works)
             /\ \A pos \in 0 .. v \div Interval :
                  pos > last.iters \div Interval /\ ~(v % Interval = 0 /\ pos = v \div Interval) =>
                    \E k \in DOMAIN LeftToThreads(val) : Covers(LeftToThreads(val)[k], pos)
<1> DEFINE val == [iters |-> v, form |-> v]
           a == last.iters \div Interval
           b == v \div Interval
           w == Work(last, FirstBetween, LastBetween(val))
<1>1. a \in Nat /\ b \in Nat /\ b \in Positions /\ val.iters = v
  BY Reached DEF Types
<1> HIDE DEF a, b
<1>2. FirstBetween = a + 1
  BY DEF FirstBetween, a
<1>3. LastBetween(val) = IF v % Interval = 0 THEN b - 1 ELSE b
  BY <1>1 DEF LastBetween, b
<1>4. Positions \subseteq Nat /\ \A p \in Nat : p <= b => p \in Positions
  <2>1. Target \div Interval \in Nat
    BY DivMod, HwAssumption
  <2> QED BY <1>1, <2>1 DEF Positions
<1>5. CASE LastBetween(val) > 0 /\ FirstBetween <= LastBetween(val)
  <2>1. LeftToThreads(val) = <<w>>
    BY <1>5 DEF LeftToThreads
  <2>2. w = [kind |-> "work", from |-> last, next |-> a + 1, end |-> LastBetween(val)]
    BY <1>2 DEF Work
  <2>3. a + 1 \in Positions /\ LastBetween(val) \in Positions /\ a + 1 <= LastBetween(val)
    BY <1>1, <1>2, <1>3, <1>4, <1>5
  <2>4. last \in [iters : Nat, form : Nat] /\ last.form = last.iters
    BY HwAssumption DEF Types
  <2> HIDE DEF w, val
  <2>5. w \in Works
    BY <2>2, <2>3, <2>4 DEF Works
  <2>6. ASSUME NEW pos \in 0 .. b, pos > a, ~(v % Interval = 0 /\ pos = b)
        PROVE  Covers(w, pos)
    <3>1. pos \in a + 1 .. LastBetween(val)
      BY <1>1, <1>3, <2>6
    <3> QED BY <2>2, <3>1 DEF Covers
  <2>7. 1 \in DOMAIN LeftToThreads(val) /\ LeftToThreads(val)[1] = w /\ LeftToThreads(val) \in Seq(Works)
    BY <2>1, <2>5
  <2> QED BY <2>6, <2>7 DEF a, b, val
<1>6. CASE ~(LastBetween(val) > 0 /\ FirstBetween <= LastBetween(val))
  <2>1. LeftToThreads(val) = <<>>
    BY <1>6 DEF LeftToThreads
  <2>2. ASSUME NEW pos \in 0 .. b, pos > a, ~(v % Interval = 0 /\ pos = b) PROVE FALSE
    BY <1>1, <1>2, <1>3, <1>6, <2>2
  <2> HIDE DEF val
  <2> QED BY <2>1, <2>2 DEF a, b, val
<1> QED BY <1>5, <1>6

LEMMA TypesNext == Types /\ FormsRight /\ Session /\ [Next]_vars => Types'
<1> SUFFICES ASSUME Types, FormsRight, Session, [Next]_vars PROVE Types'
  OBVIOUS
<1>1. CASE UNCHANGED coreVars
  BY <1>1 DEF coreVars, Types, Idle
<1>2. CASE OnlyStop \/ Challenge
  BY <1>2 DEF OnlyStop, Challenge, Types, Idle, valueVars
<1>3. CASE OnlyOffset
  BY <1>3, LastGoodIs DEF OnlyOffset, Types, Idle
<1>4. CASE ThreadsEnded
  <2>1. InitialForms \in [Positions -> Nat \cup {-1}]
    BY DEF InitialForms
  <2> QED BY <1>4, <2>1, HwAssumption DEF ThreadsEnded, Types, Idle
<1>5. CASE ReadNew
  <2>1. PICK v \in 1 .. Target :
           /\ last' = [iters |-> v, form |-> v]
           /\ forms' = IF v % Interval = 0 THEN [forms EXCEPT ![v \div Interval] = v] ELSE forms
           /\ wq' = wq \o LeftToThreads([iters |-> v, form |-> v])
           /\ UNCHANGED <<offset, slots, owed>>
    BY <1>5, NewValue
  <2>2. LeftToThreads([iters |-> v, form |-> v]) \in Seq(Works)
    BY LeftWork
  <2>3. v \in 0 .. Target /\ v \in Nat
    BY HwAssumption
  <2>4. last' \in [iters : 0 .. Target, form : Nat] /\ last'.form = last'.iters
    BY <2>1, <2>3
  <2>5. forms' \in [Positions -> Nat \cup {-1}]
    BY <2>1, <2>3 DEF Types
  <2>6. wq' \in Seq(Works)
    BY <2>1, <2>2 DEF Types
  <2> QED BY <2>1, <2>4, <2>5, <2>6 DEF Types, Idle
<1>6. CASE StartProofs
  <2>1. /\ slots' = [i \in 1 .. MaxAux |-> slots'[i]]
        /\ \A i \in 1 .. MaxAux : slots'[i] = slots[i] \/ slots'[i].kind = "proof"
    BY <1>6 DEF StartProofs
  <2> QED BY <1>6, <2>1 DEF StartProofs, Types, Idle, valueVars
<1>7. CASE StartWorks
  <2> DEFINE n == Min({Len(wq), Cardinality(Free)})
  <2>1. wq \in Seq(Works) /\ Len(wq) \in Nat
    BY DEF Types
  <2>2. n <= Len(wq) /\ n \in Nat /\ \A i \in Free : FreeBefore(i) \in Nat
    BY <2>1, StartedWorks, FreeFinite
  <2>3. /\ slots' = [i \in 1 .. MaxAux |-> IF i \in Free /\ FreeBefore(i) < n THEN wq[FreeBefore(i) + 1] ELSE slots[i]]
        /\ wq' = SubSeq(wq, n + 1, Len(wq)) /\ UNCHANGED <<last, offset, forms, owed>>
    BY <1>7 DEF StartWorks, valueVars
  <2> HIDE DEF n
  <2>4. ASSUME NEW i \in 1 .. MaxAux PROVE slots'[i] = slots[i] \/ slots'[i] \in Works
    <3>1. CASE i \in Free /\ FreeBefore(i) < n
      <4>1. FreeBefore(i) + 1 \in 1 .. Len(wq)
        BY <2>1, <2>2, <3>1
      <4> QED BY <2>1, <2>3, <3>1, <4>1
    <3>2. CASE ~(i \in Free /\ FreeBefore(i) < n)
      BY <2>3, <3>2
    <3> QED BY <3>1, <3>2
  <2>5. wq' \in Seq(Works)
    BY <2>1, <2>2, <2>3
  <2> QED BY <2>3, <2>4, <2>5 DEF Types, Idle
<1>8. CASE CountDown
  BY <1>8 DEF CountDown, Types, Idle, valueVars
<1>9. ASSUME NEW i \in 1 .. MaxAux, CalcValue(i) PROVE Types'
  <2>1. slots[i] \in Works
    BY <1>9 DEF CalcValue, Types, Idle
  <2> DEFINE w == slots[i]
  <2>2. /\ w.next \in Positions /\ w.end \in Positions /\ w.from.form = w.from.iters /\ w.from.iters \in Nat
        /\ w.next \in Nat /\ w.end \in Nat /\ w.kind = "work"
        /\ w.next < w.end => w.next + 1 \in Positions
    <3>1. Target \div Interval \in Nat
      BY DivMod, HwAssumption
    <3> QED BY <2>1, <3>1 DEF Works, Positions
  <2>3. w.from.form + w.next * Interval - w.from.iters \in Nat
    <3>1. w.next * Interval \in Nat
      BY <2>2, HwAssumption
    <3> QED BY <2>2, <3>1
  <2>4. forms' \in [Positions -> Nat \cup {-1}]
    <3>1. forms' = [forms EXCEPT ![w.next] = w.from.form + w.next * Interval - w.from.iters]
      BY <1>9 DEF CalcValue
    <3> HIDE DEF w
    <3> QED BY <2>2, <2>3, <3>1 DEF Types
  <2>5. /\ slots' = [j \in 1 .. MaxAux |-> slots'[j]]
        /\ \A j \in 1 .. MaxAux \ {i} : slots'[j] = slots[j]
        /\ slots'[i] = Idle \/ (w.next < w.end /\ slots'[i] = [w EXCEPT !.next = @ + 1])
    BY <1>9 DEF CalcValue, Release, Types
  <2>6. slots'[i] = Idle \/ slots'[i] \in Works
    BY <2>1, <2>2, <2>5 DEF Works
  <2> QED BY <1>9, <2>4, <2>5, <2>6 DEF CalcValue, Types, Idle, valueVars
<1>10. ASSUME NEW i \in 1 .. MaxAux, CalcStopped(i) \/ ComputeProof(i) \/ ProofStopped(i) PROVE Types'
  <2>1. /\ slots' = [slots EXCEPT ![i] = Idle] /\ owed' \in Nat
        /\ UNCHANGED <<last, offset, forms, wq>>
    BY <1>10 DEF CalcStopped, ComputeProof, ProofStopped, Release, valueVars, Types
  <2>2. /\ slots' = [j \in 1 .. MaxAux |-> slots'[j]]
        /\ \A j \in 1 .. MaxAux : slots'[j] = slots[j] \/ slots'[j] = Idle
    BY <2>1 DEF Types
  <2> QED BY <2>1, <2>2 DEF Types, Idle
<1> QED BY <1>1, <1>2, <1>3, <1>4, <1>5, <1>6, <1>7, <1>8, <1>9, <1>10, Steps DEF AuxStep

LEMMA InitialRight == forms' = InitialForms => FormsRight'
<1>1. 0 \in Positions
  <2>1. Target \div Interval \in Nat
    BY DivMod, HwAssumption
  <2> QED BY <2>1 DEF Positions
<1>2. 0 * Interval = 0
  BY HwAssumption
<1> QED BY <1>1, <1>2 DEF InitialForms, FormsRight, Valid

LEMMA FormsRightNext == Types /\ FormsRight /\ Session /\ [Next]_vars => FormsRight'
<1> SUFFICES ASSUME Types, FormsRight, Session, [Next]_vars PROVE FormsRight'
  OBVIOUS
<1>1. ASSUME UNCHANGED forms PROVE FormsRight'
  BY <1>1 DEF FormsRight, Valid
<1>2. CASE UNCHANGED coreVars \/ OnlyStop \/ OnlyOffset \/ Challenge
  BY <1>1, <1>2 DEF coreVars, OnlyStop, OnlyOffset, Challenge
<1>3. CASE ThreadsEnded
  BY <1>3, InitialRight DEF ThreadsEnded
<1>4. CASE ReadNew
  <2>1. PICK v \in 1 .. Target : forms' = IF v % Interval = 0 THEN [forms EXCEPT ![v \div Interval] = v] ELSE forms
    BY <1>4, NewValue
  <2>2. v \in 0 .. Target /\ v \in Nat
    BY HwAssumption
  <2>3. v \div Interval \in Positions /\ (v % Interval = 0 => v = (v \div Interval) * Interval)
    BY <2>2, Reached
  <2> DEFINE p == v \div Interval
  <2> HIDE DEF p
  <2>4. CASE v % Interval = 0
    <3>1. forms' = [forms EXCEPT ![p] = v] /\ p \in Positions /\ v = p * Interval
      BY <2>1, <2>3, <2>4 DEF p
    <3> QED BY <2>2, <3>1 DEF FormsRight, Valid, Types
  <2>5. CASE ~(v % Interval = 0)
    BY <1>1, <2>1, <2>5
  <2> QED BY <2>4, <2>5
<1>5. CASE StartProofs \/ StartWorks \/ CountDown
  BY <1>1, <1>5 DEF StartProofs, StartWorks, CountDown
<1>6. ASSUME NEW i \in 1 .. MaxAux, CalcValue(i) PROVE FormsRight'
  <2> DEFINE w == slots[i]
  <2>1. w \in Works
    BY <1>6 DEF CalcValue, Types, Idle
  <2>2. /\ w.next \in Positions /\ w.next \in Nat /\ w.from.form = w.from.iters /\ w.from.iters \in Nat
    BY <2>1 DEF Works, Positions
  <2>3. forms' = [forms EXCEPT ![w.next] = w.from.form + w.next * Interval - w.from.iters]
    BY <1>6 DEF CalcValue
  <2> HIDE DEF w
  <2>4. w.next * Interval \in Nat
    BY <2>2, HwAssumption
  <2>5. forms' = [forms EXCEPT ![w.next] = w.next * Interval]
    <3>1. w.from.form + w.next * Interval - w.from.iters = w.next * Interval
      BY <2>2, <2>4
    <3> QED BY <2>3, <3>1
  <2> QED BY <2>2, <2>4, <2>5 DEF FormsRight, Valid, Types
<1>7. ASSUME NEW i \in 1 .. MaxAux, CalcStopped(i) \/ ComputeProof(i) \/ ProofStopped(i) PROVE FormsRight'
  BY <1>1, <1>7 DEF CalcStopped, ComputeProof, ProofStopped
<1> QED BY <1>2, <1>3, <1>4, <1>5, <1>6, <1>7, Steps DEF AuxStep

LEMMA NothingForgottenNext ==
  Types /\ FormsRight /\ NothingForgotten /\ Session /\ [Next]_vars => NothingForgotten'
<1> SUFFICES ASSUME Types, FormsRight, NothingForgotten, Session, [Next]_vars PROVE NothingForgotten'
  OBVIOUS
\* A step that neither moves on nor uncovers a position.
<1>1. ASSUME UNCHANGED <<last, stopping>>, \A pos \in Positions : Covered(pos) => Covered(pos)'
      PROVE  NothingForgotten'
  <2>1. 0 .. last.iters \div Interval \subseteq Positions
    <3>1. last.iters \div Interval \in Positions
      BY Reached DEF Types
    <3>2. Target \div Interval \in Nat
      BY DivMod, HwAssumption
    <3> QED BY <3>1, <3>2 DEF Positions
  <2> QED BY <1>1, <2>1 DEF NothingForgotten
<1>2. CASE UNCHANGED coreVars \/ OnlyOffset \/ Challenge \/ CountDown
  <2>1. UNCHANGED <<last, stopping, forms, slots, wq>>
    BY <1>2 DEF coreVars, OnlyOffset, Challenge, CountDown, valueVars
  <2> QED BY <1>1, <2>1 DEF Covered, Valid
<1>3. CASE OnlyStop
  BY <1>3 DEF OnlyStop, NothingForgotten
<1>4. CASE ThreadsEnded
  <2>1. last'.iters \div Interval = 0
    BY <1>4, HwAssumption DEF ThreadsEnded
  <2>2. forms'[0] = 0
    BY <1>4, HwAssumption DEF ThreadsEnded, InitialForms, FormsRight, Positions
  <2> QED BY <2>1, <2>2 DEF NothingForgotten, Covered, Valid
<1>5. CASE ReadNew
  <2>1. PICK v \in 1 .. Target :
           /\ last' = [iters |-> v, form |-> v]
           /\ forms' = IF v % Interval = 0 THEN [forms EXCEPT ![v \div Interval] = v] ELSE forms
           /\ wq' = wq \o LeftToThreads([iters |-> v, form |-> v])
           /\ UNCHANGED <<stopping, slots>>
    BY <1>5, NewValue
  <2> DEFINE lw == LeftToThreads([iters |-> v, form |-> v])
             a == last.iters \div Interval
             b == v \div Interval
  <2>2. /\ lw \in Seq(Works)
        /\ \A pos \in 0 .. b : pos > a /\ ~(v % Interval = 0 /\ pos = b) => \E k \in DOMAIN lw : Covers(lw[k], pos)
    BY LeftWork
  <2>3. a \in Nat /\ b \in Nat /\ a \in Positions /\ b \in Positions /\ v \in Nat
    <3>1. v \in 0 .. Target /\ v \in Nat
      BY HwAssumption
    <3> QED BY <3>1, Reached DEF Types
  <2> HIDE DEF lw
  <2>4. last'.iters \div Interval = b
    BY <2>1
  <2> HIDE DEF a, b
  <2>5. /\ \A k \in DOMAIN wq : k \in DOMAIN wq' /\ wq'[k] = wq[k]
        /\ \A k \in DOMAIN lw : Len(wq) + k \in DOMAIN wq' /\ wq'[Len(wq) + k] = lw[k]
    <3>1. wq' = wq \o lw /\ wq \in Seq(Works)
      BY <2>1 DEF lw, Types
    <3> QED BY <2>2, <3>1
  <2>6. \A pos \in Positions : Valid(pos) => forms'[pos] # -1
    BY <2>1, <2>3 DEF Valid, Types
  <2>7. ASSUME ~stopping, NEW pos \in 0 .. b PROVE Covered(pos)'
    <3>1. CASE pos <= a
      <4>1. Covered(pos)
        BY <2>3, <2>7, <3>1 DEF NothingForgotten, a
      <4>2. pos \in Positions
        <5>1. Target \div Interval \in Nat
          BY DivMod, HwAssumption
        <5> QED BY <2>3, <5>1 DEF Positions
      <4> QED BY <2>1, <2>5, <2>6, <4>1, <4>2 DEF Covered, Valid
    <3>2. CASE pos > a /\ ~(v % Interval = 0 /\ pos = b)
      <4>1. PICK k \in DOMAIN lw : Covers(lw[k], pos)
        BY <2>2, <3>2
      <4> QED BY <2>5, <4>1 DEF Covered
    <3>3. CASE v % Interval = 0 /\ pos = b
      BY <2>1, <2>3, <3>3 DEF Covered, Valid, Types, b
    <3> QED BY <2>3, <3>1, <3>2, <3>3
  <2> QED BY <2>1, <2>4, <2>7 DEF NothingForgotten
<1>6. CASE StartProofs
  <2>1. \A i \in 1 .. MaxAux : slots[i].kind = "work" => slots'[i] = slots[i]
    BY <1>6 DEF StartProofs, Free, Idle
  <2>2. UNCHANGED <<last, stopping, forms, wq>>
    BY <1>6 DEF StartProofs, valueVars
  <2> QED BY <1>1, <2>1, <2>2 DEF Covered, Covers, Valid
<1>7. CASE StartWorks
  <2> DEFINE n == Min({Len(wq), Cardinality(Free)})
  <2>1. wq \in Seq(Works) /\ Len(wq) \in Nat
    BY DEF Types
  <2>2. n <= Len(wq) /\ n \in Nat /\ n \in 0 .. Cardinality(Free)
    BY <2>1, StartedWorks, FreeFinite
  <2>3. /\ slots' = [i \in 1 .. MaxAux |-> IF i \in Free /\ FreeBefore(i) < n THEN wq[FreeBefore(i) + 1] ELSE slots[i]]
        /\ wq' = SubSeq(wq, n + 1, Len(wq)) /\ UNCHANGED <<last, stopping, forms>>
    BY <1>7 DEF StartWorks, valueVars
  <2> HIDE DEF n
  <2>4. ASSUME NEW pos, NEW k \in DOMAIN wq, Covers(wq[k], pos) PROVE Covered(pos)'
    <3>1. CASE k <= n
      <4>1. k - 1 \in 0 .. n - 1 /\ k \in Nat
        BY <2>1, <2>2, <3>1
      <4>2. PICK i \in Free : FreeBefore(i) = k - 1
        BY <2>2, <4>1, FirstFree
      <4>3. slots'[i] = wq[k] /\ i \in 1 .. MaxAux
        BY <2>2, <2>3, <3>1, <4>1, <4>2 DEF Free
      <4> QED BY <2>4, <4>3 DEF Covered
    <3>2. CASE ~(k <= n)
      <4>1. k - n \in DOMAIN wq' /\ wq'[k - n] = wq[k]
        BY <2>1, <2>2, <2>3, <3>2
      <4> QED BY <2>4, <4>1 DEF Covered
    <3> QED BY <3>1, <3>2
  <2>5. \A i \in 1 .. MaxAux : slots[i].kind = "work" => slots'[i] = slots[i]
    BY <2>3 DEF Free, Idle
  <2> QED BY <1>1, <2>3, <2>4, <2>5 DEF Covered, Covers, Valid
<1>8. ASSUME NEW i \in 1 .. MaxAux, CalcValue(i) PROVE NothingForgotten'
  <2> DEFINE w == slots[i]
  <2>1. w \in Works
    BY <1>8 DEF CalcValue, Types, Idle
  <2>2. /\ w.next \in Positions /\ w.next \in Nat /\ w.end \in Nat /\ w.from.form = w.from.iters /\ w.from.iters \in Nat
        /\ w.kind = "work" /\ w.next <= w.end
    BY <2>1 DEF Works, Positions
  <2>3. /\ forms' = [forms EXCEPT ![w.next] = w.from.form + w.next * Interval - w.from.iters]
        /\ \A j \in 1 .. MaxAux \ {i} : slots'[j] = slots[j]
        /\ w.next < w.end => slots'[i] = [w EXCEPT !.next = @ + 1]
        /\ UNCHANGED <<last, stopping, wq>>
    BY <1>8 DEF CalcValue, Release, Types, valueVars
  <2>4. w.next < w.end => slots'[i].kind = "work" /\ slots'[i].next = w.next + 1 /\ slots'[i].end = w.end
    BY <2>1, <2>3 DEF Works
  <2>5. forms'[w.next] # -1 /\ \A pos \in Positions : Valid(pos) => forms'[pos] # -1
    <3>1. w.next * Interval \in Nat
      BY <2>2, HwAssumption
    <3> HIDE DEF w
    <3> QED BY <2>2, <2>3, <3>1 DEF Valid, Types
  <2>6. ASSUME NEW pos \in Positions, Covers(w, pos) PROVE Covered(pos)'
    <3>1. pos \in Nat /\ w.next <= pos /\ pos <= w.end
      BY <2>2, <2>6 DEF Covers, Positions
    <3>2. CASE pos = w.next
      BY <2>5, <3>2 DEF Covered, Valid
    <3>3. CASE pos # w.next
      <4>1. w.next < w.end /\ pos \in w.next + 1 .. w.end
        BY <2>2, <3>1, <3>3
      <4>2. Covers(slots'[i], pos)
        BY <2>4, <4>1 DEF Covers
      <4> QED BY <4>2 DEF Covered
    <3> QED BY <3>2, <3>3
  <2> QED BY <1>1, <2>3, <2>5, <2>6 DEF Covered, Valid
<1>9. ASSUME NEW i \in 1 .. MaxAux, CalcStopped(i) PROVE NothingForgotten'
  BY <1>9 DEF CalcStopped, NothingForgotten
<1>10. ASSUME NEW i \in 1 .. MaxAux, ComputeProof(i) \/ ProofStopped(i) PROVE NothingForgotten'
  <2>1. /\ slots[i].kind = "proof" /\ slots' = [slots EXCEPT ![i] = Idle]
        /\ UNCHANGED <<last, stopping, forms, wq>>
    BY <1>10 DEF ComputeProof, ProofStopped, Release, valueVars
  <2> QED BY <1>1, <2>1 DEF Covered, Covers, Valid, Types
<1> QED BY <1>2, <1>3, <1>4, <1>5, <1>6, <1>7, <1>8, <1>9, <1>10, Steps DEF AuxStep

LEMMA SessionNext == Types /\ FormsRight /\ Session /\ [Next]_vars => Session'
<1> SUFFICES ASSUME Types, FormsRight, Session, [Next]_vars PROVE Session'
  OBVIOUS
<1> DEFINE Empty == /\ last = [iters |-> 0, form |-> 0] /\ offset = 0 /\ stopping = FALSE
                    /\ forms = InitialForms /\ wq = <<>> /\ Free = 1 .. MaxAux
           EngineOK == conn = "RUNNING" => eng = [on |-> eng.on, base |-> offset, at |-> eng.at] /\ eng.at \in Nat
<1>1. UNCHANGED <<last, offset, stopping, forms, wq, slots>> => (Empty => Empty')
  BY DEF Free
<1>2. CASE Connect \/ CloseConn \/ Exit \/ Interrupt
  <2>1. UNCHANGED <<last, offset, stopping, forms, wq, slots, eng, initDone>>
    BY <1>2 DEF Connect, CloseConn, Exit, Interrupt, proofVars, clientVars, valueVars, threadVars
  <2> QED BY <1>1, <1>2, <2>1 DEF Connect, CloseConn, Exit, Interrupt, proofVars, clientVars, Session
<1>3. CASE Challenge
  <2>1. /\ UNCHANGED <<last, offset, stopping, forms, wq, slots>>
        /\ initDone' = TRUE /\ conn' = "RUNNING" /\ pc' = "status" /\ conn = "WAITING"
        /\ eng' = [on |-> TRUE, base |-> 0, at |-> 0]
    BY <1>3 DEF Challenge, AfterConn, valueVars
  <2>2. offset' = 0
    BY <2>1 DEF Session
  <2> QED BY <2>1, <2>2 DEF Session
<1>4. CASE GlobalStop \/ PeerStops
  <2>1. /\ StopConn /\ UNCHANGED <<last, offset, forms, wq, slots, initDone, eng>>
    BY <1>4 DEF GlobalStop, PeerStops, UnchangedByStop, valueVars, threadVars
  <2>2. CASE initDone
    BY <2>1, <2>2 DEF StopConn, Session
  <2>3. CASE ~initDone
    BY <1>1, <2>1, <2>3 DEF StopConn, Session
  <2> QED BY <2>2, <2>3
<1>5. CASE ThreadsEnded
  <2>1. Empty' /\ initDone' = FALSE /\ conn' = "STOPPED" /\ pc' = "close"
    BY <1>5 DEF ThreadsEnded, Free
  <2> QED BY <2>1 DEF Session
<1>6. CASE Serve \/ ReceiveFragment
  <2>1. UNCHANGED <<last, offset, stopping, forms, wq, slots, eng, initDone, conn>>
    BY <1>6 DEF Serve, HandleProofs, EraseDone, ReceiveNothing, ReceiveRequests, ReceiveFragment,
                valueVars, threadVars, clientVars
  <2>2. pc' \in {"receive", "erase", "conn", "dead", "status"} /\ (pc' = "status" => conn = "RUNNING")
    BY <1>6 DEF Serve, HandleProofs, EraseDone, ReceiveNothing, ReceiveRequests, ReceiveFragment, AfterConn
  <2> QED BY <1>1, <2>1, <2>2 DEF Session
<1>7. CASE WorkStep
  <2>1. pc \in {"requests", "proofs", "works"} /\ pc' \in {"requests", "proofs", "works", "handled"}
    BY <1>7 DEF WorkStep, ProcessRequest, StartProofs, StartWorks
  <2>2. UNCHANGED <<conn, initDone, eng, offset>>
    BY <1>7 DEF WorkStep, ProcessRequest, StartProofs, StartWorks, clientVars, valueVars
  <2> QED BY <2>1, <2>2 DEF Session
<1>8. CASE ReadNew
  <2>1. PICK v \in 1 .. Target :
           /\ UNCHANGED <<offset, conn, initDone>> /\ pc' = "requests"
           /\ eng' = [eng EXCEPT !.at = eng'.at] /\ eng'.at \in Nat
    BY <1>8, NewValue
  <2>2. pc = "status"
    BY <1>8 DEF ReadNew
  <2>3. eng' = [on |-> eng'.on, base |-> offset', at |-> eng'.at]
    BY <2>1, <2>2 DEF Session
  <2> QED BY <2>1, <2>2, <2>3 DEF Session
<1>9. CASE ReadStale \/ ReadBad
  <2>1. pc = "status" /\ pc' = "conn" /\ UNCHANGED <<conn, initDone>>
    BY <1>9 DEF ReadStale, ReadBad, Restart, UnchangedByStatus
  <2>2. EngineOK'
    <3>1. CASE Restart
      <4>1. LastGood \in Positions /\ forms[LastGood] = LastGood * Interval
        BY LastGoodIs DEF FormsRight
      <4> QED BY <3>1, <4>1 DEF Restart
    <3>2. CASE ~Restart
      <4>1. PICK s \in Strides \cup {0} :
              eng' = [eng EXCEPT !.at = Min({eng.at + s, Target - offset})] /\ UNCHANGED offset
        BY <1>9, <3>2 DEF ReadStale, ReadBad
      <4>2. eng.at \in Nat /\ s \in Nat /\ offset \in 0 .. Target /\ Target \in Nat
            /\ eng = [on |-> eng.on, base |-> offset, at |-> eng.at]
        BY <2>1, HwAssumption, HwClientAssumption DEF Session, Types
      <4> DEFINE S == {eng.at + s, Target - offset}
      <4>3. S \subseteq Nat /\ S # {}
        BY <4>2
      <4>4. Min(S) \in Nat
        <5> HIDE DEF S
        <5> QED BY <4>3, MinIs
      <4>5. eng' = [eng EXCEPT !.at = Min(S)]
        BY <4>1
      <4> HIDE DEF S
      <4> QED BY <4>1, <4>2, <4>4, <4>5
    <3> QED BY <3>1, <3>2
  <2> QED BY <2>1, <2>2 DEF Session
<1>10. CASE AfterValue
  <2>1. pc = "handled" /\ pc' = "conn" /\ UNCHANGED <<initDone, offset>>
        /\ conn' = (IF completed THEN "IDLING" ELSE conn) /\ eng' = (IF completed THEN Off ELSE eng)
    BY <1>10 DEF AfterValue, valueVars
  <2> QED BY <2>1 DEF Session
<1>11. CASE Threads
  <2>1. UNCHANGED <<pc, offset, stopping, conn, initDone, eng>>
    BY <1>11 DEF Threads, CountDown, AuxStep, CalcValue, CalcStopped, ComputeProof, ProofStopped, clientVars, valueVars
  <2>2. CASE initDone
    BY <2>1, <2>2 DEF Session
  <2>3. CASE ~initDone
    <3>1. \A i \in 1 .. MaxAux : ~AuxStep(i)
      BY <2>3 DEF Session, Free, Idle, AuxStep, CalcValue, CalcStopped, ComputeProof, ProofStopped
    <3>2. UNCHANGED <<last, offset, stopping, forms, wq, slots>>
      BY <1>11, <3>1 DEF Threads, CountDown, valueVars
    <3> QED BY <1>1, <2>1, <3>2 DEF Session
  <2> QED BY <2>2, <2>3
<1>12. CASE UNCHANGED vars
  <2>1. UNCHANGED <<pc, last, offset, stopping, forms, wq, slots, eng, initDone, conn>>
    BY <1>12 DEF vars, proofVars, clientVars, valueVars, threadVars
  <2> QED BY <1>1, <2>1 DEF Session
<1> QED BY <1>2, <1>3, <1>4, <1>5, <1>6, <1>7, <1>8, <1>9, <1>10, <1>11, <1>12
        DEF Next, Stopping, StatusStep

-----------------------------------------------------------------------------
(* The count of the proof threads.                                         *)

LEMMA ProvingFinite ==
  /\ IsFiniteSet(Proving) /\ Cardinality(Proving) \in Nat
  /\ Proving \cap Free = {}
<1>1. MaxAux \in Nat
  BY HwAssumption
<1>2. IsFiniteSet(1 .. MaxAux) /\ Proving \subseteq 1 .. MaxAux
  BY <1>1, FS_Interval DEF Proving
<1>3. IsFiniteSet(Proving)
  BY <1>2, FS_Subset
<1>4. Proving \cap Free = {}
  BY DEF Proving, Free, Idle
<1> QED BY <1>3, <1>4, FS_CardinalityType

LEMMA Limit == MaxProof \in Nat /\ MaxProof <= MaxAux - 1 /\ MaxAux \in 2 .. 64
BY HwAssumption DEF MaxProof

LEMMA StartableIs ==
  ASSUME nProof \in Nat
  PROVE  /\ Startable \in 0 .. Cardinality(Free)
         /\ Startable = 0 \/ nProof + Parallel * Startable <= MaxProof + 1
<1> DEFINE room == IF nProof >= MaxProof THEN 0 ELSE (MaxProof - nProof + Parallel - 1) \div Parallel
           m == Min({Cardinality(Free), room})
           S == {n \in 0 .. m : \A k \in 1 .. n : k \in DOMAIN queued /\ proofs[queued[k]].iters <= last.iters}
<1>1. room \in Nat /\ (room = 0 \/ nProof + 2 * room <= MaxProof + 1)
  BY Limit DEF Parallel
<1> HIDE DEF room
<1>2. m \in Nat /\ m <= room /\ m <= Cardinality(Free)
  <2> DEFINE T == {Cardinality(Free), room}
  <2>1. T \subseteq Nat /\ T # {} /\ room \in T /\ Cardinality(Free) \in T
    BY <1>1, FreeFinite
  <2> HIDE DEF T
  <2>2. Min(T) \in T /\ \A k \in T : Min(T) <= k
    BY <2>1, MinIs
  <2>3. Min(T) \in Nat /\ Min(T) <= room /\ Min(T) <= Cardinality(Free)
    BY <2>1, <2>2
  <2> QED BY <2>3 DEF T
<1> HIDE DEF m
<1>3. 0 \in S /\ S \subseteq 0 .. m
  BY <1>2
<1>4. Startable = Max(S)
  BY DEF Startable, room, m
<1> HIDE DEF S
<1>5. Max(S) \in S
  BY <1>2, <1>3, MaxIs
<1>6. Startable \in Nat /\ Startable <= m
  <2>1. Startable \in 0 .. m
    BY <1>3, <1>4, <1>5, Zenon
  <2> QED BY <1>2, <2>1
<1> QED BY <1>1, <1>2, <1>6, FreeFinite, Limit DEF Parallel

LEMMA CountedNext == Types /\ Session /\ Counted /\ [Next]_vars => Counted'
<1> SUFFICES ASSUME Types, Session, Counted, [Next]_vars PROVE Counted'
  OBVIOUS
<1>1. ASSUME UNCHANGED <<slots, nProof, owed, late>> PROVE Counted'
  BY <1>1 DEF Counted, Proving
<1>2. CASE UNCHANGED coreVars \/ OnlyStop \/ OnlyOffset \/ ThreadsEnded \/ ReadNew
  BY <1>1, <1>2 DEF coreVars, OnlyStop, OnlyOffset, ThreadsEnded, ReadNew, UnchangedByStatus
<1>3. CASE Challenge
  <2>1. conn = "WAITING" /\ nProof' = 0 /\ late' = (owed > 0) /\ UNCHANGED <<slots, owed>>
    BY <1>3 DEF Challenge
  <2>2. Proving' = {}
    BY <2>1 DEF Session, Free, Proving, Idle
  <2>3. owed \in Nat /\ (~(owed > 0) => owed = 0)
    BY DEF Types
  <2>4. Cardinality(Proving') = 0
    BY <2>2, FS_EmptySet
  <2>5. CASE owed > 0
    BY <2>1, <2>5, Zenon DEF Counted
  <2>6. CASE ~(owed > 0)
    <3>1. nProof' = 2 * (Cardinality(Proving') + owed') /\ nProof' <= MaxProof + 1
      BY <2>1, <2>3, <2>4, <2>6, Limit
    <3> QED BY <3>1 DEF Counted, Parallel, MaxProof
  <2> QED BY <2>5, <2>6
<1>4. SUFFICES ASSUME ~late, UNCHANGED late PROVE Counted'
  <2>1. late \/ ~late
    OBVIOUS
  <2> QED BY <1>2, <1>3, <1>4, Steps DEF Counted, StartProofs, StartWorks, CountDown, AuxStep, CalcValue, CalcStopped, ComputeProof, ProofStopped
<1>5. /\ nProof = 2 * (Cardinality(Proving) + owed) /\ nProof <= MaxProof + 1
      /\ owed \in Nat /\ Cardinality(Proving) \in Nat /\ MaxProof \in 0 .. 63
  <2>1. nProof = 2 * (Cardinality(Proving) + owed) /\ nProof <= MaxProof + 1
    BY <1>4 DEF Counted, Parallel
  <2>2. MaxProof \in 0 .. 63
    BY Limit
  <2> QED BY <2>1, <2>2, ProvingFinite DEF Types
<1>6. CASE StartProofs
  <2> DEFINE n == Startable
             new == {i \in Free : FreeBefore(i) < n}
  <2>1. n \in 0 .. Cardinality(Free) /\ (n = 0 \/ nProof + 2 * n <= MaxProof + 1)
    BY <1>5, StartableIs DEF Parallel
  <2>2. Proving' = Proving \cup new /\ Proving \cap new = {}
    <3>1. \A i \in 1 .. MaxAux : i \in Free /\ FreeBefore(i) < n => slots'[i].kind = "proof"
      BY <1>6 DEF StartProofs
    <3>2. \A i \in 1 .. MaxAux : ~(i \in Free /\ FreeBefore(i) < n) => slots'[i] = slots[i]
      BY <1>6 DEF StartProofs
    <3> QED BY <3>1, <3>2 DEF Proving, Free, Idle
  <2>3. IsFiniteSet(new) /\ Cardinality(new) = n
    BY <2>1, FirstFree
  <2>4. Cardinality(Proving') = Cardinality(Proving) + n
    <3> HIDE DEF new, n
    <3>1. Cardinality(Proving \cap new) = 0
      BY <2>2, FS_EmptySet
    <3> QED BY <1>5, <2>1, <2>2, <2>3, <3>1, FS_Union, ProvingFinite, FreeFinite
  <2>5. nProof' = (nProof + 2 * n) % 256 /\ owed' = owed
    BY <1>6 DEF StartProofs, Parallel
  <2> HIDE DEF n
  <2>6. n \in Nat
    BY <2>1, FreeFinite
  <2>7. nProof' = nProof + 2 * n
    BY <1>5, <2>1, <2>5, <2>6
  <2> QED BY <1>5, <2>1, <2>4, <2>5, <2>6, <2>7 DEF Counted, Parallel, MaxProof
<1>7. CASE StartWorks
  <2>1. \A i \in 1 .. MaxAux : slots'[i].kind = "proof" <=> slots[i].kind = "proof"
    <3> DEFINE n == Min({Len(wq), Cardinality(Free)})
    <3>1. wq \in Seq(Works) /\ n <= Len(wq) /\ n \in Nat /\ \A i \in Free : FreeBefore(i) \in Nat
      <4>1. wq \in Seq(Works) /\ Len(wq) \in Nat
        BY DEF Types
      <4> QED BY <4>1, StartedWorks, FreeFinite
    <3>2. slots' = [i \in 1 .. MaxAux |-> IF i \in Free /\ FreeBefore(i) < n THEN wq[FreeBefore(i) + 1] ELSE slots[i]]
      BY <1>7 DEF StartWorks
    <3> HIDE DEF n
    <3>3. ASSUME NEW i \in 1 .. MaxAux, i \in Free, FreeBefore(i) < n PROVE slots'[i].kind = "work" /\ slots[i].kind = "idle"
      <4>1. wq[FreeBefore(i) + 1] \in Works
        BY <3>1, <3>3
      <4> QED BY <3>2, <3>3, <4>1 DEF Works, Free, Idle
    <3> QED BY <3>2, <3>3
  <2>2. Proving' = Proving
    BY <2>1 DEF Proving
  <2> QED BY <1>5, <1>7, <2>2 DEF StartWorks, Counted, Parallel, MaxProof
<1>8. CASE CountDown
  <2>1. owed > 0 /\ owed' = owed - 1 /\ nProof' = (nProof - 2) % 256 /\ Proving' = Proving
    BY <1>8 DEF CountDown, Proving, Parallel
  <2>2. nProof' = nProof - 2
    BY <1>5, <2>1
  <2> QED BY <1>5, <2>1, <2>2 DEF Counted, Parallel, MaxProof
<1>9. ASSUME NEW i \in 1 .. MaxAux, CalcValue(i) \/ CalcStopped(i) PROVE Counted'
  <2>1. slots[i].kind = "work" /\ UNCHANGED <<nProof, owed>>
    BY <1>9 DEF CalcValue, CalcStopped
  <2>2. /\ \A j \in 1 .. MaxAux \ {i} : slots'[j] = slots[j]
        /\ slots'[i].kind # "proof"
    <3>1. CASE CalcValue(i)
      <4>1. slots[i] \in Works
        BY <2>1 DEF Types, Idle
      <4>2. slots' = [slots EXCEPT ![i] = Idle] \/ slots' = [slots EXCEPT ![i].next = @ + 1]
        BY <3>1 DEF CalcValue, Release
      <4>3. \A j \in 1 .. MaxAux \ {i} : slots'[j] = slots[j]
        BY <4>2 DEF Types
      <4>4. slots'[i] = Idle \/ slots'[i] = [slots[i] EXCEPT !.next = @ + 1]
        BY <4>2 DEF Types
      <4>5. slots'[i].kind # "proof"
        BY <4>1, <4>4 DEF Works, Idle
      <4> QED BY <4>3, <4>5
    <3>2. CASE CalcStopped(i)
      BY <3>2 DEF CalcStopped, Release, Types, Idle
    <3> QED BY <1>9, <3>1, <3>2
  <2>3. Proving' = Proving
    BY <2>1, <2>2 DEF Proving
  <2> QED BY <1>5, <2>1, <2>3 DEF Counted, Parallel, MaxProof
<1>10. ASSUME NEW i \in 1 .. MaxAux, ComputeProof(i) \/ ProofStopped(i) PROVE Counted'
  <2>1. /\ slots[i].kind = "proof" /\ slots' = [slots EXCEPT ![i] = Idle]
        /\ owed' = owed + 1 /\ UNCHANGED nProof
    BY <1>10 DEF ComputeProof, ProofStopped, Release
  <2>2. Proving' = Proving \ {i} /\ i \in Proving
    BY <2>1 DEF Proving, Idle, Types
  <2>3. Cardinality(Proving') = Cardinality(Proving) - 1
    BY <2>2, FS_RemoveElement, ProvingFinite
  <2> QED BY <1>5, <2>1, <2>3 DEF Counted, Parallel, MaxProof
<1> QED BY <1>2, <1>3, <1>6, <1>7, <1>8, <1>9, <1>10, Steps DEF AuxStep

-----------------------------------------------------------------------------
LEMMA InvInit == Init => Inv
<1> SUFFICES ASSUME Init PROVE Inv
  OBVIOUS
<1>1. Free = 1 .. MaxAux
  BY DEF Init, ProofInit, Cleared, Free, Idle
<1>2. FormsRight
  <2>1. 0 \in Positions
    <3>1. Target \div Interval \in Nat
      BY DivMod, HwAssumption
    <3> QED BY <3>1 DEF Positions
  <2>2. forms = InitialForms /\ 0 * Interval = 0
    BY HwAssumption DEF Init, ProofInit, Cleared
  <2> QED BY <2>1, <2>2 DEF InitialForms, FormsRight, Valid
<1>3. Types
  <2>1. last = [iters |-> 0, form |-> 0] /\ offset = 0 /\ forms = InitialForms /\ wq = <<>> /\ owed = 0
    BY DEF Init, ProofInit, Cleared
  <2>2. slots = [i \in 1 .. MaxAux |-> Idle]
    BY DEF Init, ProofInit, Cleared
  <2>3. InitialForms \in [Positions -> Nat \cup {-1}]
    BY DEF InitialForms
  <2> QED BY <2>1, <2>2, <2>3, HwAssumption DEF Types, Idle
<1>4. NothingForgotten
  <2>1. last.iters = 0 /\ 0 \div Interval = 0
    BY HwAssumption DEF Init, ProofInit, Cleared
  <2> QED BY <1>2, <2>1 DEF NothingForgotten, Covered, FormsRight
<1>5. Session
  BY <1>1 DEF Init, ProofInit, Cleared, Session
<1>6. Counted
  <2>1. Proving = {}
    BY DEF Init, ProofInit, Cleared, Proving, Idle
  <2>2. nProof = 0 /\ owed = 0 /\ Cardinality(Proving) = 0
    BY <2>1, FS_EmptySet DEF Init, ProofInit
  <2> QED BY <2>2, Limit DEF Counted, Parallel
<1> QED BY <1>2, <1>3, <1>4, <1>5, <1>6 DEF Inv

LEMMA InvHolds == Spec => []Inv
<1>1. Inv /\ [Next]_vars => Inv'
  BY TypesNext, FormsRightNext, NothingForgottenNext, SessionNext, CountedNext DEF Inv
<1> QED BY InvInit, <1>1, PTL DEF Spec

\* hw_proof_handle_value, hw_proof_calc_values and hw_proof_last_good_form: every
\* form marked valid is that of its position, and no position that the engine has
\* passed is forgotten, whatever readings are skipped and however often it restarts.
THEOREM FormsComplete == Spec => []ValuesComplete
<1>1. Inv => ValuesComplete
  BY DEF Inv, Types, FormsRight, NothingForgotten, Covered, ValuesComplete
<1> QED BY InvHolds, <1>1, PTL

\* hw_proof_process_work: the threads that prove are counted and never hold every
\* slot, so that the values they wait for are computed.
THEOREM SlotLeft == Spec => []SlotLeftForValues
<1>1. Inv => SlotLeftForValues
  <2> SUFFICES ASSUME Inv, ~late
               PROVE  /\ nProof = Parallel * (Cardinality(Proving) + owed)
                      /\ Cardinality(Proving) < MaxAux
    BY DEF SlotLeftForValues
  <2>1. nProof = 2 * (Cardinality(Proving) + owed) /\ nProof <= MaxProof + 1
    BY DEF Inv, Counted, Parallel
  <2>2. owed \in Nat /\ Cardinality(Proving) \in Nat
    BY ProvingFinite DEF Inv, Types
  <2>3. MaxProof + 1 <= MaxAux /\ MaxAux \in 2 .. 64 /\ MaxProof \in Nat
    BY Limit
  <2> HIDE DEF MaxProof
  <2>4. Cardinality(Proving) < MaxAux
    BY <2>1, <2>2, <2>3
  <2> QED BY <2>1, <2>4 DEF Parallel
<1> QED BY InvHolds, <1>1, PTL

=============================================================================
