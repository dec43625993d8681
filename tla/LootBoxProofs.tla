---------------------------- MODULE LootBoxProofs ----------------------------
(***************************************************************************)
(* Theorems about module LootBox, for every size of the sample, every lag, *)
(* every length of the chain of hashes and any number of starts: what a    *)
(* verified sample says, and that the boxes are opened along the chain.    *)
(*                                                                         *)
(* The first one rests on the beacon: its outputs differ because the hash  *)
(* and the delay function do not collide on the outputs that occur         *)
(* (NoCollisions).                                                         *)
(***************************************************************************)
EXTENDS LootBox, FiniteSetTheorems, SequenceTheorems, TLAPS

Parties == {"server", "client"}

\* On a set of outputs that contains the first one, hash and delay function
\* tell all commitments and outputs apart and never give the first output.
NoCollisions(Outputs) ==
  /\ FirstOutput \in Outputs
  /\ \A c \in SUBSET Parties, x \in Outputs :
       /\ ChainEval(ChainHash(c, x)) \in Outputs \ {FirstOutput}
       /\ \A d \in SUBSET Parties, y \in Outputs :
            ChainEval(ChainHash(c, x)) = ChainEval(ChainHash(d, y)) => c = d /\ x = y

Sizes == Lag \in Nat /\ Samples \in Nat \ {0}

-----------------------------------------------------------------------------
(* The invariant.                                                          *)

NextOutput == Cardinality(DOMAIN outputs)

Shape ==
  /\ Current \in Nat /\ DOMAIN committed = 0 .. Current - 1
  /\ NextOutput \in Nat /\ DOMAIN outputs = 0 .. NextOutput - 1 /\ NextOutput <= Current
  /\ \A k \in DOMAIN committed : committed[k] \subseteq Parties
  /\ joined \subseteq Parties

\* The outputs are the chain of the commitments, all different.
Outcomes(Outputs) ==
  /\ \A k \in DOMAIN outputs :
       /\ outputs[k] \in Outputs \ {FirstOutput}
       /\ outputs[k] = ChainEval(ChainHash(committed[k], Chain!Before(k)))
  /\ \A j, k \in DOMAIN outputs : outputs[j] = outputs[k] => j = k

\* A contribution is in the stage it was made for.
In(p, party) == IF stageOf[p] = Current THEN party \in joined ELSE party \in committed[stageOf[p]]

Progress ==
  /\ type \in Types /\ pc \in {"off", "import", "setup", "contribute", "eval", "verify"}
  /\ stageOf = [p \in Parties |-> stageOf[p]]
  /\ board = [c |-> board.c, evals |-> board.evals]
  /\ \A p \in Parties : stageOf[p] \in 0 .. Current
  /\ report \in {"none", "verified", "failed"}
  /\ report # "none" => pc = "off" \/ type = "plot"
  /\ \A k \in known : k \in 0 .. NextOutput - 1

\* What each place of the program rests on.
Contributions ==
  /\ pc \in {"setup", "contribute"} /\ type = "polyc" => In("client", "client")
  /\ pc \in {"contribute", "eval", "verify"} => board.c = FunctionOf[type]
  /\ pc \in {"eval", "verify"} /\ type # "plot" =>
       /\ In("server", "server") /\ stageOf["server"] + Lag \notin known
       /\ type = "polyc" => In("client", "client") /\ stageOf["client"] <= stageOf["server"]
       /\ type = "fc" => stageOf["client"] = stageOf["server"]
  /\ pc = "verify" =>
       /\ Ready("server")
       /\ board.evals = [i \in 1 .. Samples |-> EvalAndProof(FunctionOf[type], MapToTestData(Seed("server"))[i])]

\* What is known of a sample that was verified or was not.
Reported ==
  /\ report = "verified" /\ type # "plot" =>
       /\ stageOf["server"] < Current /\ stageOf["client"] = stageOf["server"]
       /\ stageOf["server"] + Lag \notin known
       /\ In("server", "server") /\ (type = "polyc" => In("client", "client"))
  /\ report = "failed" => type = "polyc" /\ stageOf["client"] < stageOf["server"]

Inv(Outputs) == Shape /\ Outcomes(Outputs) /\ Progress /\ Contributions /\ Reported

\* The two parties to the opening count the same elements.
Opening ==
  playing => /\ requests \in Nat /\ served = ChainLength - requests
             /\ Len(accepted) \in Nat /\ held = ChainLength - Len(accepted)
Accepted == accepted \in Seq([element : Int, request : Nat]) /\ OpeningsInStep

-----------------------------------------------------------------------------
(* The opening of boxes.                                                   *)

\* The two parties go along the chain together, whatever the beacon and the
\* verification of probabilities do to the board meanwhile: the k-th box is
\* opened with the k-th element from the end, by the k-th request.
THEOREM OpenedInStep == ASSUME ChainLength \in Int PROVE LootBoxSpec => []OpeningsInStep
<1>1. LootBoxInit => Opening /\ Accepted
  BY SMT DEF LootBoxInit, Opening, Accepted, OpeningsInStep
<1>2. Opening /\ Accepted /\ [LootBoxNext]_lootBoxVars => (Opening /\ Accepted)'
  <2> SUFFICES ASSUME Opening, Accepted, [LootBoxNext]_lootBoxVars PROVE (Opening /\ Accepted)'
    OBVIOUS
  <2> USE DEF Opening, Accepted, OpeningsInStep
  <2>1. CASE UNCHANGED openingVars
    BY <2>1 DEF openingVars
  <2>2. CASE SetupOpening
    BY <2>2 DEF SetupOpening
  <2>3. CASE RequestOpening
    <3>1. CASE Raises
      BY <2>3, <3>1 DEF RequestOpening
    <3>2. CASE ~Raises /\ ~Succeeds
      <4>1. /\ playing /\ served' = served - 1 /\ requests' = requests + 1 /\ held' = held
            /\ UNCHANGED <<playing, accepted>>
        BY <2>3, <3>2, Zenon DEF RequestOpening, Element, Held
      <4>2. Accepted'
        BY <4>1, Zenon
      <4>3. Opening'
        <5> HIDE DEF Accepted
        <5> QED  BY <4>1, SMT
      <4> QED
        BY <4>2, <4>3, Zenon
    <3>3. CASE ~Raises /\ Succeeds
      <4> DEFINE new == [element |-> Element, request |-> requests + 1]
      <4>1. /\ playing /\ served' = Element /\ requests' = requests + 1 /\ held' = Element /\ UNCHANGED playing
            /\ accepted' = Append(accepted, new)
        BY <2>3, <3>3 DEF RequestOpening, Held
      <4>2. Element = ChainLength - requests - 1 /\ Element + 1 = held
        BY <4>1, <3>3, SMT DEF Element, Succeeds
      <4>3. Len(accepted) \in Nat /\ requests \in Nat
        BY <4>1
      <4>4. requests = Len(accepted) /\ Element = ChainLength - (Len(accepted) + 1)
        BY <4>1, <4>2, <4>3, SMT
      <4>5. new \in [element : Int, request : Nat]
        BY <4>3, <4>4, SMT
      <4>6. /\ accepted' \in Seq([element : Int, request : Nat]) /\ Len(accepted') = Len(accepted) + 1
            /\ DOMAIN accepted' = 1 .. Len(accepted) + 1
            /\ \A k \in 1 .. Len(accepted) + 1 :
                 accepted'[k] = IF k <= Len(accepted) THEN accepted[k] ELSE new
        <5> HIDE DEF new
        <5> QED  BY <4>1, <4>3, <4>5, SMT
      <4>7. OpeningsInStep'
        BY <4>3, <4>4, <4>6, SMT
      <4> QED
        BY <4>1, <4>3, <4>4, <4>6, <4>7, SMT
    <3> QED
      BY <3>1, <3>2, <3>3
  <2>4. BeaconCommits \/ Start \/ Import \/ WriteCommitment \/ ServerContributes \/ Evaluate \/ VerifyProbability
        => UNCHANGED openingVars
    BY Zenon DEF BeaconCommits, Start, Import, WriteCommitment, ServerContributes, Evaluate, VerifyProbability
  <2>5. BeaconPublishes => UNCHANGED openingVars
    BY Zenon DEF BeaconPublishes
  <2>6. UNCHANGED lootBoxVars => UNCHANGED openingVars
    BY Zenon DEF lootBoxVars
  <2> QED
    BY <2>1, <2>2, <2>3, <2>4, <2>5, <2>6, Zenon DEF LootBoxNext
<1> QED
  BY <1>1, <1>2, PTL DEF LootBoxSpec, Accepted

-----------------------------------------------------------------------------
(* The beacon.                                                             *)

\* A stage that is committed adds who joined it to the commitments.
LEMMA Commits == ASSUME Shape, BeaconCommits
                 PROVE  /\ Shape' /\ Current' = Current + 1 /\ UNCHANGED outputs
                        /\ committed'[Current] = joined
                        /\ \A k \in 0 .. Current - 1 : committed'[k] = committed[k]
<1>1. committed' = [k \in 0 .. Current |-> IF k = Current THEN joined ELSE committed[k]] /\ joined' = {}
  BY Zenon DEF BeaconCommits
<1>2. UNCHANGED outputs
  BY Zenon DEF BeaconCommits, Chain!Commit
<1>3. Current \in Nat /\ DOMAIN committed = 0 .. Current - 1 /\ joined \subseteq Parties
  BY Zenon DEF Shape
<1>4. DOMAIN committed' = 0 .. Current
  BY <1>1
<1>5. Current' = Current + 1
  <2>1. Current' = Cardinality(0 .. Current)
    BY <1>4, Zenon DEF Current
  <2> DEFINE n == Current
  <2>2. n \in Nat
    BY <1>3
  <2>3. Cardinality(0 .. n) = n + 1
    <3> HIDE DEF n
    <3> QED  BY <2>2, FS_Interval, SMT
  <2> QED
    BY <2>1, <2>3
<1>6. NextOutput' = NextOutput
  BY <1>2, Zenon DEF NextOutput
<1>7. \A k \in 0 .. Current - 1 : committed'[k] = committed[k]
  <2> DEFINE n == Current
  <2> HIDE DEF n
  <2>1. n \in Nat /\ committed' = [k \in 0 .. n |-> IF k = n THEN joined ELSE committed[k]]
    BY <1>1, <1>3, Zenon DEF n
  <2>2. \A k \in 0 .. n - 1 : committed'[k] = committed[k]
    BY <2>1, SMT
  <2> QED
    BY <2>2, Zenon DEF n
<1>8. committed'[Current] = joined
  BY <1>1, <1>3, SMT
<1>9. Shape'
  <2>1. \A k \in DOMAIN committed' : committed'[k] \subseteq Parties
    BY <1>1, <1>3, SMT DEF Shape
  <2>2. joined' \subseteq Parties
    BY <1>1
  <2>3. Current' \in Nat /\ DOMAIN committed' = 0 .. Current' - 1
    BY <1>3, <1>4, <1>5, SMT
  <2>4. NextOutput' \in Nat /\ DOMAIN outputs' = 0 .. NextOutput' - 1 /\ NextOutput' <= Current'
    BY <1>2, <1>3, <1>5, <1>6, SMT DEF Shape
  <2> QED
    BY <2>1, <2>2, <2>3, <2>4, Zenon DEF Shape
<1> QED
  BY <1>2, <1>5, <1>7, <1>8, <1>9, Zenon

\* An output that is published is different from all before it.
LEMMA Publishes == ASSUME NEW Outputs, NoCollisions(Outputs), Shape, Outcomes(Outputs), BeaconPublishes
                   PROVE  /\ Shape' /\ Outcomes(Outputs)'
                          /\ NextOutput' = NextOutput + 1 /\ UNCHANGED <<committed, joined>>
                          /\ \A j \in 0 .. NextOutput - 1 : outputs'[j] = outputs[j]
<1> DEFINE n == NextOutput
           new == ChainEval(ChainHash(committed[n], Chain!Before(n)))
<1>1. n \in DOMAIN committed /\ outputs' = [j \in 0 .. n |-> IF j = n THEN new ELSE outputs[j]]
  BY Zenon DEF BeaconPublishes, NextOutput
<1>2. UNCHANGED <<committed, joined>>
  BY Zenon DEF BeaconPublishes, Chain!Publish
<1>3. /\ n \in Nat /\ DOMAIN outputs = 0 .. n - 1
      /\ Current \in Nat /\ DOMAIN committed = 0 .. Current - 1 /\ n <= Current
  BY Zenon DEF Shape
<1>4. NextOutput' = n + 1
  <2>1. NextOutput' = Cardinality(0 .. n)
    BY <1>1 DEF NextOutput
  <2>2. Cardinality(0 .. n) = n + 1
    <3> HIDE DEF n
    <3> QED  BY <1>3, FS_Interval, SMT
  <2> QED
    BY <2>1, <2>2
<1> HIDE DEF n, new
<1>5. /\ DOMAIN outputs' = 0 .. n /\ outputs'[n] = new
      /\ \A j \in 0 .. n - 1 : outputs'[j] = outputs[j]
  BY <1>1, <1>3, SMT
<1>6. Current' = Current
  BY <1>2, Zenon DEF Current
<1>7. Shape'
  <2>1. n + 1 <= Current
    BY <1>1, <1>3, SMT
  <2>2. NextOutput' \in Nat /\ DOMAIN outputs' = 0 .. NextOutput' - 1 /\ NextOutput' <= Current'
    BY <2>1, <1>3, <1>4, <1>5, <1>6, SMT
  <2>3. /\ Current' \in Nat /\ DOMAIN committed' = 0 .. Current' - 1
        /\ \A k \in DOMAIN committed' : committed'[k] \subseteq Parties
        /\ joined' \subseteq Parties
    BY <1>2, <1>6, Zenon DEF Shape
  <2> QED
    BY <2>2, <2>3, Zenon DEF Shape
<1>8. \A k \in 0 .. n : Chain!Before(k) \in Outputs /\ Chain!Before(k)' = Chain!Before(k)
  BY <1>3, <1>5, SMT DEF Outcomes, NoCollisions, Chain!Before
<1>9. \A k \in 0 .. n : /\ outputs'[k] = ChainEval(ChainHash(committed[k], Chain!Before(k)))
                        /\ committed[k] \in SUBSET Parties
  <2>1. outputs'[n] = ChainEval(ChainHash(committed[n], Chain!Before(n)))
    BY <1>5 DEF new
  <2>2. \A k \in 0 .. n - 1 : outputs'[k] = ChainEval(ChainHash(committed[k], Chain!Before(k)))
    BY <1>3, <1>5, Zenon DEF Outcomes
  <2>3. \A k \in 0 .. n : k \in DOMAIN committed
    BY <1>1, <1>3, SMT
  <2>4. \A k \in 0 .. n : k = n \/ k \in 0 .. n - 1
    BY <1>3, SMT
  <2> QED
    BY <2>1, <2>2, <2>3, <2>4, Zenon DEF Shape
<1>10. ASSUME NEW k \in 0 .. n PROVE outputs'[k] \in Outputs \ {FirstOutput}
  <2>1. committed[k] \in SUBSET Parties /\ Chain!Before(k) \in Outputs
    BY <1>8, <1>9, Zenon
  <2>2. ChainEval(ChainHash(committed[k], Chain!Before(k))) \in Outputs \ {FirstOutput}
    BY <2>1, Zenon DEF NoCollisions
  <2> QED
    BY <2>2, <1>9
<1>11. ASSUME NEW j \in 0 .. n, NEW k \in 0 .. n, outputs'[j] = outputs'[k]
       PROVE  Chain!Before(j) = Chain!Before(k)
  <2>1. /\ committed[j] \in SUBSET Parties /\ Chain!Before(j) \in Outputs
        /\ committed[k] \in SUBSET Parties /\ Chain!Before(k) \in Outputs
    BY <1>8, <1>9, Zenon
  <2>2. ChainEval(ChainHash(committed[j], Chain!Before(j))) = ChainEval(ChainHash(committed[k], Chain!Before(k)))
    BY <1>9, <1>11, Zenon
  <2>3. \A c, d \in SUBSET Parties, x, y \in Outputs :
          ChainEval(ChainHash(c, x)) = ChainEval(ChainHash(d, y)) => x = y
    BY Zenon DEF NoCollisions
  <2> QED
    BY <2>1, <2>2, <2>3, Zenon
<1>12. ASSUME NEW j \in 0 .. n, NEW k \in 0 .. n, Chain!Before(j) = Chain!Before(k) PROVE j = k
  BY <1>3, <1>12, SMT DEF Chain!Before, Outcomes
<1>13. Outcomes(Outputs)'
  <2>1. \A k \in DOMAIN outputs' : /\ outputs'[k] \in Outputs \ {FirstOutput}
                                  /\ outputs'[k] = ChainEval(ChainHash(committed'[k], Chain!Before(k)'))
    BY <1>2, <1>5, <1>8, <1>9, <1>10, Zenon
  <2>2. \A j, k \in DOMAIN outputs' : outputs'[j] = outputs'[k] => j = k
    BY <1>5, <1>11, <1>12, Zenon
  <2> QED
    BY <2>1, <2>2, Zenon DEF Outcomes
<1> QED
  BY <1>2, <1>4, <1>5, <1>7, <1>13, Zenon DEF n

-----------------------------------------------------------------------------
(* The verification of probabilities: each step keeps the invariant.       *)

\* While the beacon rests, what was contributed stays.
LEMMA Rests == ASSUME NEW Outputs, Shape, Outcomes(Outputs),
                      UNCHANGED <<committed, outputs>>, joined \subseteq joined', joined' \subseteq Parties
               PROVE  /\ Shape' /\ Outcomes(Outputs)' /\ Current' = Current /\ NextOutput' = NextOutput
                      /\ \A p, q \in Parties : stageOf'[p] = stageOf[p] /\ In(p, q) => In(p, q)'
<1>1. Current' = Current /\ NextOutput' = NextOutput
  BY Zenon DEF Current, NextOutput
<1>2. Shape'
  BY <1>1, Zenon DEF Shape
<1>3. Outcomes(Outputs)'
  BY Zenon DEF Outcomes, Chain!Before
<1>4. \A p, q \in Parties : stageOf'[p] = stageOf[p] /\ In(p, q) => In(p, q)'
  BY <1>1, SMT DEF In
<1> QED
  BY <1>1, <1>2, <1>3, <1>4, Zenon

\* A commitment of the beacon leaves every contribution where it is.
LEMMA CommitsKeep == ASSUME NEW Outputs, Inv(Outputs), BeaconCommits PROVE Inv(Outputs)'
<1>1. /\ Shape /\ Shape' /\ Current' = Current + 1 /\ UNCHANGED outputs
      /\ committed'[Current] = joined
      /\ \A k \in 0 .. Current - 1 : committed'[k] = committed[k]
  BY Commits, Zenon DEF Inv
<1>2. UNCHANGED <<type, pc, stageOf, known, report, board>>
  BY Zenon DEF BeaconCommits, sampleVars
<1>3. Current \in Nat /\ DOMAIN outputs = 0 .. NextOutput - 1 /\ NextOutput \in Nat /\ NextOutput <= Current
  BY <1>1, Zenon DEF Shape
<1>4. NextOutput' = NextOutput
  BY <1>1, Zenon DEF NextOutput
<1>5. Outcomes(Outputs)'
  <2>1. \A k \in 0 .. NextOutput - 1 : committed'[k] = committed[k]
    BY <1>1, <1>3, SMT
  <2>2. \A k : Chain!Before(k)' = Chain!Before(k)
    BY <1>1, Zenon DEF Chain!Before
  <2>3. Outcomes(Outputs)
    BY Zenon DEF Inv
  <2> QED
    BY <1>1, <1>3, <2>1, <2>2, <2>3, Zenon DEF Outcomes
<1>6. \A p \in Parties : stageOf[p] \in 0 .. Current
  BY Zenon DEF Inv, Progress
<1>7. \A p, q \in Parties : In(p, q) => In(p, q)'
  BY <1>1, <1>2, <1>3, <1>6, SMT DEF In
<1>8. Progress'
  <2>1. \A p \in Parties : stageOf'[p] \in 0 .. Current'
    BY <1>1, <1>2, <1>3, <1>6, SMT
  <2> QED
    BY <1>2, <1>4, <2>1, Zenon DEF Inv, Progress
<1>9. "client" \in Parties /\ "server" \in Parties
  BY DEF Parties
<1>10. \A p : (Ready(p)' <=> Ready(p)) /\ Seed(p)' = Seed(p)
  BY <1>1, <1>2, Zenon DEF Ready, Seed
<1>11. Contributions'
  BY <1>2, <1>7, <1>9, <1>10, Zenon DEF Inv, Contributions
<1>12. Reported'
  <2>1. stageOf["server"] < Current => stageOf'["server"] < Current'
    BY <1>1, <1>2, <1>3, <1>6, <1>9, SMT
  <2> QED
    BY <1>2, <1>7, <1>9, <2>1, Zenon DEF Inv, Reported
<1> QED
  BY <1>1, <1>5, <1>8, <1>11, <1>12, Zenon DEF Inv

\* So does an output, and what was ready stays as it was.
LEMMA PublishesKeep == ASSUME NEW Outputs, NoCollisions(Outputs), Inv(Outputs), BeaconPublishes
                       PROVE  Inv(Outputs)'
<1>1. /\ Shape /\ Shape' /\ Outcomes(Outputs)' /\ NextOutput' = NextOutput + 1 /\ UNCHANGED <<committed, joined>>
      /\ \A j \in 0 .. NextOutput - 1 : outputs'[j] = outputs[j]
  BY Publishes, Zenon DEF Inv
<1>2. UNCHANGED <<type, pc, stageOf, known, report, board>>
  BY Zenon DEF BeaconPublishes, sampleVars
<1>3. /\ Current' = Current /\ NextOutput \in Nat
      /\ DOMAIN outputs = 0 .. NextOutput - 1 /\ DOMAIN outputs' = 0 .. NextOutput' - 1
  BY <1>1, Zenon DEF Shape, Current
<1>4. \A p, q : In(p, q)' <=> In(p, q)
  BY <1>1, <1>2, <1>3, Zenon DEF In
<1>5. Progress'
  <2>1. \A k \in known' : k \in 0 .. NextOutput' - 1
    <3>1. \A k \in known : k \in 0 .. NextOutput - 1
      BY Zenon DEF Inv, Progress
    <3> QED
      BY <3>1, <1>1, <1>2, <1>3, SMT
  <2> QED
    BY <1>2, <1>3, <2>1, Zenon DEF Inv, Progress
<1>6. ASSUME NEW p, Ready(p) PROVE Ready(p)' /\ Seed(p)' = Seed(p)
  <2>1. CASE type = "plot"
    BY <1>2, <2>1, Zenon DEF Ready, Seed
  <2>2. CASE type # "plot"
    <3>1. stageOf[p] + Lag \in 0 .. NextOutput - 1
      BY <1>3, <1>6, <2>2, Zenon DEF Ready
    <3>2. stageOf[p] + Lag \in DOMAIN outputs' /\ outputs'[stageOf[p] + Lag] = outputs[stageOf[p] + Lag]
      BY <1>1, <1>3, <3>1, SMT
    <3> QED
      BY <1>2, <2>2, <3>2, Zenon DEF Ready, Seed
  <2> QED
    BY <2>1, <2>2
<1>7. Contributions'
  BY <1>2, <1>4, <1>6, Zenon DEF Inv, Contributions
<1>8. Reported'
  BY <1>2, <1>3, <1>4, Zenon DEF Inv, Reported
<1> QED
  BY <1>1, <1>5, <1>7, <1>8, Zenon DEF Inv

\* The program starts, and nothing it had reported is left.
LEMMA StartKeeps == ASSUME NEW Outputs, Inv(Outputs), Start PROVE Inv(Outputs)'
<1>1. /\ UNCHANGED <<committed, outputs, joined, stageOf, known, board>>
      /\ type' \in Types /\ pc' = "import" /\ report' = "none"
  BY Zenon DEF Start, chainVars
<1>2. Shape' /\ Outcomes(Outputs)' /\ Current' = Current /\ NextOutput' = NextOutput
  BY <1>1, Rests, Zenon DEF Inv, Shape
<1>3. Progress'
  BY <1>1, <1>2 DEF Inv, Progress
<1>4. Contributions' /\ Reported'
  BY <1>1 DEF Contributions, Reported
<1> QED
  BY <1>2, <1>3, <1>4, Zenon DEF Inv

\* A contribution is in the stage that the beacon is in.
LEMMA ContributesTo ==
  ASSUME NEW Outputs, Inv(Outputs), NEW party \in Parties, NEW parties \in SUBSET Parties, NEW next,
         Contributed(party, parties, next), UNCHANGED <<committed, outputs>>
  PROVE  /\ Shape' /\ Outcomes(Outputs)' /\ Current' = Current /\ NextOutput' = NextOutput
         /\ \A p \in Parties : stageOf'[p] \in 0 .. Current
         /\ stageOf' = [p \in Parties |-> stageOf'[p]]
         /\ \A p \in Parties : p \notin parties => stageOf'[p] = stageOf[p] /\ \A q \in Parties : In(p, q) => In(p, q)'
         /\ \/ pc' = "off"
            \/ pc' = next /\ \A p \in parties : stageOf'[p] = Current /\ In(p, party)'
<1>1. /\ DOMAIN stageOf = Parties /\ (\A p \in Parties : stageOf[p] \in 0 .. Current)
      /\ stageOf = [p \in Parties |-> stageOf[p]]
  BY Zenon DEF Inv, Progress
<1>2. Current \in Nat /\ joined \subseteq Parties
  BY Zenon DEF Inv, Shape
<1>3. joined \subseteq joined' /\ joined' \subseteq Parties
  BY <1>2, Zenon DEF Contributed
<1>4. /\ Shape' /\ Outcomes(Outputs)' /\ Current' = Current /\ NextOutput' = NextOutput
      /\ \A p, q \in Parties : stageOf'[p] = stageOf[p] /\ In(p, q) => In(p, q)'
  BY <1>3, Rests, Zenon DEF Inv
<1>5. CASE pc' = "off" /\ UNCHANGED <<joined, stageOf>>
  BY <1>1, <1>4, <1>5, Zenon
<1>6. CASE /\ joined' = joined \cup {party} /\ pc' = next
           /\ stageOf' = [p \in DOMAIN stageOf |-> IF p \in parties THEN Current ELSE stageOf[p]]
  <2>1. stageOf' = [p \in Parties |-> IF p \in parties THEN Current ELSE stageOf[p]]
    BY <1>1, <1>6, Zenon
  <2>2. stageOf' = [p \in Parties |-> stageOf'[p]]
    BY <2>1, Zenon
  <2>3. Current \in 0 .. Current
    BY <1>2, SMT
  <2>4. \A p \in Parties : stageOf'[p] \in 0 .. Current
    BY <1>1, <2>1, <2>3, Zenon
  <2>5. \A p \in parties : stageOf'[p] = Current /\ In(p, party)'
    BY <1>4, <1>6, <2>1, Zenon DEF In
  <2>6. \A p \in Parties : p \notin parties => stageOf'[p] = stageOf[p] /\ \A q \in Parties : In(p, q) => In(p, q)'
    BY <1>4, <2>1, Zenon
  <2> QED
    BY <1>4, <1>6, <2>2, <2>4, <2>5, <2>6, Zenon
<1> QED
  BY <1>5, <1>6, Zenon DEF Contributed

\* The client's contribution is its own.
LEMMA ImportKeeps == ASSUME NEW Outputs, Inv(Outputs), Import PROVE Inv(Outputs)'
<1>1. /\ pc = "import" /\ Contributed("client", {"client"}, "setup")
      /\ UNCHANGED <<committed, outputs, type, known, report, board>>
  BY Zenon DEF Import
<1>2. "client" \in Parties /\ {"client"} \in SUBSET Parties
  BY DEF Parties
<1>3. /\ Shape' /\ Outcomes(Outputs)' /\ Current' = Current /\ NextOutput' = NextOutput
      /\ \A p \in Parties : stageOf'[p] \in 0 .. Current
      /\ stageOf' = [p \in Parties |-> stageOf'[p]]
      /\ \/ pc' = "off"
         \/ pc' = "setup" /\ In("client", "client")'
  BY <1>1, <1>2, ContributesTo, Zenon
<1>4. report # "none" => type = "plot"
  BY <1>1 DEF Inv, Progress
<1>5. Progress'
  BY <1>1, <1>3, <1>4 DEF Inv, Progress
<1>6. Contributions'
  BY <1>1, <1>3 DEF Contributions
<1>7. Reported'
  BY <1>1, <1>4 DEF Inv, Reported
<1> QED
  BY <1>3, <1>5, <1>6, <1>7, Zenon DEF Inv

\* The function is committed, and what is known then is what is published.
LEMMA WriteKeeps == ASSUME NEW Outputs, Inv(Outputs), WriteCommitment PROVE Inv(Outputs)'
<1>1. /\ pc = "setup" /\ board' = [board EXCEPT !.c = FunctionOf[type]]
      /\ known' = DOMAIN outputs /\ pc' = "contribute"
      /\ UNCHANGED <<committed, outputs, joined, type, stageOf, report>>
  BY Zenon DEF WriteCommitment, chainVars
<1>2. /\ Shape' /\ Outcomes(Outputs)' /\ Current' = Current /\ NextOutput' = NextOutput
      /\ \A p, q \in Parties : In(p, q) => In(p, q)'
  BY <1>1, Rests, Zenon DEF Inv, Shape
<1>3. DOMAIN outputs = 0 .. NextOutput - 1
  BY Zenon DEF Inv, Shape
<1>4. report # "none" => type = "plot"
  BY <1>1 DEF Inv, Progress
<1>5. board' = [c |-> board'.c, evals |-> board'.evals] /\ board'.c = FunctionOf[type]
  <2>1. board = [c |-> board.c, evals |-> board.evals]
    BY Zenon DEF Inv, Progress
  <2> QED
    BY <1>1, <2>1
<1>6. Progress'
  BY <1>1, <1>2, <1>3, <1>4, <1>5 DEF Inv, Progress
<1>7. Contributions'
  <2>1. type = "polyc" => In("client", "client")'
    BY <1>1, <1>2 DEF Inv, Contributions, Parties
  <2> QED
    BY <1>1, <1>5, <2>1 DEF Contributions
<1>8. Reported'
  BY <1>1, <1>4 DEF Inv, Progress, Reported
<1> QED
  BY <1>2, <1>6, <1>7, <1>8, Zenon DEF Inv

\* The stage of the server's contribution, and the output that follows from
\* it, are still to come when the function is committed.
LEMMA ServerKeeps == ASSUME NEW Outputs, Sizes, Inv(Outputs), ServerContributes PROVE Inv(Outputs)'
<1>1. /\ pc = "contribute"
      /\ UNCHANGED <<committed, outputs, type, known, report, board>>
  BY Zenon DEF ServerContributes
<1>2. type \in Types /\ board.c = FunctionOf[type] /\ (type = "polyc" => In("client", "client"))
  BY <1>1 DEF Inv, Progress, Contributions
<1>3. report # "none" => type = "plot"
  BY <1>1 DEF Inv, Progress
<1>4. Current \in Nat /\ NextOutput \in Nat /\ NextOutput <= Current /\ \A k \in known : k \in 0 .. NextOutput - 1
  BY Zenon DEF Inv, Shape, Progress
<1>5. Current + Lag \notin known
  BY <1>4, SMT DEF Sizes
<1>6. "client" \in Parties /\ "server" \in Parties /\ Parties \in SUBSET Parties /\ {"server"} \in SUBSET Parties
  BY DEF Parties
<1>7. CASE type = "plot"
  <2>1. pc' = "eval" /\ UNCHANGED <<joined, stageOf>>
    BY <1>7, Zenon DEF ServerContributes
  <2>2. Shape' /\ Outcomes(Outputs)' /\ Current' = Current /\ NextOutput' = NextOutput
    BY <1>1, <2>1, Rests, Zenon DEF Inv, Shape
  <2>3. Progress'
    BY <1>1, <1>7, <2>1, <2>2 DEF Inv, Progress
  <2>4. Contributions' /\ Reported'
    BY <1>1, <1>2, <1>3, <1>7, <2>1 DEF Inv, Contributions, Reported
  <2> QED
    BY <2>2, <2>3, <2>4, Zenon DEF Inv
<1>8. CASE type = "fc"
  <2>1. Contributed("server", Parties, "eval")
    BY <1>8 DEF ServerContributes, Parties
  <2>2. /\ Shape' /\ Outcomes(Outputs)' /\ Current' = Current /\ NextOutput' = NextOutput
        /\ \A p \in Parties : stageOf'[p] \in 0 .. Current
        /\ stageOf' = [p \in Parties |-> stageOf'[p]]
        /\ \/ pc' = "off"
           \/ pc' = "eval" /\ \A p \in Parties : stageOf'[p] = Current /\ In(p, "server")'
    BY <1>1, <1>6, <2>1, ContributesTo, Zenon
  <2>3. Progress'
    BY <1>1, <1>3, <1>8, <2>2 DEF Inv, Progress
  <2>4. Contributions'
    BY <1>1, <1>2, <1>5, <1>6, <1>8, <2>2 DEF Contributions
  <2>5. Reported'
    BY <1>1, <1>3, <1>8 DEF Inv, Progress, Reported
  <2> QED
    BY <2>2, <2>3, <2>4, <2>5, Zenon DEF Inv
<1>9. CASE type = "polyc"
  <2>1. Contributed("server", {"server"}, "eval")
    BY <1>9 DEF ServerContributes
  <2>2. /\ Shape' /\ Outcomes(Outputs)' /\ Current' = Current /\ NextOutput' = NextOutput
        /\ \A p \in Parties : stageOf'[p] \in 0 .. Current
        /\ stageOf' = [p \in Parties |-> stageOf'[p]]
        /\ "client" \notin {"server"} => In("client", "client")'
        /\ \/ pc' = "off"
           \/ pc' = "eval" /\ stageOf'["server"] = Current /\ In("server", "server")'
    BY <1>1, <1>2, <1>6, <1>9, <2>1, ContributesTo, Zenon
  <2>3. Progress'
    BY <1>1, <1>3, <1>9, <2>2 DEF Inv, Progress
  <2>4. stageOf'["client"] <= Current
    BY <1>4, <1>6, <2>2, SMT
  <2>5. Contributions'
    BY <1>1, <1>2, <1>5, <1>9, <2>2, <2>4 DEF Contributions
  <2>6. Reported'
    BY <1>1, <1>3, <1>9 DEF Inv, Progress, Reported
  <2> QED
    BY <2>2, <2>3, <2>5, <2>6, Zenon DEF Inv
<1> QED
  BY <1>2, <1>7, <1>8, <1>9 DEF Types

\* The server evaluates what it committed to, at the sample of its output.
LEMMA EvaluateKeeps == ASSUME NEW Outputs, Inv(Outputs), Evaluate PROVE Inv(Outputs)'
<1> DEFINE data == MapToTestData(Seed("server"))
           evals == [i \in 1 .. Samples |-> EvalAndProof(FunctionOf[type], data[i])]
<1>1. /\ pc = "eval" /\ Ready("server") /\ pc' = "verify"
      /\ UNCHANGED <<committed, outputs, joined, type, stageOf, known, report>>
  BY Zenon DEF Evaluate, chainVars
<1>2. board' = [board EXCEPT !.evals = evals]
  BY DEF Evaluate, MapToTestData
<1>3. board = [c |-> board.c, evals |-> board.evals]
  BY Zenon DEF Inv, Progress
<1>4. board' = [c |-> board'.c, evals |-> board'.evals] /\ board'.c = board.c /\ board'.evals = evals
  <2> HIDE DEF evals
  <2> QED  BY <1>2, <1>3
<1>5. /\ Shape' /\ Outcomes(Outputs)' /\ Current' = Current /\ NextOutput' = NextOutput
      /\ \A p, q \in Parties : In(p, q) => In(p, q)'
  BY <1>1, Rests, Zenon DEF Inv, Shape
<1>6. report # "none" => type = "plot"
  BY <1>1 DEF Inv, Progress
<1>7. Progress'
  BY <1>1, <1>4, <1>5, <1>6 DEF Inv, Progress
<1>8. Contributions'
  <2>1. Ready("server")' /\ Seed("server")' = Seed("server")
    BY <1>1, Zenon DEF Ready, Seed
  <2>2. board'.evals = [i \in 1 .. Samples |-> EvalAndProof(FunctionOf[type'], MapToTestData(Seed("server")')[i])]
    BY <1>1, <1>4, <2>1, Zenon
  <2>3. "client" \in Parties /\ "server" \in Parties
    BY DEF Parties
  <2> HIDE DEF evals, data
  <2>4. /\ board'.c = FunctionOf[type]
        /\ type # "plot" =>
             /\ In("server", "server")' /\ stageOf["server"] + Lag \notin known
             /\ type = "polyc" => In("client", "client")' /\ stageOf["client"] <= stageOf["server"]
             /\ type = "fc" => stageOf["client"] = stageOf["server"]
    BY <1>1, <1>4, <1>5, <2>3 DEF Inv, Contributions
  <2> QED
    BY <1>1, <2>1, <2>2, <2>4 DEF Contributions
<1>9. Reported'
  BY <1>1, <1>6 DEF Inv, Progress, Reported
<1> QED
  BY <1>5, <1>7, <1>8, <1>9, Zenon DEF Inv

\* The client verifies the sample if and only if its output is the server's,
\* which it is only when they contributed to the same stage.
LEMMA VerifyKeeps == ASSUME NEW Outputs, Sizes, Inv(Outputs), VerifyProbability PROVE Inv(Outputs)'
<1> DEFINE f == FunctionOf[type]
           mine == MapToTestData(Seed("client"))
           theirs == MapToTestData(Seed("server"))
           evals == board.evals
           verified == /\ Len(mine) = Len(evals)
                       /\ \A i \in DOMAIN mine : VerifyEvalProof(board.c, mine[i], evals[i].y, evals[i].W)
<1>1. /\ pc = "verify" /\ Ready("client")
      /\ report' = (IF verified THEN "verified" ELSE "failed")
      /\ pc' = "off" \/ (type = "plot" /\ pc' = "setup")
      /\ UNCHANGED <<committed, outputs, joined, type, stageOf, known, board>>
  BY Zenon DEF VerifyProbability, chainVars
<1>2. /\ type \in Types /\ board.c = f /\ Ready("server")
      /\ evals = [i \in 1 .. Samples |-> EvalAndProof(f, theirs[i])]
      /\ type # "plot" =>
           /\ In("server", "server") /\ stageOf["server"] + Lag \notin known
           /\ type = "polyc" => In("client", "client") /\ stageOf["client"] <= stageOf["server"]
           /\ type = "fc" => stageOf["client"] = stageOf["server"]
  BY <1>1 DEF Inv, Progress, Contributions
<1>3. /\ mine = [i \in 1 .. Samples |-> [seed |-> Seed("client"), i |-> i]]
      /\ theirs = [i \in 1 .. Samples |-> [seed |-> Seed("server"), i |-> i]]
  BY Zenon DEF MapToTestData
<1>4. verified <=> Seed("client") = Seed("server")
  <2>1. \A i \in 1 .. Samples : evals[i].y = [of |-> f, at |-> theirs[i]] /\ evals[i].W = [of |-> f, at |-> theirs[i]]
    <3> HIDE DEF f, theirs, evals
    <3> QED  BY <1>2 DEF EvalAndProof
  <2>2. \A i \in 1 .. Samples : VerifyEvalProof(board.c, mine[i], evals[i].y, evals[i].W) <=> theirs[i] = mine[i]
    <3> HIDE DEF f, theirs, evals, mine
    <3> TAKE i \in 1 .. Samples
    <3> DEFINE proof == [of |-> f, at |-> theirs[i]]
    <3>1. evals[i].y = proof /\ evals[i].W = proof /\ board.c = f
      BY <2>1, <1>2, Zenon
    <3>2. proof.of = f /\ proof.at = theirs[i]
      OBVIOUS
    <3> HIDE DEF proof
    <3> QED  BY <3>1, <3>2, Zenon DEF VerifyEvalProof
  <2>3. \A i \in 1 .. Samples : theirs[i] = mine[i] <=> Seed("client") = Seed("server")
    <3> HIDE DEF theirs, mine
    <3> QED  BY <1>3
  <2>4. Len(mine) = Len(evals) /\ DOMAIN mine = 1 .. Samples
    <3>1. Len(mine) = Samples /\ DOMAIN mine = 1 .. Samples
      <4> HIDE DEF mine
      <4> QED  BY <1>3, SMT DEF Sizes
    <3>2. Len(evals) = Samples
      <4> HIDE DEF f, theirs, evals
      <4> QED  BY <1>2, SMT DEF Sizes
    <3> QED
      BY <3>1, <3>2
  <2>5. 1 \in 1 .. Samples
    BY SMT DEF Sizes
  <2> HIDE DEF f, theirs, evals, mine
  <2> QED
    BY <2>2, <2>3, <2>4, <2>5, Zenon
<1> HIDE DEF verified, mine, theirs, evals, f
<1>5. \A p \in Parties : stageOf[p] \in Nat
  BY SMT DEF Inv, Shape, Progress
<1>6. "client" \in Parties /\ "server" \in Parties
  BY DEF Parties
<1>7. type # "plot" => (verified <=> stageOf["client"] = stageOf["server"])
  <2>1. SUFFICES ASSUME type # "plot" PROVE verified <=> stageOf["client"] = stageOf["server"]
    OBVIOUS
  <2>2. /\ Seed("client") = outputs[stageOf["client"] + Lag] /\ Seed("server") = outputs[stageOf["server"] + Lag]
        /\ stageOf["client"] + Lag \in DOMAIN outputs /\ stageOf["server"] + Lag \in DOMAIN outputs
    BY <2>1, <1>1, <1>2, Zenon DEF Ready, Seed
  <2>3. Seed("client") = Seed("server") => stageOf["client"] + Lag = stageOf["server"] + Lag
    BY <2>2, Zenon DEF Inv, Outcomes
  <2>4. stageOf["client"] + Lag = stageOf["server"] + Lag => stageOf["client"] = stageOf["server"]
    BY <1>5, <1>6, SMT DEF Sizes
  <2> QED
    BY <1>4, <2>2, <2>3, <2>4, Zenon
<1>8. type = "plot" => verified
  BY <1>4, Zenon DEF Seed
<1>9. type # "plot" => stageOf["server"] < Current
  <2>1. SUFFICES ASSUME type # "plot" PROVE stageOf["server"] < Current
    OBVIOUS
  <2>2. stageOf["server"] + Lag \in DOMAIN outputs
    BY <1>2, <2>1, Zenon DEF Ready
  <2> QED
    BY <2>2, <1>5, <1>6, SMT DEF Sizes, Inv, Shape
<1>10. /\ Shape' /\ Outcomes(Outputs)' /\ Current' = Current /\ NextOutput' = NextOutput
       /\ \A p, q \in Parties : In(p, q) => In(p, q)'
  BY <1>1, Rests, Zenon DEF Inv, Shape
<1>11. Progress'
  BY <1>1, <1>10 DEF Inv, Progress
<1>12. Contributions'
  BY <1>1 DEF Contributions
<1>13. Reported'
  <2>1. CASE verified
    <3>1. report' = "verified"
      BY <1>1, <2>1
    <3> QED
      BY <3>1, <2>1, <1>1, <1>2, <1>6, <1>7, <1>9, <1>10 DEF Reported
  <2>2. CASE ~verified
    <3>1. report' = "failed" /\ type = "polyc"
      BY <1>1, <1>2, <1>7, <1>8, <2>2 DEF Types
    <3>2. stageOf["client"] < stageOf["server"]
      BY <1>2, <1>5, <1>6, <1>7, <2>2, <3>1, SMT
    <3> QED
      BY <1>1, <3>1, <3>2 DEF Reported
  <2> QED
    BY <2>1, <2>2
<1> QED
  BY <1>10, <1>11, <1>12, <1>13, Zenon DEF Inv

\* Steps of the opening change nothing that the sample depends on.
LEMMA UnchangedKeeps == ASSUME NEW Outputs, Inv(Outputs), UNCHANGED <<chainVars, sampleVars, board>>
                        PROVE  Inv(Outputs)'
<1>1. UNCHANGED <<committed, outputs, joined, type, pc, stageOf, known, report, board>>
  BY Zenon DEF chainVars, sampleVars
<1>2. Current' = Current /\ NextOutput' = NextOutput
  BY <1>1, Zenon DEF Current, NextOutput
<1>3. /\ \A p, q : In(p, q)' <=> In(p, q)
      /\ \A p : (Ready(p)' <=> Ready(p)) /\ Seed(p)' = Seed(p)
  BY <1>1, <1>2, Zenon DEF In, Ready, Seed
<1>4. Shape' /\ Outcomes(Outputs)'
  BY <1>1, <1>2, Zenon DEF Inv, Shape, Outcomes, Chain!Before
<1>5. Progress' /\ Reported'
  BY <1>1, <1>2, <1>3, Zenon DEF Inv, Progress, Reported
<1>6. Contributions'
  BY <1>1, <1>3, Zenon DEF Inv, Contributions
<1> QED
  BY <1>4, <1>5, <1>6, Zenon DEF Inv

\* A verified sample was drawn by an output that nobody knew when the function
\* was committed and that the server, and for polyc the client, contributed
\* to; a sample of the server is refused only when the beacon went on between
\* the two contributions.  This is so however the beacon's stages interleave
\* with the program's steps and however often it is started, if no two
\* outputs of the beacon are the same.
THEOREM VerifiedSamplesAreFair ==
  ASSUME NEW Outputs, NoCollisions(Outputs), Sizes
  PROVE  LootBoxSpec => []SampleFair
<1>1. LootBoxInit => Inv(Outputs)
  <2> SUFFICES ASSUME LootBoxInit PROVE Inv(Outputs)
    OBVIOUS
  <2>1. /\ committed = <<>> /\ outputs = <<>> /\ joined = {} /\ type = "polyc" /\ pc = "off"
        /\ stageOf = [p \in {"server", "client"} |-> 0] /\ known = {} /\ report = "none"
        /\ board = [c |-> "paths", evals |-> <<>>]
    BY Zenon DEF LootBoxInit
  <2>2. DOMAIN committed = {} /\ DOMAIN outputs = {}
    BY <2>1
  <2>3. Current = 0 /\ NextOutput = 0
    BY <2>2, FS_EmptySet, Zenon DEF Current, NextOutput
  <2>4. Shape
    <3>1. 0 .. 0 - 1 = {}
      BY SMT
    <3> QED
      BY <2>1, <2>2, <2>3, <3>1, SMT DEF Shape
  <2>5. Outcomes(Outputs)
    BY <2>2, Zenon DEF Outcomes
  <2>6. Progress
    BY <2>1, <2>3 DEF Progress, Parties, Types
  <2>7. Contributions /\ Reported
    BY <2>1 DEF Contributions, Reported
  <2> QED
    BY <2>4, <2>5, <2>6, <2>7, Zenon DEF Inv
<1>2. Inv(Outputs) /\ [LootBoxNext]_lootBoxVars => Inv(Outputs)'
  <2> SUFFICES ASSUME Inv(Outputs), [LootBoxNext]_lootBoxVars PROVE Inv(Outputs)'
    OBVIOUS
  <2>1. SetupOpening \/ RequestOpening \/ UNCHANGED lootBoxVars => UNCHANGED <<chainVars, sampleVars, board>>
    BY Zenon DEF SetupOpening, RequestOpening, lootBoxVars
  <2> QED
    BY <2>1, CommitsKeep, PublishesKeep, StartKeeps, ImportKeeps, WriteKeeps, ServerKeeps, EvaluateKeeps,
       VerifyKeeps, UnchangedKeeps, Zenon DEF LootBoxNext
<1>3. Inv(Outputs) => SampleFair
  <2> SUFFICES ASSUME Inv(Outputs) PROVE SampleFair
    OBVIOUS
  <2>1. type \in Types /\ \A p \in Parties : stageOf[p] \in 0 .. Current
    BY Zenon DEF Inv, Progress
  <2>2. Reported /\ Current \in Nat
    BY Zenon DEF Inv, Shape
  <2>3. ASSUME report = "verified", type # "plot"
        PROVE  (IF type = "fc" THEN {"server"} ELSE {"server", "client"}) \subseteq committed[stageOf["server"]]
    <3>1. /\ stageOf["server"] < Current /\ stageOf["client"] = stageOf["server"] /\ In("server", "server")
          /\ type = "polyc" => In("client", "client")
      BY <2>2, <2>3, Zenon DEF Reported
    <3>2. stageOf["server"] # Current
      BY <2>1, <2>2, <3>1, SMT DEF Parties
    <3>3. "server" \in committed[stageOf["server"]] /\ (type = "polyc" => "client" \in committed[stageOf["server"]])
      BY <3>1, <3>2, Zenon DEF In
    <3> QED
      BY <2>1, <2>3, <3>3 DEF Types
  <2> QED
    BY <2>2, <2>3, Zenon DEF Reported, SampleFair
<1> QED
  BY <1>1, <1>2, <1>3, PTL DEF LootBoxSpec

=============================================================================
