--------------------------- MODULE HeadStartProofs ---------------------------
(***************************************************************************)
(* The client and the beacon together: under gevent an honest server is    *)
(* never rejected, for every window, every number of stages and of other   *)
(* contributors, and whatever the client asks for.  The invariants of the  *)
(* server (BeaconProofs) and of the client's loop (ClientProofs) meet in   *)
(* what the client has fetched.                                            *)
(***************************************************************************)
EXTENDS HeadStart, BeaconProofs

\* The client's loop does not depend on who answers.
NoAnswers(asked) == {}
P == INSTANCE ClientProofs WITH Calls <- {}, AnswersTo <- NoAnswers, Positions <- {}

-----------------------------------------------------------------------------
(* The invariant.                                                          *)

Within == \A i \in 1 .. Len(ranges) : ranges[1][1] <= ranges[i][1] /\ ranges[i][2] <= to
Loop == C!RangesSoFar /\ C!RangesTile /\ Within

\* The contribution is where the receipt said.
Called ==
  client # "idle" =>
    /\ from \in StageIds /\ to \in StageIds /\ from <= to /\ from < n
    /\ index + 1 \in 1 .. Len(data[from]) /\ data[from][index + 1] = value
    /\ "acc" \in attrs[from] => index + 1 \in 1 .. Len(acc[from]) /\ acc[from][index + 1] = value

Polled == client \notin {"idle", "poll"} => phase[to] = DONE

\* What was fetched is what is published, every stage in its place.
Fetched ==
  client \in {"accproof", "verify"} =>
    /\ DOMAIN stages = C!Asked
    /\ \A k \in C!Asked :
      /\ stages[k].stage = k
      /\ stages[k].vdfy = IF k = -1 THEN NoY ELSE y[k]
      /\ k # -1 => stages[k].accval = acc[k] /\ stages[k].vdfproof = proof[k]

Accepted ==
  /\ client # "raised"
  /\ client = "verify" => range \in 1 .. Len(ranges) + 1
  /\ client = "returned" => result = y[to]

ProofsAreSequences ==
  \A k \in StageIds : Len(proof[k]) \in Nat /\ proof[k] = [i \in 1 .. Len(proof[k]) |-> proof[k][i]]

SystemInv == Loop /\ Called /\ Polled /\ Fetched /\ Accepted /\ ProofsAreSequences

-----------------------------------------------------------------------------
(* The server: what is published does not change.                          *)

LEMMA DoneFixed ==
  ASSUME IInv, [Next]_vars, NEW k \in StageIds, phase[k] = DONE
  PROVE  phase'[k] = DONE /\ acc'[k] = acc[k] /\ y'[k] = y[k] /\ proof'[k] = proof[k]
<1> USE DEF stageVars
<1>0. DOMAIN acc = StageIds /\ DOMAIN y = StageIds /\ DOMAIN proof = StageIds
  BY DEF IInv, TypeOK
<1>1. phase'[k] = DONE
  BY DoneStays
<1>2. CASE Accumulate
  <2>1. cur # k
    BY <1>2 DEF Accumulate, IInv, Control, SchedulerAtLast, EVALUATION, DONE
  <2> QED
    BY <1>0, <1>1, <1>2, <2>1 DEF Accumulate
<1>3. ASSUME NEW j \in StageIds, VdfEval(j) PROVE y'[k] = y[k] /\ UNCHANGED <<acc, proof>>
  <2>1. j # k
    BY <1>3 DEF VdfEval, IInv, Control, VdfThreads, EVALUATION, DONE
  <2> QED
    BY <1>0, <1>3, <2>1 DEF VdfEval
<1>4. ASSUME NEW j \in StageIds, VdfAggregate(j) PROVE proof'[k] = proof[k] /\ UNCHANGED <<acc, y>>
  <2>1. j # k
    BY <1>4 DEF VdfAggregate, IInv, Control, VdfThreads, EVALUATION, DONE
  <2> QED
    BY <1>0, <1>4, <2>1 DEF VdfAggregate
<1>5. CASE UNCHANGED <<acc, y, proof>>
  BY <1>1, <1>5
<1> QED
  BY <1>1, <1>2, <1>3, <1>4, <1>5, HandlerSteps
     DEF Next, Scheduler, Tick, StopContribution, TestPrev, WakeUp, HashChallenge, StartVdf, AppendStage,
         VdfThread, VdfFinish

LEMMA ProofsSequencesStep ==
  ASSUME IInv, ProofsAreSequences, [Next]_vars
  PROVE  ProofsAreSequences'
<1> USE DEF stageVars
<1>0. DOMAIN proof = StageIds
  BY DEF IInv, TypeOK
<1>1. ASSUME NEW j \in StageIds, VdfAggregate(j), proof' # proof PROVE ProofsAreSequences'
  <2> DEFINE new == [i \in 1 .. Len(prev[j]) + 1 |-> <<challenge[Aggregated(j)[i]], y[Aggregated(j)[i]]>>]
  <2>1. proof' = [proof EXCEPT ![j] = new]
    BY <1>1, Zenon DEF VdfAggregate
  <2>2. Len(prev[j]) \in Nat
    BY DEF IInv, TypeOK
  <2>3. Len(new) \in Nat /\ new = [i \in 1 .. Len(new) |-> new[i]]
    <3>1. Len(new) = Len(prev[j]) + 1
      BY <2>2, SMT
    <3> QED
      BY <2>2, <3>1
  <2> HIDE DEF new
  <2>4. \A k \in StageIds : proof'[k] = IF k = j THEN new ELSE proof[k]
    BY <1>0, <2>1, Zenon
  <2> QED
    BY <2>3, <2>4, Zenon DEF ProofsAreSequences
<1>2. CASE UNCHANGED proof
  BY <1>2, Zenon DEF ProofsAreSequences
<1> QED
  BY <1>1, <1>2, HandlerSteps
     DEF Next, Scheduler, Tick, StopContribution, Accumulate, TestPrev, WakeUp, HashChallenge, StartVdf, AppendStage,
         VdfThread, VdfEval, VdfFinish

\* With a stage all before it are DONE.
LEMMA DoneBefore ==
  ASSUME IInv, NEW k \in StageIds, phase[k] = DONE, NEW j \in StageIds, j <= k
  PROVE  phase[j] = DONE /\ attrs[j] = Attributes
<1>1. phase[j] = DONE
  <2>1. vdf[k] = "exit"
    BY DEF IInv, Control, VdfThreads
  <2>2. CASE j < k
    BY <2>1, <2>2 DEF IInv, Control, VdfThreads
  <2>3. CASE j = k
    BY <2>3
  <2> QED
    BY <2>2, <2>3, Bounds DEF IInv
<1> QED
  BY <1>1 DEF IInv, Control, VdfThreads

\* A step of the server leaves the client where it is, with the same right to
\* what it holds.
LEMMA ServerStep ==
  ASSUME IInv, SystemInv, [Next]_vars, UNCHANGED <<clientVars, index>>
  PROVE  SystemInv'
<1>1. UNCHANGED <<client, from, to, value, target, ranges, stages, range, result, index>>
  BY DEF clientVars
<1>2. TypeOK /\ Control
  BY DEF IInv
<1>3. Loop'
  BY <1>1, Zenon DEF SystemInv, Loop, Within, C!RangesSoFar, C!RangesTile, C!RangeStart, C!Max0, C!ClientPcs
<1>4. Called'
  <2>1. SUFFICES ASSUME client # "idle" PROVE Called'
    BY <1>1 DEF Called
  <2>2. /\ from \in StageIds /\ to \in StageIds /\ from <= to /\ from < n
        /\ index + 1 \in 1 .. Len(data[from]) /\ data[from][index + 1] = value
        /\ "acc" \in attrs[from] => index + 1 \in 1 .. Len(acc[from]) /\ acc[from][index + 1] = value
    BY <2>1 DEF SystemInv, Called
  <2>3. /\ n' >= n /\ n' \in Nat /\ n \in Nat /\ from \in Nat
        /\ Len(data'[from]) \in Nat /\ Len(data'[from]) >= Len(data[from]) /\ Len(data[from]) \in Nat
        /\ \A i \in 1 .. Len(data[from]) : data'[from][i] = data[from][i]
    <3>1. Len(data[from]) \in Nat
      BY <1>2, <2>2 DEF TypeOK
    <3> QED
      BY <1>2, <2>2, <3>1, DataStays, Bounds
  <2>4. index + 1 \in 1 .. Len(data'[from]) /\ data'[from][index + 1] = value
    BY <2>2, <2>3
  <2>5. "acc" \in attrs'[from] => index + 1 \in 1 .. Len(acc'[from]) /\ acc'[from][index + 1] = value
    BY <1>2, <2>2, AccumulatorsStay
  <2>6. from < n'
    BY <2>2, <2>3
  <2> QED
    BY <1>1, <2>2, <2>4, <2>5, <2>6, Zenon DEF Called, StageIds
<1>5. client \notin {"idle", "poll"} =>
        /\ phase[to] = DONE /\ to \in StageIds /\ phase'[to] = DONE /\ y'[to] = y[to]
        /\ \A k \in StageIds : k <= to => acc'[k] = acc[k] /\ y'[k] = y[k] /\ proof'[k] = proof[k]
  BY DoneBefore, DoneFixed DEF SystemInv, Polled, Called
<1>6. Polled'
  BY <1>1, <1>5 DEF Polled
<1>7. client \in {"accproof", "verify"} => \A k \in C!Asked : k = -1 \/ (k \in StageIds /\ k <= to)
  <2> SUFFICES ASSUME client \in {"accproof", "verify"}, NEW k \in C!Asked
               PROVE  k = -1 \/ (k \in StageIds /\ k <= to)
    OBVIOUS
  <2>1. ranges # <<>> /\ ranges[1][1] >= 0 /\ ranges \in Seq(Nat \X Nat) /\ to \in StageIds /\ to \in Nat
    BY DEF SystemInv, Loop, C!RangesTile, C!RangesSoFar, Called
  <2>2. ranges[1][1] \in Nat
    BY <2>1
  <2>3. k \in Int /\ k >= -1 /\ k <= to
    BY <2>1, <2>2 DEF C!Asked, C!start
  <2> QED
    BY <1>2, <2>1, <2>3, Bounds
<1>8. Fetched'
  <2> SUFFICES ASSUME client \in {"accproof", "verify"}, NEW k \in C!Asked
               PROVE  /\ stages[k].vdfy = IF k = -1 THEN NoY ELSE y'[k]
                      /\ k # -1 => stages[k].accval = acc'[k] /\ stages[k].vdfproof = proof'[k]
    BY <1>1, Zenon DEF SystemInv, Fetched, C!Asked, C!start
  <2> QED
    BY <1>5, <1>7 DEF SystemInv, Fetched
<1>9. Accepted'
  BY <1>1, <1>5 DEF SystemInv, Accepted
<1> QED
  BY <1>3, <1>4, <1>6, <1>8, <1>9, ProofsSequencesStep DEF SystemInv

-----------------------------------------------------------------------------
(* The client: each of its steps is accepted.                              *)

LEMMA InitSystem == SystemInit => SystemInv
<1> SUFFICES ASSUME SystemInit PROVE SystemInv
  OBVIOUS
<1>1. /\ client = "idle" /\ from = 0 /\ to = 0 /\ target = 0 /\ ranges = <<>>
      /\ proof = [k \in StageIds |-> <<>>]
  BY DEF SystemInit, Init, C!Init
<1>2. Loop
  BY <1>1 DEF Loop, Within, C!RangesSoFar, C!RangesTile, C!ClientPcs
<1>3. Called /\ Polled /\ Fetched /\ Accepted
  BY <1>1 DEF Called, Polled, Fetched, Accepted
<1>4. ProofsAreSequences
  <2>1. Len(<<>>) \in Nat /\ <<>> = [i \in 1 .. Len(<<>>) |-> <<>>[i]]
    OBVIOUS
  <2>2. \A k \in StageIds : proof[k] = <<>>
    BY <1>1
  <2> QED
    BY <2>1, <2>2, Zenon DEF ProofsAreSequences
<1> QED
  BY <1>2, <1>3, <1>4 DEF SystemInv

\* A step of the client: it leaves the server alone.
LEMMA ServerFixed ==
  ASSUME UNCHANGED vars
  PROVE  UNCHANGED <<n, phase, data, attrs, acc, challenge, y, proof, receipt>>
BY DEF vars, stageVars, threadVars, reqVars

LEMMA CallAccepted ==
  ASSUME IInv, Cooperative, SystemInv, CallClient, UNCHANGED vars
  PROVE  SystemInv'
<1>1. PICK c \in Clients, t \in 0 .. MaxStages - 2 :
        /\ receipt[c] # NoReceipt
        /\ t >= receipt[c].stage
        /\ C!Call(receipt[c].stage, t, receipt[c].x)
        /\ index' = receipt[c].data_index
  BY DEF CallClient
<1> DEFINE k == receipt[c].stage
<1>2. /\ client = "idle" /\ client' = "poll" /\ from' = k /\ to' = t /\ value' = receipt[c].x
      /\ UNCHANGED <<target, ranges, stages, range, result>>
  BY <1>1 DEF C!Call
<1>3. /\ k \in 0 .. n - 1 /\ index' + 1 \in 1 .. Len(data[k]) /\ data[k][index' + 1] = value'
      /\ "acc" \in attrs[k] => index' + 1 \in 1 .. Len(acc[k]) /\ acc[k][index' + 1] = value'
  BY <1>1, <1>2 DEF Cooperative, ReceiptsExist, ReceiptHonoured
<1>4. TypeOK
  BY DEF IInv
<1>5. t \in StageIds /\ k \in StageIds /\ k <= t /\ k < n /\ t \in Nat /\ k \in Nat
  BY <1>1, <1>3, <1>4, Bounds
<1>6. ranges = <<>> /\ target \in Int
  BY <1>2 DEF SystemInv, Loop, C!RangesSoFar
<1>7. Loop'
  BY <1>2, <1>5, <1>6 DEF Loop, Within, C!RangesSoFar, C!RangesTile, C!ClientPcs
<1>8. Called'
  BY <1>2, <1>3, <1>5, ServerFixed DEF Called, StageIds
<1>9. Polled' /\ Fetched' /\ Accepted'
  BY <1>2 DEF Polled, Fetched, Accepted
<1>10. ProofsAreSequences'
  BY ServerFixed, Zenon DEF SystemInv, ProofsAreSequences
<1> QED
  BY <1>7, <1>8, <1>9, <1>10 DEF SystemInv

\* What the client's later steps leave alone.
LEMMA CallStays ==
  ASSUME SystemInv, UNCHANGED <<vars, index, from, to, value>>, client # "idle"
  PROVE  Called' /\ ProofsAreSequences'
<1>1. ProofsAreSequences'
  BY ServerFixed, Zenon DEF SystemInv, ProofsAreSequences
<1>2. Called'
  BY ServerFixed, Zenon DEF SystemInv, Called, StageIds
<1> QED
  BY <1>1, <1>2

\* The ranges are found once.
LEMMA LoopStays ==
  ASSUME SystemInv, UNCHANGED <<from, to, target, ranges>>,
         client \in {"fetch", "accproof", "verify"}, client' \in C!ClientPcs \ {"idle", "poll", "split"}
  PROVE  Loop'
BY Zenon DEF SystemInv, Loop, Within, C!RangesSoFar, C!RangesTile, C!RangeStart, C!Max0

LEMMA PollAccepted ==
  ASSUME IInv, SystemInv, Poll, UNCHANGED <<vars, index>>
  PROVE  SystemInv'
<1>1. /\ client = "poll" /\ client' = "split" /\ target' = to /\ phase[to] >= DONE
      /\ UNCHANGED <<from, to, value, ranges, stages, range, result>>
  BY DEF Poll, C!PollDone
<1>2. ranges = <<>> /\ from \in Nat /\ to \in Nat /\ to \in StageIds
  BY <1>1 DEF SystemInv, Loop, C!RangesSoFar, Called
<1>3. Loop'
  BY <1>1, <1>2 DEF Loop, Within, C!RangesSoFar, C!RangesTile, C!ClientPcs
<1>4. Called' /\ ProofsAreSequences'
  BY <1>1, CallStays
<1>5. phase[to] = DONE
  BY <1>1, <1>2, PhaseDone DEF IInv
<1> QED
  BY <1>1, <1>3, <1>4, <1>5, ServerFixed DEF SystemInv, Polled, Fetched, Accepted

\* The loop that splits the stages (LoopStep of ClientProofs).
LEMMA LoopTiles ==
  ASSUME Loop, C!SplitRange
  PROVE  C!RangesSoFar' /\ C!RangesTile'
<1>1. W \in Nat \ {0}
  BY BeaconAssumption
<1>2. client = "split"
  BY DEF C!SplitRange
<1>3. P!SplitRange
  BY Zenon DEF C!SplitRange, P!SplitRange, C!RangeStart, P!RangeStart, C!Max0, P!Max0
<1>4. P!ClientInv
  <2>1. P!RangesSoFar
    BY Zenon DEF Loop, C!RangesSoFar, P!RangesSoFar, C!RangeStart, P!RangeStart, C!Max0, P!Max0, C!ClientPcs, P!ClientPcs
  <2>2. P!RangesTile /\ P!VerifiedSoFar /\ P!ListPlaced
    BY <1>2 DEF P!RangesTile, P!VerifiedSoFar, P!ListPlaced
  <2> QED
    BY <2>1, <2>2 DEF P!ClientInv
<1>5. P!RangesSoFar' /\ P!RangesTile'
  BY <1>1, <1>3, <1>4, P!LoopStep
<1> QED
  BY <1>5, Zenon DEF C!RangesSoFar, P!RangesSoFar, C!RangesTile, P!RangesTile, C!RangeStart, P!RangeStart,
                     C!Max0, P!Max0, C!ClientPcs, P!ClientPcs

LEMMA SplitAccepted ==
  ASSUME IInv, SystemInv, C!SplitRange, UNCHANGED <<vars, index>>
  PROVE  SystemInv'
<1>0. /\ client = "split" /\ UNCHANGED <<from, to, value, stages, range, result>>
      /\ from \in Nat /\ to \in Nat /\ target \in Int /\ W \in Nat /\ W > 1 /\ from <= to
      /\ ranges \in Seq(Nat \X Nat)
      /\ ranges = <<>> => target = to
      /\ ranges # <<>> => target = ranges[1][2] - W
      /\ \A i \in 1 .. Len(ranges) : ranges[i][1] = C!RangeStart(ranges[i][2])
      /\ \A i \in 1 .. Len(ranges) : ranges[1][1] <= ranges[i][1] /\ ranges[i][2] <= to
  BY BeaconAssumption DEF C!SplitRange, SystemInv, Loop, Within, C!RangesSoFar, Called
<1>1. Called' /\ ProofsAreSequences'
  BY <1>0, CallStays
<1>2. Within' /\ client' \in {"split", "fetch"}
  <2>1. CASE target >= from
    <3> DEFINE r == <<C!RangeStart(target), target>>
    <3>1. ranges' = <<r>> \o ranges /\ client' = client
      BY <1>0, <2>1 DEF C!SplitRange
    <3>2. r \in Nat \X Nat /\ r[1] = C!RangeStart(target) /\ r[2] = target
      BY <1>0, <2>1 DEF C!RangeStart, C!Max0
    <3>3. r[1] \in Nat /\ r[1] <= target
      BY <1>0, <2>1, <3>2 DEF C!RangeStart, C!Max0
    <3> HIDE DEF r
    <3>4. /\ Len(ranges) \in Nat /\ Len(ranges') = Len(ranges) + 1 /\ ranges'[1] = r
          /\ \A i \in 1 .. Len(ranges) : ranges'[i + 1] = ranges[i]
      BY <1>0, <3>1, <3>2
    <3>5. ranges # <<>> => r[1] <= ranges[1][1] /\ target <= to /\ ranges[1][1] \in Nat
      <4> SUFFICES ASSUME ranges # <<>> PROVE r[1] <= ranges[1][1] /\ target <= to /\ ranges[1][1] \in Nat
        OBVIOUS
      <4>1. 1 \in 1 .. Len(ranges)
        BY <1>0
      <4>2. ranges[1] \in Nat \X Nat
        BY <1>0, <4>1
      <4>3. ranges[1][1] \in Nat /\ ranges[1][2] \in Nat /\ ranges[1][2] = target + W /\ ranges[1][2] <= to
        BY <1>0, <4>1, <4>2
      <4>4. ranges[1][1] = C!RangeStart(target + W)
        BY <1>0, <4>1, <4>3
      <4>5. C!RangeStart(target + W) = target + 1
        BY <1>0, <2>1 DEF C!RangeStart, C!Max0
      <4> QED
        BY <1>0, <2>1, <3>3, <4>3, <4>4, <4>5
    <3>6. ASSUME NEW i \in 1 .. Len(ranges') PROVE r[1] <= ranges'[i][1] /\ ranges'[i][2] <= to
      <4>1. CASE i = 1
        BY <1>0, <3>2, <3>3, <3>4, <3>5, <4>1
      <4>2. CASE i # 1
        <5>1. PICK j \in 1 .. Len(ranges) : i = j + 1
          BY <3>4, <4>2
        <5>2. ranges # <<>>
          BY <3>4, <5>1
        <5>5. ranges'[i] = ranges[j]
          BY <3>4, <5>1, Zenon
        <5>3. ranges[j] \in Nat \X Nat
          BY <1>0, <5>1
        <5>4. ranges[j][1] \in Nat /\ ranges[j][2] \in Nat /\ ranges[1][1] <= ranges[j][1] /\ ranges[j][2] <= to
          BY <1>0, <5>1, <5>3
        <5> QED
          BY <3>3, <3>5, <5>2, <5>5, <5>4
      <4> QED
        BY <4>1, <4>2
    <3>7. ranges'[1][1] = r[1] /\ to' = to
      BY <1>0, <3>4
    <3> QED
      BY <1>0, <3>1, <3>6, <3>7 DEF Within
  <2>2. CASE ~(target >= from)
    <3>1. ranges' = ranges /\ client' = "fetch"
      BY <1>0, <2>2 DEF C!SplitRange
    <3> QED
      BY <1>0, <3>1, Zenon DEF Within
  <2> QED
    BY <2>1, <2>2
<1>3. Loop'
  BY <1>2, LoopTiles DEF SystemInv, Loop
<1>4. Polled'
  BY <1>0, ServerFixed DEF SystemInv, Polled
<1>5. Fetched' /\ Accepted'
  BY <1>2 DEF Fetched, Accepted
<1> QED
  BY <1>1, <1>3, <1>4, <1>5 DEF SystemInv

\* The stages the client asks for are DONE, and the contribution's is among them.
LEMMA AskedStages ==
  ASSUME IInv, SystemInv, client \in {"fetch", "accproof", "verify"}
  PROVE  /\ from \in C!Asked /\ to \in C!Asked
         /\ \A k \in C!Asked : k # -1 => k \in StageIds /\ k <= to /\ phase[k] = DONE /\ attrs[k] = Attributes
         /\ ranges \in Seq(Nat \X Nat) /\ ranges[1][1] \in Nat /\ to \in Nat /\ from \in Nat
         /\ C!start = ranges[1][1] /\ C!start <= from /\ from <= to
<1>1. /\ ranges # <<>> /\ ranges[1][1] >= 0 /\ ranges[1][1] <= from /\ ranges \in Seq(Nat \X Nat)
      /\ from \in StageIds /\ to \in StageIds /\ from \in Nat /\ to \in Nat /\ from <= to
  BY DEF SystemInv, Loop, C!RangesTile, C!RangesSoFar, Called
<1>2. ranges[1][1] \in Nat
  BY <1>1
<1>3. from \in C!Asked /\ to \in C!Asked /\ C!start = ranges[1][1]
  BY <1>1, <1>2 DEF C!Asked, C!start
<1>4. ASSUME NEW k \in C!Asked, k # -1
      PROVE  k \in StageIds /\ k <= to /\ phase[k] = DONE /\ attrs[k] = Attributes
  <2>1. k \in Int /\ k >= 0 /\ k <= to
    BY <1>1, <1>2, <1>4 DEF C!Asked, C!start
  <2>2. k \in StageIds
    BY <1>1, <2>1, Bounds DEF IInv
  <2>3. phase[to] = DONE
    BY DEF SystemInv, Polled
  <2> QED
    BY <1>1, <2>1, <2>2, <2>3, DoneBefore
<1> QED
  BY <1>1, <1>2, <1>3, <1>4

LEMMA FetchAccepted ==
  ASSUME IInv, SystemInv, FetchStages, UNCHANGED <<vars, index>>
  PROVE  SystemInv'
<1>1. /\ client = "fetch" /\ stages' = C!Placed(HonestAnswer)
      /\ client' = IF HonestAnswer = <<>> THEN "raised" ELSE "accproof"
      /\ UNCHANGED <<from, to, value, target, ranges, range, result>>
  BY DEF FetchStages, C!Fetch
<1>2. C!start \in Nat /\ to \in Nat /\ C!start <= to
  BY <1>1, AskedStages
<1>3. /\ Len(HonestAnswer) = to - C!start + 2 /\ HonestAnswer # <<>>
      /\ \A i \in 1 .. to - C!start + 2 : HonestAnswer[i] = StageAnswer(C!start + i - 2)
  <2> DEFINE l == to - C!start + 2
  <2>1. l \in Nat /\ l # 0
    BY <1>2
  <2>2. HonestAnswer = [i \in 1 .. l |-> StageAnswer(C!start + i - 2)]
    BY Zenon DEF HonestAnswer
  <2> HIDE DEF l
  <2>3. Len(HonestAnswer) = l /\ HonestAnswer # <<>>
    BY <2>1, <2>2
  <2>4. \A i \in 1 .. l : HonestAnswer[i] = StageAnswer(C!start + i - 2)
    BY <2>2, Zenon
  <2> QED
    BY <2>3, <2>4, Zenon DEF l
<1>4. DOMAIN stages' = C!Asked /\ \A k \in C!Asked : stages'[k] = StageAnswer(k)
  <2>1. C!start - 2 + Len(HonestAnswer) = to
    BY <1>2, <1>3
  <2>2. stages' = [k \in C!Asked |-> HonestAnswer[k - C!start + 2]]
    BY <1>1, <2>1, Zenon DEF C!Placed, C!Asked
  <2>3. ASSUME NEW k \in C!Asked PROVE HonestAnswer[k - C!start + 2] = StageAnswer(k)
    <3>1. k - C!start + 2 \in 1 .. to - C!start + 2 /\ C!start + (k - C!start + 2) - 2 = k
      BY <1>2 DEF C!Asked
    <3> QED
      BY <1>3, <3>1
  <2> QED
    BY <2>2, <2>3, Zenon
<1>5. /\ client = "fetch" /\ client' = "accproof"
      /\ UNCHANGED <<from, to, value, target, ranges, range, result>>
  BY <1>1, <1>3
<1>6. Loop'
  BY <1>5, LoopStays DEF C!ClientPcs
<1>7. Called' /\ ProofsAreSequences'
  BY <1>5, CallStays
<1>8. Polled' /\ Accepted'
  BY <1>5, ServerFixed DEF SystemInv, Polled, Accepted
<1>9. ASSUME NEW k \in C!Asked
      PROVE  /\ stages'[k].stage = k
             /\ stages'[k].vdfy = IF k = -1 THEN NoY ELSE y[k]
             /\ k # -1 => stages'[k].accval = acc[k] /\ stages'[k].vdfproof = proof[k]
  <2>1. stages'[k] = StageAnswer(k)
    BY <1>4
  <2>2. CASE k = -1
    BY <2>1, <2>2 DEF StageAnswer, NoStage
  <2>3. CASE k # -1
    <3>1. phase[k] >= EVALUATION /\ phase[k] >= DONE
      BY <1>5, <2>3, AskedStages DEF EVALUATION, DONE
    <3> QED
      BY <2>1, <2>3, <3>1 DEF StageAnswer
  <2> QED
    BY <2>2, <2>3
<1>10. Fetched'
  <2>1. C!Asked' = C!Asked
    BY <1>5, Zenon DEF C!Asked, C!start
  <2> QED
    BY <1>4, <1>9, <2>1, ServerFixed, Zenon DEF Fetched
<1> QED
  BY <1>6, <1>7, <1>8, <1>10 DEF SystemInv

\* In an honest answer the first element labelled with a stage is the one at
\* its place.
LEMMA FirstIsPlace ==
  ASSUME IInv, SystemInv, client \in {"accproof", "verify"}, NEW s \in C!Asked, s >= C!start
  PROVE  C!Labelled(s) # {} /\ C!First(s) = s
<1>1. DOMAIN stages = C!Asked /\ \A k \in C!Asked : stages[k].stage = k
  BY DEF SystemInv, Fetched
<1>2. s \in C!Labelled(s) /\ \A j \in C!Labelled(s) : j = s
  BY <1>1 DEF C!Labelled
<1>3. s \in Int
  BY DEF C!Asked
<1>4. \A j \in C!Labelled(s) : s <= j
  BY <1>2, <1>3
<1> QED
  BY <1>2, <1>4, Zenon DEF C!First

\* The position in the receipt is the one in the accumulator.
LEMMA AccproofAccepted ==
  ASSUME IInv, SystemInv, FetchAccproof, UNCHANGED <<vars, index>>
  PROVE  SystemInv'
<1>0. client = "accproof"
  BY DEF FetchAccproof, C!CheckAccproof
<1>1. /\ client = "accproof" /\ range' = 1
      /\ client' = IF C!AccVerify(stages[from].accval, index + 1, value) THEN "verify" ELSE "raised"
      /\ UNCHANGED <<from, to, value, target, ranges, stages, result>>
  <2>1. C!Labelled(from) # {} /\ C!First(from) = from
    BY <1>0, AskedStages, FirstIsPlace
  <2> QED
    BY <2>1, Zenon DEF FetchAccproof, C!CheckAccproof
<1>2. /\ from \in C!Asked /\ from # -1 /\ from \in StageIds /\ attrs[from] = Attributes
      /\ ranges \in Seq(Nat \X Nat)
  BY <1>1, AskedStages
<1>3. stages[from].accval = acc[from]
  BY <1>1, <1>2 DEF SystemInv, Fetched
<1>4. acc[from] \in Seq(Data) /\ index + 1 \in 1 .. Len(acc[from]) /\ acc[from][index + 1] = value
  BY <1>1, <1>2 DEF SystemInv, Called, Attributes, IInv, TypeOK
<1>5. client' = "verify"
  BY <1>1, <1>3, <1>4 DEF C!AccVerify
<1>6. Loop'
  BY <1>1, <1>5, LoopStays DEF C!ClientPcs
<1>7. Called' /\ ProofsAreSequences'
  BY <1>1, CallStays
<1>8. Polled'
  BY <1>1, ServerFixed DEF SystemInv, Polled
<1>9. Fetched'
  BY <1>1, ServerFixed, Zenon DEF SystemInv, Fetched, C!Asked, C!start
<1>10. Accepted'
  BY <1>1, <1>2, <1>5 DEF Accepted
<1> QED
  BY <1>6, <1>7, <1>8, <1>9, <1>10 DEF SystemInv

\* A range is the window of the proof of its last stage, made for the same
\* challenges and outputs.
LEMMA RangeProved ==
  ASSUME IInv, SystemInv, client = "verify", NEW r \in 1 .. Len(ranges)
  PROVE  C!RangeVerifies(ranges[r])
<1> DEFINE a == ranges[r][1]
           b == ranges[r][2]
<1>1. /\ ranges \in Seq(Nat \X Nat) /\ ranges[1][1] \in Nat /\ to \in Nat
      /\ \A k \in C!Asked : k # -1 => k \in StageIds /\ phase[k] = DONE /\ attrs[k] = Attributes
      /\ C!start = ranges[1][1]
  BY AskedStages
<1>2. ranges[r] \in Nat \X Nat
  BY <1>1
<1>3. a \in Nat /\ b \in Nat /\ ranges[1][1] <= a /\ b <= to /\ a = C!RangeStart(b)
  BY <1>2 DEF SystemInv, Loop, Within, C!RangesSoFar
<1>4. W \in Nat /\ W > 1
  BY BeaconAssumption
<1>5. a <= b /\ WindowStart(b) = a
  BY <1>3, <1>4 DEF C!RangeStart, C!Max0, WindowStart
<1> HIDE DEF a, b
<1>6. b \in C!Asked /\ b # -1
  BY <1>1, <1>3, <1>5 DEF C!Asked
<1>7. b \in DOMAIN stages /\ stages[b].vdfproof = proof[b] /\ b \in StageIds /\ attrs[b] = Attributes
  BY <1>1, <1>6 DEF SystemInv, Fetched
<1>8. /\ Len(proof[b]) = b - a + 1
      /\ \A i \in 1 .. Len(proof[b]) : proof[b][i] = <<challenge[a + i - 1], y[a + i - 1]>>
      /\ proof[b] = [i \in 1 .. Len(proof[b]) |-> proof[b][i]]
  BY <1>5, <1>7, Zenon DEF IInv, ProofsOfWindows, SystemInv, ProofsAreSequences, Attributes
<1>9. ASSUME NEW k \in a .. b
      PROVE  stages[k].vdfy = y[k] /\ C!Challenge(k) = challenge[k] /\ y[k] = Eval(challenge[k])
  <2>1. k \in C!Asked /\ k - 1 \in C!Asked /\ k # -1 /\ k \in Nat
    <3>1. C!start \in Nat /\ C!start <= a
      BY <1>1, <1>3, Zenon
    <3>2. k \in Nat /\ C!start <= k /\ k <= to
      BY <1>1, <1>3, <3>1
    <3> QED
      BY <1>1, <3>1, <3>2 DEF C!Asked
  <2>2. k \in StageIds /\ attrs[k] = Attributes
    BY <1>1, <2>1
  <2>3. stages[k].vdfy = y[k] /\ stages[k].accval = acc[k]
    BY <2>1 DEF SystemInv, Fetched
  <2>4. stages[k - 1].vdfy = IF k = 0 THEN NoY ELSE y[k - 1]
    <3>1. k - 1 = -1 <=> k = 0
      BY <2>1
    <3> QED
      BY <2>1, <3>1 DEF SystemInv, Fetched
  <2>5. y[k] = Eval(challenge[k])
    BY <2>2, Zenon DEF IInv, ChallengesChained, Attributes
  <2>6. challenge[k] = Hash(acc[k], IF k = 0 THEN NoY ELSE y[k - 1])
    BY <2>2, Zenon DEF IInv, ChallengesChained, Attributes
  <2> QED
    BY <2>3, <2>4, <2>5, <2>6, Zenon DEF C!Challenge
<1>10. ASSUME NEW i \in 1 .. b - a + 1
       PROVE  /\ <<C!Challenge(a + i - 1), stages[a + i - 1].vdfy>> = proof[b][i]
              /\ C!Pairs(a, b)[i][2] = Eval(C!Pairs(a, b)[i][1])
  <2>1. a + i - 1 \in a .. b
    BY <1>3
  <2> DEFINE k == a + i - 1
  <2>2. C!Pairs(a, b)[i] = <<C!Challenge(k), stages[k].vdfy>>
    BY Zenon DEF C!Pairs
  <2>3. stages[k].vdfy = y[k] /\ C!Challenge(k) = challenge[k] /\ y[k] = Eval(challenge[k])
    BY <1>9, <2>1, Zenon
  <2>4. proof[b][i] = <<challenge[k], y[k]>>
    BY <1>8, Zenon
  <2> HIDE DEF k
  <2>5. C!Pairs(a, b)[i][2] = Eval(C!Pairs(a, b)[i][1])
    BY <2>2, <2>3
  <2> QED
    BY <2>3, <2>4, <2>5, Zenon DEF k
<1>11. C!Pairs(a, b) = proof[b]
  <2>1. proof[b] = [i \in 1 .. b - a + 1 |-> proof[b][i]]
    BY <1>8, Zenon
  <2>2. C!Pairs(a, b) = [i \in 1 .. b - a + 1 |-> proof[b][i]]
    BY <1>10, Zenon DEF C!Pairs
  <2> QED
    BY <2>1, <2>2, Zenon
<1>12. DOMAIN C!Pairs(a, b) = 1 .. b - a + 1
  BY Zenon DEF C!Pairs
<1> QED
  BY <1>7, <1>10, <1>11, <1>12, Zenon DEF C!RangeVerifies, C!AvdfVerify, a, b

LEMMA RangeAccepted ==
  ASSUME IInv, SystemInv, C!VerifyRange, UNCHANGED <<vars, index>>
  PROVE  SystemInv'
<1>1. /\ client = "verify" /\ range <= Len(ranges)
      /\ UNCHANGED <<from, to, value, target, ranges, stages, result>>
  BY DEF C!VerifyRange
<1>2. ranges \in Seq(Nat \X Nat) /\ Len(ranges) \in Nat
  BY <1>1, AskedStages
<1>3. range \in 1 .. Len(ranges)
  BY <1>1, <1>2 DEF SystemInv, Accepted
<1>4. range' = range + 1 /\ client' = client
  BY <1>1, <1>3, RangeProved DEF C!VerifyRange
<1>5. Loop'
  BY <1>1, <1>4, LoopStays DEF C!ClientPcs
<1>6. Called' /\ ProofsAreSequences'
  BY <1>1, CallStays
<1>7. Polled'
  BY <1>1, ServerFixed DEF SystemInv, Polled
<1>8. Fetched'
  BY <1>1, ServerFixed, Zenon DEF SystemInv, Fetched, C!Asked, C!start
<1>9. Accepted'
  BY <1>1, <1>2, <1>3, <1>4 DEF Accepted
<1> QED
  BY <1>5, <1>6, <1>7, <1>8, <1>9 DEF SystemInv

LEMMA ReturnAccepted ==
  ASSUME IInv, SystemInv, C!Return, UNCHANGED <<vars, index>>
  PROVE  SystemInv'
<1>0. client = "verify"
  BY DEF C!Return
<1>1. /\ client = "verify" /\ client' = "returned" /\ result' = stages[to].vdfy
      /\ UNCHANGED <<from, to, value, target, ranges, stages, range>>
  <2>1. to >= C!start
    BY <1>0, AskedStages
  <2>2. C!Labelled(to) # {} /\ C!First(to) = to
    BY <1>0, <2>1, AskedStages, FirstIsPlace
  <2> QED
    BY <2>2, Zenon DEF C!Return
<1>2. to \in C!Asked /\ to \in Nat
  BY <1>1, AskedStages
<1>3. stages[to].vdfy = y[to]
  BY <1>1, <1>2 DEF SystemInv, Fetched
<1>4. Loop'
  BY <1>1, LoopStays DEF C!ClientPcs
<1>5. Called' /\ ProofsAreSequences'
  BY <1>1, CallStays
<1> QED
  BY <1>1, <1>3, <1>4, <1>5, ServerFixed DEF SystemInv, Polled, Fetched, Accepted

LEMMA SystemStep ==
  ASSUME ~Preemptive, IInv, Cooperative, SystemInv, [SystemNext]_systemVars
  PROVE  SystemInv'
<1>1. CASE Next /\ UNCHANGED <<clientVars, index>>
  BY <1>1, ServerStep
<1>2. CASE CallClient /\ UNCHANGED vars
  BY <1>2, CallAccepted
<1>3. CASE ClientStep
  BY <1>3, PollAccepted, SplitAccepted, FetchAccepted, AccproofAccepted, RangeAccepted, ReturnAccepted, Zenon
     DEF ClientStep
<1>4. CASE UNCHANGED systemVars
  BY <1>4, ServerStep DEF systemVars
<1> QED
  BY <1>1, <1>2, <1>3, <1>4, Zenon DEF SystemNext

-----------------------------------------------------------------------------
\* Under gevent get_verified_randomness never raises on what the beacon has
\* answered, and what it returns is the output of the stage it was asked for.
THEOREM HonestServer ==
  ASSUME ~Preemptive
  PROVE  SystemSpec => []HonestServed
<1>1. SystemInit => Init
  BY DEF SystemInit
<1>2. [SystemNext]_systemVars => [Next]_vars
  BY Zenon DEF SystemNext, systemVars, ClientStep
<1>3. SystemSpec => Spec
  BY <1>1, <1>2, PTL DEF SystemSpec, Spec
<1>4. IInv /\ (~Preemptive => Cooperative) /\ SystemInv /\ [SystemNext]_systemVars => SystemInv'
  BY SystemStep
<1>5. SystemInv => HonestServed
  BY DEF SystemInv, Polled, Accepted, HonestServed
<1> QED
  BY <1>3, <1>4, <1>5, InitSystem, Invariance, CooperativeInvariance, PTL DEF SystemSpec

=============================================================================
