---------------------------- MODULE BeaconProofs ----------------------------
(***************************************************************************)
(* Proofs about the beacon server, for every number of stages, clients,    *)
(* readers, every window W > 1, every hash and VDF function, and for both  *)
(* preemptive and cooperative threads.                                     *)
(***************************************************************************)
EXTENDS BeaconChain, SequenceTheorems, TLAPS

\* The stages a new stage gets as prev_stages, taken by the slice in next_stage,
\* are the last W - 1 ones in order, for every W > 1 and every number of stages.
LEMMA PrevStagesType ==
  ASSUME TypeOK, n < MaxStages
  PROVE  /\ PrevStages \in Seq(StageIds)
         /\ Len(PrevStages) = n - WindowStart(n)
         /\ \A i \in 1 .. Len(PrevStages) : PrevStages[i] = WindowStart(n) + i - 1
<1> DEFINE s == IF n >= W - 1 THEN n - W + 1 ELSE 0
<1>1. n \in Nat /\ n >= 1 /\ W \in Nat /\ W > 1 /\ MaxStages \in Nat
  BY BeaconAssumption DEF TypeOK
<1>2. s \in Nat /\ s <= n /\ s = WindowStart(n)
  BY <1>1 DEF WindowStart
<1>3. PrevStages = [i \in 1 .. n - s |-> s + i - 1]
  BY DEF PrevStages
<1>4. n - s \in Nat
  BY <1>1, <1>2
<1>5. \A i \in 1 .. n - s : s + i - 1 \in StageIds
  BY <1>1, <1>2 DEF StageIds
<1> HIDE DEF s
<1>6. PrevStages \in Seq(StageIds)
  BY <1>3, <1>4, <1>5
<1>7. Len(PrevStages) = n - s
  BY <1>3, <1>4, <1>6
<1> QED
  BY <1>2, <1>3, <1>4, <1>6, <1>7

\* The variables of the server keep their types.
THEOREM TypeCorrect == Spec => []TypeOK
<1>1. Init => TypeOK
  <2> SUFFICES ASSUME Init PROVE TypeOK
    OBVIOUS
  <2>1. n \in 1 .. MaxStages /\ 0 \in StageIds
    BY BeaconAssumption DEF Init, StageIds
  <2>2. data \in [StageIds -> Seq(Data)] /\ acc \in [StageIds -> Seq(Data)]
    <3>1. <<>> \in Seq(Data) /\ <<Dummy>> \in Seq(Data)
      BY DEF Data
    <3> QED
      BY <3>1 DEF Init
  <2>3. phase \in [StageIds -> Phase] /\ prev \in [StageIds -> Seq(StageIds)]
    BY DEF Init, Phase
  <2>4. receipt \in [Clients -> [stage : StageIds \cup {-1}, data_index : Nat \cup {-1}, x : Data]]
    BY DEF Init, NoReceipt, Data
  <2>5. call \in [Clients -> [stage : StageIds, x : Data, idx : Nat \cup {-1}]]
    BY <2>1 DEF Init, Data
  <2>6. answer \in [Readers -> [stage : StageIds, phase : Phase, fields : SUBSET Fields, error : BOOLEAN]]
    BY <2>1 DEF Init, Phase
  <2>7. attrs \in [StageIds -> SUBSET Attributes]
    BY DEF Init
  <2> QED
    BY <2>1, <2>2, <2>3, <2>4, <2>5, <2>6, <2>7 DEF Init, TypeOK, SchedPcs, VdfPcs, ReqPcs, GetPcs
<1>2. TypeOK /\ [Next]_vars => TypeOK'
  <2> SUFFICES ASSUME TypeOK, [Next]_vars PROVE TypeOK'
    OBVIOUS
  <2> USE DEF stageVars, threadVars, reqVars, getVars
  <2>0. n \in 1 .. MaxStages /\ MaxStages \in Nat /\ n - 1 \in StageIds
    BY BeaconAssumption DEF TypeOK, StageIds
  <2>1. CASE Tick
    BY <2>0, <2>1 DEF Tick, TypeOK, SchedPcs
  <2>2. CASE StopContribution
    BY <2>2 DEF StopContribution, TypeOK, SchedPcs, Phase, EVALUATION
  <2>3. CASE Accumulate
    BY <2>3 DEF Accumulate, TypeOK, SchedPcs, Attributes
  <2>4. CASE TestPrev
    BY <2>4 DEF TestPrev, TypeOK, SchedPcs
  <2>5. CASE WakeUp
    BY <2>5 DEF WakeUp, TypeOK, SchedPcs
  <2>6. CASE HashChallenge
    BY <2>6 DEF HashChallenge, TypeOK, SchedPcs, Attributes
  <2>7. CASE StartVdf
    BY <2>7 DEF StartVdf, TypeOK, SchedPcs, VdfPcs
  <2>8. CASE AppendStage
    <3>1. n < MaxStages
      BY <2>8 DEF AppendStage
    <3>2. n' \in 1 .. MaxStages /\ n \in StageIds
      BY <2>0, <2>8, <3>1 DEF AppendStage, StageIds
    <3>3. data' \in [StageIds -> Seq(Data)]
      BY <2>8, <3>2 DEF AppendStage, TypeOK, Data
    <3>4. prev' \in [StageIds -> Seq(StageIds)]
      BY <2>8, <3>1, <3>2, PrevStagesType DEF AppendStage, TypeOK
    <3>5. phase' \in [StageIds -> Phase]
      BY <2>8, <3>2 DEF AppendStage, TypeOK, Phase
    <3> QED
      BY <2>8, <3>2, <3>3, <3>4, <3>5 DEF AppendStage, TypeOK, SchedPcs
  <2>9. ASSUME NEW k \in StageIds, VdfThread(k) PROVE TypeOK'
    <3>1. CASE VdfEval(k)
      <4>1. DOMAIN y' = StageIds
        BY <3>1 DEF VdfEval, TypeOK
      <4>2. attrs' \in [StageIds -> SUBSET Attributes] /\ vdf' \in [StageIds -> VdfPcs]
        BY <3>1 DEF VdfEval, TypeOK, VdfPcs, Attributes
      <4> QED
        BY <3>1, <4>1, <4>2 DEF VdfEval, TypeOK
    <3>2. CASE VdfAggregate(k)
      <4>1. DOMAIN proof' = StageIds
        BY <3>2 DEF VdfAggregate, TypeOK
      <4>2. attrs' \in [StageIds -> SUBSET Attributes]
        <5>1. attrs' = attrs \/ attrs' = [attrs EXCEPT ![k] = @ \cup {"vdf_proof"}]
          BY <3>2 DEF VdfAggregate
        <5>2. attrs \in [StageIds -> SUBSET Attributes] /\ "vdf_proof" \in Attributes
          BY DEF TypeOK, Attributes
        <5>3. attrs[k] \cup {"vdf_proof"} \in SUBSET Attributes
          BY <5>2
        <5> QED
          BY <5>1, <5>2, <5>3
      <4>3. vdf' \in [StageIds -> VdfPcs]
        <5>1. \E pc \in {"finish", "died"} : vdf' = [vdf EXCEPT ![k] = pc]
          BY <3>2 DEF VdfAggregate
        <5> QED
          BY <5>1 DEF TypeOK, VdfPcs
      <4> QED
        BY <3>2, <4>1, <4>2, <4>3 DEF VdfAggregate, TypeOK
    <3>3. CASE VdfFinish(k)
      BY <3>3 DEF VdfFinish, TypeOK, VdfPcs, Phase, DONE
    <3> QED
      BY <2>9, <3>1, <3>2, <3>3 DEF VdfThread
  <2>10. ASSUME NEW c \in Clients, Contributor(c) PROVE TypeOK'
    <3>1. ASSUME NEW x \in Values, Contribute(c, x) PROVE TypeOK'
      BY <2>0, <3>1 DEF Contribute, TypeOK, ReqPcs, Data
    <3>2. CASE CheckPhase(c)
      BY <3>2 DEF CheckPhase, TypeOK, ReqPcs
    <3>3. CASE AppendData(c)
      BY <3>3 DEF AppendData, TypeOK, ReqPcs
    <3>4. CASE ReadIndex(c)
      BY <3>4 DEF ReadIndex, TypeOK, ReqPcs
    <3>5. CASE Reply(c)
      BY <2>0, <3>5 DEF Reply, TypeOK, ReqPcs
    <3> QED
      BY <2>10, <3>1, <3>2, <3>3, <3>4, <3>5 DEF Contributor
  <2>11. ASSUME NEW r \in Readers, Reader(r) PROVE TypeOK'
    <3>1. ASSUME NEW k \in StageIds, GetStage(r, k) PROVE TypeOK'
      BY <3>1 DEF GetStage, TypeOK, GetPcs, Phase, NONE
    <3>2. CASE GetPhase(r)
      BY <3>2 DEF GetPhase, TypeOK, GetPcs
    <3>3. CASE GetAccval(r)
      BY <3>3 DEF GetAccval, AnswerFields, TypeOK, GetPcs, Fields
    <3>4. CASE GetVdf(r)
      BY <3>4 DEF GetVdf, AnswerFields, TypeOK, GetPcs, Fields
    <3> QED
      BY <2>11, <3>1, <3>2, <3>3, <3>4 DEF Reader
  <2>12. CASE UNCHANGED vars
    BY <2>12 DEF vars, TypeOK
  <2> QED
    BY <2>1, <2>2, <2>3, <2>4, <2>5, <2>6, <2>7, <2>8, <2>9, <2>10, <2>11, <2>12 DEF Next, Scheduler
<1> QED
  BY <1>1, <1>2, PTL DEF Spec

-----------------------------------------------------------------------------
\* The last of a stage's prev_stages is the stage just before it, and only
\* stage 0 has none (this needs W > 1).
LEMMA LastPrevStage ==
  ASSUME TypeOK, PrevIsWindow, NEW k \in StageIds, k < n
  PROVE  /\ k = 0 <=> Len(prev[k]) = 0
         /\ k > 0 => Len(prev[k]) > 0 /\ LastPrev(k) = k - 1
<1>1. k \in Nat /\ W \in Nat /\ W > 1
  BY BeaconAssumption DEF StageIds
<1>2. WindowStart(k) \in Nat /\ WindowStart(k) <= k /\ (k > 0 => WindowStart(k) < k)
  BY <1>1 DEF WindowStart
<1>3. Len(prev[k]) = k - WindowStart(k)
  BY DEF PrevIsWindow
<1>4. \A i \in 1 .. Len(prev[k]) : prev[k][i] = WindowStart(k) + i - 1
  BY DEF PrevIsWindow
<1>5. k > 0 => LastPrev(k) = WindowStart(k) + Len(prev[k]) - 1
  BY <1>1, <1>2, <1>3, <1>4 DEF LastPrev
<1> QED
  BY <1>1, <1>2, <1>3, <1>5

\* The strengthened invariant holds when the server starts.
LEMMA InitIInv == Init => Control /\ PrevIsWindow /\ ChallengesChained /\ ProofsOfWindows
<1> SUFFICES ASSUME Init PROVE Control /\ PrevIsWindow /\ ChallengesChained /\ ProofsOfWindows
  OBVIOUS
<1>0. 0 \in StageIds /\ StageIds \subseteq Nat /\ W \in Nat /\ W > 1
  BY BeaconAssumption DEF StageIds
<1>1. StagesExist
  BY <1>0 DEF Init, StagesExist, NONE, CONTRIBUTION
<1>2. SchedulerAtLast
  BY <1>0 DEF Init, SchedulerAtLast
<1>3. VdfThreads
  BY <1>0 DEF Init, VdfThreads, NONE, CONTRIBUTION, DONE
<1>4. PrevIsWindow
  BY <1>0 DEF Init, PrevIsWindow, WindowStart
<1>5. ChallengesChained /\ ProofsOfWindows
  BY <1>0 DEF Init, ChallengesChained, ProofsOfWindows
<1> QED
  BY <1>1, <1>2, <1>3, <1>4, <1>5 DEF Control

\* A step of a request handler leaves everything but data and its own
\* variables alone.
LEMMA HandlerSteps ==
  ASSUME \/ \E c \in Clients : Contributor(c)
         \/ \E r \in Readers : Reader(r)
         \/ UNCHANGED vars
  PROVE  UNCHANGED <<n, phase, prev, attrs, acc, challenge, y, proof, sched, cur, vdf>>
BY DEF Contributor, Contribute, CheckPhase, AppendData, ReadIndex, Reply, Reader, GetStage, GetPhase,
       GetAccval, GetVdf, vars, stageVars, threadVars

\* No step lets a thread's program counter and its stage's state drift apart.
LEMMA ControlStep ==
  ASSUME TypeOK, Control, PrevIsWindow, [Next]_vars
  PROVE  Control'
<1> USE DEF stageVars, threadVars, reqVars, getVars, Control
<1>0. /\ n \in 1 .. MaxStages /\ MaxStages \in Nat /\ n - 1 \in StageIds /\ StageIds \subseteq Nat
      /\ \A k \in StageIds : k \in 0 .. MaxStages - 1
  BY BeaconAssumption DEF TypeOK, StageIds
<1>1. CASE Tick
  <2>1. StagesExist'
    BY <1>1 DEF Tick, StagesExist
  <2>2. SchedulerAtLast'
    BY <1>0, <1>1 DEF Tick, SchedulerAtLast
  <2>3. VdfThreads'
    BY <1>1 DEF Tick, VdfThreads
  <2> QED
    BY <2>1, <2>2, <2>3
<1>2. CASE StopContribution
  <2>1. /\ cur = n - 1 /\ phase[n - 1] = CONTRIBUTION /\ attrs[n - 1] = {} /\ vdf[n - 1] = "none"
        /\ sched' = "accumulate" /\ phase' = [phase EXCEPT ![n - 1] = EVALUATION]
        /\ n' = n /\ attrs' = attrs /\ vdf' = vdf /\ cur' = cur
    BY <1>0, <1>2 DEF StopContribution, SchedulerAtLast
  <2>2. StagesExist'
    BY <1>0, <2>1 DEF StagesExist, TypeOK, NONE, EVALUATION, CONTRIBUTION
  <2>3. SchedulerAtLast'
    BY <1>0, <2>1 DEF SchedulerAtLast, TypeOK
  <2>4. VdfThreads'
    <3>1. /\ phase'[n - 1] = EVALUATION
          /\ \A j \in StageIds : j # n - 1 => phase'[j] = phase[j]
      BY <1>0, <2>1 DEF TypeOK
    <3> QED
      BY <2>1, <3>1 DEF VdfThreads, EVALUATION, CONTRIBUTION, DONE
  <2> QED
    BY <2>2, <2>3, <2>4
<1>3. CASE Accumulate
  <2>1. /\ cur = n - 1 /\ phase[n - 1] = EVALUATION /\ attrs[n - 1] = {} /\ vdf[n - 1] = "none"
        /\ sched' = "prev" /\ attrs' = [attrs EXCEPT ![n - 1] = {"acc"}]
        /\ n' = n /\ phase' = phase /\ vdf' = vdf /\ cur' = cur
    BY <1>0, <1>3 DEF Accumulate, SchedulerAtLast, TypeOK
  <2>2. StagesExist'
    BY <1>0, <2>1 DEF StagesExist, TypeOK
  <2>3. SchedulerAtLast'
    BY <1>0, <2>1 DEF SchedulerAtLast, TypeOK
  <2>4. VdfThreads'
    BY <1>0, <2>1 DEF VdfThreads, TypeOK, EVALUATION, DONE
  <2> QED
    BY <2>2, <2>3, <2>4
<1>4. CASE TestPrev
  <2>1. /\ cur = n - 1 /\ sched' = (IF PrevDone(n - 1) THEN "hash" ELSE "sleep") /\ sched = "prev"
        /\ UNCHANGED <<n, phase, attrs, vdf, cur>>
    BY <1>4 DEF TestPrev, SchedulerAtLast
  <2>2. PrevDone(n - 1) => \A j \in StageIds : j < n - 1 => phase[j] = DONE
    <3> SUFFICES ASSUME PrevDone(n - 1), NEW j \in StageIds, j < n - 1 PROVE phase[j] = DONE
      OBVIOUS
    <3>1. Len(prev[n - 1]) > 0 /\ LastPrev(n - 1) = n - 2 /\ n - 2 \in StageIds
      <4>1. n - 1 > 0 /\ n - 1 < n /\ n - 2 \in StageIds
        BY <1>0 DEF StageIds
      <4>2. \A k \in StageIds : k < n /\ k > 0 => Len(prev[k]) > 0 /\ LastPrev(k) = k - 1
        BY LastPrevStage
      <4>3. PICK m \in StageIds : m = n - 1
        BY <1>0
      <4>4. Len(prev[m]) > 0 /\ LastPrev(m) = m - 1
        BY <4>1, <4>2, <4>3
      <4> QED
        BY <1>0, <4>1, <4>3, <4>4
    <3>2. phase[n - 2] = DONE
      <4>1. phase[n - 2] >= DONE
        BY <3>1 DEF PrevDone
      <4>2. phase[n - 2] \in Phase
        BY <3>1 DEF TypeOK
      <4> QED
        BY <4>1, <4>2 DEF Phase, NONE, CONTRIBUTION, EVALUATION, DONE
    <3>3. j < n - 2 => phase[j] = DONE
      BY <3>1, <3>2 DEF VdfThreads
    <3> QED
      BY <1>0, <3>2, <3>3
  <2>3. SchedulerAtLast'
    BY <1>0, <2>1, <2>2 DEF SchedulerAtLast
  <2> QED
    BY <2>1, <2>3 DEF StagesExist, VdfThreads
<1>5. CASE WakeUp
  <2>1. SchedulerAtLast'
    BY <1>0, <1>5 DEF WakeUp, SchedulerAtLast
  <2> QED
    BY <1>5, <2>1 DEF WakeUp, StagesExist, VdfThreads
<1>6. CASE HashChallenge
  <2>1. /\ cur = n - 1 /\ phase[n - 1] = EVALUATION /\ attrs[n - 1] = {"acc"} /\ vdf[n - 1] = "none"
        /\ sched = "hash" /\ sched' = "start"
        /\ attrs' = [attrs EXCEPT ![n - 1] = {"acc", "vdf_challenge"}]
        /\ n' = n /\ phase' = phase /\ vdf' = vdf /\ cur' = cur
    <3>1. cur = n - 1 /\ attrs[n - 1] = {"acc"}
      BY <1>6 DEF HashChallenge, SchedulerAtLast
    <3>2. attrs' = [attrs EXCEPT ![n - 1] = attrs[n - 1] \cup {"vdf_challenge"}]
      BY <1>6, <3>1 DEF HashChallenge
    <3>3. attrs' = [attrs EXCEPT ![n - 1] = {"acc", "vdf_challenge"}]
      BY <3>1, <3>2
    <3> QED
      BY <1>0, <1>6, <3>1, <3>3 DEF HashChallenge, SchedulerAtLast
  <2>2. StagesExist'
    BY <1>0, <2>1 DEF StagesExist, TypeOK
  <2>3. SchedulerAtLast'
    BY <1>0, <2>1 DEF SchedulerAtLast, TypeOK
  <2>4. VdfThreads'
    <3>1. \A j \in StageIds : j # n - 1 => attrs'[j] = attrs[j]
      BY <1>0, <2>1 DEF TypeOK
    <3> QED
      BY <2>1, <3>1 DEF VdfThreads
  <2> QED
    BY <2>2, <2>3, <2>4
<1>7. CASE StartVdf
  <2>1. /\ cur = n - 1 /\ phase[n - 1] = EVALUATION /\ attrs[n - 1] = {"acc", "vdf_challenge"}
        /\ vdf[n - 1] = "none" /\ vdf' = [vdf EXCEPT ![n - 1] = "eval"]
        /\ sched = "start" /\ sched' = "append"
        /\ n' = n /\ phase' = phase /\ attrs' = attrs /\ cur' = cur
    BY <1>0, <1>7 DEF StartVdf, SchedulerAtLast
  <2>2. StagesExist'
    BY <1>0, <2>1 DEF StagesExist, TypeOK
  <2>3. SchedulerAtLast'
    BY <1>0, <2>1 DEF SchedulerAtLast, TypeOK
  <2>4. VdfThreads'
    BY <1>0, <2>1 DEF VdfThreads, SchedulerAtLast, TypeOK, EVALUATION, DONE
  <2> QED
    BY <2>2, <2>3, <2>4
<1>8. CASE AppendStage
  <2>1. /\ n < MaxStages /\ n \in StageIds /\ sched = "append" /\ sched' = "idle" /\ n' = n + 1
        /\ phase' = [phase EXCEPT ![n] = CONTRIBUTION]
        /\ phase[n] = NONE /\ attrs[n] = {} /\ vdf[n] = "none"
        /\ attrs' = attrs /\ vdf' = vdf /\ cur' = cur
    <3>1. n < MaxStages /\ n \in StageIds
      BY <1>0, <1>8 DEF AppendStage, StageIds
    <3>2. phase[n] = NONE /\ attrs[n] = {} /\ vdf[n] = "none"
      BY <1>0, <3>1 DEF StagesExist
    <3> QED
      BY <1>8, <3>1, <3>2 DEF AppendStage
  <2>2. StagesExist'
    <3>1. n \in Nat /\ phase'[n] # NONE /\ \A j \in StageIds : j # n => phase'[j] = phase[j]
      BY <1>0, <2>1 DEF TypeOK, NONE, CONTRIBUTION
    <3>2. \A j \in StageIds : j \in Nat /\ (j < n + 1 <=> j < n \/ j = n) /\ (j >= n + 1 => j >= n)
      BY <1>0, <3>1
    <3> QED
      BY <2>1, <3>1, <3>2 DEF StagesExist
  <2>3. SchedulerAtLast'
    <3>1. n' - 1 = n /\ phase'[n] = CONTRIBUTION
      BY <1>0, <2>1 DEF TypeOK
    <3>2. ASSUME NEW k \in StageIds, k < n PROVE vdf[k] # "none"
      BY <1>0, <2>1, <3>2 DEF SchedulerAtLast
    <3> QED
      BY <1>0, <2>1, <3>1, <3>2 DEF SchedulerAtLast
  <2>4. VdfThreads'
    <3> SUFFICES ASSUME NEW k \in StageIds PROVE VdfThreads!(k)'
      BY DEF VdfThreads
    <3>1. CASE k >= n
      <4>1. vdf[k] = "none" /\ phase'[k] # DONE
        BY <1>0, <2>1, <3>1 DEF StagesExist, TypeOK, NONE, CONTRIBUTION, DONE
      <4> QED
        BY <2>1, <4>1
    <3>2. CASE k < n
      <4>1. \A j \in StageIds : j <= k => phase'[j] = phase[j]
        BY <1>0, <2>1, <3>2 DEF TypeOK
      <4> QED
        BY <1>0, <2>1, <4>1 DEF VdfThreads
    <3> QED
      BY <1>0, <3>1, <3>2
  <2> QED
    BY <2>2, <2>3, <2>4
<1>9. ASSUME NEW k \in StageIds, VdfEval(k) PROVE Control'
  <2>1. /\ vdf[k] = "eval" /\ vdf' = [vdf EXCEPT ![k] = "aggregate"]
        /\ phase[k] = EVALUATION /\ UNCHANGED <<n, phase, sched, cur>>
    BY <1>9 DEF VdfEval, VdfThreads
  <2>2. attrs' = [attrs EXCEPT ![k] = {"acc", "vdf_challenge", "vdf_y"}]
    <3>1. attrs[k] = {"acc", "vdf_challenge"}
      BY <2>1 DEF VdfThreads
    <3>2. attrs' = [attrs EXCEPT ![k] = attrs[k] \cup {"vdf_y"}]
      BY <1>9 DEF VdfEval
    <3> QED
      BY <3>1, <3>2
  <2>3. StagesExist'
    BY <1>0, <2>1, <2>2 DEF StagesExist, TypeOK
  <2>4. SchedulerAtLast'
    BY <1>0, <2>1, <2>2 DEF SchedulerAtLast, TypeOK, EVALUATION, CONTRIBUTION
  <2>5. VdfThreads'
    <3>1. /\ vdf'[k] = "aggregate" /\ attrs'[k] = {"acc", "vdf_challenge", "vdf_y"}
          /\ \A j \in StageIds : j # k => vdf'[j] = vdf[j] /\ attrs'[j] = attrs[j]
      BY <2>1, <2>2 DEF TypeOK
    <3> QED
      BY <2>1, <3>1 DEF VdfThreads, EVALUATION, DONE
  <2> QED
    BY <2>3, <2>4, <2>5
<1>10. ASSUME NEW k \in StageIds, VdfAggregate(k) PROVE Control'
  <2>1. k < n /\ vdf[k] = "aggregate" /\ phase[k] = EVALUATION /\ UNCHANGED <<n, phase, sched, cur>>
    BY <1>0, <1>10 DEF VdfAggregate, VdfThreads, StagesExist
  <2>2. \A i \in 1 .. Len(prev[k]) : {"vdf_challenge", "vdf_y"} \subseteq attrs[prev[k][i]]
    <3> SUFFICES ASSUME NEW i \in 1 .. Len(prev[k])
                 PROVE  {"vdf_challenge", "vdf_y"} \subseteq attrs[prev[k][i]]
      OBVIOUS
    <3>1. prev[k] \in Seq(StageIds) /\ prev[k][i] = WindowStart(k) + i - 1 /\ Len(prev[k]) = k - WindowStart(k)
      BY <2>1 DEF PrevIsWindow, TypeOK
    <3>2. WindowStart(k) \in Nat
      BY <1>0, BeaconAssumption DEF WindowStart
    <3>3. prev[k][i] \in StageIds /\ prev[k][i] < k
      <4>1. prev[k][i] \in StageIds
        BY <3>1
      <4>2. k \in Nat
        BY <1>0
      <4> QED
        BY <3>1, <3>2, <4>1, <4>2
    <3>4. attrs[prev[k][i]] = Attributes
      BY <2>1, <3>3 DEF VdfThreads
    <3> QED
      BY <3>4 DEF Attributes
  <2>3. vdf' = [vdf EXCEPT ![k] = "finish"] /\ attrs' = [attrs EXCEPT ![k] = attrs[k] \cup {"vdf_proof"}]
    BY <1>10, <2>2 DEF VdfAggregate
  <2>4. attrs' = [attrs EXCEPT ![k] = Attributes]
    <3>1. attrs[k] = {"acc", "vdf_challenge", "vdf_y"}
      BY <2>1 DEF VdfThreads
    <3> QED
      BY <2>3, <3>1 DEF Attributes
  <2>5. /\ vdf'[k] = "finish" /\ attrs'[k] = Attributes
        /\ \A j \in StageIds : j # k => vdf'[j] = vdf[j] /\ attrs'[j] = attrs[j]
    BY <2>3, <2>4 DEF TypeOK
  <2>6. StagesExist'
    <3>1. ~(k >= n)
      BY <1>0, <2>1
    <3> QED
      BY <2>1, <2>5, <3>1 DEF StagesExist
  <2>7. SchedulerAtLast'
    BY <1>0, <2>1, <2>3, <2>4 DEF SchedulerAtLast, TypeOK, EVALUATION, CONTRIBUTION
  <2>8. VdfThreads'
    BY <2>1, <2>5 DEF VdfThreads, EVALUATION, DONE
  <2> QED
    BY <2>6, <2>7, <2>8
<1>11. ASSUME NEW k \in StageIds, VdfFinish(k) PROVE Control'
  <2>1. /\ vdf[k] = "finish" /\ vdf' = [vdf EXCEPT ![k] = "exit"]
        /\ phase[k] = EVALUATION /\ phase' = [phase EXCEPT ![k] = DONE]
        /\ attrs[k] = Attributes /\ UNCHANGED <<n, attrs, sched, cur>>
    <3>1. vdf[k] = "finish" /\ k \in StageIds
      BY <1>11 DEF VdfFinish
    <3>2. phase[k] = EVALUATION /\ attrs[k] = Attributes
      BY <3>1 DEF VdfThreads
    <3> QED
      BY <1>11, <3>2 DEF VdfFinish
  <2>2. /\ vdf'[k] = "exit" /\ phase'[k] = DONE
        /\ \A j \in StageIds : j # k => vdf'[j] = vdf[j] /\ phase'[j] = phase[j]
    BY <2>1 DEF TypeOK
  <2>3. StagesExist'
    <3>1. ~(k >= n) /\ k < n
      BY <1>0, <2>1 DEF StagesExist, NONE, EVALUATION
    <3> QED
      BY <2>1, <2>2, <3>1 DEF StagesExist, NONE, DONE
  <2>4. SchedulerAtLast'
    BY <1>0, <2>1 DEF SchedulerAtLast, TypeOK, EVALUATION, CONTRIBUTION, DONE
  <2>5. VdfThreads'
    BY <2>1, <2>2 DEF VdfThreads, EVALUATION, DONE
  <2> QED
    BY <2>3, <2>4, <2>5
<1>12. CASE \/ \E c \in Clients : Contributor(c)
            \/ \E r \in Readers : Reader(r)
            \/ UNCHANGED vars
  <2>1. UNCHANGED <<n, phase, attrs, sched, cur, vdf>>
    BY <1>12, HandlerSteps
  <2> QED
    BY <2>1 DEF StagesExist, SchedulerAtLast, VdfThreads
<1> QED
  BY <1>1, <1>2, <1>3, <1>4, <1>5, <1>6, <1>7, <1>8, <1>9, <1>10, <1>11, <1>12
     DEF Next, Scheduler, VdfThread

\* prev_stages is assigned once, when the stage is appended.
LEMMA WindowStep ==
  ASSUME TypeOK, PrevIsWindow, [Next]_vars
  PROVE  PrevIsWindow'
<1>0. n \in Nat /\ StageIds \subseteq Nat
  BY BeaconAssumption DEF TypeOK, StageIds
<1>1. CASE AppendStage
  <2>1. n < MaxStages /\ n' = n + 1 /\ prev' = [prev EXCEPT ![n] = PrevStages]
    BY <1>1 DEF AppendStage
  <2>2. \A k \in StageIds : k # n => prev'[k] = prev[k]
    BY <2>1 DEF TypeOK
  <2>3. n \in StageIds => prev'[n] = PrevStages
    BY <2>1 DEF TypeOK
  <2> QED
    BY <1>0, <2>1, <2>2, <2>3, PrevStagesType DEF PrevIsWindow, WindowStart
<1>2. CASE ~AppendStage
  <2>1. UNCHANGED <<n, prev>>
    BY <1>2, HandlerSteps
       DEF Next, Scheduler, Tick, StopContribution, Accumulate, TestPrev, WakeUp, HashChallenge, StartVdf,
           VdfThread, VdfEval, VdfAggregate, VdfFinish, stageVars
  <2> QED
    BY <2>1 DEF PrevIsWindow, WindowStart
<1> QED
  BY <1>1, <1>2

\* Hashing, evaluating and accumulating keep every challenge chained: none of
\* them touches a value that a challenge already commits to.
LEMMA ChainStep ==
  ASSUME TypeOK, Control, PrevIsWindow, ChallengesChained, [Next]_vars
  PROVE  ChallengesChained'
<1> USE DEF stageVars, Control
<1>0. /\ n \in 1 .. MaxStages /\ n - 1 \in StageIds /\ StageIds \subseteq Nat
      /\ \A k \in StageIds : k > 0 => k - 1 \in StageIds
      /\ DOMAIN challenge = StageIds /\ DOMAIN y = StageIds /\ DOMAIN acc = StageIds /\ DOMAIN attrs = StageIds
  BY BeaconAssumption DEF TypeOK, StageIds
<1>1. \A k \in StageIds : "vdf_challenge" \in attrs[k] =>
        /\ "acc" \in attrs[k]
        /\ \A j \in StageIds : j < k => phase[j] = DONE
  <2> SUFFICES ASSUME NEW k \in StageIds, "vdf_challenge" \in attrs[k]
               PROVE  /\ "acc" \in attrs[k]
                      /\ \A j \in StageIds : j < k => phase[j] = DONE
    OBVIOUS
  <2>1. CASE vdf[k] # "none"
    <3>1. vdf[k] \in {"eval", "aggregate", "finish", "exit"}
      BY <2>1 DEF VdfThreads, TypeOK, VdfPcs
    <3> QED
      BY <2>1, <3>1 DEF VdfThreads, Attributes
  <2>2. CASE vdf[k] = "none"
    <3>1. k = n - 1
      BY <1>0, <2>2 DEF SchedulerAtLast, StagesExist
    <3>2. sched = "start"
      BY <2>2, <3>1 DEF SchedulerAtLast, TypeOK, SchedPcs
    <3> QED
      BY <3>1, <3>2 DEF SchedulerAtLast
  <2> QED
    BY <2>1, <2>2
<1>2. CASE Accumulate
  <2>1. attrs[cur] = {} /\ cur \in StageIds
    BY <1>0, <1>2 DEF Accumulate, SchedulerAtLast
  <2>2. attrs' = [attrs EXCEPT ![cur] = @ \cup {"acc"}] /\ UNCHANGED <<challenge, y>>
    BY <1>2 DEF Accumulate
  <2>3. \A k \in StageIds : k # cur => acc'[k] = acc[k] /\ attrs'[k] = attrs[k]
    BY <1>0, <1>2 DEF Accumulate
  <2>4. attrs'[cur] = {"acc"}
    BY <1>0, <2>1, <2>2
  <2> QED
    BY <2>2, <2>3, <2>4 DEF ChallengesChained
<1>3. CASE HashChallenge
  <2>1. cur = n - 1 /\ attrs[cur] = {"acc"} /\ cur \in StageIds /\ cur < n
    BY <1>0, <1>3 DEF HashChallenge, SchedulerAtLast
  <2>2. /\ attrs' = [attrs EXCEPT ![cur] = @ \cup {"vdf_challenge"}]
        /\ challenge' = [challenge EXCEPT ![cur] = Hash(acc[cur], PrevStageY(cur))]
        /\ UNCHANGED <<acc, y>>
    BY <1>3 DEF HashChallenge
  <2>3. \A k \in StageIds : k # cur => challenge'[k] = challenge[k] /\ attrs'[k] = attrs[k]
    BY <1>0, <2>2
  <2>4. attrs'[cur] = {"acc", "vdf_challenge"} /\ challenge'[cur] = Hash(acc[cur], PrevStageY(cur))
    BY <1>0, <2>1, <2>2
  <2>5. PrevStageY(cur) = IF cur = 0 THEN NoY ELSE y[cur - 1]
    BY <1>0, <2>1, LastPrevStage DEF PrevStageY
  <2> QED
    BY <2>2, <2>3, <2>4, <2>5 DEF ChallengesChained
<1>4. ASSUME NEW k \in StageIds, VdfEval(k) PROVE ChallengesChained'
  <2>1. attrs[k] = {"acc", "vdf_challenge"} /\ phase[k] = EVALUATION
    BY <1>4 DEF VdfEval, VdfThreads
  <2>2. /\ y' = [y EXCEPT ![k] = Eval(challenge[k])]
        /\ attrs' = [attrs EXCEPT ![k] = @ \cup {"vdf_y"}]
        /\ UNCHANGED <<challenge, acc>>
    BY <1>4 DEF VdfEval
  <2>3. \A j \in StageIds : j # k => y'[j] = y[j] /\ attrs'[j] = attrs[j]
    BY <1>0, <2>2
  <2>4. attrs'[k] = {"acc", "vdf_challenge", "vdf_y"} /\ y'[k] = Eval(challenge[k])
    BY <1>0, <2>1, <2>2
  <2>5. \A j \in StageIds : "vdf_challenge" \in attrs[j] /\ j > 0 => j - 1 # k
    BY <1>0, <1>1, <2>1 DEF EVALUATION, DONE
  <2> SUFFICES ASSUME NEW j \in StageIds
               PROVE  /\ "vdf_challenge" \in attrs'[j] =>
                            challenge'[j] = Hash(acc'[j], IF j = 0 THEN NoY ELSE y'[j - 1])
                      /\ "vdf_y" \in attrs'[j] => y'[j] = Eval(challenge'[j])
    BY DEF ChallengesChained
  <2>6. "vdf_challenge" \in attrs'[j] => "vdf_challenge" \in attrs[j]
    BY <2>1, <2>3
  <2>7. "vdf_challenge" \in attrs'[j] => challenge'[j] = Hash(acc'[j], IF j = 0 THEN NoY ELSE y'[j - 1])
    BY <1>0, <2>2, <2>3, <2>5, <2>6 DEF ChallengesChained
  <2>8. "vdf_y" \in attrs'[j] => y'[j] = Eval(challenge'[j])
    BY <2>2, <2>3, <2>4 DEF ChallengesChained
  <2> QED
    BY <2>7, <2>8
<1>5. ASSUME NEW k \in StageIds, VdfAggregate(k) PROVE ChallengesChained'
  <2>1. UNCHANGED <<challenge, acc, y>> /\ (attrs' = attrs \/ attrs' = [attrs EXCEPT ![k] = @ \cup {"vdf_proof"}])
    BY <1>5 DEF VdfAggregate
  <2>2. \A j \in StageIds : /\ "vdf_challenge" \in attrs'[j] => "vdf_challenge" \in attrs[j]
                            /\ "vdf_y" \in attrs'[j] => "vdf_y" \in attrs[j]
    BY <1>0, <2>1
  <2> QED
    BY <2>1, <2>2 DEF ChallengesChained
<1>6. CASE UNCHANGED <<attrs, acc, challenge, y>>
  BY <1>6 DEF ChallengesChained
<1> QED
  BY <1>2, <1>3, <1>4, <1>5, <1>6, HandlerSteps
     DEF Next, Scheduler, Tick, StopContribution, TestPrev, WakeUp, StartVdf, AppendStage, VdfThread, VdfFinish

\* The proofs stay those of the stages' windows: an aggregated challenge or
\* output is never assigned again.
LEMMA ProofsStep ==
  ASSUME TypeOK, Control, PrevIsWindow, ProofsOfWindows, [Next]_vars
  PROVE  ProofsOfWindows'
<1> USE DEF stageVars, Control
<1>0. /\ n \in 1 .. MaxStages /\ n - 1 \in StageIds /\ StageIds \subseteq Nat
      /\ \A k \in StageIds : k \in 0 .. MaxStages - 1
      /\ DOMAIN challenge = StageIds /\ DOMAIN y = StageIds /\ DOMAIN proof = StageIds /\ DOMAIN attrs = StageIds
  BY BeaconAssumption DEF TypeOK, StageIds
<1>1. \A k \in StageIds : /\ WindowStart(k) \in StageIds /\ WindowStart(k) <= k
                         /\ \A i \in 1 .. k - WindowStart(k) + 1 :
                               WindowStart(k) + i - 1 \in StageIds /\ WindowStart(k) + i - 1 <= k
  BY BeaconAssumption DEF WindowStart, StageIds
<1>2. \A k \in StageIds : "vdf_proof" \in attrs[k] =>
        /\ attrs[k] = Attributes
        /\ \A j \in StageIds : j <= k => attrs[j] = Attributes
  <2> SUFFICES ASSUME NEW k \in StageIds, "vdf_proof" \in attrs[k]
               PROVE  /\ attrs[k] = Attributes
                      /\ \A j \in StageIds : j < k => attrs[j] = Attributes
    BY <1>0
  <2>1. vdf[k] # "none"
    <3> SUFFICES ASSUME vdf[k] = "none" PROVE FALSE
      OBVIOUS
    <3>1. k = n - 1
      BY <1>0 DEF SchedulerAtLast, StagesExist
    <3>2. sched \in SchedPcs \ {"append"}
      BY <3>1 DEF SchedulerAtLast, TypeOK
    <3> QED
      BY <3>1, <3>2 DEF SchedulerAtLast, SchedPcs
  <2>2. vdf[k] \in {"finish", "exit"}
    <3>1. vdf[k] \in VdfPcs
      BY DEF TypeOK
    <3>2. vdf[k] # "eval" /\ vdf[k] # "aggregate" /\ vdf[k] # "died"
      BY DEF VdfThreads
    <3> QED
      BY <2>1, <3>1, <3>2 DEF VdfPcs
  <2>3. \A j \in StageIds : j < k => attrs[j] = Attributes
    BY <2>1 DEF VdfThreads
  <2> QED
    BY <2>2, <2>3 DEF VdfThreads
<1>3. ASSUME NEW k \in StageIds, attrs[k] # Attributes,
             \A j \in StageIds : j # k => challenge'[j] = challenge[j] /\ y'[j] = y[j] /\ attrs'[j] = attrs[j],
             UNCHANGED proof,
             "vdf_proof" \notin attrs'[k]
      PROVE  ProofsOfWindows'
  <2> SUFFICES ASSUME NEW j \in StageIds, "vdf_proof" \in attrs'[j]
               PROVE  /\ Len(proof[j]) = j - WindowStart(j) + 1
                      /\ \A i \in 1 .. Len(proof[j]) : proof[j][i] =
                            <<challenge'[WindowStart(j) + i - 1], y'[WindowStart(j) + i - 1]>>
    BY <1>3 DEF ProofsOfWindows, WindowStart
  <2>1. j # k /\ "vdf_proof" \in attrs[j]
    BY <1>3
  <2>2. \A m \in StageIds : m <= j => m # k
    BY <1>2, <1>3, <2>1
  <2>3. \A m \in StageIds : m <= j => challenge'[m] = challenge[m] /\ y'[m] = y[m]
    BY <1>3, <2>2
  <2>4. /\ Len(proof[j]) = j - WindowStart(j) + 1
        /\ \A i \in 1 .. Len(proof[j]) : proof[j][i] =
              <<challenge[WindowStart(j) + i - 1], y[WindowStart(j) + i - 1]>>
    BY <2>1 DEF ProofsOfWindows
  <2> QED
    BY <1>1, <2>3, <2>4
<1>4. CASE Accumulate
  <2>1. attrs[cur] = {} /\ cur \in StageIds
    BY <1>0, <1>4 DEF Accumulate, SchedulerAtLast
  <2>2. attrs' = [attrs EXCEPT ![cur] = @ \cup {"acc"}] /\ UNCHANGED <<challenge, y, proof>>
    BY <1>4 DEF Accumulate
  <2>3. \A j \in StageIds : j # cur => attrs'[j] = attrs[j]
    BY <1>0, <2>2
  <2>4. attrs'[cur] = {"acc"}
    BY <1>0, <2>1, <2>2
  <2> QED
    BY <1>3, <2>1, <2>2, <2>3, <2>4 DEF Attributes
<1>5. CASE HashChallenge
  <2>1. attrs[cur] = {"acc"} /\ cur \in StageIds
    BY <1>0, <1>5 DEF HashChallenge, SchedulerAtLast
  <2>2. attrs' = [attrs EXCEPT ![cur] = @ \cup {"vdf_challenge"}] /\ UNCHANGED <<y, proof>>
    BY <1>5 DEF HashChallenge
  <2>3. \A j \in StageIds : j # cur => challenge'[j] = challenge[j] /\ attrs'[j] = attrs[j]
    BY <1>0, <1>5 DEF HashChallenge
  <2>4. attrs'[cur] = {"acc", "vdf_challenge"}
    BY <1>0, <2>1, <2>2
  <2> QED
    BY <1>3, <2>1, <2>2, <2>3, <2>4 DEF Attributes
<1>6. ASSUME NEW k \in StageIds, VdfEval(k) PROVE ProofsOfWindows'
  <2>1. attrs[k] = {"acc", "vdf_challenge"}
    BY <1>6 DEF VdfEval, VdfThreads
  <2>2. attrs' = [attrs EXCEPT ![k] = @ \cup {"vdf_y"}] /\ UNCHANGED <<challenge, proof>>
    BY <1>6 DEF VdfEval
  <2>3. \A j \in StageIds : j # k => y'[j] = y[j] /\ attrs'[j] = attrs[j]
    BY <1>0, <1>6 DEF VdfEval
  <2>4. attrs'[k] = {"acc", "vdf_challenge", "vdf_y"}
    BY <1>0, <2>1, <2>2
  <2> QED
    BY <1>3, <2>1, <2>2, <2>3, <2>4 DEF Attributes
<1>7. ASSUME NEW k \in StageIds, VdfAggregate(k) PROVE ProofsOfWindows'
  <2>1. UNCHANGED <<challenge, y>>
    BY <1>7 DEF VdfAggregate
  <2>2. \A j \in StageIds : j # k => proof'[j] = proof[j] /\ attrs'[j] = attrs[j]
    BY <1>0, <1>7 DEF VdfAggregate
  <2>3. k < n /\ attrs[k] = {"acc", "vdf_challenge", "vdf_y"}
    BY <1>0, <1>7 DEF VdfAggregate, VdfThreads, StagesExist
  <2>4. "vdf_proof" \in attrs'[k] => proof'[k] =
          [i \in 1 .. Len(prev[k]) + 1 |-> <<challenge[Aggregated(k)[i]], y[Aggregated(k)[i]]>>]
    <3>1. CASE proof' = [proof EXCEPT ![k] =
               [i \in 1 .. Len(prev[k]) + 1 |-> <<challenge[Aggregated(k)[i]], y[Aggregated(k)[i]]>>]]
      BY <1>0, <3>1
    <3>2. CASE UNCHANGED attrs
      BY <2>3, <3>2
    <3> QED
      BY <1>7, <3>1, <3>2 DEF VdfAggregate
  <2>5. prev[k] \in Seq(StageIds) /\ Len(prev[k]) = k - WindowStart(k) /\ Len(prev[k]) \in Nat
        /\ \A i \in 1 .. Len(prev[k]) : prev[k][i] = WindowStart(k) + i - 1
    <3>1. prev[k] \in Seq(StageIds)
      BY DEF TypeOK
    <3> QED
      BY <2>3, <3>1 DEF PrevIsWindow
  <2>6. \A i \in 1 .. Len(prev[k]) + 1 : Aggregated(k)[i] = WindowStart(k) + i - 1
    <3>1. \A i \in 1 .. Len(prev[k]) : Aggregated(k)[i] = prev[k][i]
      BY <2>5 DEF Aggregated
    <3>2. Aggregated(k)[Len(prev[k]) + 1] = k
      BY <2>5 DEF Aggregated
    <3> QED
      <4>1. k \in Nat /\ WindowStart(k) \in Nat /\ k = WindowStart(k) + Len(prev[k])
        <5>1. k \in Nat /\ WindowStart(k) \in Nat
          BY <1>0, <1>1
        <5> QED
          BY <5>1, <2>5
      <4>2. ASSUME NEW i \in 1 .. Len(prev[k]) + 1 PROVE Aggregated(k)[i] = WindowStart(k) + i - 1
        <5>1. CASE i = Len(prev[k]) + 1
          BY <3>2, <4>1, <5>1
        <5>2. CASE i # Len(prev[k]) + 1
          BY <2>5, <3>1, <5>2
        <5> QED
          BY <5>1, <5>2
      <4> QED
        BY <4>2
  <2>7. "vdf_proof" \in attrs'[k] =>
          /\ Len(proof'[k]) = k - WindowStart(k) + 1
          /\ \A i \in 1 .. Len(proof'[k]) :
                proof'[k][i] = <<challenge[WindowStart(k) + i - 1], y[WindowStart(k) + i - 1]>>
    <3> SUFFICES ASSUME "vdf_proof" \in attrs'[k]
                 PROVE  /\ Len(proof'[k]) = k - WindowStart(k) + 1
                        /\ \A i \in 1 .. Len(proof'[k]) :
                              proof'[k][i] = <<challenge[WindowStart(k) + i - 1], y[WindowStart(k) + i - 1]>>
      OBVIOUS
    <3>0. /\ proof'[k] = [i \in 1 .. Len(prev[k]) + 1 |-> <<challenge[Aggregated(k)[i]], y[Aggregated(k)[i]]>>]
          /\ Len(prev[k]) + 1 \in Nat
      BY <2>4, <2>5
    <3>1. Len(proof'[k]) = Len(prev[k]) + 1
      BY <3>0
    <3> QED
      BY <2>4, <2>5, <2>6, <3>1
  <2> QED
    BY <2>1, <2>2, <2>7 DEF ProofsOfWindows, WindowStart
<1>8. CASE UNCHANGED <<attrs, challenge, y, proof>>
  BY <1>8 DEF ProofsOfWindows, WindowStart
<1> QED
  BY <1>4, <1>5, <1>6, <1>7, <1>8, HandlerSteps
     DEF Next, Scheduler, Tick, StopContribution, TestPrev, WakeUp, StartVdf, AppendStage, VdfThread, VdfFinish

-----------------------------------------------------------------------------
\* The invariant of all the safety theorems.
LEMMA Invariance == Spec => []IInv
<1>1. Init /\ TypeOK => IInv
  BY InitIInv DEF IInv
<1>2. TypeOK' /\ IInv /\ [Next]_vars => IInv'
  BY ControlStep, WindowStep, ChainStep, ProofsStep DEF IInv
<1> QED
  BY <1>1, <1>2, TypeCorrect, PTL DEF Spec

\* What a fixed challenge says of the other stages.
LEMMA ChallengeMeansOrder == IInv => EvaluatedInOrder
<1> SUFFICES ASSUME IInv, NEW k \in StageIds, "vdf_challenge" \in attrs[k],
                    NEW j \in StageIds, j < k
             PROVE  phase[j] = DONE
  BY DEF EvaluatedInOrder
<1> USE DEF IInv, Control
<1>0. n \in Nat /\ StageIds \subseteq Nat
  BY BeaconAssumption DEF TypeOK, StageIds
<1>1. CASE vdf[k] # "none"
  BY <1>1 DEF VdfThreads
<1>2. CASE vdf[k] = "none"
  <2>1. k = n - 1
    BY <1>0, <1>2 DEF SchedulerAtLast, StagesExist
  <2>2. sched \in SchedPcs \ {"append"}
    BY <1>2, <2>1 DEF SchedulerAtLast, TypeOK
  <2>3. sched = "start"
    BY <2>1, <2>2 DEF SchedulerAtLast, SchedPcs
  <2> QED
    BY <2>1, <2>3 DEF SchedulerAtLast
<1> QED
  BY <1>1, <1>2

\* Stages are evaluated strictly in order (the wait in stop_contribution).
THEOREM InOrder == Spec => []EvaluatedInOrder
BY Invariance, ChallengeMeansOrder, PTL

\* Every challenge is chained to the output before it.
THEOREM Chained == Spec => []ChallengesChained
<1>1. IInv => ChallengesChained
  BY DEF IInv
<1> QED
  BY <1>1, Invariance, PTL

\* Every published proof covers exactly the window the client expects.
THEOREM WindowsProved == Spec => []DoneStagesProveTheirWindow
<1>1. IInv => DoneStagesProveTheirWindow
  BY DEF IInv, Control, VdfThreads, ProofsOfWindows, DoneStagesProveTheirWindow, Attributes
<1> QED
  BY <1>1, Invariance, PTL

\* No thread of the server ends in an exception.
THEOREM ThreadsSurvive == Spec => []NoThreadDies
<1>1. IInv => NoThreadDies
  BY DEF IInv, Control, VdfThreads, SchedulerAtLast, NoThreadDies
<1> QED
  BY <1>1, Invariance, PTL

-----------------------------------------------------------------------------
(* The beacon server implements the chain of outputs, and what a handler of  *)
(* GET /api/stage and POST /api/contribute tells a client.  The invariant    *)
(* above says where the threads are; what is left is a case for each         *)
(* statement.                                                                *)

LEMMA Bounds ==
  ASSUME TypeOK
  PROVE  /\ n \in Nat /\ n >= 1 /\ MaxStages \in Nat /\ n <= MaxStages /\ n - 1 \in StageIds
         /\ \A k \in Int : k \in StageIds <=> 0 <= k /\ k < MaxStages
         /\ StageIds \subseteq Nat
BY BeaconAssumption DEF TypeOK, StageIds

\* The stages that are accumulated: all, or all but the last.
LEMMA AccumulatedStages ==
  ASSUME TypeOK, Control
  PROVE  /\ sched \in {"idle", "stop", "accumulate"} => Accumulated = 0 .. n - 2
         /\ sched \notin {"idle", "stop", "accumulate"} => Accumulated = 0 .. n - 1
<1> USE DEF Control
<1>1. ASSUME NEW k \in StageIds, k < n - 1 PROVE "acc" \in attrs[k]
  <2>1. vdf[k] # "none" /\ vdf[k] \in VdfPcs
    BY <1>1, Bounds DEF SchedulerAtLast, TypeOK
  <2> QED
    BY <2>1 DEF VdfThreads, VdfPcs, Attributes
<1>2. ASSUME NEW k \in StageIds, k >= n PROVE "acc" \notin attrs[k]
  BY <1>2 DEF StagesExist
<1>3. "acc" \in attrs[n - 1] <=> sched \notin {"idle", "stop", "accumulate"}
  <2>1. sched = "append" => vdf[n - 1] \in VdfPcs \ {"none", "died"}
    BY Bounds DEF SchedulerAtLast, VdfThreads, TypeOK
  <2>2. sched = "append" => "acc" \in attrs[n - 1]
    BY <2>1, Bounds DEF VdfThreads, VdfPcs, Attributes
  <2> QED
    BY <2>2 DEF SchedulerAtLast, TypeOK, SchedPcs
<1> QED
  BY <1>1, <1>2, <1>3, Bounds DEF Accumulated

\* DONE is the last of the phases.
LEMMA PhaseDone ==
  ASSUME TypeOK
  PROVE  \A k \in StageIds : phase[k] >= DONE <=> phase[k] = DONE
<1>1. \A p \in Phase : p >= DONE <=> p = DONE
  BY DEF Phase, NONE, CONTRIBUTION, EVALUATION, DONE
<1>2. \A k \in StageIds : phase[k] \in Phase
  BY DEF TypeOK
<1> QED
  BY <1>1, <1>2

\* While a thread is about to finish stage k, exactly the stages before k are
\* published.
LEMMA PublishedStages ==
  ASSUME TypeOK, Control, NEW k \in StageIds, vdf[k] = "finish"
  PROVE  Published = 0 .. k - 1
<1>1. \A j \in StageIds : j < k => phase[j] = DONE
  BY DEF Control, VdfThreads
<1>2. ASSUME NEW j \in StageIds, j >= k PROVE phase[j] # DONE
  <2>1. phase[k] # DONE
    BY DEF Control, VdfThreads
  <2>2. j > k /\ phase[j] = DONE => phase[k] = DONE
    BY DEF Control, VdfThreads
  <2> QED
    BY <1>2, <2>1, <2>2, Bounds
<1>3. \A j \in StageIds : phase[j] >= DONE <=> phase[j] = DONE
  BY PhaseDone
<1> QED
  BY <1>1, <1>2, <1>3, Bounds DEF Published

\* A step that adds no accumulator and changes none leaves the commitments.
LEMMA SameCommitments ==
  ASSUME UNCHANGED acc, \A k \in StageIds : "acc" \in attrs'[k] <=> "acc" \in attrs[k]
  PROVE  UNCHANGED Commitments
<1>1. Accumulated' = Accumulated
  BY DEF Accumulated, StageIds
<1> QED
  BY <1>1 DEF Commitments

\* ... and one that makes no stage DONE and no published output another one
\* leaves the outputs.
LEMMA SameOutputs ==
  ASSUME \A k \in StageIds : phase'[k] >= DONE <=> phase[k] >= DONE,
         \A k \in StageIds : phase[k] >= DONE => y'[k] = y[k]
  PROVE  UNCHANGED Outputs
<1>1. Published' = Published
  BY DEF Published, StageIds
<1>2. \A k \in Published : y'[k] = y[k]
  BY DEF Published
<1> QED
  BY <1>1, <1>2 DEF Outputs

-----------------------------------------------------------------------------
(* The steps that are no stuttering.                                       *)

\* The scheduler accumulates the last stage: a commitment, of the stage that
\* follows the one under evaluation at most.
LEMMA AccumulateCommits ==
  ASSUME TypeOK, Control, Accumulate
  PROVE  Chain!Next
<1> DEFINE k == n - 1
<1>1. /\ cur = k /\ k \in StageIds /\ sched = "accumulate"
      /\ acc' = [acc EXCEPT ![k] = data[k]] /\ attrs' = [attrs EXCEPT ![k] = @ \cup {"acc"}]
      /\ UNCHANGED <<phase, y>>
  BY Bounds DEF Accumulate, Control, SchedulerAtLast
<1>2. Accumulated = 0 .. k - 1
  BY <1>1, AccumulatedStages, Bounds
<1>3. Accumulated' = 0 .. k
  <2>1. Accumulated' = Accumulated \cup {k}
    BY <1>1 DEF Accumulated, StageIds, TypeOK
  <2> QED
    BY <1>1, <1>2, <2>1, Bounds
<1>4. \A j \in 0 .. k - 1 : acc'[j] = acc[j]
  BY <1>1, Bounds DEF TypeOK
<1>5. UNCHANGED Outputs
  BY <1>1, SameOutputs
<1>6. k < 2 \/ k - 2 \in Published
  <2>1. ASSUME k >= 2 PROVE k - 2 \in StageIds /\ phase[k - 2] = DONE
    <3>1. k - 1 \in StageIds /\ k - 2 \in StageIds /\ k - 1 < n - 1
      BY <2>1, Bounds
    <3>2. vdf[k - 1] # "none"
      BY <3>1 DEF Control, SchedulerAtLast
    <3>3. \A j \in StageIds : j < k - 1 => phase[j] = DONE
      BY <3>1, <3>2 DEF Control, VdfThreads
    <3> QED
      BY <3>1, <3>3, Bounds
  <2> QED
    BY <2>1, <1>1, Bounds DEF Published, DONE
<1>7. Chain!Commit(k)
  <2>1. k \in Nat
    BY Bounds
  <2>2. DOMAIN Commitments = 0 .. k - 1 /\ DOMAIN Commitments' = 0 .. k + 1 - 1 /\ DOMAIN Outputs = Published
    BY <1>2, <1>3, <2>1 DEF Commitments, Outputs
  <2>3. \A j \in 0 .. k - 1 : Commitments'[j] = Commitments[j]
    BY <1>2, <1>3, <1>4, <2>1 DEF Commitments
  <2> HIDE DEF k
  <2> QED
    BY <1>5, <1>6, <2>1, <2>2, <2>3 DEF Chain!Commit, Chain!Extends, Chain!NextOf
<1>8. k \in DOMAIN Commitments'
  BY <1>3, Bounds DEF Commitments
<1> QED
  BY <1>7, <1>8 DEF Chain!Next

\* The thread of stage k sets it DONE: its output is published, the VDF of its
\* commitment and of the output before it.
LEMMA FinishPublishes ==
  ASSUME IInv, NEW k \in StageIds, VdfFinish(k)
  PROVE  Chain!Next
<1> USE DEF IInv
<1>1. /\ vdf[k] = "finish" /\ phase[k] = EVALUATION /\ attrs[k] = Attributes
      /\ phase' = [phase EXCEPT ![k] = DONE] /\ UNCHANGED <<acc, attrs, y>>
  BY DEF VdfFinish, Control, VdfThreads
<1>2. Published = 0 .. k - 1
  BY <1>1, PublishedStages
<1>3. Published' = 0 .. k
  <2>1. Published' = Published \cup {k}
    BY <1>1 DEF Published, StageIds, TypeOK, DONE
  <2> QED
    BY <1>2, <2>1, Bounds
<1>4. UNCHANGED Commitments
  BY <1>1, SameCommitments
<1>5. k \in Accumulated
  BY <1>1 DEF Accumulated, Attributes
<1>6. y[k] = Eval(Hash(acc[k], IF k = 0 THEN NoY ELSE y[k - 1]))
  BY <1>1 DEF ChallengesChained, Attributes
<1>7. Chain!Publish(k)
  <2>1. k \in Nat
    BY Bounds
  <2>2. /\ DOMAIN Outputs = 0 .. k - 1 /\ DOMAIN Outputs' = 0 .. k + 1 - 1
        /\ \A j \in 0 .. k - 1 : Outputs'[j] = Outputs[j]
    BY <1>1, <1>2, <1>3, <2>1 DEF Outputs
  <2>3. Chain!Before(k) = IF k = 0 THEN NoY ELSE y[k - 1]
    BY <1>2, <2>1 DEF Chain!Before, Outputs
  <2>4. Outputs'[k] = y[k] /\ Commitments[k] = acc[k] /\ k \in DOMAIN Commitments
    BY <1>1, <1>3, <1>5, <2>1 DEF Outputs, Commitments
  <2> QED
    BY <1>4, <1>6, <2>1, <2>2, <2>3, <2>4 DEF Chain!Publish, Chain!Extends, Chain!NextOf
<1>8. k \in DOMAIN Outputs'
  BY <1>3, Bounds DEF Outputs
<1> QED
  BY <1>7, <1>8 DEF Chain!Next

-----------------------------------------------------------------------------
(* Every other step stutters.                                              *)

LEMMA OtherStagesStutter ==
  ASSUME IInv,
         \/ Tick \/ StopContribution \/ TestPrev \/ WakeUp \/ HashChallenge \/ StartVdf \/ AppendStage
         \/ \E k \in StageIds : VdfEval(k) \/ VdfAggregate(k)
         \/ \E c \in Clients : Contributor(c)
         \/ \E r \in Readers : Reader(r)
         \/ UNCHANGED vars
  PROVE  UNCHANGED <<Commitments, Outputs>>
<1> USE DEF IInv, stageVars
<1>0. DOMAIN phase = StageIds /\ DOMAIN attrs = StageIds /\ DOMAIN y = StageIds
  BY DEF TypeOK
<1>1. ASSUME UNCHANGED <<attrs, acc, phase, y>> PROVE UNCHANGED <<Commitments, Outputs>>
  BY <1>1, SameCommitments, SameOutputs
<1>2. CASE StopContribution
  <2>1. UNCHANGED <<attrs, acc, y>>
    BY <1>2 DEF StopContribution
  <2>2. \A k \in StageIds : phase'[k] = phase[k] \/ (phase[k] = CONTRIBUTION /\ phase'[k] = EVALUATION)
    BY <1>0, <1>2 DEF StopContribution
  <2> QED
    BY <2>1, <2>2, SameCommitments, SameOutputs DEF CONTRIBUTION, EVALUATION, DONE
<1>3. CASE HashChallenge
  <2>1. UNCHANGED <<phase, acc, y>>
    BY <1>3 DEF HashChallenge
  <2>2. \A k \in StageIds : attrs'[k] = attrs[k] \/ attrs'[k] = attrs[k] \cup {"vdf_challenge"}
    BY <1>0, <1>3 DEF HashChallenge
  <2> QED
    BY <2>1, <2>2, SameCommitments, SameOutputs
<1>4. CASE AppendStage
  <2>1. UNCHANGED <<attrs, acc, y>>
    BY <1>4 DEF AppendStage
  <2>2. phase[n] = NONE /\ n \in StageIds
    BY <1>4, Bounds DEF AppendStage, Control, StagesExist
  <2>3. \A k \in StageIds : phase'[k] = phase[k] \/ (phase[k] = NONE /\ phase'[k] = CONTRIBUTION)
    BY <1>0, <1>4, <2>2 DEF AppendStage
  <2> QED
    BY <2>1, <2>3, SameCommitments, SameOutputs DEF CONTRIBUTION, NONE, DONE
<1>5. ASSUME NEW k \in StageIds, VdfEval(k) PROVE UNCHANGED <<Commitments, Outputs>>
  <2>1. UNCHANGED <<phase, acc>> /\ phase[k] = EVALUATION
    BY <1>5 DEF VdfEval, Control, VdfThreads
  <2>2. \A j \in StageIds : /\ attrs'[j] = attrs[j] \/ attrs'[j] = attrs[j] \cup {"vdf_y"}
                            /\ j # k => y'[j] = y[j]
    BY <1>0, <1>5 DEF VdfEval
  <2> QED
    BY <2>1, <2>2, SameCommitments, SameOutputs DEF EVALUATION, DONE
<1>6. ASSUME NEW k \in StageIds, VdfAggregate(k) PROVE UNCHANGED <<Commitments, Outputs>>
  <2>1. UNCHANGED <<phase, acc, y>>
    BY <1>6 DEF VdfAggregate
  <2>2. \A j \in StageIds : attrs'[j] = attrs[j] \/ attrs'[j] = attrs[j] \cup {"vdf_proof"}
    BY <1>0, <1>6 DEF VdfAggregate
  <2> QED
    BY <2>1, <2>2, SameCommitments, SameOutputs
<1> QED
  BY <1>1, <1>2, <1>3, <1>4, <1>5, <1>6, HandlerSteps DEF Tick, TestPrev, WakeUp, StartVdf

\* The threads of the server, however they interleave, publish a chain of
\* outputs: each stage is committed once and in order, published once and in
\* order, and chained to the output before it (next_stage, vdf_run).
THEOREM Refinement == Spec => ImplementsChain
<1>1. Init => Chain!Init
  <2>1. Init => Accumulated = {} /\ Published = {}
    BY DEF Init, Accumulated, Published, NONE, CONTRIBUTION, DONE
  <2> QED
    BY <2>1 DEF Chain!Init, Commitments, Outputs
<1>2. IInv /\ [Next]_vars => [Chain!Next]_<<Commitments, Outputs>>
  BY AccumulateCommits, FinishPublishes, OtherStagesStutter DEF Next, Scheduler, VdfThread, IInv
<1> QED
  BY <1>1, <1>2, Invariance, PTL DEF Spec, ImplementsChain, Chain!Spec, Chain!chainVars

-----------------------------------------------------------------------------
(* What GET /api/stage answers.                                            *)

\* A stage that is DONE stays so, and nothing is missing in it.
LEMMA DoneStays ==
  ASSUME IInv, [Next]_vars, NEW k \in StageIds, phase[k] = DONE
  PROVE  phase'[k] = DONE /\ attrs[k] = Attributes
<1> USE DEF IInv, Control, stageVars
<1>0. DOMAIN phase = StageIds
  BY DEF TypeOK
<1>1. attrs[k] = Attributes
  BY DEF VdfThreads
<1>2. StopContribution => phase'[k] = DONE
  BY <1>0 DEF StopContribution, CONTRIBUTION, DONE
<1>3. AppendStage => phase'[k] = DONE
  <2>1. AppendStage => n # k
    BY Bounds DEF AppendStage, StagesExist, NONE, DONE
  <2> QED
    BY <1>0, <2>1 DEF AppendStage
<1>4. \A j \in StageIds : VdfThread(j) => phase'[k] = DONE
  BY <1>0 DEF VdfThread, VdfEval, VdfAggregate, VdfFinish
<1> QED
  BY <1>1, <1>2, <1>3, <1>4, HandlerSteps
     DEF Next, Scheduler, Tick, Accumulate, TestPrev, WakeUp, HashChallenge, StartVdf

\* A handler that has once read DONE finds every field it goes on to read.
LEMMA AnswersStep ==
  ASSUME IInv, AnswersBuilt, [Next]_vars
  PROVE  AnswersBuilt'
<1> SUFFICES ASSUME NEW r \in Readers PROVE AnswersBuilt!(r)'
  BY DEF AnswersBuilt
<1>0. /\ get \in [Readers -> GetPcs] /\ DOMAIN answer = Readers
      /\ answer[r].stage \in StageIds /\ answer[r].fields \in SUBSET Fields
      /\ TypeOK
  BY DEF IInv, TypeOK
<1>1. CASE get'[r] = get[r] /\ answer'[r] = answer[r]
  <2>1. AnswersBuilt!(r)
    BY DEF AnswersBuilt
  <2>2. phase[answer[r].stage] = DONE => phase'[answer[r].stage] = DONE
    BY <1>0, DoneStays
  <2> QED
    BY <1>1, <2>1, <2>2
<1>2. ASSUME NEW k \in StageIds, GetStage(r, k) PROVE AnswersBuilt!(r)'
  BY <1>0, <1>2 DEF GetStage, NONE, DONE
<1>3. CASE GetPhase(r)
  <2>1. /\ get'[r] = "accval" /\ UNCHANGED phase
        /\ answer'[r] = [stage |-> answer[r].stage, phase |-> phase[answer[r].stage], fields |-> {}, error |-> FALSE]
    BY <1>0, <1>3 DEF GetPhase, stageVars
  <2> QED
    BY <2>1
<1>4. CASE GetAccval(r)
  <2>1. /\ get[r] = "accval" /\ UNCHANGED phase
        /\ answer'[r].stage = answer[r].stage /\ answer'[r].phase = answer[r].phase
        /\ get'[r] # "phase"
    BY <1>0, <1>4 DEF GetAccval, AnswerFields, stageVars
  <2>2. ASSUME answer[r].phase = DONE
        PROVE /\ phase[answer[r].stage] = DONE /\ ~answer'[r].error /\ get'[r] = "vdfy"
              /\ answer'[r].fields = {"accval"}
    <3>1. phase[answer[r].stage] = DONE /\ answer[r].fields = {}
      BY <2>1, <2>2 DEF AnswersBuilt
    <3>2. "acc" \in attrs[answer[r].stage]
      BY <1>0, <3>1, DoneStays DEF Attributes
    <3>3. phase[answer[r].stage] >= EVALUATION /\ {"acc"} \subseteq attrs[answer[r].stage]
      BY <3>1, <3>2 DEF EVALUATION, DONE
    <3>4. get'[r] = "vdfy" /\ answer'[r] = [stage |-> answer[r].stage, phase |-> answer[r].phase,
                                             fields |-> answer[r].fields \cup {"accval"}, error |-> FALSE]
      BY <1>0, <1>4, <3>3 DEF GetAccval, AnswerFields
    <3> QED
      BY <3>1, <3>4
  <2> QED
    BY <2>1, <2>2
<1>5. CASE GetVdf(r)
  <2>1. /\ get[r] = "vdfy" /\ UNCHANGED phase
        /\ answer'[r].stage = answer[r].stage /\ answer'[r].phase = answer[r].phase
        /\ get'[r] = "idle"
    BY <1>0, <1>5 DEF GetVdf, AnswerFields, stageVars
  <2>2. ASSUME answer[r].phase = DONE
        PROVE phase[answer[r].stage] = DONE /\ ~answer'[r].error /\ answer'[r].fields = Fields
    <3>1. phase[answer[r].stage] = DONE /\ answer[r].fields = {"accval"}
      BY <2>1, <2>2 DEF AnswersBuilt
    <3>2. {"vdf_y", "vdf_proof"} \subseteq attrs[answer[r].stage]
      BY <1>0, <3>1, DoneStays DEF Attributes
    <3>3. phase[answer[r].stage] >= DONE
      BY <3>1 DEF DONE
    <3>4. answer'[r] = [stage |-> answer[r].stage, phase |-> answer[r].phase,
                        fields |-> answer[r].fields \cup {"vdfy", "vdfproof"}, error |-> FALSE]
      BY <1>0, <1>5, <3>2, <3>3 DEF GetVdf, AnswerFields
    <3> QED
      BY <3>1, <3>4 DEF Fields
  <2> QED
    BY <2>1, <2>2
<1>6. ASSUME NEW s \in Readers \ {r}, Reader(s) PROVE get'[r] = get[r] /\ answer'[r] = answer[r]
  BY <1>0, <1>6 DEF Reader, GetStage, GetPhase, GetAccval, GetVdf, AnswerFields
<1>7. (Reader(r) \/ \E s \in Readers \ {r} : Reader(s)) \/ UNCHANGED getVars
  BY DEF Next, Scheduler, Tick, StopContribution, Accumulate, TestPrev, WakeUp, HashChallenge, StartVdf, AppendStage,
         VdfThread, VdfEval, VdfAggregate, VdfFinish, Contributor, Contribute, CheckPhase, AppendData,
         ReadIndex, Reply, vars, threadVars
<1> QED
  BY <1>1, <1>2, <1>3, <1>4, <1>5, <1>6, <1>7 DEF Reader, getVars

\* An answer that says DONE is complete, although the handler reads phase, acc,
\* vdf_y and vdf_proof one after the other (get_stage of server.py).
THEOREM AnswersComplete == Spec => []DoneAnswersComplete
<1>1. Init => AnswersBuilt
  BY DEF Init, AnswersBuilt, NONE, DONE
<1>2. IInv /\ AnswersBuilt /\ [Next]_vars => AnswersBuilt'
  BY AnswersStep
<1>3. AnswersBuilt => DoneAnswersComplete
  BY DEF AnswersBuilt, DoneAnswersComplete
<1> QED
  BY <1>1, <1>2, <1>3, Invariance, PTL DEF Spec

-----------------------------------------------------------------------------
(* Greenlets.                                                              *)

ServedStep(c) == CheckPhase(c) \/ AppendData(c) \/ ReadIndex(c) \/ Reply(c)

\* While one greenlet serves a contribution nothing else takes a step.
LEMMA OthersWait ==
  ASSUME ~Preemptive, NEW c \in Clients, req[c] # "idle", [Next]_vars
  PROVE  ServedStep(c) \/ UNCHANGED vars
<1>1. ~SchedMayRun /\ (\A k \in StageIds : ~VdfMayRun(k)) /\ (\A r \in Readers : ~GetMayRun(r))
  BY DEF SchedMayRun, VdfMayRun, GetMayRun, ReqYields
<1>2. \A d \in Clients \ {c} : ~ReqMayRun(d)
  BY DEF ReqMayRun, ReqYields
<1>3. ~Scheduler
  BY <1>1 DEF Scheduler, Tick, StopContribution, Accumulate, TestPrev, WakeUp, HashChallenge, StartVdf, AppendStage
<1>4. \A k \in StageIds : ~VdfThread(k)
  BY <1>1 DEF VdfThread, VdfEval, VdfAggregate, VdfFinish
<1>5. \A r \in Readers : ~Reader(r)
  BY <1>1 DEF Reader, GetStage, GetPhase, GetAccval, GetVdf
<1>6. \A d \in Clients \ {c} : ~Contributor(d)
  BY <1>2 DEF Contributor, Contribute, CheckPhase, AppendData, ReadIndex, Reply
<1>7. \A x \in Values : ~Contribute(c, x)
  BY DEF Contribute
<1> QED
  BY <1>3, <1>4, <1>5, <1>6, <1>7 DEF Next, Contributor, ServedStep

\* One begins to serve only with the arrival of a request.
LEMMA ServiceBegins ==
  ASSUME TypeOK, NEW c \in Clients, req[c] = "idle", req'[c] # "idle", [Next]_vars
  PROVE  \E x \in Values : Contribute(c, x)
<1>0. DOMAIN req = Clients
  BY DEF TypeOK
<1>1. req' # req
  OBVIOUS
<1>2. \E d \in Clients : Contributor(d)
  BY <1>1 DEF Next, Scheduler, Tick, StopContribution, Accumulate, TestPrev, WakeUp, HashChallenge, StartVdf,
       AppendStage, VdfThread, VdfEval, VdfAggregate, VdfFinish, Reader, GetStage, GetPhase, GetAccval, GetVdf,
       vars, threadVars, reqVars
<1>3. \A d \in Clients \ {c} : ~Contributor(d)
  BY <1>0 DEF Contributor, Contribute, CheckPhase, AppendData, ReadIndex, Reply
<1>4. ~ServedStep(c)
  BY DEF ServedStep, CheckPhase, AppendData, ReadIndex, Reply
<1> QED
  BY <1>2, <1>3, <1>4 DEF Contributor, ServedStep

LEMMA CallsAtomicStep ==
  ASSUME ~Preemptive, TypeOK, CallsAtomic, [Next]_vars
  PROVE  CallsAtomic'
<1> SUFFICES ASSUME NEW c \in Clients, req'[c] # "idle" PROVE CallsAtomic!(c)'
  BY DEF CallsAtomic
<1> USE DEF SchedYields, VdfYields, ReqYields, GetYields
<1>0. DOMAIN req = Clients
  BY DEF TypeOK
<1>1. CASE req[c] # "idle"
  <2>1. UNCHANGED <<sched, vdf, get>> /\ \A d \in Clients \ {c} : req'[d] = req[d]
    BY <1>0, <1>1, OthersWait DEF ServedStep, CheckPhase, AppendData, ReadIndex, Reply, getVars, vars, threadVars, reqVars
  <2> QED
    BY <1>1, <2>1 DEF CallsAtomic, StageIds
<1>2. CASE req[c] = "idle"
  <2>1. PICK x \in Values : Contribute(c, x)
    BY <1>2, ServiceBegins
  <2>2. UNCHANGED <<sched, vdf, get>> /\ \A d \in Clients \ {c} : req'[d] = req[d]
    BY <1>0, <2>1 DEF Contribute, getVars
  <2>3. /\ sched \in {"idle", "sleep", "append"} /\ \A k \in StageIds : vdf[k] \in {"none", "eval", "exit", "died"}
        /\ \A d \in Clients \ {c} : req[d] = "idle"
        /\ \A r \in Readers : get[r] = "idle"
    BY <2>1 DEF Contribute, ReqMayRun
  <2> QED
    BY <2>2, <2>3 DEF StageIds
<1> QED
  BY <1>1, <1>2

LEMMA CallsAtLastStep ==
  ASSUME ~Preemptive, TypeOK, CallsAtLast, [Next]_vars
  PROVE  CallsAtLast'
<1> SUFFICES ASSUME NEW c \in Clients PROVE CallsAtLast!(c)'
  BY DEF CallsAtLast
<1> USE DEF stageVars
<1> DEFINE k == call[c].stage
<1>0. /\ DOMAIN req = Clients /\ DOMAIN call = Clients /\ k \in StageIds
      /\ data[k] \in Seq(Data) /\ DOMAIN data = StageIds /\ call[c].x \in Data
  BY DEF TypeOK
<1>1. CallsAtLast!(c)
  BY DEF CallsAtLast
<1>2. CASE req'[c] = "idle"
  BY <1>2
<1>3. CASE req'[c] # "idle" /\ req[c] = "idle"
  <2>1. PICK x \in Values : Contribute(c, x)
    BY <1>3, ServiceBegins
  <2> QED
    BY <1>0, <2>1 DEF Contribute
<1>4. CASE CheckPhase(c)
  <2>1. /\ UNCHANGED <<n, phase, data, call>>
        /\ req[c] = "check" /\ req'[c] = IF phase[k] = CONTRIBUTION THEN "append" ELSE "idle"
    BY <1>0, <1>4 DEF CheckPhase
  <2> QED
    BY <1>1, <2>1
<1>5. CASE AppendData(c)
  <2>1. /\ UNCHANGED <<n, phase, call>> /\ req[c] = "append" /\ req'[c] = "len"
        /\ data'[k] = Append(data[k], call[c].x)
    BY <1>0, <1>5 DEF AppendData
  <2>2. Len(data'[k]) = Len(data[k]) + 1 /\ data'[k][Len(data'[k])] = call[c].x /\ Len(data[k]) \in Nat
    BY <1>0, <2>1
  <2> QED
    BY <1>1, <2>1, <2>2
<1>6. CASE ReadIndex(c)
  <2>1. /\ UNCHANGED <<n, phase, data>> /\ req[c] = "len" /\ req'[c] = "reply"
        /\ call'[c] = [stage |-> k, x |-> call[c].x, idx |-> Len(data[k]) - 1]
    BY <1>0, <1>6 DEF ReadIndex
  <2> QED
    BY <1>1, <2>1
<1>7. CASE Reply(c)
  BY <1>0, <1>7 DEF Reply
<1>8. CASE UNCHANGED vars
  BY <1>1, <1>8 DEF vars, threadVars, reqVars
<1> QED
  BY <1>2, <1>3, <1>4, <1>5, <1>6, <1>7, <1>8, OthersWait DEF ServedStep

\* What is in a stage's data stays there, also when more is appended.
LEMMA DataStays ==
  ASSUME TypeOK, [Next]_vars, NEW k \in StageIds, k < n
  PROVE  /\ n' >= n /\ n' \in Nat
         /\ Len(data'[k]) \in Nat /\ Len(data'[k]) >= Len(data[k])
         /\ \A i \in 1 .. Len(data[k]) : data'[k][i] = data[k][i]
<1> USE DEF stageVars
<1>0. /\ DOMAIN data = StageIds /\ data[k] \in Seq(Data) /\ Len(data[k]) \in Nat
      /\ n \in Nat
  BY Bounds DEF TypeOK
<1>1. CASE n' = n /\ data' = data
  BY <1>0, <1>1
<1>2. CASE AppendStage
  <2>1. n' = n + 1 /\ data'[k] = data[k]
    BY <1>0, <1>2 DEF AppendStage
  <2> QED
    BY <1>0, <2>1
<1>3. ASSUME NEW c \in Clients, AppendData(c)
      PROVE  /\ n' = n
             /\ Len(data'[k]) \in Nat /\ Len(data'[k]) >= Len(data[k])
             /\ \A i \in 1 .. Len(data[k]) : data'[k][i] = data[k][i]
  <2>1. call[c].x \in Data /\ n' = n
    BY <1>3 DEF AppendData, TypeOK
  <2>2. data'[k] = data[k] \/ data'[k] = Append(data[k], call[c].x)
    BY <1>0, <1>3 DEF AppendData
  <2> QED
    BY <1>0, <2>1, <2>2
<1> QED
  BY <1>0, <1>1, <1>2, <1>3
     DEF Next, Scheduler, Tick, StopContribution, Accumulate, TestPrev, WakeUp, HashChallenge, StartVdf,
         VdfThread, VdfEval, VdfAggregate, VdfFinish, Contributor, Contribute, CheckPhase, ReadIndex, Reply,
         Reader, GetStage, GetPhase, GetAccval, GetVdf, vars

\* An accumulator is made of the data there is and is not made again.
LEMMA AccumulatorsStay ==
  ASSUME TypeOK, [Next]_vars, NEW k \in StageIds, "acc" \in attrs'[k]
  PROVE  \/ acc'[k] = data[k] /\ data' = data
         \/ acc'[k] = acc[k] /\ "acc" \in attrs[k]
<1> USE DEF stageVars
<1>0. DOMAIN acc = StageIds /\ DOMAIN attrs = StageIds
  BY DEF TypeOK
<1>1. CASE Accumulate
  BY <1>0, <1>1 DEF Accumulate
<1>2. CASE HashChallenge
  BY <1>0, <1>2 DEF HashChallenge
<1>3. ASSUME NEW j \in StageIds, VdfThread(j) PROVE acc'[k] = acc[k] /\ "acc" \in attrs[k]
  BY <1>0, <1>3 DEF VdfThread, VdfEval, VdfAggregate, VdfFinish
<1>4. CASE UNCHANGED <<acc, attrs>>
  BY <1>4
<1> QED
  BY <1>1, <1>2, <1>3, <1>4, HandlerSteps
     DEF Next, Scheduler, Tick, StopContribution, TestPrev, WakeUp, StartVdf, AppendStage

\* An open stage has no accumulator yet when no greenlet is in between.
LEMMA OpenNotAccumulated ==
  ASSUME TypeOK, Control, SchedYields, phase[n - 1] = CONTRIBUTION
  PROVE  attrs[n - 1] = {}
<1>1. sched # "append"
  <2>1. vdf[n - 1] \in VdfPcs \ {"none", "died"} => phase[n - 1] \in {EVALUATION, DONE}
    BY Bounds DEF Control, VdfThreads, VdfPcs
  <2> QED
    BY <2>1, Bounds DEF Control, SchedulerAtLast, VdfThreads, TypeOK, CONTRIBUTION, EVALUATION, DONE
<1> QED
  BY <1>1 DEF SchedYields, Control, SchedulerAtLast, CONTRIBUTION, EVALUATION

LEMMA ReceiptsStep ==
  ASSUME ~Preemptive, TypeOK, Control, CallsAtomic, CallsAtLast, ReceiptsExist, ReceiptHonoured, [Next]_vars
  PROVE  ReceiptsExist' /\ ReceiptHonoured'
<1> SUFFICES ASSUME NEW c \in Clients, receipt'[c] # NoReceipt
             PROVE  ReceiptsExist!(c)' /\ ReceiptHonoured!(c)'
  BY DEF ReceiptsExist, ReceiptHonoured
<1> USE DEF stageVars
<1>0. DOMAIN receipt = Clients
  BY DEF TypeOK
<1>1. CASE receipt'[c] = receipt[c]
  <2> DEFINE k == receipt[c].stage
             i == receipt[c].data_index + 1
  <2>1. /\ k \in 0 .. n - 1 /\ i \in 1 .. Len(data[k]) /\ data[k][i] = receipt[c].x
        /\ "acc" \in attrs[k] => i \in 1 .. Len(acc[k]) /\ acc[k][i] = receipt[c].x
    BY <1>1 DEF ReceiptsExist, ReceiptHonoured
  <2>2. k \in StageIds /\ k < n
    BY <2>1, Bounds
  <2>3. /\ n' >= n /\ n' \in Nat
        /\ Len(data'[k]) \in Nat /\ Len(data'[k]) >= Len(data[k])
        /\ \A j \in 1 .. Len(data[k]) : data'[k][j] = data[k][j]
    BY <2>2, DataStays
  <2>4. data[k] \in Seq(Data) /\ Len(data[k]) \in Nat
    BY <2>2 DEF TypeOK
  <2>5. i \in 1 .. Len(data'[k]) /\ data'[k][i] = receipt[c].x
    BY <2>1, <2>3, <2>4
  <2>6. "acc" \in attrs'[k] => i \in 1 .. Len(acc'[k]) /\ acc'[k][i] = receipt[c].x
    BY <2>1, <2>2, AccumulatorsStay
  <2>7. k \in 0 .. n' - 1
    BY <2>1, <2>3, Bounds
  <2> QED
    BY <1>1, <2>5, <2>6, <2>7
<1>2. CASE Reply(c)
  <2>1. /\ receipt'[c] = [stage |-> n - 1, data_index |-> call[c].idx, x |-> call[c].x]
        /\ req[c] = "reply" /\ UNCHANGED <<n, data, attrs>>
    BY <1>0, <1>2 DEF Reply
  <2>2. /\ phase[n - 1] = CONTRIBUTION /\ Len(data[n - 1]) > 0
        /\ data[n - 1][Len(data[n - 1])] = call[c].x /\ call[c].idx = Len(data[n - 1]) - 1
    BY <2>1 DEF CallsAtLast
  <2>3. "acc" \notin attrs[n - 1]
    BY <2>1, <2>2, OpenNotAccumulated DEF CallsAtomic
  <2>4. data[n - 1] \in Seq(Data) /\ Len(data[n - 1]) \in Nat
    <3>1. n - 1 \in StageIds
      BY Bounds
    <3> QED
      BY <3>1 DEF TypeOK
  <2> QED
    BY <2>1, <2>2, <2>3, <2>4, Bounds
<1>3. receipt'[c] = receipt[c] \/ Reply(c)
  <2>1. ASSUME NEW d \in Clients, Contributor(d) PROVE receipt'[c] = receipt[c] \/ Reply(c)
    BY <1>0, <2>1 DEF Contributor, Contribute, CheckPhase, AppendData, ReadIndex, Reply
  <2>2. (\E d \in Clients : Contributor(d)) \/ UNCHANGED receipt
    BY DEF Next, Scheduler, Tick, StopContribution, Accumulate, TestPrev, WakeUp, HashChallenge, StartVdf, AppendStage,
           VdfThread, VdfEval, VdfAggregate, VdfFinish,
           Reader, GetStage, GetPhase, GetAccval, GetVdf, vars, threadVars, reqVars
  <2> QED
    BY <2>1, <2>2
<1> QED
  BY <1>1, <1>2, <1>3

\* When a greenlet reads a stage, one that is closed has its accumulator.
LEMMA ClosedIsAccumulated ==
  ASSUME TypeOK, Control, SchedYields, NEW k \in StageIds, phase[k] >= EVALUATION
  PROVE  "acc" \in attrs[k]
<1>1. k < n
  BY Bounds DEF Control, StagesExist, NONE, EVALUATION
<1>2. sched \in {"idle", "stop", "accumulate"} => k # n - 1
  BY DEF SchedYields, Control, SchedulerAtLast, CONTRIBUTION, EVALUATION
<1> QED
  BY <1>1, <1>2, AccumulatedStages, Bounds DEF Accumulated

LEMMA AnswersSucceed ==
  ASSUME ~Preemptive, IInv, NoAnswerFails, [Next]_vars
  PROVE  NoAnswerFails'
<1> SUFFICES ASSUME NEW r \in Readers PROVE ~answer'[r].error
  BY DEF NoAnswerFails
<1> USE DEF IInv
<1>0. DOMAIN answer = Readers /\ answer[r].stage \in StageIds /\ ~answer[r].error /\ TypeOK /\ Control
  BY DEF TypeOK, NoAnswerFails
<1>1. ASSUME NEW k \in StageIds, GetStage(r, k) PROVE ~answer'[r].error
  BY <1>0, <1>1 DEF GetStage
<1>2. CASE GetPhase(r)
  BY <1>0, <1>2 DEF GetPhase
<1>3. CASE GetAccval(r)
  <2>1. phase[answer[r].stage] >= EVALUATION => {"acc"} \subseteq attrs[answer[r].stage]
    BY <1>0, <1>3, ClosedIsAccumulated DEF GetAccval, GetMayRun
  <2> QED
    BY <1>0, <1>3, <2>1 DEF GetAccval, AnswerFields
<1>4. CASE GetVdf(r)
  <2>1. phase[answer[r].stage] >= DONE => {"vdf_y", "vdf_proof"} \subseteq attrs[answer[r].stage]
    BY <1>0, PhaseDone, DoneStays DEF Attributes
  <2> QED
    BY <1>0, <1>4, <2>1 DEF GetVdf, AnswerFields
<1>5. ASSUME NEW s \in Readers \ {r}, Reader(s) PROVE answer'[r] = answer[r]
  BY <1>0, <1>5 DEF Reader, GetStage, GetPhase, GetAccval, GetVdf, AnswerFields
<1>6. (Reader(r) \/ \E s \in Readers \ {r} : Reader(s)) \/ UNCHANGED answer
  BY DEF Next, Scheduler, Tick, StopContribution, Accumulate, TestPrev, WakeUp, HashChallenge, StartVdf, AppendStage,
         VdfThread, VdfEval, VdfAggregate, VdfFinish, Contributor, Contribute, CheckPhase, AppendData,
         ReadIndex, Reply, vars, threadVars, getVars
<1> QED
  BY <1>0, <1>1, <1>2, <1>3, <1>4, <1>5, <1>6 DEF Reader

LEMMA CooperativeInvariance == Spec => [](~Preemptive => Cooperative)
<1> DEFINE Inv == ~Preemptive => Cooperative
<1>1. Init => Inv
  BY DEF Init, Cooperative, CallsAtomic, CallsAtLast, ReceiptsExist, ReceiptHonoured, NoAnswerFails
<1>2. IInv /\ Inv /\ [Next]_vars => Inv'
  BY CallsAtomicStep, CallsAtLastStep, ReceiptsStep, AnswersSucceed DEF Cooperative, IInv
<1>3. Inv => (~Preemptive => Cooperative)
  OBVIOUS
<1> HIDE DEF Inv
<1> QED
  BY <1>1, <1>2, <1>3, Invariance, PTL DEF Spec

\* Under gevent every receipt names the place where the contribution is, in the
\* data and then in the accumulator, and no read of a stage fails (contribute
\* of server.py and stage.py, get_stage of server.py).
THEOREM CooperativeAnswers == Spec => []CooperativeAnswersHold
<1>1. (~Preemptive => Cooperative) => CooperativeAnswersHold
  BY DEF Cooperative, CooperativeAnswersHold
<1> QED
  BY <1>1, CooperativeInvariance, PTL

=============================================================================
