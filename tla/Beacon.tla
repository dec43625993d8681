------------------------------- MODULE Beacon -------------------------------
(***************************************************************************)
(* The HeadStart randomness beacon server: RandomnessBeacon (server.py)    *)
(* and Stage (stage.py).  Three kinds of threads share the list of stages: *)
(*                                                                         *)
(*   - the scheduler job, which calls next_stage every interval_seconds;   *)
(*   - one vdf_run thread per stage, started by stop_contribution;         *)
(*   - the HTTP handlers: POST /api/contribute, one per member of Clients, *)
(*     and GET /api/stage, one per member of Readers.                      *)
(*                                                                         *)
(* Python statements that touch shared state are separate actions.         *)
(* run_server.sh runs the server under gevent, where a greenlet gives up   *)
(* the processor only where it blocks; with Preemptive = TRUE the threads  *)
(* interleave anywhere, as plain threading.Thread does.                    *)
(*                                                                         *)
(* Stage k is Python's stages[k], k >= 0.  A stage that does not exist yet *)
(* has phase NONE.                                                         *)
(***************************************************************************)
EXTENDS Integers, Sequences

CONSTANTS
  W,            \* RandomnessBeacon.W, the number of stages one proof covers
  MaxStages,    \* bound: number of stages after which the scheduler rests
  MaxData,      \* bound: number of data items of a stage before clients rest
  Clients,      \* concurrent POST /api/contribute requests
  Readers,      \* concurrent GET /api/stage requests
  Values,       \* values a client contributes
  Dummy,        \* b"DUMMY VALUE", the first data item of every stage
  NoY,          \* b"", the output "before" stage 0
  Preemptive,   \* BOOLEAN: preemptive threads or cooperative greenlets
  Hash(_, _),   \* Parameters.hash(accval + y)
  Eval(_)       \* Parameters.avdf.eval

ASSUME BeaconAssumption ==
  /\ W \in Nat /\ W > 1
  /\ MaxStages \in Nat \ {0}
  /\ MaxData \in Nat \ {0}
  /\ Preemptive \in BOOLEAN

StageIds == 0 .. MaxStages - 1

\* class Phase(Enum), ordered by __lt__ and __ge__.
NONE == 0
CONTRIBUTION == 1
EVALUATION == 2
DONE == 3
Phase == {NONE, CONTRIBUTION, EVALUATION, DONE}

\* The attributes a Stage object gets after __init__.
Attributes == {"acc", "vdf_challenge", "vdf_y", "vdf_proof"}

VARIABLES
  n,          \* len(self.stages)
  phase,      \* stage.phase
  data,       \* stage.data
  prev,       \* stage.prev_stages, as the sequence of their indices
  attrs,      \* which attributes of the stage have been assigned
  acc,        \* stage.acc: the data its Merkle tree commits to
  challenge,  \* stage.vdf_challenge
  y,          \* stage.vdf_y
  proof,      \* stage.vdf_proof: the (challenge, y) pairs it proves
  sched,      \* program counter of the scheduler job, next_stage
  cur,        \* the stage it works on
  vdf,        \* vdf[k]: program counter of the vdf_run thread of stage k
  req,        \* req[c]: program counter of c's POST /api/contribute
  call,       \* call[c]: its local variables: the stage, x and data_idx
  receipt,    \* receipt[c]: the last answer c got
  get,        \* get[r]: program counter of r's GET /api/stage
  answer      \* answer[r]: the answer it builds, final when get[r] = "idle"

stageVars == <<n, phase, data, prev, attrs, acc, challenge, y, proof>>
reqVars == <<req, call, receipt>>
getVars == <<get, answer>>
threadVars == <<sched, cur, vdf, reqVars, getVars>>
vars == <<stageVars, threadVars>>

NoReceipt == [stage |-> -1, data_index |-> -1, x |-> Dummy]

Init ==
  /\ n = 1
  /\ phase = [k \in StageIds |-> IF k = 0 THEN CONTRIBUTION ELSE NONE]
  /\ data = [k \in StageIds |-> IF k = 0 THEN <<Dummy>> ELSE <<>>]
  /\ prev = [k \in StageIds |-> <<>>]
  /\ attrs = [k \in StageIds |-> {}]
  /\ acc = [k \in StageIds |-> <<>>]
  /\ challenge = [k \in StageIds |-> NoY]
  /\ y = [k \in StageIds |-> NoY]
  /\ proof = [k \in StageIds |-> <<>>]
  /\ sched = "idle"
  /\ cur = 0
  /\ vdf = [k \in StageIds |-> "none"]
  /\ req = [c \in Clients |-> "idle"]
  /\ call = [c \in Clients |-> [stage |-> 0, x |-> Dummy, idx |-> 0]]
  /\ receipt = [c \in Clients |-> NoReceipt]
  /\ get = [r \in Readers |-> "idle"]
  /\ answer = [r \in Readers |-> [stage |-> 0, phase |-> NONE, fields |-> {}, error |-> FALSE]]

-----------------------------------------------------------------------------
(* Scheduling.  A cooperative thread keeps the processor until it blocks:  *)
(* while it serves no request, in time.sleep(1), in Thread.start (which    *)
(* waits until the new thread runs) and before a new thread's first step.  *)

SchedYields == sched \in {"idle", "sleep", "append"}
VdfYields(k) == vdf[k] \in {"none", "eval", "exit", "died"}
ReqYields(c) == req[c] = "idle"
GetYields(r) == get[r] = "idle"

SchedMayRun ==
  Preemptive \/ /\ \A k \in StageIds : VdfYields(k)
                /\ \A c \in Clients : ReqYields(c)
                /\ \A r \in Readers : GetYields(r)
VdfMayRun(k) ==
  Preemptive \/ /\ SchedYields
                /\ \A j \in StageIds \ {k} : VdfYields(j)
                /\ \A c \in Clients : ReqYields(c)
                /\ \A r \in Readers : GetYields(r)
ReqMayRun(c) ==
  Preemptive \/ /\ SchedYields
                /\ \A k \in StageIds : VdfYields(k)
                /\ \A d \in Clients \ {c} : ReqYields(d)
                /\ \A r \in Readers : GetYields(r)
GetMayRun(r) ==
  Preemptive \/ /\ SchedYields
                /\ \A k \in StageIds : VdfYields(k)
                /\ \A c \in Clients : ReqYields(c)
                /\ \A s \in Readers \ {r} : GetYields(s)

-----------------------------------------------------------------------------
(* The scheduler job: RandomnessBeacon.next_stage.                         *)

\* The interval trigger fires.  APScheduler runs one instance of the job at a
\* time; next_stage fetches current_stage, the last of the list.
Tick ==
  /\ sched = "idle"
  /\ n < MaxStages
  /\ SchedMayRun
  /\ sched' = "stop"
  /\ cur' = n - 1
  /\ UNCHANGED <<stageVars, vdf, reqVars, getVars>>

\* stop_contribution checks the phase and closes the stage; a stage that is
\* closed already raises, and the scheduler drops the job until the next tick.
StopContribution ==
  /\ sched = "stop"
  /\ SchedMayRun
  /\ IF phase[cur] = CONTRIBUTION
     THEN /\ sched' = "accumulate"
          /\ phase' = [phase EXCEPT ![cur] = EVALUATION]
     ELSE /\ sched' = "idle"
          /\ UNCHANGED phase
  /\ UNCHANGED <<n, data, prev, attrs, acc, challenge, y, proof, cur, vdf, reqVars, getVars>>

\* self.acc = accumulate(self.data)
Accumulate ==
  /\ sched = "accumulate"
  /\ SchedMayRun
  /\ acc' = [acc EXCEPT ![cur] = data[cur]]
  /\ attrs' = [attrs EXCEPT ![cur] = @ \cup {"acc"}]
  /\ sched' = "prev"
  /\ UNCHANGED <<n, phase, data, prev, challenge, y, proof, cur, vdf, reqVars, getVars>>

\* self.prev_stages[-1]
LastPrev(k) == prev[k][Len(prev[k])]

PrevDone(k) == Len(prev[k]) > 0 => phase[LastPrev(k)] >= DONE

\* Mutant of TestPrev: the challenge is computed without waiting for prev.
TestPrevNoWait ==
  /\ sched = "prev"
  /\ SchedMayRun
  /\ sched' = "hash"
  /\ UNCHANGED <<stageVars, cur, vdf, reqVars, getVars>>

\* The loop test "while prev.phase < Phase.DONE": go on, or time.sleep(1).
TestPrev ==
  /\ sched = "prev"
  /\ SchedMayRun
  /\ sched' = IF PrevDone(cur) THEN "hash" ELSE "sleep"
  /\ UNCHANGED <<stageVars, cur, vdf, reqVars, getVars>>

\* time.sleep(1) returns and the loop test is repeated.
WakeUp ==
  /\ sched = "sleep"
  /\ SchedMayRun
  /\ sched' = "prev"
  /\ UNCHANGED <<stageVars, cur, vdf, reqVars, getVars>>

\* Mutant of PrevStageY: the oldest stage of the window instead of the last.
PrevStageYOldest(k) == IF Len(prev[k]) = 0 THEN NoY ELSE y[prev[k][1]]

\* The output the challenge is chained to: b"" for a stage without predecessor.
PrevStageY(k) == IF Len(prev[k]) = 0 THEN NoY ELSE y[LastPrev(k)]

\* self.vdf_challenge = hash(get_acc_val() + prev_stage_y)
HashChallenge ==
  /\ sched = "hash"
  /\ SchedMayRun
  /\ LET k == cur
     IN  /\ challenge' = [challenge EXCEPT ![k] = Hash(acc[k], PrevStageY(k))]
         /\ attrs' = [attrs EXCEPT ![k] = @ \cup {"vdf_challenge"}]
  /\ sched' = "start"
  /\ UNCHANGED <<n, phase, data, prev, acc, y, proof, cur, vdf, reqVars, getVars>>

\* self.vdf_thread.start()
StartVdf ==
  /\ sched = "start"
  /\ SchedMayRun
  /\ vdf' = [vdf EXCEPT ![cur] = "eval"]
  /\ sched' = "append"
  /\ UNCHANGED <<stageVars, cur, reqVars, getVars>>

\* Mutants of PrevStages: one stage too few; and a slice that does not stop at
\* the first stage.
PrevStagesShort == LET s == IF n >= W - 2 THEN n - W + 2 ELSE 0
                   IN  [i \in 1 .. n - s |-> s + i - 1]
PrevStagesUnclamped == LET s == n - W + 1
                       IN  [i \in 1 .. n - s |-> s + i - 1]

\* self.stages[-self.W + 1 :], a Python slice of the n stages.
PrevStages == LET s == IF n >= W - 1 THEN n - W + 1 ELSE 0
              IN  [i \in 1 .. n - s |-> s + i - 1]

\* self.stages.append(Stage(prev_stages))
AppendStage ==
  /\ sched = "append"
  /\ n < MaxStages            \* the bound, as in Tick
  /\ SchedMayRun
  /\ n' = n + 1
  /\ phase' = [phase EXCEPT ![n] = CONTRIBUTION]
  /\ data' = [data EXCEPT ![n] = <<Dummy>>]
  /\ prev' = [prev EXCEPT ![n] = PrevStages]
  /\ sched' = "idle"
  /\ UNCHANGED <<attrs, acc, challenge, y, proof, cur, vdf, reqVars, getVars>>

Scheduler == \/ Tick \/ StopContribution \/ Accumulate \/ TestPrev \/ WakeUp
             \/ HashChallenge \/ StartVdf \/ AppendStage

-----------------------------------------------------------------------------
(* The thread of a stage: Stage.vdf_run.                                   *)

\* Mutant of VdfEval: the stage is DONE as soon as its output is known, before
\* the proof is made.
VdfEvalDoneEarly(k) ==
  /\ vdf[k] = "eval"
  /\ VdfMayRun(k)
  /\ y' = [y EXCEPT ![k] = Eval(challenge[k])]
  /\ attrs' = [attrs EXCEPT ![k] = @ \cup {"vdf_y"}]
  /\ phase' = [phase EXCEPT ![k] = DONE]
  /\ vdf' = [vdf EXCEPT ![k] = "aggregate"]
  /\ UNCHANGED <<n, data, prev, acc, challenge, proof, sched, cur, reqVars, getVars>>

\* self.vdf_y = avdf.eval([self.vdf_challenge])[0]
VdfEval(k) ==
  /\ vdf[k] = "eval"
  /\ VdfMayRun(k)
  /\ y' = [y EXCEPT ![k] = Eval(challenge[k])]
  /\ attrs' = [attrs EXCEPT ![k] = @ \cup {"vdf_y"}]
  /\ vdf' = [vdf EXCEPT ![k] = "aggregate"]
  /\ UNCHANGED <<n, phase, data, prev, acc, challenge, proof, sched, cur, reqVars, getVars>>

\* The stages a proof of stage k aggregates: prev_stages and then k itself.
Aggregated(k) == Append(prev[k], k)

\* self.vdf_proof = avdf.aggregate(...).  Reading vdf_challenge or vdf_y of a
\* stage that has none is an AttributeError: the thread dies.
VdfAggregate(k) ==
  /\ vdf[k] = "aggregate"
  /\ VdfMayRun(k)
  /\ IF \A i \in 1 .. Len(prev[k]) : {"vdf_challenge", "vdf_y"} \subseteq attrs[prev[k][i]]
     THEN /\ proof' = [proof EXCEPT ![k] =
               [i \in 1 .. Len(prev[k]) + 1 |->
                  <<challenge[Aggregated(k)[i]], y[Aggregated(k)[i]]>>]]
          /\ attrs' = [attrs EXCEPT ![k] = @ \cup {"vdf_proof"}]
          /\ vdf' = [vdf EXCEPT ![k] = "finish"]
     ELSE /\ vdf' = [vdf EXCEPT ![k] = "died"]
          /\ UNCHANGED <<proof, attrs>>
  /\ UNCHANGED <<n, phase, data, prev, acc, challenge, y, sched, cur, reqVars, getVars>>

\* Mutant of VdfFinish: a thread whose stage is no longer the last one forgets
\* to set the phase.
VdfFinishOnlyLast(k) ==
  /\ vdf[k] = "finish"
  /\ VdfMayRun(k)
  /\ phase' = IF k = n - 1 THEN [phase EXCEPT ![k] = DONE] ELSE phase
  /\ vdf' = [vdf EXCEPT ![k] = "exit"]
  /\ UNCHANGED <<n, data, prev, attrs, acc, challenge, y, proof, sched, cur, reqVars, getVars>>

\* self.phase = Phase.DONE, the last statement of the thread.
VdfFinish(k) ==
  /\ vdf[k] = "finish"
  /\ VdfMayRun(k)
  /\ phase' = [phase EXCEPT ![k] = DONE]
  /\ vdf' = [vdf EXCEPT ![k] = "exit"]
  /\ UNCHANGED <<n, data, prev, attrs, acc, challenge, y, proof, sched, cur, reqVars, getVars>>

VdfThread(k) == VdfEval(k) \/ VdfAggregate(k) \/ VdfFinish(k)

-----------------------------------------------------------------------------
(* POST /api/contribute: RandomnessBeacon.contribute and Stage.contribute. *)

\* A request with value x arrives; the handler fetches current_stage.
Contribute(c, x) ==
  /\ req[c] = "idle"
  /\ Len(data[n - 1]) < MaxData
  /\ ReqMayRun(c)
  /\ req' = [req EXCEPT ![c] = "check"]
  /\ call' = [call EXCEPT ![c] = [stage |-> n - 1, x |-> x, idx |-> 0]]
  /\ UNCHANGED <<stageVars, sched, cur, vdf, receipt, getVars>>

\* Mutant of CheckPhase: contributions are taken in every phase.
CheckPhaseDropped(c) ==
  /\ req[c] = "check"
  /\ ReqMayRun(c)
  /\ req' = [req EXCEPT ![c] = "append"]
  /\ UNCHANGED <<stageVars, sched, cur, vdf, call, receipt, getVars>>

\* "not in contribution phase" raises and the request fails without receipt.
CheckPhase(c) ==
  /\ req[c] = "check"
  /\ ReqMayRun(c)
  /\ req' = [req EXCEPT ![c] = IF phase[call[c].stage] = CONTRIBUTION THEN "append" ELSE "idle"]
  /\ UNCHANGED <<stageVars, sched, cur, vdf, call, receipt, getVars>>

\* Mutant of AppendData: a contribution refreshes the accumulator it missed.
AppendDataReaccumulates(c) ==
  /\ req[c] = "append"
  /\ ReqMayRun(c)
  /\ data' = [data EXCEPT ![call[c].stage] = Append(@, call[c].x)]
  /\ acc' = IF "acc" \in attrs[call[c].stage] THEN [acc EXCEPT ![call[c].stage] = Append(@, call[c].x)] ELSE acc
  /\ req' = [req EXCEPT ![c] = "len"]
  /\ UNCHANGED <<n, phase, prev, attrs, challenge, y, proof, sched, cur, vdf, call, receipt, getVars>>

\* self.data.append(x)
AppendData(c) ==
  /\ req[c] = "append"
  /\ ReqMayRun(c)
  /\ data' = [data EXCEPT ![call[c].stage] = Append(@, call[c].x)]
  /\ req' = [req EXCEPT ![c] = "len"]
  /\ UNCHANGED <<n, phase, prev, attrs, acc, challenge, y, proof, sched, cur, vdf, call, receipt, getVars>>

\* return len(self.data) - 1
ReadIndex(c) ==
  /\ req[c] = "len"
  /\ ReqMayRun(c)
  /\ req' = [req EXCEPT ![c] = "reply"]
  /\ call' = [call EXCEPT ![c] =
       [stage |-> call[c].stage, x |-> call[c].x, idx |-> Len(data[call[c].stage]) - 1]]
  /\ UNCHANGED <<stageVars, sched, cur, vdf, receipt, getVars>>

\* stage_idx = self.current_stage_index, read again; sign and answer.
Reply(c) ==
  /\ req[c] = "reply"
  /\ ReqMayRun(c)
  /\ receipt' = [receipt EXCEPT ![c] = [stage |-> n - 1, data_index |-> call[c].idx, x |-> call[c].x]]
  /\ req' = [req EXCEPT ![c] = "idle"]
  /\ UNCHANGED <<stageVars, sched, cur, vdf, call, getVars>>

Contributor(c) == \/ \E x \in Values : Contribute(c, x)
                  \/ CheckPhase(c) \/ AppendData(c) \/ ReadIndex(c) \/ Reply(c)

-----------------------------------------------------------------------------
(* GET /api/stage: get_stage(idx) of server.py.                            *)

\* beacon.get_stage(idx); an index out of range is answered with phase NONE.
GetStage(r, k) ==
  /\ get[r] = "idle"
  /\ GetMayRun(r)
  /\ get' = [get EXCEPT ![r] = IF k < n THEN "phase" ELSE "idle"]
  /\ answer' = [answer EXCEPT ![r] = [stage |-> k, phase |-> NONE, fields |-> {}, error |-> FALSE]]
  /\ UNCHANGED <<stageVars, sched, cur, vdf, reqVars>>

\* ret = {..., "phase": stage.phase.name, ...}
GetPhase(r) ==
  /\ get[r] = "phase"
  /\ GetMayRun(r)
  /\ get' = [get EXCEPT ![r] = "accval"]
  /\ answer' = [answer EXCEPT ![r] =
       [stage |-> answer[r].stage, phase |-> phase[answer[r].stage], fields |-> {}, error |-> FALSE]]
  /\ UNCHANGED <<stageVars, sched, cur, vdf, reqVars>>

\* Answer the fields fs, which need the stage's attributes as, when the phase
\* is by now at least p, and go on at pc.  A missing attribute is an
\* AttributeError, which ends the request.
AnswerFields(r, p, as, fs, pc) ==
  LET k == answer[r].stage
      raises == phase[k] >= p /\ ~(as \subseteq attrs[k])
  IN  /\ get' = [get EXCEPT ![r] = IF raises THEN "idle" ELSE pc]
      /\ answer' = [answer EXCEPT ![r] =
           [stage |-> k, phase |-> answer[r].phase,
            fields |-> answer[r].fields \cup (IF phase[k] >= p /\ ~raises THEN fs ELSE {}),
            error |-> raises]]

GetAccval(r) ==
  /\ get[r] = "accval"
  /\ GetMayRun(r)
  /\ AnswerFields(r, EVALUATION, {"acc"}, {"accval"}, "vdfy")
  /\ UNCHANGED <<stageVars, sched, cur, vdf, reqVars>>

GetVdf(r) ==
  /\ get[r] = "vdfy"
  /\ GetMayRun(r)
  /\ AnswerFields(r, DONE, {"vdf_y", "vdf_proof"}, {"vdfy", "vdfproof"}, "idle")
  /\ UNCHANGED <<stageVars, sched, cur, vdf, reqVars>>

Reader(r) == \/ \E k \in StageIds : GetStage(r, k)
             \/ GetPhase(r) \/ GetAccval(r) \/ GetVdf(r)

-----------------------------------------------------------------------------
Next == \/ Scheduler
        \/ \E k \in StageIds : VdfThread(k)
        \/ \E c \in Clients : Contributor(c)
        \/ \E r \in Readers : Reader(r)

Spec == Init /\ [][Next]_vars

\* Both gevent's hub and the operating system eventually run a thread that is
\* ready again and again; the interval trigger keeps firing.  Requests that
\* were accepted are served, but no client has to send one.
Fairness ==
  /\ SF_vars(Scheduler)
  /\ \A k \in StageIds : SF_vars(VdfThread(k))
  /\ \A c \in Clients : SF_vars(CheckPhase(c) \/ AppendData(c) \/ ReadIndex(c) \/ Reply(c))
  /\ \A r \in Readers : SF_vars(GetPhase(r) \/ GetAccval(r) \/ GetVdf(r))

FairSpec == Spec /\ Fairness

-----------------------------------------------------------------------------
(* Properties.                                                             *)

SchedPcs == {"idle", "stop", "accumulate", "prev", "sleep", "hash", "start", "append"}
VdfPcs == {"none", "eval", "aggregate", "finish", "exit", "died"}
ReqPcs == {"idle", "check", "append", "len", "reply"}
GetPcs == {"idle", "phase", "accval", "vdfy"}
Fields == {"accval", "vdfy", "vdfproof"}
Data == Values \cup {Dummy}

\* Every variable of the server has its type.
TypeOK ==
  /\ n \in 1 .. MaxStages
  /\ phase \in [StageIds -> Phase]
  /\ data \in [StageIds -> Seq(Data)]
  /\ prev \in [StageIds -> Seq(StageIds)]
  /\ attrs \in [StageIds -> SUBSET Attributes]
  /\ acc \in [StageIds -> Seq(Data)]
  /\ DOMAIN challenge = StageIds /\ DOMAIN y = StageIds /\ DOMAIN proof = StageIds
  /\ sched \in SchedPcs
  /\ cur \in StageIds
  /\ vdf \in [StageIds -> VdfPcs]
  /\ req \in [Clients -> ReqPcs]
  /\ call \in [Clients -> [stage : StageIds, x : Data, idx : Nat \cup {-1}]]
  /\ receipt \in [Clients -> [stage : StageIds \cup {-1}, data_index : Nat \cup {-1}, x : Data]]
  /\ get \in [Readers -> GetPcs]
  /\ answer \in [Readers -> [stage : StageIds, phase : Phase, fields : SUBSET Fields, error : BOOLEAN]]

\* The stages are evaluated strictly one after another: once the challenge of
\* a stage is fixed, every earlier stage has published its output, so the
\* challenge could not be known before (the wait in stop_contribution).
EvaluatedInOrder ==
  \A k \in StageIds : "vdf_challenge" \in attrs[k] =>
     \A j \in StageIds : j < k => phase[j] = DONE

\* Each challenge commits to the stage's accumulated data and to the output of
\* the stage before it, and each output is the VDF of its challenge, whatever
\* the scheduler and the vdf_run threads do between the assignments.
ChallengesChained ==
  \A k \in StageIds :
     /\ "vdf_challenge" \in attrs[k] =>
           challenge[k] = Hash(acc[k], IF k = 0 THEN NoY ELSE y[k - 1])
     /\ "vdf_y" \in attrs[k] => y[k] = Eval(challenge[k])

\* The first stage the proof of stage k covers, as the client computes it.
WindowStart(k) == IF k >= W THEN k - W + 1 ELSE 0

\* A stage that is DONE has published a proof for exactly the stages
\* [max(k - W + 1, 0), k] and for their present challenges and outputs, which
\* is what get_verified_randomness relies on (slice in next_stage).
DoneStagesProveTheirWindow ==
  \A k \in StageIds : phase[k] = DONE =>
     /\ attrs[k] = Attributes
     /\ Len(proof[k]) = k - WindowStart(k) + 1
     /\ \A i \in 1 .. Len(proof[k]) :
           proof[k][i] = <<challenge[WindowStart(k) + i - 1], y[WindowStart(k) + i - 1]>>

\* No thread of the server ends in an exception: stop_contribution is never
\* called on a closed stage and vdf_run never reads an output that is missing
\* (a dead vdf_run would leave next_stage waiting forever).
NoThreadDies ==
  /\ \A k \in StageIds : vdf[k] # "died"
  /\ sched = "stop" => phase[cur] = CONTRIBUTION

\* An answer of GET /api/stage that says DONE has no missing field, although
\* the handler reads phase, acc, vdf_y and vdf_proof one after the other.
DoneAnswersComplete ==
  \A r \in Readers : (get[r] = "idle" /\ answer[r].phase = DONE) =>
     ~answer[r].error /\ answer[r].fields = Fields

\* GET /api/stage never fails: the phase is set to EVALUATION before acc is
\* assigned, which a handler running in between would meet.
NoAnswerFails == \A r \in Readers : ~answer[r].error

\* A receipt names the stage and the index where the contribution is, and once
\* the stage is accumulated the accumulator holds it there.
ReceiptHonoured ==
  \A c \in Clients : receipt[c] # NoReceipt =>
     LET k == receipt[c].stage
         i == receipt[c].data_index + 1
     IN  /\ i \in 1 .. Len(data[k]) /\ data[k][i] = receipt[c].x
         /\ "acc" \in attrs[k] => i \in 1 .. Len(acc[k]) /\ acc[k][i] = receipt[c].x

\* With greenlets, as run_server.sh starts the server, an answered contribution
\* is where its receipt says, and no GET /api/stage meets a stage that is half
\* closed.  (Preemptive threads break both.)
CooperativeAnswersHold == ~Preemptive => ReceiptHonoured /\ NoAnswerFails

-----------------------------------------------------------------------------
(* The inductive invariant behind the safety properties: where each thread *)
(* is determines the phase and the attributes of the stage it works on.    *)

\* Exactly the first n stages exist; the others are untouched.
StagesExist ==
  \A k \in StageIds :
     /\ k < n <=> phase[k] # NONE
     /\ k >= n => attrs[k] = {} /\ vdf[k] = "none"

\* prev_stages of stage k are the stages of its window before k, in order.
PrevIsWindow ==
  \A k \in StageIds : k < n =>
     /\ Len(prev[k]) = k - WindowStart(k)
     /\ \A i \in 1 .. Len(prev[k]) : prev[k][i] = WindowStart(k) + i - 1

\* The scheduler works on the last stage, which it alone has closed; all the
\* stages before it are closed and their vdf_run threads started.
SchedulerAtLast ==
  /\ sched # "idle" => cur = n - 1
  /\ \A k \in StageIds : k < n - 1 => vdf[k] # "none"
  /\ vdf[n - 1] # "none" <=> sched = "append"
  /\ sched \in {"idle", "stop"} => phase[n - 1] = CONTRIBUTION /\ attrs[n - 1] = {}
  /\ sched = "accumulate" => phase[n - 1] = EVALUATION /\ attrs[n - 1] = {}
  /\ sched \in {"prev", "sleep", "hash"} => phase[n - 1] = EVALUATION /\ attrs[n - 1] = {"acc"}
  /\ sched = "start" => phase[n - 1] = EVALUATION /\ attrs[n - 1] = {"acc", "vdf_challenge"}
  /\ sched \in {"hash", "start"} => \A j \in StageIds : j < n - 1 => phase[j] = DONE

\* A vdf_run thread works on a closed stage whose predecessors are DONE, and
\* has assigned the attributes its program counter says.
VdfThreads ==
  \A k \in StageIds :
     /\ vdf[k] # "died"
     /\ vdf[k] # "none" => \A j \in StageIds : j < k => phase[j] = DONE
     /\ vdf[k] = "eval" => phase[k] = EVALUATION /\ attrs[k] = {"acc", "vdf_challenge"}
     /\ vdf[k] = "aggregate" => phase[k] = EVALUATION /\ attrs[k] = {"acc", "vdf_challenge", "vdf_y"}
     /\ vdf[k] = "finish" => phase[k] = EVALUATION /\ attrs[k] = Attributes
     /\ vdf[k] = "exit" <=> phase[k] = DONE
     /\ vdf[k] = "exit" => attrs[k] = Attributes

\* A proof, once assigned, is the proof of the stage's window.
ProofsOfWindows ==
  \A k \in StageIds : "vdf_proof" \in attrs[k] =>
     /\ Len(proof[k]) = k - WindowStart(k) + 1
     /\ \A i \in 1 .. Len(proof[k]) :
           proof[k][i] = <<challenge[WindowStart(k) + i - 1], y[WindowStart(k) + i - 1]>>

\* What a GET /api/stage has answered so far: a stage that it has called DONE
\* is DONE, and every field it has passed is there.
AnswersBuilt ==
  \A r \in Readers :
     /\ get[r] = "phase" => answer[r].phase = NONE
     /\ answer[r].phase = DONE =>
          /\ phase[answer[r].stage] = DONE /\ ~answer[r].error
          /\ answer[r].fields = CASE get[r] = "accval" -> {} [] get[r] = "vdfy" -> {"accval"} [] OTHER -> Fields

\* A greenlet that serves a contribution keeps the processor until it answers.
CallsAtomic ==
  \A c \in Clients : req[c] # "idle" =>
     /\ SchedYields /\ \A k \in StageIds : VdfYields(k)
     /\ \A d \in Clients \ {c} : ReqYields(d)
     /\ \A r \in Readers : GetYields(r)

\* So the stage it has fetched stays the last one and open, and the datum it
\* has appended stays the last one.
CallsAtLast ==
  \A c \in Clients :
     LET k == call[c].stage
     IN  /\ req[c] # "idle" => k = n - 1
         /\ req[c] \in {"append", "len", "reply"} => phase[k] = CONTRIBUTION
         /\ req[c] \in {"len", "reply"} => Len(data[k]) > 0 /\ data[k][Len(data[k])] = call[c].x
         /\ req[c] = "reply" => call[c].idx = Len(data[k]) - 1

ReceiptsExist == \A c \in Clients : receipt[c] # NoReceipt => receipt[c].stage \in 0 .. n - 1

Cooperative == CallsAtomic /\ CallsAtLast /\ ReceiptsExist /\ ReceiptHonoured /\ NoAnswerFails

Control == StagesExist /\ SchedulerAtLast /\ VdfThreads
IInv == TypeOK /\ Control /\ PrevIsWindow /\ ChallengesChained /\ ProofsOfWindows

=============================================================================
