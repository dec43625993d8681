----------------------------- MODULE HeadStart ------------------------------
(***************************************************************************)
(* The beacon server and one client that contributes and then asks for the *)
(* randomness of a later stage.  The client's requests are answered from   *)
(* the server's state: a GET is a single step here, since module Beacon    *)
(* shows that an answer that says DONE is complete and final.              *)
(***************************************************************************)
EXTENDS Beacon

VARIABLES client, from, to, value, target, ranges, stages, range, result,
          index   \* contribution.data_index of the client's call

C == INSTANCE Client

clientVars == <<client, from, to, value, target, ranges, stages, range, result>>
systemVars == <<vars, clientVars, index>>

SystemInit == Init /\ C!Init /\ index = 0

\* A member of Clients that holds a receipt calls get_verified_randomness for
\* its stage or a later one that the server will complete within the bound.
CallClient ==
  \E c \in Clients, t \in 0 .. MaxStages - 2 :
    /\ receipt[c] # NoReceipt
    /\ t >= receipt[c].stage
    /\ C!Call(receipt[c].stage, t, receipt[c].x)
    /\ index' = receipt[c].data_index

\* Mutant of Poll: the client does not wait for the output.
PollEvaluation == phase[to] >= EVALUATION /\ C!PollDone

\* get_stage_until: the poll ends when the stage is DONE.
Poll == phase[to] >= DONE /\ C!PollDone

\* get_stage of server.py for one index: stage -1 has empty values, and the
\* output and its proof are only there when the stage is DONE.
NoStage == [stage |-> -1, accval |-> <<>>, vdfy |-> NoY, vdfproof |-> <<>>]
StageAnswer(k) ==
  IF k = -1 THEN NoStage
  ELSE [stage |-> k,
        accval |-> IF phase[k] >= EVALUATION THEN acc[k] ELSE <<>>,
        vdfy |-> IF phase[k] >= DONE THEN y[k] ELSE NoY,
        vdfproof |-> IF phase[k] >= DONE THEN proof[k] ELSE <<>>]

\* get_stages(start - 1, end)
HonestAnswer == [i \in 1 .. to - C!start + 2 |-> StageAnswer(C!start + i - 2)]
FetchStages == client = "fetch" /\ C!Fetch(HonestAnswer)

\* The membership proof is that of the index in the receipt.
FetchAccproof == C!CheckAccproof(index + 1)

ClientStep == (Poll \/ C!SplitRange \/ FetchStages \/ FetchAccproof \/ C!VerifyRange \/ C!Return)
              /\ UNCHANGED <<vars, index>>

SystemNext == \/ Next /\ UNCHANGED <<clientVars, index>>
              \/ CallClient /\ UNCHANGED vars
              \/ ClientStep

\* The client keeps polling and computing.
SystemSpec == SystemInit /\ [][SystemNext]_systemVars /\ Fairness /\ WF_systemVars(ClientStep)

-----------------------------------------------------------------------------
\* The client never rejects what the beacon answers: the ranges it computes
\* are the windows the server's proofs cover, and the receipt's position is in
\* the accumulator.  And what it returns is the output that the server has
\* published for the stage it was asked for.
HonestServed ==
  /\ client # "raised"
  /\ client = "returned" => phase[to] = DONE /\ result = y[to]

\* A client that contributed and asks for a later stage gets its randomness.
RandomnessDelivered == (client = "poll") ~> (client = "returned")

=============================================================================
