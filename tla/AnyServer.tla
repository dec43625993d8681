----------------------------- MODULE AnyServer ------------------------------
(* The client of module Client against a server that may answer anything: a  *)
(* list of any length, with any labels, accumulator values, outputs and      *)
(* proofs, and any membership proof.                                         *)
EXTENDS Client

CONSTANTS
  Calls,          \* the calls <<contribution.stage, stage_idx, value>>
  AnswersTo(_),   \* AnswersTo(asked): the lists that may answer a request for these stages
  Positions       \* the membership proofs

ASSUME CallsAssumption == \A c \in Calls : c[1] \in Nat /\ c[2] \in Nat

Next == \/ \E c \in Calls : Call(c[1], c[2], c[3])
        \/ PollDone
        \/ SplitRange
        \/ client = "fetch" /\ \E list \in AnswersTo(Asked) : Len(list) \in Nat /\ Fetch(list)
        \/ \E i \in Positions : CheckAccproof(i)
        \/ VerifyRange
        \/ Return

Spec == Init /\ [][Next]_clientVars

=============================================================================
