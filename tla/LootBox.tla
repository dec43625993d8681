------------------------------- MODULE LootBox -------------------------------
(***************************************************************************)
(* The loot-box protocol's two programs: the verification of probabilities *)
(* (ProbabilityVerification.py), whose server evaluates a committed        *)
(* function at inputs drawn by a beacon and whose client checks that, and  *)
(* the opening of boxes (LootBoxOpening.py), whose randomness is a chain   *)
(* of hashes.  Both read the commitment from one bulletin board.           *)
(*                                                                         *)
(* The beacon is the chain that module Beacon implements; what a stage     *)
(* commits to is here who contributed.  Functions are named; a proof is    *)
(* the function and the place it was made for.  Elements of the chain of   *)
(* hashes are numbered, the hash of one is the next.                       *)
(***************************************************************************)
EXTENDS Integers, Sequences, FiniteSets

CONSTANTS
  FirstOutput, ChainHash(_, _), ChainEval(_),   \* the beacon's
  Lag,           \* stages from a contribution to the randomness: 5
  Samples,       \* sampleSize
  ChainLength,   \* hashes in the chain: 100
  MaxStages,     \* bound: stages the beacon commits
  MaxStarts      \* bound: starts of the program that verifies

VARIABLES
  committed, outputs,   \* the beacon
  joined,               \* who contributed to the beacon's current stage
  type, pc,             \* the kind of verification, and where it is
  stageOf,              \* contribution.stage of the server and of the client
  known,                \* the outputs published when the function was committed
  report,               \* what verifyProbability returned
  board,                \* the files of the bulletin board
  starts,
  playing,              \* the program that opens boxes runs
  served, held,         \* current of its server and of its client
  requests, accepted       \* the requests, and the elements of those that succeeded

chainVars == <<committed, outputs, joined>>
sampleVars == <<type, pc, stageOf, known, report, starts>>
openingVars == <<playing, served, held, requests, accepted>>
lootBoxVars == <<chainVars, sampleVars, board, openingVars>>

Chain == INSTANCE RandomChain WITH First <- FirstOutput, Hash <- ChainHash, Eval <- ChainEval

\* polyc: a fixed polynomial; fc: a program in Rust; plot: random polynomials,
\* and a stand-in for the beacon.
Types == {"polyc", "fc", "plot"}
FunctionOf == [polyc |-> "common", fc |-> "paths", plot |-> "random"]

\* The repository's board is one of fc.
LootBoxInit ==
  /\ committed = <<>> /\ outputs = <<>> /\ Chain!Init /\ joined = {}
  /\ type = "polyc" /\ pc = "off" /\ stageOf = [p \in {"server", "client"} |-> 0]
  /\ known = {} /\ report = "none" /\ starts = 0
  /\ board = [c |-> "paths", evals |-> <<>>]
  /\ playing = FALSE /\ served = 0 /\ held = 0 /\ requests = 0 /\ accepted = <<>>

-----------------------------------------------------------------------------
(* The beacon.                                                             *)

Current == Cardinality(DOMAIN committed)

BeaconCommits ==
  /\ Current < MaxStages
  /\ committed' = [k \in 0 .. Current |-> IF k = Current THEN joined ELSE committed[k]]
  /\ Chain!Commit(Current)
  /\ joined' = {}
  /\ UNCHANGED <<sampleVars, board, openingVars>>

BeaconPublishes ==
  LET k == Cardinality(DOMAIN outputs)
  IN  /\ k \in DOMAIN committed
      /\ outputs' = [j \in 0 .. k |-> IF j = k THEN ChainEval(ChainHash(committed[k], Chain!Before(k))) ELSE outputs[j]]
      /\ Chain!Publish(k)
      /\ UNCHANGED <<joined, sampleVars, board, openingVars>>

-----------------------------------------------------------------------------
(* The verification of probabilities.                                      *)

Start ==
  /\ pc = "off" /\ starts < MaxStarts
  /\ type' \in Types /\ pc' = "import" /\ starts' = starts + 1 /\ report' = "none"
  /\ UNCHANGED <<chainVars, stageOf, known, board, openingVars>>

\* contribute raises while the beacon closes a stage.
Contributed(party, parties, next) ==
  \/ /\ joined' = joined \cup {party}
     /\ stageOf' = [p \in DOMAIN stageOf |-> IF p \in parties THEN Current ELSE stageOf[p]]
     /\ pc' = next
  \/ pc' = "off" /\ UNCHANGED <<joined, stageOf>>

\* The client's contribution is made when the module is loaded.
Import ==
  /\ pc = "import"
  /\ Contributed("client", {"client"}, "setup")
  /\ UNCHANGED <<committed, outputs, type, known, report, starts, board, openingVars>>

WriteCommitment ==
  /\ pc = "setup"
  /\ board' = [board EXCEPT !.c = FunctionOf[type]]
  /\ known' = DOMAIN outputs
  /\ pc' = "contribute"
  /\ UNCHANGED <<chainVars, type, stageOf, report, starts, openingVars>>

\* For fc the server's contribution is the client's as well.
ServerContributes ==
  /\ pc = "contribute"
  /\ IF type = "plot" THEN pc' = "eval" /\ UNCHANGED <<joined, stageOf>>
     ELSE Contributed("server", IF type = "fc" THEN {"server", "client"} ELSE {"server"}, "eval")
  /\ UNCHANGED <<committed, outputs, type, known, report, starts, board, openingVars>>

Ready(party) == type = "plot" \/ stageOf[party] + Lag \in DOMAIN outputs
Seed(party) == IF type = "plot" THEN FirstOutput ELSE outputs[stageOf[party] + Lag]

MapToTestData(seed) == [i \in 1 .. Samples |-> [seed |-> seed, i |-> i]]
EvalAndProof(f, x) == [y |-> [of |-> f, at |-> x], W |-> [of |-> f, at |-> x]]

\* Mutant of VerifyEvalProof: a proof for another place will do.
VerifyEvalProofAnywhere(c, x, y, W) == W.of = c /\ y = W

\* See CommitmentOpens in module Algorithms.
VerifyEvalProof(c, x, y, W) == W.of = c /\ W.at = x /\ y = W

Evaluate ==
  /\ pc = "eval" /\ Ready("server")
  /\ board' = [board EXCEPT !.evals = LET data == MapToTestData(Seed("server"))
                                      IN  [i \in DOMAIN data |-> EvalAndProof(FunctionOf[type], data[i])]]
  /\ pc' = "verify"
  /\ UNCHANGED <<chainVars, type, stageOf, known, report, starts, openingVars>>

\* plot goes on with another function.
VerifyProbability ==
  /\ pc = "verify" /\ Ready("client")
  /\ LET data == MapToTestData(Seed("client"))
         evals == board.evals
         verified == /\ Len(data) = Len(evals)
                     /\ \A i \in DOMAIN data : VerifyEvalProof(board.c, data[i], evals[i].y, evals[i].W)
     IN  report' = IF verified THEN "verified" ELSE "failed"
  /\ \/ pc' = "off"
     \/ type = "plot" /\ pc' = "setup"
  /\ UNCHANGED <<chainVars, type, stageOf, known, starts, board, openingVars>>

-----------------------------------------------------------------------------
(* The opening of boxes.                                                   *)

SetupOpening ==
  /\ ~playing
  /\ playing' = TRUE /\ served' = ChainLength /\ held' = ChainLength /\ requests' = 0 /\ accepted' = <<>>
  /\ UNCHANGED <<chainVars, sampleVars, board>>

Element == served - 1

\* The client unpacks a missing answer, or takes what is no point for one.
Raises == Element = 0 \/ (Element + 1 = held /\ board.c = "paths")

Succeeds ==
  LET e == EvalAndProof("common", Element)
  IN  Element + 1 = held /\ VerifyEvalProof(board.c, Element, e.y, e.W)

\* Mutant of Held: the client goes on along the chain whatever the proof.
HeldWhateverProof == IF Element + 1 = held THEN Element ELSE held

\* The client goes on along the chain only when everything was right.
Held == IF Succeeds THEN Element ELSE held

RequestOpening ==
  /\ playing
  /\ served' = Element /\ requests' = requests + 1
  /\ IF Raises THEN playing' = FALSE /\ UNCHANGED <<held, accepted>>
     ELSE /\ held' = Held
          /\ accepted' = IF Succeeds THEN Append(accepted, [element |-> Element, request |-> requests']) ELSE accepted
          /\ UNCHANGED playing
  /\ UNCHANGED <<chainVars, sampleVars, board>>

-----------------------------------------------------------------------------
LootBoxNext ==
  \/ BeaconCommits \/ BeaconPublishes
  \/ Start \/ Import \/ WriteCommitment \/ ServerContributes \/ Evaluate \/ VerifyProbability
  \/ SetupOpening \/ RequestOpening

LootBoxSpec == LootBoxInit /\ [][LootBoxNext]_lootBoxVars

\* The server's sample verifies exactly when the client contributed to the
\* same stage as the server, which is not so for polyc when the beacon goes on
\* between the two; and what verifies was drawn by an output that nobody knew
\* when the function was committed and that both contributed to.
SampleFair ==
  /\ report = "verified" /\ type # "plot" =>
       /\ stageOf["client"] = stageOf["server"] /\ stageOf["server"] + Lag \notin known
       /\ (IF type = "fc" THEN {"server"} ELSE {"server", "client"}) \subseteq committed[stageOf["server"]]
  /\ report = "failed" => type = "polyc" /\ stageOf["client"] < stageOf["server"]

\* Server and client go along the chain together: what is opened is the k-th
\* element from the end by the k-th request.  A request that fails, as any
\* does while the board holds another function's commitment, leaves the client
\* behind, and no later one can succeed.
OpeningsInStep ==
  \A k \in DOMAIN accepted : accepted[k] = [element |-> ChainLength - k, request |-> k]

=============================================================================
