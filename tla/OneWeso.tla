------------------------------- MODULE OneWeso ------------------------------
(***************************************************************************)
(* The session "S" of vdf_client.cpp: one proof for one iteration.  The    *)
(* VDF thread stores every KL(w)-th form and the result, the prover's      *)
(* thread (ProveOneWesolowski) waits for the result and computes the       *)
(* proof, and the main thread reads the client's iteration and then its    *)
(* stop signal.                                                            *)
(***************************************************************************)
EXTENDS Squaring

CONSTANTS
  Wanted,     \* the iterations the client may ask for
  Short,      \* the 2^16 iterations below which k = 10 and l = 1
  K, L,       \* the k and l ApproximateParameters returns beyond that
  ShortK      \* the 10

ASSUME OneWesoAssumption ==
  /\ Wanted \subseteq Nat \ {0} /\ Short \in Nat
  /\ K \in Nat \ {0} /\ L \in Nat \ {0} /\ ShortK \in Nat \ {0}

VARIABLES
  wanted_iter,  \* weso->wanted_iter
  forms,        \* weso->forms: the iteration whose form each entry holds
  result,       \* the iteration whose form weso->result holds
  prover,       \* program counter of the prover's thread
  written       \* whether WriteProof was called

callbackVars == <<wanted_iter, forms, result>>
proverVars == <<prover, written>>
oneVars == <<callbackVars, proverVars>>

Params(w) == IF w >= Short THEN [k |-> K, l |-> L] ELSE [k |-> ShortK, l |-> 1]
KL(w) == Params(w).k * Params(w).l

\* The entries of forms: wanted_iter / kl + 100 are allocated, and no more
\* than wanted_iter / kl + 1 are ever written.
Entries == 0 .. MaxCounted
Nothing == -1

OneInit ==
  /\ wanted_iter = 0
  /\ forms = [e \in Entries |-> Nothing] /\ result = Nothing
  /\ prover = "none" /\ written = FALSE

-----------------------------------------------------------------------------
(* The session.                                                            *)

\* The first iteration the client sends; 0 ends the session at once.
ReadWanted ==
  /\ session = "readOne"
  /\ \/ /\ session' = "done"
        /\ UNCHANGED <<squaringVars, wanted_iter, forms, prover>>
     \/ \E w \in Wanted :
          /\ wanted_iter' = w
          /\ forms' = [forms EXCEPT ![0] = 0]
          /\ StartVdf
          /\ prover' = "poll"
          /\ session' = "readOneStop"
  /\ UNCHANGED <<stopped, two_weso, result, written>>

\* Anything but 0 is answered by a warning only.
ReadOneStop ==
  /\ session = "readOneStop"
  /\ stopped' = TRUE
  /\ session' = "joinOneVdf"
  /\ UNCHANGED <<squaringVars, two_weso, oneVars>>

JoinOneVdf ==
  /\ session = "joinOneVdf" /\ vdf = "exit"
  /\ session' = "joinProver"
  /\ UNCHANGED <<squaringVars, stopped, two_weso, oneVars>>

\* th_prover.join(); then STOP is sent.
JoinProver ==
  /\ session = "joinProver" /\ prover = "exit"
  /\ session' = "done"
  /\ UNCHANGED <<squaringVars, stopped, two_weso, oneVars>>

-----------------------------------------------------------------------------
(* OneWesolowskiCallback::OnIteration for a batch of n iterations.         *)

Stores(n) == {i \in InBatch(n) : i % KL(wanted_iter) = 0 /\ i <= wanted_iter}

SquareOne(n) ==
  /\ Batch(n)
  /\ forms' = [e \in Entries |->
                 IF \E i \in Stores(n) : i \div KL(wanted_iter) = e
                 THEN CHOOSE i \in Stores(n) : i \div KL(wanted_iter) = e
                 ELSE forms[e]]
  /\ result' = IF wanted_iter \in InBatch(n) THEN wanted_iter ELSE result
  /\ UNCHANGED <<mainVars, wanted_iter, proverVars>>

PublishOne == Publish /\ UNCHANGED <<mainVars, oneVars>>

EndOneVdf == LeaveLoop /\ UNCHANGED <<mainVars, oneVars>>

-----------------------------------------------------------------------------
(* The prover's thread: ProveOneWesolowski and CreateAndWriteProofOneWeso. *)

OnlyProver == UNCHANGED <<squaringVars, mainVars, callbackVars>>

\* The entries of forms that GenerateProof reads.
FormsRead(w) == {i \in 0 .. w \div KL(w) :
                   \E j \in 0 .. Params(w).l - 1 : w >= Params(w).k * (i * Params(w).l + j + 1)}

\* while (!stopped && weso->iterations < iters)
PollIterations ==
  /\ prover = "poll"
  /\ stopped \/ iterations >= wanted_iter
  /\ prover' = "test"
  /\ OnlyProver /\ UNCHANGED written

\* if (stopped) return Proof(); the caller sees the signal too and returns.
TestStopped ==
  /\ prover = "test"
  /\ prover' = IF stopped THEN "exit" ELSE "prove"
  /\ OnlyProver /\ UNCHANGED written

\* GenerateProof reaches OnFinish.
Finish ==
  /\ prover = "prove"
  /\ prover' = "finished"
  /\ OnlyProver /\ UNCHANGED written

\* PerformExtraStep returns false: GenerateProof returns without OnFinish.
Abandon ==
  /\ prover = "prove" /\ stopped
  /\ prover' = "abandoned"
  /\ OnlyProver /\ UNCHANGED written

\* while (!prover.IsFinished()), which does not look at stopped.
LeaveWait ==
  /\ prover = "finished"
  /\ prover' = "check"
  /\ OnlyProver /\ UNCHANGED written

\* The proof is only sent when no stop signal has come meanwhile.
CheckStopped ==
  /\ prover = "check"
  /\ prover' = IF stopped THEN "exit" ELSE "write"
  /\ OnlyProver /\ UNCHANGED written

WriteProof ==
  /\ prover = "write"
  /\ prover' = "exit" /\ written' = TRUE
  /\ OnlyProver

Prover == PollIterations \/ TestStopped \/ Finish \/ Abandon \/ LeaveWait \/ CheckStopped \/ WriteProof

OneVdf == ~two_weso /\ ((\E n \in 1 .. BatchSize : SquareOne(n)) \/ PublishOne \/ EndOneVdf)

OneMain == JoinOneVdf \/ JoinProver

OneNext == ReadWanted \/ OneMain \/ ReadOneStop \/ OneVdf \/ Prover

-----------------------------------------------------------------------------
OneWesoOK ==
  /\ wanted_iter \in Wanted \cup {0}
  /\ forms \in [Entries -> 0 .. MaxCounted \cup {Nothing}]
  /\ result \in Wanted \cup {Nothing}
  /\ prover \in {"none", "poll", "test", "prove", "finished", "abandoned", "check", "write", "exit"}
  /\ written \in BOOLEAN

\* From the moment the prover starts, the result is there and every entry of
\* forms it reads holds the form of the iteration it stands for, although the
\* VDF thread goes on squaring.
ProverInputsReady ==
  prover \in {"prove", "finished", "check", "write"} =>
    /\ result = wanted_iter
    /\ \A i \in FormsRead(wanted_iter) : forms[i] = i * KL(wanted_iter)

=============================================================================
