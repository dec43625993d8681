------------------------------ MODULE VdfClient -----------------------------
(***************************************************************************)
(* main of vdf_client.cpp for the two simple kinds of proof: the letter    *)
(* the client sends, "S" or "T", selects the session.  ("N" is the subject *)
(* of module ProverManager.)                                               *)
(***************************************************************************)
EXTENDS OneWeso, TwoWeso

vars == <<squaringVars, mainVars, oneVars, twoVars>>

Init == InitSquaring /\ OneInit /\ TwoInit

ReadProverType ==
  /\ session = "type"
  /\ \/ session' = "readOne" /\ UNCHANGED two_weso
     \/ session' = "startTwo" /\ two_weso' = TRUE
  /\ UNCHANGED <<squaringVars, stopped, oneVars, twoVars>>

\* The process has ended, or its loops go on for ever: VDF steps beyond the
\* bound, and the wait for a prover that gave up.
Idle ==
  /\ session = "done" \/ prover = "abandoned"
  /\ UNCHANGED vars

Next ==
  \/ ReadProverType
  \/ OneNext /\ UNCHANGED twoVars
  \/ TwoNext /\ UNCHANGED oneVars
  \/ Idle

Spec == Init /\ [][Next]_vars

Squarer == (OneVdf /\ UNCHANGED twoVars) \/ (TwoVdf /\ UNCHANGED oneVars)
Threads ==
  \/ (OneMain \/ Prover) /\ UNCHANGED twoVars
  \/ TwoMain /\ UNCHANGED oneVars
  \/ \E n \in Asked : (Request(n) \/ \E d \in 0 .. 1 : FinishOf(n, d)) /\ UNCHANGED oneVars

TypeOK == SquaringOK /\ OneWesoOK /\ TwoWesoOK

\* Every prover of either session reads the forms of the iterations it stands
\* for, although the VDF thread goes on squaring and storing.
ProversReadRightForms == ProverInputsReady /\ ProverFormsRight

\* No thread can take a step: each waits for the client, for another thread or
\* has ended.  The squarer counts up to a bound and every other thread takes
\* finitely many steps, so every session comes to such a state.
AllWait == ~(ENABLED Squarer \/ ENABLED Threads)

\* No wait is for nothing.  When all threads wait, what the client asked for is
\* proved and sent unless it stopped or, in "T", a smaller iteration took its
\* place or it is beyond what the VDF thread computes; and a stop has ended the
\* session, unless it met the prover of session "S" at work.
WaitsAnswered ==
  \/ /\ session = "readOneStop" => written
     /\ session = "readTwo" => {n \in seen : n < Limit} \subseteq sent
     /\ stopped => session = "done" \/ prover = "abandoned"
  \/ ~AllWait

=============================================================================
