---------------------------- MODULE BeaconChain -----------------------------
(***************************************************************************)
(* The beacon server of module Beacon implements the chain of module       *)
(* RandomChain: a stage is committed when its data is accumulated, and its *)
(* output is published when its phase is DONE.                             *)
(***************************************************************************)
EXTENDS Beacon

Accumulated == {k \in StageIds : "acc" \in attrs[k]}
Published == {k \in StageIds : phase[k] >= DONE}

Commitments == [k \in Accumulated |-> acc[k]]
Outputs == [k \in Published |-> y[k]]

Chain == INSTANCE RandomChain WITH First <- NoY, committed <- Commitments, outputs <- Outputs

\* Every step of the scheduler, of the vdf_run threads and of the handlers is
\* a step of the chain or leaves it alone: however they interleave, stages are
\* published in order, each chained to the one before, none is changed later,
\* and a contribution that is too late changes nothing.
ImplementsChain == Chain!Spec

=============================================================================
