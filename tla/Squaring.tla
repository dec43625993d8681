------------------------------ MODULE Squaring ------------------------------
(***************************************************************************)
(* The VDF thread that every session of vdf_client.cpp starts:             *)
(* repeated_square in vdf.h.  It squares in batches and publishes how far  *)
(* it is in weso->iterations, which the provers' threads poll.  What the   *)
(* listener stores of a batch (OnIteration) is added by the sessions that  *)
(* extend this module, OneWeso and TwoWeso.                                *)
(***************************************************************************)
EXTENDS Integers

CONSTANTS
  BatchSize,   \* checkpoint_interval
  Interval,    \* the 2^15 iterations between two checkpoints
  MaxCounted   \* bound: the iterations that are counted

ASSUME SquaringAssumption ==
  /\ BatchSize \in Nat \ {0} /\ Interval \in Nat \ {0} /\ MaxCounted \in Nat

VARIABLES
  session,          \* program counter of the main thread
  stopped,          \* the session's stop flag
  two_weso,         \* the flag of the session "T"
  vdf,              \* program counter of repeated_square
  num_iterations,   \* its num_iterations
  last_checkpoint,  \* its last_checkpoint
  iterations        \* weso->iterations

mainVars == <<session, stopped, two_weso>>
squaringVars == <<vdf, num_iterations, last_checkpoint, iterations>>

InitSquaring ==
  /\ session = "type" /\ stopped = FALSE /\ two_weso = FALSE
  /\ vdf = "none" /\ num_iterations = 0 /\ last_checkpoint = 0 /\ iterations = 0

\* std::thread vdf_worker(repeated_square, ...)
StartVdf ==
  /\ vdf = "none"
  /\ vdf' = "batch"
  /\ UNCHANGED <<num_iterations, last_checkpoint, iterations>>

\* A batch of n squarings: the fast algorithm may end early and one slow
\* squaring follows, or it fails and the whole batch is done slowly.
Batch(n) ==
  /\ vdf = "batch" /\ ~stopped
  /\ num_iterations + n <= MaxCounted
  /\ num_iterations' = num_iterations + n
  /\ vdf' = "publish"
  /\ UNCHANGED <<last_checkpoint, iterations>>

\* weso->iterations is only set when the next checkpoint is reached; for
\* 2-weso more is done there.
\* Mutant of Reached: a batch that steps over the checkpoint is not noticed.
ReachedExactly == num_iterations = last_checkpoint
Reached == num_iterations >= last_checkpoint

Publish ==
  /\ vdf = "publish"
  /\ iterations' = IF Reached THEN num_iterations ELSE iterations
  /\ last_checkpoint' = IF Reached THEN last_checkpoint + Interval ELSE last_checkpoint
  /\ vdf' = IF Reached /\ two_weso THEN "switch" ELSE "batch"
  /\ UNCHANGED num_iterations

\* while (!stopped)
LeaveLoop ==
  /\ vdf = "batch" /\ stopped
  /\ vdf' = "exit"
  /\ UNCHANGED <<num_iterations, last_checkpoint, iterations>>

InBatch(n) == num_iterations + 1 .. num_iterations + n

SquaringOK ==
  /\ vdf \in {"none", "batch", "publish", "switch", "index", "limit", "exit"}
  /\ num_iterations \in 0 .. MaxCounted /\ iterations \in 0 .. num_iterations
  /\ last_checkpoint \in Nat /\ stopped \in BOOLEAN /\ two_weso \in BOOLEAN

=============================================================================
