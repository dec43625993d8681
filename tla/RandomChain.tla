---------------------------- MODULE RandomChain -----------------------------
(***************************************************************************)
(* What a randomness beacon promises, whatever threads and locks it is     *)
(* made of: a chain of outputs.  The data of a stage is committed once and *)
(* stages commit in order; an output is published once, in order, and is   *)
(* the delay function of the stage's commitment and of the output before   *)
(* it.  At most two stages are committed and not published: the one under  *)
(* evaluation and the one that waits for it.                               *)
(***************************************************************************)
EXTENDS Integers

CONSTANTS
  First,        \* the output "before" the first stage
  Hash(_, _),   \* the challenge of a commitment and the output before it
  Eval(_)       \* the delay function

VARIABLES
  committed,    \* committed[k]: what stage k commits to, for k in 0 .. m - 1
  outputs       \* outputs[k]: the output of stage k, for k in 0 .. n - 1

chainVars == <<committed, outputs>>

Init == /\ DOMAIN committed = {}
        /\ DOMAIN outputs = {}

\* The stage that is next in a chain f.
NextOf(f, k) == k \in Nat /\ DOMAIN f = 0 .. k - 1

\* g is f with a link added for k.
Extends(g, f, k) == /\ NextOf(f, k) /\ NextOf(g, k + 1)
                    /\ \A j \in 0 .. k - 1 : g[j] = f[j]

Commit(k) ==
  /\ Extends(committed', committed, k)
  /\ k < 2 \/ k - 2 \in DOMAIN outputs
  /\ UNCHANGED outputs

Before(k) == IF k = 0 THEN First ELSE outputs[k - 1]

Publish(k) ==
  /\ k \in DOMAIN committed
  /\ Extends(outputs', outputs, k)
  /\ outputs'[k] = Eval(Hash(committed[k], Before(k)))
  /\ UNCHANGED committed

Next == \/ \E k \in DOMAIN committed' : Commit(k)
        \/ \E k \in DOMAIN outputs' : Publish(k)

Spec == Init /\ [][Next]_chainVars

=============================================================================
