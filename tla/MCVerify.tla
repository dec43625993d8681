------------------------------ MODULE MCVerify ------------------------------
(* What is verified, each part in behaviours of its own: the client against  *)
(* a server that answers anything, the Merkle accumulators, the pure         *)
(* algorithms on one input at a time, and the loot-box protocol.             *)
(*                                                                           *)
(* The server's accumulators hold one datum; the VDF of a hash is a sum      *)
(* modulo 3, so that wrong outputs, wrong accumulators and outputs that      *)
(* happen to agree all occur.  The middle item of the Merkle trees can be    *)
(* missing from the data, and then lies between two of them.  The loot-box   *)
(* protocol's beacon has outputs that tell all chains apart.                 *)
EXTENDS AnyServer, Merkle, Algorithms, LootBox

CONSTANT LastStage    \* bound: the largest stage index asked for

VARIABLE part         \* which of the four runs

MCHash(a, p) == <<a[1], p>>
MCEval(c) == (c[1] + c[2]) % 3

MCCalls == (0 .. LastStage) \X (0 .. LastStage) \X {1}
MCPositions == {1, 2}
MCItems == 1 .. 3

\* The list asked for, in its order, with anything in its elements; a stage's
\* proof is the one for its window or no proof at all.
WithContents(asked) ==
  LET claims == [asked -> [accval : {<<1>>, <<2>>}, vdfy : 0 .. 2, proven : BOOLEAN]]
      first == CHOOSE k \in asked : \A j \in asked : k <= j
      pairs(c, a, b) == [i \in 1 .. b - a + 1 |->
                           <<Hash(c[a + i - 1].accval, c[a + i - 2].vdfy), c[a + i - 1].vdfy>>]
      proof(c, k) == IF k >= 0 /\ c[k].proven /\ RangeStart(k) - 1 \in asked
                     THEN pairs(c, RangeStart(k), k) ELSE <<>>
      element(c, k) == [stage |-> k, accval |-> c[k].accval, vdfy |-> c[k].vdfy, vdfproof |-> proof(c, k)]
  IN  {[i \in 1 .. Cardinality(asked) |-> element(c, first + i - 1)] : c \in claims}

\* Too short, as long as asked for or too long, with any labels: a chain of
\* outputs and proofs that verify, the contribution in some of its accumulators.
WithLabels(asked) ==
  LET first == CHOOSE k \in asked : \A j \in asked : k <= j
      out(accs) == LET y[i \in 0 .. Len(accs)] == IF i <= 1 THEN 0 ELSE Eval(Hash(accs[i], y[i - 1])) IN y
      pairs(accs, a, b) == [i \in 1 .. b - a + 1 |->
                              <<Hash(accs[a + i - 1], out(accs)[a + i - 2]), out(accs)[a + i - 1]>>]
      window(accs, i) == pairs(accs, RangeStart(first + i - 1) - first + 1, i)
      element(accs, labels, i) ==
        [stage |-> labels[i], accval |-> accs[i], vdfy |-> out(accs)[i],
         vdfproof |-> IF RangeStart(first + i - 1) > first THEN window(accs, i) ELSE <<>>]
      lists(length) == {[i \in 1 .. length |-> element(s[1], s[2], i)] :
                          s \in [1 .. length -> {<<1>>, <<2>>}] \X [1 .. length -> 0 .. LastStage]}
  IN  UNION {lists(length) : length \in 0 .. Cardinality(asked) + 1}

MCAnswersTo(asked) == WithContents(asked) \cup WithLabels(asked)

MCChainHash(c, p) == 4 * p + (IF "server" \in c THEN 2 ELSE 0) + (IF "client" \in c THEN 1 ELSE 0)
MCChainEval(h) == h + 1

VerifyInit ==
  Init /\ MerkleInit /\ AlgorithmsInit /\ LootBoxInit /\ part \in {"client", "merkle", "algorithms", "lootbox"}

VerifyNext ==
  /\ \/ part = "client" /\ Next /\ UNCHANGED <<merkleVars, input, lootBoxVars>>
     \/ part = "merkle" /\ MerkleNext /\ UNCHANGED <<clientVars, input, lootBoxVars>>
     \/ part = "algorithms" /\ Try /\ UNCHANGED <<clientVars, merkleVars, lootBoxVars>>
     \/ part = "lootbox" /\ LootBoxNext /\ UNCHANGED <<clientVars, merkleVars, input>>
  /\ UNCHANGED part

VerifySpec == VerifyInit /\ [][VerifyNext]_<<clientVars, merkleVars, input, lootBoxVars, part>>

=============================================================================
