------------------------------- MODULE Client -------------------------------
(***************************************************************************)
(* HeadStartClient.get_verified_randomness (client.py): wait until a stage *)
(* is DONE, split the stages from the contribution to it into ranges, each *)
(* covered by one aggregated VDF proof, fetch the stages, and verify the   *)
(* inclusion of the contribution and every range.                          *)
(*                                                                         *)
(* The server's answers are parameters of the actions: module HeadStart    *)
(* passes those of the beacon, AnyServer those of a server that may answer *)
(* anything, a list of any length with any labels included: the code       *)
(* verifies by position in the list, but looks for the contribution's and  *)
(* the wanted stage by the label that each element carries.                *)
(* Hash, VDF and accumulator are ideal: a proof is the sequence of         *)
(* (challenge, output) pairs it was made for, an accumulator value the     *)
(* sequence of data it commits to, a membership proof a position in it.    *)
(***************************************************************************)
EXTENDS Integers, Sequences

CONSTANTS
  W,            \* the beacon's window_size
  NoY,          \* b""
  Hash(_, _),   \* Parameters.hash(accval + y)
  Eval(_)       \* Parameters.avdf.eval

ASSUME ClientAssumption == W \in Nat \ {0}

VARIABLES
  client,     \* program counter
  from,       \* contribution.stage
  to,         \* stage_idx
  value,      \* contribution.value
  target,     \* the loop variable
  ranges,     \* ranges, in the order after ranges.reverse()
  stages,     \* extra and stages: the elements of get_stages' answer, each
              \* numbered by the stage that was asked for at its place
  range,      \* index of the range being verified
  result      \* the value returned

clientVars == <<client, from, to, value, target, ranges, stages, range, result>>

Init ==
  /\ client = "idle"
  /\ from = 0 /\ to = 0 /\ value = NoY
  /\ target = 0
  /\ ranges = <<>>
  /\ stages = <<>>
  /\ range = 1
  /\ result = NoY

-----------------------------------------------------------------------------
\* get_verified_randomness(contribution, stage_idx)
Call(f, t, x) ==
  /\ client = "idle"
  /\ client' = "poll"
  /\ from' = f /\ to' = t /\ value' = x
  /\ UNCHANGED <<target, ranges, stages, range, result>>

\* get_stage_until(stage_idx, DONE) returns; then target = stage_idx.
PollDone ==
  /\ client = "poll"
  /\ client' = "split"
  /\ target' = to
  /\ UNCHANGED <<from, to, value, ranges, stages, range, result>>

Max0(i) == IF i > 0 THEN i ELSE 0

\* Mutant of RangeStart: neighbouring ranges share a stage, as in the example
\* of client.py's comment.
RangeStartShared(t) == Max0(t - W)

\* max(target - self.W + 1, 0)
RangeStart(t) == Max0(t - W + 1)

\* Mutant of SplitRange: the loop stops one window early.
SplitRangeEarly ==
  /\ client = "split"
  /\ IF target > from
     THEN /\ ranges' = <<<<RangeStart(target), target>>>> \o ranges
          /\ target' = target - W
          /\ UNCHANGED client
     ELSE /\ client' = IF ranges = <<>> THEN "raised" ELSE "fetch"
          /\ UNCHANGED <<ranges, target>>
  /\ UNCHANGED <<from, to, value, stages, range, result>>

\* One iteration of the loop "while target >= contribution.stage".  After it,
\* ranges[0] raises an IndexError if there is no range.
SplitRange ==
  /\ client = "split"
  /\ IF target >= from
     THEN /\ ranges' = <<<<RangeStart(target), target>>>> \o ranges
          /\ target' = target - W
          /\ UNCHANGED client
     ELSE /\ client' = IF ranges = <<>> THEN "raised" ELSE "fetch"
          /\ UNCHANGED <<ranges, target>>
  /\ UNCHANGED <<from, to, value, stages, range, result>>

\* ranges[0][0]
start == ranges[1][1]

\* The stages get_stages(start - 1, end) asks for.
Asked == start - 1 .. to

\* The elements of a list at the places of the stages asked for, and beyond.
Placed(list) == [k \in start - 1 .. start - 2 + Len(list) |-> list[k - start + 2]]

\* extra, *stages = self.get_stages(start - 1, end), which an empty list fails.
Fetch(list) ==
  /\ client = "fetch"
  /\ stages' = Placed(list)
  /\ client' = IF list = <<>> THEN "raised" ELSE "accproof"
  /\ UNCHANGED <<from, to, value, target, ranges, range, result>>

\* next(stg for stg in stages if stg.stage == s): the first of the elements
\* after extra that the server labelled s.
Labelled(s) == {k \in DOMAIN stages : k >= start /\ stages[k].stage = s}
First(s) == CHOOSE k \in Labelled(s) : \A j \in Labelled(s) : k <= j

\* accumulator.verify(accval, proof, x), for a membership proof of position i
AccVerify(accval, i, x) == i \in DOMAIN accval /\ accval[i] = x

\* The membership proof of the contribution arrives and is verified, if there
\* is an element labelled with its stage.
CheckAccproof(i) ==
  /\ client = "accproof"
  /\ client' = IF Labelled(from) # {} /\ AccVerify(stages[First(from)].accval, i, value)
               THEN "verify" ELSE "raised"
  /\ range' = 1
  /\ UNCHANGED <<from, to, value, target, ranges, stages, result>>

\* Mutant of Challenge: the challenge leaves out the previous output.
ChallengeUnchained(k) == Hash(stages[k].accval, NoY)

\* hash(cur.accval + prev.vdfy)
Challenge(k) == Hash(stages[k].accval, stages[k - 1].vdfy)

\* The (challenge, output) pairs of the stages a .. b
Pairs(a, b) == [i \in 1 .. b - a + 1 |-> <<Challenge(a + i - 1), stages[a + i - 1].vdfy>>]

\* avdf.verify(challenges, ys, proof): the proof was made for these pairs, and
\* every output is the VDF of its challenge.
AvdfVerify(pairs, proof) ==
  /\ proof = pairs
  /\ \A i \in DOMAIN pairs : pairs[i][2] = Eval(pairs[i][1])

\* A range verifies against the proof of the element at its last place;
\* stages[ed_idx] raises an IndexError if the list does not reach there.
RangeVerifies(r) == r[2] \in DOMAIN stages /\ AvdfVerify(Pairs(r[1], r[2]), stages[r[2]].vdfproof)

\* Mutant of VerifyRange: only the proof of the last range counts.
VerifyRangeLastOnly ==
  /\ client = "verify"
  /\ range <= Len(ranges)
  /\ IF range < Len(ranges) \/ RangeVerifies(ranges[range])
     THEN range' = range + 1 /\ UNCHANGED client
     ELSE client' = "raised" /\ UNCHANGED range
  /\ UNCHANGED <<from, to, value, target, ranges, stages, result>>

\* One iteration of the loop over shifted_ranges.
VerifyRange ==
  /\ client = "verify"
  /\ range <= Len(ranges)
  /\ IF RangeVerifies(ranges[range])
     THEN range' = range + 1 /\ UNCHANGED client
     ELSE client' = "raised" /\ UNCHANGED range
  /\ UNCHANGED <<from, to, value, target, ranges, stages, result>>

\* return target_stage.vdfy, if there is an element labelled stage_idx
Return ==
  /\ client = "verify"
  /\ range > Len(ranges)
  /\ IF Labelled(to) # {}
     THEN client' = "returned" /\ result' = stages[First(to)].vdfy
     ELSE client' = "raised" /\ UNCHANGED result
  /\ UNCHANGED <<from, to, value, target, ranges, stages, range>>

-----------------------------------------------------------------------------
(* Properties.                                                             *)

ClientPcs == {"idle", "poll", "split", "fetch", "accproof", "verify", "returned", "raised"}

\* The ranges are consecutive, end at the target stage, reach back to the
\* contribution, and each one is a window a server's proof covers:
\* [max(end - W + 1, 0), end] (the loop of get_verified_randomness).
RangesTile ==
  client \in {"fetch", "accproof", "verify", "returned"} =>
    /\ ranges # <<>>
    /\ ranges[1][1] >= 0 /\ ranges[1][1] <= from /\ from <= ranges[1][2]
    /\ ranges[Len(ranges)][2] = to
    /\ \A i \in 1 .. Len(ranges) : ranges[i][1] = RangeStart(ranges[i][2])
    /\ \A i \in 1 .. Len(ranges) - 1 : ranges[i + 1][1] = ranges[i][2] + 1

ContributionIn(k) == \E i \in DOMAIN stages[k].accval : stages[k].accval[i] = value
Chained(k) == k \in DOMAIN stages /\ stages[k].vdfy = Eval(Challenge(k))

\* The label at the place of every stage from start to the target is its own.
LabelsInPlace == \A k \in start .. to : stages[k].stage = k

\* What a returned value rests on, whatever list the server sent.  At every
\* place from the contribution's stage to the target the output is the VDF of a
\* challenge that commits to the accumulator there and to the output before;
\* the contribution is in the accumulator of the first element labelled with
\* its stage, and the value is the output of the first one labelled stage_idx.
\* The labels are not compared with the places, so these two elements need not
\* be verified ones; when the labels stand in their places they are, and the
\* value was computed after the contribution and from it.
VerifiedByPosition ==
  client = "returned" =>
    /\ \A k \in from .. to : Chained(k)
    /\ ContributionIn(First(from)) /\ result = stages[First(to)].vdfy
    /\ LabelsInPlace => ContributionIn(from) /\ result = stages[to].vdfy

-----------------------------------------------------------------------------
(* The inductive invariant: the loops of get_verified_randomness.          *)

\* The ranges found so far are windows of consecutive stages that end at to.
RangesSoFar ==
  /\ from \in Nat /\ to \in Nat /\ target \in Int
  /\ ranges \in Seq(Nat \X Nat)
  /\ client \in ClientPcs
  /\ client \in {"idle", "poll"} => ranges = <<>>
  /\ client = "split" /\ ranges = <<>> => target = to
  /\ ranges # <<>> => /\ target = ranges[1][2] - W
                      /\ from <= ranges[1][2] /\ from <= to
                      /\ ranges[Len(ranges)][2] = to
  /\ \A i \in 1 .. Len(ranges) : ranges[i][1] = RangeStart(ranges[i][2])
  /\ \A i \in 1 .. Len(ranges) - 1 : ranges[i + 1][1] = ranges[i][2] + 1

\* The stages before Frontier are covered by the ranges verified so far.
Frontier == IF range \in 1 .. Len(ranges) THEN ranges[range][1] ELSE to + 1

VerifiedSoFar ==
  client \in {"verify", "returned"} =>
    /\ range \in 1 .. Len(ranges) + 1
    /\ Labelled(from) # {} /\ ContributionIn(First(from))
    /\ \A k \in start .. Frontier - 1 : Chained(k)
    /\ client = "returned" => /\ range = Len(ranges) + 1
                              /\ Labelled(to) # {} /\ result = stages[First(to)].vdfy

ListPlaced ==
  client \in {"accproof", "verify", "returned"} =>
    \E last \in Int : DOMAIN stages = start - 1 .. last

ClientInv == RangesSoFar /\ RangesTile /\ VerifiedSoFar /\ ListPlaced

=============================================================================
