---------------------------- MODULE ClientProofs ----------------------------
(***************************************************************************)
(* Proofs about the client, for every window size, every contribution and  *)
(* every list a server may answer with: the loop that splits the stages    *)
(* into ranges tiles them, and what a returned value rests on is verified  *)
(* at every place of the list back to the contribution's.                  *)
(***************************************************************************)
EXTENDS AnyServer, SequenceTheorems, TLAPS

(***************************************************************************)
(* Prepending a range: its indices shift by one.                           *)
(***************************************************************************)
LEMMA Prepend ==
  ASSUME NEW S, NEW s \in Seq(S), NEW e \in S, NEW t, t = <<e>> \o s
  PROVE  /\ t \in Seq(S) /\ Len(t) = Len(s) + 1 /\ t # <<>>
         /\ t[1] = e
         /\ \A i \in 1 .. Len(s) : t[i + 1] = s[i]
  OBVIOUS

\* What a window's first stage is.
LEMMA WindowOf ==
  ASSUME NEW e \in Nat
  PROVE  /\ RangeStart(e) \in Nat
         /\ RangeStart(e) <= e
         /\ \A f \in Nat : e - W < f => RangeStart(e) <= f
         /\ e >= W => RangeStart(e) = e - W + 1
  BY ClientAssumption, SMT DEF RangeStart, Max0

LEMMA InitClient == Init => ClientInv
  BY SMT DEF Init, ClientInv, RangesSoFar, RangesTile, VerifiedSoFar, ListPlaced, ClientPcs

(***************************************************************************)
(* One iteration of the loop keeps the ranges consecutive: the new range   *)
(* ends W stages before the one that was first, where that one starts.     *)
(***************************************************************************)
LEMMA LoopStep == ClientInv /\ SplitRange => RangesSoFar' /\ RangesTile'
<1> SUFFICES ASSUME ClientInv, SplitRange PROVE RangesSoFar' /\ RangesTile'
  OBVIOUS
<1>0. /\ from \in Nat /\ to \in Nat /\ target \in Int /\ ranges \in Seq(Nat \X Nat)
      /\ client = "split" /\ W \in Nat \ {0}
      /\ from' = from /\ to' = to
      /\ ranges = <<>> => target = to
      /\ ranges # <<>> => /\ target = ranges[1][2] - W
                          /\ from <= ranges[1][2] /\ from <= to
                          /\ ranges[Len(ranges)][2] = to
      /\ \A i \in 1 .. Len(ranges) : ranges[i][1] = RangeStart(ranges[i][2])
      /\ \A i \in 1 .. Len(ranges) - 1 : ranges[i + 1][1] = ranges[i][2] + 1
  BY ClientAssumption DEF ClientInv, RangesSoFar, SplitRange
<1>1. CASE target >= from
  <2>1. /\ ranges' = <<<<RangeStart(target), target>>>> \o ranges
        /\ target' = target - W /\ client' = "split"
    BY <1>0, <1>1 DEF SplitRange
  <2>2. target \in Nat
    BY <1>0, <1>1
  <2>3. /\ RangeStart(target) \in Nat
        /\ <<RangeStart(target), target>> \in Nat \X Nat
    BY <2>2, WindowOf
  <2>4. /\ ranges' \in Seq(Nat \X Nat) /\ Len(ranges') = Len(ranges) + 1 /\ ranges' # <<>>
        /\ ranges'[1] = <<RangeStart(target), target>>
        /\ \A i \in 1 .. Len(ranges) : ranges'[i + 1] = ranges[i]
    BY <1>0, <2>1, <2>3, Prepend
  <2>5. ranges'[Len(ranges')][2] = to
    <3>1. CASE ranges = <<>>
      BY <3>1, <1>0, <2>4
    <3>2. CASE ranges # <<>>
      <4>1. Len(ranges) \in 1 .. Len(ranges) /\ ranges[Len(ranges)][2] = to
        BY <3>2, <1>0
      <4> QED BY <4>1, <2>4, <1>0
    <3> QED BY <3>1, <3>2
  <2>6. ASSUME NEW i \in 1 .. Len(ranges')
        PROVE  ranges'[i][1] = RangeStart(ranges'[i][2])
    <3>1. CASE i = 1
      BY <3>1, <2>4
    <3>2. CASE i # 1
      <4>1. PICK j \in 1 .. Len(ranges) : i = j + 1
        BY <3>2, <2>4, <1>0
      <4> QED BY <4>1, <2>4, <1>0
    <3> QED BY <3>1, <3>2
  <2>7. ASSUME NEW i \in 1 .. Len(ranges') - 1
        PROVE  ranges'[i + 1][1] = ranges'[i][2] + 1
    <3>0. i \in 1 .. Len(ranges)
      BY <2>4, <1>0
    <3>1. CASE i = 1
      <4>1. ranges # <<>>
        BY <3>0, <1>0
      <4>2. ranges[1][2] = target + W /\ target + W \in Nat
        <5>1. 1 \in 1 .. Len(ranges)
          BY <3>0, <1>0
        <5>2. ranges[1] \in Nat \X Nat
          BY <5>1, <1>0
        <5>3. ranges[1][2] \in Nat
          BY <5>2
        <5>4. target = ranges[1][2] - W /\ W \in Nat
          BY <4>1, <1>0
        <5> QED BY <5>3, <5>4
      <4>3. RangeStart(target + W) = target + 1
        BY <4>2, <1>0, <2>2, WindowOf
      <4>4. ranges[1][1] = target + 1
        BY <3>0, <3>1, <4>2, <4>3, <1>0
      <4> QED BY <3>0, <3>1, <4>4, <2>4
    <3>2. CASE i # 1
      <4>1. PICK j \in 1 .. Len(ranges) - 1 : i = j + 1
        BY <3>0, <3>2, <1>0
      <4>2. ranges'[i] = ranges[j] /\ ranges'[i + 1] = ranges[j + 1]
        <5>1. j \in 1 .. Len(ranges) /\ j + 1 \in 1 .. Len(ranges)
          BY <1>0
        <5>2. \A k \in 1 .. Len(ranges) : ranges'[k + 1] = ranges[k]
          BY <2>4
        <5> QED BY <5>1, <5>2, <4>1
      <4> QED BY <4>1, <4>2, <1>0
    <3> QED BY <3>1, <3>2
  <2>8. target' = ranges'[1][2] - W /\ from' <= ranges'[1][2] /\ target' \in Int /\ from' <= to'
    BY <2>1, <2>4, <1>0, <1>1
  <2> QED
    BY <1>0, <2>1, <2>4, <2>5, <2>6, <2>7, <2>8
    DEF RangesSoFar, RangesTile, ClientPcs, RangeStart, Max0
<1>2. CASE ~(target >= from)
  <2>1. /\ ranges' = ranges /\ target' = target
        /\ client' = IF ranges = <<>> THEN "raised" ELSE "fetch"
    BY <1>0, <1>2 DEF SplitRange
  <2>2. RangesSoFar'
    BY <1>0, <2>1 DEF RangesSoFar, ClientPcs, RangeStart, Max0
  <2>3. ASSUME ranges # <<>>
        PROVE  ranges[1][1] >= 0 /\ ranges[1][1] <= from
    <3>1. 1 \in 1 .. Len(ranges)
      BY <2>3, <1>0
    <3>2. ranges[1] \in Nat \X Nat
      BY <3>1, <1>0
    <3>3. ranges[1][2] \in Nat /\ ranges[1][2] - W < from
      BY <3>2, <2>3, <1>0, <1>2
    <3>4. ranges[1][1] = RangeStart(ranges[1][2])
      BY <3>1, <1>0
    <3>5. RangeStart(ranges[1][2]) <= from
      BY <3>3, <1>0, WindowOf
    <3> QED BY <3>2, <3>4, <3>5
  <2> QED
    BY <1>0, <2>1, <2>2, <2>3 DEF RangesTile, RangeStart, Max0
<1> QED BY <1>1, <1>2

(***************************************************************************)
(* The list and the labels: what stays when they are not touched.          *)
(***************************************************************************)
LEMMA ListStays ==
  ASSUME UNCHANGED <<from, to, value, ranges, stages>>
  PROVE  /\ start' = start /\ Labelled(from)' = Labelled(from) /\ Labelled(to)' = Labelled(to)
         /\ First(from)' = First(from) /\ First(to)' = First(to)
         /\ ContributionIn(First(from))' = ContributionIn(First(from))
         /\ \A k : Chained(k)' = Chained(k)
         /\ stages'[First(to)'] = stages[First(to)]
<1>1. start' = start
  BY DEF start
<1>2. Labelled(from)' = Labelled(from) /\ Labelled(to)' = Labelled(to)
  BY <1>1 DEF Labelled
<1>3. First(from)' = First(from) /\ First(to)' = First(to)
  BY <1>2, Zenon DEF First
<1>4. ContributionIn(First(from))' = ContributionIn(First(from))
  BY <1>3, Zenon DEF ContributionIn
<1>5. \A k : Chained(k)' = Chained(k)
  BY DEF Chained, Challenge
<1> QED
  BY <1>1, <1>2, <1>3, <1>4, <1>5, Zenon

(***************************************************************************)
(* A range that verifies moves the frontier to the first stage after it.   *)
(***************************************************************************)
LEMMA VerifyStep == ClientInv /\ VerifyRange => VerifiedSoFar'
<1> SUFFICES ASSUME ClientInv, VerifyRange, client' = "verify" PROVE VerifiedSoFar'
  BY SMT DEF VerifiedSoFar, VerifyRange
<1>0. /\ client = "verify" /\ range \in 1 .. Len(ranges) /\ range' = range + 1
      /\ UNCHANGED <<from, to, value, target, ranges, stages, result>>
      /\ ranges \in Seq(Nat \X Nat) /\ to \in Nat
      /\ RangeVerifies(ranges[range])
  BY DEF ClientInv, RangesSoFar, VerifiedSoFar, VerifyRange
<1>1. /\ Labelled(from) # {} /\ ContributionIn(First(from))
      /\ \A k \in start .. Frontier - 1 : Chained(k)
      /\ ranges[Len(ranges)][2] = to
      /\ \A i \in 1 .. Len(ranges) - 1 : ranges[i + 1][1] = ranges[i][2] + 1
  BY <1>0 DEF ClientInv, VerifiedSoFar, RangesTile
<1>2. ranges[range] \in Nat \X Nat /\ ranges[1] \in Nat \X Nat
  BY <1>0
<1> DEFINE a == ranges[range][1]
           b == ranges[range][2]
<1>3. a \in Nat /\ b \in Nat /\ start \in Nat
  BY <1>2 DEF start
<1>5. Frontier = a
  BY <1>0 DEF Frontier
<1>4. ASSUME NEW k \in a .. b, k >= start PROVE Chained(k)
  <2>1. PICK i \in 1 .. b - a + 1 : k = a + i - 1
    <3>1. k - a + 1 \in 1 .. b - a + 1 /\ k = a + (k - a + 1) - 1
      BY <1>3
    <3> QED BY <3>1
  <2>2. i \in DOMAIN Pairs(a, b) /\ Pairs(a, b)[i] = <<Challenge(k), stages[k].vdfy>>
    BY <2>1 DEF Pairs
  <2>3. Pairs(a, b)[i][2] = Eval(Pairs(a, b)[i][1]) /\ b \in DOMAIN stages
    BY <2>2, <1>0 DEF RangeVerifies, AvdfVerify
  <2>4. k \in DOMAIN stages
    <3>1. PICK last \in Int : DOMAIN stages = start - 1 .. last
      BY <1>0 DEF ClientInv, ListPlaced
    <3> QED BY <3>1, <2>3, <1>3, <1>4
  <2> QED BY <2>2, <2>3, <2>4 DEF Chained
<1>6. Frontier' = b + 1
  <2>1. CASE range < Len(ranges)
    <3>1. range \in 1 .. Len(ranges) - 1 /\ range + 1 \in 1 .. Len(ranges)
      BY <2>1, <1>0
    <3> QED BY <3>1, <1>0, <1>1 DEF Frontier
  <2>2. CASE range = Len(ranges)
    <3>1. range' \notin 1 .. Len(ranges')
      BY <2>2, <1>0
    <3> QED BY <3>1, <2>2, <1>0, <1>1 DEF Frontier
  <2> QED BY <2>1, <2>2, <1>0
<1> HIDE DEF a, b
<1>7. ASSUME NEW k \in start .. b PROVE Chained(k)
  <2>1. CASE k < a
    <3>1. k \in start .. Frontier - 1
      BY <2>1, <1>3, <1>5
    <3> QED BY <3>1, <1>1
  <2>2. CASE k >= a
    <3>1. k \in a .. b /\ k >= start
      BY <2>2, <1>3
    <3> QED BY <3>1, <1>4
  <2> QED BY <2>1, <2>2, <1>3
<1>8. \A k \in (start .. Frontier - 1)' : Chained(k)'
  <2>1. (start .. Frontier - 1)' = start .. b
    BY <1>0, <1>3, <1>6, ListStays
  <2> QED BY <2>1, <1>0, <1>7, ListStays
<1>9. range' \in 1 .. Len(ranges') + 1
  BY <1>0
<1> QED BY <1>0, <1>1, <1>8, <1>9, ListStays DEF VerifiedSoFar

LEMMA ClientSteps == ClientInv /\ [Next]_clientVars => ClientInv'
<1> SUFFICES ASSUME ClientInv, [Next]_clientVars PROVE ClientInv'
  OBVIOUS
<1> USE DEF ClientPcs
<1>1. ASSUME NEW c \in Calls, Call(c[1], c[2], c[3]) PROVE ClientInv'
  <2>1. c[1] \in Nat /\ c[2] \in Nat
    BY CallsAssumption
  <2>2. ranges = <<>> /\ ranges' = <<>> /\ client' = "poll" /\ from' \in Nat /\ to' \in Nat /\ target' = target
    BY <1>1, <2>1 DEF ClientInv, RangesSoFar, Call
  <2> QED BY <2>2 DEF ClientInv, RangesSoFar, RangesTile, VerifiedSoFar, ListPlaced
<1>2. ASSUME PollDone PROVE ClientInv'
  BY <1>2 DEF ClientInv, RangesSoFar, RangesTile, VerifiedSoFar, ListPlaced, PollDone
<1>3. ASSUME SplitRange PROVE ClientInv'
  <2>1. client' \notin {"accproof", "verify", "returned"}
    BY <1>3 DEF SplitRange
  <2> QED BY <1>3, <2>1, LoopStep DEF ClientInv, VerifiedSoFar, ListPlaced
<1>4. ASSUME NEW list, Len(list) \in Nat, Fetch(list) PROVE ClientInv'
  <2>1. RangesSoFar' /\ RangesTile' /\ VerifiedSoFar'
    BY <1>4 DEF ClientInv, RangesSoFar, RangesTile, VerifiedSoFar, Fetch, RangeStart, Max0
  <2>2. ListPlaced'
    <3>1. start' = start /\ DOMAIN stages' = start - 1 .. start - 2 + Len(list)
      BY <1>4 DEF Fetch, Placed, start
    <3>2. start \in Nat
      <4>1. ranges \in Seq(Nat \X Nat) /\ ranges # <<>>
        BY <1>4 DEF ClientInv, RangesSoFar, RangesTile, Fetch
      <4>2. ranges[1] \in Nat \X Nat
        BY <4>1
      <4> QED BY <4>2 DEF start
    <3>3. Len(list) \in Int
      BY <1>4
    <3> QED BY <3>1, <3>2, <3>3 DEF ListPlaced
  <2> QED BY <2>1, <2>2 DEF ClientInv
<1>5. ASSUME NEW i, CheckAccproof(i) PROVE ClientInv'
  <2>0. /\ client = "accproof" /\ client' \in {"verify", "raised"} /\ range' = 1
        /\ UNCHANGED <<from, to, value, target, ranges, stages, result>>
    BY <1>5 DEF CheckAccproof
  <2>1. RangesSoFar' /\ RangesTile'
    BY <2>0 DEF ClientInv, RangesSoFar, RangesTile, RangeStart, Max0
  <2>2. ASSUME client' = "verify" PROVE VerifiedSoFar'
    <3>1. Labelled(from) # {} /\ ContributionIn(First(from))
      BY <1>5, <2>2 DEF CheckAccproof, AccVerify, ContributionIn
    <3>2. ranges \in Seq(Nat \X Nat) /\ ranges # <<>> /\ Len(ranges) \in Nat
      BY <2>0 DEF ClientInv, RangesSoFar, RangesTile
    <3>3. 1 \in 1 .. Len(ranges)
      BY <3>2
    <3>4. start \in Nat
      BY <3>2, <3>3 DEF start
    <3>5. Frontier' = start
      BY <2>0, <3>3 DEF Frontier, start
    <3>6. (start .. Frontier - 1)' = {}
      BY <2>0, <3>4, <3>5, ListStays
    <3>7. range' \in 1 .. Len(ranges') + 1
      BY <2>0, <3>2
    <3> QED BY <2>2, <2>0, <3>1, <3>6, <3>7, ListStays DEF VerifiedSoFar
  <2>3. ListPlaced'
    BY <2>0, ListStays DEF ClientInv, ListPlaced
  <2> QED BY <2>0, <2>1, <2>2, <2>3 DEF ClientInv, VerifiedSoFar
<1>6. ASSUME VerifyRange PROVE ClientInv'
  <2>0. client = "verify" /\ UNCHANGED <<from, to, value, target, ranges, stages, result>>
    BY <1>6 DEF VerifyRange
  <2>1. RangesSoFar' /\ RangesTile'
    BY <1>6 DEF ClientInv, RangesSoFar, RangesTile, VerifyRange, RangeStart, Max0
  <2>2. ListPlaced'
    BY <2>0, ListStays DEF ClientInv, ListPlaced
  <2> QED BY <1>6, <2>1, <2>2, VerifyStep DEF ClientInv
<1>7. ASSUME Return PROVE ClientInv'
  <2>0. /\ client = "verify" /\ client' \in {"returned", "raised"} /\ range > Len(ranges)
        /\ client' = "returned" => Labelled(to) # {} /\ result' = stages[First(to)].vdfy
        /\ UNCHANGED <<from, to, value, target, ranges, stages, range>>
    BY <1>7 DEF Return
  <2>1. RangesSoFar' /\ RangesTile'
    BY <2>0 DEF ClientInv, RangesSoFar, RangesTile, RangeStart, Max0
  <2>2. ListPlaced'
    BY <2>0, ListStays DEF ClientInv, ListPlaced
  <2>3. VerifiedSoFar'
    <3>1. Frontier' = Frontier
      BY <2>0 DEF Frontier
    <3>2. range = Len(ranges) + 1 /\ ranges \in Seq(Nat \X Nat)
      BY <2>0 DEF ClientInv, VerifiedSoFar, RangesSoFar
    <3> QED BY <2>0, <3>1, <3>2, ListStays DEF ClientInv, VerifiedSoFar
  <2> QED BY <2>1, <2>2, <2>3 DEF ClientInv
<1>8. ASSUME UNCHANGED clientVars PROVE ClientInv'
  <2>0. UNCHANGED <<client, from, to, value, target, ranges, stages, range, result>>
    BY <1>8 DEF clientVars
  <2>1. RangesSoFar' /\ RangesTile'
    BY <2>0 DEF ClientInv, RangesSoFar, RangesTile, RangeStart, Max0
  <2>2. ListPlaced'
    BY <2>0, ListStays DEF ClientInv, ListPlaced
  <2>3. VerifiedSoFar'
    <3>1. Frontier' = Frontier
      BY <2>0 DEF Frontier
    <3> QED BY <2>0, <3>1, ListStays DEF ClientInv, VerifiedSoFar
  <2> QED BY <2>1, <2>2, <2>3 DEF ClientInv
<1> QED BY <1>1, <1>2, <1>3, <1>4, <1>5, <1>6, <1>7, <1>8 DEF Next

THEOREM ClientInvariance == Spec => []ClientInv
  BY InitClient, ClientSteps, PTL DEF Spec

(***************************************************************************)
(* The ranges of get_verified_randomness are consecutive windows from the  *)
(* contribution to the target, for every window size.                      *)
(***************************************************************************)
THEOREM Tiling == Spec => []RangesTile
<1>1. ClientInv => RangesTile
  BY DEF ClientInv
<1> QED BY <1>1, ClientInvariance, PTL

(***************************************************************************)
(* Whatever list the server answers with, get_verified_randomness returns  *)
(* only when the output at every place from the contribution's stage to    *)
(* the target follows from the accumulator there and the output before it; *)
(* the contribution and the value are those of the elements labelled with  *)
(* their stages, which are the verified ones when the labels are in place. *)
(***************************************************************************)
THEOREM Verified == Spec => []VerifiedByPosition
<1>1. ClientInv => VerifiedByPosition
  <2> SUFFICES ASSUME ClientInv, client = "returned" PROVE VerifiedByPosition
    BY DEF VerifiedByPosition
  <2>1. /\ Labelled(from) # {} /\ ContributionIn(First(from))
        /\ \A k \in start .. Frontier - 1 : Chained(k)
        /\ range = Len(ranges) + 1 /\ Labelled(to) # {} /\ result = stages[First(to)].vdfy
        /\ from \in Nat /\ to \in Nat /\ ranges \in Seq(Nat \X Nat)
        /\ ranges # <<>> /\ ranges[1][1] <= from
    BY DEF ClientInv, RangesSoFar, RangesTile, VerifiedSoFar
  <2>2. Frontier = to + 1
    BY <2>1 DEF Frontier
  <2>3. start \in Nat /\ start <= from
    <3>1. 1 \in 1 .. Len(ranges)
      BY <2>1
    <3>2. ranges[1] \in Nat \X Nat
      BY <3>1, <2>1
    <3> QED BY <3>2, <2>1 DEF start
  <2>4. from .. to \subseteq start .. Frontier - 1
    BY <2>1, <2>2, <2>3
  <2>5. ASSUME LabelsInPlace, NEW s \in start .. to, s \in DOMAIN stages PROVE First(s) = s
    <3>1. s \in Labelled(s)
      BY <2>1, <2>3, <2>5 DEF LabelsInPlace, Labelled
    <3>2. PICK last \in Int : DOMAIN stages = start - 1 .. last
      BY DEF ClientInv, ListPlaced
    <3>3. ASSUME NEW j \in Labelled(s) PROVE j >= s /\ j \in Int
      <4>1. j \in Int /\ j >= start /\ stages[j].stage = s
        BY <2>3, <3>2 DEF Labelled
      <4>2. j <= to => stages[j].stage = j
        BY <2>1, <2>3, <2>5, <4>1 DEF LabelsInPlace
      <4> QED BY <2>1, <2>3, <4>1, <4>2
    <3>4. s \in Int
      BY <2>1, <2>3
    <3>5. \A f \in Labelled(s) : (\A j \in Labelled(s) : f <= j) => f = s
      BY <3>1, <3>3, <3>4
    <3>6. \A j \in Labelled(s) : s <= j
      BY <3>3, <3>4
    <3> QED BY <3>1, <3>5, <3>6, Zenon DEF First
  <2>6. ASSUME LabelsInPlace, from <= to PROVE ContributionIn(from) /\ result = stages[to].vdfy
    <3>1. from \in start .. to /\ to \in start .. to /\ from \in from .. to /\ to \in from .. to
      BY <2>1, <2>3, <2>6
    <3>2. from \in DOMAIN stages /\ to \in DOMAIN stages
      BY <3>1, <2>1, <2>4 DEF Chained
    <3> QED BY <2>1, <2>5, <2>6, <3>1, <3>2
  <2>7. from <= to
    BY DEF ClientInv, RangesSoFar, RangesTile
  <2> QED BY <2>1, <2>4, <2>6, <2>7, Zenon DEF VerifiedByPosition
<1> QED BY <1>1, ClientInvariance, PTL

=============================================================================
