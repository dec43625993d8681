----------------------------- MODULE FastProofs -----------------------------
(***************************************************************************)
(* Theorems about modules FastSquaring and FastStorage.                    *)
(*                                                                         *)
(* FastSquaring, for every number of squarings, of gcd entries and of      *)
(* failures: neither thread touches a field while the other writes it, and *)
(* the form that is taken is the one that was counted.                     *)
(* FastStorage, for every number of storage threads, of segment lengths    *)
(* and of segments in the window: no prover finds its entries of the       *)
(* window overwritten, and no finished segment goes unannounced.           *)
(***************************************************************************)
EXTENDS FastSquaring, FastStorage, WellFoundedInduction, TLAPS

-----------------------------------------------------------------------------
(* Squarings in step: where each field is written, and what a thread must  *)
(* have seen of the other to touch it.                                     *)

Time(i, p) == i * Start[5] + Start[p]

\* Where thread t is in its squaring.
Stage(t) == 10 * at[t][1] + at[t][2]

\* The fields both threads may touch; A and B are the master's alone.
Shared == Computed \cup {"a", "b"}
Names == Shared \cup {"A", "B"}
OwnerOf(f) == IF f \in {"c", "U", "k", "ak_start", "s_t", "t_t_S", "v0_2", "e"} THEN Slave ELSE Master

\* The stage of its owner that first writes f in a squaring.
StageOf(f) ==
  CASE f = "ab_start" -> 3 [] f = "ab_end" -> 4 [] f = "v" -> 12 [] f = "c_v1" -> 22
    [] f \in {"h", "v1_h"} -> 24 [] f \in {"A", "A_2"} -> 32 [] f = "v0_2_h" -> 43 [] f = "B" -> 45 [] f = "high" -> 46
    [] f = "c" -> 2 [] f = "U" -> 3 [] f = "k" -> 5 [] f = "ak_start" -> 12 [] f = "s_t" -> 13
    [] f = "t_t_S" -> 22 [] f = "v0_2" -> 24 [] f = "e" -> 32 [] OTHER -> 47
PhaseOf(f) ==
  CASE f \in {"ab_start", "ab_end", "c", "U", "k"} -> 0 [] f \in {"v", "ak_start", "s_t"} -> 1
    [] f \in {"c_v1", "h", "v1_h", "t_t_S", "v0_2"} -> 2 [] f \in {"A_2", "e"} -> 3 [] OTHER -> 4

\* What belongs to the form: after squaring i it is of version i + 1.
OfForm == {"a", "b", "A", "B", "high"}
Ahead(f) == IF f \in OfForm THEN 1 ELSE 0

\* Version i may be read when the owner has come to Time(i, ReadyAt(f)), and
\* is replaced when the other has come to Time(i, FreeAt(f)).
ReadyAt(f) == IF f \in OfForm THEN 0 ELSE PhaseOf(f) + 1
FreeAt(f) == IF f \in OfForm THEN 4 ELSE 5

\* The phase the fences before stage r of t have seen the other thread in.
Seen(t, r) ==
  IF t = Master
  THEN CASE r < 2 -> -1 [] 2 <= r /\ r < 12 -> 0 [] 12 <= r /\ r < 24 -> 1
         [] 24 <= r /\ r < 32 -> 2 [] 32 <= r /\ r < 45 -> 3 [] OTHER -> 4
  ELSE CASE r < 2 -> -1 [] 2 <= r /\ r < 22 -> 0 [] 22 <= r /\ r < 24 -> 1 [] OTHER -> 2

Gcds == {"gcd_1_0", "gcd_s_t"}
WriterOf(g) == IF g = "gcd_1_0" THEN Master ELSE Slave
GcdPhase(g) == IF g = "gcd_1_0" THEN 0 ELSE 1

Ver(f) == val[Slot(f)]

Types ==
  /\ threads_enabled \in BOOLEAN
  /\ counter \in [Both -> Nat] /\ error_flag \in [Both -> BOOLEAN] /\ last_fence \in [Both -> Nat]
  /\ iter \in [Both -> Nat] /\ at \in [Both -> (0 .. 5) \X (0 .. 8)]
  /\ entry \in [Both -> 0 .. GcdMax + 1]
  /\ val \in [Fields -> Int] /\ entries \in [Gcds -> [0 .. GcdMax -> Int \X BOOLEAN]]
  /\ ab_index \in {0, 1} /\ num_valid_iterations \in Nat /\ corruption_flag \in BOOLEAN
  /\ failures \in Nat

\* Where a thread is, and what its fences have seen.
Located(t) ==
  Working(t) =>
    /\ at[t][1] \in 0 .. 4 /\ at[t][2] <= Len(Phase(t, at[t][1]))
    /\ iter[t] < Iterations
    /\ entry[t] > 0 => AtOp(t, "gcd") \/ AtOp(t, "take")
    /\ AtOp(t, "take") => entry[t] <= GcdMax
    /\ Seen(t, Stage(t)) >= 0 => Time(iter[t], Seen(t, Stage(t))) <= counter[Other(t)]

\* Its counter.
Reached(t) == IF AtOp(t, "gcd") /\ entry[t] > 0 THEN entry[t] - 1 ELSE 0
Clock(t) ==
  Working(t) =>
    /\ counter[t] <= Time(iter[t], at[t][1]) + Reached(t)
    /\ \A g \in Gcds : WriterOf(g) = t =>
         \A i \in Nat : i < iter[t] \/ (i = iter[t] /\ GcdPhase(g) < at[t][1]) =>
           Time(i, GcdPhase(g)) + NumCounter <= counter[t]

\* The versions of what it writes.
Data(t) ==
  Working(t) =>
    \A f \in Shared : OwnerOf(f) = t =>
      Ver(f) = iter[t] + Ahead(f) - (IF StageOf(f) < Stage(t) THEN 0 ELSE 1)
NextForm ==
  Working(Master) =>
    \A f \in {"A", "B"} :
      StageOf(f) < Stage(Master) /\ Stage(Master) <= 47 => Ver(f) = iter[Master] + 1

\* What the counters tell of each field, whoever has given up.
Ready(f) == \A i \in Nat : Time(i, ReadyAt(f)) <= counter[OwnerOf(f)] => i <= Ver(f)
Free(f) == \A i \in Nat : i < Ver(f) => Time(i, FreeAt(f)) <= counter[Other(OwnerOf(f))]

\* Entries 0 to n of a gcd are those of squaring i, as far as it went.
Chain(e, i, n) ==
  \A m \in 0 .. n :
    (\A l \in 0 .. m - 1 : e[l] = <<i, FALSE>>) => e[m][1] = i /\ (m = GcdMax => e[m][2])
Begun(g) ==
  LET w == WriterOf(g)
  IN  Working(w) /\ AtOp(w, "gcd") => Chain(entries[g], iter[w], entry[w] - 1)
Published(g) ==
  LET w == WriterOf(g)
  IN  \A i \in Nat : \A n \in 0 .. GcdMax :
        Time(i, GcdPhase(g)) + n + 1 <= counter[w] /\ counter[Other(w)] < Time(i + 1, 0) => Chain(entries[g], i, n)
Taken(g) ==
  LET w == WriterOf(g)
      u == Other(w)
  IN  Working(u) /\ AtOp(u, "take") /\ entry[u] > 0 =>
        /\ \A l \in 0 .. entry[u] - 1 : entries[g][l] = <<iter[u], FALSE>>
        /\ Time(iter[u], GcdPhase(g)) + entry[u] <= counter[w]

\* The form is counted; without a failure nothing is left out.
Counted == Ver("a") = num_valid_iterations /\ Ver("b") = num_valid_iterations
NothingFailed ==
  failures = 0 =>
    /\ \A t \in Both : ~error_flag[t] /\ (~Working(t) => iter[t] = Iterations)
    /\ ~Working(Master) => num_valid_iterations = Iterations
    /\ ~corruption_flag

FastInv ==
  /\ Types /\ \A t \in Both : Located(t) /\ Clock(t) /\ Data(t) /\ last_fence[t] <= counter[Other(t)]
  /\ NextForm
  /\ \A f \in Shared : Ready(f) /\ Free(f)
  /\ \A g \in Gcds : Begun(g) /\ Published(g) /\ Taken(g)
  /\ Counted /\ NothingFailed

-----------------------------------------------------------------------------
(* The counter values.                                                     *)

LEMMA Starts ==
  /\ NumCounter \in Nat /\ NumCounter >= 2
  /\ Start[0] = 0 /\ Start[1] = NumCounter + 1 /\ Start[2] = 2 * NumCounter + 2
  /\ Start[3] = 2 * NumCounter + 3 /\ Start[4] = 2 * NumCounter + 4 /\ Start[5] = 2 * NumCounter + 5
BY FastAssumption DEF Start, NumCounter

LEMMA StartOrder ==
  ASSUME NEW a \in 0 .. 5, NEW b \in 0 .. 5
  PROVE  /\ Start[a] \in Nat /\ Start[a] <= Start[5]
         /\ b <= a => Start[b] <= Start[a]
         /\ a < b => Start[a] < Start[b]
         /\ a # 5 => Start[a] < Start[5]
BY Starts

LEMMA Multiple ==
  ASSUME NEW L \in Nat, NEW i \in Nat, NEW j \in Nat
  PROVE  i * L \in Nat /\ (j < i => j * L + L <= i * L)
OBVIOUS

LEMMA TimeNat == ASSUME NEW i \in Nat, NEW p \in 0 .. 5 PROVE Time(i, p) \in Nat
BY Multiple, StartOrder DEF Time

LEMMA TimeNats == ASSUME NEW i \in Nat PROVE Time(i, 0) \in Nat /\ Time(i, 4) \in Nat /\ Time(i, 5) \in Nat
BY TimeNat

\* A counter that is in phase a of squaring i has passed what lies before.
LEMMA TimeEarlier ==
  ASSUME NEW i \in Nat, NEW j \in Nat, NEW a \in 0 .. 4, NEW b \in 0 .. 5, Time(j, b) < Time(i, a + 1)
  PROVE  j < i \/ (j = i /\ b <= a)
<1> DEFINE L == Start[5]
<1>1. L \in Nat /\ Start[a + 1] <= L /\ Start[b] \in Nat /\ Start[a + 1] \in Nat
  BY StartOrder
<1>2. /\ i * L \in Nat /\ j * L \in Nat /\ i < j => i * L + L <= j * L
  BY <1>1, Multiple
<1>3. j * L + Start[b] < i * L + Start[a + 1]
  BY DEF Time
<1> HIDE DEF L
<1>4. j <= i
  BY <1>1, <1>2, <1>3
<1>5. j = i => Start[b] < Start[a + 1]
  BY <1>1, <1>2, <1>3
<1> QED BY <1>4, <1>5, StartOrder

LEMMA TimeLater ==
  ASSUME NEW i \in Nat, NEW j \in Nat, NEW a \in 0 .. 5, NEW b \in 0 .. 5, j < i \/ (j = i /\ b <= a)
  PROVE  Time(j, b) <= Time(i, a)
<1> DEFINE L == Start[5]
<1>1. L \in Nat /\ Start[b] <= L /\ Start[b] \in Nat /\ Start[a] \in Nat
  BY StartOrder
<1>2. /\ i * L \in Nat /\ j * L \in Nat /\ j < i => j * L + L <= i * L
  BY <1>1, Multiple
<1> HIDE DEF L
<1>3. CASE j < i
  <2>1. j * L + Start[b] <= i * L + Start[a]
    BY <1>1, <1>2, <1>3
  <2> QED BY <2>1 DEF Time, L
<1>4. CASE j = i /\ b <= a
  <2>1. Start[b] <= Start[a]
    BY <1>4, StartOrder
  <2>2. j * L + Start[b] <= i * L + Start[a]
    BY <1>1, <1>2, <1>4, <2>1
  <2> QED BY <2>2 DEF Time, L
<1> QED BY <1>3, <1>4

LEMMA TimeWraps == ASSUME NEW i \in Nat PROVE Time(i, 5) = Time(i + 1, 0) /\ Time(0, 0) = 0
BY Starts DEF Time

\* A gcd's entries fit between the beginning of its phase and the next.
LEMMA TimeFits ==
  ASSUME NEW i \in Nat, NEW p \in 0 .. 4
  PROVE  /\ Time(i, p) < Time(i, p + 1)
         /\ p <= 1 => Time(i, p) + NumCounter < Time(i, p + 1)
<1>1. Start[p] \in Nat /\ Start[p + 1] \in Nat /\ Start[p] < Start[p + 1]
      /\ (p <= 1 => Start[p] + NumCounter < Start[p + 1])
  BY Starts
<1>2. i * Start[5] \in Nat
  BY Multiple, StartOrder
<1> QED BY <1>1, <1>2, Starts DEF Time

-----------------------------------------------------------------------------
(* The programs of the two threads.                                        *)

\* What thread t may read and write at stage r of phase p.
MayRead(t, p, r, f) ==
  \/ f \in Shared /\ OwnerOf(f) = t /\ Ahead(f) = (IF StageOf(f) < r THEN 0 ELSE 1)
  \/ f \in Shared /\ OwnerOf(f) # t /\ ReadyAt(f) <= Seen(t, r) /\ p < FreeAt(f)
  \/ t = Master /\ f \in {"A", "B"} /\ StageOf(f) < r /\ r <= 46
MayWrite(t, p, r, f) ==
  /\ f \in Computed \cup {"A", "B"} /\ OwnerOf(f) = t /\ StageOf(f) <= r /\ r <= 46
  /\ f \in Computed => PhaseOf(f) = p

\* Operation o of thread t in phase p, at stage r: what it reads, writes and
\* waits for.
Ordered(t, p, r, o) ==
  /\ o.op \in {"fence", "do", "gcd", "take", "flip", "listen"}
  /\ o.op \in {"do", "gcd", "take"} => /\ \A f \in o.reads : MayRead(t, p, r, f)
                                       /\ \A f \in o.writes : MayWrite(t, p, r, f)
  /\ o.op = "fence" => o.phase \in 0 .. 4 /\ (Seen(t, r + 1) = Seen(t, r) \/ Seen(t, r + 1) = o.phase)
  /\ o.op # "fence" => Seen(t, r + 1) = Seen(t, r) /\ 0 <= Seen(t, r)
  /\ o.op = "gcd" => o.gcd \in Gcds /\ WriterOf(o.gcd) = t /\ o.phase = p /\ GcdPhase(o.gcd) = p
  /\ o.op = "take" => o.gcd \in Gcds /\ WriterOf(o.gcd) # t /\ o.phase = p /\ GcdPhase(o.gcd) = p
  /\ o.op = "flip" => t = Master /\ r = 47
  /\ o.op = "listen" => t = Master /\ r = 48
\* Where each field is written.
Complete(t, r, o) ==
  /\ \A f \in Computed \cup {"A", "B"} :
       OwnerOf(f) = t /\ StageOf(f) = r => o.op \in {"do", "gcd"} /\ f \in o.writes
  /\ t = Master /\ r = 47 => o.op = "flip"
  /\ o.op = "gcd" <=> (t = Master /\ r = 4) \/ (t = Slave /\ r = 13)

LEMMA ProgramLengths ==
  /\ \A p \in 0 .. 4 : Len(Phase(Master, p)) = <<4, 3, 4, 2, 8>>[p + 1]
  /\ \A p \in 0 .. 4 : Len(Phase(Slave, p)) = <<5, 3, 4, 2, 0>>[p + 1]
BY DEF Phase, Master, Slave, Phase0Master, Phase0Slave, Phase1Master, Phase1Slave, Phase2Master, Phase2Slave,
       Phase3Master, Phase3Slave, Phase4Master, Phase4Slave

LEMMA MasterOrdered ==
  ASSUME NEW p \in 0 .. 4, NEW k \in 1 .. Len(Phase(Master, p))
  PROVE  /\ Ordered(Master, p, 10 * p + k, Phase(Master, p)[k])
         /\ Complete(Master, 10 * p + k, Phase(Master, p)[k])
<1> DEFINE L == Len(Phase(Master, p))
<1>0. k \in 1 .. L
  OBVIOUS
<1> HIDE DEF L
<1> USE DEF Ordered, Complete, MayRead, MayWrite, FenceOn, Does, Tests, RunsGcd, TakesEntries, Shared, Computed, OwnerOf,
            StageOf, PhaseOf, OfForm, Ahead, ReadyAt, FreeAt, Seen, Gcds, WriterOf, GcdPhase, Master, Slave
<1>1. CASE p = 0
  <2>1. CASE k = 1
    BY <1>1, <2>1 DEF Phase, Phase0Master
  <2>2. CASE k = 2
    BY <1>1, <2>2 DEF Phase, Phase0Master
  <2>3. CASE k = 3
    BY <1>1, <2>3 DEF Phase, Phase0Master
  <2>4. CASE k = 4
    BY <1>1, <2>4 DEF Phase, Phase0Master
  <2>5. L = 4
    BY <1>1, ProgramLengths DEF L
  <2>6. k \in {1, 2, 3, 4}
    BY <1>0, <2>5
  <2> QED BY <2>1, <2>2, <2>3, <2>4, <2>6
<1>2. CASE p = 1
  <2>1. CASE k = 1
    BY <1>2, <2>1 DEF Phase, Phase1Master
  <2>2. CASE k = 2
    BY <1>2, <2>2 DEF Phase, Phase1Master
  <2>3. CASE k = 3
    BY <1>2, <2>3 DEF Phase, Phase1Master
  <2>4. L = 3
    BY <1>2, ProgramLengths DEF L
  <2>5. k \in {1, 2, 3}
    BY <1>0, <2>4
  <2> QED BY <2>1, <2>2, <2>3, <2>5
<1>3. CASE p = 2
  <2>1. CASE k = 1
    BY <1>3, <2>1 DEF Phase, Phase2Master
  <2>2. CASE k = 2
    BY <1>3, <2>2 DEF Phase, Phase2Master
  <2>3. CASE k = 3
    BY <1>3, <2>3 DEF Phase, Phase2Master
  <2>4. CASE k = 4
    BY <1>3, <2>4 DEF Phase, Phase2Master
  <2>5. L = 4
    BY <1>3, ProgramLengths DEF L
  <2>6. k \in {1, 2, 3, 4}
    BY <1>0, <2>5
  <2> QED BY <2>1, <2>2, <2>3, <2>4, <2>6
<1>4. CASE p = 3
  <2>1. CASE k = 1
    BY <1>4, <2>1 DEF Phase, Phase3Master
  <2>2. CASE k = 2
    BY <1>4, <2>2 DEF Phase, Phase3Master
  <2>3. L = 2
    BY <1>4, ProgramLengths DEF L
  <2>4. k \in {1, 2}
    BY <1>0, <2>3
  <2> QED BY <2>1, <2>2, <2>4
<1>5. CASE p = 4
  <2>1. CASE k = 1
    BY <1>5, <2>1 DEF Phase, Phase4Master
  <2>2. CASE k = 2
    BY <1>5, <2>2 DEF Phase, Phase4Master
  <2>3. CASE k = 3
    BY <1>5, <2>3 DEF Phase, Phase4Master
  <2>4. CASE k = 4
    BY <1>5, <2>4 DEF Phase, Phase4Master
  <2>5. CASE k = 5
    BY <1>5, <2>5 DEF Phase, Phase4Master
  <2>6. CASE k = 6
    BY <1>5, <2>6 DEF Phase, Phase4Master
  <2>7. CASE k = 7
    BY <1>5, <2>7 DEF Phase, Phase4Master
  <2>8. CASE k = 8
    BY <1>5, <2>8 DEF Phase, Phase4Master
  <2>9. L = 8
    BY <1>5, ProgramLengths DEF L
  <2>10. k \in {1, 2, 3, 4, 5, 6, 7, 8}
    BY <1>0, <2>9
  <2> QED BY <2>1, <2>2, <2>3, <2>4, <2>5, <2>6, <2>7, <2>8, <2>10
<1> QED BY <1>1, <1>2, <1>3, <1>4, <1>5

LEMMA SlaveOrdered ==
  ASSUME NEW p \in 0 .. 4, NEW k \in 1 .. Len(Phase(Slave, p))
  PROVE  /\ Ordered(Slave, p, 10 * p + k, Phase(Slave, p)[k])
         /\ Complete(Slave, 10 * p + k, Phase(Slave, p)[k])
<1> DEFINE L == Len(Phase(Slave, p))
<1>0. k \in 1 .. L
  OBVIOUS
<1> HIDE DEF L
<1> USE DEF Ordered, Complete, MayRead, MayWrite, FenceOn, Does, Tests, RunsGcd, TakesEntries, Shared, Computed, OwnerOf,
            StageOf, PhaseOf, OfForm, Ahead, ReadyAt, FreeAt, Seen, Gcds, WriterOf, GcdPhase, Master, Slave
<1>1. CASE p = 0
  <2>1. CASE k = 1
    BY <1>1, <2>1 DEF Phase, Phase0Slave
  <2>2. CASE k = 2
    BY <1>1, <2>2 DEF Phase, Phase0Slave
  <2>3. CASE k = 3
    BY <1>1, <2>3 DEF Phase, Phase0Slave
  <2>4. CASE k = 4
    BY <1>1, <2>4 DEF Phase, Phase0Slave
  <2>5. CASE k = 5
    BY <1>1, <2>5 DEF Phase, Phase0Slave
  <2>6. L = 5
    BY <1>1, ProgramLengths DEF L
  <2>7. k \in {1, 2, 3, 4, 5}
    BY <1>0, <2>6
  <2> QED BY <2>1, <2>2, <2>3, <2>4, <2>5, <2>7
<1>2. CASE p = 1
  <2>1. CASE k = 1
    BY <1>2, <2>1 DEF Phase, Phase1Slave
  <2>2. CASE k = 2
    BY <1>2, <2>2 DEF Phase, Phase1Slave
  <2>3. CASE k = 3
    BY <1>2, <2>3 DEF Phase, Phase1Slave
  <2>4. L = 3
    BY <1>2, ProgramLengths DEF L
  <2>5. k \in {1, 2, 3}
    BY <1>0, <2>4
  <2> QED BY <2>1, <2>2, <2>3, <2>5
<1>3. CASE p = 2
  <2>1. CASE k = 1
    BY <1>3, <2>1 DEF Phase, Phase2Slave
  <2>2. CASE k = 2
    BY <1>3, <2>2 DEF Phase, Phase2Slave
  <2>3. CASE k = 3
    BY <1>3, <2>3 DEF Phase, Phase2Slave
  <2>4. CASE k = 4
    BY <1>3, <2>4 DEF Phase, Phase2Slave
  <2>5. L = 4
    BY <1>3, ProgramLengths DEF L
  <2>6. k \in {1, 2, 3, 4}
    BY <1>0, <2>5
  <2> QED BY <2>1, <2>2, <2>3, <2>4, <2>6
<1>4. CASE p = 3
  <2>1. CASE k = 1
    BY <1>4, <2>1 DEF Phase, Phase3Slave
  <2>2. CASE k = 2
    BY <1>4, <2>2 DEF Phase, Phase3Slave
  <2>3. L = 2
    BY <1>4, ProgramLengths DEF L
  <2>4. k \in {1, 2}
    BY <1>0, <2>3
  <2> QED BY <2>1, <2>2, <2>4
<1> QED BY <1>1, <1>2, <1>3, <1>4, ProgramLengths

LEMMA Operations ==
  ASSUME NEW t \in Both, NEW p \in 0 .. 4, NEW k \in 1 .. Len(Phase(t, p))
  PROVE  /\ Ordered(t, p, 10 * p + k, Phase(t, p)[k])
         /\ Complete(t, 10 * p + k, Phase(t, p)[k])
BY MasterOrdered, SlaveOrdered DEF Both

\* Nothing is written between the last operation of a phase and the next one.
LEMMA NothingBetween ==
  ASSUME NEW t \in Both, NEW p \in 0 .. 4
  PROVE  /\ Len(Phase(t, p)) \in 0 .. 8 /\ (p < 4 => 0 < Len(Phase(t, p)))
         /\ Seen(t, 10 * p + 1) = Seen(t, 10 * p)
         /\ Seen(t, 10 * p + 10) = Seen(t, 10 * p + Len(Phase(t, p)))
         /\ \A f \in Names : OwnerOf(f) = t => /\ StageOf(f) # 10 * p
                                               /\ 10 * p + Len(Phase(t, p)) < StageOf(f) => 10 * p + 10 < StageOf(f)
<1> DEFINE L == Len(Phase(t, p))
<1>1. L = IF t = Master THEN CASE p = 0 -> 4 [] p = 1 -> 3 [] p = 2 -> 4 [] p = 3 -> 2 [] OTHER -> 8
          ELSE CASE p = 0 -> 5 [] p = 1 -> 3 [] p = 2 -> 4 [] p = 3 -> 2 [] OTHER -> 0
  BY ProgramLengths DEF Both
<1> HIDE DEF L
<1>2. /\ L \in 0 .. 8 /\ (p < 4 => 0 < L)
      /\ Seen(t, 10 * p + 1) = Seen(t, 10 * p)
      /\ Seen(t, 10 * p + 10) = Seen(t, 10 * p + L)
  BY <1>1 DEF Seen
<1>3. ASSUME NEW f \in Names, OwnerOf(f) = t
      PROVE  StageOf(f) # 10 * p /\ (10 * p + L < StageOf(f) => 10 * p + 10 < StageOf(f))
  <2>1. CASE t = Master
    <3>1. StageOf(f) \in {3, 4, 12, 22, 24, 32, 43, 45, 46, 47}
      BY <1>3, <2>1 DEF Names, Shared, Computed, OwnerOf, StageOf, Master, Slave
    <3> QED BY <1>1, <2>1, <3>1
  <2>2. CASE t = Slave
    <3>1. StageOf(f) \in {2, 3, 5, 12, 13, 22, 24, 32} /\ t # Master
      BY <1>3, <2>2 DEF Names, Shared, Computed, OwnerOf, StageOf, Master, Slave
    <3> QED BY <1>1, <3>1
  <2> QED BY <2>1, <2>2 DEF Both
<1> QED BY <1>2, <1>3 DEF L

\* A field is written when the fences before have shown it free.
LEMMA FieldFacts ==
  ASSUME NEW f \in Shared
  PROVE  /\ OwnerOf(f) \in Both
         /\ StageOf(f) \in 1 .. 47 /\ PhaseOf(f) \in 0 .. 4
         /\ 10 * PhaseOf(f) < StageOf(f) /\ StageOf(f) < 10 * PhaseOf(f) + 10
         /\ ReadyAt(f) \in 0 .. 5 /\ FreeAt(f) \in 0 .. 5 /\ Ahead(f) \in {0, 1}
         /\ Ahead(f) = 0 => ReadyAt(f) = PhaseOf(f) + 1 /\ FreeAt(f) = 5 /\ Seen(OwnerOf(f), StageOf(f)) >= 0
         /\ Ahead(f) = 1 => ReadyAt(f) = 0 /\ FreeAt(f) = 4 /\ Seen(OwnerOf(f), StageOf(f)) = 4
<1>1. /\ OwnerOf(f) \in Both /\ StageOf(f) \in 1 .. 47 /\ PhaseOf(f) \in 0 .. 4
      /\ 10 * PhaseOf(f) < StageOf(f) /\ StageOf(f) < 10 * PhaseOf(f) + 10
  BY DEF Shared, Computed, OwnerOf, StageOf, PhaseOf, Both
<1>2. /\ f \in OfForm => OwnerOf(f) = Master /\ StageOf(f) >= 45
      /\ Seen(OwnerOf(f), StageOf(f)) >= 0
  BY DEF Shared, Computed, OwnerOf, StageOf, OfForm, Seen, Master, Slave
<1> QED BY <1>1, <1>2 DEF ReadyAt, FreeAt, Ahead, Seen

\* A gcd is the last operation of its phase, and no other one.
LEMMA GcdLast ==
  ASSUME NEW t \in Both, NEW p \in 0 .. 4, NEW k \in 1 .. Len(Phase(t, p))
  PROVE  /\ k < Len(Phase(t, p)) => Phase(t, p)[k].op # "gcd"
         /\ \A g \in Gcds : WriterOf(g) = t /\ GcdPhase(g) = p /\ k = Len(Phase(t, p)) => Phase(t, p)[k].op = "gcd"
<1> DEFINE L == Len(Phase(t, p))
<1>1. Phase(t, p)[k].op = "gcd" <=> (t = Master /\ 10 * p + k = 4) \/ (t = Slave /\ 10 * p + k = 13)
  BY Operations DEF Complete
<1>2. (t = Master /\ p = 0 => L = 4) /\ (t = Slave /\ p = 1 => L = 3)
  BY ProgramLengths
<1>6. L \in 0 .. 8 /\ k \in 1 .. L
  BY NothingBetween
<1>5. \A g \in Gcds : WriterOf(g) = t /\ GcdPhase(g) = p => (t = Master /\ p = 0) \/ (t = Slave /\ p = 1)
  BY DEF WriterOf, GcdPhase, Gcds, Both
<1> HIDE DEF L
<1>3. t = Master /\ 10 * p + k = 4 => p = 0 /\ k = 4
  BY <1>6
<1>4. t = Slave /\ 10 * p + k = 13 => p = 1 /\ k = 3
  BY <1>6
<1>7. k < L => Phase(t, p)[k].op # "gcd"
  BY <1>1, <1>2, <1>3, <1>4, <1>6
<1>8. (t = Master /\ p = 0) \/ (t = Slave /\ p = 1) => (k = L => Phase(t, p)[k].op = "gcd")
  BY <1>1, <1>2
<1> QED BY <1>5, <1>7, <1>8 DEF L

LEMMA SeenRange == ASSUME NEW t, NEW r \in Nat PROVE Seen(t, r) \in -1 .. 4
BY DEF Seen

-----------------------------------------------------------------------------
(* Places, slots and versions.                                             *)

LEMMA Pair2 ==
  /\ Both = {Master, Slave} /\ Master # Slave
  /\ Other(Master) = Slave /\ Other(Slave) = Master
BY DEF Both, Other, Master, Slave

LEMMA TwoThreads ==
  ASSUME NEW t \in Both
  PROVE  /\ Other(t) \in Both /\ Other(t) # t /\ Other(Other(t)) = t
         /\ \A u \in Both : u = t \/ u = Other(t)
BY Pair2

LEMMA Writers == ASSUME NEW g \in Gcds PROVE WriterOf(g) \in Both /\ GcdPhase(g) \in 0 .. 1
BY DEF Gcds, WriterOf, GcdPhase, Both

\* A working thread is at a place of its program.
LEMMA AtPlace ==
  ASSUME Types, NEW t \in Both, Working(t), Located(t)
  PROVE  /\ at[t][1] \in 0 .. 4 /\ at[t][2] \in 0 .. Len(Phase(t, at[t][1])) /\ at[t][2] \in 0 .. 8
         /\ at[t] = <<at[t][1], at[t][2]>> /\ iter[t] \in Nat
         /\ Stage(t) \in 0 .. 48
<1>1. /\ at[t] \in (0 .. 5) \X (0 .. 8) /\ iter[t] \in Nat
      /\ at[t][1] \in 0 .. 4 /\ at[t][2] <= Len(Phase(t, at[t][1]))
  BY DEF Types, Located
<1>2. Len(Phase(t, at[t][1])) \in 0 .. 8
  BY <1>1, NothingBetween
<1>3. at[t] = <<at[t][1], at[t][2]>>
  BY <1>1
<1>4. at[t][2] \in 0 .. 8
  BY <1>1
<1>5. at[t][2] \in 0 .. Len(Phase(t, at[t][1]))
  BY <1>1, <1>2, <1>4
<1>6. Stage(t) \in 0 .. 48
  <2>1. at[t][1] \in 0 .. 4
    BY <1>1
  <2> QED BY <2>1, <1>4 DEF Stage
<1> QED BY <1>1, <1>3, <1>4, <1>5, <1>6

LEMMA AtOperation ==
  ASSUME Types, NEW t \in Both, Working(t), Located(t), at[t][2] > 0
  PROVE  /\ Ordered(t, at[t][1], Stage(t), Now(t)) /\ Complete(t, Stage(t), Now(t))
         /\ at[t][2] \in 1 .. Len(Phase(t, at[t][1]))
<1>1. at[t][1] \in 0 .. 4 /\ at[t][2] \in 1 .. Len(Phase(t, at[t][1]))
  BY AtPlace
<1> QED BY <1>1, Operations DEF Now, Stage

LEMMA AtOpPlace ==
  ASSUME NEW t \in Both, NEW o, AtOp(t, o)
  PROVE  Working(t) /\ at[t][2] > 0 /\ Now(t).op = o
BY DEF AtOp, InPhase

LEMMA SlotOfName ==
  ASSUME ab_index \in {0, 1}, NEW f \in Names, NEW g \in Names
  PROVE  /\ Slot(f) \in Fields
         /\ Slot(f) = Slot(g) => f = g
<1>1. f \in Computed => Slot(f) = <<f, 0>>
  BY DEF Computed, Slot
<1>2. g \in Computed => Slot(g) = <<g, 0>>
  BY DEF Computed, Slot
<1>3. f \notin Computed => /\ f \in {"a", "b", "A", "B"}
                           /\ Slot(f) = CASE f = "a" -> <<"as", ab_index>> [] f = "A" -> <<"as", 1 - ab_index>>
                                          [] f = "b" -> <<"bs", ab_index>> [] OTHER -> <<"bs", 1 - ab_index>>
  BY DEF Names, Shared, Slot
<1>4. g \notin Computed => /\ g \in {"a", "b", "A", "B"}
                           /\ Slot(g) = CASE g = "a" -> <<"as", ab_index>> [] g = "A" -> <<"as", 1 - ab_index>>
                                          [] g = "b" -> <<"bs", ab_index>> [] OTHER -> <<"bs", 1 - ab_index>>
  BY DEF Names, Shared, Slot
<1>5. \A h \in Computed : h # "as" /\ h # "bs"
  BY DEF Computed
<1>6. Slot(f) \in Fields
  <2>1. CASE f \in Computed
    BY <1>1, <2>1 DEF Fields
  <2>2. CASE f \notin Computed
    BY <1>3, <2>2 DEF Fields
  <2> QED BY <2>1, <2>2
<1>7. ASSUME Slot(f) = Slot(g) PROVE f = g
  <2>1. CASE f \in Computed
    BY <1>1, <1>2, <1>4, <1>5, <1>7, <2>1
  <2>2. CASE g \in Computed
    BY <1>1, <1>2, <1>3, <1>5, <1>7, <2>2
  <2>3. CASE f \notin Computed /\ g \notin Computed
    BY <1>3, <1>4, <1>7, <2>3
  <2> QED BY <2>1, <2>2, <2>3
<1> QED BY <1>6, <1>7

LEMMA VerType == ASSUME Types, NEW f \in Names PROVE Ver(f) \in Int
BY SlotOfName DEF Types, Ver

\* What is computed from the right versions has the right version.
LEMMA WriteVersions ==
  ASSUME Types, NEW t \in Both, NEW reads, NEW writes, writes \subseteq Names \ {"a", "b"},
         Write(t, reads, writes), Right(t, reads), UNCHANGED ab_index
  PROVE  /\ val' \in [Fields -> Int]
         /\ \A f \in Names : Ver(f)' = IF f \in writes THEN iter[t] + Ahead(f) ELSE Ver(f)
<1> DEFINE new(s) == VersionWritten(CHOOSE f \in writes : Slot(f) = s, iter[t])
<1>1. val' = [s \in Fields |-> IF \E f \in writes : Slot(f) = s THEN new(s) ELSE val[s]]
  BY DEF Write
<1>2. ab_index \in {0, 1} /\ iter[t] \in Nat /\ val \in [Fields -> Int]
  BY DEF Types
<1>3. ASSUME NEW f \in writes PROVE (CHOOSE g \in writes : Slot(g) = Slot(f)) = f
  BY <1>2, <1>3, SlotOfName
<1>4. ASSUME NEW f \in writes PROVE VersionWritten(f, iter[t]) = iter[t] + Ahead(f)
  BY <1>4, <1>2 DEF VersionWritten, Version, Ahead, OfForm, Names
<1>5. ASSUME NEW f \in Names PROVE Ver(f)' = IF f \in writes THEN iter[t] + Ahead(f) ELSE Ver(f)
  <2>1. /\ Slot(f) \in Fields /\ (f \in writes => \E g \in writes : Slot(g) = Slot(f))
        /\ (\E g \in writes : Slot(g) = Slot(f)) => f \in writes
    BY <1>2, SlotOfName
  <2>2. Ver(f)' = val'[Slot(f)]
    BY DEF Ver, Slot
  <2>3. val'[Slot(f)] = IF \E g \in writes : Slot(g) = Slot(f) THEN new(Slot(f)) ELSE val[Slot(f)]
    BY <1>1, <2>1
  <2>4. f \in writes => new(Slot(f)) = iter[t] + Ahead(f)
    BY <1>3, <1>4
  <2> QED BY <2>1, <2>2, <2>3, <2>4 DEF Ver
<1>6. \A s \in Fields : (\E f \in writes : Slot(f) = s) => new(s) \in Int
  <2> TAKE s \in Fields
  <2> HAVE \E f \in writes : Slot(f) = s
  <2>1. PICK f \in writes : Slot(f) = s
    OBVIOUS
  <2>2. new(s) = iter[t] + Ahead(f)
    <3>1. (CHOOSE g \in writes : Slot(g) = s) = f
      BY <1>3, <2>1
    <3>2. new(s) = VersionWritten(f, iter[t])
      BY <3>1
    <3> QED BY <1>4, <3>2
  <2> QED BY <1>2, <2>2 DEF Ahead
<1> HIDE DEF new
<1> QED BY <1>1, <1>2, <1>5, <1>6

LEMMA SameVersions == ASSUME UNCHANGED <<val, ab_index>> PROVE \A f : Ver(f)' = Ver(f)
BY DEF Ver, Slot

\* A thread's counter lies before the next phase.
LEMMA CounterBefore ==
  ASSUME Types, NEW t \in Both, Working(t), Located(t), Clock(t)
  PROVE  /\ counter[t] \in Nat /\ counter[t] < Time(iter[t], at[t][1] + 1)
         /\ ~AtOp(t, "gcd") => counter[t] <= Time(iter[t], at[t][1])
         /\ AtOp(t, "gcd") => /\ counter[t] <= Time(iter[t], at[t][1]) + entry[t]
                              /\ entry[t] > 0 => counter[t] < Time(iter[t], at[t][1]) + entry[t]
<1>1. /\ iter[t] \in Nat /\ at[t][1] \in 0 .. 4 /\ counter[t] \in Nat /\ entry[t] \in 0 .. GcdMax + 1
      /\ GcdMax \in Nat
  BY AtPlace, FastAssumption DEF Types
<1>2. /\ Time(iter[t], at[t][1]) \in Nat /\ Time(iter[t], at[t][1] + 1) \in Nat
      /\ Time(iter[t], at[t][1]) < Time(iter[t], at[t][1] + 1)
      /\ at[t][1] <= 1 => Time(iter[t], at[t][1]) + NumCounter < Time(iter[t], at[t][1] + 1)
  <2>1. at[t][1] \in 0 .. 5 /\ at[t][1] + 1 \in 0 .. 5
    BY <1>1
  <2>2. Time(iter[t], at[t][1]) \in Nat /\ Time(iter[t], at[t][1] + 1) \in Nat
    BY <1>1, <2>1, TimeNat
  <2> QED BY <1>1, <2>2, TimeFits
<1>3. AtOp(t, "gcd") => at[t][1] <= 1
  <2> HAVE AtOp(t, "gcd")
  <2>1. at[t][2] > 0 /\ Now(t).op = "gcd"
    BY AtOpPlace
  <2>2. at[t][1] = GcdPhase(Now(t).gcd) /\ Now(t).gcd \in Gcds
    BY <2>1, AtOperation DEF Ordered
  <2> QED BY <2>2, Writers
<1>4. counter[t] <= Time(iter[t], at[t][1]) + Reached(t)
  BY DEF Clock
<1>5. Reached(t) \in 0 .. GcdMax /\ (AtOp(t, "gcd") /\ entry[t] > 0 => Reached(t) = entry[t] - 1)
      /\ (~AtOp(t, "gcd") \/ entry[t] = 0 => Reached(t) = 0)
  BY <1>1 DEF Reached
<1> QED BY <1>1, <1>2, <1>3, <1>4, <1>5 DEF NumCounter

\* Its fences have seen the other one in the phase Seen.
LEMMA HasSeen ==
  ASSUME Types, NEW t \in Both, Working(t), Located(t), NEW p \in 0 .. 5, p <= Seen(t, Stage(t))
  PROVE  Time(iter[t], p) <= counter[Other(t)]
<1>1. Stage(t) \in Nat /\ iter[t] \in Nat /\ counter[Other(t)] \in Nat
  <2>1. Stage(t) \in 0 .. 48 /\ iter[t] \in Nat
    BY AtPlace
  <2>2. counter[Other(t)] \in Nat
    BY TwoThreads DEF Types
  <2> QED BY <2>1, <2>2
<1>2. Seen(t, Stage(t)) \in 0 .. 4
  BY <1>1, SeenRange
<1>3. Time(iter[t], Seen(t, Stage(t))) <= counter[Other(t)]
  BY <1>2 DEF Located
<1>4. Time(iter[t], p) <= Time(iter[t], Seen(t, Stage(t)))
  BY <1>1, <1>2, TimeLater
<1>5. Time(iter[t], p) \in Nat /\ Time(iter[t], Seen(t, Stage(t))) \in Nat
  <2>1. Seen(t, Stage(t)) \in 0 .. 5
    BY <1>2
  <2> QED BY <1>1, <2>1, TimeNat
<1> QED BY <1>1, <1>3, <1>4, <1>5

\* Whatever a thread reads is of its squaring.
LEMMA ReadsRight ==
  ASSUME FastInv, NEW t \in Both, AtOp(t, "do") \/ AtOp(t, "gcd")
  PROVE  Right(t, Now(t).reads)
<1>1. Working(t) /\ at[t][2] > 0 /\ Now(t).op \in {"do", "gcd"}
  BY AtOpPlace
<1>2. Types /\ Located(t) /\ Clock(t) /\ Data(t) /\ NextForm /\ \A f \in Shared : Ready(f) /\ Free(f)
  BY DEF FastInv
<1>3. \A f \in Now(t).reads : MayRead(t, at[t][1], Stage(t), f)
  BY <1>1, <1>2, AtOperation DEF Ordered
<1>4. iter[t] \in Nat /\ at[t][1] \in 0 .. 4 /\ Stage(t) \in 0 .. 48
  BY <1>1, <1>2, AtPlace
<1> SUFFICES ASSUME NEW f \in Now(t).reads PROVE Ver(f) = Version(f, iter[t])
  BY DEF Right, Ver
<1>5. CASE f \in Shared /\ OwnerOf(f) = t /\ Ahead(f) = (IF StageOf(f) < Stage(t) THEN 0 ELSE 1)
  <2>1. Ver(f) = iter[t]
    BY <1>1, <1>2, <1>4, <1>5 DEF Data
  <2>2. Version(f, iter[t]) = iter[t]
    BY <1>5 DEF Version, Shared, Computed
  <2> QED BY <2>1, <2>2
<1>6. CASE f \in Shared /\ OwnerOf(f) # t /\ ReadyAt(f) <= Seen(t, Stage(t)) /\ at[t][1] < FreeAt(f)
  <2>1. /\ OwnerOf(f) = Other(t) /\ Other(OwnerOf(f)) = t
        /\ ReadyAt(f) \in 0 .. 5 /\ FreeAt(f) \in 0 .. 5 /\ Ver(f) \in Int
    BY <1>2, <1>6, FieldFacts, TwoThreads, VerType DEF Names
  <2>2. Time(iter[t], ReadyAt(f)) <= counter[OwnerOf(f)]
    BY <1>1, <1>2, <1>6, <2>1, HasSeen
  <2>3. iter[t] <= Ver(f)
    BY <1>2, <1>4, <1>6, <2>2 DEF Ready
  <2>4. counter[t] < Time(iter[t], FreeAt(f)) /\ counter[t] \in Nat
    <3>1. counter[t] < Time(iter[t], at[t][1] + 1) /\ counter[t] \in Nat
      BY <1>1, <1>2, CounterBefore
    <3>2. Time(iter[t], at[t][1] + 1) <= Time(iter[t], FreeAt(f))
      BY <1>4, <1>6, <2>1, TimeLater
    <3>3. Time(iter[t], at[t][1] + 1) \in Nat /\ Time(iter[t], FreeAt(f)) \in Nat
      <4>1. at[t][1] + 1 \in 0 .. 5
        BY <1>4
      <4> QED BY <1>4, <2>1, <4>1, TimeNat
    <3> QED BY <3>1, <3>2, <3>3
  <2>5. ~(iter[t] < Ver(f))
    <3>1. iter[t] < Ver(f) => Time(iter[t], FreeAt(f)) <= counter[t]
      BY <1>2, <1>4, <1>6, <2>1 DEF Free
    <3>2. Time(iter[t], FreeAt(f)) \in Nat
      BY <1>4, <2>1, TimeNat
    <3> QED BY <2>4, <3>1, <3>2
  <2>6. Version(f, iter[t]) = iter[t]
    BY <1>6 DEF Version, Shared, Computed
  <2> QED BY <1>4, <2>1, <2>3, <2>5, <2>6
<1>7. CASE t = Master /\ f \in {"A", "B"} /\ StageOf(f) < Stage(t) /\ Stage(t) <= 46
  <2>1. Ver(f) = iter[t] + 1
    BY <1>1, <1>2, <1>4, <1>7 DEF NextForm
  <2> QED BY <1>7, <2>1 DEF Version
<1> QED BY <1>3, <1>5, <1>6, <1>7 DEF MayRead

-----------------------------------------------------------------------------
(* What the steps of a thread have in common.  done says that one of its   *)
(* operations is complete.                                                 *)

\* The other thread is left alone, or both leave their loops.
LeavesAlone(u) ==
  /\ counter'[u] = counter[u] /\ last_fence'[u] = last_fence[u]
  /\ iter'[u] = iter[u] /\ entry'[u] = entry[u] /\ (at'[u] = at[u] \/ at'[u] = Ended)

\* The counter stays, is at the beginning of a phase or counts a gcd's entries.
Counts(t) ==
  \/ counter'[t] = counter[t]
  \/ at[t][2] = 0 /\ counter'[t] = Time(iter[t], at[t][1])
  \/ AtOp(t, "gcd") /\ counter'[t] = Time(iter[t], at[t][1]) + entry[t]

Changes(t, done) ==
  \A f \in Names :
    \/ t = Master /\ Stage(t) = 47 /\ f \in {"A", "B"}
    \/ Ver(f)' = IF done /\ OwnerOf(f) = t /\ StageOf(f) = Stage(t) THEN iter[t] + Ahead(f) ELSE Ver(f)

GivesUp(t) == ~Working(t)' /\ entries' = entries /\ failures' # 0
Calm(t) == /\ error_flag' = error_flag /\ corruption_flag' = corruption_flag /\ failures' = failures
           /\ at'[Other(t)] = at[Other(t)]
Begins(t) ==
  /\ at[t][2] = 0 /\ 0 < Len(Phase(t, at[t][1])) /\ counter'[t] = Time(iter[t], at[t][1])
  /\ at'[t] = <<at[t][1], 1>> /\ iter'[t] = iter[t] /\ entry'[t] = 0
  /\ entries' = entries
Appends(t) ==
  /\ AtOp(t, "gcd") /\ entry[t] <= GcdMax /\ counter'[t] = Time(iter[t], at[t][1]) + entry[t]
  /\ at'[t] = at[t] /\ iter'[t] = iter[t]
  /\ \E exit \in BOOLEAN :
       /\ entry[t] = GcdMax => exit
       /\ entries' = [entries EXCEPT ![Now(t).gcd][entry[t]] = <<iter[t], exit>>]
       /\ entry'[t] = IF exit THEN GcdMax + 1 ELSE entry[t] + 1
Takes(t) ==
  /\ AtOp(t, "take") /\ counter'[t] = counter[t]
  /\ at'[t] = at[t] /\ iter'[t] = iter[t]
  /\ entry[t] < GcdMax /\ entry'[t] = entry[t] + 1
  /\ Time(iter[t], at[t][1]) + entry[t] + 1 <= counter[Other(t)]
  /\ entries[Now(t).gcd][entry[t]] = <<iter[t], FALSE>> /\ entries' = entries
Completes(t) ==
  /\ Onward(t)
  /\ at[t][2] = 0 => Len(Phase(t, at[t][1])) = 0
  /\ AtOp(t, "gcd") => counter'[t] = Time(iter[t], at[t][1]) + NumCounter
  /\ ~AtOp(t, "gcd") => counter'[t] <= Time(iter[t], at[t][1])
  /\ AtOp(t, "fence") => Time(iter[t], Now(t).phase) <= counter[Other(t)]
  /\ entries' = entries

StepOf(t, done) ==
  /\ Working(t) /\ Types'
  /\ LeavesAlone(Other(t)) /\ last_fence'[t] <= counter[Other(t)]
  /\ Counts(t) /\ Changes(t, done) /\ Counted'
  /\ \/ GivesUp(t)
     \/ Calm(t) /\ ~done /\ (Begins(t) \/ Appends(t) \/ Takes(t))
     \/ Calm(t) /\ done /\ Completes(t)

LEMMA InvOf ==
  ASSUME FastInv, NEW t \in Both
  PROVE  /\ Types /\ Located(t) /\ Clock(t) /\ Data(t) /\ last_fence[t] <= counter[Other(t)] /\ NextForm
         /\ counter[t] \in Nat /\ last_fence[t] \in Nat /\ entry[t] \in 0 .. GcdMax + 1 /\ GcdMax \in Nat \ {0}
         /\ iter[t] \in Nat
         /\ Working(t) => /\ at[t][1] \in 0 .. 4 /\ at[t][2] \in 0 .. Len(Phase(t, at[t][1])) /\ at[t][2] \in 0 .. 8
                          /\ Stage(t) \in 0 .. 48 /\ Seen(t, Stage(t)) \in -1 .. 4
                          /\ counter[t] < Time(iter[t], at[t][1] + 1)
                          /\ Time(iter[t], at[t][1]) \in Nat /\ Time(iter[t], at[t][1] + 1) \in Nat
                          /\ Time(iter[t], at[t][1]) < Time(iter[t], at[t][1] + 1)
<1>1. /\ Types /\ Located(t) /\ Clock(t) /\ Data(t) /\ last_fence[t] <= counter[Other(t)] /\ NextForm
  BY DEF FastInv
<1>2. /\ counter[t] \in Nat /\ last_fence[t] \in Nat /\ entry[t] \in 0 .. GcdMax + 1 /\ GcdMax \in Nat \ {0}
      /\ iter[t] \in Nat
  BY <1>1, FastAssumption DEF Types
<1>3. ASSUME Working(t)
      PROVE  /\ at[t][1] \in 0 .. 4 /\ at[t][2] \in 0 .. Len(Phase(t, at[t][1])) /\ at[t][2] \in 0 .. 8
             /\ Stage(t) \in 0 .. 48
             /\ counter[t] < Time(iter[t], at[t][1] + 1)
  BY <1>1, <1>3, AtPlace, CounterBefore
<1>4. ASSUME Working(t)
      PROVE  /\ Time(iter[t], at[t][1]) \in Nat /\ Time(iter[t], at[t][1] + 1) \in Nat
             /\ Time(iter[t], at[t][1]) < Time(iter[t], at[t][1] + 1)
  <2>1. at[t][1] \in 0 .. 5 /\ at[t][1] + 1 \in 0 .. 5
    BY <1>3, <1>4
  <2> QED BY <1>2, <1>3, <1>4, <2>1, TimeNat, TimeFits
<1>5. ASSUME Working(t)
      PROVE  Seen(t, Stage(t)) \in -1 .. 4
  <2>1. Stage(t) \in 0 .. 48
    BY <1>3, <1>5
  <2>2. Stage(t) \in Nat
    BY <2>1
  <2> QED BY <2>2, SeenRange
<1> QED BY <1>1, <1>2, <1>3, <1>4, <1>5

LEMMA GcdAt ==
  ASSUME FastInv, NEW t \in Both, AtOp(t, "gcd")
  PROVE  /\ Now(t).gcd \in Gcds /\ WriterOf(Now(t).gcd) = t /\ Now(t).phase = at[t][1]
         /\ GcdPhase(Now(t).gcd) = at[t][1] /\ at[t][1] \in 0 .. 1
         /\ Time(iter[t], at[t][1]) + NumCounter < Time(iter[t], at[t][1] + 1)
         /\ Seen(t, Stage(t)) >= 0 /\ Time(iter[t], 0) <= counter[Other(t)]
         /\ \A g \in Gcds : WriterOf(g) = t => g = Now(t).gcd
<1>1. Working(t) /\ at[t][2] > 0 /\ Now(t).op = "gcd"
  BY AtOpPlace
<1>2. /\ Now(t).gcd \in Gcds /\ WriterOf(Now(t).gcd) = t /\ Now(t).phase = at[t][1]
      /\ GcdPhase(Now(t).gcd) = at[t][1]
  BY <1>1, InvOf, AtOperation DEF Ordered
<1>3. at[t][1] \in 0 .. 1
  BY <1>2, Writers
<1>4. Time(iter[t], at[t][1]) + NumCounter < Time(iter[t], at[t][1] + 1)
  BY <1>3, InvOf, TimeFits
<1>6. 0 <= Seen(t, Stage(t))
  BY <1>1, InvOf, AtOperation DEF Ordered
<1>7. Seen(t, Stage(t)) \in -1 .. 4
  BY <1>1, InvOf
<1>8. Time(iter[t], 0) <= counter[Other(t)]
  BY <1>1, <1>6, <1>7, InvOf, HasSeen
<1>5. \A g \in Gcds : WriterOf(g) = t => g = Now(t).gcd
  BY <1>2 DEF Gcds, WriterOf, Master, Slave
<1> QED BY <1>2, <1>3, <1>4, <1>5, <1>6, <1>7, <1>8

-----------------------------------------------------------------------------
(* A step keeps the invariant: counters and fields.                        *)

LEMMA CounterGrows ==
  ASSUME FastInv, NEW t \in Both, NEW done, StepOf(t, done)
  PROVE  /\ counter[t] <= counter'[t] /\ counter'[t] < Time(iter[t], at[t][1] + 1)
         /\ \A v \in Both : counter'[v] \in Nat /\ counter[v] \in Nat /\ counter[v] <= counter'[v]
<1>1. \A v \in Both : counter'[v] \in Nat /\ counter[v] \in Nat
  BY InvOf DEF StepOf, Types
<1>2. Working(t) /\ counter'[Other(t)] = counter[Other(t)] /\ Counts(t)
  BY DEF StepOf, LeavesAlone
<1>3. CASE counter'[t] = counter[t]
  <2>1. counter[t] < Time(iter[t], at[t][1] + 1)
    BY <1>2, InvOf
  <2> QED BY <1>1, <1>2, <1>3, <2>1, TwoThreads
<1>4. CASE at[t][2] = 0 /\ counter'[t] = Time(iter[t], at[t][1])
  <2>1. ~AtOp(t, "gcd")
    BY <1>4, InvOf, AtOpPlace
  <2>2. counter[t] <= Time(iter[t], at[t][1])
    BY <1>2, <2>1, InvOf, CounterBefore
  <2>3. Time(iter[t], at[t][1]) < Time(iter[t], at[t][1] + 1)
    BY <1>2, InvOf
  <2>4. counter[t] <= counter'[t] /\ counter'[t] < Time(iter[t], at[t][1] + 1)
    BY <1>4, <2>2, <2>3
  <2>5. counter[Other(t)] <= counter'[Other(t)]
    BY <1>1, <1>2, TwoThreads
  <2> QED BY <1>1, <2>4, <2>5, TwoThreads
<1>5. CASE AtOp(t, "gcd") /\ counter'[t] = Time(iter[t], at[t][1]) + entry[t]
  <2>1. counter[t] <= Time(iter[t], at[t][1]) + entry[t]
    BY <1>2, <1>5, InvOf, CounterBefore
  <2>2. Time(iter[t], at[t][1]) + NumCounter < Time(iter[t], at[t][1] + 1)
    BY <1>5, GcdAt
  <2>3. entry[t] <= NumCounter /\ entry[t] \in Nat /\ NumCounter \in Nat
    BY InvOf DEF NumCounter
  <2>4. Time(iter[t], at[t][1]) \in Nat /\ Time(iter[t], at[t][1] + 1) \in Nat
    BY <1>2, InvOf
  <2>5. counter[t] <= counter'[t] /\ counter'[t] < Time(iter[t], at[t][1] + 1)
    BY <1>5, <2>1, <2>2, <2>3, <2>4
  <2> QED BY <1>1, <1>2, <2>5, TwoThreads
<1> QED BY <1>2, <1>3, <1>4, <1>5 DEF Counts

LEMMA FencesKept ==
  ASSUME FastInv, NEW t \in Both, NEW done, StepOf(t, done), NEW v \in Both
  PROVE  last_fence'[v] <= counter'[Other(v)]
<1>1. /\ last_fence'[Other(t)] = last_fence[Other(t)] /\ last_fence'[t] <= counter[Other(t)]
      /\ counter'[Other(t)] = counter[Other(t)]
  BY DEF StepOf, LeavesAlone
<1>2. last_fence[Other(t)] <= counter[t] /\ last_fence[Other(t)] \in Nat
  BY InvOf, TwoThreads
<1>3. counter[t] <= counter'[t] /\ counter[t] \in Nat /\ counter'[t] \in Nat
  BY CounterGrows
<1>4. last_fence'[Other(t)] <= counter'[t]
  BY <1>1, <1>2, <1>3
<1> QED BY <1>1, <1>4, TwoThreads

\* A field changes where its owner writes it, to the version of its squaring.
LEMMA VersionGrows ==
  ASSUME FastInv, NEW t \in Both, NEW done, StepOf(t, done), NEW f \in Shared
  PROVE  /\ Ver(f) \in Int /\ Ver(f)' \in Int
         /\ OwnerOf(f) # t => Ver(f)' = Ver(f)
         /\ OwnerOf(f) = t =>
              /\ Ver(f) = iter[t] + Ahead(f) - (IF StageOf(f) < Stage(t) THEN 0 ELSE 1)
              /\ Ver(f)' = IF done /\ StageOf(f) = Stage(t) THEN iter[t] + Ahead(f) ELSE Ver(f)
              /\ Ver(f) <= Ver(f)'
<1>1. f \in Names /\ f \notin {"A", "B"}
  BY DEF Names, Shared, Computed
<1>2. Ver(f)' = IF done /\ OwnerOf(f) = t /\ StageOf(f) = Stage(t) THEN iter[t] + Ahead(f) ELSE Ver(f)
  BY <1>1 DEF StepOf, Changes
<1>3. Ver(f) \in Int /\ iter[t] \in Nat /\ Ahead(f) \in {0, 1}
  BY <1>1, InvOf, VerType, FieldFacts
<1>4. OwnerOf(f) = t => Ver(f) = iter[t] + Ahead(f) - (IF StageOf(f) < Stage(t) THEN 0 ELSE 1)
  BY InvOf DEF Data, StepOf
<1> QED BY <1>2, <1>3, <1>4

\* What the owner's counter announces is there.
LEMMA ReadyKept ==
  ASSUME FastInv, NEW t \in Both, NEW done, StepOf(t, done), NEW f \in Shared
  PROVE  Ready(f)'
<1>0. /\ OwnerOf(f) \in Both /\ ReadyAt(f) \in 0 .. 5 /\ Ahead(f) \in {0, 1} /\ PhaseOf(f) \in 0 .. 4
      /\ StageOf(f) \in 1 .. 47 /\ StageOf(f) < 10 * PhaseOf(f) + 10
      /\ Ahead(f) = 0 => ReadyAt(f) = PhaseOf(f) + 1
  BY FieldFacts
<1> SUFFICES ASSUME NEW i \in Nat, Time(i, ReadyAt(f)) <= counter'[OwnerOf(f)]
             PROVE  i <= Ver(f)'
  BY DEF Ready
<1>1. CASE OwnerOf(f) # t
  <2>1. counter'[OwnerOf(f)] = counter[OwnerOf(f)] /\ Ver(f)' = Ver(f)
    BY <1>0, <1>1, TwoThreads, VersionGrows DEF StepOf, LeavesAlone
  <2>2. Ready(f)
    BY DEF FastInv
  <2> QED BY <2>1, <2>2 DEF Ready
<1>2. CASE OwnerOf(f) = t
  <2>1. /\ Working(t) /\ iter[t] \in Nat /\ at[t][1] \in 0 .. 4 /\ at[t][2] \in 0 .. 8
    BY InvOf DEF StepOf
  <2>2. counter'[t] < Time(iter[t], at[t][1] + 1) /\ counter'[t] \in Nat
    BY CounterGrows
  <2>3. Time(iter[t], at[t][1] + 1) \in Nat /\ Time(i, ReadyAt(f)) \in Nat
    BY <1>0, <2>1, InvOf, TimeNat
  <2>4. Time(i, ReadyAt(f)) < Time(iter[t], at[t][1] + 1)
    BY <1>2, <2>2, <2>3
  <2>5. i < iter[t] \/ (i = iter[t] /\ ReadyAt(f) <= at[t][1])
    BY <1>0, <2>1, <2>4, TimeEarlier
  <2>6. Ahead(f) = 0 /\ ReadyAt(f) <= at[t][1] => StageOf(f) < Stage(t)
    BY <1>0, <2>1 DEF Stage
  <2>7. i <= Ver(f)
    BY <1>0, <1>2, <2>1, <2>5, <2>6, VersionGrows
  <2> QED BY <1>2, <2>7, VersionGrows
<1> QED BY <1>1, <1>2

\* No version is replaced before the other thread is past it.
LEMMA FreeKept ==
  ASSUME FastInv, NEW t \in Both, NEW done, StepOf(t, done), NEW f \in Shared
  PROVE  Free(f)'
<1>0. /\ OwnerOf(f) \in Both /\ FreeAt(f) \in 0 .. 5 /\ Ahead(f) \in {0, 1}
      /\ Ahead(f) = 0 => FreeAt(f) = 5 /\ Seen(OwnerOf(f), StageOf(f)) >= 0
      /\ Ahead(f) = 1 => FreeAt(f) = 4 /\ Seen(OwnerOf(f), StageOf(f)) = 4
  BY FieldFacts
<1> SUFFICES ASSUME NEW i \in Nat, i < Ver(f)'
             PROVE  Time(i, FreeAt(f)) <= counter'[Other(OwnerOf(f))]
  BY DEF Free
<1>1. Other(OwnerOf(f)) \in Both /\ Time(i, FreeAt(f)) \in Nat
  BY <1>0, TwoThreads, TimeNat
<1>2. counter[Other(OwnerOf(f))] <= counter'[Other(OwnerOf(f))] /\ counter[Other(OwnerOf(f))] \in Nat
      /\ counter'[Other(OwnerOf(f))] \in Nat
  BY <1>1, CounterGrows
<1>3. CASE Ver(f)' = Ver(f)
  <2>1. Time(i, FreeAt(f)) <= counter[Other(OwnerOf(f))]
    BY <1>3 DEF FastInv, Free
  <2> QED BY <1>1, <1>2, <2>1
<1>4. CASE Ver(f)' # Ver(f)
  <2>1. OwnerOf(f) = t /\ StageOf(f) = Stage(t) /\ Ver(f)' = iter[t] + Ahead(f)
    BY <1>4, VersionGrows
  <2>2. Working(t) /\ iter[t] \in Nat /\ Seen(t, Stage(t)) \in -1 .. 4
    BY InvOf DEF StepOf
  <2>3. CASE Ahead(f) = 0
    <3>1. i + 1 <= iter[t]
      BY <2>1, <2>2, <2>3
    <3>2. Time(i, FreeAt(f)) = Time(i + 1, 0)
      BY <1>0, <2>3, TimeWraps
    <3>3. Time(i + 1, 0) <= Time(iter[t], 0)
      BY <2>2, <3>1, TimeLater
    <3>4. Time(iter[t], 0) <= counter[Other(t)]
      BY <1>0, <2>1, <2>2, <2>3, InvOf, HasSeen
    <3>5. Time(i + 1, 0) \in Nat /\ Time(iter[t], 0) \in Nat
      BY <2>2, TimeNats
    <3> QED BY <1>2, <2>1, <3>2, <3>3, <3>4, <3>5
  <2>4. CASE Ahead(f) = 1
    <3>1. i <= iter[t]
      BY <2>1, <2>2, <2>4
    <3>2. Time(i, 4) <= Time(iter[t], 4)
      BY <2>2, <3>1, TimeLater
    <3>3. Time(iter[t], 4) <= counter[Other(t)]
      BY <1>0, <2>1, <2>2, <2>4, InvOf, HasSeen
    <3>4. Time(i, 4) \in Nat /\ Time(iter[t], 4) \in Nat
      BY <2>2, TimeNats
    <3> QED BY <1>0, <1>2, <2>1, <2>4, <3>2, <3>3, <3>4
  <2> QED BY <1>0, <2>3, <2>4
<1> QED BY <1>3, <1>4

-----------------------------------------------------------------------------
(* A step keeps the invariant: the places of the threads.                  *)

LEMMA OtherStays ==
  ASSUME FastInv, NEW t \in Both, NEW done, StepOf(t, done), Working(Other(t))'
  PROVE  LET u == Other(t)
         IN  /\ Working(u) /\ at'[u] = at[u] /\ iter'[u] = iter[u] /\ entry'[u] = entry[u]
             /\ counter'[u] = counter[u]
             /\ Stage(u)' = Stage(u) /\ Now(u)' = Now(u) /\ \A o : AtOp(u, o)' = AtOp(u, o)
<1> DEFINE u == Other(t)
<1>1. /\ at'[u] = at[u] /\ iter'[u] = iter[u] /\ entry'[u] = entry[u] /\ counter'[u] = counter[u]
  BY DEF StepOf, LeavesAlone, Working
<1>2. Working(u) /\ Stage(u)' = Stage(u) /\ Now(u)' = Now(u)
  BY <1>1 DEF Working, Stage, Now
<1>3. \A o : AtOp(u, o)' = AtOp(u, o)
  BY <1>1, <1>2 DEF AtOp, InPhase, Working
<1> QED BY <1>1, <1>2, <1>3

\* Where an operation, or an empty phase, leads to.
LEMMA OnwardTo ==
  ASSUME FastInv, NEW t \in Both, Working(t), Onward(t), at[t][2] = 0 => Len(Phase(t, at[t][1])) = 0
  PROVE  /\ entry'[t] = 0
         /\ \/ /\ at[t][2] > 0 /\ at[t][2] < Len(Phase(t, at[t][1]))
               /\ at'[t] = <<at[t][1], at[t][2] + 1>> /\ iter'[t] = iter[t]
            \/ /\ at[t][2] = Len(Phase(t, at[t][1])) /\ at[t][1] < 4
               /\ at'[t] = <<at[t][1] + 1, 0>> /\ iter'[t] = iter[t]
            \/ /\ at[t][2] = Len(Phase(t, at[t][1])) /\ at[t][1] = 4
               /\ iter'[t] = iter[t] + 1
               /\ at'[t] = IF iter[t] + 1 < Iterations THEN <<0, 0>> ELSE Ended
<1> DEFINE p == at[t][1]
           k == at[t][2]
           last == k = Len(Phase(t, p))
           to == IF ~last THEN <<p, k + 1>> ELSE IF p < 4 THEN <<p + 1, 0>>
                 ELSE IF iter[t] + 1 < Iterations THEN <<0, 0>> ELSE Ended
<1>1. at' = [at EXCEPT ![t] = to] /\ iter' = (IF last /\ p = 4 THEN [iter EXCEPT ![t] = @ + 1] ELSE iter)
      /\ entry' = [entry EXCEPT ![t] = 0]
  BY DEF Onward
<1>2. at \in [Both -> (0 .. 5) \X (0 .. 8)] /\ iter \in [Both -> Nat] /\ entry \in [Both -> 0 .. GcdMax + 1]
  BY InvOf DEF Types
<1>3. at'[t] = to /\ iter'[t] = (IF last /\ p = 4 THEN iter[t] + 1 ELSE iter[t]) /\ entry'[t] = 0
  BY <1>1, <1>2
<1>4. p \in 0 .. 4 /\ k \in 0 .. 8 /\ k \in 0 .. Len(Phase(t, p)) /\ Len(Phase(t, p)) \in 0 .. 8
  BY InvOf, NothingBetween
<1> QED BY <1>3, <1>4

LEMMA LocatedNext ==
  ASSUME NEW t \in Both,
         at'[t][1] \in 0 .. 4, at'[t][2] <= Len(Phase(t, at'[t][1])), iter'[t] < Iterations,
         entry'[t] > 0 => AtOp(t, "gcd")' \/ AtOp(t, "take")',
         AtOp(t, "take")' => entry'[t] <= GcdMax,
         Seen(t, Stage(t)') >= 0 => Time(iter'[t], Seen(t, Stage(t)')) <= counter'[Other(t)]
  PROVE  Located(t)'
BY DEF Located

LEMMA LocatedKept ==
  ASSUME FastInv, NEW t \in Both, NEW done, StepOf(t, done), NEW v \in Both
  PROVE  Located(v)'
<1>1. CASE v = Other(t)
  <2> SUFFICES ASSUME Working(v)' PROVE Located(v)'
    BY DEF Located
  <2>1. /\ Working(v) /\ at'[v] = at[v] /\ iter'[v] = iter[v] /\ entry'[v] = entry[v] /\ Stage(v)' = Stage(v)
        /\ \A o : AtOp(v, o)' = AtOp(v, o)
    BY <1>1, OtherStays
  <2>2. counter[t] <= counter'[t] /\ counter[t] \in Nat /\ counter'[t] \in Nat /\ Other(v) = t
    BY <1>1, CounterGrows, TwoThreads
  <2>3. Located(v) /\ iter[v] \in Nat /\ Seen(v, Stage(v)) \in -1 .. 4
    BY <2>1, InvOf
  <2>4. Seen(v, Stage(v)) >= 0 => Time(iter[v], Seen(v, Stage(v))) <= counter'[t]
    <3> HAVE Seen(v, Stage(v)) >= 0
    <3>1. Time(iter[v], Seen(v, Stage(v))) <= counter[t]
      BY <2>1, <2>2, <2>3 DEF Located
    <3>2. Seen(v, Stage(v)) \in 0 .. 5
      BY <2>3
    <3>3. Time(iter[v], Seen(v, Stage(v))) \in Nat
      BY <2>3, <3>2, TimeNat
    <3> QED BY <2>2, <3>1, <3>3
  <2>5. Time(iter[v], Seen(v, Stage(v)))' = Time(iter[v], Seen(v, Stage(v)))
    BY <2>1 DEF Time
  <2> QED BY <2>1, <2>2, <2>3, <2>4, <2>5 DEF Located
<1>2. CASE v = t
  <2> SUFFICES ASSUME Working(t)' PROVE Located(t)'
    BY <1>2 DEF Located
  <2> DEFINE p == at[t][1]
             k == at[t][2]
  <2>0. /\ Working(t) /\ Located(t) /\ p \in 0 .. 4 /\ k \in 0 .. 8 /\ k \in 0 .. Len(Phase(t, p)) /\ iter[t] \in Nat
        /\ Len(Phase(t, p)) \in 0 .. 8 /\ Seen(t, Stage(t)) \in -1 .. 4
    BY InvOf, NothingBetween DEF StepOf
  <2>1. counter'[Other(t)] = counter[Other(t)]
    BY DEF StepOf, LeavesAlone
  <2>2. CASE Begins(t)
    <3>1. at'[t] = <<p, 1>> /\ iter'[t] = iter[t] /\ entry'[t] = 0 /\ k = 0 /\ 0 < Len(Phase(t, p))
      BY <2>2 DEF Begins
    <3>2. Stage(t) = 10 * p /\ Stage(t)' = 10 * p + 1
      BY <2>0, <3>1 DEF Stage
    <3>3. Seen(t, 10 * p + 1) = Seen(t, 10 * p)
      BY <2>0, NothingBetween
    <3>4. Seen(t, Stage(t)') >= 0 => Time(iter[t], Seen(t, Stage(t)')) <= counter[Other(t)]
      BY <2>0, <3>2, <3>3 DEF Located
    <3>5. iter[t] < Iterations /\ at'[t][1] = p /\ at'[t][2] = 1 /\ 1 <= Len(Phase(t, p))
      BY <2>0, <3>1 DEF Located
    <3>6. Seen(t, Stage(t)') >= 0 => Time(iter'[t], Seen(t, Stage(t)')) <= counter'[Other(t)]
      BY <2>1, <3>1, <3>4
    <3>7. ~(entry'[t] > 0) /\ 0 <= GcdMax
      BY <3>1, InvOf
    <3> QED BY <2>0, <3>1, <3>5, <3>6, <3>7, LocatedNext
  <2>3. CASE Appends(t) \/ Takes(t)
    <3>1. at'[t] = at[t] /\ iter'[t] = iter[t] /\ (AtOp(t, "gcd") \/ AtOp(t, "take"))
          /\ (AtOp(t, "take") => entry'[t] <= GcdMax)
      <4>1. AtOp(t, "gcd") => ~AtOp(t, "take")
        BY DEF AtOp
      <4>2. Takes(t) => entry'[t] <= GcdMax
        BY InvOf DEF Takes
      <4> QED BY <2>3, <4>1, <4>2 DEF Appends, Takes
    <3>2. Stage(t)' = Stage(t) /\ Now(t)' = Now(t) /\ \A o : AtOp(t, o)' = AtOp(t, o)
      BY <3>1 DEF Stage, Now, AtOp, InPhase, Working
    <3>3. /\ p \in 0 .. 4 /\ k <= Len(Phase(t, p)) /\ iter[t] < Iterations
          /\ Seen(t, Stage(t)) >= 0 => Time(iter[t], Seen(t, Stage(t))) <= counter[Other(t)]
      BY <2>0 DEF Located
    <3> QED BY <2>1, <3>1, <3>2, <3>3, LocatedNext
  <2>4. CASE Completes(t)
    <3>1. Onward(t) /\ (k = 0 => Len(Phase(t, p)) = 0)
          /\ (AtOp(t, "fence") => Time(iter[t], Now(t).phase) <= counter[Other(t)])
      BY <2>4 DEF Completes
    <3>2. entry'[t] = 0
      BY <2>0, <3>1, OnwardTo
    <3>3. CASE k > 0 /\ k < Len(Phase(t, p)) /\ at'[t] = <<p, k + 1>> /\ iter'[t] = iter[t]
      <4>1. Stage(t)' = Stage(t) + 1
        <5>1. at'[t][1] = p /\ at'[t][2] = k + 1
          BY <3>3
        <5>2. p \in Nat /\ k \in Nat /\ Stage(t) = 10 * p + k
          BY <2>0 DEF Stage
        <5> QED BY <5>1, <5>2 DEF Stage
      <4>2. Ordered(t, p, Stage(t), Now(t))
        BY <2>0, <3>3, InvOf, AtOperation
      <4>3. Seen(t, Stage(t) + 1) >= 0 => Time(iter[t], Seen(t, Stage(t) + 1)) <= counter[Other(t)]
        <5>1. CASE Seen(t, Stage(t) + 1) = Seen(t, Stage(t))
          BY <2>0, <5>1 DEF Located
        <5>2. CASE Now(t).op = "fence" /\ Seen(t, Stage(t) + 1) = Now(t).phase
          BY <2>0, <3>1, <3>3, <5>2 DEF AtOp, InPhase
        <5> QED BY <4>2, <5>1, <5>2 DEF Ordered
      <4>4. at'[t][1] = p /\ at'[t][2] = k + 1 /\ k + 1 <= Len(Phase(t, p)) /\ iter[t] < Iterations
        BY <2>0, <3>3 DEF Located
      <4>5. Seen(t, Stage(t)') >= 0 => Time(iter'[t], Seen(t, Stage(t)')) <= counter'[Other(t)]
        BY <2>1, <3>3, <4>1, <4>3
      <4>6. ~(entry'[t] > 0) /\ 0 <= GcdMax
        BY <3>2, InvOf
      <4> QED BY <2>0, <3>2, <3>3, <4>4, <4>5, <4>6, LocatedNext
    <3>4. CASE k = Len(Phase(t, p)) /\ p < 4 /\ at'[t] = <<p + 1, 0>> /\ iter'[t] = iter[t]
      <4>1. Stage(t)' = 10 * p + 10 /\ Stage(t) = 10 * p + Len(Phase(t, p))
        BY <2>0, <3>4 DEF Stage
      <4>2. Seen(t, Stage(t)') = Seen(t, Stage(t))
        BY <2>0, <4>1, NothingBetween
      <4>3. p + 1 \in 0 .. 4 /\ 0 <= Len(Phase(t, p + 1))
        <5>1. p + 1 \in 0 .. 4
          BY <2>0, <3>4
        <5> QED BY <5>1, NothingBetween
      <4>4. at'[t][1] = p + 1 /\ at'[t][2] = 0
        BY <3>4
      <4>5. /\ iter[t] < Iterations
            /\ Seen(t, Stage(t)) >= 0 => Time(iter[t], Seen(t, Stage(t))) <= counter[Other(t)]
        BY <2>0 DEF Located
      <4>6. Seen(t, Stage(t)') >= 0 => Time(iter'[t], Seen(t, Stage(t)')) <= counter'[Other(t)]
        BY <2>1, <3>4, <4>2, <4>5
      <4>7. ~(entry'[t] > 0) /\ 0 <= GcdMax
        BY <3>2, InvOf
      <4> QED BY <3>2, <3>4, <4>3, <4>4, <4>5, <4>6, <4>7, LocatedNext
    <3>5. CASE /\ k = Len(Phase(t, p)) /\ p = 4 /\ iter'[t] = iter[t] + 1
               /\ at'[t] = IF iter[t] + 1 < Iterations THEN <<0, 0>> ELSE Ended
      <4>1. iter'[t] < Iterations /\ at'[t] = <<0, 0>>
        BY <3>5 DEF Working
      <4>2. Stage(t)' = 0 /\ Seen(t, 0) = -1
        BY <4>1 DEF Stage, Seen
      <4>3. at'[t][1] \in 0 .. 4 /\ at'[t][2] = 0 /\ 0 <= Len(Phase(t, 0)) /\ at'[t][1] = 0
        BY <4>1, NothingBetween
      <4>4. ~(entry'[t] > 0) /\ 0 <= GcdMax
        BY <3>2, InvOf
      <4>5. ~(Seen(t, Stage(t)') >= 0)
        BY <4>2
      <4> QED BY <3>2, <4>1, <4>3, <4>4, <4>5, LocatedNext
    <3> QED BY <2>0, <3>1, <3>3, <3>4, <3>5, OnwardTo
  <2> QED BY <2>2, <2>3, <2>4 DEF StepOf, GivesUp
<1> QED BY <1>1, <1>2, TwoThreads

LEMMA ClockKept ==
  ASSUME FastInv, NEW t \in Both, NEW done, StepOf(t, done), NEW v \in Both
  PROVE  Clock(v)'
<1>1. CASE v = Other(t)
  <2> SUFFICES ASSUME Working(v)' PROVE Clock(v)'
    BY DEF Clock
  <2>1. /\ Working(v) /\ at'[v] = at[v] /\ iter'[v] = iter[v] /\ entry'[v] = entry[v] /\ counter'[v] = counter[v]
        /\ AtOp(v, "gcd")' = AtOp(v, "gcd")
    BY <1>1, OtherStays
  <2>2. Reached(v)' = Reached(v)
    BY <2>1 DEF Reached
  <2>3. Clock(v)
    BY InvOf
  <2> QED BY <2>1, <2>2, <2>3 DEF Clock
<1>2. CASE v = t
  <2> SUFFICES ASSUME Working(t)' PROVE Clock(t)'
    BY <1>2 DEF Clock
  <2> DEFINE p == at[t][1]
             k == at[t][2]
             i == iter[t]
  <2>0. /\ Working(t) /\ p \in 0 .. 4 /\ k \in 0 .. 8 /\ i \in Nat /\ Time(i, p) \in Nat
        /\ counter[t] <= counter'[t] /\ counter'[t] < Time(i, p + 1) /\ counter[t] \in Nat /\ counter'[t] \in Nat
        /\ Time(i, p + 1) \in Nat
    BY InvOf, CounterGrows DEF StepOf
  <2>1. Reached(t)' \in Nat
    <3>1. entry'[t] \in 0 .. GcdMax + 1 /\ GcdMax \in Nat
      BY InvOf DEF StepOf, Types
    <3> QED BY <3>1 DEF Reached
  <2>2. ASSUME NEW g \in Gcds, WriterOf(g) = t, NEW j \in Nat, j < i \/ (j = i /\ GcdPhase(g) < p)
        PROVE  Time(j, GcdPhase(g)) + NumCounter <= counter'[t]
    <3>1. Time(j, GcdPhase(g)) + NumCounter <= counter[t]
      BY <2>0, <2>2, InvOf DEF Clock
    <3>2. Time(j, GcdPhase(g)) \in Nat /\ NumCounter \in Nat
      <4>1. GcdPhase(g) \in 0 .. 5
        BY Writers
      <4> QED BY <4>1, Starts, TimeNat
    <3> QED BY <2>0, <3>1, <3>2
  <2>3. CASE Begins(t)
    <3>1. at'[t][1] = p /\ iter'[t] = i /\ counter'[t] = Time(i, p)
      BY <2>3 DEF Begins
    <3> QED BY <2>0, <2>1, <2>2, <3>1 DEF Clock
  <2>4. CASE Appends(t) \/ Takes(t)
    <3>1. at'[t] = at[t] /\ iter'[t] = i
      BY <2>4 DEF Appends, Takes
    <3>2. AtOp(t, "gcd")' = AtOp(t, "gcd")
      BY <3>1 DEF AtOp, InPhase, Working, Now
    <3>3. counter'[t] <= Time(i, p) + Reached(t)'
      <4>1. CASE Appends(t)
        <5>1. /\ AtOp(t, "gcd") /\ counter'[t] = Time(i, p) + entry[t] /\ entry[t] <= GcdMax
              /\ entry'[t] \in {entry[t] + 1, GcdMax + 1}
          BY <4>1 DEF Appends
        <5>2. entry[t] \in 0 .. GcdMax + 1 /\ GcdMax \in Nat
          BY InvOf
        <5>3. Reached(t)' = entry'[t] - 1
          BY <3>2, <5>1, <5>2 DEF Reached
        <5> QED BY <2>0, <5>1, <5>2, <5>3
      <4>2. CASE Takes(t)
        <5>1. AtOp(t, "take") /\ counter'[t] = counter[t]
          BY <4>2 DEF Takes
        <5>2. ~AtOp(t, "gcd")
          BY <5>1 DEF AtOp
        <5>3. counter[t] <= Time(i, p)
          BY <2>0, <5>2, InvOf, CounterBefore
        <5> QED BY <2>0, <2>1, <5>1, <5>3
      <4> QED BY <2>4, <4>1, <4>2
    <3> QED BY <2>2, <3>1, <3>3 DEF Clock
  <2>5. CASE Completes(t)
    <3>1. /\ Onward(t) /\ (k = 0 => Len(Phase(t, p)) = 0)
          /\ AtOp(t, "gcd") => counter'[t] = Time(i, p) + NumCounter
          /\ ~AtOp(t, "gcd") => counter'[t] <= Time(i, p)
      BY <2>5 DEF Completes
    <3>2. entry'[t] = 0 /\ Reached(t)' = 0
      BY <2>0, <3>1, OnwardTo DEF Reached
    <3>3. CASE k > 0 /\ k < Len(Phase(t, p)) /\ at'[t] = <<p, k + 1>> /\ iter'[t] = i
      <4>1. Now(t).op # "gcd"
        <5> DEFINE L == Len(Phase(t, p))
        <5>1. k \in 1 .. Len(Phase(t, p))
          <6>1. k \in Nat /\ k > 0 /\ k < L
            BY <2>0, <3>3
          <6>3. L \in 0 .. 8
            BY <2>0, NothingBetween
          <6> HIDE DEF L
          <6>2. k \in 1 .. L
            BY <6>1, <6>3
          <6> QED BY <6>2 DEF L
        <5> QED BY <2>0, <3>3, <5>1, GcdLast DEF Now
      <4>2. counter'[t] <= Time(i, p)
        BY <3>1, <4>1 DEF AtOp
      <4>3. at'[t][1] = p
        BY <3>3
      <4> QED BY <2>0, <2>2, <3>2, <3>3, <4>2, <4>3 DEF Clock
    <3>4. CASE k = Len(Phase(t, p)) /\ p < 4 /\ at'[t] = <<p + 1, 0>> /\ iter'[t] = i
      <4>1. at'[t][1] = p + 1
        BY <3>4
      <4>2. counter'[t] <= Time(i, p + 1) + 0
        BY <2>0
      <4>3. ASSUME NEW g \in Gcds, WriterOf(g) = t, GcdPhase(g) = p
            PROVE  Time(i, p) + NumCounter <= counter'[t]
        <5>1. AtOp(t, "gcd")
          <6>1. k \in 1 .. Len(Phase(t, p))
            <7> DEFINE L == Len(Phase(t, p))
            <7>1. L \in 0 .. 8 /\ 0 < L /\ k = L
              BY <2>0, <3>4, NothingBetween
            <7> HIDE DEF L
            <7>2. k \in 1 .. L
              BY <7>1
            <7> QED BY <7>2 DEF L
          <6>2. Phase(t, p)[k].op = "gcd"
            BY <2>0, <3>4, <4>3, <6>1, GcdLast
          <6> QED BY <2>0, <6>1, <6>2 DEF AtOp, InPhase, Now
        <5> QED BY <2>0, <3>1, <5>1, Starts
      <4>4. ASSUME NEW g \in Gcds, WriterOf(g) = t, NEW j \in Nat, j < i \/ (j = i /\ GcdPhase(g) < p + 1)
            PROVE  Time(j, GcdPhase(g)) + NumCounter <= counter'[t]
        <5>1. GcdPhase(g) < p + 1 => GcdPhase(g) < p \/ GcdPhase(g) = p
          BY <2>0, Writers
        <5> QED BY <2>2, <4>3, <4>4, <5>1
      <4> QED BY <3>2, <3>4, <4>1, <4>2, <4>4 DEF Clock
    <3>5. CASE /\ k = Len(Phase(t, p)) /\ p = 4 /\ iter'[t] = i + 1
               /\ at'[t] = IF i + 1 < Iterations THEN <<0, 0>> ELSE Ended
      <4>1. at'[t][1] = 0
        BY <3>5 DEF Working
      <4>2. counter'[t] <= Time(i + 1, 0) + 0
        <5>1. Time(i, p + 1) = Time(i + 1, 0)
          <6>1. p + 1 = 5
            BY <3>5
          <6> QED BY <2>0, <6>1, TimeWraps
        <5> QED BY <2>0, <5>1
      <4>3. ASSUME NEW g \in Gcds, WriterOf(g) = t, NEW j \in Nat, j < i + 1
            PROVE  Time(j, GcdPhase(g)) + NumCounter <= counter'[t]
        <5>1. j < i \/ (j = i /\ GcdPhase(g) < p)
          BY <2>0, <3>5, <4>3, Writers
        <5> QED BY <2>2, <4>3, <5>1
      <4>4. ASSUME NEW g \in Gcds PROVE ~(GcdPhase(g) < 0)
        BY Writers
      <4> QED BY <3>2, <3>5, <4>1, <4>2, <4>3, <4>4 DEF Clock
    <3> QED BY <2>0, <3>1, <3>3, <3>4, <3>5, OnwardTo
  <2> QED BY <2>3, <2>4, <2>5 DEF StepOf, GivesUp
<1> QED BY <1>1, <1>2, TwoThreads

\* Where a step leads within the squarings.
LEMMA StageNext ==
  ASSUME FastInv, NEW t \in Both, NEW done \in BOOLEAN, StepOf(t, done), Working(t)'
  PROVE  /\ Stage(t)' \in Nat /\ Stage(t) \in 0 .. 48 /\ iter'[t] \in Nat /\ iter[t] \in Nat
         /\ ~done => /\ iter'[t] = iter[t] /\ Stage(t) <= Stage(t)' /\ (t = Master => Stage(t) # 47)
                     /\ \A f \in Names : OwnerOf(f) = t =>
                          (StageOf(f) < Stage(t)' <=> StageOf(f) < Stage(t))
         /\ done => \/ /\ iter'[t] = iter[t] /\ Stage(t) < Stage(t)'
                       /\ \A f \in Names : OwnerOf(f) = t =>
                            (StageOf(f) < Stage(t)' <=> StageOf(f) <= Stage(t))
                    \/ /\ iter'[t] = iter[t] + 1 /\ Stage(t)' = 0
                       /\ \A f \in Names : OwnerOf(f) = t => StageOf(f) <= Stage(t)
<1> DEFINE p == at[t][1]
           k == at[t][2]
           L == Len(Phase(t, p))
<1>0. /\ p \in 0 .. 4 /\ k \in 0 .. 8 /\ Working(t) /\ L \in 0 .. 8 /\ k \in 0 .. L
      /\ Stage(t) \in 0 .. 48 /\ Stage(t) = 10 * p + k /\ iter[t] \in Nat
      /\ \A f \in Names : OwnerOf(f) = t => /\ StageOf(f) # 10 * p
                                            /\ 10 * p + L < StageOf(f) => 10 * p + 10 < StageOf(f)
  BY InvOf, NothingBetween DEF StepOf, Stage
<1>1. \A f \in Names : StageOf(f) \in 1 .. 47
  BY DEF Names, Shared, Computed, StageOf
<1>2. CASE Begins(t) /\ ~done
  <2>1. k = 0 /\ at'[t] = <<p, 1>> /\ iter'[t] = iter[t]
    BY <1>2 DEF Begins
  <2>2. Stage(t)' = 10 * p + 1
    BY <2>1 DEF Stage
  <2> HIDE DEF L, p, k
  <2> QED BY <1>0, <1>1, <1>2, <2>1, <2>2
<1>3. CASE (Appends(t) \/ Takes(t)) /\ ~done
  <2>1. at'[t] = at[t] /\ iter'[t] = iter[t] /\ k > 0 /\ Now(t).op # "flip"
    BY <1>3 DEF Appends, Takes, AtOp, InPhase
  <2>2. Stage(t)' = Stage(t)
    BY <2>1 DEF Stage
  <2>3. Complete(t, Stage(t), Now(t)) /\ Ordered(t, p, Stage(t), Now(t))
    BY <1>0, <2>1, InvOf, AtOperation
  <2>4. t = Master => Stage(t) # 47
    BY <2>1, <2>3 DEF Complete
  <2> HIDE DEF L, p, k
  <2> QED BY <1>0, <1>3, <2>1, <2>2, <2>4
<1>4. CASE Completes(t) /\ done
  <2>1. Onward(t) /\ (k = 0 => L = 0)
    BY <1>4 DEF Completes
  <2>2. CASE k > 0 /\ k < L /\ at'[t] = <<p, k + 1>> /\ iter'[t] = iter[t]
    <3>1. Stage(t)' = 10 * p + (k + 1)
      BY <2>2 DEF Stage
    <3> HIDE DEF L, p, k
    <3> QED BY <1>0, <1>1, <1>4, <2>2, <3>1
  <2>3. CASE k = L /\ p < 4 /\ at'[t] = <<p + 1, 0>> /\ iter'[t] = iter[t]
    <3>1. Stage(t)' = 10 * (p + 1) + 0
      BY <2>3 DEF Stage
    <3> HIDE DEF L, p, k
    <3> QED BY <1>0, <1>1, <1>4, <2>3, <3>1
  <2>4. CASE /\ k = L /\ p = 4 /\ iter'[t] = iter[t] + 1
             /\ at'[t] = IF iter[t] + 1 < Iterations THEN <<0, 0>> ELSE Ended
    <3>1. Stage(t)' = 0
      BY <2>4 DEF Stage, Working
    <3> HIDE DEF L, p, k
    <3> QED BY <1>0, <1>1, <1>4, <2>4, <3>1
  <2> QED BY <1>0, <2>1, <2>2, <2>3, <2>4, OnwardTo
<1> QED BY <1>2, <1>3, <1>4 DEF StepOf, GivesUp

LEMMA DataKept ==
  ASSUME FastInv, NEW t \in Both, NEW done \in BOOLEAN, StepOf(t, done), NEW v \in Both
  PROVE  Data(v)'
<1> SUFFICES ASSUME Working(v)', NEW f \in Shared, OwnerOf(f) = v
             PROVE  Ver(f)' = iter'[v] + Ahead(f) - (IF StageOf(f) < Stage(v)' THEN 0 ELSE 1)
  BY DEF Data
<1>1. CASE v = Other(t)
  <2>1. Working(v) /\ iter'[v] = iter[v] /\ Stage(v)' = Stage(v)
    BY <1>1, OtherStays
  <2>2. Ver(f)' = Ver(f)
    BY <1>1, TwoThreads, VersionGrows
  <2> QED BY <2>1, <2>2, InvOf DEF Data
<1>2. CASE v = t
  <2>1. /\ Ver(f) = iter[t] + Ahead(f) - (IF StageOf(f) < Stage(t) THEN 0 ELSE 1)
        /\ Ver(f)' = IF done /\ StageOf(f) = Stage(t) THEN iter[t] + Ahead(f) ELSE Ver(f)
        /\ Ahead(f) \in {0, 1} /\ StageOf(f) \in 1 .. 47
    BY <1>2, VersionGrows, FieldFacts
  <2>2. f \in Names /\ Stage(t) \in 0 .. 48 /\ Stage(t)' \in Nat /\ iter[t] \in Nat
    BY <1>2, StageNext DEF Names
  <2>3. CASE ~done
    BY <1>2, <2>1, <2>2, <2>3, StageNext
  <2>4. CASE done
    <3>1. \/ iter'[t] = iter[t] /\ (StageOf(f) < Stage(t)' <=> StageOf(f) <= Stage(t))
          \/ iter'[t] = iter[t] + 1 /\ Stage(t)' = 0 /\ StageOf(f) <= Stage(t)
      BY <1>2, <2>2, <2>4, StageNext
    <3> QED BY <1>2, <2>1, <2>2, <2>4, <3>1
  <2> QED BY <2>3, <2>4
<1> QED BY <1>1, <1>2, TwoThreads

LEMMA NextFormKept ==
  ASSUME FastInv, NEW t \in Both, NEW done \in BOOLEAN, StepOf(t, done)
  PROVE  NextForm'
<1> SUFFICES ASSUME Working(Master)', NEW f \in {"A", "B"}, StageOf(f) < Stage(Master)', Stage(Master)' <= 47
             PROVE  Ver(f)' = iter'[Master] + 1
  BY DEF NextForm
<1>0. f \in Names /\ OwnerOf(f) = Master /\ Ahead(f) = 1 /\ StageOf(f) \in 32 .. 45
  BY DEF Names, OwnerOf, Ahead, OfForm, StageOf
<1>1. CASE t = Slave
  <2>1. Working(Master) /\ iter'[Master] = iter[Master] /\ Stage(Master)' = Stage(Master)
    BY <1>1, OtherStays, Pair2
  <2>2. Ver(f)' = Ver(f)
    BY <1>0, <1>1, Pair2 DEF StepOf, Changes
  <2> QED BY <2>1, <2>2, InvOf, Pair2 DEF NextForm
<1>2. CASE t = Master
  <2>1. /\ Stage(t)' \in Nat /\ Stage(t) \in 0 .. 48 /\ iter[t] \in Nat /\ Working(t)
    BY <1>2, StageNext DEF StepOf
  <2>2. Stage(t) < 47
    <3>1. CASE ~done
      BY <1>2, <2>1, <3>1, StageNext
    <3>2. CASE done
      <4>1. Stage(t)' # 0
        BY <1>0, <1>2, <2>1
      <4>2. Stage(t) < Stage(t)'
        BY <3>2, <4>1, <1>2, StageNext
      <4>3. Stage(t)' <= 47
        BY <1>2
      <4> QED BY <2>1, <4>2, <4>3
    <3> QED BY <3>1, <3>2
  <2>3. Ver(f)' = IF done /\ StageOf(f) = Stage(t) THEN iter[t] + 1 ELSE Ver(f)
    BY <1>0, <1>2, <2>1, <2>2 DEF StepOf, Changes
  <2>4. StageOf(f) < Stage(t) => Ver(f) = iter[t] + 1
    <3>1. NextForm
      BY InvOf
    <3> QED BY <1>2, <2>1, <2>2, <3>1 DEF NextForm
  <2>5. CASE ~done
    BY <1>0, <1>2, <2>1, <2>3, <2>4, <2>5, StageNext
  <2>6. CASE done
    <3>1. iter'[t] = iter[t] /\ StageOf(f) <= Stage(t)
      <4>1. Stage(t)' # 0
        BY <1>0, <1>2, <2>1
      <4> QED BY <1>0, <1>2, <2>1, <2>6, <4>1, StageNext
    <3> QED BY <1>0, <1>2, <2>1, <2>3, <2>4, <2>6, <3>1
  <2> QED BY <2>5, <2>6
<1> QED BY <1>1, <1>2, Pair2

-----------------------------------------------------------------------------
(* A step keeps the invariant: the entries of the gcds.                    *)

LEMMA TakeAt ==
  ASSUME FastInv, NEW t \in Both, AtOp(t, "take")
  PROVE  /\ Now(t).gcd \in Gcds /\ WriterOf(Now(t).gcd) = Other(t) /\ Now(t).phase = at[t][1]
         /\ GcdPhase(Now(t).gcd) = at[t][1] /\ at[t][1] \in 0 .. 1
         /\ \A g \in Gcds : WriterOf(g) = Other(t) => g = Now(t).gcd
<1>1. Working(t) /\ at[t][2] > 0 /\ Now(t).op = "take"
  BY AtOpPlace
<1>2. /\ Now(t).gcd \in Gcds /\ WriterOf(Now(t).gcd) # t /\ Now(t).phase = at[t][1]
      /\ GcdPhase(Now(t).gcd) = at[t][1]
  BY <1>1, InvOf, AtOperation DEF Ordered
<1>3. at[t][1] \in 0 .. 1 /\ WriterOf(Now(t).gcd) = Other(t)
  BY <1>2, Writers, TwoThreads
<1>4. \A g \in Gcds : WriterOf(g) = Other(t) => g = Now(t).gcd
  BY <1>2, <1>3 DEF Gcds, WriterOf, Master, Slave
<1> QED BY <1>2, <1>3, <1>4

LEMMA EntriesType ==
  ASSUME FastInv, NEW g \in Gcds
  PROVE  entries \in [Gcds -> [0 .. GcdMax -> Int \X BOOLEAN]] /\ entries[g] \in [0 .. GcdMax -> Int \X BOOLEAN]
BY DEF FastInv, Types

LEMMA ChainPrefix ==
  ASSUME NEW e, NEW i, NEW n \in Int, NEW m \in Int, m <= n, Chain(e, i, n)
  PROVE  Chain(e, i, m)
<1>1. \A k \in 0 .. m : k \in 0 .. n
  OBVIOUS
<1> QED BY <1>1 DEF Chain

\* The entries change where a gcd adds one.
LEMMA EntriesNext ==
  ASSUME FastInv, NEW t \in Both, NEW done, StepOf(t, done), NEW g \in Gcds
  PROVE  /\ ~(Appends(t) /\ WriterOf(g) = t) => entries'[g] = entries[g]
         /\ Appends(t) /\ WriterOf(g) = t =>
              /\ Working(t) /\ at[t][1] = GcdPhase(g) /\ entry[t] \in 0 .. GcdMax
              /\ \E exit \in BOOLEAN :
                   /\ entry[t] = GcdMax => exit
                   /\ entries'[g] = [entries[g] EXCEPT ![entry[t]] = <<iter[t], exit>>]
                   /\ entry'[t] = IF exit THEN GcdMax + 1 ELSE entry[t] + 1
<1>1. CASE Appends(t)
  <2>1. /\ AtOp(t, "gcd") /\ entry[t] <= GcdMax
        /\ \E exit \in BOOLEAN :
             /\ entry[t] = GcdMax => exit
             /\ entries' = [entries EXCEPT ![Now(t).gcd][entry[t]] = <<iter[t], exit>>]
             /\ entry'[t] = IF exit THEN GcdMax + 1 ELSE entry[t] + 1
    BY <1>1 DEF Appends
  <2>2. Now(t).gcd \in Gcds /\ WriterOf(Now(t).gcd) = t /\ GcdPhase(Now(t).gcd) = at[t][1]
        /\ (WriterOf(g) = t => g = Now(t).gcd)
    BY <2>1, GcdAt
  <2>3. entry[t] \in 0 .. GcdMax /\ Working(t)
    BY <2>1, InvOf DEF StepOf
  <2>4. entries \in [Gcds -> [0 .. GcdMax -> Int \X BOOLEAN]]
    BY EntriesType
  <2>5. CASE WriterOf(g) = t
    <3>1. PICK exit \in BOOLEAN :
            /\ entry[t] = GcdMax => exit
            /\ entries' = [entries EXCEPT ![g][entry[t]] = <<iter[t], exit>>]
            /\ entry'[t] = IF exit THEN GcdMax + 1 ELSE entry[t] + 1
      BY <2>1, <2>2, <2>5
    <3>2. entries'[g] = [entries[g] EXCEPT ![entry[t]] = <<iter[t], exit>>]
      BY <2>4, <3>1
    <3>3. \E e \in BOOLEAN :
            /\ entry[t] = GcdMax => e
            /\ entries'[g] = [entries[g] EXCEPT ![entry[t]] = <<iter[t], e>>]
            /\ entry'[t] = IF e THEN GcdMax + 1 ELSE entry[t] + 1
      BY <3>1, <3>2, Zenon
    <3> QED BY <1>1, <2>2, <2>3, <2>5, <3>3, Zenon
  <2>6. CASE WriterOf(g) # t
    BY <2>1, <2>2, <2>4, <2>6
  <2> QED BY <2>5, <2>6
<1>2. CASE ~Appends(t)
  BY <1>2 DEF StepOf, GivesUp, Begins, Takes, Completes
<1> QED BY <1>1, <1>2

\* An entry is added behind those that are there.
LEMMA ChainAppends ==
  ASSUME FastInv, NEW t \in Both, NEW done, StepOf(t, done), NEW g \in Gcds, Appends(t), WriterOf(g) = t
  PROVE  /\ Chain(entries'[g], iter[t], entry'[t] - 1)
         /\ \A i : \A n \in Nat : n < entry[t] /\ Chain(entries[g], i, n) => Chain(entries'[g], i, n)
<1> DEFINE x == entry[t]
           E == entries[g]
           F == entries'[g]
<1>1. PICK exit \in BOOLEAN :
        /\ x = GcdMax => exit
        /\ F = [E EXCEPT ![x] = <<iter[t], exit>>]
        /\ entry'[t] = IF exit THEN GcdMax + 1 ELSE x + 1
  BY EntriesNext
<1>2. x \in 0 .. GcdMax /\ GcdMax \in Nat /\ Working(t)
  BY EntriesNext, InvOf
<1>3. Chain(E, iter[t], x - 1)
  <2>1. AtOp(t, "gcd") /\ Begun(g)
    BY DEF Appends, FastInv
  <2> QED BY <1>2, <2>1 DEF Begun
<1>4. E \in [0 .. GcdMax -> Int \X BOOLEAN]
  BY EntriesType
<1> HIDE DEF E, F, x
<1>5. F[x] = <<iter[t], exit>> /\ \A l \in 0 .. GcdMax : l < x => F[l] = E[l]
  BY <1>1, <1>2, <1>4
<1>6. ASSUME NEW i, NEW n \in Nat, n < x, Chain(E, i, n)
      PROVE  Chain(F, i, n)
  <2> SUFFICES ASSUME NEW m \in 0 .. n, \A l \in 0 .. m - 1 : F[l] = <<i, FALSE>>
               PROVE  F[m][1] = i /\ (m = GcdMax => F[m][2])
    BY DEF Chain
  <2>1. F[m] = E[m] /\ \A l \in 0 .. m - 1 : F[l] = E[l]
    <3>1. \A l \in 0 .. m : l \in 0 .. GcdMax /\ l < x
      BY <1>2, <1>6
    <3>2. m \in 0 .. m /\ \A l \in 0 .. m - 1 : l \in 0 .. m
      OBVIOUS
    <3> QED BY <1>5, <3>1, <3>2
  <2> QED BY <1>6, <2>1 DEF Chain
<1>7. Chain(F, iter[t], entry'[t] - 1)
  <2> SUFFICES ASSUME NEW m \in 0 .. entry'[t] - 1, \A l \in 0 .. m - 1 : F[l] = <<iter[t], FALSE>>
               PROVE  F[m][1] = iter[t] /\ (m = GcdMax => F[m][2])
    BY DEF Chain
  <2>1. m \in 0 .. GcdMax /\ m \in Nat /\ x \in Nat
    BY <1>1, <1>2
  <2>2. CASE m < x
    <3>1. m \in 0 .. x - 1 /\ \A l \in 0 .. m - 1 : l \in 0 .. GcdMax /\ l < x
      BY <1>2, <2>1, <2>2
    <3>2. F[m] = E[m] /\ \A l \in 0 .. m - 1 : E[l] = <<iter[t], FALSE>>
      BY <1>5, <2>1, <2>2, <3>1
    <3> QED BY <1>3, <3>1, <3>2 DEF Chain
  <2>3. CASE m = x
    BY <1>1, <1>5, <2>3
  <2>4. CASE m > x
    <3>1. x \in 0 .. m - 1
      BY <2>1, <2>4
    <3>2. ~exit
      <4>1. <<iter[t], exit>> = <<iter[t], FALSE>>
        BY <1>5, <3>1, Zenon
      <4>2. <<iter[t], exit>>[2] = exit /\ <<iter[t], FALSE>>[2] = FALSE
        BY Zenon
      <4> QED BY <4>1, <4>2, Zenon
    <3> QED BY <1>1, <2>1, <2>4, <3>2
  <2> QED BY <2>1, <2>2, <2>3, <2>4
<1> QED BY <1>6, <1>7 DEF E, F, x

LEMMA BegunKept ==
  ASSUME FastInv, NEW t \in Both, NEW done, StepOf(t, done), NEW g \in Gcds
  PROVE  Begun(g)'
<1> DEFINE w == WriterOf(g)
<1> SUFFICES ASSUME Working(w)', AtOp(w, "gcd")' PROVE Chain(entries'[g], iter'[w], entry'[w] - 1)
  BY DEF Begun
<1>1. CASE w # t
  <2>1. w = Other(t)
    BY <1>1, Writers, TwoThreads
  <2>2. Working(w) /\ AtOp(w, "gcd") /\ iter'[w] = iter[w] /\ entry'[w] = entry[w]
    BY <2>1, OtherStays
  <2>3. Chain(entries[g], iter[w], entry[w] - 1)
    BY <2>2 DEF FastInv, Begun
  <2>4. entries'[g] = entries[g]
    BY <1>1, EntriesNext
  <2> QED BY <2>2, <2>3, <2>4
<1>2. CASE w = t
  <2>1. CASE Appends(t)
    <3>1. iter'[t] = iter[t]
      BY <2>1 DEF Appends
    <3> QED BY <1>2, <2>1, <3>1, ChainAppends
  <2>2. CASE Takes(t)
    <3>1. AtOp(t, "gcd")' = AtOp(t, "gcd") /\ AtOp(t, "take")
      BY <2>2 DEF Takes, AtOp, InPhase, Working, Now
    <3> QED BY <1>2, <3>1 DEF AtOp
  <2>3. CASE Begins(t) \/ Completes(t)
    <3>1. entry'[t] = 0
      BY <2>3, OnwardTo DEF Begins, Completes, StepOf
    <3>2. \A m : m \notin 0 .. 0 - 1
      OBVIOUS
    <3> QED BY <1>2, <3>1, <3>2 DEF Chain
  <2> QED BY <1>2, <2>1, <2>2, <2>3 DEF StepOf, GivesUp
<1> QED BY <1>1, <1>2

\* A writer among its entries is at the squaring its reader is at, or waits for.
LEMMA SameSquaring ==
  ASSUME FastInv, NEW t \in Both, AtOp(t, "gcd"), NEW i \in Nat, NEW n \in Nat,
         Time(i, at[t][1]) + n < Time(iter[t], at[t][1] + 1), counter[Other(t)] < Time(i + 1, 0)
  PROVE  i = iter[t]
<1>1. /\ iter[t] \in Nat /\ at[t][1] \in 0 .. 1 /\ counter[Other(t)] \in Nat /\ Time(iter[t], 0) <= counter[Other(t)]
  BY InvOf, GcdAt, TwoThreads
<1>2. /\ Time(i, at[t][1]) \in Nat /\ Time(iter[t], at[t][1] + 1) \in Nat
  <2>1. at[t][1] \in 0 .. 5 /\ at[t][1] + 1 \in 0 .. 5
    BY <1>1
  <2> QED BY <1>1, <2>1, TimeNat
<1>3. Time(i, at[t][1]) < Time(iter[t], at[t][1] + 1)
  BY <1>2
<1>4. i <= iter[t]
  <2>1. at[t][1] \in 0 .. 4 /\ at[t][1] \in 0 .. 5
    BY <1>1
  <2> QED BY <1>1, <1>3, <2>1, TimeEarlier
<1>5. ~(i < iter[t])
  <2> SUFFICES ASSUME i < iter[t] PROVE FALSE
    OBVIOUS
  <2>1. Time(i + 1, 0) <= Time(iter[t], 0)
    BY <1>1, TimeLater
  <2>2. Time(i + 1, 0) \in Nat /\ Time(iter[t], 0) \in Nat
    BY <1>1, TimeNats
  <2> QED BY <1>1, <2>1, <2>2
<1> QED BY <1>1, <1>4, <1>5

LEMMA PublishedKept ==
  ASSUME FastInv, NEW t \in Both, NEW done, StepOf(t, done), NEW g \in Gcds
  PROVE  Published(g)'
<1> DEFINE w == WriterOf(g)
           q == GcdPhase(g)
<1>0. w \in Both /\ q \in 0 .. 1 /\ GcdMax \in Nat /\ q \in 0 .. 5 /\ q \in 0 .. 4 /\ Other(w) \in Both
  BY Writers, InvOf, TwoThreads
<1> SUFFICES ASSUME NEW i \in Nat, NEW n \in 0 .. GcdMax,
                    Time(i, q) + n + 1 <= counter'[w], counter'[Other(w)] < Time(i + 1, 0)
             PROVE  Chain(entries'[g], i, n)
  BY DEF Published
<1>1. Time(i, q) \in Nat /\ Time(i + 1, 0) \in Nat /\ n \in Nat
  <2>1. n \in Nat /\ i + 1 \in Nat
    BY <1>0
  <2> QED BY <1>0, <2>1, TimeNat, TimeNats
<1>2. ASSUME Time(i, q) + n + 1 <= counter[w], counter[Other(w)] < Time(i + 1, 0)
      PROVE  Chain(entries[g], i, n)
  BY <1>2 DEF FastInv, Published
<1>3. CASE w # t
  <2>1. counter'[w] = counter[w] /\ counter[Other(w)] <= counter'[Other(w)]
        /\ counter[Other(w)] \in Nat /\ counter'[Other(w)] \in Nat
    BY <1>0, <1>3, TwoThreads, CounterGrows DEF StepOf, LeavesAlone
  <2>2. Chain(entries[g], i, n)
    BY <1>1, <1>2, <2>1
  <2>3. entries'[g] = entries[g]
    BY <1>3, EntriesNext
  <2> QED BY <2>2, <2>3
<1>4. CASE w = t
  <2>0. /\ counter'[Other(t)] = counter[Other(t)] /\ Working(t) /\ iter[t] \in Nat /\ entry[t] \in 0 .. GcdMax + 1
        /\ at[t][1] \in 0 .. 4 /\ Time(iter[t], at[t][1]) \in Nat
    BY InvOf DEF StepOf, LeavesAlone
  <2>1. CASE AtOp(t, "gcd") /\ counter'[t] = Time(iter[t], at[t][1]) + entry[t]
    <3>1. q = at[t][1] /\ Time(iter[t], q) + NumCounter < Time(iter[t], q + 1) /\ Begun(g)
      BY <1>4, <2>1, GcdAt DEF FastInv
    <3>2. entry[t] <= NumCounter /\ NumCounter \in Nat /\ Time(iter[t], q + 1) \in Nat
      BY <2>0, <3>1, InvOf DEF NumCounter
    <3>3. Time(i, q) + n < Time(iter[t], q + 1)
      BY <1>1, <1>4, <2>0, <2>1, <3>1, <3>2
    <3>4. i = iter[t]
      BY <1>1, <1>4, <2>0, <2>1, <3>1, <3>3, SameSquaring
    <3>5. n < entry[t]
      BY <1>1, <1>4, <2>0, <2>1, <3>1, <3>4
    <3>6. Chain(entries[g], i, n)
      <4>1. Chain(entries[g], iter[t], entry[t] - 1)
        BY <1>4, <2>0, <2>1, <3>1 DEF Begun
      <4> QED BY <1>1, <2>0, <3>4, <3>5, <4>1, ChainPrefix
    <3>7. CASE Appends(t)
      BY <1>1, <1>4, <3>5, <3>6, <3>7, ChainAppends
    <3>8. CASE ~Appends(t)
      BY <3>6, <3>8, EntriesNext
    <3> QED BY <3>7, <3>8
  <2>2. ASSUME ~Appends(t), Time(i, q) + n + 1 <= counter[t] PROVE Chain(entries'[g], i, n)
    BY <1>2, <1>4, <2>0, <2>2, EntriesNext
  <2>3. CASE counter'[t] = counter[t] /\ ~Appends(t)
    BY <1>4, <2>2, <2>3
  <2>4. CASE at[t][2] = 0 /\ counter'[t] = Time(iter[t], at[t][1])
    <3>1. ~Appends(t)
      <4>1. Appends(t) => AtOp(t, "gcd")
        BY DEF Appends
      <4>2. AtOp(t, "gcd") => at[t][2] > 0
        BY AtOpPlace
      <4> QED BY <2>4, <4>1, <4>2
    <3>2. i < iter[t] \/ (i = iter[t] /\ q < at[t][1])
      <4> SUFFICES ASSUME iter[t] < i \/ (i = iter[t] /\ at[t][1] <= q) PROVE FALSE
        BY <1>0, <2>0
      <4>1. Time(iter[t], at[t][1]) <= Time(i, q)
        BY <1>0, <2>0, TimeLater
      <4> QED BY <1>1, <1>4, <2>0, <2>4, <4>1
    <3>3. Time(i, q) + NumCounter <= counter[t]
      BY <1>0, <1>4, <2>0, <3>2, InvOf DEF Clock
    <3>4. n + 1 <= NumCounter /\ counter[t] \in Nat /\ NumCounter \in Nat
      BY <1>0, <1>1, InvOf DEF NumCounter
    <3>5. Time(i, q) + n + 1 <= counter[t]
      BY <1>1, <3>3, <3>4
    <3> QED BY <2>2, <3>1, <3>5
  <2>5. Appends(t) => AtOp(t, "gcd") /\ counter'[t] = Time(iter[t], at[t][1]) + entry[t]
    BY DEF Appends
  <2> QED BY <2>1, <2>3, <2>4, <2>5 DEF StepOf, Counts
<1> QED BY <1>3, <1>4

LEMMA TakenKept ==
  ASSUME FastInv, NEW t \in Both, NEW done, StepOf(t, done), NEW g \in Gcds
  PROVE  Taken(g)'
<1> DEFINE w == WriterOf(g)
           u == Other(w)
           q == GcdPhase(g)
<1>0. w \in Both /\ u \in Both /\ u # w /\ Other(u) = w /\ q \in 0 .. 1 /\ q \in 0 .. 5 /\ GcdMax \in Nat
  BY Writers, InvOf, TwoThreads
<1> SUFFICES ASSUME Working(u)', AtOp(u, "take")', entry'[u] > 0
             PROVE  /\ \A l \in 0 .. entry'[u] - 1 : entries'[g][l] = <<iter'[u], FALSE>>
                    /\ Time(iter'[u], q) + entry'[u] <= counter'[w]
  BY DEF Taken
<1>1. CASE u # t
  <2>1. w = t /\ u = Other(t)
    BY <1>0, <1>1, TwoThreads
  <2>2. Working(u) /\ AtOp(u, "take") /\ iter'[u] = iter[u] /\ entry'[u] = entry[u]
    BY <2>1, OtherStays
  <2>3. /\ \A l \in 0 .. entry[u] - 1 : entries[g][l] = <<iter[u], FALSE>>
        /\ Time(iter[u], q) + entry[u] <= counter[t]
    BY <2>1, <2>2 DEF FastInv, Taken
  <2>4. counter[t] <= counter'[t] /\ counter[t] \in Nat /\ counter'[t] \in Nat /\ Time(iter[u], q) \in Nat
        /\ entry[u] \in 0 .. GcdMax + 1 /\ iter[u] \in Nat
    <3>1. iter[u] \in Nat /\ entry[u] \in 0 .. GcdMax + 1
      BY <1>0, InvOf
    <3> QED BY <1>0, <3>1, CounterGrows, TimeNat
  <2>7. Time(iter'[u], q) + entry'[u] <= counter'[w]
    <3>1. Time(iter[u], q) + entry[u] <= counter'[t]
      BY <2>3, <2>4
    <3> QED BY <2>1, <2>2, <3>1
  <2>5. CASE ~Appends(t)
    <3>1. entries'[g] = entries[g]
      BY <2>1, <2>5, EntriesNext
    <3>2. \A l \in 0 .. entry'[u] - 1 : entries'[g][l] = <<iter'[u], FALSE>>
      BY <2>2, <2>3, <3>1
    <3> QED BY <2>7, <3>2
  <2>6. CASE Appends(t)
    <3>1. /\ AtOp(t, "gcd") /\ q = at[t][1] /\ entry[t] \in 0 .. GcdMax /\ Working(t)
      BY <2>1, <2>6, EntriesNext DEF Appends
    <3>2. /\ counter[t] < Time(iter[t], q + 1) /\ Time(iter[t], q + 1) \in Nat /\ iter[t] \in Nat
          /\ counter[t] <= Time(iter[t], q) + entry[t] /\ Time(iter[t], q) \in Nat
      BY <3>1, InvOf, CounterBefore
    <3>3. counter[u] < Time(iter[u] + 1, 0)
      <4>1. counter[u] < Time(iter[u], at[u][1] + 1) /\ at[u][1] \in 0 .. 4 /\ counter[u] \in Nat
        BY <1>0, <2>2, InvOf
      <4>2. Time(iter[u], at[u][1] + 1) <= Time(iter[u], 5)
        BY <2>4, <4>1, TimeLater
      <4>3. Time(iter[u], 5) = Time(iter[u] + 1, 0)
        BY <2>4, TimeWraps
      <4>4. Time(iter[u], at[u][1] + 1) \in Nat /\ Time(iter[u], 5) \in Nat
        BY <1>0, <2>2, <2>4, InvOf, TimeNats
      <4> QED BY <4>1, <4>2, <4>3, <4>4
    <3>4. iter[u] = iter[t]
      <4>1. Time(iter[u], at[t][1]) + entry[u] < Time(iter[t], at[t][1] + 1)
        BY <2>3, <2>4, <3>1, <3>2
      <4> QED BY <2>1, <2>4, <3>1, <3>3, <4>1, SameSquaring
    <3>5. entry[u] <= entry[t]
      BY <2>3, <2>4, <3>1, <3>2, <3>4
    <3>6. \A l \in 0 .. entry[u] - 1 : entries'[g][l] = entries[g][l]
      <4>1. PICK exit \in BOOLEAN : entries'[g] = [entries[g] EXCEPT ![entry[t]] = <<iter[t], exit>>]
        BY <2>1, <2>6, EntriesNext
      <4>2. entries[g] \in [0 .. GcdMax -> Int \X BOOLEAN]
        BY EntriesType
      <4>3. ASSUME NEW l \in 0 .. entry[u] - 1 PROVE l \in 0 .. GcdMax /\ l # entry[t]
        <5> DEFINE x == entry[t]
                   y == entry[u]
        <5>1. x \in 0 .. GcdMax /\ y \in 0 .. GcdMax + 1 /\ y <= x /\ GcdMax \in Nat /\ l \in 0 .. y - 1
          BY <1>0, <2>4, <3>1, <3>5
        <5> HIDE DEF x, y
        <5>2. l \in 0 .. GcdMax /\ l # x
          BY <5>1
        <5> QED BY <5>2 DEF x
      <4> QED BY <4>1, <4>2, <4>3
    <3>7. \A l \in 0 .. entry'[u] - 1 : entries'[g][l] = <<iter'[u], FALSE>>
      BY <2>2, <2>3, <3>6
    <3> QED BY <2>7, <3>7
  <2> QED BY <2>5, <2>6
<1>2. CASE u = t
  <2>0. w = Other(t) /\ counter'[w] = counter[w] /\ Working(t) /\ iter[t] \in Nat /\ entry[t] \in 0 .. GcdMax + 1
    BY <1>0, <1>2, InvOf DEF StepOf, LeavesAlone
  <2>1. CASE Begins(t) \/ Completes(t)
    <3>1. entry'[t] = 0
      BY <2>1, OnwardTo DEF Begins, Completes, StepOf
    <3> QED BY <1>2, <3>1
  <2>2. CASE Appends(t)
    <3>1. AtOp(t, "take")' = AtOp(t, "take") /\ AtOp(t, "gcd")
      BY <2>2 DEF Appends, AtOp, InPhase, Working, Now
    <3> QED BY <1>2, <3>1 DEF AtOp
  <2>3. CASE Takes(t)
    <3>1. /\ AtOp(t, "take") /\ iter'[t] = iter[t] /\ entry'[t] = entry[t] + 1 /\ entries' = entries
          /\ Time(iter[t], at[t][1]) + entry[t] + 1 <= counter[Other(t)]
          /\ entries[Now(t).gcd][entry[t]] = <<iter[t], FALSE>>
      BY <2>3 DEF Takes
    <3>2. Now(t).gcd = g /\ q = at[t][1]
      BY <2>0, <3>1, TakeAt
    <3>3. Time(iter'[t], q) + entry'[t] <= counter'[w]
      <4>1. Time(iter[t], q) \in Nat /\ counter[w] \in Nat
        BY <1>0, <2>0, TimeNat, InvOf
      <4> QED BY <2>0, <3>1, <3>2, <4>1
    <3>4. ASSUME NEW l \in 0 .. entry'[t] - 1 PROVE entries'[g][l] = <<iter'[t], FALSE>>
      <4>1. CASE l = entry[t]
        BY <3>1, <3>2, <4>1
      <4>2. CASE l # entry[t]
        <5>1. entry[t] > 0 /\ l \in 0 .. entry[t] - 1
          BY <2>0, <3>1, <3>4, <4>2
        <5>2. Taken(g)
          BY DEF FastInv
        <5> QED BY <1>2, <2>0, <3>1, <5>1, <5>2 DEF Taken
      <4> QED BY <4>1, <4>2
    <3> QED BY <1>2, <3>3, <3>4
  <2> QED BY <1>2, <2>1, <2>2, <2>3 DEF StepOf, GivesUp
<1> QED BY <1>1, <1>2

-----------------------------------------------------------------------------
(* A step keeps the invariant: nothing is left out.                        *)

LEMMA NothingFailedKept ==
  ASSUME FastInv, NEW t \in Both, NEW done, StepOf(t, done)
  PROVE  NothingFailed'
<1> SUFFICES ASSUME failures' = 0 PROVE NothingFailed'
  BY DEF NothingFailed
<1> DEFINE u == Other(t)
<1>1. Calm(t) /\ (Begins(t) \/ Appends(t) \/ Takes(t) \/ Completes(t)) /\ Working(t)
  BY DEF StepOf, GivesUp
<1>2. /\ error_flag' = error_flag /\ corruption_flag' = corruption_flag /\ failures = 0
      /\ at'[u] = at[u] /\ iter'[u] = iter[u]
  BY <1>1 DEF Calm, StepOf, LeavesAlone
<1>3. /\ \A v \in Both : ~error_flag[v] /\ (~Working(v) => iter[v] = Iterations)
      /\ ~Working(Master) => num_valid_iterations = Iterations
      /\ ~corruption_flag
  BY <1>2 DEF FastInv, NothingFailed
<1>4. ~Working(u)' => iter'[u] = Iterations
  BY <1>2, <1>3, TwoThreads DEF Working
<1>5. ASSUME ~Working(t)'
      PROVE  /\ iter'[t] = Iterations /\ iter[t] + 1 = Iterations
             /\ at[t][2] = Len(Phase(t, at[t][1])) /\ at[t][1] = 4
  <2>1. /\ at[t][1] \in 0 .. 4 /\ iter[t] \in Nat /\ iter[t] < Iterations /\ Iterations \in Nat
    BY <1>1, InvOf, FastAssumption DEF Located
  <2>2. Completes(t)
    <3>1. Begins(t) => Working(t)'
      BY <2>1 DEF Begins, Working, Ended
    <3>2. Appends(t) \/ Takes(t) => Working(t)'
      BY <1>1 DEF Appends, Takes, Working
    <3> QED BY <1>1, <1>5, <3>1, <3>2
  <2>3. \/ at'[t] = <<at[t][1], at[t][2] + 1>>
        \/ at'[t] = <<at[t][1] + 1, 0>> /\ at[t][1] < 4
        \/ /\ at[t][2] = Len(Phase(t, at[t][1])) /\ at[t][1] = 4
           /\ iter'[t] = iter[t] + 1
           /\ at'[t] = IF iter[t] + 1 < Iterations THEN <<0, 0>> ELSE Ended
    BY <1>1, <2>2, OnwardTo DEF Completes
  <2>4. at'[t] = <<5, 0>> /\ Ended = <<5, 0>>
    BY <1>5 DEF Working, Ended
  <2>5. CASE at'[t] = <<at[t][1], at[t][2] + 1>>
    BY <2>1, <2>4, <2>5
  <2>6. CASE at'[t] = <<at[t][1] + 1, 0>> /\ at[t][1] < 4
    BY <2>1, <2>4, <2>6
  <2> QED BY <2>1, <2>3, <2>4, <2>5, <2>6
<1>6. ~Working(Master)' => num_valid_iterations' = Iterations
  <2> SUFFICES ASSUME ~Working(Master)' PROVE num_valid_iterations' = Iterations
    OBVIOUS
  <2>0. num_valid_iterations' = Ver("a")' /\ num_valid_iterations = Ver("a") /\ "a" \in Shared /\ OwnerOf("a") = Master
    BY DEF FastInv, StepOf, Counted, Shared, OwnerOf
  <2>1. CASE t = Slave
    <3>1. Ver("a")' = Ver("a")
      BY <2>0, <2>1, VersionGrows, Pair2
    <3>2. ~Working(Master)
      BY <1>2, <2>1, Pair2 DEF Working
    <3> QED BY <1>3, <2>0, <3>1, <3>2
  <2>2. CASE t = Master
    <3>1. at[t][2] = 8 /\ at[t][1] = 4 /\ iter[t] + 1 = Iterations
      <4>1. Len(Phase(Master, 4)) = 8
        BY ProgramLengths
      <4> QED BY <1>5, <2>2, <4>1
    <3>2. Stage(t) = 48 /\ StageOf("a") = 47 /\ Ahead("a") = 1
      BY <3>1 DEF Stage, StageOf, Ahead, OfForm
    <3>3. Ver("a")' = Ver("a") /\ Ver("a") = iter[t] + 1 - 0
      BY <2>0, <2>2, <3>2, VersionGrows
    <3> QED BY <2>0, <3>1, <3>3, FastAssumption
  <2> QED BY <2>1, <2>2, Pair2
<1>7. ASSUME NEW v \in Both PROVE ~error_flag'[v] /\ (~Working(v)' => iter'[v] = Iterations)
  BY <1>2, <1>3, <1>4, <1>5, TwoThreads
<1> QED BY <1>2, <1>3, <1>6, <1>7 DEF NothingFailed

LEMMA StepKeeps ==
  ASSUME FastInv, NEW t \in Both, NEW done \in BOOLEAN, StepOf(t, done)
  PROVE  FastInv'
<1>1. Types' /\ Counted'
  BY DEF StepOf
<1>2. \A v \in Both : Located(v)' /\ Clock(v)' /\ Data(v)' /\ last_fence'[v] <= counter'[Other(v)]
  BY LocatedKept, ClockKept, DataKept, FencesKept
<1>3. NextForm' /\ NothingFailed'
  BY NextFormKept, NothingFailedKept
<1>4. \A f \in Shared : Ready(f)' /\ Free(f)'
  BY ReadyKept, FreeKept
<1>5. \A g \in Gcds : Begun(g)' /\ Published(g)' /\ Taken(g)'
  BY BegunKept, PublishedKept, TakenKept
<1> QED BY <1>1, <1>2, <1>3, <1>4, <1>5 DEF FastInv

-----------------------------------------------------------------------------
(* The actions.                                                            *)

LEMMA OnwardTypes ==
  ASSUME FastInv, NEW t \in Both, Working(t), Onward(t), at[t][2] = 0 => Len(Phase(t, at[t][1])) = 0
  PROVE  /\ iter' \in [Both -> Nat] /\ at' \in [Both -> (0 .. 5) \X (0 .. 8)] /\ entry' \in [Both -> 0 .. GcdMax + 1]
         /\ \A v \in Both \ {t} : at'[v] = at[v] /\ iter'[v] = iter[v] /\ entry'[v] = entry[v]
<1> DEFINE p == at[t][1]
           k == at[t][2]
           L == Len(Phase(t, p))
           to == IF k # L THEN <<p, k + 1>> ELSE IF p < 4 THEN <<p + 1, 0>>
                 ELSE IF iter[t] + 1 < Iterations THEN <<0, 0>> ELSE Ended
<1>1. at' = [at EXCEPT ![t] = to] /\ iter' = (IF k = L /\ p = 4 THEN [iter EXCEPT ![t] = @ + 1] ELSE iter)
      /\ entry' = [entry EXCEPT ![t] = 0]
  BY DEF Onward
<1>2. at \in [Both -> (0 .. 5) \X (0 .. 8)] /\ iter \in [Both -> Nat] /\ entry \in [Both -> 0 .. GcdMax + 1]
      /\ GcdMax \in Nat
  BY InvOf DEF Types
<1>3. p \in 0 .. 4 /\ k \in 0 .. 8 /\ k \in 0 .. L /\ L \in 0 .. 8
  BY InvOf, NothingBetween
<1> HIDE DEF p, k, L
<1>4. to \in (0 .. 5) \X (0 .. 8)
  BY <1>3 DEF Ended
<1> HIDE DEF to
<1> QED BY <1>1, <1>2, <1>4

LEMMA GiveUpTypes ==
  ASSUME FastInv, NEW t \in Both, GiveUp(t)
  PROVE  /\ iter' \in [Both -> Nat] /\ at' \in [Both -> (0 .. 5) \X (0 .. 8)] /\ entry' \in [Both -> 0 .. GcdMax + 1]
         /\ error_flag' \in [Both -> BOOLEAN]
         /\ ~Working(t)'
         /\ \A v \in Both \ {t} : (at'[v] = at[v] \/ at'[v] = Ended) /\ iter'[v] = iter[v] /\ entry'[v] = entry[v]
<1>1. at \in [Both -> (0 .. 5) \X (0 .. 8)] /\ iter \in [Both -> Nat] /\ entry \in [Both -> 0 .. GcdMax + 1]
  BY DEF FastInv, Types
<1>2. Ended \in (0 .. 5) \X (0 .. 8)
  BY DEF Ended
<1> QED BY <1>1, <1>2 DEF GiveUp, Working

\* A thread that has seen a flag is not the first to fail.
LEMMA Failed ==
  ASSUME FastInv, NEW v \in Both, error_flag[v]
  PROVE  failures # 0
BY DEF FastInv, NothingFailed

LEMMA NothingWritten ==
  ASSUME FastInv, NEW t \in Both, Working(t), UNCHANGED <<val, ab_index>>
  PROVE  /\ Changes(t, FALSE)
         /\ at[t][2] = 0 => Changes(t, TRUE)
         /\ at[t][2] > 0 /\ Now(t).op \notin {"do", "gcd", "flip"} => Changes(t, TRUE)
<1>1. \A f : Ver(f)' = Ver(f)
  BY SameVersions
<1>2. Changes(t, FALSE)
  BY <1>1 DEF Changes
<1>3. at[t][2] = 0 => Changes(t, TRUE)
  <2> HAVE at[t][2] = 0
  <2>1. Stage(t) = 10 * at[t][1] /\ at[t][1] \in 0 .. 4
    BY InvOf DEF Stage
  <2> QED BY <1>1, <2>1, NothingBetween DEF Changes
<1>4. at[t][2] > 0 /\ Now(t).op \notin {"do", "gcd", "flip"} => Changes(t, TRUE)
  <2> HAVE at[t][2] > 0 /\ Now(t).op \notin {"do", "gcd", "flip"}
  <2>1. Complete(t, Stage(t), Now(t))
    BY InvOf, AtOperation
  <2>2. \A f \in {"a", "b"} : OwnerOf(f) = Master /\ StageOf(f) = 47
    BY DEF OwnerOf, StageOf
  <2>3. \A f \in Names : ~(OwnerOf(f) = t /\ StageOf(f) = Stage(t))
    BY <2>1, <2>2 DEF Complete, Names, Shared
  <2> QED BY <1>1, <2>3 DEF Changes
<1> QED BY <1>2, <1>3, <1>4

\* What an operation computes.
LEMMA Computes ==
  ASSUME FastInv, NEW t \in Both, Working(t), AtOp(t, "do") \/ AtOp(t, "gcd"),
         Write(t, Now(t).reads, Now(t).writes), UNCHANGED <<ab_index, num_valid_iterations>>
  PROVE  val' \in [Fields -> Int] /\ Changes(t, TRUE) /\ Counted'
<1> DEFINE writes == Now(t).writes
<1>1. Right(t, Now(t).reads) /\ Types
  BY ReadsRight, InvOf
<1>2. at[t][2] > 0 /\ Now(t).op \in {"do", "gcd"}
  BY AtOpPlace
<1>3. Ordered(t, at[t][1], Stage(t), Now(t)) /\ Complete(t, Stage(t), Now(t))
  BY <1>2, InvOf, AtOperation
<1>4. \A f \in writes : /\ f \in Computed \cup {"A", "B"} /\ OwnerOf(f) = t
                        /\ StageOf(f) <= Stage(t) /\ Stage(t) <= 46
  BY <1>2, <1>3 DEF Ordered, MayWrite
<1>5. writes \subseteq Names \ {"a", "b"}
  BY <1>4 DEF Names, Shared, Computed
<1>6. /\ val' \in [Fields -> Int]
      /\ \A f \in Names : Ver(f)' = IF f \in writes THEN iter[t] + Ahead(f) ELSE Ver(f)
  BY <1>1, <1>5, WriteVersions
<1>7. Changes(t, TRUE)
  <2> SUFFICES ASSUME NEW f \in Names
               PROVE  Ver(f)' = IF OwnerOf(f) = t /\ StageOf(f) = Stage(t) THEN iter[t] + Ahead(f) ELSE Ver(f)
    BY DEF Changes
  <2>0. Stage(t) \in 0 .. 48 /\ StageOf(f) \in 1 .. 47 /\ iter[t] \in Nat
    BY InvOf DEF StageOf, Names, Shared, Computed
  <2>1. CASE f \in writes /\ StageOf(f) # Stage(t)
    <3>1. StageOf(f) < Stage(t) /\ OwnerOf(f) = t /\ Stage(t) <= 46
      BY <1>4, <2>0, <2>1
    <3>2. CASE f \in Shared
      <4>1. Ver(f) = iter[t] + Ahead(f) - 0
        BY <3>1, <3>2, InvOf DEF Data
      <4>2. Ahead(f) \in {0, 1}
        BY DEF Ahead
      <4> QED BY <1>6, <2>0, <2>1, <4>1, <4>2
    <3>3. CASE f \in {"A", "B"}
      <4>1. t = Master /\ Ahead(f) = 1
        BY <3>1, <3>3 DEF OwnerOf, Ahead, OfForm
      <4>2. NextForm
        BY InvOf
      <4>4. Stage(t) <= 47
        BY <2>0, <3>1
      <4>3. Ver(f) = iter[t] + 1
        BY <3>1, <3>3, <4>1, <4>2, <4>4 DEF NextForm
      <4> QED BY <1>6, <2>1, <4>1, <4>3
    <3> QED BY <3>2, <3>3 DEF Names
  <2>2. CASE f \in writes /\ StageOf(f) = Stage(t)
    BY <1>4, <1>6, <2>2
  <2>3. CASE f \notin writes
    <3>1. CASE f \in Computed \cup {"A", "B"}
      BY <1>3, <1>6, <2>3, <3>1 DEF Complete
    <3>2. CASE f \in {"a", "b"}
      <4>1. OwnerOf(f) = Master /\ StageOf(f) = 47
        BY <3>2 DEF OwnerOf, StageOf
      <4>2. ~(OwnerOf(f) = t /\ StageOf(f) = Stage(t))
        BY <1>2, <1>3, <4>1 DEF Complete
      <4> QED BY <1>6, <2>3, <4>2
    <3> QED BY <3>1, <3>2 DEF Names, Shared
  <2> QED BY <2>1, <2>2, <2>3
<1>8. Counted'
  <2>1. "a" \in Names /\ "b" \in Names /\ "a" \notin writes /\ "b" \notin writes
    BY <1>5 DEF Names, Shared
  <2>2. Ver("a")' = Ver("a") /\ Ver("b")' = Ver("b")
    BY <1>6, <2>1
  <2> QED BY <2>2 DEF FastInv, Counted
<1> QED BY <1>6, <1>7, <1>8

LEMMA CountedSame ==
  ASSUME Counted, UNCHANGED <<val, ab_index, num_valid_iterations>>
  PROVE  Counted'
BY SameVersions DEF Counted

LEMMA GivesUpStep ==
  ASSUME FastInv, NEW t \in Both, NEW done, Working(t), GiveUp(t), failures' \in Nat \ {0},
         counter' \in [Both -> Nat], counter'[Other(t)] = counter[Other(t)], Counts(t),
         last_fence' = last_fence, entries' = entries, Changes(t, done), Counted',
         val' \in [Fields -> Int], corruption_flag' \in BOOLEAN,
         UNCHANGED <<threads_enabled, ab_index, num_valid_iterations>>
  PROVE  StepOf(t, done)
<1>1. /\ iter' \in [Both -> Nat] /\ at' \in [Both -> (0 .. 5) \X (0 .. 8)] /\ entry' \in [Both -> 0 .. GcdMax + 1]
      /\ error_flag' \in [Both -> BOOLEAN] /\ ~Working(t)'
      /\ \A v \in Both \ {t} : (at'[v] = at[v] \/ at'[v] = Ended) /\ iter'[v] = iter[v] /\ entry'[v] = entry[v]
  BY GiveUpTypes
<1>2. LeavesAlone(Other(t)) /\ GivesUp(t)
  BY <1>1, TwoThreads DEF LeavesAlone, GivesUp
<1>3. Types'
  BY <1>1, InvOf DEF Types
<1>4. last_fence'[t] <= counter[Other(t)]
  BY InvOf
<1> QED BY <1>2, <1>3, <1>4 DEF StepOf

LEMMA CompletesStep ==
  ASSUME FastInv, NEW t \in Both, Working(t), Onward(t), at[t][2] = 0 => Len(Phase(t, at[t][1])) = 0,
         counter' \in [Both -> Nat], counter'[Other(t)] = counter[Other(t)], Counts(t),
         AtOp(t, "gcd") => counter'[t] = Time(iter[t], at[t][1]) + NumCounter,
         ~AtOp(t, "gcd") => counter'[t] <= Time(iter[t], at[t][1]),
         AtOp(t, "fence") => Time(iter[t], Now(t).phase) <= counter[Other(t)],
         last_fence' \in [Both -> Nat], last_fence'[Other(t)] = last_fence[Other(t)],
         last_fence'[t] <= counter[Other(t)],
         Changes(t, TRUE), Counted', val' \in [Fields -> Int], ab_index' \in {0, 1}, num_valid_iterations' \in Nat,
         UNCHANGED <<threads_enabled, error_flag, entries, corruption_flag, failures>>
  PROVE  StepOf(t, TRUE)
<1>1. /\ iter' \in [Both -> Nat] /\ at' \in [Both -> (0 .. 5) \X (0 .. 8)] /\ entry' \in [Both -> 0 .. GcdMax + 1]
      /\ \A v \in Both \ {t} : at'[v] = at[v] /\ iter'[v] = iter[v] /\ entry'[v] = entry[v]
  BY OnwardTypes
<1>2. LeavesAlone(Other(t)) /\ Calm(t)
  BY <1>1, TwoThreads DEF LeavesAlone, Calm
<1>3. Completes(t)
  BY DEF Completes
<1>4. Types'
  BY <1>1, InvOf DEF Types
<1> QED BY <1>2, <1>3, <1>4 DEF StepOf

LEMMA BaseTime ==
  ASSUME NEW t, NEW p
  PROVE  Base(t) + Start[p] = Time(iter[t], p)
BY DEF Base, Time

LEMMA AdvanceStep ==
  ASSUME FastInv, NEW t \in Both, Advance(t)
  PROVE  StepOf(t, TRUE) \/ StepOf(t, FALSE)
<1>1. /\ Working(t) /\ at[t][2] = 0 /\ at[t][1] \in 0 .. 4 /\ Types
      /\ UNCHANGED <<threads_enabled, last_fence, val, entries, ab_index, num_valid_iterations, corruption_flag, failures>>
  BY InvOf DEF Advance, dataVars
<1>2. counter' = [counter EXCEPT ![t] = Time(iter[t], at[t][1])]
  <2>1. Base(t) + Start[at[t][1]] = Time(iter[t], at[t][1])
    BY DEF Base, Time
  <2> QED BY <2>1 DEF Advance
<1>3. /\ counter' \in [Both -> Nat] /\ counter'[t] = Time(iter[t], at[t][1]) /\ counter'[Other(t)] = counter[Other(t)]
  BY <1>1, <1>2, InvOf, TwoThreads DEF Types
<1>4. /\ Changes(t, FALSE) /\ Changes(t, TRUE) /\ Counted' /\ Counts(t)
  BY <1>1, <1>3, NothingWritten, CountedSame DEF FastInv, Counts
<1>5. ~AtOp(t, "gcd") /\ ~AtOp(t, "fence") /\ ~AtOp(t, "take")
  BY <1>1 DEF AtOp, InPhase
<1>6. val' \in [Fields -> Int] /\ corruption_flag' \in BOOLEAN /\ ab_index' \in {0, 1} /\ num_valid_iterations' \in Nat
      /\ last_fence' \in [Both -> Nat] /\ failures' \in Nat /\ failures' = failures
      /\ last_fence'[t] <= counter[Other(t)]
  BY <1>1, InvOf DEF Types
<1>7. CASE error_flag[t] /\ GiveUp(t)
  <2>1. failures # 0
    BY <1>7, Failed
  <2> QED BY <1>1, <1>3, <1>4, <1>6, <1>7, <2>1, GivesUpStep
<1>8. CASE UNCHANGED error_flag /\ Len(Phase(t, at[t][1])) = 0 /\ Onward(t)
  <2>1. counter'[t] <= Time(iter[t], at[t][1])
    BY <1>1, <1>3, InvOf
  <2> QED BY <1>1, <1>3, <1>4, <1>5, <1>6, <1>8, <2>1, CompletesStep
<1>9. CASE /\ UNCHANGED error_flag /\ Len(Phase(t, at[t][1])) # 0
           /\ at' = [at EXCEPT ![t] = <<@[1], 1>>] /\ UNCHANGED <<iter, entry>>
  <2>1. entry[t] = 0
    BY <1>1, <1>5, InvOf DEF Located
  <2>2. 0 < Len(Phase(t, at[t][1]))
    BY <1>1, <1>9, NothingBetween
  <2>3. /\ at'[t] = <<at[t][1], 1>> /\ at'[Other(t)] = at[Other(t)] /\ at' \in [Both -> (0 .. 5) \X (0 .. 8)]
    BY <1>1, <1>9, TwoThreads DEF Types
  <2>4. Begins(t)
    BY <1>1, <1>3, <1>9, <2>1, <2>2, <2>3 DEF Begins
  <2>5. Calm(t) /\ LeavesAlone(Other(t))
    BY <1>1, <1>3, <1>9, <2>3 DEF Calm, LeavesAlone
  <2>6. Types'
    BY <1>1, <1>3, <1>9, <2>3 DEF Types
  <2> QED BY <1>1, <1>4, <1>6, <2>4, <2>5, <2>6 DEF StepOf
<1> QED BY <1>1, <1>7, <1>8, <1>9 DEF Advance

LEMMA FenceFailsStep ==
  ASSUME FastInv, NEW t \in Both, NEW to, AtOp(t, "fence") \/ AtOp(t, "take"), FenceFails(t, to)
  PROVE  StepOf(t, FALSE)
<1>1. Working(t) /\ Types
  BY AtOpPlace, InvOf
<1>2. /\ GiveUp(t) /\ UNCHANGED <<threads_enabled, counter, last_fence, dataVars>>
      /\ \/ failures' = failures /\ (error_flag[t] \/ error_flag[Other(t)])
         \/ failures' = failures + 1
  BY DEF FenceFails, FailsItself
<1>3. failures' \in Nat \ {0}
  <2>1. failures \in Nat
    BY <1>1 DEF Types
  <2>2. error_flag[t] \/ error_flag[Other(t)] => failures # 0
    BY Failed, TwoThreads
  <2> QED BY <1>2, <2>1, <2>2
<1>4. /\ counter' \in [Both -> Nat] /\ counter'[Other(t)] = counter[Other(t)] /\ Counts(t)
      /\ val' \in [Fields -> Int] /\ corruption_flag' \in BOOLEAN
  BY <1>1, <1>2 DEF Types, Counts, dataVars
<1>5. UNCHANGED <<val, entries, ab_index, num_valid_iterations, corruption_flag, threads_enabled, last_fence>>
  BY <1>2 DEF dataVars
<1>6. Changes(t, FALSE) /\ Counted'
  BY <1>1, <1>5, NothingWritten, CountedSame DEF FastInv
<1> QED BY <1>1, <1>2, <1>3, <1>4, <1>5, <1>6, GivesUpStep

\* A fence that is passed leaves its thread as StepOf says.
LEMMA FencePassed ==
  ASSUME FastInv, NEW t \in Both, NEW to \in Nat, Fenced(t, to), Remember(t, to)
  PROVE  /\ to <= counter[Other(t)]
         /\ last_fence' \in [Both -> Nat] /\ last_fence'[Other(t)] = last_fence[Other(t)]
         /\ last_fence'[t] <= counter[Other(t)]
<1>1. /\ Types /\ last_fence \in [Both -> Nat] /\ last_fence[t] <= counter[Other(t)] /\ last_fence[t] \in Nat
      /\ counter[Other(t)] \in Nat /\ Other(t) \in Both /\ Other(t) # t
  BY InvOf, TwoThreads DEF Types
<1>2. to <= counter[Other(t)]
  BY <1>1 DEF Fenced
<1>3. last_fence' = [last_fence EXCEPT ![t] = to] \/ last_fence' = last_fence
  BY DEF Remember
<1> QED BY <1>1, <1>2, <1>3

LEMMA FenceStep ==
  ASSUME FastInv, NEW t \in Both, Fence(t)
  PROVE  StepOf(t, TRUE) \/ StepOf(t, FALSE)
<1> DEFINE to == Base(t) + Start[Now(t).phase]
<1>1. AtOp(t, "fence") /\ Working(t) /\ at[t][2] > 0 /\ Now(t).op = "fence" /\ Types
  BY AtOpPlace, InvOf DEF Fence
<1>2. \/ /\ Fenced(t, to) /\ Remember(t, to) /\ Onward(t)
         /\ UNCHANGED <<threads_enabled, counter, error_flag, dataVars, failures>>
      \/ FenceFails(t, to)
  BY DEF Fence
<1>3. Now(t).phase \in 0 .. 5 /\ ~AtOp(t, "gcd")
  <2>1. Now(t).phase \in 0 .. 4
    BY <1>1, InvOf, AtOperation DEF Ordered
  <2> QED BY <1>1, <2>1 DEF AtOp
<1>4. to = Time(iter[t], Now(t).phase) /\ to \in Nat
  <2>1. to = Time(iter[t], Now(t).phase)
    BY DEF Base, Time
  <2>2. iter[t] \in Nat
    BY InvOf
  <2> QED BY <1>3, <2>1, <2>2, TimeNat
<1> HIDE DEF to
<1>7. at[t][2] # 0
  BY <1>1
<1>5. CASE FenceFails(t, to)
  BY <1>1, <1>5, FenceFailsStep
<1>6. CASE /\ Fenced(t, to) /\ Remember(t, to) /\ Onward(t)
           /\ UNCHANGED <<threads_enabled, counter, error_flag, dataVars, failures>>
  <2>1. /\ to <= counter[Other(t)]
        /\ last_fence' \in [Both -> Nat] /\ last_fence'[Other(t)] = last_fence[Other(t)]
        /\ last_fence'[t] <= counter[Other(t)]
    BY <1>4, <1>6, FencePassed
  <2>2. UNCHANGED <<val, entries, ab_index, num_valid_iterations, corruption_flag, threads_enabled, counter>>
    BY <1>6 DEF dataVars
  <2>3. /\ counter' \in [Both -> Nat] /\ counter'[Other(t)] = counter[Other(t)] /\ Counts(t)
        /\ val' \in [Fields -> Int] /\ ab_index' \in {0, 1} /\ num_valid_iterations' \in Nat
    BY <1>1, <2>2 DEF Types, Counts
  <2>4. counter'[t] <= Time(iter[t], at[t][1])
    BY <1>1, <1>3, <2>2, CounterBefore, InvOf
  <2>5. Changes(t, TRUE) /\ Counted'
    BY <1>1, <2>2, NothingWritten, CountedSame DEF FastInv
  <2>6. AtOp(t, "fence") => Time(iter[t], Now(t).phase) <= counter[Other(t)]
    BY <1>4, <2>1
  <2>7. UNCHANGED <<threads_enabled, error_flag, entries, corruption_flag, failures>>
    BY <1>6, <2>2
  <2>8. StepOf(t, TRUE)
    BY <1>1, <1>3, <1>6, <1>7, <2>1, <2>3, <2>4, <2>5, <2>6, <2>7, CompletesStep
  <2> QED BY <2>8
<1> QED BY <1>2, <1>5, <1>6

LEMMA DoStep ==
  ASSUME FastInv, NEW t \in Both, Do(t)
  PROVE  StepOf(t, TRUE)
<1>1. AtOp(t, "do") /\ Working(t) /\ at[t][2] > 0 /\ at[t][2] # 0 /\ Now(t).op = "do" /\ Types
  <2>1. AtOp(t, "do")
    BY DEF Do
  <2>2. Working(t) /\ at[t][2] > 0 /\ Now(t).op = "do"
    BY <2>1, AtOpPlace
  <2>3. at[t][2] # 0
    BY <2>2
  <2> QED BY <2>1, <2>2, <2>3, InvOf
<1>2. /\ Write(t, Now(t).reads, Now(t).writes) /\ Onward(t)
      /\ UNCHANGED <<threads_enabled, counter, error_flag, last_fence, entries, ab_index,
                     num_valid_iterations, corruption_flag, failures>>
  BY DEF Do, syncVars
<1>3. val' \in [Fields -> Int] /\ Changes(t, TRUE) /\ Counted'
  BY <1>1, <1>2, Computes
<1>4. ~AtOp(t, "gcd") /\ ~AtOp(t, "fence")
  BY <1>1 DEF AtOp
<1>5. /\ counter' \in [Both -> Nat] /\ counter'[Other(t)] = counter[Other(t)] /\ Counts(t)
      /\ last_fence' \in [Both -> Nat] /\ last_fence'[Other(t)] = last_fence[Other(t)]
      /\ ab_index' \in {0, 1} /\ num_valid_iterations' \in Nat
  BY <1>1, <1>2 DEF Types, Counts
<1>6. last_fence'[t] <= counter[Other(t)]
  BY <1>2, InvOf
<1>7. counter'[t] <= Time(iter[t], at[t][1])
  BY <1>1, <1>2, <1>4, CounterBefore, InvOf
<1> QED BY <1>1, <1>2, <1>3, <1>4, <1>5, <1>6, <1>7, CompletesStep

\* An operation that fails writes nothing.
LEMMA FailsStep ==
  ASSUME FastInv, NEW t \in Both, Working(t), GiveUp(t), failures' \in Nat \ {0}, corruption_flag' \in BOOLEAN,
         UNCHANGED <<threads_enabled, counter, last_fence, val, entries, ab_index, num_valid_iterations>>
  PROVE  StepOf(t, FALSE)
<1>1. Types
  BY InvOf
<1>2. /\ counter' \in [Both -> Nat] /\ counter'[Other(t)] = counter[Other(t)] /\ Counts(t)
      /\ val' \in [Fields -> Int]
  BY <1>1 DEF Types, Counts
<1>3. Changes(t, FALSE) /\ Counted'
  BY NothingWritten, CountedSame DEF FastInv
<1> QED BY <1>2, <1>3, GivesUpStep

LEMMA TestFailsStep ==
  ASSUME FastInv, NEW t \in Both, TestFails(t)
  PROVE  StepOf(t, FALSE)
<1>1. Working(t) /\ Types
  BY AtOpPlace, InvOf DEF TestFails
<1>2. /\ GiveUp(t) /\ failures' = failures + 1
      /\ corruption_flag' = (corruption_flag \/ Now(t).fails = "corrupt")
      /\ UNCHANGED <<threads_enabled, counter, last_fence, val, entries, ab_index, num_valid_iterations>>
  BY DEF TestFails, FailsItself
<1>3. failures' \in Nat \ {0}
  BY <1>1, <1>2 DEF Types
<1>4. corruption_flag' \in BOOLEAN
  BY <1>1, <1>2 DEF Types
<1> QED BY <1>1, <1>2, <1>3, <1>4, FailsStep

LEMMA GcdFailsStep ==
  ASSUME FastInv, NEW t \in Both, GcdFails(t)
  PROVE  StepOf(t, FALSE)
<1>1. Working(t) /\ Types
  BY AtOpPlace, InvOf DEF GcdFails
<1>2. /\ GiveUp(t) /\ ((failures' = failures /\ error_flag[t]) \/ failures' = failures + 1)
      /\ UNCHANGED <<threads_enabled, counter, last_fence, val, entries, ab_index, num_valid_iterations,
                     corruption_flag>>
  BY DEF GcdFails, FailsItself, dataVars
<1>3. failures' \in Nat \ {0}
  <2>1. failures \in Nat
    BY <1>1 DEF Types
  <2>2. error_flag[t] => failures # 0
    BY Failed
  <2> QED BY <1>2, <2>1, <2>2
<1>4. corruption_flag' \in BOOLEAN
  BY <1>1, <1>2 DEF Types
<1> QED BY <1>1, <1>2, <1>3, <1>4, FailsStep

LEMMA ListenStep ==
  ASSUME FastInv, NEW t \in Both, Listen(t)
  PROVE  StepOf(t, TRUE)
<1>1. AtOp(t, "listen") /\ Working(t) /\ at[t][2] > 0 /\ at[t][2] # 0 /\ Now(t).op = "listen" /\ Types
  <2>1. AtOp(t, "listen")
    BY DEF Listen
  <2>2. Working(t) /\ at[t][2] > 0 /\ Now(t).op = "listen"
    BY <2>1, AtOpPlace
  <2>3. at[t][2] # 0
    BY <2>2
  <2> QED BY <2>1, <2>2, <2>3, InvOf
<1>2. /\ Onward(t)
      /\ UNCHANGED <<threads_enabled, counter, error_flag, last_fence, val, entries, ab_index,
                     num_valid_iterations, corruption_flag, failures>>
  BY DEF Listen, syncVars, dataVars
<1>3. Changes(t, TRUE) /\ Counted'
  BY <1>1, <1>2, NothingWritten, CountedSame DEF FastInv
<1>4. ~AtOp(t, "gcd") /\ ~AtOp(t, "fence")
  BY <1>1 DEF AtOp
<1>5. /\ counter' \in [Both -> Nat] /\ counter'[Other(t)] = counter[Other(t)] /\ Counts(t)
      /\ last_fence' \in [Both -> Nat] /\ last_fence'[Other(t)] = last_fence[Other(t)]
      /\ ab_index' \in {0, 1} /\ num_valid_iterations' \in Nat /\ val' \in [Fields -> Int]
  BY <1>1, <1>2 DEF Types, Counts
<1>6. last_fence'[t] <= counter[Other(t)]
  BY <1>2, InvOf
<1>7. counter'[t] <= Time(iter[t], at[t][1])
  BY <1>1, <1>2, <1>4, CounterBefore, InvOf
<1> QED BY <1>1, <1>2, <1>3, <1>4, <1>5, <1>6, <1>7, CompletesStep

\* With the slots A and B become a and b.
LEMMA FlipStep ==
  ASSUME FastInv, NEW t \in Both, Flip(t)
  PROVE  StepOf(t, TRUE)
<1>1. AtOp(t, "flip") /\ Working(t) /\ at[t][2] > 0 /\ at[t][2] # 0 /\ Now(t).op = "flip" /\ Types
  <2>1. AtOp(t, "flip")
    BY DEF Flip
  <2>2. Working(t) /\ at[t][2] > 0 /\ Now(t).op = "flip"
    BY <2>1, AtOpPlace
  <2>3. at[t][2] # 0
    BY <2>2
  <2> QED BY <2>1, <2>2, <2>3, InvOf
<1>2. /\ Onward(t) /\ ab_index' = 1 - ab_index /\ num_valid_iterations' = num_valid_iterations + 1
      /\ UNCHANGED <<threads_enabled, counter, error_flag, last_fence, val, entries, corruption_flag, failures>>
  BY DEF Flip, syncVars
<1>3. t = Master /\ Stage(t) = 47
  BY <1>1, InvOf, AtOperation DEF Ordered
<1>4. ab_index \in {0, 1} /\ num_valid_iterations \in Nat /\ iter[t] \in Nat
  BY <1>1 DEF Types
<1>5. Ver("a")' = Ver("A") /\ Ver("b")' = Ver("B")
  <2>1. 1 - (1 - ab_index) = ab_index
    BY <1>4
  <2> QED BY <1>2, <1>4, <2>1 DEF Ver, Slot
<1>6. Ver("A") = iter[t] + 1 /\ Ver("B") = iter[t] + 1
  <2>1. StageOf("A") = 32 /\ StageOf("B") = 45
    BY DEF StageOf
  <2>2. StageOf("A") < Stage(Master) /\ StageOf("B") < Stage(Master) /\ Stage(Master) <= 47
    BY <1>3, <2>1
  <2>3. NextForm
    BY InvOf
  <2> QED BY <1>1, <1>3, <2>2, <2>3 DEF NextForm
<1>7. Ver("a") = iter[t] /\ Ver("b") = iter[t]
  <2>1. \A f \in {"a", "b"} : f \in Shared /\ OwnerOf(f) = t /\ StageOf(f) = 47 /\ Ahead(f) = 1
    BY <1>3 DEF Shared, OwnerOf, StageOf, Ahead, OfForm
  <2>2. \A f \in {"a", "b"} : Ver(f) = iter[t] + 1 - (IF 47 < Stage(t) THEN 0 ELSE 1)
    BY <1>1, <2>1, InvOf DEF Data
  <2>3. ~(47 < Stage(t))
    BY <1>3
  <2>4. \A f \in {"a", "b"} : Ver(f) = iter[t] + 1 - 1
    BY <2>2, <2>3
  <2> QED BY <1>4, <2>4
<1>8. Counted'
  <2>1. num_valid_iterations = iter[t]
    BY <1>7 DEF FastInv, Counted
  <2> QED BY <1>2, <1>5, <1>6, <2>1 DEF Counted
<1>9. Changes(t, TRUE)
  <2> SUFFICES ASSUME NEW f \in Names, f \notin {"A", "B"}
               PROVE  Ver(f)' = IF OwnerOf(f) = t /\ StageOf(f) = Stage(t) THEN iter[t] + Ahead(f) ELSE Ver(f)
    BY <1>3 DEF Changes
  <2>1. CASE f \in {"a", "b"}
    <3>1. OwnerOf(f) = t /\ StageOf(f) = Stage(t) /\ Ahead(f) = 1
      BY <1>3, <2>1 DEF OwnerOf, StageOf, Ahead, OfForm
    <3> QED BY <1>5, <1>6, <2>1, <3>1
  <2>2. CASE f \in Computed
    <3>1. Ver(f)' = Ver(f)
      BY <1>2, <2>2 DEF Ver, Slot, Computed
    <3>2. StageOf(f) # 47
      BY <2>2 DEF StageOf, Computed
    <3> QED BY <1>3, <3>1, <3>2
  <2> QED BY <2>1, <2>2 DEF Names, Shared
<1>10. ~AtOp(t, "gcd") /\ ~AtOp(t, "fence")
  BY <1>1 DEF AtOp
<1>11. /\ counter' \in [Both -> Nat] /\ counter'[Other(t)] = counter[Other(t)] /\ Counts(t)
       /\ last_fence' \in [Both -> Nat] /\ last_fence'[Other(t)] = last_fence[Other(t)]
       /\ val' \in [Fields -> Int]
  BY <1>1, <1>2 DEF Types, Counts
<1>12. ab_index' \in {0, 1} /\ num_valid_iterations' \in Nat
  BY <1>2, <1>4
<1>13. last_fence'[t] <= counter[Other(t)]
  BY <1>2, InvOf
<1>14. counter'[t] <= Time(iter[t], at[t][1])
  BY <1>1, <1>2, <1>10, CounterBefore, InvOf
<1> QED BY <1>1, <1>2, <1>8, <1>9, <1>10, <1>11, <1>12, <1>13, <1>14, CompletesStep

LEMMA GcdEntryStep ==
  ASSUME FastInv, NEW t \in Both, GcdEntry(t)
  PROVE  StepOf(t, FALSE)
<1> DEFINE g == Now(t).gcd
<1>1. AtOp(t, "gcd") /\ Working(t) /\ at[t][2] > 0 /\ Types
  BY AtOpPlace, InvOf DEF GcdEntry
<1>2. /\ Right(t, Now(t).reads) /\ g \in Gcds /\ Now(t).phase = at[t][1]
  BY <1>1, ReadsRight, GcdAt
<1>3. PICK exit \in BOOLEAN :
        /\ entry[t] = GcdMax => exit
        /\ entries' = [entries EXCEPT ![g][entry[t]] = <<iter[t], exit>>]
        /\ entry' = [entry EXCEPT ![t] = IF exit THEN GcdMax + 1 ELSE @ + 1]
  BY <1>2 DEF GcdEntry
<1>4. /\ entry[t] <= GcdMax
      /\ counter' = [counter EXCEPT ![t] = Base(t) + Start[Now(t).phase] + entry[t]]
      /\ UNCHANGED <<threads_enabled, error_flag, last_fence, iter, at, val, ab_index, num_valid_iterations,
                     corruption_flag, failures>>
  BY DEF GcdEntry
<1>5. /\ entry \in [Both -> 0 .. GcdMax + 1] /\ entry[t] \in 0 .. GcdMax /\ GcdMax \in Nat /\ iter[t] \in Nat
      /\ Time(iter[t], at[t][1]) \in Nat /\ counter \in [Both -> Nat]
  BY <1>1, <1>4, InvOf DEF Types
<1>6. counter' = [counter EXCEPT ![t] = Time(iter[t], at[t][1]) + entry[t]]
  <2>1. Base(t) + Start[at[t][1]] = Time(iter[t], at[t][1])
    BY DEF Base, Time
  <2> QED BY <1>2, <1>4, <2>1
<1>7. /\ counter' \in [Both -> Nat] /\ counter'[t] = Time(iter[t], at[t][1]) + entry[t]
      /\ counter'[Other(t)] = counter[Other(t)]
  <2>1. Time(iter[t], at[t][1]) + entry[t] \in Nat
    BY <1>5
  <2> QED BY <1>5, <1>6, <2>1, TwoThreads
<1>8. /\ entry' \in [Both -> 0 .. GcdMax + 1] /\ entry'[t] = (IF exit THEN GcdMax + 1 ELSE entry[t] + 1)
      /\ entry'[Other(t)] = entry[Other(t)]
  <2>1. (IF exit THEN GcdMax + 1 ELSE entry[t] + 1) \in 0 .. GcdMax + 1
    BY <1>5
  <2> QED BY <1>3, <1>5, <2>1, TwoThreads
<1>9. entries' \in [Gcds -> [0 .. GcdMax -> Int \X BOOLEAN]]
  <2>1. <<iter[t], exit>> \in Int \X BOOLEAN
    BY <1>5
  <2>2. entries \in [Gcds -> [0 .. GcdMax -> Int \X BOOLEAN]]
    BY <1>1 DEF Types
  <2>3. [entries[g] EXCEPT ![entry[t]] = <<iter[t], exit>>] \in [0 .. GcdMax -> Int \X BOOLEAN]
    BY <1>2, <1>5, <2>1, <2>2
  <2>4. entries' = [entries EXCEPT ![g] = [entries[g] EXCEPT ![entry[t]] = <<iter[t], exit>>]]
    BY <1>2, <1>3, <2>2
  <2> QED BY <1>2, <2>2, <2>3, <2>4
<1>10. Types'
  <2>1. Types
    BY <1>1
  <2> QED BY <1>4, <1>7, <1>8, <1>9, <2>1 DEF Types
<1>11. Appends(t)
  <2>1. at'[t] = at[t] /\ iter'[t] = iter[t]
    BY <1>4
  <2> QED BY <1>1, <1>3, <1>4, <1>7, <1>8, <2>1 DEF Appends
<1>12. Changes(t, FALSE) /\ Counted'
  BY <1>1, <1>4, NothingWritten, CountedSame DEF FastInv
<1>13. LeavesAlone(Other(t)) /\ Calm(t) /\ Counts(t)
  BY <1>1, <1>4, <1>7, <1>8 DEF LeavesAlone, Calm, Counts
<1>14. last_fence'[t] <= counter[Other(t)]
  BY <1>4, InvOf
<1> QED BY <1>1, <1>10, <1>11, <1>12, <1>13, <1>14 DEF StepOf

LEMMA GcdEndStep ==
  ASSUME FastInv, NEW t \in Both, GcdEnd(t)
  PROVE  StepOf(t, TRUE)
<1>1. AtOp(t, "gcd") /\ Working(t) /\ at[t][2] > 0 /\ at[t][2] # 0 /\ Now(t).op = "gcd" /\ Types
  <2>1. AtOp(t, "gcd")
    BY DEF GcdEnd
  <2>2. Working(t) /\ at[t][2] > 0 /\ Now(t).op = "gcd"
    BY <2>1, AtOpPlace
  <2>3. at[t][2] # 0
    BY <2>2
  <2> QED BY <2>1, <2>2, <2>3, InvOf
<1>2. /\ entry[t] = NumCounter /\ Write(t, Now(t).reads, Now(t).writes)
      /\ counter' = [counter EXCEPT ![t] = Base(t) + Start[Now(t).phase] + NumCounter]
      /\ (error_flag[t] /\ GiveUp(t)) \/ (Onward(t) /\ UNCHANGED error_flag)
      /\ UNCHANGED <<threads_enabled, last_fence, entries, ab_index, num_valid_iterations, corruption_flag, failures>>
  BY DEF GcdEnd, NumCounter
<1>3. val' \in [Fields -> Int] /\ Changes(t, TRUE) /\ Counted'
  BY <1>1, <1>2, Computes
<1>4. Now(t).phase = at[t][1] /\ NumCounter \in Nat /\ Time(iter[t], at[t][1]) \in Nat /\ counter \in [Both -> Nat]
  BY <1>1, GcdAt, Starts, InvOf DEF Types
<1>5. /\ counter' \in [Both -> Nat] /\ counter'[t] = Time(iter[t], at[t][1]) + NumCounter
      /\ counter'[Other(t)] = counter[Other(t)]
  <2>1. Base(t) + Start[at[t][1]] = Time(iter[t], at[t][1])
    BY DEF Base, Time
  <2>2. counter' = [counter EXCEPT ![t] = Time(iter[t], at[t][1]) + NumCounter]
    BY <1>2, <1>4, <2>1
  <2>3. Time(iter[t], at[t][1]) + NumCounter \in Nat
    BY <1>4
  <2> QED BY <1>4, <2>2, <2>3, TwoThreads
<1>6. Counts(t)
  BY <1>1, <1>2, <1>5 DEF Counts
<1>7. last_fence' \in [Both -> Nat] /\ last_fence'[Other(t)] = last_fence[Other(t)] /\ last_fence'[t] <= counter[Other(t)]
      /\ ab_index' \in {0, 1} /\ num_valid_iterations' \in Nat /\ corruption_flag' \in BOOLEAN /\ failures' \in Nat
  BY <1>1, <1>2, InvOf DEF Types
<1>8. ~AtOp(t, "fence")
  BY <1>1 DEF AtOp
<1>9. CASE error_flag[t] /\ GiveUp(t)
  <2>1. failures # 0
    BY <1>9, Failed
  <2> QED BY <1>1, <1>2, <1>3, <1>5, <1>6, <1>7, <1>9, <2>1, GivesUpStep
<1>10. CASE Onward(t) /\ UNCHANGED error_flag
  BY <1>1, <1>2, <1>3, <1>5, <1>6, <1>7, <1>8, <1>10, CompletesStep
<1> QED BY <1>2, <1>9, <1>10

\* The entry that get_entry has waited for is of its squaring.
LEMMA EntryRight ==
  ASSUME FastInv, NEW t \in Both, AtOp(t, "take"),
         Time(iter[t], at[t][1]) + entry[t] + 1 <= counter[Other(t)]
  PROVE  LET e == entries[Now(t).gcd][entry[t]]
         IN  /\ e = <<iter[t], e[2]>> /\ e[2] \in BOOLEAN /\ entry[t] \in 0 .. GcdMax
             /\ entry[t] = GcdMax => e[2]
<1> DEFINE g == Now(t).gcd
           e == entries[g][entry[t]]
<1>1. /\ g \in Gcds /\ WriterOf(g) = Other(t) /\ GcdPhase(g) = at[t][1] /\ at[t][1] \in 0 .. 1
      /\ Other(WriterOf(g)) = t
  BY TakeAt, TwoThreads
<1>2. Working(t) /\ iter[t] \in Nat /\ GcdMax \in Nat
  BY AtOpPlace, InvOf
<1>3. entry[t] \in 0 .. GcdMax
  <2>1. entry[t] <= GcdMax /\ entry[t] \in 0 .. GcdMax + 1
    BY <1>2, InvOf DEF Located
  <2> QED BY <1>2, <2>1
<1>4. counter[t] < Time(iter[t] + 1, 0)
  <2>1. counter[t] \in Nat /\ counter[t] < Time(iter[t], at[t][1] + 1) /\ Time(iter[t], at[t][1] + 1) \in Nat
    BY <1>2, InvOf
  <2>2. Time(iter[t], at[t][1] + 1) <= Time(iter[t], 5)
    <3>1. at[t][1] + 1 \in 0 .. 5 /\ at[t][1] + 1 <= 5
      BY <1>1
    <3> QED BY <1>2, <3>1, TimeLater
  <2>3. Time(iter[t], 5) \in Nat /\ Time(iter[t], 5) = Time(iter[t] + 1, 0)
    BY <1>2, TimeNats, TimeWraps
  <2> QED BY <2>1, <2>2, <2>3
<1>5. Chain(entries[g], iter[t], entry[t])
  BY <1>1, <1>2, <1>3, <1>4 DEF FastInv, Published
<1>6. \A l \in 0 .. entry[t] - 1 : entries[g][l] = <<iter[t], FALSE>>
  <2>1. CASE entry[t] > 0
    BY <1>1, <1>2, <2>1 DEF FastInv, Taken
  <2>2. CASE entry[t] = 0
    <3>1. \A l \in 0 .. entry[t] - 1 : FALSE
      BY <2>2
    <3> QED BY <3>1
  <2>3. entry[t] > 0 \/ entry[t] = 0
    BY <1>2, <1>3
  <2> QED BY <2>1, <2>2, <2>3
<1>7. entry[t] \in 0 .. entry[t]
  BY <1>3
<1>8. e[1] = iter[t] /\ (entry[t] = GcdMax => e[2])
  BY <1>5, <1>6, <1>7 DEF Chain
<1>9. e \in Int \X BOOLEAN
  BY <1>1, <1>3, EntriesType
<1>10. e = <<iter[t], e[2]>> /\ e[2] \in BOOLEAN
  BY <1>8, <1>9
<1> QED BY <1>3, <1>8, <1>10

LEMMA TakeEntryStep ==
  ASSUME FastInv, NEW t \in Both, TakeEntry(t)
  PROVE  StepOf(t, TRUE) \/ StepOf(t, FALSE)
<1> DEFINE to == Base(t) + Start[Now(t).phase] + entry[t] + 1
           e == entries[Now(t).gcd][entry[t]]
<1>1. AtOp(t, "take") /\ Working(t) /\ at[t][2] > 0 /\ at[t][2] # 0 /\ Now(t).op = "take" /\ Types
  <2>1. AtOp(t, "take")
    BY DEF TakeEntry
  <2>2. Working(t) /\ at[t][2] > 0 /\ Now(t).op = "take"
    BY <2>1, AtOpPlace
  <2>3. at[t][2] # 0
    BY <2>2
  <2> QED BY <2>1, <2>2, <2>3, InvOf
<1>2. to = Time(iter[t], at[t][1]) + entry[t] + 1 /\ to \in Nat
  <2>1. Base(t) + Start[at[t][1]] = Time(iter[t], at[t][1])
    BY DEF Base, Time
  <2>2. Now(t).phase = at[t][1] /\ Time(iter[t], at[t][1]) \in Nat
    BY <1>1, TakeAt, InvOf
  <2>3. entry[t] \in 0 .. GcdMax + 1 /\ GcdMax \in Nat
    BY InvOf
  <2> QED BY <2>1, <2>2, <2>3
<1>3. CASE FenceFails(t, to)
  BY <1>1, <1>3, FenceFailsStep
<1>4. CASE /\ Fenced(t, to) /\ Remember(t, to)
           /\ val' = [s \in Fields |-> IF (\E f \in Now(t).writes : Slot(f) = s) /\ e[1] # iter[t]
                                       THEN Wrong ELSE val[s]]
           /\ IF e[2] THEN Onward(t) /\ UNCHANGED error_flag
              ELSE IF entry[t] = GcdMax THEN GiveUp(t)
              ELSE entry' = [entry EXCEPT ![t] = @ + 1] /\ UNCHANGED <<iter, at, error_flag>>
           /\ UNCHANGED <<threads_enabled, counter, entries, ab_index, num_valid_iterations,
                          corruption_flag, failures>>
  <2>1. /\ to <= counter[Other(t)]
        /\ last_fence' \in [Both -> Nat] /\ last_fence'[Other(t)] = last_fence[Other(t)]
        /\ last_fence'[t] <= counter[Other(t)]
    BY <1>2, <1>4, FencePassed
  <2>2. e = <<iter[t], e[2]>> /\ e[2] \in BOOLEAN /\ entry[t] \in 0 .. GcdMax /\ (entry[t] = GcdMax => e[2])
    BY <1>1, <1>2, <2>1, EntryRight
  <2>3. val' = val
    <3>1. e[1] = iter[t]
      BY <2>2
    <3>2. val \in [Fields -> Int]
      BY <1>1 DEF Types
    <3>3. val' = [s \in Fields |-> val[s]]
      BY <1>4, <3>1
    <3> QED BY <3>2, <3>3
  <2> HIDE DEF e, to
  <2>4. /\ counter' \in [Both -> Nat] /\ counter'[Other(t)] = counter[Other(t)] /\ Counts(t)
        /\ val' \in [Fields -> Int] /\ ab_index' \in {0, 1} /\ num_valid_iterations' \in Nat
    BY <1>1, <1>4, <2>3 DEF Types, Counts
  <2>5. Changes(t, FALSE) /\ Changes(t, TRUE) /\ Counted'
    BY <1>1, <1>4, <2>3, NothingWritten, CountedSame DEF FastInv
  <2>6. ~AtOp(t, "gcd") /\ ~AtOp(t, "fence")
    BY <1>1 DEF AtOp
  <2>7. counter'[t] <= Time(iter[t], at[t][1])
    BY <1>1, <1>4, <2>6, CounterBefore, InvOf
  <2>8. CASE e[2] /\ Onward(t) /\ UNCHANGED error_flag
    BY <1>1, <1>4, <2>1, <2>4, <2>5, <2>6, <2>7, <2>8, CompletesStep
  <2>9. CASE ~e[2] /\ entry[t] # GcdMax /\ entry' = [entry EXCEPT ![t] = @ + 1] /\ UNCHANGED <<iter, at, error_flag>>
    <3>1. entry \in [Both -> 0 .. GcdMax + 1] /\ GcdMax \in Nat
      BY <1>1, InvOf DEF Types
    <3>2. /\ entry[t] < GcdMax /\ entry'[t] = entry[t] + 1 /\ entry'[Other(t)] = entry[Other(t)]
          /\ entry' \in [Both -> 0 .. GcdMax + 1]
      BY <2>2, <2>9, <3>1, TwoThreads
    <3>3. entries[Now(t).gcd][entry[t]] = <<iter[t], FALSE>>
      BY <2>2, <2>9 DEF e
    <3>4. Time(iter[t], at[t][1]) + entry[t] + 1 <= counter[Other(t)]
      BY <1>2, <2>1
    <3>5. Takes(t)
      BY <1>1, <1>4, <2>9, <3>2, <3>3, <3>4 DEF Takes
    <3>6. LeavesAlone(Other(t)) /\ Calm(t)
      BY <1>4, <2>1, <2>9, <3>2 DEF LeavesAlone, Calm
    <3>7. Types'
      BY <1>1, <1>4, <2>1, <2>3, <2>9, <3>2 DEF Types
    <3> QED BY <1>1, <2>1, <2>4, <2>5, <3>5, <3>6, <3>7 DEF StepOf
  <2> QED BY <1>4, <2>2, <2>8, <2>9
<1> QED BY <1>3, <1>4 DEF TakeEntry

-----------------------------------------------------------------------------
(* The invariant.                                                          *)

LEMMA InvInit == ASSUME FastInit PROVE FastInv
<1>1. /\ threads_enabled \in BOOLEAN
      /\ counter = [t \in Both |-> 0] /\ error_flag = [t \in Both |-> FALSE] /\ last_fence = [t \in Both |-> 0]
      /\ iter = [t \in Both |-> 0] /\ at = [t \in Both |-> <<0, 0>>] /\ entry = [t \in Both |-> 0]
      /\ val = [s \in Fields |-> IF s \in {<<"as", 0>>, <<"bs", 0>>, <<"high", 0>>} THEN 0 ELSE Wrong]
      /\ entries = [g \in Gcds |-> [j \in 0 .. GcdMax |-> <<Wrong, TRUE>>]]
      /\ ab_index = 0 /\ num_valid_iterations = 0 /\ corruption_flag = FALSE /\ failures = 0
  BY DEF FastInit, Gcds
<1>2. Iterations \in Nat \ {0} /\ GcdMax \in Nat \ {0} /\ 0 < Iterations /\ 0 \in 0 .. GcdMax + 1
  BY FastAssumption
<1>3. Types
  <2>1. [g \in Gcds |-> [j \in 0 .. GcdMax |-> <<Wrong, TRUE>>]] \in [Gcds -> [0 .. GcdMax -> Int \X BOOLEAN]]
    <3>1. <<Wrong, TRUE>> \in Int \X BOOLEAN
      <4>1. Wrong \in Int
        BY DEF Wrong
      <4> QED BY <4>1
    <3>2. [j \in 0 .. GcdMax |-> <<Wrong, TRUE>>] \in [0 .. GcdMax -> Int \X BOOLEAN]
      BY <3>1
    <3> QED BY <3>2
  <2>2. val \in [Fields -> Int]
    BY <1>1 DEF Wrong
  <2>3. at \in [Both -> (0 .. 5) \X (0 .. 8)]
    BY <1>1
  <2>4. entry \in [Both -> 0 .. GcdMax + 1]
    BY <1>1, <1>2
  <2> QED BY <1>1, <2>1, <2>2, <2>3, <2>4 DEF Types
<1>4. ASSUME NEW t \in Both
      PROVE  at[t] = <<0, 0>> /\ at[t][1] = 0 /\ at[t][2] = 0 /\ Stage(t) = 0 /\ iter[t] = 0 /\ counter[t] = 0
             /\ entry[t] = 0 /\ last_fence[t] = 0 /\ ~error_flag[t] /\ counter[Other(t)] = 0 /\ Other(t) \in Both
  <2>1. at[t] = <<0, 0>> /\ iter[t] = 0 /\ counter[t] = 0 /\ entry[t] = 0 /\ last_fence[t] = 0 /\ ~error_flag[t]
    BY <1>1
  <2>2. Other(t) \in Both
    BY TwoThreads
  <2> QED BY <1>1, <2>1, <2>2 DEF Stage
<1>5. ASSUME NEW t \in Both, NEW o PROVE ~AtOp(t, o) /\ Working(t)
  BY <1>4 DEF AtOp, InPhase, Working, Ended
<1>6. ASSUME NEW f \in Shared PROVE Ver(f) = IF f \in {"a", "b", "high"} THEN 0 ELSE Wrong
  <2>1. f \in Names /\ Slot(f) \in Fields
    BY <1>1, SlotOfName DEF Names
  <2>2. Ver(f) = IF Slot(f) \in {<<"as", 0>>, <<"bs", 0>>, <<"high", 0>>} THEN 0 ELSE Wrong
    BY <1>1, <2>1 DEF Ver
  <2>3. CASE f \in Computed
    <3>1. Slot(f) = <<f, 0>> /\ f \notin {"a", "b", "as", "bs"}
      BY <2>3 DEF Slot, Computed
    <3> QED BY <2>2, <3>1
  <2>4. CASE f \in {"a", "b"}
    BY <1>1, <2>2, <2>4 DEF Slot
  <2> QED BY <2>3, <2>4 DEF Shared
<1>7. ASSUME NEW t \in Both PROVE Located(t)
  <2>1. Len(Phase(t, 0)) \in 0 .. 8 /\ Seen(t, 0) = -1
    BY NothingBetween DEF Seen
  <2> QED BY <1>2, <1>4, <1>5, <2>1 DEF Located
<1>8. ASSUME NEW t \in Both PROVE Clock(t)
  <2>1. Reached(t) = 0 /\ Time(0, 0) = 0
    BY <1>5, TimeWraps DEF Reached
  <2>2. \A g \in Gcds : ~(GcdPhase(g) < 0)
    BY DEF GcdPhase
  <2>3. \A i \in Nat : ~(i < 0)
    OBVIOUS
  <2> QED BY <1>4, <2>1, <2>2, <2>3 DEF Clock
<1>9. ASSUME NEW t \in Both PROVE Data(t)
  <2> SUFFICES ASSUME NEW f \in Shared, OwnerOf(f) = t
               PROVE  Ver(f) = iter[t] + Ahead(f) - (IF StageOf(f) < Stage(t) THEN 0 ELSE 1)
    BY DEF Data
  <2>1. StageOf(f) \in 1 .. 47
    BY FieldFacts
  <2>2. Ahead(f) = IF f \in {"a", "b", "high"} THEN 1 ELSE 0
    BY DEF Ahead, OfForm, Shared, Computed
  <2> QED BY <1>4, <1>6, <2>1, <2>2 DEF Wrong
<1>10. NextForm
  <2>1. \A f \in {"A", "B"} : StageOf(f) \in {32, 45}
    BY DEF StageOf
  <2>2. Stage(Master) = 0
    BY <1>4 DEF Both
  <2> QED BY <2>1, <2>2 DEF NextForm
<1>11. ASSUME NEW f \in Shared PROVE Ready(f) /\ Free(f)
  <2>1. OwnerOf(f) \in Both /\ ReadyAt(f) \in 0 .. 5 /\ counter[OwnerOf(f)] = 0
    BY <1>1, FieldFacts
  <2>2. \A i \in Nat : ~(i < Ver(f))
    BY <1>6 DEF Wrong
  <2>3. ASSUME NEW i \in Nat, Time(i, ReadyAt(f)) <= 0 PROVE i <= Ver(f)
    <3>1. Time(i, ReadyAt(f)) < Time(0, 0 + 1)
      <4>1. Time(0, 0) = 0 /\ Time(0, 0) < Time(0, 0 + 1) /\ Time(0, 0 + 1) \in Nat
        BY TimeWraps, TimeFits, TimeNat
      <4>2. Time(i, ReadyAt(f)) \in Nat
        BY <2>1, TimeNat
      <4> QED BY <2>3, <4>1, <4>2
    <3>2. i < 0 \/ (i = 0 /\ ReadyAt(f) <= 0)
      BY <2>1, <3>1, TimeEarlier
    <3>3. i = 0 /\ ReadyAt(f) = 0
      BY <2>1, <3>2
    <3>4. f \in OfForm
      <4>1. PhaseOf(f) \in 0 .. 4
        BY FieldFacts
      <4> QED BY <3>3, <4>1 DEF ReadyAt
    <3>5. f \in {"a", "b", "high"}
      BY <3>4 DEF OfForm, Shared, Computed
    <3> QED BY <1>6, <3>3, <3>5
  <2> QED BY <2>1, <2>2, <2>3 DEF Ready, Free
<1>12. ASSUME NEW g \in Gcds PROVE Begun(g) /\ Published(g) /\ Taken(g)
  <2>1. WriterOf(g) \in Both /\ GcdPhase(g) \in 0 .. 1 /\ Other(WriterOf(g)) \in Both
    BY Writers, TwoThreads
  <2>2. Begun(g) /\ Taken(g)
    BY <1>5, <2>1 DEF Begun, Taken
  <2>3. \A i \in Nat : \A n \in 0 .. GcdMax : ~(Time(i, GcdPhase(g)) + n + 1 <= counter[WriterOf(g)])
    <3> TAKE i \in Nat
    <3> TAKE n \in 0 .. GcdMax
    <3>1. counter[WriterOf(g)] = 0
      BY <1>1, <2>1
    <3>2. Time(i, GcdPhase(g)) \in Nat
      <4>1. GcdPhase(g) \in 0 .. 5
        BY <2>1
      <4> QED BY <4>1, TimeNat
    <3> QED BY <1>2, <3>1, <3>2
  <2> QED BY <2>2, <2>3 DEF Published
<1>13. Counted
  <2>1. "a" \in Shared /\ "b" \in Shared
    BY DEF Shared
  <2> QED BY <1>1, <1>6, <2>1 DEF Counted
<1>14. NothingFailed
  BY <1>1, <1>4, <1>5 DEF NothingFailed, Both
<1>15. \A t \in Both : last_fence[t] <= counter[Other(t)]
  BY <1>4
<1> QED BY <1>3, <1>7, <1>8, <1>9, <1>10, <1>11, <1>12, <1>13, <1>14, <1>15 DEF FastInv

LEMMA FastStepKeeps ==
  ASSUME FastInv, NEW t \in Both, FastStep(t)
  PROVE  FastInv'
<1>1. CASE Advance(t)
  BY <1>1, AdvanceStep, StepKeeps
<1>2. CASE Fence(t)
  BY <1>2, FenceStep, StepKeeps
<1>3. CASE Do(t)
  BY <1>3, DoStep, StepKeeps
<1>4. CASE TestFails(t)
  BY <1>4, TestFailsStep, StepKeeps
<1>5. CASE Flip(t)
  BY <1>5, FlipStep, StepKeeps
<1>6. CASE Listen(t)
  BY <1>6, ListenStep, StepKeeps
<1>7. CASE GcdEntry(t)
  BY <1>7, GcdEntryStep, StepKeeps
<1>8. CASE GcdEnd(t)
  BY <1>8, GcdEndStep, StepKeeps
<1>9. CASE GcdFails(t)
  BY <1>9, GcdFailsStep, StepKeeps
<1>10. CASE TakeEntry(t)
  BY <1>10, TakeEntryStep, StepKeeps
<1> QED BY <1>1, <1>2, <1>3, <1>4, <1>5, <1>6, <1>7, <1>8, <1>9, <1>10 DEF FastStep

LEMMA Stutters == ASSUME FastInv, UNCHANGED fastVars PROVE FastInv'
<1> UNCHANGED <<threads_enabled, counter, error_flag, last_fence, iter, at, entry, val, entries, ab_index,
                num_valid_iterations, corruption_flag, failures>>
  BY DEF fastVars, syncVars, placeVars, dataVars
<1>1. Types'
  BY DEF FastInv, Types
<1>2. \A t : Working(t)' = Working(t) /\ Stage(t)' = Stage(t) /\ Now(t)' = Now(t)
  BY DEF Working, Stage, Now
<1>3. \A t : \A o : AtOp(t, o)' = AtOp(t, o)
  BY DEF AtOp, InPhase, Working, Now
<1>4. \A f : Ver(f)' = Ver(f)
  BY SameVersions
<1>5. \A t \in Both : Located(t)' /\ Clock(t)'
  BY DEF FastInv, Located, Clock, Reached, AtOp, InPhase, Working, Now, Stage
<1>6. (\A t \in Both : Data(t)') /\ NextForm'
  BY <1>2, <1>4 DEF FastInv, Data, NextForm
<1>7. \A f \in Shared : Ready(f)' /\ Free(f)'
  BY <1>4 DEF FastInv, Ready, Free
<1>8. \A g \in Gcds : Begun(g)' /\ Published(g)' /\ Taken(g)'
  BY <1>2, <1>3 DEF FastInv, Begun, Published, Taken
<1>9. Counted' /\ NothingFailed'
  BY <1>2, <1>4 DEF FastInv, Counted, NothingFailed
<1>10. \A t \in Both : (last_fence[t] <= counter[Other(t)])'
  BY DEF FastInv
<1> QED BY <1>1, <1>5, <1>6, <1>7, <1>8, <1>9, <1>10 DEF FastInv

\* The invariant holds throughout a batch.
LEMMA FastInvHolds == FastSpec => []FastInv
<1>1. FastInit => FastInv
  BY InvInit
<1>2. FastInv /\ [FastNext]_fastVars => FastInv'
  BY FastStepKeeps, Stutters DEF FastNext
<1> QED BY <1>1, <1>2, PTL DEF FastSpec

-----------------------------------------------------------------------------
(* What the invariant says of each state.                                  *)

\* assign takes the form of the last squaring that phase 4 has counted.
LEMMA CountedRight == ASSUME FastInv PROVE FormMatchesCount
<1>1. /\ num_valid_iterations \in Nat /\ corruption_flag \in BOOLEAN
      /\ Ver("a") = num_valid_iterations /\ Ver("b") = num_valid_iterations
  BY DEF FastInv, Types, Counted
<1>2. val[Slot("a")] = num_valid_iterations /\ val[Slot("b")] = num_valid_iterations
  BY <1>1 DEF Ver
<1>3. num_valid_iterations # Wrong
  BY <1>1 DEF Wrong
<1>4. /\ Assign.ok <=> ~corruption_flag
      /\ Assign.ok => Assign.form = Assign.num_iterations
      /\ ~corruption_flag => Assign.num_iterations = num_valid_iterations
  BY <1>1, <1>2, <1>3 DEF Assign
<1>5. ASSUME Joined, failures = 0 PROVE Assign.num_iterations = Iterations
  <2>1. ~Working(Master) /\ ~corruption_flag
    BY <1>5 DEF Joined, FastInv, NothingFailed, Both
  <2>2. num_valid_iterations = Iterations
    BY <1>5, <2>1 DEF FastInv, NothingFailed
  <2> QED BY <1>4, <2>1, <2>2
<1>6. ASSUME NEW t \in Both, AtOp(t, "listen")
      PROVE  val[Slot("a")] = iter[t] + 1 /\ val[Slot("b")] = iter[t] + 1
  <2>1. Working(t) /\ at[t][2] > 0 /\ Now(t).op = "listen"
    BY <1>6, AtOpPlace
  <2>2. t = Master /\ Stage(t) = 48
    BY <2>1, InvOf, AtOperation DEF Ordered
  <2>3. \A f \in {"a", "b"} : f \in Shared /\ OwnerOf(f) = t /\ StageOf(f) = 47 /\ Ahead(f) = 1
    BY <2>2 DEF Shared, OwnerOf, StageOf, Ahead, OfForm
  <2>4. iter[t] \in Nat /\ \A f \in {"a", "b"} : Ver(f) = iter[t] + 1 - (IF 47 < Stage(t) THEN 0 ELSE 1)
    BY <2>1, <2>3, InvOf DEF Data
  <2>5. 47 < Stage(t)
    BY <2>2
  <2>6. \A f \in {"a", "b"} : Ver(f) = iter[t] + 1 - 0
    BY <2>4, <2>5
  <2> QED BY <2>4, <2>6 DEF Ver
<1> QED BY <1>4, <1>5, <1>6 DEF FormMatchesCount

\* Where the other thread is when its counter has been seen in phase b.
LEMMA SeenBefore ==
  ASSUME FastInv, NEW t \in Both, Working(t), Working(Other(t)), NEW b \in 0 .. 5, b <= Seen(t, Stage(t))
  PROVE  iter[t] < iter[Other(t)] \/ (iter[t] = iter[Other(t)] /\ b <= at[Other(t)][1])
<1> DEFINE u == Other(t)
<1>1. u \in Both
  BY TwoThreads
<1>2. Time(iter[t], b) <= counter[u]
  BY InvOf, HasSeen
<1>3. /\ counter[u] < Time(iter[u], at[u][1] + 1) /\ counter[u] \in Nat /\ iter[u] \in Nat /\ at[u][1] \in 0 .. 4
      /\ Time(iter[u], at[u][1] + 1) \in Nat
  BY <1>1, InvOf
<1>4. Time(iter[t], b) \in Nat /\ iter[t] \in Nat
  BY InvOf, TimeNat
<1>5. Time(iter[t], b) < Time(iter[u], at[u][1] + 1)
  BY <1>2, <1>3, <1>4
<1> QED BY <1>3, <1>4, <1>5, TimeEarlier

\* The next form is only begun when the other thread is done with this one.
LEMMA FormAlone ==
  ASSUME FastInv, NEW t \in Both, Working(t), Working(Other(t)), 4 <= Seen(t, Stage(t)),
         0 <= Seen(Other(t), Stage(Other(t))), at[Other(t)][1] < 4
  PROVE  FALSE
<1> DEFINE u == Other(t)
<1>1. u \in Both /\ Other(u) = t
  BY TwoThreads
<1>2. iter[t] \in Nat /\ iter[u] \in Nat /\ at[u][1] \in 0 .. 4
  BY <1>1, InvOf
<1>3. iter[t] < iter[u] \/ (iter[t] = iter[u] /\ 4 <= at[u][1])
  BY SeenBefore
<1>4. iter[u] < iter[t] \/ (iter[u] = iter[t] /\ 0 <= at[t][1])
  BY <1>1, SeenBefore
<1> QED BY <1>2, <1>3, <1>4

\* Neither the fields, the entries nor ab_index lie in the place of another.
LEMMA PlacesApart ==
  ASSUME ab_index \in {0, 1}, NEW f \in Names
  PROVE  /\ Slot(f) # <<"ab_index", 0>>
         /\ \A g \in Gcds : \A n : Slot(f) # <<g, n>> /\ <<g, n>> # <<"ab_index", 0>>
<1>1. Slot(f) \in Fields
  BY SlotOfName
<1>2. \A s \in Fields : s[1] \in {"as", "bs"} \cup Computed
  BY DEF Fields
<1>3. "ab_index" \notin {"as", "bs"} \cup Computed \cup Gcds
  BY DEF Computed, Gcds
<1>4. Gcds \cap ({"as", "bs"} \cup Computed) = {}
  BY DEF Computed, Gcds
<1> QED BY <1>1, <1>2, <1>3, <1>4

\* What a thread reads in its next step.
LEMMA ReadsAre ==
  ASSUME FastInv, NEW t \in Both, NEW x \in Reads(t)
  PROVE  /\ Working(t) /\ 0 <= Seen(t, Stage(t))
         /\ \/ \E f \in Names : x = Slot(f) /\ (MayRead(t, at[t][1], Stage(t), f) \/ (t = Master /\ f \in {"a", "b"}))
            \/ /\ AtOp(t, "take") /\ x = <<Now(t).gcd, entry[t]>>
               /\ Time(iter[t], at[t][1]) + entry[t] + 1 <= counter[Other(t)]
            \/ /\ x = <<"ab_index", 0>>
               /\ \E f \in {"a", "b", "A", "B"} : MayRead(t, at[t][1], Stage(t), f) \/ t = Master
<1>1. \E o \in {"do", "gcd", "take", "listen"} : AtOp(t, o)
  BY DEF Reads
<1>2. Working(t) /\ at[t][2] > 0 /\ Now(t).op \in {"do", "gcd", "take", "listen"}
  BY <1>1, AtOpPlace
<1>3. Ordered(t, at[t][1], Stage(t), Now(t))
  BY <1>2, InvOf, AtOperation
<1>4. 0 <= Seen(t, Stage(t))
  BY <1>2, <1>3 DEF Ordered
<1>5. ASSUME NEW fs, x \in Found(fs), 
             \A f \in fs : f \in Names /\ (MayRead(t, at[t][1], Stage(t), f) \/ (t = Master /\ f \in {"a", "b"}))
      PROVE  \/ \E f \in Names : x = Slot(f) /\ (MayRead(t, at[t][1], Stage(t), f) \/ (t = Master /\ f \in {"a", "b"}))
             \/ /\ x = <<"ab_index", 0>>
                /\ \E f \in {"a", "b", "A", "B"} : MayRead(t, at[t][1], Stage(t), f) \/ t = Master
  BY <1>5 DEF Found
<1>6. CASE AtOp(t, "do") \/ AtOp(t, "gcd")
  <2>1. x \in Found(Now(t).reads)
    BY <1>6 DEF Reads, AtOp
  <2>2. \A f \in Now(t).reads : MayRead(t, at[t][1], Stage(t), f)
    BY <1>3, <1>6 DEF Ordered, AtOp
  <2>3. \A f \in Now(t).reads : f \in Names
    BY <2>2 DEF MayRead, Names
  <2> QED BY <1>2, <1>4, <1>5, <2>1, <2>2, <2>3
<1>7. CASE AtOp(t, "take")
  <2> DEFINE to == Base(t) + Start[Now(t).phase] + entry[t] + 1
  <2>1. Fenced(t, to) /\ x \in {<<Now(t).gcd, entry[t]>>} \cup Found(Now(t).reads)
    BY <1>7 DEF Reads, AtOp
  <2>2. \A f \in Now(t).reads : MayRead(t, at[t][1], Stage(t), f)
    BY <1>3, <1>7 DEF Ordered, AtOp
  <2>3. \A f \in Now(t).reads : f \in Names
    BY <2>2 DEF MayRead, Names
  <2>4. to = Time(iter[t], at[t][1]) + entry[t] + 1 /\ to \in Nat
    <3>1. Base(t) + Start[at[t][1]] = Time(iter[t], at[t][1])
      BY DEF Base, Time
    <3>2. Now(t).phase = at[t][1] /\ Time(iter[t], at[t][1]) \in Nat
      BY <1>2, <1>7, TakeAt, InvOf
    <3>3. entry[t] \in 0 .. GcdMax + 1 /\ GcdMax \in Nat
      BY InvOf
    <3> QED BY <3>1, <3>2, <3>3
  <2> HIDE DEF to
  <2>5. to <= counter[Other(t)]
    <3>1. /\ last_fence[t] <= counter[Other(t)] /\ last_fence[t] \in Nat /\ counter[Other(t)] \in Nat
      BY InvOf, TwoThreads
    <3> QED BY <2>1, <2>4, <3>1 DEF Fenced
  <2>6. CASE x = <<Now(t).gcd, entry[t]>>
    BY <1>2, <1>4, <1>7, <2>4, <2>5, <2>6
  <2>7. CASE x \in Found(Now(t).reads)
    BY <1>2, <1>4, <1>5, <2>2, <2>3, <2>7
  <2> QED BY <2>1, <2>6, <2>7
<1>8. CASE AtOp(t, "listen")
  <2>1. x \in Found({"a", "b"})
    BY <1>8 DEF Reads, AtOp
  <2>2. t = Master
    BY <1>3, <1>8 DEF Ordered, AtOp
  <2>3. \A f \in {"a", "b"} : f \in Names
    BY DEF Names, Shared
  <2> QED BY <1>2, <1>4, <1>5, <2>1, <2>2, <2>3
<1> QED BY <1>1, <1>6, <1>7, <1>8

\* What it writes.
LEMMA WritesAre ==
  ASSUME FastInv, NEW t \in Both, NEW x \in Writes(t)
  PROVE  /\ Working(t) /\ 0 <= Seen(t, Stage(t))
         /\ \/ \E f \in Computed \cup {"A", "B"} : x = Slot(f) /\ MayWrite(t, at[t][1], Stage(t), f)
            \/ AtOp(t, "gcd") /\ x = <<Now(t).gcd, entry[t]>>
            \/ x = <<"ab_index", 0>> /\ t = Master /\ Seen(t, Stage(t)) = 4
<1>1. \E o \in {"do", "gcd", "flip"} : AtOp(t, o)
  BY DEF Writes
<1>2. Working(t) /\ at[t][2] > 0 /\ Now(t).op \in {"do", "gcd", "flip"}
  BY <1>1, AtOpPlace
<1>3. Ordered(t, at[t][1], Stage(t), Now(t)) /\ Complete(t, Stage(t), Now(t))
  BY <1>2, InvOf, AtOperation
<1>4. 0 <= Seen(t, Stage(t))
  BY <1>2, <1>3 DEF Ordered
<1>5. Now(t).op \in {"do", "gcd"} =>
        \A f \in Now(t).writes : f \in Computed \cup {"A", "B"} /\ MayWrite(t, at[t][1], Stage(t), f)
  BY <1>3 DEF Ordered, MayWrite
<1>6. CASE AtOp(t, "do")
  <2>1. x \in {Slot(f) : f \in Now(t).writes}
    BY <1>6 DEF Writes, AtOp
  <2> QED BY <1>2, <1>4, <1>5, <1>6, <2>1 DEF AtOp
<1>7. CASE AtOp(t, "gcd")
  <2>1. x \in Found(Now(t).writes) \cup {<<Now(t).gcd, entry[t]>>}
    BY <1>7 DEF Writes, AtOp
  <2>2. \A f \in Now(t).writes : f \notin {"a", "b", "A", "B"}
    <3>1. Stage(t) = 4 \/ Stage(t) = 13
      BY <1>3, <1>7 DEF Complete, AtOp
    <3>2. \A f \in Now(t).writes : f \in Computed \cup {"A", "B"} /\ StageOf(f) <= Stage(t)
      BY <1>5, <1>7 DEF AtOp, MayWrite
    <3>3. StageOf("A") = 32 /\ StageOf("B") = 45
      BY DEF StageOf
    <3> QED BY <3>1, <3>2, <3>3 DEF Computed
  <2>3. Found(Now(t).writes) = {Slot(f) : f \in Now(t).writes}
    BY <2>2 DEF Found
  <2> QED BY <1>2, <1>4, <1>5, <1>7, <2>1, <2>3 DEF AtOp
<1>8. CASE AtOp(t, "flip")
  <2>1. x = <<"ab_index", 0>>
    BY <1>8 DEF Writes, AtOp
  <2>2. t = Master /\ Stage(t) = 47
    BY <1>3, <1>8 DEF Ordered, AtOp
  <2>3. Seen(t, Stage(t)) = 4
    BY <2>2 DEF Seen
  <2> QED BY <1>2, <1>4, <2>1, <2>2, <2>3
<1> QED BY <1>1, <1>6, <1>7, <1>8

\* A field that one thread writes, the other does not read in the meantime.
LEMMA FieldAlone ==
  ASSUME FastInv, NEW t \in Both, Working(t), Working(Other(t)), 0 <= Seen(t, Stage(t)),
         0 <= Seen(Other(t), Stage(Other(t))),
         NEW f \in Computed \cup {"A", "B"}, MayWrite(t, at[t][1], Stage(t), f),
         MayRead(Other(t), at[Other(t)][1], Stage(Other(t)), f)
  PROVE  FALSE
<1> DEFINE u == Other(t)
           b == ReadyAt(f)
<1>1. u \in Both /\ Other(u) = t /\ u # t /\ OwnerOf(f) = t
  BY TwoThreads DEF MayWrite
<1>2. f \in Shared /\ f \in Computed /\ b <= Seen(u, Stage(u)) /\ at[u][1] < FreeAt(f)
  <2>1. f \in {"A", "B"} => OwnerOf(f) = Master /\ f \notin Shared
    BY DEF OwnerOf, Shared, Computed
  <2>2. f \in Shared /\ ReadyAt(f) <= Seen(u, Stage(u)) /\ at[u][1] < FreeAt(f)
    BY <1>1, <2>1 DEF MayRead
  <2> QED BY <2>1, <2>2
<1>3. PhaseOf(f) = at[t][1] /\ StageOf(f) <= Stage(t) /\ Stage(t) <= 46
  BY <1>2 DEF MayWrite
<1>4. /\ iter[t] \in Nat /\ iter[u] \in Nat /\ at[t][1] \in 0 .. 4 /\ at[u][1] \in 0 .. 4 /\ Stage(t) \in 0 .. 48
  BY <1>1, InvOf
<1>5. CASE f \in OfForm
  <2>1. f = "high"
    BY <1>2, <1>5 DEF OfForm, Computed
  <2>2. StageOf(f) = 46 /\ FreeAt(f) = 4
    BY <2>1 DEF StageOf, FreeAt, OfForm
  <2>3. Stage(t) = 46
    BY <1>3, <1>4, <2>2
  <2>4. t = Master
    BY <1>1, <2>1 DEF OwnerOf
  <2>5. Seen(t, Stage(t)) = 4
    BY <2>3, <2>4 DEF Seen
  <2> QED BY <1>1, <1>2, <2>2, <2>5, FormAlone
<1>6. CASE f \notin OfForm
  <2>1. b = at[t][1] + 1 /\ b \in 0 .. 5
    BY <1>3, <1>4, <1>6 DEF ReadyAt
  <2>2. iter[u] < iter[t] \/ (iter[u] = iter[t] /\ b <= at[t][1])
    BY <1>1, <1>2, <2>1, SeenBefore
  <2>3. iter[t] < iter[u] \/ (iter[t] = iter[u] /\ 0 <= at[u][1])
    BY SeenBefore
  <2> HIDE DEF b
  <2> QED BY <1>4, <2>1, <2>2, <2>3
<1> QED BY <1>5, <1>6

\* Of an entry that one thread writes, the other has not seen the counter.
LEMMA EntryAlone ==
  ASSUME FastInv, NEW t \in Both, AtOp(t, "gcd"), AtOp(Other(t), "take"),
         Time(iter[Other(t)], at[Other(t)][1]) + entry[Other(t)] + 1 <= counter[t]
  PROVE  <<Now(t).gcd, entry[t]>> # <<Now(Other(t)).gcd, entry[Other(t)]>>
<1> DEFINE u == Other(t)
<1>1. u \in Both /\ Other(u) = t /\ u # t /\ Working(t) /\ Working(u)
  BY TwoThreads, AtOpPlace
<1>2. GcdPhase(Now(t).gcd) = at[t][1] /\ GcdPhase(Now(u).gcd) = at[u][1]
  BY <1>1, GcdAt, TakeAt
<1> SUFFICES ASSUME Now(t).gcd = Now(u).gcd, entry[t] = entry[u] PROVE FALSE
  OBVIOUS
<1>3. at[u][1] = at[t][1]
  BY <1>2
<1>4. /\ iter[t] \in Nat /\ iter[u] \in Nat /\ entry[u] \in Nat /\ entry[t] \in Nat
      /\ counter[t] \in Nat /\ counter[u] \in Nat
      /\ counter[t] < Time(iter[t], at[t][1] + 1) /\ Time(iter[t], at[t][1] + 1) \in Nat
      /\ Time(iter[t], at[t][1]) \in Nat /\ Time(iter[u], at[t][1]) \in Nat
      /\ counter[u] < Time(iter[u], at[u][1] + 1) /\ Time(iter[u], at[u][1] + 1) \in Nat
      /\ at[u][1] \in 0 .. 4
  <2>1. entry[t] \in 0 .. GcdMax + 1 /\ entry[u] \in 0 .. GcdMax + 1 /\ GcdMax \in Nat
    BY <1>1, InvOf
  <2>2. entry[t] \in Nat /\ entry[u] \in Nat
    BY <2>1
  <2>3. iter[t] \in Nat /\ counter[t] \in Nat /\ counter[t] < Time(iter[t], at[t][1] + 1)
        /\ Time(iter[t], at[t][1] + 1) \in Nat /\ Time(iter[t], at[t][1]) \in Nat
    BY <1>1, InvOf
  <2>4. iter[u] \in Nat /\ counter[u] \in Nat /\ counter[u] < Time(iter[u], at[u][1] + 1)
        /\ Time(iter[u], at[u][1] + 1) \in Nat /\ Time(iter[u], at[u][1]) \in Nat /\ at[u][1] \in 0 .. 4
    BY <1>1, InvOf
  <2> QED BY <1>3, <2>2, <2>3, <2>4
<1>5. counter[u] < Time(iter[u] + 1, 0)
  <2>1. at[u][1] + 1 \in 0 .. 5 /\ at[u][1] + 1 <= 5
    BY <1>4
  <2>2. Time(iter[u], at[u][1] + 1) <= Time(iter[u], 5)
    BY <1>4, <2>1, TimeLater
  <2>3. Time(iter[u], 5) \in Nat /\ Time(iter[u], 5) = Time(iter[u] + 1, 0)
    BY <1>4, TimeNats, TimeWraps
  <2> QED BY <1>4, <2>2, <2>3
<1>6. Time(iter[u], at[t][1]) + (entry[u] + 1) < Time(iter[t], at[t][1] + 1)
  BY <1>3, <1>4
<1>7. entry[u] + 1 \in Nat
  BY <1>4
<1>8. iter[u] = iter[t]
  BY <1>4, <1>5, <1>6, <1>7, SameSquaring
<1>9. /\ counter[t] <= Time(iter[t], at[t][1]) + entry[t]
  BY <1>1, CounterBefore, InvOf
<1> QED BY <1>3, <1>4, <1>8, <1>9

\* So no field, entry or index is written by one and touched by the other.
LEMMA NeverTogether == ASSUME FastInv PROVE NoConflict
<1> SUFFICES ASSUME NEW t \in Both, NEW x, x \in Writes(t), x \in Reads(Other(t)) \cup Writes(Other(t))
             PROVE  FALSE
  BY DEF NoConflict
<1> DEFINE u == Other(t)
<1>1. u \in Both /\ Other(u) = t /\ u # t /\ ab_index \in {0, 1}
  BY TwoThreads DEF FastInv, Types
<1>2. /\ Working(t) /\ 0 <= Seen(t, Stage(t))
      /\ \/ \E f \in Computed \cup {"A", "B"} : x = Slot(f) /\ MayWrite(t, at[t][1], Stage(t), f)
         \/ AtOp(t, "gcd") /\ x = <<Now(t).gcd, entry[t]>>
         \/ x = <<"ab_index", 0>> /\ t = Master /\ Seen(t, Stage(t)) = 4
  BY WritesAre
<1>3. \A f \in Computed \cup {"A", "B"} : f \in Names
  BY DEF Names, Shared
<1>4. AtOp(t, "gcd") => Now(t).gcd \in Gcds /\ WriterOf(Now(t).gcd) = t
  BY GcdAt
<1>5. CASE x \in Writes(u)
  <2>1. /\ \/ \E f \in Computed \cup {"A", "B"} : x = Slot(f) /\ MayWrite(u, at[u][1], Stage(u), f)
           \/ AtOp(u, "gcd") /\ x = <<Now(u).gcd, entry[u]>>
           \/ x = <<"ab_index", 0>> /\ u = Master /\ Seen(u, Stage(u)) = 4
    BY <1>1, <1>5, WritesAre
  <2>2. AtOp(u, "gcd") => Now(u).gcd \in Gcds /\ WriterOf(Now(u).gcd) = u
    BY <1>1, GcdAt
  <2>3. CASE \E f \in Computed \cup {"A", "B"} : x = Slot(f) /\ MayWrite(t, at[t][1], Stage(t), f)
    <3>1. PICK f \in Computed \cup {"A", "B"} : x = Slot(f) /\ OwnerOf(f) = t
      BY <2>3 DEF MayWrite
    <3>2. f \in Names /\ x # <<"ab_index", 0>> /\ \A g \in Gcds : \A n : x # <<g, n>>
      BY <1>1, <1>3, <3>1, PlacesApart
    <3>3. PICK h \in Computed \cup {"A", "B"} : x = Slot(h) /\ OwnerOf(h) = u
      BY <2>1, <2>2, <3>2 DEF MayWrite
    <3> QED BY <1>1, <1>3, <3>1, <3>3, SlotOfName
  <2>4. CASE AtOp(t, "gcd") /\ x = <<Now(t).gcd, entry[t]>>
    <3>1. Now(t).gcd \in Gcds /\ WriterOf(Now(t).gcd) = t
      BY <1>4, <2>4
    <3>2. x # <<"ab_index", 0>> /\ \A f \in Names : x # Slot(f)
      <4>1. "a" \in Names
        BY DEF Names, Shared
      <4> QED BY <1>1, <2>4, <3>1, <4>1, PlacesApart
    <3>3. AtOp(u, "gcd") /\ x = <<Now(u).gcd, entry[u]>>
      BY <1>3, <2>1, <3>2
    <3>4. Now(u).gcd = Now(t).gcd
      BY <2>4, <3>3
    <3> QED BY <1>1, <2>2, <3>1, <3>3, <3>4
  <2>5. CASE x = <<"ab_index", 0>> /\ t = Master
    <3>1. "a" \in Names
      BY DEF Names, Shared
    <3>2. (\A f \in Names : x # Slot(f)) /\ \A g \in Gcds : \A n : x # <<g, n>>
      BY <1>1, <2>5, <3>1, PlacesApart
    <3> QED BY <1>1, <1>3, <2>1, <2>2, <2>5, <3>2
  <2> QED BY <1>2, <2>3, <2>4, <2>5
<1>6. CASE x \in Reads(u)
  <2>1. /\ Working(u) /\ 0 <= Seen(u, Stage(u))
        /\ \/ \E f \in Names : x = Slot(f) /\ (MayRead(u, at[u][1], Stage(u), f) \/ (u = Master /\ f \in {"a", "b"}))
           \/ /\ AtOp(u, "take") /\ x = <<Now(u).gcd, entry[u]>>
              /\ Time(iter[u], at[u][1]) + entry[u] + 1 <= counter[t]
           \/ /\ x = <<"ab_index", 0>>
              /\ \E f \in {"a", "b", "A", "B"} : MayRead(u, at[u][1], Stage(u), f) \/ u = Master
    BY <1>1, <1>6, ReadsAre
  <2>2. AtOp(u, "take") => Now(u).gcd \in Gcds
    BY <1>1, TakeAt
  <2>3. CASE \E f \in Computed \cup {"A", "B"} : x = Slot(f) /\ MayWrite(t, at[t][1], Stage(t), f)
    <3>1. PICK f \in Computed \cup {"A", "B"} : x = Slot(f) /\ MayWrite(t, at[t][1], Stage(t), f)
      BY <2>3
    <3>2. f \in Names /\ x # <<"ab_index", 0>> /\ \A g \in Gcds : \A n : x # <<g, n>>
      BY <1>1, <1>3, <3>1, PlacesApart
    <3>3. PICK h \in Names : x = Slot(h) /\ (MayRead(u, at[u][1], Stage(u), h) \/ (u = Master /\ h \in {"a", "b"}))
      BY <2>1, <2>2, <3>2
    <3>4. h = f
      BY <1>1, <3>1, <3>2, <3>3, SlotOfName
    <3>5. f \notin {"a", "b"}
      BY DEF Computed
    <3>6. MayRead(u, at[u][1], Stage(u), f)
      BY <3>3, <3>4, <3>5
    <3> QED BY <1>2, <2>1, <3>1, <3>6, FieldAlone
  <2>4. CASE AtOp(t, "gcd") /\ x = <<Now(t).gcd, entry[t]>>
    <3>1. Now(t).gcd \in Gcds
      BY <1>4, <2>4
    <3>2. x # <<"ab_index", 0>> /\ \A f \in Names : x # Slot(f)
      <4>1. "a" \in Names
        BY DEF Names, Shared
      <4> QED BY <1>1, <2>4, <3>1, <4>1, PlacesApart
    <3>3. /\ AtOp(u, "take") /\ x = <<Now(u).gcd, entry[u]>>
          /\ Time(iter[u], at[u][1]) + entry[u] + 1 <= counter[t]
      BY <2>1, <3>2
    <3> QED BY <2>4, <3>3, EntryAlone
  <2>5. CASE x = <<"ab_index", 0>> /\ t = Master /\ Seen(t, Stage(t)) = 4
    <3>1. "a" \in Names
      BY DEF Names, Shared
    <3>2. (\A f \in Names : x # Slot(f)) /\ \A g \in Gcds : \A n : x # <<g, n>>
      BY <1>1, <2>5, <3>1, PlacesApart
    <3>3. PICK f \in {"a", "b", "A", "B"} : MayRead(u, at[u][1], Stage(u), f)
      BY <1>1, <2>1, <2>2, <2>5, <3>2
    <3>4. OwnerOf(f) = Master /\ u # Master /\ (f \in Shared => FreeAt(f) = 4)
      BY <1>1, <2>5 DEF OwnerOf, FreeAt, OfForm
    <3>5. at[u][1] < 4
      BY <3>3, <3>4 DEF MayRead
    <3> QED BY <1>2, <2>1, <2>5, <3>5, FormAlone
  <2> QED BY <1>2, <2>3, <2>4, <2>5
<1> QED BY <1>5, <1>6

\* The two threads of repeated_square_fast share square_state without a lock:
\* whatever their pace and whoever gives up when, neither touches a field,
\* ab_index or an entry of a gcd while the other writes it, and assign and the
\* listener are given the form of exactly the squarings counted.
THEOREM StaysInStep == FastSpec => []ThreadsInStep
<1>1. FastInv => ThreadsInStep
  BY NeverTogether, CountedRight DEF ThreadsInStep
<1> QED BY <1>1, FastInvHolds, PTL

-----------------------------------------------------------------------------
(* The storage threads: the least of a set of numbers.                     *)

LEMMA LeastNat ==
  ASSUME NEW S, S \subseteq Nat, S # {}
  PROVE  \E n \in S : \A m \in S : n <= m
<1>1. PICK n \in S : \A m \in S : ~(<<m, n>> \in OpToRel(<, Nat))
  BY NatLessThanWellFounded, WFMin, Zenon
<1>2. \A m \in S : ~(m < n)
  BY <1>1 DEF OpToRel
<1> QED BY <1>2

LEMMA MinIn ==
  ASSUME NEW S, S \subseteq Nat, S # {}
  PROVE  Min(S) \in S /\ \A n \in S : Min(S) <= n
BY LeastNat DEF Min

-----------------------------------------------------------------------------
(* The segments and the positions in the window.                           *)

LEMMA DivMod ==
  ASSUME NEW L \in Nat \ {0}, NEW v \in Nat
  PROVE  /\ v \div L \in Nat /\ v % L \in 0 .. L - 1
         /\ v = (v \div L) * L + (v % L)
OBVIOUS

LEMMA ProductOrder ==
  ASSUME NEW L \in Nat \ {0}, NEW a \in Nat, NEW b \in Nat, a < b
  PROVE  a * L + L <= b * L
OBVIOUS

\* Later halves are in later segments.
LEMMA DivOrder ==
  ASSUME NEW L \in Nat \ {0}, NEW a \in Nat, NEW b \in Nat, a <= b
  PROVE  a \div L <= b \div L
<1> DEFINE p == a \div L
           q == b \div L
<1>1. /\ p \in Nat /\ p * L <= a
      /\ q \in Nat /\ b < q * L + L
  BY DivMod
<1> HIDE DEF p, q
<1>2. CASE q < p
  <2>1. q * L + L <= p * L
    BY <1>1, <1>2, ProductOrder
  <2> QED BY <1>1, <2>1
<1>3. CASE ~(q < p)
  BY <1>1, <1>3 DEF p, q
<1> QED BY <1>2, <1>3

\* Two halves that share their entries are a window apart.
LEMMA SamePosition ==
  ASSUME NEW L \in Nat \ {0}, NEW W \in Nat \ {0}, NEW a \in Nat, NEW b \in Nat,
         a % (W * L) = b % (W * L), a < b
  PROVE  a \div L + W <= b \div L
<1> DEFINE M == W * L
           p == a \div M
           q == b \div M
<1>1. M \in Nat \ {0}
  OBVIOUS
<1>2. /\ p \in Nat /\ q \in Nat
      /\ a = p * M + (a % M) /\ b = q * M + (b % M)
      /\ a % M \in Nat
  <2>1. M \in Nat \ {0}
    BY <1>1
  <2> HIDE DEF M
  <2> QED BY <2>1, DivMod
<1>3. p < q
  <2>1. CASE p = q
    BY <1>2, <2>1
  <2>2. CASE q < p
    <3>1. q * M + M <= p * M
      <4> HIDE DEF M, p, q
      <4> QED BY <1>1, <1>2, <2>2, ProductOrder
    <3>2. p * M \in Nat /\ q * M \in Nat
      <4> HIDE DEF M, p, q
      <4> QED BY <1>1, <1>2
    <3> HIDE DEF M, p, q
    <3> QED BY <1>1, <1>2, <3>1, <3>2
  <2> HIDE DEF M, p, q
  <2> QED BY <1>2, <2>1, <2>2
<1>4. a + M <= b
  <2>1. p * M + M <= q * M
    <3> HIDE DEF M, p, q
    <3> QED BY <1>1, <1>2, <1>3, ProductOrder
  <2>2. p * M \in Nat /\ q * M \in Nat
    <3> HIDE DEF M, p, q
    <3> QED BY <1>1, <1>2
  <2> HIDE DEF M, p, q
  <2> QED BY <1>1, <1>2, <2>1, <2>2 DEF M
<1> DEFINE s == a \div L
           e == b \div L
<1>5. /\ s \in Nat /\ e \in Nat /\ s * L <= a /\ b < e * L + L
  <2>1. /\ s \in Nat /\ a % L \in 0 .. L - 1
        /\ a = s * L + (a % L)
    BY DivMod
  <2>2. /\ e \in Nat /\ b % L \in 0 .. L - 1
        /\ b = e * L + (b % L)
    BY DivMod
  <2>3. s * L \in Nat /\ e * L \in Nat
    <3> HIDE DEF s, e
    <3> QED BY <2>1, <2>2
  <2> HIDE DEF s, e
  <2> QED BY <2>1, <2>2, <2>3
<1>6. CASE e < s + W
  <2>1. e * L + L <= (s + W) * L
    <3> HIDE DEF s, e
    <3> QED BY <1>5, <1>6, ProductOrder
  <2>2. (s + W) * L = s * L + M
    <3> HIDE DEF s, e
    <3> QED BY <1>5
  <2>3. s * L \in Nat /\ e * L \in Nat
    <3> HIDE DEF s, e
    <3> QED BY <1>5
  <2> HIDE DEF s, e, M
  <2> QED BY <1>1, <1>4, <1>5, <2>1, <2>2, <2>3
<1>7. CASE ~(e < s + W)
  BY <1>5, <1>7 DEF s, e
<1> QED BY <1>6, <1>7

LEMMA Shape ==
  ASSUME NEW i \in Buckets
  PROVE  /\ Lengths[i] \in Nat \ {0} /\ Window * Lengths[i] \in Nat \ {0}
         /\ \A h \in Nat : /\ Segment(i, h) \in Nat
                           /\ GetPosition(i, h) \in WindowEntries(i)
<1>1. Lengths[i] \in Nat \ {0}
  BY StorageAssumption DEF Buckets
<1>2. Window * Lengths[i] \in Nat \ {0}
  BY <1>1, StorageAssumption
<1>3. ASSUME NEW h \in Nat PROVE Segment(i, h) \in Nat /\ GetPosition(i, h) \in WindowEntries(i)
  BY <1>1, <1>2, DivMod DEF Segment, GetPosition, WindowEntries
<1> QED BY <1>1, <1>2, <1>3

-----------------------------------------------------------------------------
(* The invariant.                                                          *)

\* The types, and that what the event loop has counted as finished and what is
\* proved is stored.
StorageTypes ==
  /\ submitted \in 0 .. MaxHalves
  /\ pending_intermediates \subseteq 0 .. submitted - 1
  /\ working \in [Workers -> 0 .. submitted - 1 \cup {None}]
  /\ bucket \in [Workers -> 1 .. Len(Lengths) + 2]
  /\ DOMAIN window = Buckets
  /\ \A i \in Buckets : DOMAIN window[i] = WindowEntries(i)
  /\ intermediates_stored \subseteq 0 .. submitted - 1
  /\ buffered \in [Workers -> SUBSET (0 .. submitted - 1)]
  /\ new_event \in BOOLEAN

EventLoop ==
  /\ intermediates_iter \in 0 .. MaxHalves /\ intermediates_iter % 2 = 0
  /\ 0 .. intermediates_iter - 1 \subseteq intermediates_stored
  /\ \A g \in proving : /\ g = <<g[1], g[2]>> /\ g[1] \in Buckets /\ g[2] \in Nat
                        /\ HalvesOf(g[1], g[2]) \subseteq intermediates_stored

\* The flags that are set for any thread.
Flagged(h) == h \in intermediates_stored \/ \E t \in Workers : h \in buffered[t]

\* A half is waiting, computed by one thread, or its flag is set.
OnePlace ==
  /\ \A h \in pending_intermediates : ~Flagged(h)
  /\ \A t \in Workers : working[t] # None =>
       /\ working[t] \notin pending_intermediates
       /\ \A u \in Workers \ {t} : working[u] # working[t]
       /\ bucket[t] <= Len(Lengths) + 1 => ~Flagged(working[t])

\* No half a window or more after segment s has been begun.
NearEnough(i, s) == \A h \in BegunHalves : Segment(i, h) - s < Window

\* Halves are begun in their order.
BegunInOrder == \A h \in BegunHalves, v \in pending_intermediates : h < v

\* A thread that has yet to store forms of a half a window before a segment that
\* was begun was overtaken by it.
Lagging ==
  \A i \in Buckets, h \in BegunHalves, u \in Workers :
    working[u] # None /\ bucket[u] <= i /\ Segment(i, working[u]) + Window <= Segment(i, h) =>
      <<i, Segment(i, h)>> \in overtook

\* Forms that were written stay until a half a window later is begun, if no
\* thread lagged by a window when their own half was.
Written(i, h) == Flagged(h) \/ \E t \in Workers : working[t] = h /\ bucket[t] > i
Kept ==
  \A i \in Buckets, h \in 0 .. submitted - 1 :
    Written(i, h) /\ NearEnough(i, Segment(i, h)) /\ <<i, Segment(i, h)>> \notin overtook =>
      window[i][GetPosition(i, h)] = h

\* A segment with both flags set is announced, or a thread is about to test the
\* flags, or two threads tested them at once.
PairFlagged(h) == Flagged(h) /\ Flagged(h + 1)
Testing(t, h) == working[t] \in {h, h + 1} /\ bucket[t] = Len(Lengths) + 2
Announced ==
  \A h \in 0 .. MaxHalves : h % 2 = 0 /\ PairFlagged(h) =>
    \/ Segment(1, h) \in raced
    \/ \E t \in Workers : Testing(t, h)
    \/ SegmentFinished(h) /\ (new_event \/ intermediates_iter # h)

StorageInv == StorageTypes /\ EventLoop /\ OnePlace /\ BegunInOrder /\ Lagging /\ Kept /\ Announced

LEMMA SegmentBelow ==
  ASSUME NEW i \in Buckets, NEW h \in Nat, NEW s \in Nat
  PROVE  h < (s + 1) * Lengths[i] <=> Segment(i, h) <= s
<1> DEFINE L == Lengths[i]
           q == h \div L
<1>1. L \in Nat \ {0}
  BY Shape
<1>2. q \in Nat /\ q * L \in Nat /\ q * L <= h /\ h < q * L + L
  <2>1. q \in Nat /\ h % L \in 0 .. L - 1 /\ h = q * L + (h % L)
    <3> HIDE DEF L
    <3> QED BY <1>1, DivMod
  <2>2. q * L \in Nat
    <3> HIDE DEF L, q
    <3> QED BY <1>1, <2>1
  <2> HIDE DEF L, q
  <2> QED BY <1>1, <2>1, <2>2
<1>3. Segment(i, h) = q
  BY DEF Segment
<1>4. CASE q <= s
  <2>1. q * L + L <= (s + 1) * L
    <3> HIDE DEF L, q
    <3> QED BY <1>1, <1>2, <1>4, ProductOrder
  <2>2. (s + 1) * L \in Nat
    <3> HIDE DEF L, q
    <3> QED BY <1>1
  <2>3. h < (s + 1) * L
    <3> HIDE DEF L, q
    <3> QED BY <1>1, <1>2, <2>1, <2>2
  <2> QED BY <1>3, <1>4, <2>3
<1>5. CASE ~(q <= s)
  <2>1. (s + 1) * L <= q * L
    <3> HIDE DEF L, q
    <3>1. CASE s + 1 = q
      BY <1>1, <1>2, <3>1
    <3>2. CASE s + 1 < q
      <4>1. (s + 1) * L + L <= q * L
        BY <1>1, <1>2, <3>2, ProductOrder
      <4>2. (s + 1) * L \in Nat
        BY <1>1
      <4> QED BY <1>1, <1>2, <4>1, <4>2
    <3> QED BY <1>2, <1>5, <3>1, <3>2
  <2>2. (s + 1) * L \in Nat
    <3> HIDE DEF L, q
    <3> QED BY <1>1
  <2>3. ~(h < (s + 1) * L)
    <3> HIDE DEF L, q
    <3> QED BY <1>2, <2>1, <2>2
  <2> QED BY <1>3, <1>5, <2>3
<1> QED BY <1>4, <1>5

\* The event loop finds all segments before FinishedUpTo finished, not that one.
LEMMA FinishedSegments ==
  ASSUME StorageTypes, EventLoop
  PROVE  /\ FinishedUpTo \in intermediates_iter .. MaxHalves /\ FinishedUpTo % 2 = 0
         /\ ~SegmentFinished(FinishedUpTo)
         /\ 0 .. FinishedUpTo - 1 \subseteq intermediates_stored
<1> DEFINE S == {n \in Nat : n % 2 = 0 /\ n >= intermediates_iter /\ ~SegmentFinished(n)}
           P(h) == /\ \A n \in intermediates_iter .. h - 2 : n % 2 = 0 => SegmentFinished(n)
                   /\ ~SegmentFinished(h)
           F == FinishedUpTo
<1>1. /\ intermediates_iter \in Nat /\ intermediates_iter <= MaxHalves /\ intermediates_iter % 2 = 0
      /\ intermediates_stored \subseteq 0 .. MaxHalves - 1
      /\ 0 .. intermediates_iter - 1 \subseteq intermediates_stored /\ MaxHalves \in Nat
  BY StorageAssumption DEF StorageTypes, EventLoop
<1>2. S # {}
  <2> DEFINE n == intermediates_iter + 2 * MaxHalves
  <2>1. n \in Nat /\ n % 2 = 0 /\ n >= intermediates_iter /\ n + 1 \notin intermediates_stored
    BY <1>1
  <2> HIDE DEF n
  <2> QED BY <2>1 DEF SegmentFinished
<1>3. PICK h \in S : \A m \in S : h <= m
  BY <1>2, LeastNat
<1>4. h <= MaxHalves
  <2> SUFFICES ASSUME h > MaxHalves PROVE FALSE
    BY <1>1, <1>3
  <2>1. h - 2 \in Nat /\ (h - 2) % 2 = 0 /\ h - 2 >= intermediates_iter /\ h - 1 \notin intermediates_stored
    BY <1>1, <1>3
  <2>2. ~SegmentFinished(h - 2)
    BY <2>1, <1>3 DEF SegmentFinished
  <2>3. ~(h <= h - 2)
    BY <1>3
  <2> QED BY <1>3, <2>1, <2>2, <2>3
<1>5. P(h)
  <2>1. ASSUME NEW n \in intermediates_iter .. h - 2, n % 2 = 0 PROVE SegmentFinished(n)
    <3>1. n \in Nat /\ n >= intermediates_iter /\ ~(h <= n)
      BY <1>1, <1>3
    <3> QED BY <1>3, <2>1, <3>1
  <2> QED BY <1>3, <2>1
<1>6. F \in {n \in 0 .. MaxHalves : n % 2 = 0 /\ n >= intermediates_iter} /\ P(F)
  <2>1. h \in {n \in 0 .. MaxHalves : n % 2 = 0 /\ n >= intermediates_iter}
    BY <1>1, <1>3, <1>4
  <2>2. F = CHOOSE n \in {n \in 0 .. MaxHalves : n % 2 = 0 /\ n >= intermediates_iter} : P(n)
    BY DEF FinishedUpTo
  <2> HIDE DEF P, F, S
  <2> QED BY <1>5, <2>1, <2>2
<1>7. F \in Nat /\ F >= intermediates_iter /\ F <= MaxHalves /\ F % 2 = 0
  BY <1>6
<1>8. ASSUME NEW k \in 0 .. F - 1 PROVE k \in intermediates_stored
  <2>1. CASE k < intermediates_iter
    BY <1>1, <2>1
  <2>2. CASE ~(k < intermediates_iter)
    <3> DEFINE n == 2 * (k \div 2)
    <3>1. n \in intermediates_iter .. F - 2 /\ n % 2 = 0 /\ k \in {n, n + 1}
      <4> HIDE DEF F
      <4>1. PICK q \in Nat : k = 2 * q \/ k = 2 * q + 1
        <5>1. k \in Nat /\ k \div 2 \in Nat /\ (k = 2 * (k \div 2) \/ k = 2 * (k \div 2) + 1)
          BY <1>7
        <5> QED BY <5>1
      <4>2. k \div 2 = q
        BY <4>1
      <4>3. PICK f \in Nat, j \in Nat : F = 2 * f /\ intermediates_iter = 2 * j
        <5>1. F = 2 * (F \div 2) /\ F \div 2 \in Nat
          BY <1>7
        <5>2. /\ intermediates_iter = 2 * (intermediates_iter \div 2)
              /\ intermediates_iter \div 2 \in Nat
          BY <1>1
        <5> QED BY <5>1, <5>2
      <4>4. q >= j /\ q < f
        BY <1>7, <2>2, <4>1, <4>3
      <4> QED BY <4>1, <4>2, <4>3, <4>4
    <3>2. SegmentFinished(n)
      <4> HIDE DEF n, F
      <4> QED BY <1>6, <3>1
    <3> HIDE DEF n
    <3> QED BY <3>1, <3>2 DEF SegmentFinished
  <2> QED BY <2>1, <2>2
<1> QED BY <1>6, <1>7, <1>8

-----------------------------------------------------------------------------
(* The steps.                                                              *)

LEMMA StorageTypesNext == StorageTypes /\ EventLoop /\ [StorageNext]_storageVars => StorageTypes'
<1> SUFFICES ASSUME StorageTypes, EventLoop, [StorageNext]_storageVars PROVE StorageTypes'
  OBVIOUS
<1> USE StorageAssumption
<1>1. CASE SubmitCheckpoint
  <2>1. submitted \in 0 .. MaxHalves - 1 /\ submitted' = submitted + 1
    BY <1>1 DEF SubmitCheckpoint, StorageTypes
  <2>2. 0 .. submitted - 1 \subseteq 0 .. submitted' - 1 /\ submitted \in 0 .. submitted' - 1
    BY <2>1
  <2>3. submitted' \in 0 .. MaxHalves
    BY <2>1
  <2> QED BY <1>1, <2>2, <2>3 DEF SubmitCheckpoint, StorageTypes, flagVars, loopVars
<1>2. CASE WakeLoop
  BY <1>2 DEF WakeLoop, StorageTypes, workerVars, flagVars
<1>3. CASE Stop
  BY <1>3 DEF Stop, StorageTypes, workerVars, flagVars, loopVars
<1>4. ASSUME NEW t \in Workers, TakePending(t) PROVE StorageTypes'
  <2>1. Min(pending_intermediates) \in pending_intermediates
    <3>1. pending_intermediates \subseteq Nat /\ pending_intermediates # {}
      BY <1>4 DEF TakePending, StorageTypes
    <3> QED BY <3>1, MinIn
  <2>2. Min(pending_intermediates) \in 0 .. submitted - 1
    BY <2>1 DEF StorageTypes
  <2>3. 1 \in 1 .. Len(Lengths) + 2
    <3>1. Len(Lengths) \in Nat
      OBVIOUS
    <3> QED BY <3>1
  <2> QED BY <1>4, <2>2, <2>3 DEF TakePending, StorageTypes, flagVars, loopVars
<1>5. ASSUME NEW t \in Workers, StoreForms(t) PROVE StorageTypes'
  <2>1. CASE storage_stopped
    BY <1>5, <2>1 DEF StoreForms, StorageTypes, flagVars, loopVars
  <2>2. CASE ~storage_stopped
    <3>1. bucket[t] \in 1 .. Len(Lengths) + 2 /\ Len(Lengths) \in Nat
      BY DEF StorageTypes
    <3>2. bucket[t] <= Len(Lengths)
      BY <1>5 DEF StoreForms
    <3>3. bucket[t] + 1 \in 1 .. Len(Lengths) + 2
      BY <3>1, <3>2
    <3> QED BY <1>5, <2>2, <3>3 DEF StoreForms, StorageTypes, flagVars, loopVars
  <2> QED BY <2>1, <2>2
<1>6. ASSUME NEW t \in Workers, SetFlag(t) PROVE StorageTypes'
  <2>1. bucket[t] + 1 \in 1 .. Len(Lengths) + 2 /\ working[t] \in 0 .. submitted - 1
    BY <1>6 DEF SetFlag, StorageTypes
  <2> QED BY <1>6, <2>1 DEF SetFlag, StorageTypes, loopVars
<1>7. ASSUME NEW t \in Workers, Drain(t) PROVE StorageTypes'
  BY <1>7 DEF Drain, Drained, StorageTypes, loopVars
<1>8. ASSUME NEW t \in Workers, TestFlags(t) PROVE StorageTypes'
  BY <1>8 DEF TestFlags, Drained, StorageTypes
<1>9. ASSUME NEW t \in Workers, EndThread(t) PROVE StorageTypes'
  BY <1>9 DEF EndThread, StorageTypes, workerVars, flagVars, loopVars
<1>10. ASSUME NEW g \in proving, FinishProof(g) PROVE StorageTypes'
  BY <1>10 DEF FinishProof, StorageTypes, workerVars, flagVars
<1>11. CASE UNCHANGED storageVars
  BY <1>11 DEF storageVars, StorageTypes, workerVars, flagVars, loopVars
<1> QED BY <1>1, <1>2, <1>3, <1>4, <1>5, <1>6, <1>7, <1>8, <1>9, <1>10, <1>11
        DEF StorageNext, Worker

\* What the event loop finds finished is stored.
LEMMA WakeLoopProves ==
  ASSUME StorageTypes, EventLoop, WakeLoop, NEW g \in proving'
  PROVE  \/ g \in proving
         \/ /\ g = <<g[1], g[2]>> /\ g[1] \in Buckets /\ g[2] \in Nat
            /\ intermediates_iter < (g[2] + 1) * Lengths[g[1]]
            /\ (g[2] + 1) * Lengths[g[1]] <= FinishedUpTo
<1> SUFFICES ASSUME g \notin proving
             PROVE  /\ g = <<g[1], g[2]>> /\ g[1] \in Buckets /\ g[2] \in Nat
                    /\ intermediates_iter < (g[2] + 1) * Lengths[g[1]]
                    /\ (g[2] + 1) * Lengths[g[1]] <= FinishedUpTo
  OBVIOUS
<1>1. g \in UNION {{i} \X (0 .. MaxHalves) : i \in Buckets}
  BY DEF WakeLoop
<1>2. PICK i \in Buckets : g \in {i} \X (0 .. MaxHalves)
  BY <1>1
<1>3. g = <<g[1], g[2]>> /\ g[1] \in Buckets /\ g[2] \in Nat
  BY <1>2, StorageAssumption
<1> QED BY <1>3 DEF WakeLoop

LEMMA EventLoopNext == StorageTypes /\ EventLoop /\ [StorageNext]_storageVars => EventLoop'
<1> SUFFICES ASSUME StorageTypes, EventLoop, [StorageNext]_storageVars PROVE EventLoop'
  OBVIOUS
<1>1. CASE WakeLoop
  <2> DEFINE F == FinishedUpTo
  <2>1. F \in 0 .. MaxHalves /\ F % 2 = 0 /\ 0 .. F - 1 \subseteq intermediates_stored
    BY FinishedSegments, StorageAssumption DEF EventLoop
  <2>2. intermediates_iter' = F /\ intermediates_stored' = intermediates_stored
    BY <1>1 DEF WakeLoop, workerVars, flagVars
  <2>3. ASSUME NEW g \in proving'
        PROVE  g = <<g[1], g[2]>> /\ g[1] \in Buckets /\ g[2] \in Nat /\ HalvesOf(g[1], g[2]) \subseteq intermediates_stored
    <3>1. CASE g \in proving
      BY <3>1 DEF EventLoop
    <3>2. CASE g \notin proving
      <4>1. g = <<g[1], g[2]>> /\ g[1] \in Buckets /\ g[2] \in Nat /\ (g[2] + 1) * Lengths[g[1]] <= F
        BY <1>1, <3>2, WakeLoopProves
      <4>2. ASSUME NEW h \in HalvesOf(g[1], g[2]) PROVE h \in intermediates_stored
        <5>1. h \in Nat /\ Segment(g[1], h) = g[2]
          BY StorageAssumption DEF HalvesOf
        <5>2. h < (g[2] + 1) * Lengths[g[1]]
          BY <4>1, <5>1, SegmentBelow
        <5>3. (g[2] + 1) * Lengths[g[1]] \in Nat
          <6>1. Lengths[g[1]] \in Nat
            BY <4>1, Shape
          <6> QED BY <4>1, <6>1
        <5>4. h \in 0 .. F - 1
          <6> HIDE DEF F
          <6> QED BY <2>1, <4>1, <5>1, <5>2, <5>3
        <5> QED BY <2>1, <5>4
      <4> QED BY <4>1, <4>2
    <3> QED BY <3>1, <3>2
  <2> HIDE DEF F
  <2> QED BY <2>1, <2>2, <2>3 DEF EventLoop, HalvesOf, Segment
<1>2. ASSUME UNCHANGED intermediates_iter, proving' \subseteq proving,
             intermediates_stored \subseteq intermediates_stored'
      PROVE  EventLoop'
  BY <1>2 DEF EventLoop, HalvesOf, Segment
<1>3. ASSUME UNCHANGED <<loopVars, intermediates_stored>> PROVE EventLoop'
  BY <1>2, <1>3 DEF loopVars
<1>4. CASE SubmitCheckpoint \/ Stop \/ UNCHANGED storageVars
  BY <1>3, <1>4 DEF SubmitCheckpoint, Stop, storageVars, workerVars, flagVars
<1>5. ASSUME NEW t \in Workers, TakePending(t) \/ StoreForms(t) \/ SetFlag(t) \/ EndThread(t)
      PROVE  EventLoop'
  BY <1>3, <1>5 DEF TakePending, StoreForms, SetFlag, EndThread, workerVars, flagVars
<1>6. ASSUME NEW t \in Workers, Drain(t) \/ TestFlags(t) PROVE EventLoop'
  BY <1>2, <1>6 DEF Drain, TestFlags, Drained, loopVars
<1>7. ASSUME NEW g \in proving, FinishProof(g) PROVE EventLoop'
  BY <1>2, <1>7 DEF FinishProof, workerVars, flagVars
<1> QED BY <1>1, <1>4, <1>5, <1>6, <1>7 DEF StorageNext, Worker

LEMMA OnePlaceNext == StorageTypes /\ OnePlace /\ [StorageNext]_storageVars => OnePlace'
<1> SUFFICES ASSUME StorageTypes, OnePlace, [StorageNext]_storageVars PROVE OnePlace'
  OBVIOUS
<1> USE StorageAssumption
<1>1. CASE SubmitCheckpoint
  <2>1. /\ UNCHANGED <<working, bucket, intermediates_stored, buffered>>
        /\ pending_intermediates' = pending_intermediates \cup {submitted}
    BY <1>1 DEF SubmitCheckpoint, flagVars
  <2>2. ~Flagged(submitted) /\ \A t \in Workers : working[t] # submitted
    BY DEF StorageTypes, Flagged, None
  <2> QED BY <2>1, <2>2 DEF OnePlace, Flagged
<1>2. ASSUME UNCHANGED workerVars PROVE OnePlace'
  BY <1>2 DEF OnePlace, Flagged, workerVars, flagVars
<1>3. CASE WakeLoop \/ Stop \/ UNCHANGED storageVars
  BY <1>2, <1>3 DEF WakeLoop, Stop, storageVars
<1>4. ASSUME NEW t \in Workers, TakePending(t) PROVE OnePlace'
  <2> DEFINE m == Min(pending_intermediates)
  <2>1. m \in pending_intermediates
    <3>1. pending_intermediates \subseteq Nat /\ pending_intermediates # {}
      BY <1>4 DEF TakePending, StorageTypes
    <3> QED BY <3>1, MinIn
  <2>2. /\ working' = [working EXCEPT ![t] = m] /\ bucket' = [bucket EXCEPT ![t] = 1]
        /\ pending_intermediates' = pending_intermediates \ {m}
        /\ UNCHANGED <<intermediates_stored, buffered>> /\ working[t] = None
    BY <1>4 DEF TakePending, flagVars
  <2>3. m # None
    BY <2>1 DEF StorageTypes, None
  <2> HIDE DEF m
  <2>4. \A h : Flagged(h)' <=> Flagged(h)
    BY <2>2 DEF Flagged
  <2>5. ASSUME NEW u \in Workers, working'[u] # None
        PROVE  /\ working'[u] \notin pending_intermediates'
               /\ \A v \in Workers \ {u} : working'[v] # working'[u]
               /\ bucket'[u] <= Len(Lengths) + 1 => ~Flagged(working'[u])
    BY <2>1, <2>2, <2>3, <2>5 DEF OnePlace, StorageTypes
  <2> QED BY <2>2, <2>4, <2>5 DEF OnePlace
<1>5. ASSUME NEW t \in Workers, StoreForms(t) PROVE OnePlace'
  <2>1. CASE storage_stopped
    BY <1>5, <2>1 DEF StoreForms, OnePlace, Flagged, StorageTypes, flagVars
  <2>2. CASE ~storage_stopped
    <3>1. \A h : Flagged(h)' <=> Flagged(h)
      BY <1>5 DEF StoreForms, Flagged, flagVars
    <3>2. /\ UNCHANGED <<working, pending_intermediates>> /\ bucket[t] <= Len(Lengths)
          /\ \A u \in Workers \ {t} : bucket'[u] = bucket[u]
      BY <1>5, <2>2 DEF StoreForms, StorageTypes
    <3>3. \A u \in Workers : bucket'[u] <= Len(Lengths) + 1 => bucket[u] <= Len(Lengths) + 1
      <4>1. Len(Lengths) \in Nat /\ bucket[t] \in Int
        BY DEF StorageTypes
      <4>2. bucket[t] <= Len(Lengths) + 1
        BY <3>2, <4>1
      <4> QED BY <3>2, <4>2
    <3> QED BY <3>1, <3>2, <3>3, Zenon DEF OnePlace
  <2> QED BY <2>1, <2>2
<1>6. ASSUME NEW t \in Workers, SetFlag(t) PROVE OnePlace'
  <2>1. \A h : Flagged(h)' => Flagged(h) \/ h = working[t]
    BY <1>6 DEF SetFlag, Flagged, StorageTypes
  <2>2. /\ UNCHANGED <<working, pending_intermediates>>
        /\ bucket'[t] = Len(Lengths) + 2 /\ \A u \in Workers \ {t} : bucket'[u] = bucket[u]
        /\ working[t] # None
    BY <1>6 DEF SetFlag, StorageTypes
  <2>3. \A h \in pending_intermediates' : ~Flagged(h)'
    BY <2>1, <2>2 DEF OnePlace
  <2>4. ASSUME NEW u \in Workers, working[u] # None, bucket'[u] <= Len(Lengths) + 1
        PROVE  ~Flagged(working[u])'
    <3>1. u # t
      <4>1. Len(Lengths) \in Nat
        OBVIOUS
      <4> QED BY <2>2, <2>4, <4>1
    <3> QED BY <2>1, <2>2, <2>4, <3>1 DEF OnePlace
  <2> QED BY <2>2, <2>3, <2>4 DEF OnePlace
<1>7. ASSUME NEW t \in Workers, Drain(t) PROVE OnePlace'
  <2>1. \A h : Flagged(h)' <=> Flagged(h)
    BY <1>7 DEF Drain, Drained, Flagged, StorageTypes
  <2> QED BY <1>7, <2>1 DEF Drain, OnePlace
<1>8. ASSUME NEW t \in Workers, TestFlags(t) PROVE OnePlace'
  <2>1. \A h : Flagged(h)' <=> Flagged(h)
    BY <1>8 DEF TestFlags, Drained, Flagged, StorageTypes
  <2> QED BY <1>8, <2>1 DEF TestFlags, OnePlace, StorageTypes
<1>9. ASSUME NEW t \in Workers, EndThread(t) PROVE OnePlace'
  BY <1>2, <1>9 DEF EndThread
<1>10. ASSUME NEW g \in proving, FinishProof(g) PROVE OnePlace'
  BY <1>2, <1>10 DEF FinishProof
<1> QED BY <1>1, <1>3, <1>4, <1>5, <1>6, <1>7, <1>8, <1>9, <1>10 DEF StorageNext, Worker

\* What the next half that a thread takes is.
LEMMA FirstPending ==
  ASSUME StorageTypes, BegunInOrder, NEW t \in Workers, TakePending(t)
  PROVE  /\ Min(pending_intermediates) \in pending_intermediates
         /\ Min(pending_intermediates) \in 0 .. submitted - 1
         /\ pending_intermediates' = pending_intermediates \ {Min(pending_intermediates)}
         /\ BegunHalves' = BegunHalves \cup {Min(pending_intermediates)}
         /\ \A v \in pending_intermediates' : Min(pending_intermediates) < v
         /\ \A h \in BegunHalves : h < Min(pending_intermediates)
<1> DEFINE m == Min(pending_intermediates)
<1>1. pending_intermediates \subseteq Nat /\ pending_intermediates # {}
  BY DEF TakePending, StorageTypes
<1>2. m \in pending_intermediates /\ \A v \in pending_intermediates : m <= v
  BY <1>1, MinIn
<1>3. pending_intermediates' = pending_intermediates \ {m} /\ submitted' = submitted
  BY DEF TakePending
<1> HIDE DEF m
<1>4. m \in 0 .. submitted - 1
  BY <1>2 DEF StorageTypes
<1>5. BegunHalves' = BegunHalves \cup {m}
  BY <1>2, <1>3, <1>4 DEF BegunHalves
<1>6. ASSUME NEW v \in pending_intermediates' PROVE m < v
  BY <1>1, <1>2, <1>3
<1>7. \A h \in BegunHalves : h < m
  BY <1>2 DEF BegunInOrder
<1> QED BY <1>2, <1>3, <1>4, <1>5, <1>6, <1>7 DEF m

LEMMA BegunInOrderNext == StorageTypes /\ BegunInOrder /\ [StorageNext]_storageVars => BegunInOrder'
<1> SUFFICES ASSUME StorageTypes, BegunInOrder, [StorageNext]_storageVars PROVE BegunInOrder'
  OBVIOUS
<1> USE StorageAssumption
<1>1. CASE SubmitCheckpoint
  <2>1. /\ submitted \in Nat /\ submitted' = submitted + 1
        /\ pending_intermediates' = pending_intermediates \cup {submitted}
    BY <1>1 DEF SubmitCheckpoint, StorageTypes
  <2>2. BegunHalves' = BegunHalves
    BY <2>1 DEF BegunHalves
  <2>3. \A h \in BegunHalves : h < submitted
    BY <2>1 DEF BegunHalves
  <2> QED BY <2>1, <2>2, <2>3 DEF BegunInOrder
<1>2. ASSUME NEW t \in Workers, TakePending(t) PROVE BegunInOrder'
  <2>1. pending_intermediates' \subseteq pending_intermediates
    BY <1>2, FirstPending
  <2> QED BY <1>2, <2>1, FirstPending DEF BegunInOrder
<1>3. ASSUME UNCHANGED <<submitted, pending_intermediates>> PROVE BegunInOrder'
  BY <1>3 DEF BegunInOrder, BegunHalves
<1>4. CASE WakeLoop \/ Stop \/ UNCHANGED storageVars
  BY <1>3, <1>4 DEF WakeLoop, Stop, storageVars, workerVars
<1>5. ASSUME NEW t \in Workers, StoreForms(t) \/ SetFlag(t) \/ Drain(t) \/ TestFlags(t) \/ EndThread(t)
      PROVE  BegunInOrder'
  BY <1>3, <1>5 DEF StoreForms, SetFlag, Drain, TestFlags, EndThread, workerVars
<1>6. ASSUME NEW g \in proving, FinishProof(g) PROVE BegunInOrder'
  BY <1>3, <1>6 DEF FinishProof, workerVars
<1> QED BY <1>1, <1>2, <1>4, <1>5, <1>6 DEF StorageNext, Worker

LEMMA SegmentOrder ==
  ASSUME NEW i \in Buckets, NEW h \in Nat, NEW v \in Nat, h <= v
  PROVE  Segment(i, h) \in Nat /\ Segment(i, v) \in Nat /\ Segment(i, h) <= Segment(i, v)
<1>1. \A g \in Nat : Segment(i, g) \in Nat
  BY Shape, Zenon
<1>2. Segment(i, h) <= Segment(i, v)
  BY Shape, DivOrder DEF Segment
<1> QED BY <1>1, <1>2

LEMMA LaggingNext == StorageTypes /\ BegunInOrder /\ Lagging /\ [StorageNext]_storageVars => Lagging'
<1> SUFFICES ASSUME StorageTypes, BegunInOrder, Lagging, [StorageNext]_storageVars PROVE Lagging'
  OBVIOUS
<1> USE StorageAssumption
<1>1. ASSUME UNCHANGED overtook, BegunHalves' = BegunHalves,
             \A u \in Workers : working'[u] # None => working'[u] = working[u] /\ bucket'[u] \in Nat /\ bucket'[u] >= bucket[u]
      PROVE  Lagging'
  <2> SUFFICES ASSUME NEW i \in Buckets, NEW h \in BegunHalves, NEW u \in Workers,
                      working'[u] # None, bucket'[u] <= i, Segment(i, working'[u]) + Window <= Segment(i, h)
               PROVE  <<i, Segment(i, h)>> \in overtook
    BY <1>1 DEF Lagging, Segment
  <2>1. working[u] = working'[u] /\ bucket'[u] \in Nat /\ bucket'[u] >= bucket[u]
    BY <1>1
  <2>2. bucket[u] <= i
    <3>1. i \in Nat /\ bucket[u] \in Nat
      BY DEF StorageTypes, Buckets
    <3> QED BY <2>1, <3>1
  <2> QED BY <2>1, <2>2 DEF Lagging
<1>2. CASE SubmitCheckpoint
  <2>1. /\ submitted \in Nat /\ submitted' = submitted + 1
        /\ pending_intermediates' = pending_intermediates \cup {submitted}
        /\ UNCHANGED <<working, bucket, overtook>>
    BY <1>2 DEF SubmitCheckpoint, StorageTypes
  <2>2. BegunHalves' = BegunHalves
    BY <2>1 DEF BegunHalves
  <2> QED BY <1>1, <2>1, <2>2 DEF StorageTypes
<1>3. ASSUME NEW t \in Workers, TakePending(t) PROVE Lagging'
  <2> DEFINE m == Min(pending_intermediates)
  <2>1. /\ working' = [working EXCEPT ![t] = m] /\ working[t] = None
        /\ bucket' = [bucket EXCEPT ![t] = 1]
        /\ overtook' = overtook \cup {<<i, Segment(i, m)>> : i \in {j \in Buckets : Overtakes(j, m)}}
    BY <1>3 DEF TakePending
  <2>2. /\ m \in 0 .. submitted - 1 /\ BegunHalves' = BegunHalves \cup {m} /\ \A h \in BegunHalves : h < m
    BY <1>3, FirstPending
  <2> HIDE DEF m
  <2>3. ASSUME NEW i \in Buckets, NEW h \in BegunHalves', NEW u \in Workers,
               working'[u] # None, bucket'[u] <= i, Segment(i, working'[u]) + Window <= Segment(i, h)
        PROVE  <<i, Segment(i, h)>> \in overtook'
    <3>1. h \in Nat /\ m \in Nat /\ h <= m
      <4>1. m \in Nat
        BY <2>2 DEF StorageTypes
      <4>2. CASE h \in BegunHalves
        BY <2>2, <4>1, <4>2 DEF BegunHalves, StorageTypes
      <4>3. CASE h = m
        BY <4>1, <4>3
      <4> QED BY <2>2, <4>2, <4>3
    <3>2. CASE u = t
      <4>1. working'[u] = m
        BY <2>1, <3>2 DEF StorageTypes
      <4>2. Segment(i, h) \in Nat /\ Segment(i, m) \in Nat /\ Segment(i, h) <= Segment(i, m)
        BY <3>1, SegmentOrder
      <4> QED BY <2>3, <4>1, <4>2
    <3>3. CASE u # t
      <4>1. working'[u] = working[u] /\ bucket'[u] = bucket[u]
        BY <2>1, <3>3 DEF StorageTypes
      <4>2. CASE h \in BegunHalves
        BY <2>1, <2>3, <4>1, <4>2 DEF Lagging
      <4>3. CASE h = m
        <5>1. Overtakes(i, m)
          BY <2>3, <4>1, <4>3 DEF Overtakes
        <5> QED BY <2>1, <4>3, <5>1
      <4> QED BY <2>2, <4>2, <4>3
    <3> QED BY <3>2, <3>3
  <2> QED BY <2>3 DEF Lagging, Segment
<1>4. ASSUME UNCHANGED <<submitted, pending_intermediates, working, bucket, overtook>> PROVE Lagging'
  BY <1>4 DEF Lagging, BegunHalves, Segment
<1>5. CASE WakeLoop \/ Stop \/ UNCHANGED storageVars
  BY <1>4, <1>5 DEF WakeLoop, Stop, storageVars, workerVars
<1>6. ASSUME NEW t \in Workers, StoreForms(t) PROVE Lagging'
  <2>1. /\ UNCHANGED <<submitted, pending_intermediates, overtook>>
        /\ \/ working' = [working EXCEPT ![t] = None] /\ UNCHANGED bucket
           \/ bucket' = [bucket EXCEPT ![t] = @ + 1] /\ UNCHANGED working
    BY <1>6 DEF StoreForms
  <2>2. \A u \in Workers : working'[u] # None => working'[u] = working[u] /\ bucket'[u] \in Nat /\ bucket'[u] >= bucket[u]
    <3>1. bucket \in [Workers -> Nat] /\ DOMAIN working = Workers
      BY DEF StorageTypes
    <3>2. CASE working' = [working EXCEPT ![t] = None] /\ UNCHANGED bucket
      BY <3>1, <3>2
    <3>3. CASE bucket' = [bucket EXCEPT ![t] = @ + 1] /\ UNCHANGED working
      BY <3>1, <3>3
    <3> QED BY <2>1, <3>2, <3>3
  <2> QED BY <1>1, <2>1, <2>2 DEF BegunHalves
<1>7. ASSUME NEW t \in Workers, SetFlag(t) PROVE Lagging'
  <2>1. /\ UNCHANGED <<submitted, pending_intermediates, overtook, working>>
        /\ bucket' = [bucket EXCEPT ![t] = @ + 1]
    BY <1>7 DEF SetFlag
  <2>2. \A u \in Workers : bucket'[u] \in Nat /\ bucket'[u] >= bucket[u]
    BY <2>1 DEF StorageTypes
  <2> QED BY <1>1, <2>1, <2>2 DEF BegunHalves
<1>8. ASSUME NEW t \in Workers, TestFlags(t) PROVE Lagging'
  <2>1. /\ UNCHANGED <<submitted, pending_intermediates, overtook, bucket>>
        /\ working' = [working EXCEPT ![t] = None]
    BY <1>8 DEF TestFlags
  <2>2. \A u \in Workers : working'[u] # None => working'[u] = working[u] /\ bucket'[u] \in Nat /\ bucket'[u] >= bucket[u]
    BY <2>1 DEF StorageTypes
  <2> QED BY <1>1, <2>1, <2>2 DEF BegunHalves
<1>9. ASSUME NEW t \in Workers, Drain(t) \/ EndThread(t) PROVE Lagging'
  BY <1>4, <1>9 DEF Drain, EndThread, workerVars
<1>10. ASSUME NEW g \in proving, FinishProof(g) PROVE Lagging'
  BY <1>4, <1>10 DEF FinishProof, workerVars
<1> QED BY <1>2, <1>3, <1>5, <1>6, <1>7, <1>8, <1>9, <1>10 DEF StorageNext, Worker

\* No half is overwritten by one that shares its entries: a later one is too far
\* ahead, and of an earlier one it has overtaken the thread.
LEMMA EntryFree ==
  ASSUME StorageTypes, OnePlace, Lagging,
         NEW t \in Workers, working[t] # None,
         NEW i \in Buckets, bucket[t] <= i, NEW h \in BegunHalves, h # working[t],
         NearEnough(i, Segment(i, h)), <<i, Segment(i, h)>> \notin overtook,
         GetPosition(i, h) = GetPosition(i, working[t])
  PROVE  FALSE
<1> DEFINE w == working[t]
           L == Lengths[i]
<1>1. w \in BegunHalves /\ w \in Nat /\ h \in Nat
  BY StorageAssumption DEF StorageTypes, OnePlace, BegunHalves, None
<1>2. L \in Nat \ {0} /\ Window \in Nat \ {0}
  BY Shape, StorageAssumption
<1> HIDE DEF w
<1>3. Segment(i, h) \in Nat /\ Segment(i, w) \in Nat
  BY <1>1, Shape, Zenon
<1>4. Segment(i, w) - Segment(i, h) < Window
  BY <1>1 DEF NearEnough
<1>5. h % (Window * L) = w % (Window * L)
  BY DEF GetPosition, w
<1>6. Segment(i, h) = h \div L /\ Segment(i, w) = w \div L
  BY DEF Segment
<1> HIDE DEF L
<1>7. CASE h < w
  <2>1. Segment(i, h) + Window <= Segment(i, w)
    BY <1>1, <1>2, <1>5, <1>7, <1>6, SamePosition
  <2> QED BY <1>2, <1>3, <1>4, <2>1
<1>8. CASE w < h
  <2>1. Segment(i, w) + Window <= Segment(i, h)
    BY <1>1, <1>2, <1>5, <1>8, <1>6, SamePosition
  <2> QED BY <2>1 DEF Lagging, w
<1> QED BY <1>1, <1>7, <1>8 DEF w

\* What is written was begun.
LEMMA WrittenTaken ==
  ASSUME StorageTypes, OnePlace, NEW i, NEW h \in 0 .. submitted - 1, Written(i, h)
  PROVE  h \in BegunHalves
BY DEF StorageTypes, OnePlace, Written, BegunHalves, None

LEMMA KeptNext ==
  StorageTypes /\ OnePlace /\ BegunInOrder /\ Lagging /\ Kept /\ [StorageNext]_storageVars => Kept'
<1> SUFFICES ASSUME StorageTypes, OnePlace, BegunInOrder, Lagging, Kept, [StorageNext]_storageVars PROVE Kept'
  OBVIOUS
<1> USE StorageAssumption
<1>1. CASE SubmitCheckpoint
  <2>1. /\ submitted \in Nat /\ submitted' = submitted + 1
        /\ UNCHANGED <<window, overtook, working, bucket, intermediates_stored, buffered>>
        /\ pending_intermediates' = pending_intermediates \cup {submitted}
    BY <1>1 DEF SubmitCheckpoint, StorageTypes, flagVars
  <2>0. BegunHalves' = BegunHalves
    BY <2>1 DEF BegunHalves
  <2>2. \A i : ~Written(i, submitted)
    BY DEF Written, Flagged, StorageTypes, None
  <2>3. ASSUME NEW i \in Buckets, NEW h \in 0 .. submitted' - 1, Written(i, h)', NearEnough(i, Segment(i, h))',
               <<i, Segment(i, h)>> \notin overtook'
        PROVE  window'[i][GetPosition(i, h)] = h
    <3>1. Written(i, h)
      BY <2>1, <2>3 DEF Written, Flagged
    <3>2. h \in 0 .. submitted - 1
      BY <2>1, <2>2, <3>1
    <3>3. NearEnough(i, Segment(i, h))
      BY <2>0, <2>3 DEF NearEnough, Segment
    <3> QED BY <2>1, <2>3, <3>1, <3>2, <3>3 DEF Kept
  <2> QED BY <2>3 DEF Kept, GetPosition, Segment
<1>2. ASSUME UNCHANGED <<window, submitted>>, BegunHalves \subseteq BegunHalves', overtook \subseteq overtook',
             \A i \in Buckets, h \in 0 .. submitted - 1 : Written(i, h)' => Written(i, h)
      PROVE  Kept'
  BY <1>2 DEF Kept, NearEnough, Segment, GetPosition
<1>3. CASE WakeLoop \/ Stop \/ UNCHANGED storageVars
  BY <1>2, <1>3 DEF WakeLoop, Stop, storageVars, workerVars, flagVars, Written, Flagged, BegunHalves
<1>4. ASSUME NEW t \in Workers, TakePending(t) PROVE Kept'
  <2>1. BegunHalves \subseteq BegunHalves'
    BY <1>4, FirstPending
  <2>2. /\ UNCHANGED <<window, submitted>> /\ overtook \subseteq overtook'
        /\ \A i \in Buckets, h \in 0 .. submitted - 1 : Written(i, h)' => Written(i, h)
    BY <1>4 DEF TakePending, Written, Flagged, StorageTypes, flagVars, Buckets
  <2> QED BY <1>2, <2>1, <2>2
<1>5. ASSUME NEW t \in Workers, StoreForms(t) PROVE Kept'
  <2>1. CASE storage_stopped
    BY <1>2, <1>5, <2>1 DEF StoreForms, Written, Flagged, StorageTypes, flagVars, None, BegunHalves
  <2>2. CASE ~storage_stopped
    <3> DEFINE b == bucket[t]
               w == working[t]
    <3>1. /\ window' = [window EXCEPT ![b][GetPosition(b, w)] = w]
          /\ bucket' = [bucket EXCEPT ![t] = @ + 1]
          /\ UNCHANGED <<working, submitted, pending_intermediates, overtook, intermediates_stored, buffered>>
          /\ w # None /\ b <= Len(Lengths)
      BY <1>5, <2>2 DEF StoreForms, flagVars
    <3>2. b \in Buckets /\ w \in Nat
      BY <3>1 DEF StorageTypes, Buckets, None
    <3>3. ASSUME NEW i \in Buckets, NEW h \in 0 .. submitted - 1, Written(i, h)', NearEnough(i, Segment(i, h)),
                 <<i, Segment(i, h)>> \notin overtook
          PROVE  window'[i][GetPosition(i, h)] = h
      <4>1. GetPosition(i, h) \in WindowEntries(i) /\ GetPosition(b, w) \in WindowEntries(b)
        BY <3>2, Shape DEF StorageTypes
      <4>2. CASE i = b /\ h = w
        BY <3>1, <4>1, <4>2 DEF StorageTypes
      <4>3. CASE ~(i = b /\ h = w)
        <5>1. Written(i, h)
          <6>1. CASE Flagged(h)'
            BY <3>1, <6>1 DEF Flagged, Written
          <6>2. CASE \E u \in Workers : working'[u] = h /\ bucket'[u] > i
            <7>1. PICK u \in Workers : working'[u] = h /\ bucket'[u] > i
              BY <6>2
            <7>2. CASE u = t
              <8>1. h = w /\ b + 1 > i
                BY <3>1, <7>1, <7>2 DEF StorageTypes
              <8>2. b > i
                BY <4>3, <8>1, <3>2 DEF Buckets
              <8> QED BY <8>1, <8>2 DEF Written
            <7>3. CASE u # t
              BY <3>1, <7>1, <7>3 DEF Written, StorageTypes
            <7> QED BY <7>2, <7>3
          <6> QED BY <3>3, <6>1, <6>2 DEF Written
        <5>2. window[i][GetPosition(i, h)] = h
          BY <3>3, <5>1 DEF Kept
        <5>3. CASE i # b
          BY <3>1, <5>2, <5>3 DEF StorageTypes
        <5>4. CASE i = b
          <6>1. GetPosition(i, h) # GetPosition(b, w)
            <7>1. h \in BegunHalves
              BY <3>3, <5>1, WrittenTaken
            <7>2. bucket[t] <= i /\ h # w
              BY <4>3, <5>4, <3>2 DEF Buckets
            <7> QED BY <3>1, <3>3, <5>4, <7>1, <7>2, EntryFree
          <6> QED BY <3>1, <4>1, <5>2, <5>4, <6>1 DEF StorageTypes
        <5> QED BY <5>3, <5>4
      <4> QED BY <4>2, <4>3
    <3> QED BY <3>1, <3>3 DEF Kept, NearEnough, Segment, GetPosition, BegunHalves
  <2> QED BY <2>1, <2>2
<1>6. ASSUME NEW t \in Workers, SetFlag(t) PROVE Kept'
  <2>1. ASSUME NEW i \in Buckets, NEW h \in 0 .. submitted - 1, Written(i, h)' PROVE Written(i, h)
    <3>1. /\ UNCHANGED <<working, intermediates_stored>>
          /\ buffered' = [buffered EXCEPT ![t] = @ \cup {working[t]}]
          /\ bucket' = [bucket EXCEPT ![t] = @ + 1] /\ bucket[t] = Len(Lengths) + 1
      BY <1>6 DEF SetFlag
    <3>2. bucket[t] > i /\ bucket \in [Workers -> Nat]
      <4>1. Len(Lengths) \in Nat
        OBVIOUS
      <4> QED BY <3>1, <4>1 DEF Buckets, StorageTypes
    <3>3. Flagged(h)' => Flagged(h) \/ h = working[t]
      BY <3>1 DEF Flagged, StorageTypes
    <3>4. ASSUME NEW u \in Workers, working[u] = h, bucket'[u] > i PROVE bucket[u] > i
      BY <3>1, <3>2, <3>4
    <3> QED BY <2>1, <3>1, <3>2, <3>3, <3>4 DEF Written
  <2> QED BY <1>2, <1>6, <2>1 DEF SetFlag, BegunHalves
<1>7. ASSUME NEW t \in Workers, Drain(t) PROVE Kept'
  BY <1>2, <1>7 DEF Drain, Drained, Written, Flagged, StorageTypes, BegunHalves
<1>8. ASSUME NEW t \in Workers, TestFlags(t) PROVE Kept'
  <2>1. \A h : Flagged(h)' <=> Flagged(h)
    BY <1>8 DEF TestFlags, Drained, Flagged, StorageTypes
  <2>2. /\ UNCHANGED <<bucket, window, submitted, pending_intermediates, overtook>>
        /\ working' = [working EXCEPT ![t] = None]
    BY <1>8 DEF TestFlags
  <2>3. ASSUME NEW h \in 0 .. submitted - 1, NEW u \in Workers, working'[u] = h PROVE working[u] = h
    BY <2>2, <2>3 DEF StorageTypes, None
  <2> QED BY <1>2, <2>1, <2>2, <2>3 DEF Written, BegunHalves
<1>9. ASSUME NEW t \in Workers, EndThread(t) PROVE Kept'
  BY <1>2, <1>9 DEF EndThread, workerVars, flagVars, Written, Flagged, BegunHalves
<1>10. ASSUME NEW g \in proving, FinishProof(g) PROVE Kept'
  BY <1>2, <1>10 DEF FinishProof, workerVars, flagVars, Written, Flagged, BegunHalves
<1> QED BY <1>1, <1>3, <1>4, <1>5, <1>6, <1>7, <1>8, <1>9, <1>10 DEF StorageNext, Worker

LEMMA Pair ==
  ASSUME NEW h \in Nat, h % 2 = 0, NEW w \in {h, h + 1}
  PROVE  /\ Segment(1, w) = Segment(1, h)
         /\ \A n \in 0 .. MaxHalves : n \in BothHalves(w) <=> n \in {h, h + 1}
<1>1. Lengths[1] = 2 /\ MaxHalves \in Nat
  BY StorageAssumption
<1>2. w \div 2 = h \div 2
  OBVIOUS
<1>3. ASSUME NEW n \in 0 .. MaxHalves PROVE n \div 2 = h \div 2 <=> n \in {h, h + 1}
  BY <1>1
<1> QED BY <1>1, <1>2, <1>3 DEF Segment, BothHalves, HalvesOf

LEMMA AnnouncedNext ==
  StorageTypes /\ EventLoop /\ Announced /\ [StorageNext]_storageVars => Announced'
<1> SUFFICES ASSUME StorageTypes, EventLoop, Announced, [StorageNext]_storageVars,
                    NEW h \in 0 .. MaxHalves, h % 2 = 0, PairFlagged(h)'
             PROVE  \/ Segment(1, h) \in raced'
                    \/ \E t \in Workers : Testing(t, h)'
                    \/ SegmentFinished(h)' /\ (new_event' \/ intermediates_iter' # h)
  BY DEF Announced, Segment
<1> DEFINE Goal == \/ Segment(1, h) \in raced'
                   \/ \E t \in Workers : Testing(t, h)'
                   \/ SegmentFinished(h)' /\ (new_event' \/ intermediates_iter' # h)
<1>1. PairFlagged(h) => \/ Segment(1, h) \in raced
                        \/ \E t \in Workers : Testing(t, h)
                        \/ SegmentFinished(h) /\ (new_event \/ intermediates_iter # h)
  BY DEF Announced
<1>2. h \in Nat /\ Len(Lengths) \in Nat
  BY StorageAssumption
<1>3. ASSUME UNCHANGED <<intermediates_iter, new_event, raced>>,
             PairFlagged(h)' => PairFlagged(h), intermediates_stored \subseteq intermediates_stored',
             \A t \in Workers : Testing(t, h) => Testing(t, h)'
      PROVE  Goal
  BY <1>1, <1>3 DEF SegmentFinished
<1>4. ASSUME UNCHANGED <<intermediates_iter, new_event, flagVars, working, bucket>> PROVE Goal
  BY <1>3, <1>4 DEF flagVars, PairFlagged, Flagged, Testing
<1>5. CASE SubmitCheckpoint \/ Stop \/ UNCHANGED storageVars
  BY <1>4, <1>5 DEF SubmitCheckpoint, Stop, storageVars, workerVars, loopVars
<1>6. CASE WakeLoop
  <2>1. intermediates_iter' = FinishedUpTo /\ UNCHANGED workerVars
    BY <1>6 DEF WakeLoop
  <2>2. ~SegmentFinished(FinishedUpTo)
    BY FinishedSegments
  <2>3. PairFlagged(h)' => PairFlagged(h)
    BY <2>1 DEF workerVars, flagVars, PairFlagged, Flagged
  <2> QED BY <1>1, <2>1, <2>2, <2>3 DEF workerVars, flagVars, Testing, SegmentFinished
<1>7. ASSUME NEW t \in Workers, TakePending(t) \/ StoreForms(t) PROVE Goal
  <2>1. ~Testing(t, h)
    BY <1>2, <1>7 DEF TakePending, StoreForms, Testing, None
  <2>2. \A u \in Workers \ {t} : working'[u] = working[u] /\ bucket'[u] = bucket[u]
    BY <1>7 DEF TakePending, StoreForms, StorageTypes
  <2>3. UNCHANGED <<flagVars, loopVars>>
    BY <1>7 DEF TakePending, StoreForms
  <2> QED BY <1>3, <2>1, <2>2, <2>3 DEF Testing, flagVars, loopVars, PairFlagged, Flagged
<1>8. ASSUME NEW t \in Workers, SetFlag(t) PROVE Goal
  <2>1. \A n : Flagged(n)' => Flagged(n) \/ n = working[t]
    BY <1>8 DEF SetFlag, Flagged, StorageTypes
  <2>2. /\ UNCHANGED <<loopVars, raced, working, intermediates_stored>>
        /\ bucket[t] = Len(Lengths) + 1 /\ bucket'[t] = Len(Lengths) + 2
        /\ \A u \in Workers \ {t} : bucket'[u] = bucket[u]
    BY <1>2, <1>8 DEF SetFlag, StorageTypes
  <2>3. CASE PairFlagged(h)
    BY <1>2, <1>3, <2>2, <2>3 DEF Testing, loopVars
  <2>4. CASE ~PairFlagged(h)
    <3>1. working[t] \in {h, h + 1}
      BY <2>1, <2>4 DEF PairFlagged
    <3> QED BY <2>2, <3>1 DEF Testing
  <2> QED BY <2>3, <2>4
<1>9. ASSUME NEW t \in Workers, Drain(t) PROVE Goal
  <2>1. \A n : Flagged(n)' <=> Flagged(n)
    BY <1>9 DEF Drain, Drained, Flagged, StorageTypes
  <2> QED BY <1>3, <1>9, <2>1 DEF Drain, Drained, Testing, PairFlagged, loopVars
<1>10. ASSUME NEW t \in Workers, TestFlags(t) PROVE Goal
  <2>1. \A n : Flagged(n)' <=> Flagged(n)
    BY <1>10 DEF TestFlags, Drained, Flagged, StorageTypes
  <2>2. /\ UNCHANGED <<bucket, intermediates_iter>> /\ working' = [working EXCEPT ![t] = None]
        /\ intermediates_stored \subseteq intermediates_stored'
        /\ raced \subseteq raced' /\ (new_event => new_event')
    BY <1>10 DEF TestFlags, Drained
  <2>3. PairFlagged(h)
    BY <2>1 DEF PairFlagged
  <2>4. CASE Testing(t, h)
    <3> DEFINE w == working[t]
    <3>1. w \in {h, h + 1} /\ w \in Nat
      BY <1>2, <2>4 DEF Testing
    <3>2. Segment(1, w) = Segment(1, h) /\ \A n \in 0 .. MaxHalves : n \in BothHalves(w) <=> n \in {h, h + 1}
      BY <1>2, <3>1, Pair
    <3>3. \A n \in {h, h + 1} : Flagged(n) /\ n \in 0 .. MaxHalves
      BY <2>3, <1>2, StorageAssumption DEF PairFlagged, Flagged, StorageTypes
    <3>4. CASE HasEvent(t)
      <4>1. new_event' /\ intermediates_stored' = intermediates_stored \cup buffered[t]
        BY <1>10, <3>4 DEF TestFlags, Drained
      <4>2. {h, h + 1} \subseteq intermediates_stored'
        BY <3>2, <3>3, <3>4, <4>1 DEF HasEvent
      <4> QED BY <4>1, <4>2 DEF SegmentFinished
    <3>5. CASE ~HasEvent(t)
      <4>1. PICK n \in BothHalves(w) : n \notin intermediates_stored /\ n \notin buffered[t]
        BY <3>5 DEF HasEvent
      <4>2. n \in {h, h + 1}
        BY <3>2, <4>1 DEF BothHalves, HalvesOf
      <4>3. PICK u \in Workers : n \in buffered[u]
        BY <3>3, <4>1, <4>2 DEF Flagged
      <4>4. Segment(1, w) \in raced'
        <5>1. u \in Workers \ {t} /\ buffered[u] \cap BothHalves(w) # {}
          BY <4>1, <4>3
        <5> QED BY <1>10, <5>1 DEF TestFlags
      <4> QED BY <3>2, <4>4
    <3> QED BY <3>4, <3>5
  <2>5. CASE ~Testing(t, h)
    <3>1. \A u \in Workers : Testing(u, h) => Testing(u, h)'
      BY <2>2, <2>5 DEF Testing, StorageTypes
    <3> QED BY <1>1, <2>2, <2>3, <3>1 DEF SegmentFinished
  <2> QED BY <2>4, <2>5
<1>11. ASSUME NEW t \in Workers, EndThread(t) PROVE Goal
  BY <1>4, <1>11 DEF EndThread, workerVars, loopVars
<1>12. ASSUME NEW g \in proving, FinishProof(g) PROVE Goal
  BY <1>4, <1>12 DEF FinishProof, workerVars
<1> HIDE DEF Goal
<1> QED BY <1>5, <1>6, <1>7, <1>8, <1>9, <1>10, <1>11, <1>12 DEF StorageNext, Worker, Goal

LEMMA StorageInvInit == StorageInit => StorageInv
<1> SUFFICES ASSUME StorageInit PROVE StorageInv
  OBVIOUS
<1>1. Len(Lengths) \in Nat /\ MaxHalves \in Nat
  BY StorageAssumption
<1>2. StorageTypes
  <2>1. 1 \in 1 .. Len(Lengths) + 2
    BY <1>1
  <2>2. /\ DOMAIN window = Buckets
        /\ \A i \in Buckets : DOMAIN window[i] = WindowEntries(i)
    BY DEF StorageInit
  <2>3. /\ working \in [Workers -> 0 .. submitted - 1 \cup {None}]
        /\ bucket \in [Workers -> 1 .. Len(Lengths) + 2]
        /\ buffered \in [Workers -> SUBSET (0 .. submitted - 1)]
    BY <2>1 DEF StorageInit
  <2>4. /\ submitted \in 0 .. MaxHalves
        /\ pending_intermediates \subseteq 0 .. submitted - 1
        /\ intermediates_stored \subseteq 0 .. submitted - 1
    BY <1>1 DEF StorageInit
  <2>5. new_event \in BOOLEAN
    BY Zenon DEF StorageInit
  <2> QED BY <2>2, <2>3, <2>4, <2>5 DEF StorageTypes
<1>3. EventLoop /\ OnePlace /\ BegunInOrder /\ Lagging /\ Kept
  BY <1>1 DEF StorageInit, EventLoop, OnePlace, Flagged, BegunInOrder, Lagging, BegunHalves, Kept
<1>4. Announced
  BY DEF StorageInit, Announced, PairFlagged, Flagged
<1> QED BY <1>2, <1>3, <1>4 DEF StorageInv

LEMMA StorageInvHolds == StorageSpec => []StorageInv
<1>1. StorageInv /\ [StorageNext]_storageVars => StorageInv'
  BY StorageTypesNext, EventLoopNext, OnePlaceNext, BegunInOrderNext, LaggingNext, KeptNext, AnnouncedNext DEF StorageInv
<1> QED BY StorageInvInit, <1>1, PTL DEF StorageSpec

\* FastStorage: a segment that waits for its prover or is being proved has all
\* its forms in the window until a half a window later is begun, unless a storage
\* thread lagged by a window when one of its own halves was.
THEOREM WindowKept == StorageSpec => []WindowHoldsSegments
<1>1. StorageInv => WindowHoldsSegments
  <2> SUFFICES ASSUME StorageInv, NEW g \in proving, NEW h \in HalvesOf(g[1], g[2]),
                      ~LeftBehind(g), g \notin overtook
               PROVE  window[g[1]][GetPosition(g[1], h)] = h
    BY DEF WindowHoldsSegments
  <2>1. g[1] \in Buckets /\ g[2] \in Nat /\ h \in intermediates_stored
    BY DEF StorageInv, EventLoop
  <2>2. h \in 0 .. submitted - 1 /\ Written(g[1], h)
    BY <2>1 DEF StorageInv, StorageTypes, Written, Flagged
  <2>3. Segment(g[1], h) = g[2]
    BY DEF HalvesOf
  <2>4. NearEnough(g[1], Segment(g[1], h))
    <3>1. ASSUME NEW v \in BegunHalves PROVE Segment(g[1], v) - g[2] < Window
      <4>1. v \in Nat
        BY DEF BegunHalves, StorageInv, StorageTypes
      <4>2. Segment(g[1], v) \in Nat
        BY <2>1, <4>1, Shape, Zenon
      <4>3. ~(Segment(g[1], v) - g[2] >= Window)
        BY <3>1 DEF LeftBehind
      <4> QED BY <2>1, <4>2, <4>3, StorageAssumption
    <3> QED BY <2>3, <3>1 DEF NearEnough
  <2>5. <<g[1], Segment(g[1], h)>> = g
    BY <2>3, Zenon DEF StorageInv, EventLoop
  <2> QED BY <2>1, <2>2, <2>4, <2>5 DEF StorageInv, Kept
<1> QED BY StorageInvHolds, <1>1, PTL

\* AddIntermediates: a segment whose flags are both set is announced to the
\* event loop, unless two threads tested the flags at once.
THEOREM SegmentsAreAnnounced == StorageSpec => []SegmentsAnnounced
<1>1. StorageInv => SegmentsAnnounced
  <2> SUFFICES ASSUME StorageInv, ~new_event, \A t \in Workers : working[t] = None /\ buffered[t] = {},
                      SegmentFinished(intermediates_iter)
               PROVE  Segment(1, intermediates_iter) \in raced
    BY DEF SegmentsAnnounced
  <2> DEFINE h == intermediates_iter
  <2>1. h \in 0 .. MaxHalves /\ h % 2 = 0 /\ h \in Nat
    BY StorageAssumption DEF StorageInv, EventLoop
  <2>2. PairFlagged(h)
    BY DEF SegmentFinished, PairFlagged, Flagged
  <2>3. \A t \in Workers : ~Testing(t, h)
    BY <2>1 DEF Testing, None
  <2> QED BY <2>1, <2>2, <2>3 DEF StorageInv, Announced
<1> QED BY StorageInvHolds, <1>1, PTL

=============================================================================
