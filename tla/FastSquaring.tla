---------------------------- MODULE FastSquaring ----------------------------
(***************************************************************************)
(* repeated_square_fast (vdf_fast.h): one batch of squarings by two        *)
(* threads, master and slave, that share square_state without a lock.      *)
(* Each goes through five phases per squaring and only ever looks at the   *)
(* other's counter: it fences until the other one has come far enough, and *)
(* the gcd publishes its result entry by entry through the same counter    *)
(* (threading.h).  Either gives up when a value is out of range, when the  *)
(* gcd fails, when it has spun for too long or when the other one gave up. *)
(*                                                                         *)
(* A number is modelled by the squaring it belongs to: a and b of the form *)
(* after i squarings have version i, what is computed of them has version  *)
(* i as well, and what is computed from anything else is Wrong.            *)
(***************************************************************************)
EXTENDS Integers, Sequences

CONSTANTS
  Iterations,   \* the squarings of the batch
  GcdMax,       \* gcd_max_iterations
  MaxFailures   \* bound: how often something fails by itself

ASSUME FastAssumption ==
  /\ Iterations \in Nat \ {0} /\ GcdMax \in Nat \ {0} /\ MaxFailures \in Nat

Master == "master"
Slave == "slave"
Both == {Master, Slave}
Other(t) == CHOOSE u \in Both : u # t

VARIABLES
  threads_enabled,       \* enable_threads
  counter,               \* counter[t]: counter_value of t's thread_counter
  error_flag,            \* error_flag[t] of the same
  last_fence,            \* last_fence[t] of t's thread_state
  iter,                  \* iter[t]: the squaring t is at
  at,                    \* at[t]: its phase and its place in it, 0 before
                         \* the advance with which a phase begins
  entry,                 \* entry[t]: the entry a gcd, or its reader, is at
  val,                   \* val[f]: the version of each field of square_state
  entries,               \* entries[g][j]: version and exit_flag of uv_entries
  ab_index,              \* phase_start.ab_index
  num_valid_iterations,  \* phase_start.num_valid_iterations
  corruption_flag,       \* phase_start.corruption_flag
  failures               \* how often something failed by itself

syncVars == <<counter, error_flag, last_fence>>
placeVars == <<iter, at, entry>>
dataVars == <<val, entries, ab_index, num_valid_iterations, corruption_flag>>
fastVars == <<threads_enabled, syncVars, placeVars, dataVars, failures>>

Wrong == -1
Ended == <<5, 0>>   \* at[t] of a thread that has left its loop

-----------------------------------------------------------------------------
(* What the phases do, in order, as far as the threads share it.           *)

NumCounter == GcdMax + 1
Start == [p \in 0 .. 5 |->
  CASE p = 0 -> 0
    [] p = 1 -> NumCounter + 1
    [] p >= 2 -> 2 * (NumCounter + 1) + p - 2]

FenceOn(p) == [op |-> "fence", phase |-> p]
\* One or more statements that read the fields r and write the fields w.
\* fails says how they may end the phase.
Does(r, w) == [op |-> "do", reads |-> r, writes |-> w, fails |-> "never"]
Tests(r, w, how) == [op |-> "do", reads |-> r, writes |-> w, fails |-> how]
\* gcd_unsigned from the fields r; entry by entry, then the final values w.
RunsGcd(p, g, r, w) == [op |-> "gcd", phase |-> p, gcd |-> g, reads |-> r, writes |-> w]
\* A loop over get_entry that updates w with each entry.
TakesEntries(p, g, w) == [op |-> "take", phase |-> p, gcd |-> g, reads |-> w, writes |-> w]

Phase0Master == <<
  FenceOn(0),
  Tests({"a", "b"}, {}, "raise"),                  \* ab_valid, a_high_enough
  Does({"a", "b", "high"}, {"ab_start"}),
  RunsGcd(0, "gcd_1_0", {"ab_start"}, {"ab_end"}) >>

Phase0Slave == <<
  FenceOn(0),
  Tests({"a", "b"}, {"c"}, "corrupt"),             \* c_remainder, signs
  Does({"b", "c", "high"}, {"U"}),
  TakesEntries(0, "gcd_1_0", {"U"}),
  Does({"U", "a"}, {"k"}) >>

Phase1Master == <<
  FenceOn(1),
  Does({}, {"v"}),
  TakesEntries(1, "gcd_s_t", {"v"}) >>

Phase1Slave == <<
  FenceOn(0),
  Does({"a", "k"}, {"ak_start"}),
  RunsGcd(1, "gcd_s_t", {"ak_start"}, {"s_t"}) >>

Phase2Master == <<
  FenceOn(1),
  Does({"c", "v"}, {"c_v1"}),
  FenceOn(2),
  Does({"a", "b", "v", "s_t", "c_v1"}, {"h", "v1_h"}) >>

\* Mutant of Phase2Slave: without the second fence.
Phase2SlaveEarly == <<
  FenceOn(1),
  Does({"s_t"}, {"t_t_S"}),
  Does({"v", "t_t_S"}, {"t_t_S", "v0_2"}) >>

Phase2Slave == <<
  FenceOn(1),
  Does({"s_t"}, {"t_t_S"}),
  FenceOn(2),
  Does({"v", "t_t_S"}, {"t_t_S", "v0_2"}) >>

Phase3Master == <<
  FenceOn(3),
  Does({"t_t_S", "v0_2", "v1_h"}, {"A", "A_2"}) >>

Phase3Slave == <<
  FenceOn(2),
  Does({"a", "b", "s_t", "v"}, {"e"}) >>

Phase4Master == <<
  FenceOn(3),
  Tests({"ab_end"}, {}, "corrupt"),
  Does({"v0_2", "h"}, {"v0_2_h"}),
  FenceOn(4),
  Does({"e", "v0_2_h", "A_2"}, {"B"}),
  Does({"A", "B"}, {"A", "high"}),
  [op |-> "flip"],
  [op |-> "listen"] >>

Phase4Slave == <<>>

Phase(t, p) ==
  IF t = Master
  THEN <<Phase0Master, Phase1Master, Phase2Master, Phase3Master, Phase4Master>>[p + 1]
  ELSE <<Phase0Slave, Phase1Slave, Phase2Slave, Phase3Slave, Phase4Slave>>[p + 1]

-----------------------------------------------------------------------------
(* Fields and their versions.                                              *)

\* a and b are in the slot ab_index of as and bs, A and B in the other one.
Slot(f) ==
  CASE f = "a" -> <<"as", ab_index>> [] f = "A" -> <<"as", 1 - ab_index>>
    [] f = "b" -> <<"bs", ab_index>> [] f = "B" -> <<"bs", 1 - ab_index>>
    [] OTHER -> <<f, 0>>
Computed == {"ab_start", "ab_end", "c", "U", "k", "ak_start", "s_t", "v", "c_v1", "h", "v1_h",
             "t_t_S", "v0_2", "A_2", "e", "v0_2_h", "high"}
Fields == {"as", "bs"} \X {0, 1} \cup Computed \X {0}

\* The version a thread at squaring i must find in a field, before phase 3 has
\* begun to write the next form and after that.
Version(f, i) == IF f \in {"A", "B"} THEN i + 1 ELSE i
\* high belongs to the form: phase 4 writes the one of the next squaring.
VersionWritten(f, i) == IF f = "high" THEN i + 1 ELSE Version(f, i)

Right(t, reads) == \A f \in reads : val[Slot(f)] = Version(f, iter[t])
Write(t, reads, writes) ==
  val' = [s \in Fields |->
    IF \E f \in writes : Slot(f) = s
    THEN IF Right(t, reads) THEN VersionWritten(CHOOSE f \in writes : Slot(f) = s, iter[t]) ELSE Wrong
    ELSE val[s]]

-----------------------------------------------------------------------------
(* The state of a batch and thread_state's operations.                     *)

\* repeated_square_fast resets both counters and init takes the form.
FastInit ==
  /\ threads_enabled \in BOOLEAN
  /\ counter = [t \in Both |-> 0] /\ error_flag = [t \in Both |-> FALSE]
  /\ last_fence = [t \in Both |-> 0]
  /\ iter = [t \in Both |-> 0] /\ at = [t \in Both |-> <<0, 0>>] /\ entry = [t \in Both |-> 0]
  /\ val = [s \in Fields |-> IF s \in {<<"as", 0>>, <<"bs", 0>>, <<"high", 0>>} THEN 0 ELSE Wrong]
  /\ entries = [g \in {"gcd_1_0", "gcd_s_t"} |-> [j \in 0 .. GcdMax |-> <<Wrong, TRUE>>]]
  /\ ab_index = 0 /\ num_valid_iterations = 0 /\ corruption_flag = FALSE /\ failures = 0

Working(t) == at[t] # Ended
Now(t) == Phase(t, at[t][1])[at[t][2]]
InPhase(t) == Working(t) /\ at[t][2] > 0
AtOp(t, o) == InPhase(t) /\ Now(t).op = o

\* Without threads one thread takes both parts: each phase begins with both
\* advances, then one part goes first, the one that runs the gcd.
GoesFirst(p) == IF p = 1 THEN Slave ELSE Master
Place(t) == 5 * iter[t] + at[t][1]
MayRun(t) ==
  LET u == Other(t)
  IN  \/ threads_enabled
      \/ Place(t) < Place(u)
      \/ /\ Place(t) = Place(u)
         /\ \/ at[t][2] = 0 /\ (t = Master \/ at[u][2] > 0)
            \/ at[t][2] > 0 /\ at[u][2] > 0 /\ t = GoesFirst(at[t][1])

\* The place after at[t], for a phase with the given operations left.
Onward(t) ==
  LET p == at[t][1]
      last == at[t][2] = Len(Phase(t, p))
  IN  /\ at' = [at EXCEPT ![t] = IF ~last THEN <<p, @[2] + 1>>
                                 ELSE IF p < 4 THEN <<p + 1, 0>>
                                 ELSE IF iter[t] + 1 < Iterations THEN <<0, 0>> ELSE Ended]
      /\ iter' = IF last /\ p = 4 THEN [iter EXCEPT ![t] = @ + 1] ELSE iter
      /\ entry' = [entry EXCEPT ![t] = 0]

\* raise_error sets both flags; the thread leaves its loop.
GiveUp(t) ==
  /\ error_flag' = [u \in Both |-> TRUE]
  /\ at' = IF threads_enabled THEN [at EXCEPT ![t] = Ended] ELSE [u \in Both |-> Ended]
  /\ UNCHANGED <<iter, entry>>

MayFail == failures < MaxFailures
FailsItself(t) == MayFail /\ failures' = failures + 1 /\ GiveUp(t)

Base(t) == iter[t] * Start[5]

\* advance_absolute at the beginning of a phase: the counter is set even when
\* the other thread gave up.  An empty phase is over at once.
Advance(t) ==
  LET to == Base(t) + Start[at[t][1]]
      empty == Len(Phase(t, at[t][1])) = 0
  IN  /\ Working(t) /\ at[t][2] = 0 /\ MayRun(t)
      /\ counter' = [counter EXCEPT ![t] = to]
      /\ IF counter[t] # to /\ error_flag[t] THEN GiveUp(t)
         ELSE /\ UNCHANGED error_flag
              /\ IF empty THEN Onward(t)
                 ELSE at' = [at EXCEPT ![t] = <<@[1], 1>>] /\ UNCHANGED <<iter, entry>>
      /\ UNCHANGED <<threads_enabled, last_fence, dataVars, failures>>

\* fence_absolute: what follows happens in the steps of `then`.
Fenced(t, to) == last_fence[t] >= to \/ (counter[Other(t)] >= to /\ ~error_flag[t])
Remember(t, to) ==
  last_fence' = IF threads_enabled /\ last_fence[t] < to THEN [last_fence EXCEPT ![t] = to] ELSE last_fence
\* The fence returns false: a flag is seen, or it has spun for too long.
FenceFails(t, to) ==
  /\ last_fence[t] < to
  /\ \/ /\ error_flag[t] \/ (error_flag[Other(t)] /\ counter[Other(t)] < to)
        /\ GiveUp(t) /\ UNCHANGED failures
     \/ counter[Other(t)] < to /\ FailsItself(t)
  /\ UNCHANGED <<threads_enabled, counter, last_fence, dataVars>>

-----------------------------------------------------------------------------
(* The operations of the phases.                                           *)

Fence(t) ==
  /\ AtOp(t, "fence") /\ MayRun(t)
  /\ LET to == Base(t) + Start[Now(t).phase]
     IN  \/ /\ Fenced(t, to) /\ Remember(t, to) /\ Onward(t)
            /\ UNCHANGED <<threads_enabled, counter, error_flag, dataVars, failures>>
         \/ FenceFails(t, to)

Do(t) ==
  /\ AtOp(t, "do") /\ MayRun(t)
  /\ Write(t, Now(t).reads, Now(t).writes)
  /\ Onward(t)
  /\ UNCHANGED <<threads_enabled, syncVars, entries, ab_index, num_valid_iterations, corruption_flag, failures>>

\* A test finds a value out of range (the form needs reducing, large gcd
\* quotient) or inconsistent (the discriminant was invalid).
TestFails(t) ==
  /\ AtOp(t, "do") /\ Now(t).fails # "never" /\ MayRun(t)
  /\ FailsItself(t)
  /\ corruption_flag' = (corruption_flag \/ Now(t).fails = "corrupt")
  /\ UNCHANGED <<threads_enabled, counter, last_fence, val, entries, ab_index, num_valid_iterations>>

\* The end of phase 4: the slots change their roles.
Flip(t) ==
  /\ AtOp(t, "flip") /\ MayRun(t)
  /\ ab_index' = 1 - ab_index
  /\ num_valid_iterations' = num_valid_iterations + 1
  /\ Onward(t)
  /\ UNCHANGED <<threads_enabled, syncVars, val, entries, corruption_flag, failures>>

\* nuduplListener->OnIteration is given the form after this squaring.
Listen(t) ==
  /\ AtOp(t, "listen") /\ MayRun(t)
  /\ Onward(t)
  /\ UNCHANGED <<threads_enabled, syncVars, dataVars, failures>>

\* gcd_unsigned does not begin when an error was raised; it writes an entry and
\* then the counter: Base + phase + j for entry j.
GcdEntry(t) ==
  /\ AtOp(t, "gcd") /\ MayRun(t)
  /\ entry[t] <= GcdMax
  /\ entry[t] = 0 => ~error_flag[t]
  /\ \E exit \in BOOLEAN :
       /\ entry[t] = GcdMax => exit
       /\ entries' = [entries EXCEPT ![Now(t).gcd][entry[t]] =
            <<IF Right(t, Now(t).reads) THEN iter[t] ELSE Wrong, exit>>]
       /\ entry' = [entry EXCEPT ![t] = IF exit THEN GcdMax + 1 ELSE @ + 1]
  /\ counter' = [counter EXCEPT ![t] = Base(t) + Start[Now(t).phase] + entry[t]]
  /\ UNCHANGED <<threads_enabled, error_flag, last_fence, iter, at, val, ab_index, num_valid_iterations,
                 corruption_flag, failures>>

\* The final values, and advance(counter_start_delta + num_counter).
GcdEnd(t) ==
  /\ AtOp(t, "gcd") /\ MayRun(t)
  /\ entry[t] = GcdMax + 1
  /\ Write(t, Now(t).reads, Now(t).writes)
  /\ counter' = [counter EXCEPT ![t] = Base(t) + Start[Now(t).phase] + NumCounter]
  /\ IF error_flag[t] THEN GiveUp(t) ELSE Onward(t) /\ UNCHANGED error_flag
  /\ UNCHANGED <<threads_enabled, last_fence, entries, ab_index, num_valid_iterations, corruption_flag, failures>>

\* An error was raised before, or the gcd returns an error code.
GcdFails(t) ==
  /\ AtOp(t, "gcd") /\ MayRun(t)
  /\ \/ entry[t] = 0 /\ error_flag[t] /\ GiveUp(t) /\ UNCHANGED failures
     \/ FailsItself(t)
  /\ UNCHANGED <<threads_enabled, counter, last_fence, dataVars>>

\* get_entry fences on one more than the counter entry j was published with;
\* the entry is applied, and is the last one if its exit flag is set.
TakeEntry(t) ==
  /\ AtOp(t, "take") /\ MayRun(t)
  /\ LET to == Base(t) + Start[Now(t).phase] + entry[t] + 1
         e == entries[Now(t).gcd][entry[t]]
     IN  \/ /\ Fenced(t, to) /\ Remember(t, to)
            /\ val' = [s \in Fields |-> IF (\E f \in Now(t).writes : Slot(f) = s) /\ e[1] # iter[t]
                                        THEN Wrong ELSE val[s]]
            /\ IF e[2] THEN Onward(t) /\ UNCHANGED error_flag
               ELSE IF entry[t] = GcdMax THEN GiveUp(t)
               ELSE entry' = [entry EXCEPT ![t] = @ + 1] /\ UNCHANGED <<iter, at, error_flag>>
            /\ UNCHANGED <<threads_enabled, counter, entries, ab_index, num_valid_iterations,
                           corruption_flag, failures>>
         \/ FenceFails(t, to)

FastStep(t) == \/ Advance(t) \/ Fence(t) \/ Do(t) \/ TestFails(t) \/ Flip(t)
               \/ Listen(t) \/ GcdEntry(t) \/ GcdEnd(t) \/ GcdFails(t) \/ TakeEntry(t)

Joined == \A t \in Both : ~Working(t)

\* assign: the form and how many squarings it is after, unless corruption was
\* found or 4 a does not divide b^2 - D, as where a and b are of two forms.
NoIterations == -2   \* ~uint64(0)
Assign ==
  LET a == val[Slot("a")]
  IN  IF corruption_flag \/ a = Wrong \/ val[Slot("b")] # a
      THEN [ok |-> FALSE, num_iterations |-> NoIterations]
      ELSE [ok |-> TRUE, num_iterations |-> num_valid_iterations, form |-> a]

FastNext == (\E t \in Both : FastStep(t)) \/ (Joined /\ UNCHANGED fastVars)

-----------------------------------------------------------------------------
(* Properties.                                                             *)

\* The fields a thread may touch in its next step, each with "ab_index" when
\* it is found through it.
Found(fs) == {Slot(f) : f \in fs} \cup (IF fs \cap {"a", "b", "A", "B"} = {} THEN {} ELSE {<<"ab_index", 0>>})
Reads(t) ==
  CASE AtOp(t, "do") -> Found(Now(t).reads)
    [] AtOp(t, "gcd") -> Found(Now(t).reads)
    [] AtOp(t, "take") /\ Fenced(t, Base(t) + Start[Now(t).phase] + entry[t] + 1) ->
         {<<Now(t).gcd, entry[t]>>} \cup Found(Now(t).reads)
    [] AtOp(t, "listen") -> Found({"a", "b"})
    [] OTHER -> {}
Writes(t) ==
  CASE AtOp(t, "do") -> {Slot(f) : f \in Now(t).writes}
    [] AtOp(t, "gcd") -> Found(Now(t).writes) \cup {<<Now(t).gcd, entry[t]>>}
    [] AtOp(t, "flip") -> {<<"ab_index", 0>>}
    [] OTHER -> {}

\* The counters are all the synchronisation square_state needs: whatever the
\* pace of the two threads and whoever gives up when, neither ever touches a
\* field while the other writes it.
NoConflict ==
  threads_enabled => \A t \in Both : Writes(t) \cap (Reads(Other(t)) \cup Writes(Other(t))) = {}

\* "num_iterations can be less than the requested number if there was an
\* error": wherever a thread gives up, the form that assign takes is exactly
\* that of the squarings counted, unless corruption was found; without an error
\* all were done; and the listener is given the form it is told.
FormMatchesCount ==
  /\ Joined =>
       /\ Assign.ok <=> ~corruption_flag
       /\ Assign.ok => Assign.form = Assign.num_iterations
       /\ failures = 0 => Assign.num_iterations = Iterations
  /\ \A t \in Both : AtOp(t, "listen") => val[Slot("a")] = iter[t] + 1 /\ val[Slot("b")] = iter[t] + 1

\* The two threads of square_state_type and assign: the two parts above.
ThreadsInStep == NoConflict /\ FormMatchesCount

FastSpec == FastInit /\ [][FastNext]_fastVars

=============================================================================
