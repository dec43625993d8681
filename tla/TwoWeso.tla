------------------------------- MODULE TwoWeso ------------------------------
(***************************************************************************)
(* The session "T" of vdf_client.cpp: 2-Wesolowski proofs for any number   *)
(* of iterations.  The VDF thread stores every 10th form, and from         *)
(* kSwitchIters on every 100th one (TwoWesolowskiCallback).  A thread per  *)
(* requested iteration (ProveTwoWeso) splits it into three segments: the   *)
(* first two are proved by provers' threads of their own, the last one by  *)
(* the request's thread, and each reads the forms it needs while the VDF   *)
(* thread goes on and may be switching.                                    *)
(***************************************************************************)
EXTENDS Squaring, Sequences, FiniteSets, FiniteSetsExt, Functions

CONSTANTS
  Asked,        \* the iterations the client may ask for
  MaxProcesses, \* kMaxProcessesAllowed
  SmallStep,    \* the 10 iterations between two forms, which is also k
  Ratio,        \* how many times longer the step is after the switch, also l
  SwitchIters,  \* kSwitchIters
  MaxIters,     \* kMaxItersAllowed
  Margin,       \* the 500000 iterations before it at which the VDF stops
  LongSegment,  \* the 10^7 iterations from which on a prover takes l = 10
  Word          \* the 2^64 of uint64_t

ASSUME TwoWesoAssumption ==
  /\ Asked \subseteq Nat \ {0} /\ IsFiniteSet(Asked) /\ MaxProcesses \in Nat \ {0}
  /\ SmallStep \in Nat \ {0} /\ Ratio \in Nat \ {0, 1}
  /\ SwitchIters \in Nat /\ Margin \in Nat /\ MaxIters \in Nat /\ LongSegment \in Nat
  /\ Word \in Nat \ {0}

VARIABLES
  kl,            \* weso->kl
  switch_iters,  \* weso->switch_iters, -1 before the switch
  switch_index,  \* weso->switch_index, not initialised before the switch
  two_forms,     \* weso->forms: the iteration whose form each entry holds
  seen,          \* seen_iterations
  threads,       \* the requests in the order of their threads
  stop_vector,   \* the requests whose stop flag is set
  req,           \* program counter of each request's thread
  split,         \* split[n][d]: the iteration whose form was taken for the end
                 \* of segment d of request n
  prover_of,     \* prover_of[n][d]: the thread that proves segment d
  sent           \* the requests whose proof was sent

listenerVars == <<kl, switch_iters, switch_index, two_forms>>
acceptVars == <<seen, threads, stop_vector>>
requestVars == <<req, split, prover_of, sent>>
twoVars == <<listenerVars, acceptVars, requestVars>>

LargeStep == SmallStep * Ratio
Limit == MaxIters - Margin
Space == (SwitchIters \div SmallStep) + ((MaxIters - SwitchIters) \div LargeStep)
Unset == -1
Slots == 0 .. MaxCounted

TwoInit ==
  /\ kl = SmallStep /\ switch_iters = -1 /\ switch_index = Unset
  /\ two_forms = [e \in Slots |-> IF e = 0 THEN 0 ELSE Unset]
  /\ seen = {} /\ threads = <<>> /\ stop_vector = {}
  /\ req = [n \in Asked |-> "none"]
  /\ split = [n \in Asked |-> [d \in 0 .. 2 |-> Unset]]
  /\ prover_of = [n \in Asked |-> [d \in 0 .. 1 |-> "none"]]
  /\ sent = {}

-----------------------------------------------------------------------------
(* TwoWesolowskiCallback.                                                  *)

\* Mutant of Position: the index goes on as if nothing had been stored.
PositionFromStep(power) ==
  IF switch_iters = -1 \/ power < switch_iters THEN power \div SmallStep
  ELSE power \div LargeStep

\* GetPosition, once switch_index is set.
Position(power) ==
  IF switch_iters = -1 \/ power < switch_iters THEN power \div SmallStep
  ELSE switch_index + ((power - switch_iters) \div LargeStep)

\* A thread that computes the position between the assignments to switch_iters
\* and to switch_index uses a value that was never initialised.
Positions(power) ==
  IF switch_iters # -1 /\ power >= switch_iters /\ switch_index = Unset
  THEN Slots ELSE {Position(power)}

\* OnIteration for the iterations of the set I.
Store(I) ==
  LET stored == {i \in I : i % kl = 0}
  IN  two_forms' = [e \in Slots |->
        IF \E i \in stored : Position(i) = e
        THEN Max({i \in stored : Position(i) = e}) ELSE two_forms[e]]

SquareTwo(n) ==
  /\ Batch(n)
  /\ Store(InBatch(n))
  /\ UNCHANGED <<mainVars, kl, switch_iters, switch_index, acceptVars, requestVars>>

PublishTwo ==
  /\ Publish
  /\ UNCHANGED <<mainVars, twoVars>>

RoundUp == (LargeStep - (num_iterations % LargeStep)) % LargeStep

\* Mutant of Switch: the iterations are not rounded up first.
SwitchWhereItIs ==
  /\ vdf = "switch"
  /\ kl' = LargeStep
  /\ switch_iters' = num_iterations
  /\ vdf' = "index"
  /\ UNCHANGED <<num_iterations, two_forms, mainVars, last_checkpoint, iterations,
                 switch_index, acceptVars, requestVars>>

\* A multiple of the large step is reached with the small one, and
\* IncreaseConstants begins: kl and switch_iters are set.
Switch ==
  /\ vdf = "switch"
  /\ IF num_iterations >= SwitchIters /\ kl # LargeStep
     THEN /\ num_iterations + RoundUp <= MaxCounted
          /\ num_iterations' = num_iterations + RoundUp
          /\ Store(num_iterations + 1 .. num_iterations + RoundUp)
          /\ kl' = LargeStep
          /\ switch_iters' = num_iterations + RoundUp
          /\ vdf' = "index"
     ELSE /\ vdf' = "limit"
          /\ UNCHANGED <<num_iterations, two_forms, kl, switch_iters>>
  /\ UNCHANGED <<mainVars, last_checkpoint, iterations, switch_index, acceptVars, requestVars>>

\* IncreaseConstants ends: switch_index is set, and the iterations published.
SetIndex ==
  /\ vdf = "index"
  /\ switch_index' = num_iterations \div SmallStep
  /\ iterations' = num_iterations
  /\ vdf' = "limit"
  /\ UNCHANGED <<mainVars, num_iterations, last_checkpoint, kl, switch_iters, two_forms,
                 acceptVars, requestVars>>

\* Mutant of TestLimit: the thread only ends at kMaxItersAllowed itself.
TestLimitLate ==
  /\ vdf = "limit"
  /\ vdf' = IF num_iterations >= MaxIters THEN "exit" ELSE "batch"
  /\ UNCHANGED <<mainVars, num_iterations, last_checkpoint, iterations, twoVars>>

\* "Maximum possible number of iterations reached!"
TestLimit ==
  /\ vdf = "limit"
  /\ vdf' = IF num_iterations >= Limit THEN "exit" ELSE "batch"
  /\ UNCHANGED <<mainVars, num_iterations, last_checkpoint, iterations, twoVars>>

EndTwoVdf == LeaveLoop /\ UNCHANGED <<mainVars, twoVars>>

TwoVdf ==
  /\ two_weso
  /\ \/ \E n \in 1 .. BatchSize : SquareTwo(n)
     \/ PublishTwo \/ Switch \/ SetIndex \/ TestLimit \/ EndTwoVdf

-----------------------------------------------------------------------------
(* A request's thread: ProveTwoWeso and CreateAndWriteProofTwoWeso.        *)

\* The first segment of what remains: two thirds, rounded down.
TwoThirds(len) == (len * 2) \div 3 - (((len * 2) \div 3) % LargeStep)

SegStart(n, d) ==
  CASE d = 0 -> 0
    [] d = 1 -> TwoThirds(n)
    [] d = 2 -> TwoThirds(n) + TwoThirds(n - TwoThirds(n))
SegEnd(n, d) == IF d = 2 THEN n ELSE SegStart(n, d + 1)
SegLength(n, d) == SegEnd(n, d) - SegStart(n, d)

\* The form taken for the end: segment 2 takes the last multiple of the large
\* step and squares the rest itself.
EndForm(n, d) == IF d = 2 THEN n - (n % LargeStep) ELSE SegEnd(n, d)

StepFactor(len) == IF len < LongSegment THEN 1 ELSE Ratio

\* The iterations whose forms a prover of segment d reads in GenerateProof.
Blocks(n, d) ==
  LET len == SegLength(n, d)
      l == StepFactor(len)
  IN  {SegStart(n, d) + i * SmallStep * l :
         i \in {i \in 0 .. len \div (SmallStep * l) :
                  \E j \in 0 .. l - 1 : len >= SmallStep * (i * l + j + 1)}}

OnlyRequest == UNCHANGED <<squaringVars, mainVars, listenerVars, acceptVars>>
Wait == <<"wait0", "wait1", "wait2">>
Goto(n, pc) == req' = [req EXCEPT ![n] = pc]

\* The wait for the end of segment d is over: its form is taken, and for d < 2
\* a prover's thread is started and the rest is split.
TakeEnd(n, d) ==
  /\ req[n] = Wait[d + 1]
  /\ n \notin stop_vector /\ iterations >= SegEnd(n, d)
  /\ \E p \in Positions(EndForm(n, d)) : split' = [split EXCEPT ![n][d] = two_forms[p]]
  /\ prover_of' = IF d < 2 THEN [prover_of EXCEPT ![n][d] = "run"] ELSE prover_of
  /\ Goto(n, IF d < 2 THEN Wait[d + 2] ELSE "prove2")
  /\ OnlyRequest /\ UNCHANGED sent

\* The last segment is proved in the request's own thread.
ProveLast(n) ==
  /\ req[n] = "prove2"
  /\ Goto(n, "join1")
  /\ OnlyRequest /\ UNCHANGED <<split, prover_of, sent>>

\* while (!stop_signal && !prover.IsFinished()), first for the inner segment.
JoinProverOf(n, d) ==
  /\ req[n] = (IF d = 1 THEN "join1" ELSE "join0")
  /\ n \notin stop_vector /\ prover_of[n][d] = "finished"
  /\ Goto(n, IF d = 1 THEN "join0" ELSE "write")
  /\ OnlyRequest /\ UNCHANGED <<split, prover_of, sent>>

\* if (stop_signal) return Proof(), at whatever depth: the callers see the
\* signal as well, and nothing is sent.
ReturnStopped(n) ==
  /\ req[n] \in {"wait0", "wait1", "wait2", "prove2", "join1", "join0"}
  /\ n \in stop_vector
  /\ Goto(n, "exit")
  /\ OnlyRequest /\ UNCHANGED <<split, prover_of, sent>>

\* CreateAndWriteProofTwoWeso
WriteTwo(n) ==
  /\ req[n] = "write"
  /\ Goto(n, "exit")
  /\ sent' = IF n \in stop_vector THEN sent ELSE sent \cup {n}
  /\ OnlyRequest /\ UNCHANGED <<split, prover_of>>

Request(n) ==
  \/ \E d \in 0 .. 2 : TakeEnd(n, d)
  \/ ProveLast(n)
  \/ \E d \in 0 .. 1 : JoinProverOf(n, d)
  \/ ReturnStopped(n)
  \/ WriteTwo(n)

\* A prover's detached thread: GenerateProof ends with OnFinish, or returns
\* early after the stop signal.
FinishOf(n, d) ==
  /\ prover_of[n][d] = "run"
  /\ \/ prover_of' = [prover_of EXCEPT ![n][d] = "finished"]
     \/ n \in stop_vector /\ prover_of' = [prover_of EXCEPT ![n][d] = "abandoned"]
  /\ OnlyRequest /\ UNCHANGED <<req, split, sent>>

-----------------------------------------------------------------------------
(* The session: SessionTwoWeso.                                            *)

StartTwo ==
  /\ session = "startTwo"
  /\ StartVdf
  /\ session' = "readTwo"
  /\ UNCHANGED <<stopped, two_weso, twoVars>>

\* "Too big iter... ignoring": the code subtracts 500000 from
\* kMaxProcessesAllowed, and compares with the result as a uint64_t.
TooBig(n) == n >= (MaxProcesses - Margin) % Word

Welcome(n) == Len(threads) < MaxProcesses \/ \A m \in seen : n < m

Evicted == {Max(seen)}

\* An iteration is ignored when it was seen already, is too big, or there are
\* threads enough and it is not below all others.  Otherwise it gets a thread,
\* and when these are now too many the largest one before it is stopped.
ReadIteration(n) ==
  /\ session = "readTwo"
  /\ n \notin seen /\ ~TooBig(n) /\ Welcome(n)
  /\ threads' = Append(threads, n)
  /\ Goto(n, "wait0")
  /\ IF Len(threads) >= MaxProcesses
     THEN stop_vector' = stop_vector \cup Evicted /\ seen' = (seen \cup {n}) \ Evicted
     ELSE seen' = seen \cup {n} /\ UNCHANGED stop_vector
  /\ UNCHANGED <<squaringVars, mainVars, listenerVars, split, prover_of, sent>>

\* The stop signal sets every flag.
ReadTwoStop ==
  /\ session = "readTwo"
  /\ stopped' = TRUE
  /\ stop_vector' = Range(threads)
  /\ session' = "joinThreads"
  /\ UNCHANGED <<squaringVars, two_weso, listenerVars, seen, threads, requestVars>>

JoinThreads ==
  /\ session = "joinThreads"
  /\ \A n \in Range(threads) : req[n] = "exit"
  /\ session' = "joinTwoVdf"
  /\ UNCHANGED <<squaringVars, stopped, two_weso, twoVars>>

\* delete(weso); then STOP is sent.
JoinTwoVdf ==
  /\ session = "joinTwoVdf" /\ vdf = "exit"
  /\ session' = "done"
  /\ UNCHANGED <<squaringVars, stopped, two_weso, twoVars>>

TwoMain == StartTwo \/ JoinThreads \/ JoinTwoVdf

TwoNext ==
  \/ TwoMain
  \/ ReadTwoStop
  \/ TwoVdf
  \/ \E n \in Asked : ReadIteration(n) \/ Request(n) \/ \E d \in 0 .. 1 : FinishOf(n, d)

-----------------------------------------------------------------------------
TwoWesoOK ==
  /\ kl \in {SmallStep, LargeStep}
  /\ switch_iters \in 0 .. MaxCounted \cup {Unset} /\ switch_index \in Slots \cup {Unset}
  /\ two_forms \in [Slots -> 0 .. MaxCounted \cup {Unset}]
  /\ seen \subseteq Range(threads) /\ threads \in Seq(Asked) /\ stop_vector \subseteq Range(threads)
  /\ req \in [Asked -> {"none", "wait0", "wait1", "wait2", "prove2", "join1", "join0", "write", "exit"}]
  /\ split \in [Asked -> [0 .. 2 -> 0 .. MaxCounted \cup {Unset}]]
  /\ prover_of \in [Asked -> [0 .. 1 -> {"none", "run", "finished", "abandoned"}]]
  /\ sent \subseteq Asked

Proves(n, d) == IF d = 2 THEN req[n] = "prove2" ELSE prover_of[n][d] = "run"

\* Every form a running prover reads is the one of the iteration it stands for,
\* before, while and after the step between stored forms changes; so is the one
\* taken for the end of a segment, unless the segment ends at the very iteration
\* at which the step changes: its position may then have been computed from the
\* uninitialised switch_index.
ProverFormsRight ==
  \A n \in Asked, d \in 0 .. 2 :
    /\ Proves(n, d) => \A b \in Blocks(n, d) : \A p \in Positions(b) : two_forms[p] = b
    /\ split[n][d] # Unset => split[n][d] = EndForm(n, d) \/ EndForm(n, d) = switch_iters

\* The array and the pool hold: no form is stored outside the array, as the
\* room between kMaxItersAllowed and the iteration at which the thread ends
\* makes up for the forms stored densely while the thread passed kSwitchIters;
\* and no more than kMaxProcessesAllowed requests are kept, of which none is
\* larger than one given up.
WithinBounds ==
  /\ \A e \in Slots : e >= Space => two_forms[e] = Unset
  /\ ~stopped => /\ \A n \in stop_vector, m \in seen : m < n
                 /\ Cardinality(seen) <= MaxProcesses

=============================================================================
