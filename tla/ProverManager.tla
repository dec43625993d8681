--------------------------- MODULE ProverManager ---------------------------
(***************************************************************************)
(* The n-Wesolowski timelord of chiavdf/src: the VDF loop (repeated_square)*)
(* that squares, the ProverManager (vdf.h) whose event loop hands finished *)
(* segments to InterruptableProvers (provers.h), the threads that assemble *)
(* a proof for an iteration (Prove), and the session (vdf_client.cpp) that *)
(* starts them and stops them.                                             *)
(*                                                                         *)
(* Time is counted in units of 2^16 iterations.  Segment <<i, s>> of bucket*)
(* i covers the units s .. s + Ratio^i - 1; the code's Ratio is 4.  The    *)
(* iteration 2 * b + e of a request stands for b units and, if e = 1, part *)
(* of another one.  Mutexes and condition variables are explicit: a thread *)
(* that tests its predicate holds the mutex until it sleeps.               *)
(***************************************************************************)
EXTENDS Integers, Sequences, FiniteSets

CONSTANTS
  Buckets,    \* segment_count
  Ratio,      \* how much longer the segments of the next bucket are
  Threads,    \* max_proving_threads
  MaxBlobs,   \* the 63 segments a proof may have
  MaxUnits,   \* bound: the units that are counted
  Requests,   \* the iterations that are asked for
  SlowWait,   \* BOOLEAN: a step lies between a wait's test and its sleep
  MayStop     \* BOOLEAN: whether the client sends the stop signal

ASSUME ManagerAssumption ==
  /\ Buckets \in Nat \ {0} /\ Ratio \in Nat \ {0, 1}
  /\ Threads \in Nat \ {0} /\ MaxBlobs \in Nat \ {0} /\ MaxUnits \in Nat
  /\ Requests \subseteq Nat /\ SlowWait \in BOOLEAN /\ MayStop \in BOOLEAN

BucketIds == 0 .. Buckets - 1

\* 1LL << (16 + 2 * i) iterations, in units
Lengths[i \in BucketIds] == IF i = 0 THEN 1 ELSE Ratio * Lengths[i - 1]
Length(i) == Lengths[i]
End(g) == g[2] + Length(g[1])
Segments == {g \in BucketIds \X (0 .. MaxUnits - 1) : g[2] % Length(g[1]) = 0 /\ End(g) <= MaxUnits}
Base(r) == r \div 2
Partial(r) == r % 2 = 1

VARIABLES
  iterations,      \* weso->iterations
  vdf,             \* the VDF thread: "run" or "exit"
  new_event,       \* the event loop's wake-up flag
  stopped,         \* the session's and the manager's stop flags
  session,         \* program counter of SessionFastAlgorithm
  main,            \* program counter of RunEventLoop
  active,          \* its active_provers
  vdf_iteration,   \* its copy of iterations
  pending,         \* pending_segments
  last_appended,   \* last_appended
  provers,         \* the segments of the list provers
  paused,          \* those of them whose is_paused is set
  killed,          \* those on which stop() was called
  thread,          \* program counter of each prover's thread
  done,            \* done_segments without the empty placeholders
  pending_iters,   \* pending_iters
  pending_last,    \* pending_iters_last_sg
  max_proving,     \* max_proving_iteration
  req,             \* program counter of each request's thread
  segs             \* its proof_segments

vdfVars == <<iterations, vdf>>
loopVars == <<main, active, vdf_iteration, pending, last_appended>>
proverVars == <<provers, paused, killed, thread>>
proofVars == <<done, pending_iters, pending_last, max_proving>>
reqVars == <<req, segs>>
vars == <<vdfVars, new_event, stopped, session, loopVars, proverVars, proofVars, reqVars>>

Init ==
  /\ iterations = 0 /\ vdf = "run"
  /\ new_event = FALSE /\ stopped = FALSE /\ session = "read"
  /\ main = "wait" /\ active = 0 /\ vdf_iteration = 0
  /\ pending = {} /\ last_appended = [i \in BucketIds |-> 0]
  /\ provers = {} /\ paused = {} /\ killed = {}
  /\ thread = [g \in Segments |-> "none"]
  /\ done = {} /\ pending_iters = {} /\ pending_last = {} /\ max_proving = 0
  /\ req = [r \in Requests |-> "none"]
  /\ segs = [r \in Requests |-> <<>>]

-----------------------------------------------------------------------------
(* The VDF thread.                                                         *)

\* repeated_square reaches the next multiple of 2^16: it publishes iterations,
\* the checkpoints and intermediates are stored, and the event loop is woken.
\* Beyond the bound the events keep coming, but no segment is added.
VdfTick ==
  /\ vdf = "run" /\ ~stopped
  /\ iterations' = IF iterations < MaxUnits THEN iterations + 1 ELSE iterations
  /\ new_event' = TRUE
  /\ UNCHANGED <<vdf, stopped, session, loopVars, proverVars, proofVars, reqVars>>

VdfExit ==
  /\ vdf = "run" /\ stopped
  /\ vdf' = "exit"
  /\ UNCHANGED <<iterations, new_event, stopped, session, loopVars, proverVars, proofVars, reqVars>>

-----------------------------------------------------------------------------
(* A prover's thread: InterruptableProver::GenerateProof.                  *)

\* The last PerformExtraStep returns true: the prover is not paused.
LastStep(g) ==
  /\ thread[g] = "run" /\ g \notin paused
  /\ thread' = [thread EXCEPT ![g] = "last"]
  /\ UNCHANGED <<vdfVars, new_event, stopped, session, loopVars, provers, paused, killed, proofVars, reqVars>>

\* PerformExtraStep returns false after stop(); a thread that waits because it
\* is paused does not get there.
Abandon(g) ==
  /\ thread[g] = "run" /\ g \in killed /\ g \notin paused
  /\ thread' = [thread EXCEPT ![g] = "exit"]
  /\ UNCHANGED <<vdfVars, new_event, stopped, session, loopVars, provers, paused, killed, proofVars, reqVars>>

\* OnFinish: is_finished = true
Finish(g) ==
  /\ thread[g] = "last"
  /\ thread' = [thread EXCEPT ![g] = "finished"]
  /\ UNCHANGED <<vdfVars, new_event, stopped, session, loopVars, provers, paused, killed, proofVars, reqVars>>

\* OnFinish: unless stop() came first, the event loop is woken.
Announce(g) ==
  /\ thread[g] = "finished"
  /\ IF g \in killed THEN thread' = [thread EXCEPT ![g] = "exit"] /\ UNCHANGED new_event
                     ELSE thread' = [thread EXCEPT ![g] = "event"] /\ new_event' = TRUE
  /\ UNCHANGED <<vdfVars, stopped, session, loopVars, provers, paused, killed, proofVars, reqVars>>

\* OnFinish: is_fully_finished = true
FullyFinish(g) ==
  /\ thread[g] = "event"
  /\ thread' = [thread EXCEPT ![g] = "exit"]
  /\ UNCHANGED <<vdfVars, new_event, stopped, session, loopVars, provers, paused, killed, proofVars, reqVars>>

ProverThread(g) == LastStep(g) \/ Abandon(g) \/ Finish(g) \/ Announce(g) \/ FullyFinish(g)

IsFinished(g) == g \in killed \/ thread[g] \in {"finished", "event", "exit"}
IsFullyFinished(g) == g \in killed \/ thread[g] = "exit"

-----------------------------------------------------------------------------
(* The event loop: ProverManager::RunEventLoop.                            *)

LastSegmentFree == \A r \in Requests : req[r] # "blockSegment"
ProofFree == \A r \in Requests : req[r] # "blockProof"

\* notify_all on last_segment_cv and on proof_cv: sleepers test again.
Woken(pc) == CASE pc = "sleepSegment" -> "testSegment"
               [] pc = "sleepProof" -> "testProof"
               [] OTHER -> pc
WakeSegment(wake) == [r \in Requests |-> IF wake /\ req[r] = "sleepSegment" THEN "testSegment" ELSE req[r]]

\* Mutant of WakeProof: the notification is left out.
WakeProofNever(wake) == req
WakeProof(wake) == [r \in Requests |-> IF wake /\ req[r] = "sleepProof" THEN "testProof" ELSE req[r]]

\* The wait for an event, and vdf_iteration = weso->iterations.
WaitEvent ==
  /\ main = "wait"
  /\ new_event
  /\ new_event' = FALSE
  /\ IF stopped THEN main' = "exit" /\ UNCHANGED vdf_iteration
                ELSE main' = "segment" /\ vdf_iteration' = iterations
  /\ UNCHANGED <<vdfVars, stopped, session, active, pending, last_appended, proverVars, proofVars, reqVars>>

\* Mutant of NotifySegment: the requests are only woken at the exact iteration.
NotifySegmentExact ==
  /\ main = "segment" /\ LastSegmentFree
  /\ req' = WakeSegment(\E b \in pending_last : b = vdf_iteration)
  /\ main' = "harvest"
  /\ UNCHANGED <<vdfVars, new_event, stopped, session, active, vdf_iteration, pending, last_appended, proverVars, proofVars, segs>>

\* Wake the requests whose last segment has begun.
NotifySegment ==
  /\ main = "segment" /\ LastSegmentFree
  /\ req' = WakeSegment(\E b \in pending_last : b <= vdf_iteration)
  /\ main' = "harvest"
  /\ UNCHANGED <<vdfVars, new_event, stopped, session, active, vdf_iteration, pending, last_appended, proverVars, proofVars, segs>>

Most(S) == CHOOSE m \in S : \A q \in S : q <= m

\* done_segments[i].size(), with the placeholders before a later segment.
Size(d, i) == LET places == {g[2] \div Length(i) : g \in {h \in d : h[1] = i}}
              IN  IF places = {} THEN 0 ELSE Most(places) + 1

\* Mutant of Extend: the placeholders of unfinished segments count.
ExtendPlaceholders(d, i, above) ==
  LET n == IF Size(d, i) > above.units \div Length(i) THEN Size(d, i) - above.units \div Length(i) ELSE 0
  IN  [units |-> above.units + n * Length(i), blobs |-> above.blobs + n]

\* The finished segments of bucket i that follow one another from where the
\* longer ones end.
Extend(d, i, above) ==
  LET run == {n \in 0 .. MaxBlobs - above.blobs :
                \A m \in 0 .. n - 1 : <<i, above.units + m * Length(i)>> \in d}
  IN  [units |-> above.units + Most(run) * Length(i), blobs |-> above.blobs + Most(run)]

\* "The real number of iters we can prove": from the longest bucket down, at
\* most MaxBlobs segments in all.
Reach(d) ==
  LET reach[i \in 0 .. Buckets] ==
        IF i = Buckets THEN [units |-> 0, blobs |-> 0] ELSE Extend(d, i, reach[i + 1])
  IN  reach[0].units

Finished == {g \in provers : IsFinished(g)}
NextRequest == CHOOSE r \in pending_iters : \A q \in pending_iters : r <= q

\* Mutants of Harvest: a finished prover that was paused meanwhile is dropped
\* with its proof; the pause flag of a dropped prover stays; and
\* max_proving_iteration is reset before it is known whether it is recomputed.
HarvestSkipsPaused ==
  /\ main = "harvest" /\ ProofFree
  /\ done' = done \cup (Finished \ paused)
  /\ provers' = provers \ {g \in Finished : IsFullyFinished(g)}
  /\ paused' = paused \cap provers'
  /\ LET small == (\E g \in Finished : g[1] = 0) /\ pending_iters # {}
     IN  /\ max_proving' = IF small /\ Size(done', 0) >= Base(NextRequest) THEN Reach(done') ELSE max_proving
         /\ req' = WakeProof(small /\ max_proving' >= Base(NextRequest))
  /\ main' = "append"
  /\ UNCHANGED <<vdfVars, new_event, stopped, session, active, vdf_iteration, pending, last_appended,
                 killed, thread, pending_iters, pending_last, segs>>

HarvestKeepsPaused ==
  /\ main = "harvest" /\ ProofFree
  /\ done' = done \cup Finished
  /\ provers' = provers \ {g \in Finished : IsFullyFinished(g)}
  /\ paused' = paused
  /\ LET small == (\E g \in Finished : g[1] = 0) /\ pending_iters # {}
     IN  /\ max_proving' = IF small /\ Size(done', 0) >= Base(NextRequest) THEN Reach(done') ELSE max_proving
         /\ req' = WakeProof(small /\ max_proving' >= Base(NextRequest))
  /\ main' = "append"
  /\ UNCHANGED <<vdfVars, new_event, stopped, session, active, vdf_iteration, pending, last_appended,
                 killed, thread, pending_iters, pending_last, segs>>

\* Under proof_mutex: take the proofs of the finished provers, drop those that
\* are fully finished, and when a shortest segment was among them see how far
\* the next request can be proved; then wake the requests.
Harvest ==
  /\ main = "harvest" /\ ProofFree
  /\ done' = done \cup Finished
  /\ provers' = provers \ {g \in Finished : IsFullyFinished(g)}
  /\ paused' = paused \cap provers'
  /\ LET small == (\E g \in Finished : g[1] = 0) /\ pending_iters # {}
     IN  /\ max_proving' = IF small /\ Size(done', 0) >= Base(NextRequest) THEN Reach(done') ELSE max_proving
         /\ req' = WakeProof(small /\ max_proving' >= Base(NextRequest))
  /\ main' = "append"
  /\ UNCHANGED <<vdfVars, new_event, stopped, session, active, vdf_iteration, pending, last_appended,
                 killed, thread, pending_iters, pending_last, segs>>

\* The segments whose end the VDF has passed become pending, and the running
\* provers are counted.  The last return is the one for stopped.
AppendSegments ==
  /\ main = "append"
  /\ IF stopped THEN main' = "exit" /\ UNCHANGED <<pending, last_appended, active>>
     ELSE /\ pending' = pending \cup {g \in Segments : g[2] >= last_appended[g[1]] /\ End(g) <= vdf_iteration}
          /\ last_appended' = [i \in BucketIds |-> (vdf_iteration \div Length(i)) * Length(i)]
          /\ active' = Cardinality(provers \ paused)
          /\ main' = "schedule"
  /\ UNCHANGED <<vdfVars, new_event, stopped, session, vdf_iteration, proverVars, proofVars, reqVars>>

\* Segment::IsWorseThan
IsWorseThan(g, h) == \/ g[1] > h[1]
                     \/ g[1] = h[1] /\ g[2] > h[2]

Candidates == (provers \cap paused) \cup pending
Best == CHOOSE g \in Candidates : \A h \in Candidates : ~IsWorseThan(g, h)
Running == provers \ paused
Worst == CHOOSE g \in Running : \A h \in Running : ~IsWorseThan(h, g)

\* Resume the best segment's prover or start a new one; pause the preempted.
Spawn(best, preempted) ==
  /\ provers' = provers \cup {best}
  /\ paused' = (paused \ {best}) \cup preempted
  /\ pending' = pending \ {best}
  /\ thread' = IF best \in provers THEN thread ELSE [thread EXCEPT ![best] = "run"]

\* One iteration of the loop that finds the best segment to run.
Schedule ==
  /\ main = "schedule"
  /\ IF stopped \/ Candidates = {}
     THEN /\ main' = IF stopped THEN "exit" ELSE "wait"
          /\ UNCHANGED <<active, pending, provers, paused, thread>>
     ELSE IF active < Threads
     THEN /\ Spawn(Best, {})
          /\ active' = active + 1
          /\ UNCHANGED main
     ELSE IF IsWorseThan(Worst, Best)
     THEN /\ Spawn(Best, {Worst})
          /\ UNCHANGED <<main, active>>
     ELSE /\ main' = "wait"
          /\ UNCHANGED <<active, pending, provers, paused, thread>>
  /\ UNCHANGED <<vdfVars, new_event, stopped, session, vdf_iteration, last_appended, killed, proofVars, reqVars>>

EventLoop == WaitEvent \/ NotifySegment \/ Harvest \/ AppendSegments \/ Schedule

-----------------------------------------------------------------------------
(* A request's thread: ProverManager::Prove and CreateAndWriteProof.       *)

Goto(r, pc) == req' = [req EXCEPT ![r] = pc]
OnlyReq == UNCHANGED <<vdfVars, new_event, stopped, session, loopVars, proverVars, proofVars, segs>>

\* pending_iters.insert(iteration)
Register(r) ==
  /\ req[r] = "register" /\ ProofFree
  /\ pending_iters' = pending_iters \cup {r}
  /\ Goto(r, "registerLast")
  /\ UNCHANGED <<vdfVars, new_event, stopped, session, loopVars, proverVars, done, pending_last, max_proving, segs>>

\* pending_iters_last_sg.insert(...)
RegisterLast(r) ==
  /\ req[r] = "registerLast" /\ LastSegmentFree
  /\ pending_last' = pending_last \cup {Base(r)}
  /\ Goto(r, "testSegment")
  /\ UNCHANGED <<vdfVars, new_event, stopped, session, loopVars, proverVars, done, pending_iters, max_proving, segs>>

\* last_segment_cv.wait returns, or the thread is about to sleep.
TestSegment(r) ==
  /\ req[r] = "testSegment" /\ LastSegmentFree
  /\ IF stopped THEN Goto(r, "dropped") /\ UNCHANGED pending_last
     ELSE IF vdf_iteration >= Base(r)
     THEN Goto(r, "partial") /\ pending_last' = pending_last \ {Base(r)}
     ELSE Goto(r, IF SlowWait THEN "blockSegment" ELSE "sleepSegment") /\ UNCHANGED pending_last
  /\ UNCHANGED <<vdfVars, new_event, stopped, session, loopVars, proverVars, done, pending_iters, max_proving, segs>>

\* The thread sleeps and with that releases the mutex.
Sleep(r) ==
  /\ \/ req[r] = "blockSegment" /\ Goto(r, "sleepSegment")
     \/ req[r] = "blockProof" /\ Goto(r, "sleepProof")
  /\ OnlyReq

\* The part after the last checkpoint, if there is one, is proved by this
\* thread, which gives up when stopped is set.
ProvePartial(r) ==
  /\ req[r] = "partial"
  /\ Goto(r, IF Partial(r) /\ stopped THEN "dropped" ELSE "loop")
  /\ OnlyReq

\* while (!valid_proof && !stopped)
TestLoop(r) ==
  /\ req[r] = "loop"
  /\ Goto(r, IF stopped THEN "build" ELSE "testProof")
  /\ OnlyReq

\* proved_iters
Proved(list) == IF list = <<>> THEN 0 ELSE End(list[Len(list)])

\* The segments of bucket i from unit on, as many as there are places.
FromUnit(i, unit, places) ==
  [m \in 1 .. (IF places > 0 THEN places ELSE 0) |-> <<i, unit + (m - 1) * Length(i)>>]

\* Mutant of Take: the segments may reach beyond the iteration.
TakeTooFar(i, b, list) ==
  LET from == Proved(list)
  IN  list \o (IF from >= b THEN <<>> ELSE FromUnit(i, from, Size(done, i) - from \div Length(i)))

\* To the segments of longer buckets Prove appends those of bucket i, while
\* there are places in done_segments and they end by unit b.
Take(i, b, list) ==
  LET from == Proved(list)
      places == Size(done, i) - from \div Length(i)
      fit == (b - from) \div Length(i)
  IN  list \o FromUnit(i, from, IF places < fit THEN places ELSE fit)

\* The segments Prove takes, from the longest bucket down.
Gather(b) ==
  LET taken[i \in 0 .. Buckets] == IF i = Buckets THEN <<>> ELSE Take(i, b, taken[i + 1])
  IN  taken[0]

\* proof_cv.wait returns and the segments are gathered under proof_mutex, or
\* the thread is about to sleep.  Too few or too many segments: try again in a
\* minute.
TestProof(r) ==
  /\ req[r] = "testProof" /\ ProofFree
  /\ IF stopped THEN Goto(r, "dropped") /\ UNCHANGED <<pending_iters, segs>>
     ELSE IF max_proving >= Base(r)
     THEN LET list == Gather(Base(r))
          IN  /\ pending_iters' = pending_iters \ {r}
              /\ IF Len(list) > MaxBlobs \/ Proved(list) < Base(r)
                 THEN Goto(r, "retry") /\ UNCHANGED segs
                 ELSE Goto(r, "build") /\ segs' = [segs EXCEPT ![r] = list]
     ELSE Goto(r, IF SlowWait THEN "blockProof" ELSE "sleepProof") /\ UNCHANGED <<pending_iters, segs>>
  /\ UNCHANGED <<vdfVars, new_event, stopped, session, loopVars, proverVars, done, pending_last, max_proving>>

\* The minute is over.
Retry(r) ==
  /\ req[r] = "retry" /\ ProofFree
  /\ pending_iters' = pending_iters \cup {r}
  /\ Goto(r, "loop")
  /\ UNCHANGED <<vdfVars, new_event, stopped, session, loopVars, proverVars, done, pending_last, max_proving, segs>>

\* The proof is put together; proof_segments[size() - 1] of no segments is
\* undefined.  CreateAndWriteProof sends it unless the session has stopped.
Build(r) ==
  /\ req[r] = "build"
  /\ Goto(r, IF segs[r] = <<>> /\ ~Partial(r) THEN "undefined" ELSE IF stopped THEN "dropped" ELSE "written")
  /\ OnlyReq

RequestThread(r) == \/ Register(r) \/ RegisterLast(r) \/ TestSegment(r) \/ Sleep(r) \/ ProvePartial(r)
                    \/ TestLoop(r) \/ TestProof(r) \/ Retry(r) \/ Build(r)

-----------------------------------------------------------------------------
(* The session: SessionFastAlgorithm and ProverManager::stop.              *)

\* An iteration arrives and a thread is started for it.
Receive(r) ==
  /\ session = "read"
  /\ req[r] = "none"
  /\ Goto(r, "register")
  /\ OnlyReq

\* The stop signal: stopped = true, and stop() sets its own flag and an event.
Stop ==
  /\ session = "read" /\ MayStop
  /\ stopped' = TRUE /\ new_event' = TRUE
  /\ session' = "joinLoop"
  /\ UNCHANGED <<vdfVars, loopVars, proverVars, proofVars, reqVars>>

\* main_loop->join()
JoinLoop ==
  /\ session = "joinLoop" /\ main = "exit"
  /\ session' = "stopProvers"
  /\ UNCHANGED <<vdfVars, new_event, stopped, loopVars, proverVars, proofVars, reqVars>>

\* Mutant of StopProver: a paused prover is not resumed.
StopProverPaused(g) ==
  /\ session = "stopProvers" /\ g \in provers \ killed
  /\ \A h \in killed : thread[h] = "exit"
  /\ killed' = killed \cup {g}
  /\ thread' = IF thread[g] = "run" /\ g \notin paused THEN [thread EXCEPT ![g] = "exit"] ELSE thread
  /\ UNCHANGED <<vdfVars, new_event, stopped, session, loopVars, provers, paused, proofVars, reqVars>>

\* InterruptableProver::stop, which joins the prover's thread before the next
\* one is stopped.
StopProver(g) ==
  /\ session = "stopProvers" /\ g \in provers \ killed
  /\ \A h \in killed : thread[h] = "exit"
  /\ killed' = killed \cup {g}
  /\ paused' = paused \ {g}
  /\ UNCHANGED <<vdfVars, new_event, stopped, session, loopVars, provers, thread, proofVars, reqVars>>

\* proof_cv.notify_all(); last_segment_cv.notify_all(), without their mutexes.
NotifyStopped ==
  /\ session = "stopProvers" /\ provers = killed
  /\ \A h \in killed : thread[h] = "exit"
  /\ req' = [r \in Requests |-> Woken(req[r])]
  /\ session' = "joinVdf"
  /\ UNCHANGED <<vdfVars, new_event, stopped, loopVars, proverVars, proofVars, segs>>

JoinVdf ==
  /\ session = "joinVdf" /\ vdf = "exit"
  /\ session' = "joinRequests"
  /\ UNCHANGED <<vdfVars, new_event, stopped, loopVars, proverVars, proofVars, reqVars>>

Ended == {"none", "dropped", "written", "undefined"}

\* threads[t].join(), and FinishSession writes STOP.
JoinRequests ==
  /\ session = "joinRequests" /\ \A r \in Requests : req[r] \in Ended
  /\ session' = "finished"
  /\ UNCHANGED <<vdfVars, new_event, stopped, loopVars, proverVars, proofVars, reqVars>>

Finishing == \/ JoinLoop \/ NotifyStopped \/ JoinVdf \/ JoinRequests
             \/ \E g \in Segments : StopProver(g)

\* The session has ended.
Over == session = "finished" /\ UNCHANGED vars

Next == \/ VdfTick \/ VdfExit
        \/ \E g \in Segments : ProverThread(g)
        \/ EventLoop
        \/ \E r \in Requests : RequestThread(r) \/ Receive(r)
        \/ Stop \/ Finishing \/ Over

Spec == Init /\ [][Next]_vars

\* Every thread that can run runs; nobody has to send a request or a stop.
Fairness ==
  /\ WF_vars(VdfTick \/ VdfExit)
  /\ \A g \in Segments : WF_vars(ProverThread(g))
  /\ WF_vars(EventLoop)
  /\ \A r \in Requests : WF_vars(RequestThread(r))
  /\ WF_vars(Finishing)

FairSpec == Spec /\ Fairness

-----------------------------------------------------------------------------
(* Properties.                                                             *)

\* Every variable of the timelord has its type.
TypeOK ==
  /\ iterations \in 0 .. MaxUnits /\ vdf_iteration \in 0 .. MaxUnits
  /\ vdf \in {"run", "exit"} /\ new_event \in BOOLEAN /\ stopped \in BOOLEAN
  /\ session \in {"read", "joinLoop", "stopProvers", "joinVdf", "joinRequests", "finished"}
  /\ main \in {"wait", "segment", "harvest", "append", "schedule", "exit"}
  /\ active \in Nat
  /\ pending \subseteq Segments /\ provers \subseteq Segments /\ done \subseteq Segments
  /\ paused \subseteq provers /\ killed \subseteq provers
  /\ last_appended \in [BucketIds -> 0 .. MaxUnits]
  /\ thread \in [Segments -> {"none", "run", "last", "finished", "event", "exit"}]
  /\ pending_iters \subseteq Requests /\ pending_last \subseteq {Base(r) : r \in Requests}
  /\ max_proving \in 0 .. MaxUnits
  /\ req \in [Requests -> Ended \cup {"register", "registerLast", "testSegment", "blockSegment", "sleepSegment",
                                      "partial", "loop", "testProof", "blockProof", "sleepProof", "retry", "build"}]
  /\ segs \in [Requests -> Seq(Segments)]

\* No segment is lost or proved twice, whatever is paused, resumed, finished
\* or stopped meanwhile: a segment that was appended is pending, with a prover
\* or done, and only then has a thread (RunEventLoop).  And until stop() lets
\* all of them run, no more provers run than "maximum amount of proving threads
\* running at once".
SegmentsConserved ==
  /\ \A g \in Segments :
       /\ End(g) <= last_appended[g[1]] <=> g \in pending \cup provers \cup done
       /\ g \in pending => g \notin provers \cup done
       /\ thread[g] # "none" <=> g \in provers \cup done
       /\ g \in done => thread[g] \in {"finished", "event", "exit"}
  /\ ~stopped => Cardinality(provers \ paused) <= Threads

\* What the event loop announces as provable is: finished segments cover every
\* unit up to max_proving_iteration.
MaxProvingCovered ==
  \A u \in 0 .. max_proving - 1 : \E g \in done : g[2] <= u /\ u < End(g)

\* The places of Prove before the VDF has reached the request's last segment.
BeforeSegment == {"none", "register", "registerLast", "testSegment", "blockSegment", "sleepSegment"}

\* Another request with the same last segment has come further, and has erased
\* the one element that pending_iters_last_sg has for both of them.
Overtaken(r) == \E q \in Requests \ {r} : Base(q) = Base(r) /\ req[q] \notin BeforeSegment

\* While the event loop sleeps, no request sleeps through what it waits for:
\* every notification of RunEventLoop reaches the requests it is meant for.
\* The exception is a request that was overtaken by another one of its segment.
NoMissedWakeup ==
  (main = "wait" /\ ~new_event /\ ~stopped) => \A r \in Requests :
    /\ req[r] = "sleepSegment" => vdf_iteration < Base(r) \/ Overtaken(r)
    /\ req[r] = "sleepProof" => max_proving < Base(r)

\* Segments that follow one another from 0.
Chained(list) ==
  /\ list # <<>> => list[1][2] = 0
  /\ \A m \in 1 .. Len(list) - 1 : list[m + 1][2] = End(list[m])

\* A place of done_segments: that segment or a later one of its length has
\* finished.
Place(g) == \E h \in done : h[1] = g[1] /\ g[2] <= h[2]

\* What Prove sends, whatever finished in whatever order while it waited, took
\* segments and tried again: no more segments than a proof may have, following
\* one another from 0 to the last checkpoint before the iteration.  Each has a
\* place in done_segments, and one whose proof is not there yet is still owed:
\* it is pending or has a prover.
ProofsFollow ==
  \A r \in Requests : req[r] = "written" =>
    /\ Len(segs[r]) <= MaxBlobs
    /\ Chained(segs[r]) /\ Proved(segs[r]) = Base(r)
    /\ \A m \in 1 .. Len(segs[r]) : /\ Place(segs[r][m])
                                    /\ segs[r][m] \in pending \cup provers \cup done

\* A proof that is sent consists of finished segments that follow one another
\* from 0 to the last checkpoint before the iteration.
ProofsComplete ==
  \A r \in Requests : req[r] = "written" =>
    /\ Chained(segs[r]) /\ Proved(segs[r]) = Base(r)
    /\ \A m \in 1 .. Len(segs[r]) : segs[r][m] \in done

\* A request that is registered before the VDF is there gets its proof, unless
\* the session is stopped: the segments it needs still have to finish, and the
\* last of them wakes it.
RequestsServed ==
  \A r \in Requests : (req[r] = "testSegment" /\ iterations < Base(r)) ~> (req[r] = "written" \/ stopped)

\* "Tell client I've stopped everything": a session that is told to stop gets
\* there (FinishSession).
StopCompletes == stopped ~> session = "finished"

=============================================================================
