# TLA+ models of HeadStart, chiavdf and the loot-box protocol

This directory specifies and checks the three programs of this repository: the
HeadStart randomness beacon (`src/headstart_py`), the VDF client, or timelord,
that it and Chia use (`src/chiavdf`), and the loot-box protocol
(`src/loot-box-protocol`), whose randomness the beacon draws.  All line numbers
are those of the sources under `src/`.

`PROJECT.json` maps every definition to the lines it stands for, lists the runs,
the mutants that show each property can fail, the hazards of the code with the
properties that watch them, and the theorems.

To check a run: `tlc -config MCBeacon.cfg MCBeacon`.  To check the proofs, call
`tlapm` on each module whose name ends in `Proofs`, for example
`tlapm BeaconProofs.tla`.

## 1. Inventory: the system and its parts

### HeadStart beacon server (`headstart/server.py`, `headstart/stage.py`)

*State.* A list of `Stage` objects that only grows.  A stage has a phase
(CONTRIBUTION, EVALUATION, DONE), the contributed data, the stages of its window
(`prev_stages`) and four attributes assigned later: accumulator, VDF challenge,
VDF output and aggregated VDF proof.

*Operations.* The scheduler job `next_stage` closes the last stage every three
seconds (accumulate, wait until the previous stage is DONE, hash, start a
thread) and opens the next one.  A thread `vdf_run` per stage evaluates the VDF
and aggregates a proof over the window.  Request handlers contribute and read.

*Interaction and hard behaviour.* Scheduler, `vdf_run` threads and handlers share
the stages without a lock; whether that is safe depends on where threads can be
switched (gevent or preemptive).  A stage is visible half closed.  `next_stage`
polls for the previous output for ever.

*Correct when* stages are evaluated one after another, each challenge commits to
the stage's data and the previous output, a receipt names the place where the
contribution is accumulated, a DONE stage has a proof for exactly its window,
what was published never changes, and every stage gets DONE.

### HeadStart client, accumulators and delay functions (`headstart/client.py`, `acc`, `vdf`, `math`)

The client polls until the wanted stage is DONE, splits the stages between the
contribution and the wanted one into ranges of the window's size, checks the
membership of the contribution, recomputes the challenges and verifies one proof
per range.  Accumulators are Merkle trees (sorted for non-membership), RSA and
class groups; the delay function is chiavdf's or one in Python.  *Correct when*
the ranges are consecutive windows of the server; whatever a server answers, the
outputs at the places of the stages follow from one another back to the place of
the contribution; witnesses verify for their item only.

### chiavdf: the VDF client (`vdf_client.cpp`, `vdf.h`, `callback.h`, `provers.h`, `prover_*.hpp`)

A process serves one session of a kind the client names by a letter.

- All kinds run `repeated_square`: a thread that squares in batches (by two
  threads on fast machines, `vdf_fast.h`, `threading.h`), hands every form to a
  listener that stores some of them, and publishes how far it is.
- **S**: one proof for one iteration; a prover's thread polls for the result.
- **T**: proofs of three segments for up to 100 iterations.  One thread per
  request polls for the ends of segments and starts detached provers' threads.
  The listener changes from every 10th to every 100th form on the way.
- **N**: `ProverManager`.  An event loop cuts the squarings into segments of sizes
  2^16, 2^18, ..., proves the best ones on a bounded number of threads, pausing
  worse ones, and wakes the requests whose segments are finished.  On machines
  with many processors six storage threads redo the squarings and store the
  forms in a window that is used again (`fast_storage.h`).

*Hard behaviour.* Mutexes, condition variables, polling, counters without locks, a
stop signal at any moment, provers that finish out of order or while they are
being paused, arrays read while another thread writes them.  *Correct when*
provers read the right forms, no segment is lost or proved twice, what is sent
is a proof of finished consecutive segments, requests are served and a stop ends
the session.

### chiavdf: the hardware timelord (`hw/`)

An event loop serves a connection per engine: challenge, requests, stop.  It
polls the engine's status, keeps the values at multiples of an interval, lets
detached auxiliary threads compute the values in between, splits requested
iterations into segments that are queued with reference counts, and has
auxiliary threads prove them.  Drivers write jobs to registers over USB, read the
status back, and set the clock and the voltage; an emulator stands in for the
device.  *Correct when* no position is skipped or computed twice, requests are
neither lost nor queued twice, what is written is a complete chain of segments,
proofs leave a slot for the values they wait for, and a job arrives as it was
sent.

### chiavdf: algorithms

Class-group arithmetic in several versions (`vdf_new.h`, `vdf_original.h`,
`nucomp.h` with `Reducer.h` and `xgcd_partial.c`), the partial gcd on three levels
in C++ and in assembly (`gcd_*.h`, `asm_gcd_*.h`), vectors and fixed-size integers
(`avx512_integer.h`, `asm_avx512_ifma.h`, `gpu_integer.h`), the encoding of forms
(`bqfc.c`), hashing into the group (`aggutil.h`), provers, verifier and the
aggregated delay function.  Stateless; the hazards are carries, sizes, signs,
rare branches, and two versions that must agree.

### Loot-box protocol

`ProbabilityVerification.py`: a server commits to the function that decides what
a box wins, draws inputs by a beacon and publishes values with proofs; a client
draws the same inputs and verifies.  `LootBoxOpening.py`: server and client go
down a chain of hashes, one element per opened box.  Both read the commitment
from one bulletin board.  Commitments are to polynomials (`KZG10.py`) or to a
program in Rust (`functional-commitment`).  `interactive_server.py` demonstrates
all that on a web page.  *Correct when* an honest sample verifies, what verifies
was drawn after the commitment and by a value both parties contributed to, and
no element of the chain decides two openings.

## 2. Modules

| module | models | kind |
|---|---|---|
| `RandomChain` | what a beacon promises: a chain of outputs | abstract specification |
| `Beacon` | `server.py`, `stage.py`: scheduler, `vdf_run` threads, POST contribute, GET stage | component |
| `BeaconChain` | `Beacon` implements `RandomChain` | refinement |
| `BeaconProofs` | theorems about `Beacon`; the refinement and what handlers answer | proofs |
| `Client` | `get_verified_randomness`; the server's answers are parameters | component |
| `AnyServer`, `ClientProofs` | `Client` against a server that answers any list, and theorems about it | composition, proofs |
| `HeadStart`, `HeadStartProofs` | `Beacon` with a contributor that runs `Client` against it, and a theorem about the two | composition, proofs |
| `LootBox`, `LootBoxProofs` | both loot-box programs over `RandomChain`, and theorems about them | composition, proofs |
| `ProverManager`, `ProverManagerProofs` | session N: event loop, provers, requests, stop, and theorems about them | component, proofs |
| `Squaring` | `repeated_square` | component |
| `OneWeso`, `TwoWeso`, `VdfClient` | sessions S and T, each extending `Squaring`, and `main` | components |
| `VdfClientProofs` | theorems about `VdfClient` | proofs |
| `FastSquaring` | one batch of squarings by two threads | component |
| `FastStorage` | storage threads and the window of stored forms | component |
| `FastProofs` | theorems about `FastSquaring` and `FastStorage` | proofs |
| `HwProof`, `HwClient` | the hardware timelord: proofs, and its event loop, which extends them | components |
| `HwProofs` | theorems about `HwClient` | proofs |
| `Merkle` | `acc/merkle_tree.py`, both accumulators | algorithms |
| `IntegerOps`, `ClassGroup`, `Nucomp`, `FormCodec` | forms: composition, squaring, reduction, encoding | algorithms |
| `LehmerGcd`, `AsmGcd` | the partial gcd, C++ and assembly | algorithms |
| `Avx512`, `FixedInteger` | numbers in limbs | algorithms |
| `ClassHash`, `Wesolowski`, `AggVdf` | hashing, provers and verifiers | algorithms |
| `Accumulators`, `ClassAccumulators` | accumulators by exponentiation | algorithms |
| `PolyCommit` | commitments to polynomials, and what a value wins | algorithms |
| `HwRegisters` | jobs, status, transfers, clock and voltage of the hardware | algorithms |
| `Algorithms` | the inputs and the properties of the algorithms | properties |
| `MCBeacon`, `MCHeadStart`, `MCVerify`, `MCProverManager`, `MCVdfClient` | instances | |

`MCBeacon`, `MCVerify` and `MCVdfClient` each check several parts, with a
variable that is chosen at the start and never changes: a behaviour is one of one
part only.  `HwClient` has constants that are numbers and sets of numbers, and is
run as it is (`MCHwClient*.cfg`).

### How the state and the actions correspond to the code

**Beacon.** Stages are functions of the stage's index; a Python attribute that
may not be assigned yet is a member of `attrs`.  Each thread has a program counter
and each statement that touches shared state is an action: `Tick`,
`StopContribution`, `Accumulate`, `TestPrev`, `WakeUp`, `HashChallenge`, ... for the
scheduler; the evaluation, the reading of the window and `VdfFinish` for
`vdf_run`; `CheckPhase`, `AppendData`, `ReadIndex`, `Reply` for a contribution.
`Preemptive` chooses between gevent's cooperative switches (`run_server.sh` starts
gunicorn with `-k gevent`) and switches anywhere.  Hash and VDF are constant
operators; a proof is the sequence of pairs it was made for.

**RandomChain.** Two partial functions, from stages to commitments and to outputs.
A stage commits when its accumulator is assigned and publishes when it is DONE;
at most two stages are in between.  `BeaconChain` maps the one to the other.

**Client.** One action per step of the method that talks to the server or loops.
The answer to the request for stages is a list of any length whose elements carry
the labels the server gave them.  As in the code, challenges, outputs and proofs
are taken by their places in the list, the contributed and the returned stage by
their labels (`First`), and neither length nor labels are tested.  An accumulator
is the sequence it commits to and a proof the pairs it proves: forging is out of
the model, wrong and inconsistent answers are in it.

**Merkle.** Hash values are terms, so equal hashes mean equal trees.  Sorting,
padding to a power of two, `bisect_left` and the parsing of positions are as in
the code.

**LootBox.** The beacon is the abstract chain, and a stage commits to who
contributed to it.  Loading the module, `setup` up to the file, its contribution,
`eval` and `verifyProbability` are one action each, because the beacon goes on
between them; `contribute` may raise, as it does while a stage is being closed.
`requestOpening` is one action.  A function has a name (`"common"`: the polynomial
of `common.py`; `"random"`: of the plots; `"paths"`: the files of the Rust program,
which are no point), a proof is the function and the place it was made for;
`PolyCommit` shows why that is so.

**ProverManager.** A unit is 2^16 iterations, `Ratio` stands for the factor 4
between segment sizes, request `r` asks for the middle (odd `r`) or the end (even `r`)
of unit `r \div 2`.  `done` leaves out the empty placeholders of
`done_segments`, `Size` accounts for them.  Every mutex region is one action; a
`wait` with a predicate is a test, optionally a gap (`SlowWait`) in which
a notification is missed, and a sleep.  `is_finished` and `is_fully_finished` are
two steps of a prover's thread with the event in between.

**Squaring, OneWeso, TwoWeso.** A stored form is the number of the iteration it
was stored for, so a prover that reads the wrong entry sees a wrong number.
A batch, the publication of `iterations` and each test at a checkpoint are separate
steps, and the two assignments of `IncreaseConstants` as well: in between,
`switch_index` has never been initialised and a position computed from it may be
any (`Positions`).  The two loops of polls and the joins are guards.

**FastSquaring.** A thread's program is a sequence of operations for each phase:
fence on a phase of the other's counter, compute some fields from others, test a
range, read or write the gcd's entries, flip the halves of `ab`, call the
listener.  A field's value is the squaring it belongs to, or wrong when it was
computed from fields of different ones.  A thread may give up at every test.

**FastStorage.** Time is counted in halves of a segment.  The plain array of flags
is modelled with a store buffer per thread: a store may be seen late.  The VDF
thread submits its checkpoints without waiting for anybody, as in the code.
`overtook` is a history variable: the segments of which a half was begun while a
thread had yet to store forms that belong a window or more before it.

**HwProof, HwClient.** A form is its distance from the first one, so that a value is
right when number and form agree.  The status, the queue of work, the slots of
auxiliary threads with their bits in the busy mask, requests, `proofs` with
reference counts and `done_proofs` are variables; each detached thread takes the
steps its mutexes separate.  `Torn` makes the unlocked erase of `done_proofs` two
steps.  A reading may lie between positions, be bad, or not move.

**Algorithms.** `input` is chosen once; each property compares what the code computes
with a definition: composition of forms by its congruences, Euclid's algorithm,
integers for limbs, `x^(2^T)` for a delay.  Word sizes are parameters and scaled
down with the constants that follow from them; points of a curve are logarithms.

*Smaller abstractions*: `FastSquaring.Listen` leaves out that the listener's `assign`
writes fields of the slave's phase 0 (`vdf_fast.h:933-943`) while the slave may be
at it, which computes the same numbers there from the same `a` and `b`; in `TwoWeso` `stop_vector` is a set of iterations, so the
index beyond its end (`vdf_client.cpp:293`) has no counterpart;
`HwProof.StartProofs` looks at the slots that are free now, the code at a copy of
the busy mask; `HwProof.CalcValue` writes into a function, the code may have to
extend a vector first; `HwClient.HandleProofs` leaves out the end of a connection
in the middle of a write.

## 3. Runs

| run | what it asks | states |
|---|---|---|
| `beacon` | Preemptive threads (4 stages, W = 3): are stages evaluated in order, chained, proved for their window, complete when DONE; does the server implement `RandomChain`? Under gevent (3 stages, two racing contributors and a reader): is every receipt honoured and does no read fail? | 1.5 million |
| `headstart` | Does the honest server satisfy the client, does the client return what was published, and does everybody get there? (4 stages, W = 2, liveness) | 60 thousand |
| `verify` | Four parts: the client against any answers; Merkle trees for all small data; the algorithms; the loot-box programs. | 290 thousand |
| `verify_bracket` | violation, see findings | |
| `manager_two` | The code's three proving threads, out-of-order finishes, a proof limited to one segment, slow waits; a session asks for two iterations of one segment or for one that must try again: announcements are covered, no wake-up is missed but by an overtaken request, what is sent follows from 0 and each segment of it has finished or is owed. | 4.1 million |
| `manager_live` | One proving thread with preemption, stop at any moment, deadlock checked: slot bound, segments conserved, requests served, stop completes. | 130 thousand |
| `manager_stop`, `manager_proofs` | violations, see findings | |
| `vdf_client` | Three parts. Sessions S and T with two requests and every interleaving: inputs of provers, bounds, who waits for ever. A batch by two threads: no conflict, the form matches the count. The fast storage, with a VDF thread that waits for nobody: until when the window holds what provers read, and every segment is announced. | 980 thousand |
| `hw_proofs` | Values, requests that displace queued ones, proofs: nothing is lost or twice, what is written is a chain. | 1.9 million |
| `hw_sessions` | Two sessions with stops, ends of file and an interrupt anywhere: proofs leave a slot for values, and end; the interrupt ends the program. | 26 thousand |
| `hw_done_race` | violation, see findings | |

Some properties are conjunctions of parts that are named in the modules:
`GeventAnswersHold` of the receipts and of the reads; `HonestServed` of what the
client accepts and returns; `SegmentsConserved` also bounds the threads;
`ProversReadRightForms` of both sessions; `WithinBounds` of the array and the
pool; `WaitsAnswered` of a session's waits; `ThreadsInStep` of the two threads'
fields and of the count; `SessionsEnd` of proofs and of the program;
`TreeWitnessesVerify` of three kinds of witnesses; `WitnessesVerify` of
accumulators, commitments and cards; `EncodingReadsBack` of forms and registers.

Three properties name what the code does not prevent, and claim all the rest:

- `VerifiedByPosition`: whatever list the server sends, a value is returned only when
  the output at every place from the contribution's stage to the wanted one is the
  VDF of a challenge made of the accumulator there and the output before.  The
  contribution and the value are those of the first elements labelled with their
  stages: verified ones if the labels are in place, which the client does not test.
- `WindowHoldsSegments`: all forms of a segment that waits for its prover or is being
  proved are in the window until a storage thread begins a half a window later,
  unless a storage thread lagged by a window when the segment's own half was
  begun.  The code prevents neither and warns (`vdf.h:644`).  Both are reached in
  the run.
- `NoMissedWakeup` excepts a request that another one of its segment has overtaken
  (`vdf.h:417`); this is reached in the run as well.

`WaitsAnswered` is the liveness of sessions S and T as an invariant: in a state in
which no thread can move, nothing is owed to the client.  Every thread of theirs
ends after finitely many steps but for its polls, so this is what can go wrong.

### Bounds and why they are enough

- *Beacon.* Four stages with W = 3 make the window slide off stage 0 and leave one
  complete window; three stages suffice for the handlers, which touch the last
  stage only.  `MaxData` lets both contributors append to one stage.  The
  scheduler rests after `MaxStages`; the last stage stays open.
- *HeadStart.* W = 2 with four stages gives one range and two ranges, the first
  one clamped at 0 or not.
- *Client and Merkle.* Outputs are numbers modulo 3 and accumulators hold one of
  two data, so that wrong outputs, wrong data and accidental agreement all
  occur.  Lists of the honest length with any contents, and lists from empty to
  longer than asked with labels that are missing, repeated or in other places: a
  wrongly labelled element inside or beyond the verified places may be returned.  Six items give a tree with padding and one position between two real
  leaves.
- *LootBox.* Two starts of the program let a second sample meet the first one's
  files; five stages and a lag of two let both contributions share a stage, or
  not, and the randomness be drawn.  Three openings exhaust the chain.
- *ProverManager.* Two segment sizes with three or four units contain a long segment
  that finishes before and after the short ones it covers.  In `manager_two` three
  threads let later segments of one length and the longer one finish before the
  first, so that a placeholder is really sent; `MaxBlobs = 1`, the code's 63,
  makes a request for two segments try again.  A session's requests are bounded by
  `MCOneSession`: two of one segment, or the one that tries again.
- *VdfClient.* Numbers are scaled down but keep the relations of the code's:
  batches smaller and larger than what is left to a checkpoint, a request on
  each side of the iteration where the step changes, segments below and above
  `LongSegment`, room in the array that is too small without the margin.
  `MaxProcesses = 1` lets the second request displace the first.
- *FastSquaring.* Two squarings and two entries of a gcd: every field of one squaring
  meets the same field of the one before and of the one after.
- *FastStorage.* Two lengths of segments, two workers (interchangeable, hence the
  symmetry), a window of two segments and six halves: the window is used again
  while provers read, by threads that are in time and by threads that lag.
- *Hardware.* An interval of two squarings, strides that skip none, one or three
  positions, requests on and between positions, segments split in two and in
  three, one fault, two or four auxiliary threads; two sessions where threads of
  the first may outlive it.
- *Algorithms.* Discriminants -1151 (41 forms, all pairs), -64951 and -65063 with
  words of eight bits, so that the approximations are too short for the numbers;
  a cyclic group of order 41, 12 squarings, primes above 2^k as in the code; gcd
  with words of seven bits, doubles of six, numbers of four limbs made from their
  quotients (small, large and mixed), four thresholds, builds with and without
  fused multiplication and with the table of inverses; vectors of three lanes of
  five bits under words of nine; fixed integers of up to three limbs of two bits;
  registers of four bytes of two bits, numbers in coefficients of four bits in
  five, transfers of four sizes, the device's addresses, the table of clocks for
  two post-dividers; a field of seven elements for commitments and 1009 values
  for cards.

`CHECK_DEADLOCK FALSE` appears where a behaviour ends: the bound on stages in
`headstart`, the parts of `verify`, the end of the program in the runs of the
hardware timelord, and the violating runs of the manager.

### Fairness

- *Beacon and HeadStart*: strong fairness of the scheduler, of each `vdf_run`
  thread and of each started request, because under gevent a thread that is
  ready may have to wait while another keeps the processor and becomes
  enabled again and again; gevent's loop serves all of them.  Weak fairness of the
  client, which only polls and computes.  Nobody is obliged to contribute.
- *ProverManager*: weak fairness of each operating-system thread.  Receiving a
  request and the stop signal are not fair.
- *HwClient*: weak fairness of the event loop, of each auxiliary thread and of the
  decrement it does last.  Requests, faults, ends of file and the interrupt
  are not fair.


## 4. Proofs

Every theorem holds for every value of the constants that satisfies the module's
`ASSUME`; further hypotheses are named below.  Each was model-checked first.

### HeadStart

`BeaconProofs`, for every `MaxStages`, `W > 1`, any clients, readers and values,
any hash and VDF functions, both schedulings (`BeaconAssumption`): `TypeCorrect`,
`InOrder` (no challenge is fixed before all earlier outputs are published),
`Chained` (challenges and outputs), `WindowsProved` (a DONE stage's proof covers
exactly its window) and `ThreadsSurvive` (no exception in scheduler or `vdf_run`).

None of these is inductive: they say nothing of the moments between two
assignments.  `IInv` adds where each thread is and what it has assigned
(`Control`), that `prev_stages` is the window (`PrevIsWindow`) and the proofs
(`ProofsOfWindows`).  The central case is the start of a `vdf_run` thread: the
scheduler is past its wait, so all earlier stages are DONE, and from then on DONE
is never left.  `PrevStagesType` proves the slice `[-W + 1:]` right for `W > 1`;
for `W = 1` Python's slice would return all stages, hence the assumption.

And on what handlers tell their clients:

- `Refinement`: `Beacon` implements `RandomChain`.  From `IInv`, the accumulated
  stages are all or all but the last, and the published ones a prefix of them
  (`AccumulatedStages`, `PublishedStages`); a step of the scheduler commits the
  next stage, the end of a `vdf_run` publishes the next output, and every other
  step is a stutter.
- `AnswersComplete`: an answer that says DONE has all its fields.  `AnswersBuilt`
  says how far each handler's answer is built; it stays true because DONE and the
  attributes of a DONE stage never go away (`DoneStays`).
- `CooperativeAnswers`: under gevent a receipt is honoured and no read fails.
  `Cooperative` adds that a greenlet that serves a contribution is alone until
  it answers (`CallsAtomic`), and so its stage is the last one, open, and ends with
  its datum (`CallsAtLast`).  With preemptive threads this is false.

`ClientProofs`, for every window, contribution, stage and server, and whatever list
it answers with: `Tiling` (the ranges are consecutive windows from the contribution,
or before it, to the wanted stage) and `Verified` (`VerifiedByPosition`: a list that
leads to a value has, at every place from the contribution's stage to the wanted
one, an output that follows from the accumulator there and the output before).
`ClientInv` strengthens them with what the loop has built so far (`RangesSoFar`),
which places the list fills (`ListPlaced`) and what has been verified so far
(`VerifiedSoFar`).

`HeadStartProofs`, under `~Preemptive`: `HonestServer`, the safety half of "an
honest beacon serves its clients": the client never raises, and returns the
published output.  The invariant `SystemInv` joins both sides: the contribution is
where the receipt said (`Called`, from `Cooperative`), the wanted stage is DONE
(`Polled`), the fetched stages are those published (`Fetched`), and the ranges tile
(`Loop`, by the lemma of `ClientProofs`).  It is kept by the server's steps because
what is published is final (`DoneFixed`), and a range is accepted because its
start is the start of the window of the proof of its last stage
(`RangeProved`, from `WindowsProved` and `Chained` in their inductive form).

### The VDF client

`ProverManagerProofs`, for every number of proving threads and of bucket sizes
(`Ratio`, `Buckets`, `MaxUnits`) and any requests:

- `TypeCorrect`; `SegmentsAreConserved`: each segment that was cut is waiting, being
  proved, paused or done, in exactly one place.  `Inv` adds the counters' values
  between two passes (`Counters`) and where each segment is for each place of the
  event loop (`Conserved`).
- `AnnouncedIsCovered`: `max_proving_iteration` is covered by finished segments,
  whatever order provers finish in.
- `NobodySleepsProvable` for `proof_cv`, for every set of requests; `WakeupsReach`
  (`NoMissedWakeup`) for every set of requests too, those of one segment included.
  `WaitsForVdf` says that a request that waits is in the set the event loop looks at,
  or another one of its segment is past the wait; `OvertakenStays` that it never
  comes back to it.
- `SentProofsFollow` (`ProofsFollow`), for every number of proving threads: what is
  sent has at most `MaxBlobs` segments, they follow one another from 0 to the last
  checkpoint before the iteration, and each has finished or is still pending or
  with a prover.  `PlaceIsSegment` says what an index of `done_segments` stands for,
  `TakeChains` what `Prove` takes for one bucket, `PlaceIsOwed` that a placeholder's
  segment was not lost.  That all of them have finished, `ProofsComplete`, is false
  for the code's three threads (finding 3) and is not claimed.

`VdfClientProofs`, for every batch size, interval between checkpoints, pair of steps,
limits and whatever iterations the client asks for:

- `TypeCorrect`, and with it that no index leaves the arrays that are modelled.
- `ReadRightForms` (`ProversReadRightForms`), under `BlocksOnGrid`: a block that begins
  beyond `kSwitchIters` begins at a multiple of the large step.  `SwitchLateEnough`
  proves that from `9 * LongSegment <= kSwitchIters` (in the code 9 * 10^7 and
  91 * 10^6): each of a request's three segments is a ninth of it or more
  (`SegmentsAre`).
- `StaysWithinBounds` (`WithinBounds`), under `Room`: the array has room for the forms
  stored densely after `kSwitchIters` was passed unnoticed.  Both limits are only
  tested at checkpoints, so each can be passed by an interval and a batch (`Paced`,
  `PacedKept`).  The code's numbers (steps 10 and 100, interval 32768, batch 10000,
  limits 91 000 000 and 799 500 000) need 16 188 728 of the 16 190 000 entries.

Neither property is inductive.  `IInv` says who has started whom (`Sessions`), what
lies in each array (`OneStored`, `TwoStored`: the forms up to the switch at their
small-step places, those after it at the large-step ones, nothing beyond the last),
how `kl`, `switch_iters` and `switch_index` agree, the moment between their
assignments included (`Steps`), and what each thread knows of the squarer's progress
since its wait (`OneReady`, `TwoReady`).  The central lemma is `StoreIs`: a batch
changes exactly the entries of the multiples of the step in it.  From it a form that
was stored stays at its place (`DenseStored`, `SparseStored`), and `GetPosition`
finds it (`FormAt`) unless the switch is half done, when only its very iteration is
not found; a block lies a step or more before that (`BlockInSegment`).

`FastProofs`, of `FastSquaring`, for every number of squarings, entries of a gcd and
failures, with one thread or two: `StaysInStep` (`ThreadsInStep`).  The counters are
put on one scale, `Time(i, p)` for phase `p` of squaring `i`.  `FastInv` says where a
thread is and what its fences have seen (`Located`), how far its counter has come
(`Clock`), and which version each field has: told from its owner's place while it
works (`Data`, `NextForm`), and from the counters alone, as the other thread needs it
and as it stays when the owner has given up (`Ready`: version `i` is there once the
owner's counter says so; `Free`: it is replaced only when the other one is past it).
Of the entries it says that those published are of one squaring up to the exit flag
(`Published`, `Begun`) and that a reader has taken those (`Taken`).  What is particular
to the phases is in two tables, the stage that writes each field (`StageOf`) and what
the fences before a stage have seen (`Seen`); `Operations` proves of each of the 35
operations that it reads, writes and waits in their order.  With that
every action is a `StepOf`, and one step of that kind keeps the invariant
(`StepKeeps`).

Of `FastStorage`, for every number of storage threads, sizes and length of the
window, and a VDF thread that waits for nobody: `WindowKept` (`WindowHoldsSegments`)
and `SegmentsAreAnnounced`.  `StorageInv` says that a checkpoint is pending, held by one
worker or flagged (`OnePlace`), that halves are begun in their order (`BegunInOrder`),
that a thread a window behind a half that was begun is in the history (`Lagging`),
that forms that were written stay until a half a window later is begun, unless
their segment is in the history (`Kept`), and who will set the event
(`Announced`).  The heart is `EntryFree`: two halves that share an entry are a window
apart, so the one that overwrites the other was begun later, or lagged.

Bucket sizes, the extent of `Gather` and the like are defined by recursion.  What is
proved of them for every size is proved by least counterexample: `LeastNat` from
the well-foundedness of `<`, then the existence of a function that is defined
downwards (`Downward`), and what each step of its definition preserves
(`DownwardValues`).

### The hardware timelord

`HwProofs`, for every interval, target, number of auxiliary threads, thresholds,
readings and faults: `FormsComplete` (values that are valid are right and no
position is forgotten) and `SlotLeft` (`n_proof_threads` counts the threads that
prove, and they never take every slot).  `Inv` says for every position whether it is
valid, queued or being computed (`NothingForgotten`), that forms and distances
agree everywhere (`FormsRight`), what a session starts with (`Session`), and what
the counter counts (`Counted`).

### The loot boxes

`LootBoxProofs`: `OpenedInStep`, for every length of the chain; and
`VerifiedSamplesAreFair`, for every lag and number of samples, if there is a set
of outputs on which hash and delay function never collide (`NoCollisions`:
ideal functions on an infinite set satisfy it).  `Inv` says which stages the two
contributions are in, for each place of the program (`Contributions`), and what a
report rests on (`Reported`).  The hypothesis is needed: an honest verdict compares
samples drawn by outputs, and equal outputs would hide that two stages were mixed.

### What is only model-checked, and why

- Liveness (`RandomnessDelivered`, `SessionsEnd`, requests and stop of the manager):
  out of the prover's reach.
- The algorithms: what a definition that recurses over its data computes for every
  input needs induction over data.  (The least-counterexample argument above is
  for functions of a bucket's index, where one step is one line.)
- `RequestsConserved` and `SentTiles` of the hardware timelord: their inductive form
  counts the requests that lead through each shared segment, in queues that are
  sorted, filtered and folded (`SortSeq`, `SelectSeq`, `FoldSet`).  What those
  library operators return is known only by induction over the data, and two
  segments that end at the same iteration have no place in `SortSeq`'s definition.
- `WaitsAnswered` of the sessions S and T, which is stated with `ENABLED`.
- `GeventAnswersHold` is an instance in `MCBeacon`; its theorem is
  `CooperativeAnswers`.

## 5. Findings

Each is a violation run whose counterexample shows the code's behaviour.

1. `verify_bracket`: `merkle_tree.py:177` bisects the padded data, which is not
   sorted, and the neighbours named in the witness are not those of the value,
   against the comments on the lines.
2. `manager_stop`: `vdf.h:387-394` notifies without the mutexes; a request between
   test and sleep is never woken and the session's join hangs.
3. `manager_proofs`: `vdf.h:466` takes an empty placeholder into a proof.
4. `hw_done_race`: `hw_proof.cpp:768` erases from `done_proofs` without the mutex
   under which a proof thread appends at line 714, so that the vector can hold
   a proof that was sent, against its comment "requested and not sent"
   (`hw_proof.hpp:73`).

Seen while reading, without a run of their own.  In HeadStart:

- `client.py:113` gives ranges [76, 85], [85, 94], [94, 103] as an example; the code
  computes [74, 83], [84, 93], [94, 103] (`RangesTile` states what it does).
- `client.py:129` and `:153` choose the contributed and the returned stage by the
  label an element carries, `:139-151` verify by place, and nothing compares the two
  or tests the length of the list: a value is verified only as far as the server's
  labels are those of the places (`VerifiedByPosition` says which value is returned).
- `client.py:121`: for a stage before that of the contribution no range is built and
  the first is indexed all the same.
- `merkle_tree.py:205` parses an empty string for a tree of one leaf and raises.
- Under preemptive threads, `server.py:49-50` and `stage.py:65-68` can hand out wrong
  receipts; `GeventAnswersHold` shows that gevent prevents it.
- `H_G` tests the carry against its comment "Increment sprout by 1"; its candidates
  still do not repeat.  `H_GFast` does not end for a prime of which the
  discriminant is no residue.  `batch_witgen` does not end for an empty list.

In the VDF client:

- `vdf.h:258`: the wait in session S does not look at the stop signal; a prover
  interrupted by it leaves the session hanging (`WaitsAnswered` excludes exactly
  this).
- `vdf.h:497`: with the stop signal before the loop a proof is built from no
  segments; the result is dropped, but an index of -1 is read when there is no
  partial segment either.
- `vdf.h:417`: two requests in one segment of 2^16 iterations share the element of
  `pending_iters_last_sg`, a set; the first one that is served erases it, and the
  event loop need not wake the second again (`Overtaken` in `NoMissedWakeup` names the
  case, and `WakeupsReach` proves that it is the only one).
- `vdf.h:475`: a request whose segments below a finished longer one exceed the limit
  tries again every minute; in `manager_two` such a request never ends.
- `vdf_client.cpp:286`: `kMaxProcessesAllowed - 500000` was meant to be
  `kMaxItersAllowed`; as an unsigned number it never excludes anything, and an
  iteration beyond the squaring thread's limit waits until the stop signal.
- `vdf_client.cpp:293`: the 101st thread's flag is outside `stop_vector[100]`.
- `vdf_client.cpp:117`, `provers.h:57`: a detached thread may outlive the prover and
  the callback it refers to.
- `vdf.h:190-192` submits checkpoints to the storage threads unconditionally, and
  `:644` only warns that the proofs may be corrupted when the VDF is far ahead: a
  prover or a storage thread that lags by a window reads or writes forms of another
  segment (`LeftBehind` and `overtook` in `WindowHoldsSegments`).
- `callback.h:120-132`: `switch_index` may be read before it is assigned, when a
  segment ends exactly where the step changes (`ProverFormsRight` names the case).

In the hardware timelord:

- A proof thread of an earlier session that ends late decrements the new session's
  `n_proof_threads`; `process_work` is not called again after the last value;
  `init_done` is read before it is assigned.
- Deleting the emulator's states while detached threads run; an engine that is
  enabled after a pause does not restart a thread that has ended.
- `hw_vdf_client.cpp:405` reads the entry after the last of the table; the index can
  underflow below 0; a failed `SetPLLFrequency` is ignored; 1178 of the 8003
  steps of the table do not change the frequency; an adjustment enables the clock
  of an engine that completed in the same pass.
- `SetBoardVoltage` computes a code that wraps outside 0.7 to 1.0 V; the copy of
  registers clears `offset` bytes rather than the remainder.

In the algorithms:

- `Reducer` may leave (1, -1, c), which `vdf_new.h:146` does not call reduced.
- `prover_slow.h:29` reads the first entry of an empty vector when the block is 0;
  exponentiation drops the sign of b at one place.
- `aggvdf.h:62` and `:141`: the order in the comments is not that of the code.
- `gcd_64` in C++ and in assembly differ at the edge -2^`data_size`; the assembly
  version of `gcd_unsigned` reports an error where the heads of b and of the
  threshold are equal and C++ goes on; the asserts of `gcd_128.h` under
  `TEST_ASM` cannot hold in AVX2 builds.
- `gpu_integer.h:152`: x and -x compare as equal, since the sign counts only where
  the magnitudes differ; `mad_8x8` (`:353`), which nothing calls, loses its top limb.

In the loot-box programs:

- `ProbabilityVerification.py:59` draws the client's contribution at import, while the
  Rust variant shares the server's: an honest sample may be rejected
  (`SampleFair` states exactly when).
- `LootBoxOpening`: a request that failed leaves the client behind for good; after the
  last element of the chain the server answers `None`; the chain starts from a
  constant and the server never publishes its commitment.
- `FunctionalCommitment(degree)` makes `degree` coefficients but asks for `degree + 1`
  when they are given; dividing a constant leaves an empty sum, which raises.
- `post_process`: y / m may round to 1, which names card 100.
- `verifyProbability` returns `True` whatever the number of wins; the README's
  `python ProbabilityVerification.py` lacks the `type` that is now required.

## 6. What is not modelled, and why

- *Data and vendored code*: the table of clocks (8018 lines; `HwRegisters` has the
  comprehension that its entries follow), `longlong.h`, catch, the USB library.
- *Machine level*: register allocation and instruction encoding of the generated
  assembly (`asm_vm`, `asm_base`); its algorithms are in `AsmGcd` and `Avx512`.
  Numbers of a thousand bits are replaced by small ones with small words.
- *Floating point of `ApproximateParameters`* and the division of fixed integers.
- *Pure input and output*: sockets, serialisation, logging, the marshalling of the
  bindings, opening of devices, I2C and alarms, options.  Exceptions of the socket
  layer are left out with it.
- *The emulator's threads*: `HwClient` takes from the device only the values it
  reports, with faults.
- *Interactive pages and statistics* of the loot-box demonstration; the *Rust
  workspace*, of which `LootBox` uses only what its callers rely on.
- *Tests, benchmarks, build files and containers*: not part of the running system.

## 7. Plan

What is left, in the order of what it is worth.

1. `HwClient`: `RequestsConserved` and `SentTiles`, from an invariant on who refers to
   which segment, once the queues are stated without the library's sorting.
2. The emulator's threads (`emu_runner.cpp`) as a module that `HwClient` composes with.
