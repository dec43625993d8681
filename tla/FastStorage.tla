----------------------------- MODULE FastStorage ----------------------------
(***************************************************************************)
(* The fast storage of a machine with many processors (fast_storage.h and  *)
(* FastAlgorithmCallback of callback.h).  The VDF thread only submits a    *)
(* checkpoint every 2^15 iterations; storage threads redo the squarings in *)
(* between and store the intermediate forms, in a window of a few segments *)
(* for each segment length.  When both halves of a segment of 2^16 are     *)
(* stored the event loop of the ProverManager is woken and starts provers, *)
(* which read the window while the storage threads go on.                  *)
(*                                                                         *)
(* Time is counted in halves of 2^15 iterations; a half stands for all the *)
(* forms that are stored while it is computed.  intermediates_stored is a  *)
(* plain array: a store may stay in its processor's store buffer while the *)
(* same thread goes on to read.                                            *)
(***************************************************************************)
EXTENDS Integers, Sequences, FiniteSets, FiniteSetsExt

CONSTANTS
  Workers,    \* storage_threads
  Lengths,    \* the segment lengths in halves, the first of them 2
  Window,     \* kWindowSize
  MaxHalves   \* bound: the halves that are counted

ASSUME StorageAssumption ==
  /\ Window \in Nat \ {0} /\ MaxHalves \in Nat
  /\ Lengths \in Seq(Nat \ {0}) /\ Len(Lengths) > 0 /\ Lengths[1] = 2

Buckets == 1 .. Len(Lengths)
Halves == 0 .. MaxHalves - 1
Segment(i, h) == h \div Lengths[i]
HalvesOf(i, s) == {h \in 0 .. MaxHalves : Segment(i, h) = s}

VARIABLES
  submitted,             \* how many checkpoints the VDF thread has submitted
  pending_intermediates, \* the halves to compute
  working,               \* working[t]: the half t computes, or None
  bucket,                \* bucket[t]: the bucket it stores next
  window,                \* window[i][e]: the half whose forms the entries
                         \* e of bucket i hold, e = position within it
  intermediates_stored,  \* the halves whose flag is set
  buffered,              \* buffered[t]: flags only t itself sees yet
  raced,                 \* history: segments whose two flags were tested at once
  overtook,              \* history: the segments <<i, s>> a half of which was
                         \* taken while a thread had yet to store one a window
                         \* or more before it
  new_event,             \* the event loop's wake-up flag
  intermediates_iter,    \* how far the event loop found all segments stored
  proving,               \* the segments <<i, s>> pending or being proved
  storage_stopped,       \* FastStorage's stopped
  gone                   \* the storage threads that have ended

flagVars == <<intermediates_stored, buffered, raced>>
workerVars == <<pending_intermediates, working, bucket, window, overtook, flagVars>>
loopVars == <<new_event, intermediates_iter, proving>>
storageVars == <<submitted, workerVars, loopVars, storage_stopped, gone>>

None == -1
WindowEntries(i) == 0 .. Window * Lengths[i] - 1

StorageInit ==
  /\ submitted = 0 /\ pending_intermediates = {}
  /\ working = [t \in Workers |-> None] /\ bucket = [t \in Workers |-> 1]
  /\ window = [i \in Buckets |-> [e \in WindowEntries(i) |-> None]]
  /\ intermediates_stored = {} /\ buffered = [t \in Workers |-> {}] /\ raced = {}
  /\ overtook = {}
  /\ new_event = FALSE /\ intermediates_iter = 0 /\ proving = {}
  /\ storage_stopped = FALSE /\ gone = {}

-----------------------------------------------------------------------------
\* repeated_square: SubmitCheckpoint, however far the storage threads and the
\* provers have come.
SubmitCheckpoint ==
  /\ ~storage_stopped /\ submitted < MaxHalves
  /\ pending_intermediates' = pending_intermediates \cup {submitted}
  /\ submitted' = submitted + 1
  /\ UNCHANGED <<working, bucket, window, overtook, flagVars, loopVars, storage_stopped, gone>>

\* A thread has yet to store forms of bucket i that belong a window or more
\* before those of half h.
Overtakes(i, h) ==
  \E u \in Workers : /\ working[u] # None /\ bucket[u] <= i
                     /\ Segment(i, working[u]) + Window <= Segment(i, h)

\* CalculateIntermediatesThread: the first of the pending ones.
TakePending(t) ==
  /\ t \notin gone /\ working[t] = None /\ ~storage_stopped
  /\ pending_intermediates # {}
  /\ working' = [working EXCEPT ![t] = Min(pending_intermediates)]
  /\ bucket' = [bucket EXCEPT ![t] = 1]
  /\ overtook' = overtook \cup {<<i, Segment(i, Min(pending_intermediates))>> :
                                  i \in {j \in Buckets : Overtakes(j, Min(pending_intermediates))}}
  /\ pending_intermediates' = pending_intermediates \ {Min(pending_intermediates)}
  /\ UNCHANGED <<submitted, window, flagVars, loopVars, storage_stopped, gone>>

\* Mutant of GetPosition: the window is one segment too short.
GetPositionShort(i, h) == h % ((Window - 1) * Lengths[i])
\* GetPosition, for all the forms of a half.
GetPosition(i, h) == h % (Window * Lengths[i])

\* CalculateIntermediatesInner stores the forms of its half for each bucket;
\* a stop is noticed at the next form to be stored.
StoreForms(t) ==
  /\ working[t] # None /\ bucket[t] <= Len(Lengths)
  /\ IF storage_stopped
     THEN working' = [working EXCEPT ![t] = None] /\ UNCHANGED <<bucket, window>>
     ELSE /\ window' = [window EXCEPT ![bucket[t]][GetPosition(bucket[t], working[t])] = working[t]]
          /\ bucket' = [bucket EXCEPT ![t] = @ + 1]
          /\ UNCHANGED working
  /\ UNCHANGED <<submitted, pending_intermediates, overtook, flagVars, loopVars, storage_stopped, gone>>

-----------------------------------------------------------------------------
(* AddIntermediates.                                                       *)

\* intermediates_stored[2 * bucket + subbucket] = true
SetFlag(t) ==
  /\ working[t] # None /\ bucket[t] = Len(Lengths) + 1
  /\ buffered' = [buffered EXCEPT ![t] = @ \cup {working[t]}]
  /\ bucket' = [bucket EXCEPT ![t] = @ + 1]
  /\ UNCHANGED <<submitted, pending_intermediates, working, window, overtook, intermediates_stored, raced,
                 loopVars, storage_stopped, gone>>

Drained(t) == /\ intermediates_stored' = intermediates_stored \cup buffered[t]
              /\ buffered' = [buffered EXCEPT ![t] = {}]

Drain(t) ==
  /\ buffered[t] # {} /\ Drained(t)
  /\ UNCHANGED <<submitted, pending_intermediates, working, bucket, window, overtook, raced,
                 loopVars, storage_stopped, gone>>

BothHalves(h) == HalvesOf(1, Segment(1, h))

\* Mutant of HasEvent: only the second half announces the segment.
HasEventSecond(t) == /\ working[t] % 2 = 1
                     /\ BothHalves(working[t]) \subseteq intermediates_stored \cup buffered[t]
HasEvent(t) == BothHalves(working[t]) \subseteq intermediates_stored \cup buffered[t]

\* Both flags are tested; the mutex of the event drains the store buffer.
TestFlags(t) ==
  /\ working[t] # None /\ bucket[t] = Len(Lengths) + 2
  /\ IF HasEvent(t) THEN new_event' = TRUE /\ Drained(t) ELSE UNCHANGED <<new_event, intermediates_stored, buffered>>
  /\ raced' = raced \cup {s \in {Segment(1, working[t])} :
                            \E u \in Workers \ {t} : buffered[u] \cap BothHalves(working[t]) # {}}
  /\ working' = [working EXCEPT ![t] = None]
  /\ UNCHANGED <<submitted, pending_intermediates, bucket, window, overtook, intermediates_iter, proving,
                 storage_stopped, gone>>

-----------------------------------------------------------------------------
(* The event loop and the provers.                                         *)

\* Mutant of SegmentFinished: one of the two flags.
SegmentFinishedHalf(h) == h + 1 \in intermediates_stored
SegmentFinished(h) == {h, h + 1} \subseteq intermediates_stored

\* GetFinishedSegment
FinishedUpTo ==
  CHOOSE h \in {n \in 0 .. MaxHalves : n % 2 = 0 /\ n >= intermediates_iter} :
    /\ \A n \in intermediates_iter .. h - 2 : n % 2 = 0 => SegmentFinished(n)
    /\ ~SegmentFinished(h)

\* RunEventLoop wakes, and new segments become pending proofs.
WakeLoop ==
  /\ new_event
  /\ new_event' = FALSE
  /\ intermediates_iter' = FinishedUpTo
  /\ proving' = proving \cup
       {g \in UNION {{i} \X (0 .. MaxHalves) : i \in Buckets} :
          LET end == (g[2] + 1) * Lengths[g[1]]
          IN  intermediates_iter < end /\ end <= FinishedUpTo}
  /\ UNCHANGED <<submitted, workerVars, storage_stopped, gone>>

FinishProof(g) ==
  /\ g \in proving
  /\ proving' = proving \ {g}
  /\ UNCHANGED <<submitted, workerVars, new_event, intermediates_iter, storage_stopped, gone>>

\* The destructor sets stopped under the mutex, so that no thread that waits
\* misses it, and joins the threads.
Stop ==
  /\ ~storage_stopped /\ storage_stopped' = TRUE
  /\ UNCHANGED <<submitted, workerVars, loopVars, gone>>

EndThread(t) ==
  /\ t \notin gone /\ working[t] = None /\ storage_stopped
  /\ gone' = gone \cup {t}
  /\ UNCHANGED <<submitted, workerVars, loopVars, storage_stopped>>

Worker(t) == \/ TakePending(t) \/ StoreForms(t) \/ SetFlag(t) \/ Drain(t) \/ TestFlags(t) \/ EndThread(t)

StorageNext ==
  \/ SubmitCheckpoint \/ WakeLoop \/ Stop
  \/ \E t \in Workers : Worker(t)
  \/ \E g \in proving : FinishProof(g)
  \/ (gone = Workers \/ submitted = MaxHalves) /\ UNCHANGED storageVars

StorageSpec == StorageInit /\ [][StorageNext]_storageVars

-----------------------------------------------------------------------------
\* A storage thread has begun a half a window or more after the segment, whose
\* place in the window it takes.
BegunHalves == (0 .. submitted - 1) \ pending_intermediates
LeftBehind(g) == \E h \in BegunHalves : Segment(g[1], h) - g[2] >= Window

\* What the window holds, which the VDF thread never waits for.  A segment that
\* waits for its prover or is being proved has all its forms in the window, in
\* whatever order six threads store the halves, until a storage thread begins a
\* half a window later; unless a storage thread lagged by a window when the
\* segment's own half was begun.  The code avoids neither: kWindowSize assumes
\* that provers are not left behind (callback.h), and the event loop warns of
\* "possible proof corruption" when the pending segments fill the window.
WindowHoldsSegments ==
  \A g \in proving :
    \/ LeftBehind(g)
    \/ g \in overtook
    \/ \A h \in HalvesOf(g[1], g[2]) : window[g[1]][GetPosition(g[1], h)] = h

\* Every finished segment is announced to the event loop, whichever thread
\* stores its second half last; only when two threads test the flags while the
\* other's is still in its store buffer may a segment wait for the next event.
SegmentsAnnounced ==
  (~new_event /\ \A t \in Workers : working[t] = None /\ buffered[t] = {}) =>
     (SegmentFinished(intermediates_iter) => Segment(1, intermediates_iter) \in raced)

=============================================================================
