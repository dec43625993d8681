------------------------------ MODULE HwProof ------------------------------
(* The proofs of the hardware timelord (hw_proof.cpp): one vdf_state, the    *)
(* main thread that feeds it with the engine's values and detached auxiliary *)
(* threads that compute the values in between and the proofs.                *)
(*                                                                           *)
(* A form is the number of squarings it is away from the initial form, so a  *)
(* value [iters, form] is right iff both agree.  Indices start at 1, and     *)
(* None (HW_VDF_PROOF_NONE) is 0.                                            *)
EXTENDS Integers, Sequences, FiniteSets, FiniteSetsExt, SequencesExt, TLC

CONSTANTS
  Interval,      \* HW_VDF_VALUE_INTERVAL
  Target,        \* target_iters
  ChkpThres,     \* g_chkp_thres
  SkipThres,     \* g_skip_thres
  MaxSegments,   \* max_chkp_segments
  MaxAux,        \* max_aux_threads
  ProofOption,   \* --proof-threads, 0 when not given
  Torn           \* may a thread append to done_proofs inside the erase of the main thread?

ASSUME HwAssumption ==
  /\ Interval \in Nat \ {0} /\ Target \in Nat \ {0} /\ Target % Interval = 0
  /\ ChkpThres \in Nat /\ ChkpThres >= Interval /\ SkipThres \in Nat /\ MaxSegments \in Nat
  /\ MaxAux \in 2 .. 64 /\ ProofOption \in 0 .. MaxAux - 1
  /\ Torn \in BOOLEAN

None == 0
Parallel == 2                       \* PARALLEL_PROVER_N_THREADS
Positions == 0 .. Target \div Interval
MaxProof == IF ProofOption # 0 THEN ProofOption ELSE MaxAux - (MaxAux + 7) \div 8

VARIABLES
  pc,            \* where the main thread is
  last, offset, skipped, completed, stopping,
  forms,         \* values and valid_values: position -> form, -1 while it is not valid
  wq,            \* work no thread has taken
  slots,         \* the auxiliary threads; a slot is busy iff it is not Idle
  nProof,        \* n_proof_threads, eight bits
  owed,          \* threads that gave their slot back and have not decremented nProof
  late,          \* the session began with such threads of the one before
  req,           \* req_proofs
  proofs, queued, done

requestVars == <<req, proofs, queued>>
valueVars == <<last, offset, skipped, completed>>
threadVars == <<forms, slots, nProof, owed>>
proofVars == <<pc, valueVars, stopping, threadVars, wq, late, requestVars, done>>

Idle == [kind |-> "idle"]
Erased == [iters |-> -1, seg |-> -1, prev |-> None, ref |-> -1,
           isReq |-> TRUE, started |-> TRUE, finished |-> TRUE, x |-> -1, y |-> -1]
Alive(p) == p # Erased
Free == {i \in 1 .. MaxAux : slots[i] = Idle}
Proving == {i \in 1 .. MaxAux : slots[i].kind = "proof"}
FreeBefore(i) == Cardinality({j \in Free : j < i})
Valid(pos) == forms[pos] # -1

InitialForms == [p \in Positions |-> IF p = 0 THEN 0 ELSE -1]

\* The state before the first challenge, and that after clear_vdf_state.
Cleared ==
  /\ last = [iters |-> 0, form |-> 0] /\ offset = 0 /\ skipped = 0
  /\ completed = FALSE /\ stopping = FALSE
  /\ forms = InitialForms /\ wq = <<>> /\ slots = [i \in 1 .. MaxAux |-> Idle]
  /\ req = <<>> /\ proofs = <<>> /\ queued = <<>> /\ done = <<>>

ProofInit == Cleared /\ nProof = 0 /\ owed = 0 /\ late = FALSE /\ pc = "conn"

-----------------------------------------------------------------------------
(* Requests and the queue of proofs.                                         *)

Before(p, a, b) == p[a].iters < p[b].iters

\* hw_request_proof
InsertRequest(rs, r) == SortSeq(Append(rs, r), <)

\* The proof i and those it continues, back to one that starts at 0.
ChainOf(p) == LET c[i \in 0 .. Len(p)] == IF i = None THEN {} ELSE {i} \cup c[p[i].prev] IN c

\* The same, up to a proof some thread has already begun.
WaitingChainOf(p) ==
  LET c[i \in 0 .. Len(p)] == IF i = None THEN {} ELSE IF p[i].started THEN {} ELSE {i} \cup c[p[i].prev]
  IN  c

\* hw_proof_dec_ref: gives up the proofs of the set gone and what only they needed.
DecRef(q, gone) ==
  LET chain == WaitingChainOf(q.proofs)
      ref(i) == q.proofs[i].ref - Cardinality({g \in gone : i \in chain[g]})
      dead == {i \in UNION {chain[g] : g \in gone} : ref(i) = 0}
      size == Max({0} \cup (DOMAIN q.proofs \ dead))
  IN  [q EXCEPT !.proofs = [i \in 1 .. size |->
                              IF i \in dead THEN Erased
                              ELSE [q.proofs[i] EXCEPT !.ref = IF Alive(q.proofs[i]) THEN ref(i) ELSE @]],
                !.queued = SelectSeq(@, LAMBDA i : i \notin dead)]

\* A smaller request sends the queued requested proofs behind it back.
Displaced(q, r) == {i \in ToSet(q.queued) : q.proofs[i].isReq /\ q.proofs[i].iters >= r}
Displace(q, r) ==
  LET gone == Displaced(q, r)
  IN  IF q.queued = <<>> \/ r >= q.proofs[Last(q.queued)].iters THEN q
      ELSE DecRef([q EXCEPT !.req = SortSeq(@ \o [k \in 1 .. Cardinality(gone) |->
                                        q.proofs[SetToSortSeq(gone, <)[k]].iters], <)], gone)

\* The latest queued checkpoint the request can continue.
BaseOf(q, r) ==
  LET at == {k \in DOMAIN q.queued : LET p == q.proofs[q.queued[k]] IN
               ~p.isReq /\ p.iters <= r
               /\ Cardinality(ChainOf(q.proofs)[q.queued[k]]) <= MaxSegments}
  IN  IF at = {} THEN None ELSE q.queued[Max(at)]

Rounded(n) == (n \div Interval) * Interval

\* The lengths of the segments: one; 75% and 25%; or 69%, 23% and 8%.
SplitIters(n) ==
  LET most == (n * 3) \div 4
      first == Rounded((n * 69) \div 100)
      second == Rounded((n * 92) \div 100 - first)
  IN  IF n <= ChkpThres THEN <<n>>
      ELSE IF n - most <= ChkpThres THEN <<Rounded(most), n - Rounded(most)>>
      ELSE <<first, second, n - first - second>>

\* hw_queue_proof for each segment; the last one is the request's.
QueueProofs(q, base, lens) ==
  LET n == Len(q.proofs)
      start == IF base = None THEN 0 ELSE q.proofs[base].iters
      new(k) == [iters |-> start + FoldLeft(+, 0, SubSeq(lens, 1, k)), seg |-> lens[k],
                 prev |-> IF k = 1 THEN base ELSE n + k - 1,
                 ref |-> 1, isReq |-> k = Len(lens), started |-> FALSE, finished |-> FALSE,
                 x |-> -1, y |-> -1]
      all == q.proofs \o [k \in DOMAIN lens |-> new(k)]
  IN  [q EXCEPT !.proofs = all,
                !.queued = SortSeq(@ \o [k \in DOMAIN lens |-> n + k], LAMBDA a, b : Before(all, a, b))]

IncRefForgotten(q, base) == q    \* mutant: a chain that is continued is not held

IncRef(q, base) ==
  [q EXCEPT !.proofs = [i \in DOMAIN @ |-> IF i \in ChainOf(@)[base] THEN [@[i] EXCEPT !.ref = @ + 1] ELSE @[i]]]

\* hw_proof_process_req
QueueRequest(q0) ==
  LET r == Head(q0.req)
      q == Displace([q0 EXCEPT !.req = Tail(@)], r)
      base == BaseOf(q, r)
      from == IF base = None THEN 0 ELSE q.proofs[base].iters
  IN  QueueProofs(IncRef(q, base), base, SplitIters(r - from))

\* The first loop of hw_proof_process_work.
WantsQueueing(q) ==
  /\ q.req # <<>>
  /\ Len(q.queued) < 3 \/ Head(q.req) < q.proofs[Last(q.queued)].iters

ProcessRequest ==
  /\ pc = "requests"
  /\ LET q == [req |-> req, proofs |-> proofs, queued |-> queued]
         next == QueueRequest(q)
     IN  IF WantsQueueing(q)
         THEN req' = next.req /\ proofs' = next.proofs /\ queued' = next.queued /\ pc' = pc
         ELSE pc' = "proofs" /\ UNCHANGED requestVars
  /\ UNCHANGED <<valueVars, stopping, threadVars, wq, late, done>>

-----------------------------------------------------------------------------
(* The main thread gives the free slots to proofs first, then to work.       *)

\* How many of the queued proofs may start: values that have been reached, a
\* free slot each, and n_proof_threads below its limit before each of them.
Startable ==
  LET room == IF nProof >= MaxProof THEN 0 ELSE (MaxProof - nProof + Parallel - 1) \div Parallel
  IN  Max({n \in 0 .. Min({Cardinality(Free), room}) :
             \A k \in 1 .. n : k \in DOMAIN queued /\ proofs[queued[k]].iters <= last.iters})

StartProofs ==
  /\ pc = "proofs" /\ pc' = "works"
  /\ LET n == Startable
         begun == {queued[k] : k \in 1 .. n}
     IN  /\ slots' = [i \in 1 .. MaxAux |->
                        IF i \in Free /\ FreeBefore(i) < n
                        THEN [kind |-> "proof", idx |-> queued[FreeBefore(i) + 1]] ELSE slots[i]]
         /\ nProof' = (nProof + Parallel * n) % 256
         /\ proofs' = [i \in DOMAIN proofs |-> IF i \in begun THEN [proofs[i] EXCEPT !.started = TRUE] ELSE proofs[i]]
         /\ queued' = SubSeq(queued, n + 1, Len(queued))
  /\ UNCHANGED <<valueVars, stopping, forms, owed, wq, late, req, done>>

StartWorks ==
  /\ pc = "works" /\ pc' = "handled"
  /\ LET n == Min({Len(wq), Cardinality(Free)})
     IN  /\ slots' = [i \in 1 .. MaxAux |->
                        IF i \in Free /\ FreeBefore(i) < n THEN wq[FreeBefore(i) + 1] ELSE slots[i]]
         /\ wq' = SubSeq(wq, n + 1, Len(wq))
  /\ UNCHANGED <<valueVars, stopping, forms, nProof, owed, late, requestVars, done>>

-----------------------------------------------------------------------------
(* Values of the engine.                                                     *)

\* mutant: the position of the last value, valid or not
LastGoodUnchecked == last.iters \div Interval

\* hw_proof_last_good_form
LastGood == Max({pos \in 0 .. last.iters \div Interval : Valid(pos)})

Work(from, start, end) == [kind |-> "work", from |-> from, next |-> start, end |-> end]

\* The positions after the last value and before the new one.
FirstBetween == last.iters \div Interval + 1
LastBetween(val) == IF val.iters % Interval = 0 THEN val.iters \div Interval - 1 ELSE val.iters \div Interval

\* mutant: a single position in between is forgotten
LeftToThreadsShort(val) ==
  IF FirstBetween < LastBetween(val) THEN <<Work(last, FirstBetween, LastBetween(val))>> ELSE <<>>

\* hw_proof_add_work, when there is such a position.
LeftToThreads(val) ==
  IF LastBetween(val) > 0 /\ FirstBetween <= LastBetween(val)
  THEN <<Work(last, FirstBetween, LastBetween(val))>> ELSE <<>>

\* hw_proof_handle_value: a value on a multiple of the interval is stored.
HandleValue(val) ==
  /\ forms' = IF val.iters % Interval = 0 THEN [forms EXCEPT ![val.iters \div Interval] = val.form] ELSE forms
  /\ wq' = wq \o LeftToThreads(val)
  /\ last' = val
  /\ completed' = (completed \/ val.iters >= Target)
  /\ pc' = "requests"

\* What hw_proof_add_value does not pass on: nothing new since the last reading.
Stale(val) == val.iters = offset \/ val.iters = last.iters

-----------------------------------------------------------------------------
(* The auxiliary threads.                                                    *)

Release(i) == slots' = [slots EXCEPT ![i] = Idle]

\* hw_proof_calc_values: squares from the work's value and stores each position.
CalcValue(i) ==
  /\ slots[i].kind = "work" /\ ~stopping
  /\ LET w == slots[i] IN
     /\ forms' = [forms EXCEPT ![w.next] = w.from.form + w.next * Interval - w.from.iters]
     /\ IF w.next < w.end THEN slots' = [slots EXCEPT ![i].next = @ + 1] ELSE Release(i)
  /\ UNCHANGED <<pc, valueVars, stopping, nProof, owed, wq, late, requestVars, done>>

CalcStopped(i) ==
  /\ slots[i].kind = "work" /\ stopping
  /\ Release(i)
  /\ UNCHANGED <<pc, valueVars, stopping, forms, nProof, owed, wq, late, requestVars, done>>

\* hw_compute_proof waits for every position of its segment in turn; positions
\* stay valid, so only that all of them are counts.
FromPosition(p) == (p.iters - p.seg) \div Interval
ToPosition(p) == p.iters \div Interval
HasValues(p) == \A pos \in FromPosition(p) .. ToPosition(p) : Valid(pos)

\* The results, the flag and done_proofs under the mutex; then the slot.
ComputeProof(i) ==
  /\ slots[i].kind = "proof"
  /\ Torn \/ pc # "erase"
  /\ LET idx == slots[i].idx
         p == proofs[idx]
     IN  /\ HasValues(p)
         /\ proofs' = [proofs EXCEPT ![idx].finished = TRUE,
                                     ![idx].x = forms[FromPosition(p)],
                                     ![idx].y = forms[ToPosition(p)] + (p.iters % Interval)]
         /\ done' = IF p.isReq THEN Append(done, idx) ELSE done
  /\ Release(i) /\ owed' = owed + 1
  /\ UNCHANGED <<pc, valueVars, stopping, forms, nProof, wq, late, req, queued>>

\* mutant: a stopped proof leaves without decrementing the count
ProofStoppedUncounted(i) ==
  /\ slots[i].kind = "proof" /\ stopping
  /\ Release(i)
  /\ UNCHANGED <<pc, valueVars, stopping, forms, nProof, owed, wq, late, requestVars, done>>

ProofStopped(i) ==
  /\ slots[i].kind = "proof" /\ stopping
  /\ Release(i) /\ owed' = owed + 1
  /\ UNCHANGED <<pc, valueVars, stopping, forms, nProof, wq, late, requestVars, done>>

\* n_proof_threads is decremented after the slot is free; it has eight bits.
CountDown ==
  /\ owed > 0
  /\ owed' = owed - 1 /\ nProof' = (nProof - Parallel) % 256
  /\ UNCHANGED <<pc, valueVars, stopping, forms, slots, wq, late, requestVars, done>>

AuxStep(i) == CalcValue(i) \/ CalcStopped(i) \/ ComputeProof(i) \/ ProofStopped(i)

=============================================================================
