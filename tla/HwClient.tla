------------------------------ MODULE HwClient ------------------------------
(* The event loop of the hardware timelord (hw_vdf_client.cpp) for one       *)
(* connection and one engine: it talks to the timelord, reads the engine's   *)
(* status, restarts the engine from the last good form and stops sessions.   *)
(* Connections share nothing but the loop and the device.                    *)
EXTENDS HwProof

CONSTANTS
  Requests,      \* bound: iterations the timelord asks for, once a session each
  Strides,       \* bound: how far the engine gets between two readings
  MaxFaults,     \* bound: readings that are bad or bring nothing new
  MaxSessions    \* bound: challenges

ASSUME HwClientAssumption ==
  /\ Requests \subseteq 1 .. Target /\ Strides \subseteq Nat \ {0}
  /\ MaxFaults \in Nat /\ MaxSessions \in Nat

VARIABLES
  conn,          \* state of the vdf_conn
  signal,        \* g_stopping
  initDone,      \* init_done
  eng,           \* external: the engine's job, its initial form and iterations so far
  faults, sessions,
  seen,          \* done_proofs as the erase of the main thread found it, and the place it erases
  asked, sent    \* history of the session: requests accepted, proofs written

clientVars == <<conn, signal, initDone, eng, faults, sessions, seen, asked, sent>>
vars == <<proofVars, clientVars>>

Off == [on |-> FALSE, base |-> 0, at |-> 0]

Init ==
  /\ ProofInit
  /\ conn = "CLOSED" /\ signal = FALSE /\ initDone = FALSE
  /\ eng = Off /\ faults = 0 /\ sessions = 0 /\ seen = <<<<>>, 0>>
  /\ asked = {} /\ sent = {}

-----------------------------------------------------------------------------
(* Stopping and starting a session.                                          *)

\* After handle_conn: the status is read only for a running connection.
AfterConn(state) == IF state = "RUNNING" THEN "status" ELSE "conn"

\* init_conn; a connection that fails is tried again.
Connect ==
  /\ pc = "conn" /\ conn = "CLOSED" /\ ~signal
  /\ conn' = "WAITING"
  /\ UNCHANGED <<proofVars, signal, initDone, eng, faults, sessions, seen, asked, sent>>

\* A challenge is complete: init_vdf_state and start_hw_vdf.
Challenge ==
  /\ pc = "conn" /\ conn = "WAITING" /\ ~signal /\ sessions < MaxSessions
  /\ sessions' = sessions + 1
  /\ initDone' = TRUE /\ conn' = "RUNNING" /\ pc' = AfterConn("RUNNING")
  /\ nProof' = 0 /\ late' = (owed > 0)
  /\ eng' = [on |-> TRUE, base |-> 0, at |-> 0]
  /\ UNCHANGED <<valueVars, stopping, forms, slots, owed, wq, requestVars, done,
                 signal, faults, seen, asked, sent>>

\* stop_conn; what follows when a state was set up waits for its threads.
StopConn ==
  IF initDone THEN stopping' = TRUE /\ pc' = "stopping" /\ UNCHANGED conn
  ELSE stopping' = stopping /\ pc' = "close" /\ conn' = "STOPPED"

UnchangedByStop == <<valueVars, threadVars, wq, late, requestVars, done,
                     signal, initDone, eng, faults, sessions, seen, asked, sent>>

GlobalStop ==
  /\ pc = "conn" /\ signal /\ conn \notin {"CLOSED", "STOPPED"}
  /\ StopConn /\ UNCHANGED UnchangedByStop

\* read_data finds the connection closed, or the timelord asks to stop.
PeerStops ==
  /\ \/ pc = "conn" /\ conn = "WAITING" /\ ~signal
     \/ pc = "receive"
  /\ StopConn /\ UNCHANGED UnchangedByStop

\* hw_proof_wait_values, clear_vdf_state and stop_hw_vdf.
ThreadsEnded ==
  /\ pc = "stopping" /\ Free = 1 .. MaxAux
  /\ last' = [iters |-> 0, form |-> 0] /\ offset' = 0 /\ skipped' = 0 /\ completed' = FALSE
  /\ stopping' = FALSE /\ forms' = InitialForms /\ wq' = <<>>
  /\ req' = <<>> /\ proofs' = <<>> /\ queued' = <<>> /\ done' = <<>>
  /\ initDone' = FALSE /\ eng' = Off /\ conn' = "STOPPED" /\ pc' = "close"
  /\ asked' = {} /\ sent' = {} /\ seen' = <<<<>>, 0>>
  /\ UNCHANGED <<slots, nProof, owed, late, signal, faults, sessions>>

\* The acknowledgement is read at once, and the socket closed without it too.
CloseConn ==
  /\ pc = "close" /\ pc' = "conn" /\ conn' = "CLOSED"
  /\ UNCHANGED <<valueVars, stopping, threadVars, wq, late, requestVars, done,
                 signal, initDone, eng, faults, sessions, seen, asked, sent>>

Interrupt ==
  /\ ~signal /\ signal' = TRUE
  /\ UNCHANGED <<proofVars, conn, initDone, eng, faults, sessions, seen, asked, sent>>

Exit ==
  /\ pc = "conn" /\ signal /\ conn = "CLOSED"
  /\ pc' = "exited"
  /\ UNCHANGED <<valueVars, stopping, threadVars, wq, late, requestVars, done, clientVars>>

-----------------------------------------------------------------------------
(* handle_proofs and handle_iters.                                           *)

ReadyUnchained == DOMAIN done    \* mutant: the proofs it continues need not be done

\* hw_retrieve_proof: the done proofs all of whose predecessors are done.
Ready == {k \in DOMAIN done : \A i \in ChainOf(proofs)[done[k]] : proofs[i].finished}

Segment(p) == [from |-> p.iters - p.seg, to |-> p.iters, x |-> p.x, y |-> p.y, finished |-> p.finished]

HandleProofs ==
  /\ pc = "conn" /\ conn \in {"RUNNING", "IDLING"} /\ ~signal
  /\ IF Ready = {} THEN pc' = "receive" /\ UNCHANGED <<sent, seen>>
     ELSE LET k == Min(Ready) IN
          /\ pc' = "erase" /\ seen' = <<done, k>>
          /\ sent' = sent \cup {[iters |-> proofs[done[k]].iters,
                                 segments |-> {Segment(proofs[i]) : i \in ChainOf(proofs)[done[k]]}]}
  /\ UNCHANGED <<valueVars, stopping, threadVars, wq, late, requestVars, done,
                 conn, signal, initDone, eng, faults, sessions, asked>>

\* The vector without the element, as long as the erase found it.
EraseDone ==
  /\ pc = "erase" /\ pc' = "conn"
  /\ done' = RemoveAt(seen[1], seen[2]) /\ seen' = <<<<>>, 0>>
  /\ UNCHANGED <<valueVars, stopping, threadVars, wq, late, requestVars,
                 conn, signal, initDone, eng, faults, sessions, asked, sent>>

ReceiveNothing ==
  /\ pc = "receive" /\ pc' = AfterConn(conn)
  /\ UNCHANGED <<valueVars, stopping, threadVars, wq, late, requestVars, done, clientVars>>

\* One reading may hold several requests.
ReceiveRequests(rs) ==
  /\ pc = "receive" /\ rs # {} /\ rs \cap asked = {}
  /\ asked' = asked \cup rs
  /\ req' = FoldSet(LAMBDA r, q : InsertRequest(q, r), req, rs)
  /\ pc' = AfterConn(conn)
  /\ UNCHANGED <<valueVars, stopping, threadVars, wq, late, proofs, queued, done,
                 conn, signal, initDone, eng, faults, sessions, seen, sent>>

\* A request cut in two by the network ends the program: "Bad data size".
ReceiveFragment ==
  /\ pc = "receive" /\ pc' = "dead"
  /\ UNCHANGED <<valueVars, stopping, threadVars, wq, late, requestVars, done, clientVars>>

-----------------------------------------------------------------------------
(* The status of the engine.                                                 *)

\* The engine starts again from the last form that is known.
Restart ==
  /\ offset' = LastGood * Interval
  /\ eng' = [on |-> TRUE, base |-> forms[LastGood], at |-> 0]
  /\ pc' = "conn"

UnchangedByStatus == <<stopping, slots, nProof, owed, late, requestVars, done,
                       conn, signal, initDone, sessions, seen, asked, sent>>

ReadNew ==
  /\ pc = "status"
  /\ \E s \in Strides :
       LET at == Min({eng.at + s, Target - offset})
           val == [iters |-> at + offset, form |-> eng.base + at]
       IN  /\ at > eng.at /\ ~Stale(val)
           /\ eng' = [eng EXCEPT !.at = at]
           /\ skipped' = 0
           /\ HandleValue(val)
  /\ UNCHANGED <<offset, faults, UnchangedByStatus>>

\* Nothing new, be it that the engine has not moved or that it is where it has
\* been before; SkipThres times in a row it is restarted.
ReadStale ==
  /\ pc = "status"
  /\ \E s \in Strides \cup {0} :
       LET at == Min({eng.at + s, Target - offset})
           val == [iters |-> at + offset, form |-> eng.base + at]
       IN  /\ Stale(val)
           /\ at > eng.at \/ faults < MaxFaults
           /\ faults' = IF at > eng.at THEN faults ELSE faults + 1
           /\ IF skipped >= SkipThres
              THEN skipped' = 0 /\ Restart
              ELSE /\ skipped' = skipped + 1 /\ pc' = "conn"
                   /\ eng' = [eng EXCEPT !.at = at] /\ UNCHANGED offset
  /\ UNCHANGED <<last, completed, forms, wq, UnchangedByStatus>>

\* verify_vdf_value refuses the value.
ReadBad ==
  /\ pc = "status" /\ faults < MaxFaults
  /\ faults' = faults + 1 /\ skipped' = 0
  /\ Restart
  /\ UNCHANGED <<last, completed, forms, wq, UnchangedByStatus>>

\* After the value is handled; a completed session idles with its engine off.
AfterValue ==
  /\ pc = "handled" /\ pc' = "conn"
  /\ conn' = IF completed THEN "IDLING" ELSE conn
  /\ eng' = IF completed THEN Off ELSE eng
  /\ UNCHANGED <<valueVars, stopping, threadVars, wq, late, requestVars, done,
                 signal, initDone, faults, sessions, seen, asked, sent>>

-----------------------------------------------------------------------------

WorkStep == (ProcessRequest \/ StartProofs \/ StartWorks) /\ UNCHANGED clientVars
StatusStep == ReadNew \/ ReadStale \/ ReadBad \/ AfterValue
Serve == HandleProofs \/ EraseDone \/ ReceiveNothing \/ \E rs \in SUBSET Requests : ReceiveRequests(rs)
Stopping == GlobalStop \/ ThreadsEnded \/ CloseConn \/ Exit
Threads == (CountDown \/ \E i \in 1 .. MaxAux : AuxStep(i)) /\ UNCHANGED clientVars

Next == \/ Connect \/ Challenge \/ Stopping \/ PeerStops \/ Interrupt
        \/ Serve \/ ReceiveFragment \/ WorkStep \/ StatusStep \/ Threads

Spec == Init /\ [][Next]_vars

\* The loop and its threads run; the timelord, the user and the network may act.
FairSpec ==
  /\ Spec
  /\ WF_vars(WorkStep \/ StatusStep \/ Serve \/ Stopping)
  /\ WF_vars(CountDown /\ UNCHANGED clientVars)
  /\ \A i \in 1 .. MaxAux : WF_vars(AuxStep(i) /\ UNCHANGED clientVars)

-----------------------------------------------------------------------------
(* Properties.                                                               *)

\* Every form that is marked valid is that of its position, whatever restarts,
\* skipped readings and threads have written it; and no position the engine has
\* passed is forgotten: it is valid or some work still covers it.
Covers(w, pos) == w.kind = "work" /\ pos \in w.next .. w.end
ValuesComplete ==
  /\ last.form = last.iters
  /\ \A pos \in Positions : Valid(pos) => forms[pos] = pos * Interval
  /\ stopping \/ \A pos \in 0 .. last.iters \div Interval :
       \/ Valid(pos)
       \/ \E i \in 1 .. MaxAux : Covers(slots[i], pos)
       \/ \E k \in DOMAIN wq : Covers(wq[k], pos)

\* A request that was accepted and not answered is in exactly one place: waiting,
\* or the last of one chain of proofs that lead to it from 0 without a gap; the
\* queue holds the proofs no thread has begun, and displaced chains leave no trace.
LiveProofs == {i \in DOMAIN proofs : Alive(proofs[i])}
Unsent(i) == proofs[i].isReq /\ \A s \in sent : s.iters # proofs[i].iters
RequestsConserved ==
  /\ \A r \in asked :
       Cardinality({k \in DOMAIN req : req[k] = r})
         + Cardinality({i \in LiveProofs : proofs[i].isReq /\ proofs[i].iters = r}) = 1
  /\ \A i \in LiveProofs :
       IF proofs[i].prev = None THEN proofs[i].seg = proofs[i].iters
       ELSE /\ proofs[i].prev \in LiveProofs
            /\ proofs[i].iters = proofs[proofs[i].prev].iters + proofs[i].seg
  /\ ToSet(queued) = {i \in LiveProofs : ~proofs[i].started}

\* What is written for a request are finished proofs whose segments run from 0 to
\* it without a gap, each beginning with the form the one before ends with.
SentTiles ==
  \A s \in sent :
    /\ s.iters \in asked
    /\ \A g \in s.segments :
         /\ g.finished /\ g.x = g.from /\ g.y = g.to
         /\ g.from = 0 \/ \E h \in s.segments \ {g} : h.to = g.from
    /\ \E g \in s.segments : g.to = s.iters

\* "Number of proof threads must be less than VDF threads": proofs wait for values
\* other threads compute, so they never hold every slot, and n_proof_threads
\* counts them; unless a thread of the session before was late.
SlotLeftForValues ==
  late \/ /\ nProof = Parallel * (Cardinality(Proving) + owed)
          /\ Cardinality(Proving) < MaxAux

\* "requested and not sent": done_proofs lists exactly the finished requested
\* proofs that were not sent.
DoneProofsAreUnsent ==
  pc # "erase" =>
    ToSet(done) = {i \in LiveProofs : proofs[i].finished /\ Unsent(i)}

\* A slot that is given to a proof is given back, unless the session has completed
\* and a value the proof waits for is left in the queue of work, which only the
\* next value would have handed to a thread.
LeftOver(p) == completed /\ \E k \in DOMAIN wq, pos \in Positions :
                              Covers(wq[k], pos) /\ pos \in FromPosition(p) .. ToPosition(p)
ProofsEnd ==
  \A i \in 1 .. MaxAux :
    slots[i].kind = "proof"
      ~> slots[i].kind # "proof" \/ LeftOver(proofs[slots[i].idx]) \/ pc = "dead"

\* An interrupt ends the program: "All VDFs stopped, exiting".
InterruptEnds == signal ~> pc \in {"exited", "dead"}

\* Neither a proof nor the program goes on for ever (hw_proof.cpp,
\* hw_vdf_client.cpp): see the two parts above.
SessionsEnd == ProofsEnd /\ InterruptEnds

=============================================================================
