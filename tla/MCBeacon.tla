------------------------------ MODULE MCBeacon ------------------------------
(***************************************************************************)
(* The beacon server on two small instances, each in behaviours of its     *)
(* own: "threads", preemptive and with the constants of the configuration, *)
(* one contributor at work; and "gevent", cooperative, with three stages,  *)
(* one more datum for each and contributors that race.                     *)
(*                                                                         *)
(* Hash and VDF are ideal, both injective, as tagged tuples.               *)
(***************************************************************************)
EXTENDS BeaconChain

CONSTANTS
  Alone,      \* the contributor that is at work with preemptive threads
  AloneSays   \* and what it contributes

VARIABLE mode    \* which of the two instances: "threads" or "gevent"

MCHash(a, prevY) == <<"hash", a, prevY>>
MCEval(c) == <<"vdf", c>>

G == INSTANCE Beacon WITH Preemptive <- FALSE, MaxStages <- 3, MaxData <- MaxData + 1

ModesInit == Init /\ mode \in {"threads", "gevent"}

ModesNext ==
  /\ \/ /\ mode = "threads" /\ Next
        /\ \A c \in Clients : req'[c] # "idle" => c = Alone /\ call'[c].x = AloneSays
     \/ mode = "gevent" /\ G!Next
  /\ UNCHANGED mode

ModesSpec == ModesInit /\ [][ModesNext]_<<vars, mode>>

-----------------------------------------------------------------------------
\* Under gevent, as run_server.sh starts the server, an answered contribution
\* is where its receipt says, and no GET /api/stage meets a stage that is half
\* closed.
GeventAnswersHold == mode = "gevent" => G!CooperativeAnswersHold

=============================================================================
