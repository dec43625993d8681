----------------------------- MODULE MCVdfClient ----------------------------
(* Three parts of the VDF client, each in behaviours of its own: the simple  *)
(* sessions, one batch of the two-thread squaring, and the fast storage that *)
(* a machine with many processors uses.                                      *)
EXTENDS VdfClient, FastSquaring, FastStorage, TLC

VARIABLE part         \* which of the three runs

MCLengths == <<2, 4>>
MCSymmetry == Permutations(Workers)    \* the storage threads are alike

PartInit ==
  /\ part \in {"client", "squaring", "storage"}
  /\ Init /\ FastInit /\ StorageInit
  /\ part # "squaring" => threads_enabled

PartNext ==
  /\ \/ part = "client" /\ Next /\ UNCHANGED <<fastVars, storageVars>>
     \/ part = "squaring" /\ FastNext /\ UNCHANGED <<vars, storageVars>>
     \/ part = "storage" /\ StorageNext /\ UNCHANGED <<vars, fastVars>>
  /\ UNCHANGED part

PartSpec == PartInit /\ [][PartNext]_<<vars, fastVars, storageVars, part>>

=============================================================================
