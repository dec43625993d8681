--------------------------- MODULE MCProverManager --------------------------
(* Instances of ProverManager; the constants are given in the .cfg files.    *)
EXTENDS ProverManager

\* Bound: what one session asks for is two iterations of one segment, or one
\* that needs more segments than a proof may have.
MCSessions == {{2, 3}, {4}}
MCOneSession == \E asked \in MCSessions : {r \in Requests : req[r] # "none"} \subseteq asked

=============================================================================
