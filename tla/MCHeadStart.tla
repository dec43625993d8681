---------------------------- MODULE MCHeadStart -----------------------------
(* Values for the constants of HeadStart: ideal hash and VDF.                *)
EXTENDS HeadStart

MCHash(a, prevY) == <<"hash", a, prevY>>
MCEval(c) == <<"vdf", c>>

=============================================================================
