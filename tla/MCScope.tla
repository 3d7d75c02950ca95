------------------------------- MODULE MCScope --------------------------------
(* Instances of Scope for TLC *)
EXTENDS Scope

(* Signals that are low, then high: the threshold is found at any place of *)
(* a trace, or never.  Their phase is 0 at the first start and any at the  *)
(* second.                                                                 *)
Steps ==
    {[n \in 0 .. Period - 1 |-> IF n < low THEN 0 ELSE MAX_DIGITAL] : low \in 0 .. Period}
=============================================================================
