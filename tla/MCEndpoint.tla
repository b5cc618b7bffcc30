------------------------------ MODULE MCEndpoint ------------------------------
(* Instances of Endpoint for TLC. *)
EXTENDS Endpoint, TLC

CONSTANTS fore1, fore2, back, down1, p1, p2

Alike == Permutations({fore1, fore2}) \cup Permutations({p1, p2})
===============================================================================
