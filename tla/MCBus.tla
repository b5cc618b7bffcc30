-------------------------------- MODULE MCBus --------------------------------
(* Instances of Bus for TLC. *)
EXTENDS Bus

CONSTANTS api, out, err

InOrder == <<api>>

Lines == api :> 1

\* Bound: only one of the two receivers falls behind at a time.  Neither ever
\* waits for the other.
OneIsBehind == \E r \in Receiver : next[r] >= Len(sent)

\* Bound: at most one stream outlives its service in a process left behind, or
\* loses its reader.  The streams are read apart from each other.
OneOddStream == Cardinality(held \cup {p \in Pipe : reader[p] = "failed"}) <= 1
===============================================================================
