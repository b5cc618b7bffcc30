-------------------------------- MODULE Waves --------------------------------
(***************************************************************************)
(* dag::toposort (src/dag.rs): Kahn's algorithm by waves.  One step per    *)
(* turn of its loop.  The queue and the waves are Vecs filled from hash    *)
(* maps, whose order means nothing: here they are sets.                    *)
(***************************************************************************)
EXTENDS Naturals, Sequences, FiniteSets

CONSTANTS
  Name,     \* the services of the config
  Configs   \* the depends_on lists considered, each a function on Name

\* A depends_on list may repeat a name and may name what is not a service.
ASSUME ConfigsAssumption ==
  /\ IsFiniteSet(Name)
  /\ \A d \in Configs : /\ DOMAIN d = Name
                        /\ \A n \in Name : d[n] \in Seq(UNION {{d[m][i] : i \in DOMAIN d[m]} : m \in Name})

VARIABLES
  pc,        \* "validate", "sort", "ok", "unknown" or "cycle"
  deps,      \* depends_on of every service
  inDegree,  \* in_degree
  queue,     \* services whose in-degree has come to 0, not yet in a wave
  visited,   \* how many services are in a wave
  waves      \* the waves so far, the first one first

vars == <<pc, deps, inDegree, queue, visited, waves>>

\* The occurrences of names in W among what n depends on.
Uses(n, W) == {i \in DOMAIN deps[n] : deps[n][i] \in W}

Init ==
  /\ pc = "validate" /\ deps \in Configs
  /\ inDegree = [n \in Name |-> 0] /\ queue = {} /\ visited = 0 /\ waves = << >>

UnknownDependency ==
  /\ pc = "validate"
  /\ \E n \in Name : Uses(n, Name) # DOMAIN deps[n]
  /\ pc' = "unknown"
  /\ UNCHANGED <<deps, inDegree, queue, visited, waves>>

\* Faulty: counts a name listed twice once, though it will be removed twice.
InDegreeOfSet(n) == Cardinality({deps[n][i] : i \in DOMAIN deps[n]})

InDegree(n) == Len(deps[n])

BuildInDegrees ==
  /\ pc = "validate"
  /\ \A n \in Name : Uses(n, Name) = DOMAIN deps[n]
  /\ pc' = "sort"
  /\ inDegree' = [n \in Name |-> InDegree(n)]
  /\ queue' = {n \in Name : InDegree(n) = 0}
  /\ UNCHANGED <<deps, visited, waves>>

\* Faulty: lets go of a service with one dependency to come; puts a service
\* into its wave and leaves it in the queue.
ReleasedEarly(n) == inDegree[n] > 0 /\ inDegree[n] <= Cardinality(Uses(n, queue)) + 1
ReleasedAgain(n) == inDegree[n] = Cardinality(Uses(n, queue))

\* Services whose last missing dependencies are in the wave being taken.
Released(n) == inDegree[n] > 0 /\ inDegree[n] = Cardinality(Uses(n, queue))

TakeWave ==
  /\ pc = "sort" /\ queue # {}
  /\ visited' = visited + Cardinality(queue)
  /\ inDegree' = [n \in Name |-> inDegree[n] - Cardinality(Uses(n, queue))]
  /\ queue' = {n \in Name : Released(n)}
  /\ waves' = Append(waves, queue)
  /\ UNCHANGED <<pc, deps>>

\* Faulty: goes on until every service has its wave.
FinishWhenAllPlaced ==
  /\ pc = "sort" /\ queue = {} /\ visited = Cardinality(Name)
  /\ pc' = "ok"
  /\ UNCHANGED <<deps, inDegree, queue, visited, waves>>

Finish ==
  /\ pc = "sort" /\ queue = {}
  /\ pc' = IF visited = Cardinality(Name) THEN "ok" ELSE "cycle"
  /\ UNCHANGED <<deps, inDegree, queue, visited, waves>>

Done == pc \in {"ok", "unknown", "cycle"} /\ UNCHANGED vars

Next == UnknownDependency \/ BuildInDegrees \/ TakeWave \/ Finish \/ Done

Spec == Init /\ [][Next]_vars /\ WF_vars(Next)

----------------------------------------------------------------------------
(* Properties *)

Placed == UNION {waves[k] : k \in DOMAIN waves}

\* A set of services each of which depends on one of them: what a cycle is.
Stuck(S) == S # {} /\ \A n \in S : Uses(n, S) # {}

\* Every variable has its type.
TypeOK ==
  /\ pc \in {"validate", "sort", "ok", "unknown", "cycle"}
  /\ deps \in Configs
  /\ inDegree \in [Name -> Nat]
  /\ queue \subseteq Name
  /\ visited \in Nat
  /\ waves \in Seq(SUBSET Name)

\* Whatever a service depends on is in an earlier wave than it.
DependenciesEarlier ==
  \A k \in DOMAIN waves : \A n \in waves[k] : \A i \in DOMAIN deps[n] :
    \E j \in DOMAIN waves : j < k /\ deps[n][i] \in waves[j]

\* A service is in one wave at most, and in the earliest its dependencies
\* allow: after the first wave, one of them is in the wave before.
AsEarlyAsPossible ==
  \A k \in DOMAIN waves : \A n \in waves[k] :
    /\ \A j \in DOMAIN waves : n \in waves[j] => j = k
    /\ k > 1 => \E i \in DOMAIN deps[n] : deps[n][i] \in waves[k - 1]

\* The verdict is right: "ok" places every service, and only a config with no
\* circular dependency and no unknown name; "cycle" says there is a cycle.
VerdictIsRight ==
  /\ pc = "ok" => Placed = Name /\ ~\E S \in SUBSET Name : Stuck(S)
  /\ pc = "cycle" => \E S \in SUBSET Name : Stuck(S)
  /\ pc \in {"ok", "cycle"} => \A n \in Name : Uses(n, Name) = DOMAIN deps[n]

\* It comes to a verdict.
Terminates == <>(pc \in {"ok", "unknown", "cycle"})
=============================================================================
