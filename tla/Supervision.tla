------------------------------ MODULE Supervision ------------------------------
(***************************************************************************)
(* What the supervisor promises of its services, and `arig ps` shows of    *)
(* them, whatever commands, crashes and teardown do: one instance at a     *)
(* time, one piece of work at a time, a row for every step, and once it    *)
(* goes down nothing new and the last wave first.  No messages, tasks or   *)
(* clients here: module Lifecycle has those, and implements this.          *)
(***************************************************************************)
EXTENDS Naturals

CONSTANTS
  Service,
  WaveOf   \* the wave each service started in

VARIABLES
  down,    \* the stack is going down
  held,    \* services with an instance the supervisor looks after
  alive,   \* services with an instance that is alive, and followed
  adrift,  \* services with one that is alive and lost sight of
  doing,   \* what is being done with each service
  row      \* what is shown of each service

vars == <<down, held, alive, adrift, doing, row>>

Shows(s, state) == row' = [row EXCEPT ![s].state = state]

\* Work begins on a service that has none, and not once the stack goes down.
Begins(s, work) ==
  /\ ~down /\ doing[s] = {}
  /\ doing' = [doing EXCEPT ![s] = {work}]
  /\ UNCHANGED <<down, alive, adrift>>

Ends(s, work) ==
  /\ doing[s] = {work}
  /\ doing' = [doing EXCEPT ![s] = {}]
  /\ UNCHANGED down

\* Nobody looks after the instance of s any more.  If it is alive even so, its
\* runtime has failed, and it is alive for as long as it likes.
Parts(s) ==
  /\ alive' = alive \ {s}
  /\ adrift' = adrift \cup ({s} \cap alive)

\* A build leaves an instance alone, and is shown if there is none.
BuildBegins(s) ==
  /\ Begins(s, "build") /\ UNCHANGED held
  /\ IF s \in held THEN UNCHANGED row ELSE row[s].state = "stopped" /\ Shows(s, "building")

BuildEnds(s) ==
  /\ Ends(s, "build") /\ UNCHANGED <<held, alive, adrift>>
  /\ IF row[s].state = "building" THEN Shows(s, "stopped") ELSE UNCHANGED row

\* An instance that is being stopped is let go of, so that its end is nobody's
\* surprise.
StopBegins(s) ==
  /\ Begins(s, "stop")
  /\ s \in held /\ held' = held \ {s}
  /\ row[s].state = "running"
  /\ row' = [row EXCEPT ![s].state = "stopping", ![s].desired = "stopped"]

StopEnds(s) ==
  /\ Ends(s, "stop") /\ Parts(s) /\ UNCHANGED held
  /\ Shows(s, "stopped")

\* A new instance has nothing of an old one to meet, but what is adrift.
SpawnBegins(s) ==
  /\ Begins(s, "spawn") /\ s \notin held \cup alive /\ UNCHANGED held
  /\ row[s].state = "stopped"
  /\ row' = [row EXCEPT ![s].state = "starting", ![s].desired = "up"]

SpawnSucceeds(s) ==
  /\ Ends(s, "spawn") /\ ~down /\ s \notin held \cup alive
  /\ held' = held \cup {s} /\ alive' = alive \cup {s} /\ UNCHANGED adrift
  /\ row' = [row EXCEPT ![s].state = "running", ![s].desired = "up", ![s].restarts = @ + 1]

SpawnFails(s) ==
  /\ Ends(s, "spawn") /\ ~down /\ UNCHANGED <<held, alive, adrift>>
  /\ Shows(s, "stopped")

Dies(s) ==
  /\ \/ s \in alive /\ alive' = alive \ {s} /\ UNCHANGED adrift
     \/ s \in adrift /\ adrift' = adrift \ {s} /\ UNCHANGED alive
  /\ UNCHANGED <<down, held, doing, row>>

\* The stack goes down, and never in the middle of a spawn.
GoesDown ==
  /\ ~down /\ down' = TRUE
  /\ \A s \in Service : "spawn" \notin doing[s]
  /\ UNCHANGED doing

IsTold == GoesDown /\ UNCHANGED <<held, alive, adrift, row>>

\* An instance that nobody stopped is found dead, and only such a one.
FindsDead(s) ==
  /\ GoesDown
  /\ s \in held \ alive /\ held' = held \ {s}
  /\ row[s].state = "running" /\ row[s].desired = "up"
  /\ Shows(s, "exited")
  /\ UNCHANGED <<alive, adrift>>

\* Its runtime cannot tell any more whether it is alive.
LosesSight(s) ==
  /\ GoesDown
  /\ s \in held /\ held' = held \ {s} /\ Parts(s) /\ UNCHANGED row

\* With all work done, the instances go, those of the last wave first.
TakesDown(s) ==
  /\ down /\ \A t \in Service : doing[t] = {}
  /\ s \in held /\ \A t \in held : WaveOf[t] <= WaveOf[s]
  /\ held' = held \ {s} /\ Parts(s)
  /\ Shows(s, "exited")
  /\ UNCHANGED <<down, doing>>

Init ==
  /\ down = FALSE
  /\ held = Service
  /\ alive \in SUBSET Service /\ adrift = {}
  /\ doing = [s \in Service |-> {}]
  /\ row = [s \in Service |-> [state |-> "running", desired |-> "up", restarts |-> 0]]

Next ==
  \/ IsTold
  \/ \E s \in Service :
       \/ BuildBegins(s) \/ BuildEnds(s) \/ StopBegins(s) \/ StopEnds(s)
       \/ SpawnBegins(s) \/ SpawnSucceeds(s) \/ SpawnFails(s)
       \/ Dies(s) \/ FindsDead(s) \/ LosesSight(s) \/ TakesDown(s)

Spec == Init /\ [][Next]_vars
=============================================================================
