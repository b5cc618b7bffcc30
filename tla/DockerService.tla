---------------------------- MODULE DockerService ----------------------------
(***************************************************************************)
(* A service as a container on the local daemon (src/runtime/docker.rs).   *)
(* The daemon knows it by its name, which every instance of the service    *)
(* bears.  Each of its answers may be an error.                            *)
(***************************************************************************)
EXTENDS Runtime

CONSTANT MaxStarts   \* bound: instances of the service

ASSUME MaxStartsAssumption == MaxStarts \in Nat

VARIABLES
  container,  \* what bears the name
  starts,     \* instances started; the number of the last one
  requests,   \* stop calls on their way to the daemon, by the instance they are for
  stopping,   \* the daemon is stopping the container
  lost,       \* history: a wait of this stop has failed
  failed      \* history: the kernel was told of an end that was none

daemon == <<container, starts, requests, stopping, lost, failed>>

Container == {"none", "created", "running", "exited"}

DockerOK ==
  /\ container \in Container /\ starts \in Nat /\ requests \in SUBSET Nat
  /\ stopping \in BOOLEAN /\ lost \in BOOLEAN /\ failed \in BOOLEAN

StepTo(from, to) == step = from /\ step' = to

----------------------------------------------------------------------------
(* The daemon *)

\* By itself, or because it is being stopped, which ends in a kill.
ContainerExits ==
  /\ container = "running" /\ container' = "exited" /\ stopping' = FALSE
  /\ UNCHANGED <<handle, starts, requests, lost, failed>>

\* The task of begin_stop gets through, to whatever bears the name by then.
StopArrives(i) ==
  /\ i \in requests /\ requests' = requests \ {i}
  /\ stopping' = (stopping \/ container = "running")
  /\ UNCHANGED <<handle, container, starts, lost, failed>>

StopFails(i) ==
  /\ i \in requests /\ requests' = requests \ {i}
  /\ UNCHANGED <<handle, container, starts, stopping, lost, failed>>

\* remove_container, by force: an error is reported and ignored.
Removed == container' = "none" /\ stopping' = FALSE
NotRemoved == UNCHANGED <<container, stopping>>

----------------------------------------------------------------------------
(* spawn *)

SpawnBegins ==
  /\ Free /\ StepTo("idle", "removing") /\ starts < MaxStarts
  /\ UNCHANGED <<call, outcome, daemon>>

RemoveLeftover ==
  /\ StepTo("removing", "pulling")
  /\ Removed \/ NotRemoved
  /\ UNCHANGED <<call, outcome, starts, requests, lost, failed>>

PullImage ==
  /\ StepTo("pulling", "creating") \/ StepTo("pulling", "idle")
  /\ UNCHANGED <<call, outcome, daemon>>

\* The name must be free.
CreateContainer ==
  /\ container = "none" /\ StepTo("creating", "starting")
  /\ container' = "created"
  /\ UNCHANGED <<call, outcome, starts, requests, stopping, lost, failed>>

CreateFails ==
  /\ StepTo("creating", "idle")
  /\ UNCHANGED <<call, outcome, daemon>>

StartContainer ==
  /\ StepTo("starting", "idle")
  /\ call' = "running" /\ container' = "running" /\ starts' = starts + 1
  /\ outcome' = "none" /\ failed' = FALSE
  /\ UNCHANGED <<requests, stopping, lost>>

\* The container it has created stays.
StartFails ==
  /\ StepTo("starting", "idle")
  /\ UNCHANGED <<call, outcome, daemon>>

----------------------------------------------------------------------------
(* The handle *)

\* wait and try_exit.
DockerEnds ==
  /\ call = "running" /\ step = "idle" /\ container # "running"
  /\ Returns("ended", "exited")
  /\ UNCHANGED daemon

\* wait fails, which the kernel takes for the end.
DockerWaitFails ==
  /\ call = "running" /\ step = "idle"
  /\ Returns("ended", "exited")
  /\ failed' = TRUE
  /\ UNCHANGED <<container, starts, requests, stopping, lost>>

\* The call is handed to a task.
DockerBeginStop ==
  /\ Calls("running", "begun") /\ step = "idle"
  /\ requests' = requests \cup {starts}
  /\ UNCHANGED <<step, outcome, container, starts, stopping, lost, failed>>

DockerFinishStop ==
  /\ Calls("begun", "finishing") /\ step' = "waiting"
  /\ lost' = FALSE
  /\ UNCHANGED <<outcome, container, starts, requests, stopping, failed>>

\* wait_exit answers when nothing that bears the name runs.
WaitAnswers ==
  /\ container # "running" /\ StepTo("waiting", "removing the old")
  /\ outcome' = "exited"
  /\ UNCHANGED <<call, daemon>>

WaitFails ==
  /\ StepTo("waiting", "removing the old")
  /\ outcome' = "killed" /\ lost' = TRUE
  /\ UNCHANGED <<call, container, starts, requests, stopping, failed>>

\* Faulty: the deadline is counted from the daemon's own stop on.
WaitTimesOutOnceStopping ==
  /\ stopping /\ StepTo("waiting", "killing")
  /\ UNCHANGED <<call, outcome, daemon>>

\* Twice the grace period.
WaitTimesOut ==
  /\ StepTo("waiting", "killing")
  /\ UNCHANGED <<call, outcome, daemon>>

\* kill, outright: the kernel's, of a oneshot that overran its timeout.
DockerKill ==
  /\ call = "running" /\ StepTo("idle", "killing")
  /\ UNCHANGED <<call, outcome, daemon>>

\* The call of kill, there and in finish_stop: an error is reported and ignored.
KillAnswers ==
  /\ StepTo("killing", "killed")
  /\ container' = IF container = "running" THEN "exited" ELSE container
  /\ stopping' = FALSE
  /\ UNCHANGED <<call, outcome, starts, requests, lost, failed>>

KillFails ==
  /\ StepTo("killing", "killed")
  /\ UNCHANGED <<call, outcome, daemon>>

\* kill has returned, to finish_stop or to the kernel.
Killed == IF call = "running" THEN Returns("returned", "killed")
          ELSE step' = "removing the old" /\ outcome' = "killed" /\ UNCHANGED call

\* The container is waited for even so, and for as long as it takes.
KillWaited ==
  /\ step = "killed" /\ container # "running"
  /\ Killed
  /\ UNCHANGED daemon

KillWaitFails ==
  /\ step = "killed"
  /\ Killed
  /\ lost' = TRUE /\ failed' = (failed \/ call = "running")
  /\ UNCHANGED <<container, starts, requests, stopping>>

\* finish_stop ends with the removal of the container.
RemoveOld ==
  /\ step = "removing the old"
  /\ \/ Removed /\ UNCHANGED failed
     \/ NotRemoved /\ failed' = (failed \/ lost)
  /\ Returns("returned", outcome)
  /\ UNCHANGED <<starts, requests, lost>>

DockerInit ==
  /\ container = "none" /\ starts = 0 /\ requests = {} /\ stopping = FALSE
  /\ lost = FALSE /\ failed = FALSE

DockerSpawns == \/ SpawnBegins \/ RemoveLeftover \/ PullImage \/ CreateContainer
                \/ CreateFails \/ StartContainer \/ StartFails

\* finish_stop and kill; that a wait fails is for nobody to count on.
DockerStops == \/ DockerFinishStop \/ WaitAnswers \/ WaitTimesOut
               \/ KillAnswers \/ KillFails \/ KillWaited \/ RemoveOld

DockerNext ==
  \/ ContainerExits \/ DockerSpawns \/ DockerEnds \/ DockerWaitFails
  \/ DockerBeginStop \/ DockerKill \/ DockerStops \/ WaitFails \/ KillWaitFails
  \/ \E i \in 1 .. MaxStarts : StopArrives(i) \/ StopFails(i)
==============================================================================
