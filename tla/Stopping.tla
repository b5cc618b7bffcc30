------------------------------ MODULE Stopping ------------------------------
(***************************************************************************)
(* One service, of either runtime, from its spawn to the end of            *)
(* finish_stop, and that both keep the promise the kernel relies on.       *)
(***************************************************************************)
EXTENDS ProcessService, DockerService

CONSTANT Runtimes  \* the runtimes its config may select

VARIABLE runtime   \* the one it does

ASSUME RuntimesAssumption == Runtimes \subseteq {"process", "docker"}

vars == <<handle, own, daemon, runtime>>

Init ==
  /\ runtime \in Runtimes
  /\ call = "none" /\ step = "idle" /\ outcome = "none"
  /\ ProcessInit /\ DockerInit

Next ==
  \/ runtime = "process" /\ ProcessNext /\ UNCHANGED <<daemon, runtime>>
  \/ runtime = "docker" /\ DockerNext /\ UNCHANGED <<own, runtime>>

Spec == Init /\ [][Next]_vars

\* The kernel goes on to finish_stop, timers fire, the daemon answers calls,
\* and ends what it is stopping.  Nothing makes a wait on the daemon fail.
Fairness ==
  /\ WF_vars(ProcessStops /\ UNCHANGED <<daemon, runtime>>)
  /\ WF_vars(DockerStops /\ UNCHANGED <<own, runtime>>)
  /\ WF_vars(stopping /\ ContainerExits /\ UNCHANGED <<own, runtime>>)

FairSpec == Spec /\ Fairness

----------------------------------------------------------------------------
(* Properties *)

\* Every variable has its type.
TypeOK == runtime \in Runtimes /\ HandleOK /\ ProcessOK /\ DockerOK

\* The service runs: its shell does, or its container.
Up == IF runtime = "process" THEN Leader \in group ELSE container = "running"

Contract == INSTANCE RunningService WITH up <- Up

\* "Wait for the service to actually be gone, escalating as far as a kill if it
\* will not go" (RunningService::finish_stop): for both runtimes, whatever the
\* service does, unless the daemon fails both to tell and to remove.
KeepsThePromise == Contract!Spec

\* "The command runs under a shell that may have forked", "kill that" group
\* (ProcessChild::kill); "its subprocesses don't become orphans" (of the hook):
\* what is reported killed has no process left, and no stop leaves a hook behind.
NothingOutlivesAKill ==
  /\ runtime = "process" /\ outcome = "killed" => group = {}
  /\ call = "returned" => hookUp = {}

\* finish_stop returns, however deaf the service, unless the daemon can neither
\* kill the container nor fail the wait for it.
StopReturns ==
  call = "finishing" ~> (call = "returned" \/ (step = "killed" /\ container = "running"))
=============================================================================
