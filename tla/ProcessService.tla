--------------------------- MODULE ProcessService ---------------------------
(***************************************************************************)
(* A service as a process (src/runtime/process.rs, on unix): a shell that  *)
(* leads a process group, whatever it forks, and the shutdown hook, which  *)
(* leads a group of its own.  Signals go to groups.                        *)
(***************************************************************************)
EXTENDS Runtime

CONSTANTS
  Leader,      \* the shell, the process the supervisor has spawned
  Member,      \* what it may fork
  HookProcess  \* the hook's shell and what that may fork

ASSUME LeaderAssumption == Leader \notin Member

VARIABLES
  group,    \* live processes of the service
  deaf,     \* those that do not end on SIGTERM
  told,     \* those SIGTERM has reached and that will end
  reaped,   \* the leader has been waited for: child.id() is None
  hook,     \* the handle holds a shutdown hook
  hookUp    \* live processes of the hook

own == <<group, deaf, told, reaped, hook, hookUp>>

Process == {Leader} \cup Member

ProcessOK ==
  /\ group \in SUBSET Process /\ deaf \in SUBSET Process /\ told \in SUBSET Process
  /\ reaped \in BOOLEAN /\ hook \in BOOLEAN /\ hookUp \in SUBSET HookProcess

----------------------------------------------------------------------------
(* The processes *)

Forks(p) ==
  /\ group # {}
  /\ group' = group \cup {p}
  /\ UNCHANGED <<handle, deaf, told, reaped, hook, hookUp>>

Exits(p) ==
  /\ p \in group
  /\ group' = group \ {p} /\ told' = told \ {p}
  /\ UNCHANGED <<handle, deaf, reaped, hook, hookUp>>

HookForks(h) ==
  /\ hookUp # {}
  /\ hookUp' = hookUp \cup {h}
  /\ UNCHANGED <<handle, group, deaf, told, reaped, hook>>

HookExits(h) ==
  /\ hookUp' = hookUp \ {h}
  /\ UNCHANGED <<handle, group, deaf, told, reaped, hook>>

----------------------------------------------------------------------------
(* The runtime *)

\* send_shutdown_signal: without a pid there is nobody to signal.
Terminate == told' = IF reaped THEN told ELSE told \cup (group \ deaf)

\* spawn, with or without a hook: the leader of a new group.
ProcessSpawns ==
  /\ call = "none" /\ call' = "running"
  /\ group' = {Leader} /\ told' = {} /\ reaped' = FALSE /\ hookUp' = {}
  /\ deaf' \in SUBSET Process /\ hook' \in BOOLEAN
  /\ UNCHANGED <<step, outcome>>

\* wait and try_exit, while the kernel has not asked it to stop.
ProcessEnds ==
  /\ call = "running" /\ Leader \notin group
  /\ Returns("ended", "exited")
  /\ reaped' = TRUE
  /\ UNCHANGED <<group, deaf, told, hook, hookUp>>

\* A service with a hook is stopped by its hook.
ProcessBeginStop ==
  /\ Calls("running", "begun")
  /\ IF hook THEN UNCHANGED told ELSE Terminate
  /\ UNCHANGED <<step, outcome, group, deaf, reaped, hook, hookUp>>

\* finish_stop without a hook: begin_stop has signalled it.
FinishUnhooked ==
  /\ Calls("begun", "finishing") /\ ~hook
  /\ step' = "grace"
  /\ UNCHANGED <<outcome, own>>

\* With one: the handle gives it up, and it is spawned, or cannot be.
FinishHooked ==
  /\ Calls("begun", "finishing") /\ hook
  /\ hook' = FALSE
  /\ \/ step' = "hooking" /\ (\E h \in HookProcess : hookUp' = {h}) /\ UNCHANGED told
     \/ step' = "grace" /\ Terminate /\ UNCHANGED hookUp
  /\ UNCHANGED <<outcome, group, deaf, reaped>>

\* The service has ended before the hook's timeout; what is left of the hook
\* is killed, group and all.
HookWorked ==
  /\ step = "hooking" /\ Leader \notin group
  /\ hookUp' = {} /\ reaped' = TRUE
  /\ Returns("returned", "exited")
  /\ UNCHANGED <<group, deaf, told, hook>>

HookTimesOut ==
  /\ step = "hooking" /\ step' = "grace"
  /\ hookUp' = {} /\ Terminate
  /\ UNCHANGED <<call, outcome, group, deaf, reaped, hook>>

\* wait_or_kill: only the leader is waited for.
GraceSuffices ==
  /\ step = "grace" /\ Leader \notin group
  /\ reaped' = TRUE
  /\ Returns("returned", "exited")
  /\ UNCHANGED <<group, deaf, told, hook, hookUp>>

\* Faulty: the pid is killed, the shell that is.
KillGroupLeader == group' = group \ {Leader} /\ told' = told \ {Leader} /\ reaped' = TRUE

\* kill: SIGKILL to the group, unless the leader was reaped, then the leader is.
KillGroup ==
  /\ group' = IF reaped THEN group \ {Leader} ELSE {}
  /\ told' = told \cap group'
  /\ reaped' = TRUE

\* Faulty: the grace period is all there is.
GraceEndsIt ==
  /\ step = "grace"
  /\ Returns("returned", "killed")
  /\ UNCHANGED own

GraceEnds ==
  /\ step = "grace"
  /\ KillGroup
  /\ Returns("returned", "killed")
  /\ UNCHANGED <<deaf, hook, hookUp>>

\* The kernel kills a oneshot that overran its timeout.
ProcessKilled ==
  /\ call = "running"
  /\ KillGroup
  /\ Returns("returned", "killed")
  /\ UNCHANGED <<deaf, hook, hookUp>>

ProcessInit ==
  /\ group = {} /\ deaf = {} /\ told = {} /\ reaped = FALSE /\ hook = FALSE /\ hookUp = {}

ProcessStops == \/ FinishUnhooked \/ FinishHooked \/ HookWorked \/ HookTimesOut
                \/ GraceSuffices \/ GraceEnds

ProcessNext ==
  \/ \E p \in Member : Forks(p)
  \/ \E p \in Process : Exits(p)
  \/ \E h \in HookProcess : HookForks(h) \/ HookExits(h)
  \/ ProcessSpawns \/ ProcessEnds \/ ProcessBeginStop \/ ProcessStops \/ ProcessKilled
=============================================================================
