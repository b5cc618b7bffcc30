------------------------------ MODULE Endpoint ------------------------------
(***************************************************************************)
(* Where a workspace's supervisor listens (src/ipc.rs), and who comes to   *)
(* it: supervisors that start, serve, leave and crash (supervisor::up),    *)
(* `arig up -d` (detach_and_exit), which spawns one and asks it about its  *)
(* builds, and `arig down` (client::down).                                 *)
(*                                                                         *)
(* The endpoint is two files, a socket and a pidfile.  Nothing makes two   *)
(* operations on them one: each step below is one call to the file system, *)
(* and processes take them in any order.  The writing of the pidfile is    *)
(* one step; a pidfile read half-written is read as one that is not there. *)
(***************************************************************************)
EXTENDS Integers, FiniteSets

CONSTANTS
  Supervisor,  \* the processes that run supervisor::up for this workspace
  Detached,    \* those that are spawned by an `up -d`, one each
  Client,      \* `arig down`s
  Pid          \* process numbers the OS hands out, and hands out again

ASSUME ConstantsAssumption == Detached \subseteq Supervisor /\ Client \cap Supervisor = {}

VARIABLES
  pc,         \* where each supervisor is
  pid,        \* the process number each has (a set of one, or none)
  sock,       \* the supervisor that bound the socket file at the address, if there is one
  pidfile,    \* what the pidfile holds, if there is one
  others,     \* numbers of live processes that are no supervisors of this workspace
  built,      \* supervisors whose build stage succeeded
  told,       \* supervisors whose shutdown watch is set
  acked,      \* `down`s answered, whose handler has yet to set the watch
  launch,     \* where each `up -d` is
  ask,        \* where each `arig down` is
  peer,       \* the supervisor each `up -d` and each `arig down` connected to
  overlapped, \* history: two supervisors were changing the files at once
  overtaken   \* history: `up -d`s that met another supervisor between probe and bind

procVars == <<pc, pid, others>>
fileVars == <<sock, pidfile>>
kernVars == <<built, told>>
userVars == <<acked, launch, ask, peer>>
history  == <<overlapped, overtaken>>
vars == <<procVars, fileVars, kernVars, userVars, history>>

----------------------------------------------------------------------------
(* Processes *)

Ended    == {"unborn", "refused", "gone"}
Starting == {"checking", "reading", "evicting", "clearing", "binding", "bound"}
Holding  == {"bound", "building", "serving", "draining"}
Leaving  == {"unlinked", "leaving"}
Who      == Detached \cup Client

Alive(s) == pc[s] \notin Ended

\* pid_alive: kill(pid, 0) finds a process of that number, ours or not.
PidAlive(p) == p \in others \/ \E s \in Supervisor : Alive(s) /\ p \in pid[s]

\* The listener is open from bind to the end of the process.
Listening(s) == pc[s] \in Holding \cup Leaving

\* probe: somebody accepts connections on the socket file.
Probe == \E s \in sock : Listening(s)

\* Two supervisors are between the stale check and the pidfile, or one is
\* while another has removed its socket but not yet its pidfile.
Overlap ==
  \E s, t \in Supervisor : s # t /\ pc[s] \in Starting /\ pc[t] \in Starting \cup {"unlinked"}

\* An `up -d` has probed, and its supervisor has not got as far as the pidfile.
InWindow(d) == launch[d] = "probed" \/ pc[d] \in Starting

\* s takes a step, from where it is to l.
Step(s, l) ==
  /\ pc' = [pc EXCEPT ![s] = l]
  /\ overlapped' = (overlapped \/ Overlap')
  /\ overtaken' = overtaken \cup
       {d \in Detached \ {s} : InWindow(d) /\ pc[s] = "binding" /\ l = "bound"}

\* The number of a process that ends is free again.
Goto(s, l) ==
  /\ Step(s, l)
  /\ pid' = IF l \in Ended THEN [pid EXCEPT ![s] = {}] ELSE pid

----------------------------------------------------------------------------
(* bind and cleanup_stale *)

\* The process starts, with a number nobody has.
Start(s) ==
  \E p \in Pid :
    /\ pc[s] = "unborn" /\ ~PidAlive(p)
    /\ Step(s, "checking")
    /\ pid' = [pid EXCEPT ![s] = {p}]
    /\ UNCHANGED <<others, fileVars, kernVars>>

\* `arig up`, without -d.
StartForeground(s) == Start(s) /\ UNCHANGED userVars

\* sock.exists(): without a socket only the pidfile is removed.
Check(s) ==
  /\ pc[s] = "checking"
  /\ Goto(s, IF sock = {} THEN "clearing" ELSE "reading")
  /\ UNCHANGED <<others, fileVars, kernVars, userVars>>

\* Faulty: the socket file alone counts; the pidfile is not looked at.
ReadPidTrustingSocket(s) ==
  /\ pc[s] = "reading"
  /\ Goto(s, "refused")
  /\ UNCHANGED <<others, fileVars, kernVars, userVars>>

\* Faulty: a socket that is still there was left by a supervisor that died.
ReadPidPresumingDead(s) ==
  /\ pc[s] = "reading"
  /\ Goto(s, "evicting")
  /\ UNCHANGED <<others, fileVars, kernVars, userVars>>

\* The pidfile names a live process, which is taken for the supervisor, or not.
ReadPid(s) ==
  /\ pc[s] = "reading"
  /\ Goto(s, IF \E p \in pidfile : PidAlive(p) THEN "refused" ELSE "evicting")
  /\ UNCHANGED <<others, fileVars, kernVars, userVars>>

Evict(s) ==
  /\ pc[s] = "evicting"
  /\ Goto(s, "clearing")
  /\ sock' = {}
  /\ UNCHANGED <<others, pidfile, kernVars, userVars>>

ClearPid(s) ==
  /\ pc[s] = "clearing"
  /\ Goto(s, "binding")
  /\ pidfile' = {}
  /\ UNCHANGED <<others, sock, kernVars, userVars>>

\* bind(2) fails if the file is there.  A supervisor that could not bind has
\* no IpcCleanup yet and leaves the files alone.
Bind(s) ==
  /\ pc[s] = "binding"
  /\ IF sock = {} THEN Goto(s, "bound") /\ sock' = {s}
                  ELSE Goto(s, "refused") /\ UNCHANGED sock
  /\ UNCHANGED <<others, pidfile, kernVars, userVars>>

WritePid(s) ==
  /\ pc[s] = "bound"
  /\ Goto(s, "building")
  /\ pidfile' = pid[s]
  /\ UNCHANGED <<others, sock, kernVars, userVars>>

\* Writing it fails: `up` returns, with the socket left behind.
WriteFails(s) ==
  /\ pc[s] = "bound"
  /\ Goto(s, "gone")
  /\ UNCHANGED <<others, fileVars, kernVars, userVars>>

----------------------------------------------------------------------------
(* The rest of `up`: the kernel runs, then everything is dropped *)

BuildsSucceed(s) ==
  /\ pc[s] = "building"
  /\ Goto(s, "serving")
  /\ built' = built \cup {s}
  /\ UNCHANGED <<others, fileVars, told, userVars>>

\* Faulty: a kernel that is told to stop gives up the endpoint first.
KernelEndsLast(s) ==
  /\ pc[s] \in {"building", "serving"}
  /\ sock' = {}
  /\ IF s \in told /\ sock = {s} THEN UNCHANGED <<pc, pid, history>> ELSE Goto(s, "draining")
  /\ UNCHANGED <<others, pidfile, kernVars, userVars>>

\* Kernel::run returns, called off, failed or finished, with no service left,
\* and `up` records its verdict and drains the bus.
KernelEnds(s) ==
  /\ pc[s] \in {"building", "serving"}
  /\ Goto(s, "draining")
  /\ UNCHANGED <<others, fileVars, kernVars, userVars>>

\* IpcCleanup is dropped: the socket goes, then the pidfile, whoever's they are.
Unlink(s) ==
  /\ pc[s] = "draining"
  /\ Goto(s, "unlinked")
  /\ sock' = {}
  /\ UNCHANGED <<others, pidfile, kernVars, userVars>>

Forget(s) ==
  /\ pc[s] = "unlinked"
  /\ Goto(s, "leaving")
  /\ pidfile' = {}
  /\ UNCHANGED <<others, sock, kernVars, userVars>>

\* main returns: the runtime, its handlers and the listener go.
End(s) ==
  /\ pc[s] = "leaving"
  /\ Goto(s, "gone")
  /\ UNCHANGED <<others, fileVars, kernVars, userVars>>

\* Killed, at any point: both files stay as they are.
Crash(s) ==
  /\ Alive(s)
  /\ Goto(s, "gone")
  /\ UNCHANGED <<others, fileVars, kernVars, userVars>>

\* Another program of the machine starts or ends.
OtherStarts(p) ==
  /\ ~PidAlive(p)
  /\ others' = others \cup {p}
  /\ UNCHANGED <<pc, pid, fileVars, kernVars, userVars, history>>

OtherEnds(p) ==
  /\ others' = others \ {p}
  /\ UNCHANGED <<pc, pid, fileVars, kernVars, userVars, history>>

Supervises(s) ==
  \/ Check(s) \/ ReadPid(s) \/ Evict(s) \/ ClearPid(s) \/ Bind(s) \/ WritePid(s)
  \/ WriteFails(s) \/ BuildsSucceed(s) \/ KernelEnds(s) \/ Unlink(s) \/ Forget(s) \/ End(s)

----------------------------------------------------------------------------
(* `arig up -d`: detach_and_exit, for the supervisor d it spawns *)

\* Nothing of a supervisor changes.
Outside == UNCHANGED <<procVars, fileVars, kernVars, history>>

Advance(d, from, to) ==
  /\ launch[d] = from
  /\ launch' = [launch EXCEPT ![d] = to]

\* Faulty: whether a supervisor answers is found out by the one it spawns.
LaunchProbeNobody(d) ==
  /\ Advance(d, "idle", "probed")
  /\ Outside /\ UNCHANGED <<acked, ask, peer>>

\* It bails out if a supervisor answers.
LaunchProbe(d) ==
  /\ Advance(d, "idle", IF Probe THEN "already" ELSE "probed")
  /\ Outside /\ UNCHANGED <<acked, ask, peer>>

LaunchSpawn(d) ==
  /\ Advance(d, "probed", "waiting")
  /\ Start(d)
  /\ UNCHANGED <<acked, ask, peer>>

\* wait_ready: somebody listens.
LaunchBound(d) ==
  /\ Probe
  /\ Advance(d, "waiting", "bound")
  /\ Outside /\ UNCHANGED <<acked, ask, peer>>

\* The connection for WaitBuilt is a second one.
LaunchConnect(d) ==
  /\ Advance(d, "bound", IF Probe THEN "asked" ELSE "failed")
  /\ peer' = IF Probe THEN [peer EXCEPT ![d] = sock] ELSE peer
  /\ Outside /\ UNCHANGED <<acked, ask>>

\* The answer: the builds are done, or the stage ended without; or the
\* connection closes, which exchange reads as an error.
LaunchAnswered(d) ==
  \E s \in peer[d] :
    /\ s \in built \/ pc[s] \in {"draining"} \cup Leaving \cup Ended
    /\ Advance(d, "asked", IF Alive(s) /\ s \in built THEN "ok" ELSE "failed")
    /\ Outside /\ UNCHANGED <<acked, ask, peer>>

\* watch_child: the process it spawned has exited.
LaunchChildExited(d) ==
  /\ pc[d] \in Ended
  /\ \E l \in {"waiting", "bound", "asked"} : Advance(d, l, "failed")
  /\ Outside /\ UNCHANGED <<acked, ask, peer>>

\* Ten seconds for the bind, the builds' ceiling and ten for the answer.
LaunchTimeout(d) ==
  /\ \E l \in {"waiting", "asked"} : Advance(d, l, "failed")
  /\ Outside /\ UNCHANGED <<acked, ask, peer>>

Launches(d) ==
  \/ LaunchProbe(d) \/ LaunchSpawn(d) \/ LaunchBound(d) \/ LaunchConnect(d)
  \/ LaunchAnswered(d) \/ LaunchChildExited(d) \/ LaunchTimeout(d)

----------------------------------------------------------------------------
(* `arig down`: client::down, and handle_client's arm for it *)

Move(c, from, to) ==
  /\ ask[c] = from
  /\ ask' = [ask EXCEPT ![c] = to]

DownConnect(c) ==
  /\ Move(c, "idle", IF Probe THEN "asked" ELSE "nobody")
  /\ peer' = IF Probe THEN [peer EXCEPT ![c] = sock] ELSE peer
  /\ Outside /\ UNCHANGED <<acked, launch>>

\* The accept loop runs from the end of bind on.  The answer is written first.
DownAcked(c) ==
  \E s \in peer[c] :
    /\ Alive(s) /\ pc[s] # "bound"
    /\ Move(c, "asked", "polling")
    /\ acked' = acked \cup {c}
    /\ Outside /\ UNCHANGED <<launch, peer>>

DownSet(c) ==
  \E s \in peer[c] :
    /\ c \in acked /\ Alive(s)
    /\ acked' = acked \ {c}
    /\ told' = told \cup {s}
    /\ UNCHANGED <<procVars, fileVars, built, launch, ask, peer, history>>

\* The connection closes without an answer.
DownUnanswered(c) ==
  /\ \E s \in peer[c] : ~Alive(s)
  /\ Move(c, "asked", "failed")
  /\ Outside /\ UNCHANGED <<acked, launch, peer>>

\* "stopped" as soon as nobody answers a probe.
DownPoll(c) ==
  /\ ~Probe
  /\ Move(c, "polling", "stopped")
  /\ Outside /\ UNCHANGED <<acked, launch, peer>>

DownTimeout(c) ==
  /\ Move(c, "polling", "gave_up")
  /\ Outside /\ UNCHANGED <<acked, launch, peer>>

Downs(c) == \/ DownConnect(c) \/ DownAcked(c) \/ DownSet(c) \/ DownUnanswered(c)
            \/ DownPoll(c) \/ DownTimeout(c)

----------------------------------------------------------------------------
(* The specification *)

Init ==
  /\ pc = [s \in Supervisor |-> "unborn"]
  /\ pid = [s \in Supervisor |-> {}]
  /\ sock = {} /\ pidfile = {}
  /\ others = {}
  /\ built = {} /\ told = {} /\ acked = {}
  /\ launch = [d \in Detached |-> "idle"]
  /\ ask = [c \in Client |-> "idle"]
  /\ peer = [w \in Who |-> {}]
  /\ overlapped = FALSE /\ overtaken = {}

Next ==
  \/ \E s \in Supervisor : Supervises(s) \/ Crash(s)
  \/ \E s \in Supervisor \ Detached : StartForeground(s)
  \/ \E p \in Pid : OtherStarts(p) \/ OtherEnds(p)
  \/ \E d \in Detached : Launches(d)
  \/ \E c \in Client : Downs(c)

Spec == Init /\ [][Next]_vars

----------------------------------------------------------------------------
(* Properties *)

\* Every variable has its type.
TypeOK ==
  /\ pc \in [Supervisor -> Ended \cup Starting \cup Holding \cup Leaving]
  /\ pid \in [Supervisor -> SUBSET Pid]
  /\ sock \in SUBSET Supervisor /\ pidfile \in SUBSET Pid /\ others \in SUBSET Pid
  /\ built \in SUBSET Supervisor /\ told \in SUBSET Supervisor /\ acked \in SUBSET Client
  /\ launch \in [Detached -> {"idle", "already", "probed", "waiting", "bound", "asked",
                             "ok", "failed"}]
  /\ ask \in [Client -> {"idle", "nobody", "asked", "polling", "stopped", "gave_up", "failed"}]
  /\ peer \in [Who -> SUBSET Supervisor]
  /\ overlapped \in BOOLEAN /\ overtaken \in SUBSET Detached

\* "another supervisor is already running for this workspace" (cleanup_stale):
\* whoever crashed before, and at whatever point, and whatever number its
\* process had, a workspace has one supervisor at most, and clients reach it,
\* unless two of them were once changing the files at the same time.
OneSupervisor ==
  ~overlapped =>
    /\ \A s, t \in Supervisor : pc[s] \in Holding /\ pc[t] \in Holding => s = t
    /\ \A s \in Supervisor : pc[s] \in Holding => sock = {s}

\* "arig: stopped" (client::down) is true of the supervisor that was asked:
\* its kernel is done, though only its socket has been looked at, and though
\* another supervisor may have come up in the meantime.
StoppedIsStopped ==
  ~overlapped => \A c \in Client :
    ask[c] = "stopped" => \A s \in peer[c] : pc[s] \in Leaving \cup Ended

\* The files a crash leaves behind lock nobody out: a supervisor is refused
\* only if another one is there, or if the number in the pidfile has been
\* given to some other process, or to the very one that is starting.
RefusedForCause ==
  [][\A s \in Supervisor :
       pc[s] # "refused" /\ pc'[s] = "refused" /\ ~overlapped' =>
         \/ \E t \in Supervisor \ {s} : pc[t] \in Holding
         \/ \E p \in pidfile : p \in others \cup pid[s]]_vars

\* "Spawn the current binary as a detached process, wait until it binds"
\* (detach_and_exit): what an `up -d` reports of the builds it has heard from
\* the supervisor it spawned, while that one holds the endpoint, unless another
\* bound it between the probe and that supervisor's own bind.
OwnSupervisorAnswers ==
  ~overlapped => \A d \in Detached \ overtaken :
    launch[d] = "ok" /\ pc[d] \in Holding => peer[d] = {d} /\ d \in built
=============================================================================
