------------------------------ MODULE Lifecycle ------------------------------
(***************************************************************************)
(* The supervisor once every wave is up: Kernel::steady_state and all it   *)
(* calls (src/supervisor/mod.rs), the IPC clients that send it lifecycle   *)
(* commands, the tasks that run the phases of those commands outside the   *)
(* kernel loop, and the service instances themselves.                      *)
(*                                                                         *)
(* The kernel is one task: it picks a message, a child exit or the         *)
(* shutdown watch, and is away from that select while it awaits a spawn.   *)
(* The clients, the phase tasks and the instances take their steps in      *)
(* between, at any point where the kernel awaits.                          *)
(***************************************************************************)
EXTENDS StateTracker, Integers, Sequences, FiniteSets

CONSTANTS
  Service,   \* the long-running services of the stack, all up when this starts
  Foreign,   \* other names a client may send: oneshots, names not in the stack
  Request,   \* one lifecycle request of a client each
  WaveOf,    \* the wave each service started in (Steady::wave_of)
  Probed     \* the services whose definition at `up` time had a readiness probe

ASSUME ConstantsAssumption ==
  /\ Service # {} /\ Service \cap Foreign = {}
  /\ WaveOf \in [Service -> Nat]
  /\ Probed \subseteq Service

VARIABLES
  pc,        \* "steady", "settling", "teardown" or "exited": where the kernel task is
  spawning,  \* the service whose spawn_service call the kernel awaits, if any
  children,  \* Steady::children: the instances the kernel holds a handle on
  inflight,  \* Steady::inflight: at most one command per service
  nextSeq,   \* Steady::next_seq
  msgs,      \* the kernel's message queue (msg_tx / msg_rx)
  tasks,     \* phase tasks that have not ended
  shutdown,  \* the shutdown watch
  stopping,  \* the wave shutdown() has told to stop and is waiting for
  reply,     \* what each client has heard
  rows,      \* StateTracker, once it has applied every event emitted so far
  live,      \* instances whose process (or container) is alive
  starts,    \* how many instances of each service there have been
  heard,     \* history: the verdicts readiness probes came to
  lost       \* live instances whose runtime failed to wait on them, or to stop them

kernelVars == <<pc, spawning, children, inflight, nextSeq, stopping>>
worldVars  == <<live, starts, heard, lost>>
vars == <<kernelVars, msgs, tasks, shutdown, reply, rows, worldVars>>

----------------------------------------------------------------------------
(* Data *)

Phase == {"build", "stop", "start"}

\* LifecycleReq, with no_wait and build only on the verbs that carry them.
Command ==
  {c \in [verb: {"stop", "start", "restart", "build"}, name: Service \cup Foreign,
          no_wait: BOOLEAN, build: BOOLEAN] :
     /\ c.no_wait => c.verb \in {"start", "restart"}
     /\ c.build => c.verb = "restart"}

\* A spawned service: the gen-th of its name, probed or not.
Instance == [name: Service, gen: Nat, probed: BOOLEAN]

\* InFlight.  `spec` is kept as whether the definition read at accept time has
\* a probe; `reply` is whether the client's sender is still there.  `cmd` and
\* `found` (the instances there on acceptance) are kept for the properties;
\* of `cmd` the code keeps no_wait.
Entry == [name: Service, seq: Nat, req: Request, reply: BOOLEAN, cmd: Command,
          plan: Seq(Phase), probed: BOOLEAN, task: {"none", "probe", "work"},
          found: SUBSET Instance]

Task == [kind: {"build"}, name: Service, seq: Nat]
        \cup [kind: {"stop"}, name: Service, seq: Nat, inst: Instance]
        \cup [kind: {"probe"}, name: Service, seq: Nat, inst: Instance,
              verdict: {"checking", "passed", "gave_up"}]

Completion == [kind: {"build", "stop", "probe"}, name: Service, seq: Nat, ok: BOOLEAN]
Message == [kind: {"lifecycle"}, req: Request, cmd: Command] \cup Completion

Running(s) == \E c \in children : c.name = s
Commands(s) == {e \in inflight : e.name = s}

\* Faulty variants (here and below, each before the definition it distorts):
\* a check that forgets the task, a completion matched on its name alone.
HoldsByPlan(e) == e.plan # <<>>
CurrentByName(m) == Commands(m.name)

\* Steady::is_current, as the command a completion belongs to, if any.
Current(m) == {e \in inflight : e.name = m.name /\ e.seq = m.seq}

\* InFlight::holds_the_service
Holds(e) == e.plan # <<>> \/ e.task = "work"

AtSelect == pc = "steady" /\ spawning = {}

\* A completion is sent to a receiver that is gone once the kernel has exited.
Post(m) == IF pc = "exited" THEN msgs ELSE Append(msgs, m)

\* What a client holding a command's sender hears.
Answer(rp, e, result) == IF e.reply THEN [rp EXCEPT ![e.req] = result] ELSE rp

----------------------------------------------------------------------------
(* The phases of a command.  e is the command being advanced, rest the     *)
(* other commands in flight, tk and rp what the step has made of tasks and *)
(* reply by then.                                                          *)

Settle(e, rest, tk, rp, result) ==
  /\ inflight' = rest
  /\ reply' = Answer(rp, e, result)
  /\ tasks' = tk
  /\ UNCHANGED <<spawning, children, rows>>

BuildPhase(e, rest, tk, rp) ==
  /\ rows' = BuildStarted(rows, e.name)
  /\ tasks' = tk \cup {[kind |-> "build", name |-> e.name, seq |-> e.seq]}
  /\ inflight' = rest \cup {[e EXCEPT !.task = "work"]}
  /\ reply' = rp
  /\ UNCHANGED <<spawning, children>>

\* Faulty: the child stays where the kernel waits on it.
StopPhaseInPlace(e, rest, tk, rp) ==
  \E c \in children :
    /\ c.name = e.name
    /\ rows' = StopRequested(rows, e.name)
    /\ tasks' = tk \cup {[kind |-> "stop", name |-> e.name, seq |-> e.seq, inst |-> c]}
    /\ inflight' = rest \cup {[e EXCEPT !.task = "work"]}
    /\ reply' = rp
    /\ UNCHANGED <<spawning, children>>

\* The child moves into the task that stops it, so the kernel's waits on its
\* children never see the exit that follows.
StopChild(e, c, rest, tk, rp) ==
  /\ c.name = e.name
  /\ children' = children \ {c}
  /\ rows' = StopRequested(rows, e.name)
  /\ tasks' = tk \cup {[kind |-> "stop", name |-> e.name, seq |-> e.seq, inst |-> c]}
  /\ inflight' = rest \cup {[e EXCEPT !.task = "work"]}
  /\ reply' = rp
  /\ UNCHANGED spawning

StopPhase(e, rest, tk, rp) ==
  \/ ~Running(e.name) /\ Settle(e, rest, tk, rp, "failed")
  \/ \E c \in children : StopChild(e, c, rest, tk, rp)

\* Up to the await in spawn_service; SpawnSucceeds and SpawnFails are the rest.
StartPhase(e, rest, tk, rp) ==
  /\ rows' = StartRequested(rows, e.name)
  /\ spawning' = {e.name}
  /\ inflight' = rest \cup {e}
  /\ tasks' = tk
  /\ reply' = rp
  /\ UNCHANGED children

Advance(e, rest, tk, rp) ==
  IF e.plan = <<>> THEN Settle(e, rest, tk, rp, "ok")
  ELSE LET f == [e EXCEPT !.plan = Tail(@)]
       IN  \/ Head(e.plan) = "build" /\ BuildPhase(f, rest, tk, rp)
           \/ Head(e.plan) = "stop"  /\ StopPhase(f, rest, tk, rp)
           \/ Head(e.plan) = "start" /\ StartPhase(f, rest, tk, rp)

----------------------------------------------------------------------------
(* The kernel at its select: messages *)

\* Faulty: stops before it builds.
PlanStopFirst(c) ==
  CASE c.verb = "restart" -> (IF Running(c.name) THEN <<"stop">> ELSE <<>>)
                             \o (IF c.build THEN <<"build">> ELSE <<>>) \o <<"start">>
    [] OTHER              -> <<c.verb>>

\* Kernel::plan for a command it does not refuse: build first, stop second, so
\* the service is down for as little as possible.
PlanOf(c) ==
  LET up == Running(c.name)
  IN  CASE c.verb # "restart" -> <<c.verb>>
        [] c.verb = "restart" /\ ~c.build /\ ~up -> <<"start">>
        [] c.verb = "restart" /\ ~c.build /\ up  -> <<"stop", "start">>
        [] c.verb = "restart" /\ c.build /\ ~up  -> <<"build", "start">>
        [] c.verb = "restart" /\ c.build /\ up   -> <<"build", "stop", "start">>

Pointless(c) == \/ c.verb = "stop" /\ ~Running(c.name)
                \/ c.verb = "start" /\ Running(c.name)

\* What Kernel::plan refuses whatever the config says now.
Refusable(c) == \/ c.name \notin Service
                \/ \E e \in Commands(c.name) : Holds(e)
                \/ Pointless(c)

\* Every plan but a stop's reads the config again, which may not parse, have
\* changed shape, not validate, or name no build.
ConfigMayRefuse(c) == c.verb # "stop"

Refuse(m) ==
  /\ Refusable(m.cmd) \/ ConfigMayRefuse(m.cmd)
  /\ reply' = [reply EXCEPT ![m.req] = "refused"]
  /\ UNCHANGED <<kernelVars, tasks, shutdown, rows, worldVars>>

\* Aborting a probe ends it at its next await.  One whose check has already
\* come to a verdict has none left and still reports it.
Abort(es) == {t \in tasks : /\ t.kind = "probe" /\ t.verdict = "checking"
                            /\ \E e \in es : e.task = "probe" /\ e.name = t.name /\ e.seq = t.seq}

\* Faulty: the superseded client is forgotten.
TellNobody(es) == reply

\* A superseded command's client hears so, if it is still waiting.
Supersede(es) == [r \in Request |-> IF \E e \in es : e.reply /\ e.req = r
                                    THEN "superseded" ELSE reply[r]]

\* Whatever the service was doing is at most watching a probe, so it is
\* superseded, and the new command starts on its first phase.
NewCommand(m, probed) ==
  [name |-> m.cmd.name, seq |-> nextSeq, req |-> m.req, reply |-> TRUE, cmd |-> m.cmd,
   plan |-> PlanOf(m.cmd), probed |-> probed, task |-> "none",
   found |-> {i \in children : i.name = m.cmd.name}]

Accept(m) ==
  LET c    == m.cmd
      prev == Commands(c.name)
  IN /\ ~Refusable(c)
     /\ \E probed \in IF c.verb \in {"start", "restart"} THEN BOOLEAN ELSE {FALSE} :
          Advance(NewCommand(m, probed), inflight \ prev, tasks \ Abort(prev), Supersede(prev))
     /\ nextSeq' = nextSeq + 1
     /\ UNCHANGED <<pc, shutdown, stopping, worldVars>>

\* StopFinished, ProbeSettled and BuildFinished: dropped unless they belong to
\* the command their service is running now.
Complete(m) ==
  /\ UNCHANGED <<pc, nextSeq, shutdown, stopping, worldVars>>
  /\ \/ /\ Current(m) = {}
        /\ UNCHANGED <<spawning, children, inflight, tasks, reply, rows>>
     \/ \E e \in Current(m) :
          IF m.ok THEN Advance([e EXCEPT !.task = "none"], inflight \ {e}, tasks, reply)
          ELSE Settle(e, inflight \ {e}, tasks, reply, "failed")

Handle ==
  /\ AtSelect /\ msgs # <<>>
  /\ msgs' = Tail(msgs)
  /\ LET m == Head(msgs)
     IN  \/ m.kind = "lifecycle" /\ (Refuse(m) \/ Accept(m))
         \/ m.kind # "lifecycle" /\ Complete(m)

----------------------------------------------------------------------------
(* The rest of start_phase, once the runtime has answered the spawn *)

SpawnDone(e) ==
  LET i == [name |-> e.name, gen |-> starts[e.name] + 1, probed |-> e.probed]
  IN /\ pc = "steady" /\ e.name \in spawning
     /\ spawning' = {}
     /\ children' = children \cup {i}
     /\ live' = live \cup {i}
     /\ starts' = [starts EXCEPT ![e.name] = @ + 1]
     /\ rows' = ServiceStarted(rows, e.name, e.probed)
     /\ IF e.probed
        THEN /\ tasks' = tasks \cup {[kind |-> "probe", name |-> e.name, seq |-> e.seq,
                                      inst |-> i, verdict |-> "checking"]}
             /\ inflight' = (inflight \ {e}) \cup
                  {[e EXCEPT !.task = "probe", !.reply = @ /\ ~e.cmd.no_wait]}
             /\ reply' = IF e.cmd.no_wait THEN Answer(reply, e, "ok") ELSE reply
        ELSE /\ inflight' = inflight \ {e}
             /\ reply' = Answer(reply, e, "ok")
             /\ UNCHANGED tasks
     /\ UNCHANGED <<pc, nextSeq, msgs, shutdown, stopping, heard, lost>>

SpawnSucceeds == \E e \in inflight : SpawnDone(e)

SpawnFails ==
  \E e \in inflight :
    /\ pc = "steady" /\ e.name \in spawning
    /\ spawning' = {}
    /\ rows' = ServiceStopped(rows, e.name)
    /\ inflight' = inflight \ {e}
    /\ reply' = Answer(reply, e, "failed")
    /\ UNCHANGED <<pc, children, nextSeq, msgs, tasks, shutdown, stopping, worldVars>>

----------------------------------------------------------------------------
(* The kernel at its select: going down *)

SeeShutdown ==
  /\ AtSelect /\ shutdown
  /\ pc' = "settling"
  /\ UNCHANGED <<spawning, children, inflight, nextSeq, stopping, msgs, tasks, shutdown,
                 reply, rows, worldVars>>

\* A child ended that nobody stopped.  The kernel sets the watch itself, and
\* shutdown() will skip this child.
ChildGone(c, gone) ==
  /\ AtSelect
  /\ rows' = gone
  /\ shutdown' = TRUE
  /\ pc' = "settling"
  /\ children' = children \ {c}
  /\ UNCHANGED <<spawning, inflight, nextSeq, stopping, msgs, tasks, reply,
                 live, starts, heard>>

\* Faulty: an exit is only looked at between commands.
ChildExitsWhenIdle == \E c \in children \ live : /\ inflight = {}
                                                 /\ ChildGone(c, ServiceExited(rows, c.name))
                                                 /\ UNCHANGED lost

ChildExits == \E c \in children \ live : /\ ChildGone(c, ServiceExited(rows, c.name))
                                         /\ UNCHANGED lost

\* Nobody follows i from here on, dead or alive.
LetGo(i) == lost' = lost \cup ({i} \cap live)

\* The runtime could not wait on it, which says nothing about whether it runs.
WaitFails == \E c \in children : ChildGone(c, rows) /\ LetGo(c)

\* Faulty: work is abandoned like a probe; its completion is awaited instead,
\* in a queue nobody drains any more.
NotAwaited(e) == TRUE
AwaitedByMessage(e) ==
  e.task = "work" => /\ ~\E t \in tasks : t.name = e.name /\ t.seq = e.seq
                     /\ ~\E k \in DOMAIN msgs : msgs[k].kind # "lifecycle" /\ msgs[k].seq = e.seq

\* Work under way is awaited, as a task, before its command is settled.
Awaited(e) == e.task = "work" => ~\E t \in tasks : t.name = e.name /\ t.seq = e.seq

\* One entry of settle_commands, in the map's arbitrary order.
SettleCommand ==
  \E e \in inflight :
    /\ pc = "settling"
    /\ Awaited(e)
    /\ inflight' = inflight \ {e}
    /\ tasks' = tasks \ Abort({e})
    /\ reply' = Answer(reply, e, "shutting_down")
    /\ UNCHANGED <<pc, spawning, children, nextSeq, stopping, msgs, shutdown, rows, worldVars>>

BeginTeardown ==
  /\ pc = "settling" /\ inflight = {}
  /\ pc' = "teardown"
  /\ UNCHANGED <<spawning, children, inflight, nextSeq, stopping, msgs, tasks, shutdown,
                 reply, rows, worldVars>>

\* Faulty: dependencies first.
BottomWave == {c \in children : \A d \in children : WaveOf[d.name] >= WaveOf[c.name]}

\* shutdown(): the children of the highest wave left.
TopWave == {c \in children : \A d \in children : WaveOf[d.name] <= WaveOf[c.name]}

\* begin_stop on every child of a wave ...
BeginWave ==
  /\ pc = "teardown" /\ stopping = {} /\ children # {}
  /\ stopping' = TopWave
  /\ UNCHANGED <<pc, spawning, children, inflight, nextSeq, msgs, tasks, shutdown,
                 reply, rows, worldVars>>

\* ... then finish_stop on each, whose outcome says nothing of it either:
\* docker's is "killed" of a container it could neither wait for nor remove.
FinishStop ==
  \E c \in stopping :
    /\ pc = "teardown"
    /\ LetGo(c)
    /\ stopping' = stopping \ {c}
    /\ children' = children \ {c}
    /\ rows' = ServiceExited(rows, c.name)
    /\ UNCHANGED <<pc, spawning, inflight, nextSeq, msgs, tasks, shutdown, reply,
                   live, starts, heard>>

\* The receiver goes with the loop, and with it the senders of the commands
\* still queued.
Exit ==
  /\ pc = "teardown" /\ children = {}
  /\ pc' = "exited"
  /\ reply' = [r \in Request |->
                 IF \E k \in DOMAIN msgs : msgs[k].kind = "lifecycle" /\ msgs[k].req = r
                 THEN "dropped" ELSE reply[r]]
  /\ msgs' = <<>>
  /\ UNCHANGED <<spawning, children, inflight, nextSeq, stopping, tasks, shutdown, rows, worldVars>>

Kernel == \/ Handle \/ SpawnSucceeds \/ SpawnFails \/ SeeShutdown \/ ChildExits
          \/ SettleCommand \/ BeginTeardown \/ BeginWave \/ FinishStop \/ Exit

----------------------------------------------------------------------------
(* The phase tasks *)

\* run_build ended: on its own, failed, or killed because of the watch.
BuildEnds(t) ==
  \E ok \in BOOLEAN :
    /\ t.kind = "build"
    /\ tasks' = tasks \ {t}
    /\ rows' = BuildFinished(rows, t.name)
    /\ msgs' = Post([kind |-> "build", name |-> t.name, seq |-> t.seq, ok |-> ok])
    /\ UNCHANGED <<kernelVars, shutdown, reply, worldVars>>

\* begin_stop and finish_stop have returned, as in FinishStop.
StopEnds(t) ==
  /\ t.kind = "stop"
  /\ LetGo(t.inst)
  /\ tasks' = tasks \ {t}
  /\ rows' = ServiceStopped(rows, t.name)
  /\ msgs' = Post([kind |-> "stop", name |-> t.name, seq |-> t.seq, ok |-> TRUE])
  /\ UNCHANGED <<kernelVars, shutdown, reply, live, starts, heard>>

\* wait_ready's last check passed, or failed at the deadline.  Whether it does
\* is the service's business: nothing ties the check to this instance.
ProbeConcludes(t) ==
  \E v \in {"passed", "gave_up"} :
    /\ t.kind = "probe" /\ t.verdict = "checking"
    /\ tasks' = (tasks \ {t}) \cup {[t EXCEPT !.verdict = v]}
    /\ heard' = heard \cup {[inst |-> t.inst, verdict |-> v]}
    /\ UNCHANGED <<kernelVars, msgs, shutdown, reply, rows, live, starts, lost>>

\* Faulty: a probe that gives up ends without a word.
ProbeReportsPassing(t) ==
  /\ t.kind = "probe" /\ t.verdict = "passed"
  /\ tasks' = tasks \ {t}
  /\ rows' = ServiceReady(rows, t.name)
  /\ msgs' = Post([kind |-> "probe", name |-> t.name, seq |-> t.seq, ok |-> TRUE])
  /\ UNCHANGED <<kernelVars, shutdown, reply, worldVars>>

ProbeReports(t) ==
  /\ t.kind = "probe" /\ t.verdict # "checking"
  /\ tasks' = tasks \ {t}
  /\ rows' = IF t.verdict = "passed" THEN ServiceReady(rows, t.name) ELSE rows
  /\ msgs' = Post([kind |-> "probe", name |-> t.name, seq |-> t.seq,
                   ok |-> t.verdict = "passed"])
  /\ UNCHANGED <<kernelVars, shutdown, reply, worldVars>>

----------------------------------------------------------------------------
(* The instances, the clients, the operator *)

\* An instance exits: crashed, finished, or because it was told to.
Dies(i) ==
  /\ live' = live \ {i} /\ lost' = lost \ {i}
  /\ UNCHANGED <<kernelVars, msgs, tasks, shutdown, reply, rows, starts, heard>>

\* handle_client past the gate on startup.
Ask(r, c) ==
  /\ reply[r] = "unsent"
  /\ IF pc = "exited"
     THEN reply' = [reply EXCEPT ![r] = "not_accepting"] /\ UNCHANGED msgs
     ELSE /\ reply' = [reply EXCEPT ![r] = "waiting"]
          /\ msgs' = Append(msgs, [kind |-> "lifecycle", req |-> r, cmd |-> c])
  /\ UNCHANGED <<kernelVars, tasks, shutdown, rows, worldVars>>

\* `arig down`, or ctrl-c.
Down ==
  /\ shutdown' = TRUE
  /\ UNCHANGED <<kernelVars, msgs, tasks, reply, rows, worldVars>>

\* The supervisor process ends, which is not a deadlock.
Terminated == pc = "exited" /\ UNCHANGED vars

----------------------------------------------------------------------------
(* The specification *)

Init ==
  /\ pc = "steady" /\ spawning = {} /\ inflight = {} /\ nextSeq = 0
  /\ children = {[name |-> s, gen |-> 1, probed |-> s \in Probed] : s \in Service}
  /\ live \in SUBSET children   \* one may have died since the last look at it
  /\ msgs = <<>> /\ tasks = {} /\ stopping = {}
  /\ shutdown \in BOOLEAN
  /\ reply = [r \in Request |-> "unsent"]
  /\ rows = [s \in Service |->
       [state |-> "running", desired |-> "up", restarts |-> 0, ran |-> TRUE,
        ready |-> IF s \in Probed THEN "ready" ELSE "unchecked"]]
  /\ starts = [s \in Service |-> 1]
  /\ heard = {[inst |-> c, verdict |-> "passed"] : c \in {d \in children : d.probed}}
  /\ lost = {}

Next ==
  \/ Kernel
  \/ WaitFails
  \/ \E t \in tasks : BuildEnds(t) \/ StopEnds(t) \/ ProbeConcludes(t) \/ ProbeReports(t)
  \/ \E i \in live : Dies(i)
  \/ \E r \in Request, c \in Command : Ask(r, c)
  \/ Down
  \/ Terminated

\* The kernel task is scheduled, and so are the phase tasks.  A stop returns and
\* a probe has a deadline, so both end; a build ends for certain only
\* once the watch is set, since nothing else need bound it.  A runtime answers
\* a spawn.  Nothing makes an instance exit, a wait fail or a client ask.
Fairness ==
  /\ WF_vars(Kernel)
  /\ \A s \in Service :
       /\ WF_vars(\E t \in tasks : t.name = s /\ StopEnds(t))
       /\ WF_vars(shutdown /\ \E t \in tasks : t.name = s /\ BuildEnds(t))
       /\ WF_vars(\E t \in tasks : t.name = s /\ (ProbeConcludes(t) \/ ProbeReports(t)))

Spec == Init /\ [][Next]_vars

FairSpec == Spec /\ Fairness

----------------------------------------------------------------------------
(* Properties *)

Replies == {"unsent", "waiting", "ok", "refused", "failed", "superseded",
            "shutting_down", "dropped", "not_accepting"}

\* Every variable has its type.
TypeOK ==
  /\ pc \in {"steady", "settling", "teardown", "exited"}
  /\ spawning \in SUBSET Service
  /\ children \in SUBSET Instance /\ live \in SUBSET Instance
  /\ stopping \in SUBSET Instance /\ lost \in SUBSET Instance
  /\ inflight \in SUBSET Entry
  /\ nextSeq \in Nat
  /\ msgs \in Seq(Message)
  /\ tasks \in SUBSET Task
  /\ shutdown \in BOOLEAN
  /\ reply \in [Request -> Replies]
  /\ rows \in [Service -> Row]
  /\ starts \in [Service -> Nat]
  /\ heard \in SUBSET [inst: Instance, verdict: {"passed", "gave_up"}]

\* However commands, crashes and teardown interleave, two instances of a
\* service are never alive at once, but for what a runtime has lost sight of:
\* a start spawns only after the stop before it has returned (plan, advance,
\* stop_phase, start_phase).
OneInstance == \A i, j \in live \ lost : i.name = j.name => i = j

\* A command is never stranded: while the kernel is steady, every command in
\* flight has exactly one thing coming that will move it on, a task or the
\* completion it left in the queue, except the one whose spawn is awaited.
NeverStranded ==
  pc = "steady" => \A e \in inflight :
    Cardinality({t \in tasks : t.name = e.name /\ t.seq = e.seq})
      + Cardinality({k \in DOMAIN msgs : /\ msgs[k].kind # "lifecycle"
                                         /\ msgs[k].name = e.name /\ msgs[k].seq = e.seq})
      = IF e.name \in spawning THEN 0 ELSE 1

\* A client is waiting exactly while its request is queued or its command in
\* flight still holds the sender: nobody is forgotten and nobody answered
\* while its command lives on unanswered ("Answered exactly once, on every
\* path", KernelMsg::Lifecycle).
WaitingMeansHeld ==
  \A r \in Request :
    Cardinality({k \in DOMAIN msgs : msgs[k].kind = "lifecycle" /\ msgs[k].req = r})
      + Cardinality({e \in inflight : e.reply /\ e.req = r})
      = IF reply[r] = "waiting" THEN 1 ELSE 0

\* "While a service is being built, stopped or spawned, a second command for
\* it is refused" (README): a service never has two of those going at once.
WorkIsExclusive ==
  \A s \in Service :
    Cardinality({t \in tasks : t.kind \in {"build", "stop"} /\ t.name = s}
                \cup {x \in {"spawn"} : s \in spawning}) <= 1

\* What is being done with a service, the more telling first: a build leaves
\* the instance that runs alone.
Busy(kind, s) == \E t \in tasks : t.kind = kind /\ t.name = s

Doing(s) == IF s \in spawning THEN "starting"
            ELSE IF Running(s) THEN "running"
            ELSE IF Busy("stop", s) THEN "stopping"
            ELSE IF Busy("build", s) THEN "building"
            ELSE "stopped"

\* What `arig ps` says of each service, by a tracker that has caught up, is
\* what the kernel and its phase tasks are doing with it, and the restart
\* counter tells consecutive instances apart (StateTracker::apply against
\* everything in the kernel that emits).
RowTellsTruth ==
  pc = "steady" => \A s \in Service : /\ rows[s].state = Doing(s)
                                      /\ rows[s].restarts + 1 = starts[s]

\* An "ok" is true when it is sent: nothing of a stopped service is alive but
\* what its runtime could neither follow nor remove, a start or a restart left
\* a new instance the kernel holds whose own probe passed unless the client
\* would not wait for it, and a build that command ran succeeded.  A completion
\* of an earlier command must not answer for a later one.
AnswersAreTrue ==
  [][\A e \in inflight :
       reply[e.req] = "waiting" /\ reply'[e.req] = "ok" =>
         CASE e.cmd.verb = "stop"  -> \A i \in live' \ lost' : i.name # e.name
           [] e.cmd.verb = "build" -> Head(msgs) = [kind |-> "build", name |-> e.name,
                                                    seq |-> e.seq, ok |-> TRUE]
           [] OTHER -> \E c \in children' \ e.found :
                         /\ c.name = e.name
                         /\ c.probed /\ ~e.cmd.no_wait =>
                              [inst |-> c, verdict |-> "passed"] \in heard]_vars

\* "A failed build leaves the old instance running" (service-lifecycle.md):
\* the command that fails on its build leaves the instances it found.
FailedBuildKeepsService ==
  [][\A e \in inflight :
       /\ msgs # <<>> /\ msgs' = Tail(msgs)
       /\ Head(msgs) = [kind |-> "build", name |-> e.name, seq |-> e.seq, ok |-> FALSE]
       => {c \in children' : c.name = e.name} = e.found]_vars

\* A service that was asked to stop never reads as one that died: until the
\* stack goes down, a row turns "exited" only while its service is wanted up
\* and nothing is stopping or starting it.
StopIsNoCrash ==
  [][\A s \in Service :
       pc = "steady" /\ rows'[s].state = "exited" /\ rows[s].state # "exited" =>
         rows[s].desired = "up" /\ rows[s].state = "running"]_vars

\* What there is of each service without the messages, tasks and clients: an
\* instance that the kernel holds, one that is alive, one that is alive and
\* lost sight of, the work under way, and what `arig ps` shows.
Held   == {c.name : c \in children}
Alive  == {i.name : i \in live \ lost}
Adrift == {i.name : i \in lost}
Work  == [s \in Service |-> {k \in {"build", "stop"} : Busy(k, s)} \cup
                            {x \in {"spawn"} : s \in spawning}]
Shown == [s \in Service |-> [state |-> rows[s].state, desired |-> rows[s].desired,
                             restarts |-> rows[s].restarts]]

Promise == INSTANCE Supervision
  WITH down <- pc # "steady", held <- Held, alive <- Alive, adrift <- Adrift,
       doing <- Work, row <- Shown

\* Underneath the messages, the tasks and the clients, the kernel does what
\* module Supervision promises: each of its steps is one of the promise's, or
\* nothing that a user of `arig ps` or of a service could tell.
SupervisesAsPromised == Promise!Spec

\* Dependents before their dependencies: when a wave is told to stop, no
\* instance of a later wave is alive, in the kernel's hands or a stop task's,
\* but one the runtime had already lost sight of: it could not wait for it, or
\* in the end neither wait for it nor remove it (finish_stop of docker).
DependentsFirst ==
  \A c \in stopping : \A i \in live : WaveOf[i.name] > WaveOf[c.name] => i \in lost

\* Once the kernel is out of its loop nothing it started is still there: no
\* instance but one whose wait failed or whose finish_stop gave up on it, no
\* build, no stop half done.
NothingLeftBehind ==
  pc = "exited" => live \subseteq lost /\ \A t \in tasks : t.kind = "probe"

\* What the supervisor says last, "all services stopped".
AllServicesStopped == pc = "exited" => live = {}

\* "A service is running and pending between starting and passing its probe"
\* (README): a pending row has a probe at work, or one that came to its end.
PendingIsProbed ==
  pc = "steady" => \A c \in children :
    rows[c.name].ready = "pending" =>
      \/ \E t \in tasks : t.kind = "probe" /\ t.inst = c
      \/ \E h \in heard : h.inst = c

\* `down` wins: whatever commands are in flight, spawning or queued, the
\* kernel leaves its loop once the watch is set.
DownWins == shutdown ~> pc = "exited"

\* A child that died is noticed: it does not stay among the children, where a
\* stack would go on calling it running.
CrashIsSeen ==
  \A s \in Service :
    (\E c \in children \ live : c.name = s) ~> ~(\E c \in children \ live : c.name = s)

\* Every client is answered, unless some build never ends.
Answered ==
  (\A s \in Service : []<>(~\E t \in tasks : t.kind = "build" /\ t.name = s)) =>
    \A r \in Request : reply[r] = "waiting" ~> reply[r] # "waiting"
=============================================================================
