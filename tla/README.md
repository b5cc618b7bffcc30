# A TLA+ model of arig's supervisor

arig starts the services of an `arig.yaml` in dependency order, keeps them
running, and lets clients stop, start, restart and build single services while
the stack is up. This directory models the supervisor from the moment a process
tries to claim a workspace to the moment it exits: who gets to run, in which order
services come up and go down, what clients and `arig ps` are told, what becomes of
the output of the services, and how a service is actually stopped. TLC checks the
models on small instances; TLAPS proves the properties that matter most for
instances of any size.

Paths below are relative to the repository. Line numbers are in `PROJECT.json`,
which maps every definition to the code it models.

## The system

The supervisor is one process (`src/supervisor/mod.rs`). Its **kernel** is one
async task. Around it run, each as tasks of their own: the IPC handlers of
connected clients, the phases of lifecycle commands that would block the kernel
(a stop, a build, a probe), the tracker of rows and the log sinks. They share

* an unbounded **message queue** into the kernel (commands and completions);
* a **shutdown watch**, a boolean that is only ever set: by `arig down`, ctrl-c,
  the kernel after an unexpected exit, the timeout of the build stage;
* an **event bus**, from which the tracker derives what `arig ps` shows;
* two more watches, the **startup verdict** and **builds done**, on which
  `arig wait` and a detaching `up` block.

| Component | State | Operations | Hard because |
| --- | --- | --- | --- |
| dependency waves, `dag.rs` | in-degrees, queue, waves | `toposort` | duplicates, unknown names and cycles in `depends_on` |
| kernel, startup | wave being started, oneshots and probes to wait for, children | `build_all`, `run`, `exited_during_startup`, `shutdown`, epilogue of `up` | every wait races the watch; failures half-way; services dying meanwhile |
| kernel, steady state | children, commands in flight, sequence numbers | `handle`, `accept`, `advance`, the three phases, `settle_commands`, `shutdown` | commands, completions, crashes and `down` in any order; a spawn is awaited inside a handler |
| state tracker, `state.rs` | a row per service, the verdict, builds done | `apply`, `finish_startup`, `finish_builds`, `wait_startup`, `wait_built` | rows are a fold over events of several tasks; first verdict wins |
| IPC handlers | one connection each | `handle_client`, `lifecycle` | a client must be answered once, on every path, before the process exits |
| runtimes, `runtime/` | the process or container | spawn, wait, try_exit, begin_stop, finish_stop, kill | stops escalate, waits fail, checks cannot always tell |
| endpoint, `ipc.rs` | socket, pidfile | `bind`, `cleanup_stale`, `probe`, `cleanup` | several processes, no lock, files left by a crash, recycled process numbers |
| client, detach, `client.rs`, `main.rs` | — | `down`, `up -d`, requests with timeouts | an answer racing the process's exit; whoever answers may be another supervisor |
| event bus, `event.rs` | bounded broadcast, count of events, cursors | `emit`, `recv`, `drain` | receivers lag; counting and sending are two steps |
| sinks and log plumbing, `sink/`, `supervisor/logs.rs` | log files, tails, readers | `pipe_output`, `push_tail`, `drain_io`, `dump_tail`, the sink task | gaps; files that cannot be opened; readers that outlive the service |
| config, registry, probes, platform | none that matters here | — | — |

What makes each of them correct:

* waves: a dependency is always in an earlier wave; the verdict on a config is right;
* startup: builds before services, dependencies before dependents, "ready" only
  when it is so, everything taken down again when it fails or is called off,
  and a verdict in the end, one and the same for everybody;
* steady state: one instance of a service, one piece of work on a service,
  no command stranded, no client forgotten, no false answer, crashes told apart
  from stops, dependents down before dependencies, nothing left behind but what a
  runtime gave up on;
* tracker: what `ps` says is what the kernel is doing;
* endpoint: a workspace has one supervisor, a crash locks nobody out, and "stopped"
  and "started" are said of the right process;
* bus, sinks, logs: nothing is lost without a notice, `drain` waits for all it should
  and ends, the tail that is dumped is the end of the output;
* runtimes: when a stop has returned the service is gone, unless the daemon could neither
  follow nor remove it, and a stop returns.

## The modules

| Module | Models | Composes |
| --- | --- | --- |
| `Waves` | `dag::toposort`, a step per turn of its loop | |
| `StateTracker` | the arms of `StateTracker::apply` as operators on rows | |
| `Startup` | `Kernel::run` up to the steady state, `up`'s epilogue, the verdicts, the gate in front of lifecycle commands | `StateTracker`; hands over to `Lifecycle` |
| `Supervision` | what the supervisor promises of each service while the stack is up and goes down, without messages, tasks and clients | |
| `Lifecycle` | `Kernel::steady_state`, phase tasks, clients, instances, teardown | `StateTracker`; implements `Supervision` |
| `Endpoint` | `bind`, `cleanup_stale`, `cleanup` of any number of supervisors that start, serve, leave and crash; `up -d` (`detach_and_exit`, `watch_child`) and `down` | |
| `Bus` | `emit`, the broadcast channel, the sink task, the tracker's task, the readers of the services' pipes, the kernel as far as its output goes, `drain` | `StateTracker` |
| `RunningService` | what the kernel can rely on of a runtime: a stopped service is gone, or the runtime failed | |
| `Runtime` | the handle both runtimes share: the kernel's last call and how far it has come | |
| `ProcessService` | `runtime/process.rs`: process groups, signals, the shutdown hook | `Runtime` |
| `DockerService` | `runtime/docker.rs`: a container by name, a daemon whose every answer may be an error | `Runtime` |
| `Stopping` | a service of either runtime, as the registry gives it one | `ProcessService`, `DockerService`; implements `RunningService` |
| `MC...` | constants for TLC | |
| `..._proofs` | theorems about the module of that name; `LifecycleTruth_proofs` is the second part of those about `Lifecycle` | |

Definitions commented "Faulty" are variants of the one that follows them, each
with a bug someone could plausibly have written. No specification uses them;
each property is violated when the variant `PROJECT.json` names for it takes the
definition's place, so each property depends on the code being as it is.

### Waves

`inDegree`, `queue`, `visited` and `waves` are the variables of the function. The
queue and each wave are sets, since they are filled from hash maps, whose order
means nothing. `depends_on` stays a list: it may repeat a name, and the in-degree
counts every repetition, as `len()` does.

### Startup

`pc` is where the kernel is: the build stage, and for each wave the spawns, the oneshots
and the probes; then the check for services that died, the steady state or a teardown,
and the epilogue. Wherever the code awaits, the model has a step boundary, at which
services die, the operator asks for `down` and clients ask and are answered. Only the
waits on oneshots and probes look at the watch, as in the code. A failed oneshot or
probe records the verdict *before* the teardown, so lifecycle commands get past the gate
during it and are dropped with the queue. Leaving `run` before the builds, for a config
that does not sort or validate, is `Rejected`. A `finish_stop` returns whether or not
the service is gone, and `lost` are those that are not. `started`, `vouched`,
`deadAtCheck`, `blind` and `blocked` are history variables: nothing reads them but
properties.

`HandsOver` instantiates `Lifecycle` with what startup has made of the stack: where the
code calls `steady_state`, the rows, the instances and the verdicts of the probes are
an initial state of that module.

### Lifecycle

`children`, `inflight` and `nextSeq` are `Steady`. An entry of `inflight` is an
`InFlight`: its plan, its task, whether the client's sender is still there. A
phase that blocks is an element of `tasks`, whose end posts a message to `msgs`.
An instance is a service name with a generation, so "another instance of the
same service" can be said; `live` is which of them run. `spawning` is the
service whose spawn the kernel awaits in the middle of a handler; everything but
the kernel goes on meanwhile. `Handle` takes one message and runs the whole
handler, `Advance` included, up to that await.

Aborting a probe is modelled as it works in tokio: a task is dropped at an await.
A probe whose check has come to a verdict has no await left, so it still emits
`ServiceReady` and still sends its completion, which `is_current` has to drop.

Data is abstracted to what the kernel's decisions depend on. A service's
definition is whether it has a probe, which an edit of the config may change at
every start. That the config does not parse, has changed shape, does not
validate or names no build is a free choice of `Refuse`. Log output, pids, times
and wording are left out.

What it takes from the runtimes: an instance exits whenever it likes; a stop returns,
and a wait ends, whether or not the instance is gone. Docker's `finish_stop` answers
"killed" when the wait or the kill failed, after a forced removal whose failure is only
logged (`src/runtime/docker.rs:350`), and neither `stop_phase` nor `shutdown` looks at
the answer; its wait fails when the daemon fails the request or closes the stream. Such an
instance goes into `lost` (`LetGo`) and dies when it likes; what is said of stops below
is said of `live \ lost`, which is what `RunningService` promises, with its `failed`, and
`Stopping` shows of both runtimes. A new instance may meet a lost one: once the stop has
returned, nothing keeps a start from following (`OneInstance`). Rows are those of a tracker
that has applied every event, which `Bus` takes up.

`Supervision` is the same seen from outside. It has six variables: whether the stack is
going down, which services the supervisor has an instance of, which are alive, which
have one that is alive and lost sight of (`adrift`), the work under way on each, and the
row of each. Its actions are about one service: a build begins or ends, a stop or a
spawn does, an instance dies, is found dead, is lost sight of, is taken down; where it
is let go of while alive, it is adrift (`Parts`). They say what may happen to a service
and in which state of it: a stop begins on an instance that is held and reads "running",
and lets go of it, a spawn only where nothing is held or alive but what is adrift,
"exited" is for an instance that nobody stopped, nothing begins once the stack goes
down, and then the last wave goes first and only when all work is done.
`SupervisesAsPromised` says that `Lifecycle` implements it, with `Held`, `Alive`,
`Adrift`, `Work` and `Shown` for the refinement mapping: messages, the order and number
of commands, probes and clients change nothing of it.

### Endpoint

A supervisor's `pc` goes through `bind` one file-system call at a time: look at
the socket (`checking`), read the pidfile and ask the OS about the number in it
(`reading`), unlink the socket (`evicting`), unlink the pidfile (`clearing`), bind
(`binding`), write the pidfile (`bound`). Then it builds, serves and drains, and its
`IpcCleanup` unlinks the socket and then the pidfile. It may crash at any of these,
leaving what is there. `pid` is the process number it has; numbers come from a
small set, `others` are those that live processes foreign to the workspace have, and
both kinds are given out again.

An `up -d` is `launch`: it probes, spawns a supervisor of its own, probes again
until somebody answers or its child dies, and asks *whoever listens* about the builds. A
`down` is `ask`: it connects, is acknowledged before the watch is set, and
polls the socket until nobody answers. `peer` is whom each reached.

Nothing in the code makes the stale check and the bind one operation, so two
supervisors that start at the same time can take the endpoint from each other. The
comments and docs claim nothing of such starts, and `overlapped`, a history
variable, records that one has happened: two supervisors are between the stale
check and the pidfile, or one is while another has unlinked its socket and not yet
its pidfile. The properties are about all other behaviours; crashes, restarts,
recycled numbers and leaving supervisors are among them. What happens in an overlap
is instructive all the same: an old supervisor that unlinks its pidfile late deletes
its successor's, and a third that starts after that finds a socket and no pidfile,
and evicts the successor. `overtaken` marks an `up -d` between whose probe and
whose supervisor's bind another one came up; it reports the builds of that one.

### Bus

`sent` is everything sent so far, of which the channel holds the last `Capacity`;
`next` is where each of the two receivers reads. An emitter *counts* an event
(`emitted`) and then *sends* it, in two steps, and `drain` takes the count for its
target. The sink task writes an event to the terminal (`console`) and to the log files
(`disk`), both of which hold the positions they tell of, as the line or as a notice
that it was lost; then it adds to its `cursor`. A log file that cannot be opened (any of
`Broken` may turn out so) is recorded as broken and complained about, which is an event in
its turn, and goes to the session log, which may be the very file. A write that fails is
not told from one that succeeds, by the code as by the model. The tracker
applies events to `rows` and, when it lags, remembers nothing of what it missed:
`missed`, which is history, says which services that concerned.

Each pipe of a service has a reader. It may fail (a line that is not UTF-8). A service
that dies may leave its pipes open in the hands of something it forked (`held`). The
kernel spawns, reports a death (event, `drain_io`, `dump_tail`) or a failed wait (the
same without the event), stops what is left,
and drains. Of its own lines only those that dump a tail are in the model.

What a lost line looks like: the terminal and the session log carry the notice, the
log file of the service does not.

### Stopping

`call` is the kernel's last call on a service's handle, `step` how far it has come,
`outcome` what it learnt. A **process** is a set of live processes, `group`, led by the
shell; members fork, exit, and may be deaf to SIGTERM. `begin_stop` signals the
group, unless there is a hook, which `finish_stop` runs with a deadline and whose own
group it kills. The grace period may run out at any time, and the group is killed.
A **container** is known to the daemon by its name, which every instance of the
service bears: the stop that `begin_stop` hands to a task may reach the daemon late, and
then stops whatever bears the name. A wait may fail while the container runs.
The abstract `RunningService` has three variables and says that a call returns with
the service gone, or `failed` set: the daemon could neither say nor remove.

A graceful stop of a process waits for its shell only. What the shell forked gets the
signal, and is not waited for or killed; `README.md:80` of the repository, "gone", can
be read of the shell, so `NothingOutlivesAKill` is about kills.

## What TLC checks

| Run | Instance | Properties |
| --- | --- | --- |
| `lifecycle_commands` | 1 service with a probe, 3 requests | `OneInstance` `NeverStranded` `WaitingMeansHeld` `WorkIsExclusive` `RowTellsTruth` `AnswersAreTrue` `FailedBuildKeepsService` |
| `lifecycle_waves` | 2 services in 2 waves, 2 requests | `DependentsFirst` `NothingLeftBehind` `SupervisesAsPromised` |
| `lifecycle_live` | 1 service, 1 foreign name, 2 requests, fair | `DownWins` `CrashIsSeen` `Answered` |
| `startup` | database (probe, build), migration (oneshot), API (build) that needs both; 2 clients, fair | `DependenciesFirst` `BuildsFirst` `ReadyIsEarned` `ClientsHearTheTruth` `NoServiceSurvives` `HandsOver` `VerdictIsFinal` `DownEnds` `StartupSettles` `NobodyHangs` |
| `waves` | 3 services, every `depends_on` of up to 2 entries, one unknown name | `DependenciesEarlier` `AsEarlyAsPossible` `VerdictIsRight` `Terminates` |
| `endpoint` | 3 supervisors, one of them of an `up -d`, 1 `down`, 2 process numbers | `OneSupervisor` `StoppedIsStopped` `OwnSupervisorAnswers` `RefusedForCause` |
| `bus` | 1 service, 2 streams of a line each, a session log that may not open; 2 events in the channel, 1 line of tail; fair | `NoSilentGap` `DrainMeansWritten` `OneComplaint` `DumpIsTheEnd` `OnlyMissedRowsAreStale` `DrainEnds` |
| `stopping` | both runtimes; a shell and two processes, a hook and one; 3 instances; fair | `KeepsThePromise` `NothingOutlivesAKill` `StopReturns` |

Type invariants are proved for every module with a specification and not run again.

Every property is stated in words above its definition.

**Bounds.** The models themselves have none: sequence numbers, generations and
restart counters grow with the commands, and TLC terminates because each request
is one command. *Three requests* on one service are what the intricate cases
need: a command, one that supersedes it while its probe runs, and a third that
meets the completion the first left behind. Commands on different services share
no state but the kernel's attention and the teardown, for which two services and
two requests are enough: one stopping or being built, the other going down.
*One client request each* loses nothing, as a client that asks again is another
client. For startup, the stack has each kind of service once, a dependency within
reach of each kind, and two waves; two clients can be waiting for different
things. Three names in `waves` give every shape of cycle up to length three, self
dependencies and duplicates. Requests are symmetric in the safety runs;
the liveness runs use no symmetry.

*Three supervisors* are one that leaves something behind, one that trips over it and one
that comes when the second is up; one of them is of an `up -d`, so that it can be the
predecessor, the victim or the successor. *Two process numbers* suffice for one to be
recycled while another is in use. For `bus`, a *channel of two* with receivers that may
stand still makes every lag from none to almost everything; two streams of one service
interleave in the tail, whose ring of one line overflows. (That the order of many lines
survives in a longer ring is the theorem's part.) The file that may not open is the
session log, since that is the one the complaint comes back to. `OneIsBehind` is a
constraint that keeps only states in which at most one of the two receivers is behind;
neither waits for the other nor reads the other's state, so a pair of lags shows nothing
that the two do not show each for itself. `OneOddStream` keeps those in which at most
one of the two streams is held open by what the service left behind or has lost its
reader. (`DrainEnds` is checked on the behaviours within both.) For `stopping`, two
members are one that heeds SIGTERM and one that does not, and three instances
(`MaxStarts`, in the guard of docker's spawn) let a late stop reach the next one but
one.

**Fairness.** The kernel task is scheduled by tokio, and so are phase tasks and
handlers: weak fairness of each. A runtime answers a spawn. A stop returns because
both runtimes escalate to a kill and wait no longer than that (`StopReturns`), whether or
not the instance is gone then, and a probe ends because it has a deadline. No instance is
assumed to die. A build
is fair only once the watch is set, which kills it; before that nothing else need
bound it, and `Answered` and `StartupSettles` say so by assuming that builds (and
oneshots, which need not have a timeout) do end. Nothing makes an instance crash,
a wait fail, a client ask or an operator call for `down`. In `Bus` the emitting
tasks, the sink task and the kernel are scheduled; services write, die and deadlines
expire as they please, so `DrainEnds` owes nothing to the deadline of `drain`. In
`Stopping` the runtime's steps are taken (timers expire) and a container that is being
stopped exits; a daemon that can neither kill a container nor fail the wait for it
is excepted in `StopReturns`: `finish_stop` then waits as long as docker's client
does. `Endpoint` states no fairness, as its properties are all about safety.

"A runtime answers a spawn" is an assumption with a price: the kernel awaits a spawn
in the middle of a handler, and a docker pull that hangs keeps it from everything
else, `down` included.

### What the runs found

Four runs end in a violation. Each checks what the repository says about the
program.

* `lifecycle_wait_fails`, `AllServicesStopped`. A failed *wait* is taken for an
  exit: the child is skipped by the teardown and runs on, while the log says "all
  services stopped". `NothingLeftBehind` holds with those instances excepted.
* `lifecycle_pending`, `PendingIsProbed`. A `build` (or a `restart --build` whose
  build fails) during a start's probe aborts the probe and leaves the instance:
  it reads `pending` for the rest of its life.
* `startup_down`, `DownStopsEverything`. `down` during a oneshot leaves that
  oneshot, and the others of its wave, running. `NoServiceSurvives` is about
  long-running services for this reason.
* `startup_closed`, `NoClosedConnection`. The verdict recorded for the clients
  blocked in `arig wait` may not reach them: nothing waits for the tasks that
  write it out. `NobodyHangs` says what is left: they hear of it, if only by the
  connection closing.

Other behaviours met on the way, excepted in a property or left out of it; but for the
first, they contradict nothing the repository says:

* `finish_stop` of a container that the daemon can neither wait for nor remove answers
  "killed", and `arig stop` answers "ok" all the same, where `README.md:78` has it return
  "once the service is actually gone". The log has the two errors by then.
  `AnswersAreTrue`, `OneInstance`, `DependentsFirst`, `NothingLeftBehind` and
  `NoServiceSurvives` except such a container and nothing else;
* a spawn that fails in a wave leaves `run` at once, with the services before it
  running (`NoServiceSurvives`);
* a probe that has passed when it is aborted still reports, so the row of a stopped
  service may read ready (`RowTellsTruth` is about states and restarts);
* the number in a stale pidfile may be that of a live process, even of the very
  supervisor that reads it, and then no supervisor gets in until the file is removed
  (`RefusedForCause`);
* the row of a service whose last event the tracker missed stays stale, for good if
  there is no later one, where the comment at `src/state.rs:357` expects a next event
  (`OnlyMissedRowsAreStale`);
* a stop that reaches the daemon late stops the next container of the same name.

## What TLAPS proves

Each theorem is `Spec => []P`, or `Spec => P` for an action property or a refinement.

| Module | Properties proved |
| --- | --- |
| `Lifecycle_proofs` | `TypeOK` `OneInstance` `WorkIsExclusive` `NothingLeftBehind` `DependentsFirst` |
| `LifecycleTruth_proofs` | `RowTellsTruth` `StopIsNoCrash` `WaitingMeansHeld` `NeverStranded` `FailedBuildKeepsService` `AnswersAreTrue` `SupervisesAsPromised` |
| `Startup_proofs` | `TypeOK` `DependenciesFirst` `BuildsFirst` `ReadyIsEarned` `ClientsHearTheTruth` `NoServiceSurvives` `HandsOver` `VerdictIsFinal` |
| `Waves_proofs` | `TypeOK` `DependenciesEarlier` `AsEarlyAsPossible` `VerdictIsRight` |
| `Endpoint_proofs` | `TypeOK` `OneSupervisor` `StoppedIsStopped` `OwnSupervisorAnswers` `RefusedForCause` |
| `Bus_proofs` | `TypeOK` `NoSilentGap` `DrainMeansWritten` `OneComplaint` `DumpIsTheEnd` `OnlyMissedRowsAreStale` |
| `Stopping_proofs` | `TypeOK` `NothingOutlivesAKill` `KeepsThePromise` |

`PROJECT.json` gives each theorem's name. `StateTracker_proofs` has type lemmas about the
rows that the others use.

**Lifecycle**, from `ConstantsAssumption` (there is a service, waves are numbers,
foreign names are not services, what has a probe is a service): any set of services, any
waves, any set of requests. `OneInstance` is not inductive. That a start never meets the
old instance is a fact about where the instance is before it: with the kernel, or with a
stop task that holds it, and that task's command has the service until the completion it
posts has been handled. `IInv` says so:

* `Distinct`: a service has at most one child and at most one command, and what is
  left of a command's plan is nothing, a start, or a stop and a start;
* `OneTokenPerSeq`: sequence numbers in use are below `nextSeq`, and each has at most
  one task or completion, so that a completion is the one its command waits for;
* while the kernel is steady, `WorkBelongs` (a build or stop task belongs to the
  command of its service, which is waiting for work), `LiveIsHeld` (every live
  instance that is not lost is a child or in the hands of a stop task, and no service
  has both) and
  `StartsOnNothing` (a command about to start, or awaiting its spawn, has no child
  of its service, and the latter nothing else under way).

`DInv` adds what the way down needs: work belongs to a command until it is settled
(`WorkBelongs`, now wherever the kernel is), a live instance is a child, in the hands of
a stop task, or lost (`LiveIsAccounted`), and each stage of the way down is done with
what it had to wait for (`Stages`). The three facts, initially, by every step, and
implying the properties, are in `InitSafe`, `StepSafe`, `InitDown` and `StepDown`, one
lemma per group of actions beneath them.

`LifecycleTruth_proofs` adds three invariants to `DInv`, one for each audience:

* for who reads `arig ps`, `RowsOK`: each service's row is what is being done with it,
  has counted its instances, and is wanted up while it reads "running". It is inductive
  because a service has one piece of work at a time, so that the event that ends it
  meets the row that the event before it left, and because every service of the
  steady state has run before, which is what `BuildFinished` and the restart counter
  look at;
* for the clients, `HInv`: a request is in the queue at most once, or in flight at most
  once, never both, and its client is waiting exactly if one of them holds the sender;
* for the commands, `KInv`: each has something that moves it on, and whatever the task
  or completion at hand will make the kernel say is already so. While a build
  is under way, or has ended, its command's instances are the ones it found; when a
  stop's completion is queued, what is alive of the service is lost; when a probe's is, the
  instance that passed is one the command did not find. `EntryKept` says when a
  command stays that way, `MoveTokens` that a command that moves on leaves the
  others so and is so itself. `AnswersAreTrue` then needs only
  `OkComesFrom`: an "ok" comes from a finished spawn or from the completion of that
  very command, since by `HInv` no two commands have the same client.

The refinement, `SupervisesAsPromised`, is proved step by step under `PInv`, which adds
to `DInv` and `RowsOK` that every service has run (`AllRan`, so that a build that ends
on the way down ends in "stopped"), and that a service being stopped has no child while
it is (`StopApart`, so that what a stop or the teardown lets go of is the one instance
that the promise knows of; `Parting` says that letting go of it is `Parts` of its
service). `StepPromise` names for each step of `Lifecycle` the step of `Supervision` it
is, one lemma per group: `MovePromise` (a message moves a command on, the phase it
begins decides), `SpawnPromise`, `LeavePromise`, `TakePromise`, `WorkEndsPromise`,
`DiesPromise`, and `UnseenSteps` for those that change nothing there. `StopIsNoCrash` is
a consequence (`FindsDead`), and has a short proof of its own.

**Waves**, from `ConfigsAssumption` (finitely many services; `depends_on` is a
list): the invariant `WInv` says what the counters stand for. A service's
in-degree is the number of entries of its `depends_on` that are in no wave yet
(`Counted`), and the queue holds the services for which that is none (`Due`). That
"cycle" is a right answer follows because the services left over when the queue
is empty each depend on one left over, which is what a cycle is. That "ok" is one
follows from `CyclesAreStuck`: no service of a cycle is ever placed, since the
first of them to be placed would have its dependency placed before it.

**Startup**, from `StackAssumption` (a stack as `toposort` hands it over: waves that
respect `depends_on` and are numbered from 0 without gaps). `ReadyIsEarned` is a
statement about every wave that ever was, made in a state that remembers one; the
invariant carries it along. `WaveByWave`: services of earlier waves have been started
and vouched for, and each of this wave is to be spawned yet, to be waited for yet, or
behind us too. `Checking`: whatever was dead when the exit check began still is, and is
to be polled yet, found, or one whose runtime could not tell. `BuildStage` and
`Accounted` say what precedes the first spawn and who holds a live service, if it is not
lost. `VerdictIsFinal` needs no invariant, only that every step that records a verdict
does it through `FinishStartup`. `HandsOver` adds `SpawnedOnce`: on the way up the
children are the long-running services started so far, nothing is spawned twice or lost,
and when all waves are up everything was started, everything there is to vouch for was,
and nobody has been found dead. And `RowsRise`: a service that has not been started has
no past, whatever its build did to its row, and one that has reads running, and ready
exactly if it has been vouched for. With `HandsOverAlways`, what is proved of
`Lifecycle` is proved of every stack that startup hands over to it.

**Endpoint**, from `ConstantsAssumption` (the supervisors of `up -d`s are
supervisors; `down`s are not): any number of processes, numbers and clients. Away from
overlaps, `InTurn`: who holds the endpoint is in both files, the pidfile once written
(`InFiles`); who is past the stale check, or has removed its socket but not its
pidfile, has nobody to harm (`NobodyHarmed`), which is where the liveness of the
process in the pidfile is used; who is leaving has left both (`LeftFiles`). `NotOvertaken`
and `Stopped` say what an `up -d` and a `down` know at each of their steps.
Numbers of live processes are distinct (`Numbered`), always.

**Bus**, from `ConstantsAssumption` (any services, lines, broken files, capacity):
`NoSilentGap` rests on the sink task's count of what it has written and what it owes
(`Kept`, `Written`); `DrainMeansWritten` on the count of events being the number sent
plus the number of emitters in between (`Counted`), so that a target taken from it
covers all that was sent (`Drained`); `OneComplaint` on a file being recorded as broken
before the complaint goes out, and complaints going out one at a time (`Complaining`,
`Complained`). The other two are about sequences of any length. `DumpIsTheEnd`: each
tail is the end of what was read of its service (`Tails`), which pushing a line and
dropping the oldest preserve, and after a join that was not cut short there is nothing
left to read (`Dumped`). `OnlyMissedRowsAreStale`: up to what the tracker has read, the
row of a service it missed nothing of is the fold of the events (`Fresh`), and the fold
over one event more is `Applied` to the fold before. `FoldLeft` is defined by a function
on the sets of positions, which is shown to exist for every length, by contradiction
from the least length at which it would not; so are the sums that say how long a tail
is.

**Stopping**, for any processes, hooks and number of instances: the refinement is
proved step by step. A step of either runtime is one of `RunningService` or leaves
its three variables alone, under an invariant that says, of each of the kernel's
calls, which of the runtime's steps it can be at, that a container being removed does
not run unless a wait failed, and that a process whose kill has been reported has no
member left (`DockerInv`, `ProcessInv`).

Only model-checked: liveness (`DownWins`, `CrashIsSeen`, `Answered`, `DownEnds`,
`StartupSettles`, `NobodyHangs`, `Terminates`, `DrainEnds`, `StopReturns`), which is out of
this prover's reach. Every invariant, action property and refinement that a run checks
is a theorem. The four properties of the runs that end in a violation are, of course, not.

## What is not modelled

* Config parsing, defaults and the registry's lookups: no state of their own. The answer of
  `build_phase` to a runtime that is not registered (`src/supervisor/mod.rs:1082`) cannot
  occur: `Runtime::build`, which nothing overrides, names the process runtime, and
  `Registry::with_builtins` always has it. That a
  config may be unreadable or invalid by the time a command needs it is a free choice
  of `Lifecycle!Refuse`.
* The wire format, and the clients that make one request and print one answer: their
  side of it is a timeout, after which the command runs on in the supervisor.
* How a probe checks: it passes or fails as the outside world pleases, until its deadline.
* Reading a container's logs and describing a container to the daemon. Container names
  carry the name of the service and not of the workspace (`src/runtime/docker.rs:55`), so
  two workspaces can meet in a name; the models are of one workspace.
* Windows: job objects and named pipes. The models describe the unix build.
* Wording, layout, colours, pids and times in output.

## Left to do

* `Lifecycle` over `RunningService` in place of its own instances, and over a bus
  whose tracker lags.
