------------------------------- MODULE Startup -------------------------------
(***************************************************************************)
(* From `up` to the steady state or out again: Kernel::run, the epilogue   *)
(* of up() (src/supervisor/mod.rs), the verdicts `arig wait` and a         *)
(* detaching `up` block on (src/state.rs), and the gate that keeps         *)
(* lifecycle commands out until startup has settled.                       *)
(*                                                                         *)
(* The kernel brings the stack up wave by wave: spawn the wave, wait out   *)
(* its oneshots, wait for its probes.  Only the waits race the shutdown    *)
(* watch.  Services, builds and clients take their steps in between.       *)
(***************************************************************************)
EXTENDS StateTracker, Integers, FiniteSets

CONSTANTS
  Service,   \* every service of the config, each started once here
  Oneshot,   \* those of type oneshot
  Probed,    \* the long-running ones with a readiness probe
  Built,     \* those with a build to run ({} under --no-build)
  Deps,      \* depends_on
  WaveOf,    \* the wave dag::toposort put each service in
  Client     \* IPC clients, one request each

Waves == {WaveOf[s] : s \in Service}
LongRunning == Service \ Oneshot

\* What dag::toposort hands over; module Waves is about how it gets there.
ASSUME StackAssumption ==
  /\ Oneshot \subseteq Service /\ Probed \subseteq LongRunning /\ Built \subseteq Service
  /\ Deps \in [Service -> SUBSET Service]
  /\ WaveOf \in [Service -> Nat]
  /\ IsFiniteSet(Waves) /\ Waves = 0 .. Cardinality(Waves) - 1
  /\ \A s \in Service : \A d \in Deps[s] : WaveOf[d] < WaveOf[s]

VARIABLES
  pc,        \* where Kernel::run is; see TypeOK
  wave,      \* wave_idx
  todo,      \* services of the wave not spawned yet; children not polled yet
  oneshots,  \* wave_oneshots not waited for yet
  probes,    \* wave_probes not waited for yet
  cur,       \* the oneshot or the probe being waited for, if any
  children,  \* the long-running services spawned
  stopping,  \* the wave shutdown() is waiting for
  gone,      \* children the exit check found dead
  outcome,   \* what run() is returning, and why
  builds,    \* how each build stands
  startup,   \* StateTracker::startup, the first verdict
  built,     \* StateTracker::built
  shutdown,  \* the shutdown watch
  rows,      \* StateTracker, once it has applied every event emitted so far
  live,      \* services whose process (or container) is alive
  lost,      \* those of them whose runtime failed to stop them
  succeeded, \* oneshots that exited with success
  asked,     \* what each client asked
  reply,     \* what it heard
  started,   \* history: services spawned
  vouched,   \* history: oneshots seen to succeed, probes seen to pass
  deadAtCheck, \* history: children dead when the exit check began
  blind,     \* history: children that were dead but whose runtime could not tell
  blocked    \* history: clients waiting when the epilogue recorded its verdict

kernelVars  == <<pc, wave, todo, oneshots, probes, cur, children, stopping, gone, outcome>>
verdictVars == <<startup, built>>
worldVars   == <<live, lost, succeeded, builds>>
clientVars  == <<asked, reply>>
historyVars == <<started, vouched, deadAtCheck, blind, blocked>>
vars == <<kernelVars, verdictVars, worldVars, clientVars, historyVars, shutdown, rows>>

\* What an action of the kernel leaves alone unless it says otherwise.
outsideVars == <<worldVars, clientVars, historyVars, shutdown>>

----------------------------------------------------------------------------
(* Verdicts *)

\* Faulty: the last verdict wins.
FinishStartupAlways(v) == startup' = v

\* StateTracker::finish_startup
FinishStartup(v) == startup' = IF startup = "pending" THEN v ELSE startup

----------------------------------------------------------------------------
(* The build stage *)

\* Leave run() with nothing to tear down.
Return(why) ==
  /\ pc' = "returned" /\ outcome' = why
  /\ UNCHANGED <<wave, todo, oneshots, probes, cur, children, stopping, gone>>

\* A stack that does not sort, or a service or probe that is not valid: the
\* verdict is left to the epilogue.
Rejected ==
  /\ pc = "begin"
  /\ Return("rejected")
  /\ UNCHANGED <<verdictVars, outsideVars, rows>>

BeginBuilds ==
  /\ pc = "begin"
  /\ pc' = "building"
  /\ builds' = [s \in Built |-> "running"]
  /\ rows' = [s \in Service |-> IF s \in Built THEN BuildStarted(rows, s)[s] ELSE rows[s]]
  /\ UNCHANGED <<wave, todo, oneshots, probes, cur, children, stopping, gone, outcome,
                 verdictVars, live, lost, succeeded, clientVars, historyVars, shutdown>>

\* run_build ended: on its own, failed, or killed because of the watch.
BuildEnds(s) ==
  \E end \in {"ok", "failed"} :
    /\ pc \in {"building", "collecting"} /\ builds[s] = "running"
    /\ builds' = [builds EXCEPT ![s] = end]
    /\ rows' = BuildFinished(rows, s)
    /\ UNCHANGED <<kernelVars, verdictVars, live, lost, succeeded, clientVars, historyVars, shutdown>>

EnterWave(w) ==
  /\ pc' = "spawning" /\ wave' = w
  /\ todo' = {s \in Service : WaveOf[s] = w}
  /\ UNCHANGED <<oneshots, probes, cur, children, stopping, gone, outcome>>

BuildsEnded == \A s \in Built : builds[s] # "running"

\* build_all looks at the watch only if it had something to build.
StageInterrupted == Built # {} /\ shutdown

\* Faulty: a failed build is only reported.
BuildsDoneRegardless ==
  /\ pc = "building" /\ BuildsEnded
  /\ IF StageInterrupted THEN Return("interrupted") ELSE EnterWave(0)
  /\ built' = ~StageInterrupted
  /\ UNCHANGED <<startup, outsideVars, rows>>

BuildsDone ==
  /\ pc = "building" /\ BuildsEnded
  /\ \/ /\ StageInterrupted
        /\ Return("interrupted") /\ UNCHANGED verdictVars
     \/ /\ ~StageInterrupted /\ \E s \in Built : builds[s] = "failed"
        /\ Return("build_failed") /\ FinishStartup("failed") /\ UNCHANGED built
     \/ /\ ~StageInterrupted /\ \A s \in Built : builds[s] = "ok"
        /\ EnterWave(0) /\ built' = TRUE /\ UNCHANGED startup
  /\ UNCHANGED <<outsideVars, rows>>

\* --build-timeout: the kernel sets the watch itself so that the builds go ...
StageTimeout ==
  /\ pc = "building" /\ Built # {}
  /\ pc' = "collecting" /\ shutdown' = TRUE
  /\ UNCHANGED <<wave, todo, oneshots, probes, cur, children, stopping, gone, outcome,
                 verdictVars, worldVars, clientVars, historyVars, rows>>

\* ... and reports once it has collected them.
BuildsCollected ==
  /\ pc = "collecting" /\ BuildsEnded
  /\ Return("stage_timeout") /\ FinishStartup("failed")
  /\ UNCHANGED <<built, outsideVars, rows>>

----------------------------------------------------------------------------
(* A wave: spawn it *)

SpawnSucceeds(s) ==
  /\ pc = "spawning" /\ s \in todo
  /\ todo' = todo \ {s}
  /\ live' = live \cup {s}
  /\ started' = started \cup {s}
  /\ rows' = ServiceStarted(rows, s, s \in Probed)
  /\ IF s \in Oneshot
     THEN oneshots' = oneshots \cup {s} /\ UNCHANGED <<probes, children>>
     ELSE /\ children' = children \cup {s}
          /\ probes' = probes \cup ({s} \cap Probed)
          /\ UNCHANGED oneshots
  /\ UNCHANGED <<pc, wave, cur, stopping, gone, outcome, verdictVars, lost, succeeded, builds,
                 clientVars, vouched, deadAtCheck, blind, blocked, shutdown>>

\* The error leaves run() at once, and what was spawned is let go of.
SpawnFails ==
  /\ pc = "spawning" /\ todo # {}
  /\ Return("spawn_failed")
  /\ UNCHANGED <<verdictVars, outsideVars, rows>>

\* Faulty: the wave's oneshots are left to themselves.
WaveSpawnedSkippingOneshots ==
  /\ pc = "spawning" /\ todo = {}
  /\ pc' = "probes"
  /\ UNCHANGED <<wave, todo, oneshots, probes, cur, children, stopping, gone, outcome,
                 verdictVars, outsideVars, rows>>

WaveSpawned ==
  /\ pc = "spawning" /\ todo = {}
  /\ pc' = "oneshots"
  /\ UNCHANGED <<wave, todo, oneshots, probes, cur, children, stopping, gone, outcome,
                 verdictVars, outsideVars, rows>>

----------------------------------------------------------------------------
(* A wave: wait for its oneshots, then for its probes, one at a time.      *)
(* Every such wait races the shutdown watch.                               *)

TakeOneshot(s) ==
  /\ pc = "oneshots" /\ cur = {} /\ s \in oneshots
  /\ cur' = {s} /\ oneshots' = oneshots \ {s}
  /\ UNCHANGED <<pc, wave, todo, probes, children, stopping, gone, outcome,
                 verdictVars, outsideVars, rows>>

\* Leave the waves for shutdown(): the wave's own locals go.
TearDown(why) ==
  /\ pc' = "teardown" /\ outcome' = why
  /\ cur' = {} /\ oneshots' = {} /\ probes' = {}
  /\ UNCHANGED <<wave, todo, children, stopping, gone>>

OneshotSucceeds(s) ==
  /\ pc = "oneshots" /\ s \in cur /\ s \notin live /\ s \in succeeded
  /\ cur' = {}
  /\ rows' = OneshotCompleted(rows, s, TRUE)
  /\ vouched' = vouched \cup {s}
  /\ UNCHANGED <<pc, wave, todo, oneshots, probes, children, stopping, gone, outcome,
                 verdictVars, worldVars, clientVars, started, deadAtCheck, blind, blocked, shutdown>>

\* What wait_oneshot makes of s is no success: it exited with failure, overran
\* its timeout and was killed, or could not be waited on.
NoSuccess(s) ==
  \/ s \notin live /\ s \notin succeeded /\ UNCHANGED live
  \/ s \in live /\ live' \in {live, live \ {s}}

OneshotFails(s) ==
  /\ pc = "oneshots" /\ s \in cur
  /\ NoSuccess(s)
  /\ TearDown("oneshot_failed")
  /\ FinishStartup("failed")
  /\ rows' = OneshotCompleted(rows, s, FALSE)
  /\ UNCHANGED <<built, lost, succeeded, builds, clientVars, historyVars, shutdown>>

OneshotsDone ==
  /\ pc = "oneshots" /\ cur = {} /\ oneshots = {}
  /\ pc' = "probes"
  /\ UNCHANGED <<wave, todo, oneshots, probes, cur, children, stopping, gone, outcome,
                 verdictVars, outsideVars, rows>>

TakeProbe(s) ==
  /\ pc = "probes" /\ cur = {} /\ s \in probes
  /\ cur' = {s} /\ probes' = probes \ {s}
  /\ UNCHANGED <<pc, wave, todo, oneshots, children, stopping, gone, outcome,
                 verdictVars, outsideVars, rows>>

ProbePasses(s) ==
  /\ pc = "probes" /\ s \in cur
  /\ cur' = {}
  /\ rows' = ServiceReady(rows, s)
  /\ vouched' = vouched \cup {s}
  /\ UNCHANGED <<pc, wave, todo, oneshots, probes, children, stopping, gone, outcome,
                 verdictVars, worldVars, clientVars, started, deadAtCheck, blind, blocked, shutdown>>

\* Faulty: returns the error without taking the stack down.
ProbeGivesUpOnly(s) ==
  /\ pc = "probes" /\ s \in cur
  /\ Return("probe_failed")
  /\ FinishStartup("failed")
  /\ UNCHANGED <<built, outsideVars, rows>>

ProbeGivesUp(s) ==
  /\ pc = "probes" /\ s \in cur
  /\ TearDown("probe_failed")
  /\ FinishStartup("failed")
  /\ UNCHANGED <<built, outsideVars, rows>>

\* Faulty: a oneshot is waited for whatever happens.
InterruptedAtProbes ==
  /\ pc = "probes" /\ cur # {} /\ shutdown
  /\ TearDown("interrupted")
  /\ UNCHANGED <<verdictVars, outsideVars, rows>>

Interrupted ==
  /\ pc \in {"oneshots", "probes"} /\ cur # {} /\ shutdown
  /\ TearDown("interrupted")
  /\ UNCHANGED <<verdictVars, outsideVars, rows>>

WaveDone ==
  /\ pc = "probes" /\ cur = {} /\ probes = {}
  /\ IF wave + 1 \in Waves
     THEN EnterWave(wave + 1) /\ UNCHANGED deadAtCheck
     ELSE /\ pc' = "checking" /\ todo' = children
          /\ deadAtCheck' = children \ live
          /\ UNCHANGED <<wave, oneshots, probes, cur, children, stopping, gone, outcome>>
  /\ UNCHANGED <<verdictVars, worldVars, clientVars, started, vouched, blind, blocked, shutdown, rows>>

----------------------------------------------------------------------------
(* exited_during_startup, and the verdict *)

\* Faulty: takes a service whose probe passed for alive.
PollUnprobed(s) ==
  /\ pc = "checking" /\ s \in todo
  /\ todo' = todo \ {s}
  /\ IF s \in live \/ s \in Probed
     THEN UNCHANGED <<gone, rows, blind>>
     ELSE gone' = gone \cup {s} /\ rows' = ServiceExited(rows, s) /\ UNCHANGED blind
  /\ UNCHANGED <<pc, wave, oneshots, probes, cur, children, stopping, outcome,
                 verdictVars, worldVars, clientVars, started, vouched, deadAtCheck, blocked, shutdown>>

\* A runtime that cannot tell reports the service as running.
Poll(s) ==
  /\ pc = "checking" /\ s \in todo
  /\ todo' = todo \ {s}
  /\ \/ s \in live /\ UNCHANGED <<gone, rows, blind>>
     \/ s \notin live /\ gone' = gone \cup {s}
        /\ rows' = ServiceExited(rows, s) /\ UNCHANGED blind
     \/ s \notin live /\ blind' = blind \cup {s} /\ UNCHANGED <<gone, rows>>
  /\ UNCHANGED <<pc, wave, oneshots, probes, cur, children, stopping, outcome,
                 verdictVars, worldVars, clientVars, started, vouched, deadAtCheck, blocked, shutdown>>

\* shutdown() skips the first child found dead.
ExitFound ==
  /\ pc = "checking" /\ todo = {}
  /\ \E s \in gone : children' = children \ {s}
  /\ pc' = "teardown" /\ outcome' = "exited_early"
  /\ FinishStartup("failed")
  /\ UNCHANGED <<wave, todo, oneshots, probes, cur, stopping, gone, built, outsideVars, rows>>

Ready ==
  /\ pc = "checking" /\ todo = {} /\ gone = {}
  /\ FinishStartup("ready")
  /\ IF children = {} THEN Return("only_oneshots")
     ELSE /\ pc' = "steady"
          /\ UNCHANGED <<wave, todo, oneshots, probes, cur, children, stopping, gone, outcome>>
  /\ UNCHANGED <<built, outsideVars, rows>>

\* steady_state came to an end: module Lifecycle, and what it leaves behind.
SteadyEnds ==
  /\ pc = "steady"
  /\ Return("steady_ended")
  /\ UNCHANGED <<verdictVars, outsideVars, rows>>

----------------------------------------------------------------------------
(* shutdown(): wave by wave, the last one first *)

BeginWave ==
  /\ pc = "teardown" /\ stopping = {} /\ children # {}
  /\ stopping' = {s \in children : \A d \in children : WaveOf[d] <= WaveOf[s]}
  /\ UNCHANGED <<pc, wave, todo, oneshots, probes, cur, children, gone, outcome,
                 verdictVars, outsideVars, rows>>

\* Its outcome does not say that s is down: docker's is "killed" of a container
\* it could neither wait for nor remove.
FinishStop(s) ==
  /\ pc = "teardown" /\ s \in stopping
  /\ stopping' = stopping \ {s} /\ children' = children \ {s}
  /\ lost' = lost \cup ({s} \cap live)
  /\ rows' = ServiceExited(rows, s)
  /\ UNCHANGED <<pc, wave, todo, oneshots, probes, cur, gone, outcome, verdictVars, live,
                 succeeded, builds, clientVars, historyVars, shutdown>>

TornDown ==
  /\ pc = "teardown" /\ children = {}
  /\ Return(outcome)
  /\ UNCHANGED <<verdictVars, outsideVars, rows>>

----------------------------------------------------------------------------
(* Out of run(): the epilogue of up(), and the end of the process *)

Waiting(c) == asked[c] # "nothing" /\ reply[c] = "none"

\* Faulty: leaves the verdict to whoever made run() return.
EpilogueWithoutVerdict ==
  /\ pc = "returned"
  /\ pc' = "draining"
  /\ reply' = [c \in Client |-> IF Waiting(c) /\ asked[c] = "command" THEN "dropped"
                                ELSE reply[c]]
  /\ blocked' = {c \in Client : Waiting(c)}
  /\ UNCHANGED <<wave, todo, oneshots, probes, cur, children, stopping, gone, outcome,
                 verdictVars, worldVars, asked, started, vouched, deadAtCheck, blind,
                 shutdown, rows>>

\* run() took the message queue with it, and the commands in it.
Epilogue ==
  /\ pc = "returned"
  /\ pc' = "draining"
  /\ FinishStartup("failed")
  /\ reply' = [c \in Client |-> IF Waiting(c) /\ asked[c] = "command" THEN "dropped"
                                ELSE reply[c]]
  /\ blocked' = {c \in Client : Waiting(c)}
  /\ UNCHANGED <<wave, todo, oneshots, probes, cur, children, stopping, gone, outcome, built,
                 worldVars, asked, started, vouched, deadAtCheck, blind, shutdown, rows>>

\* Bus::drain waits for the sinks, if they have anything left to write, and
\* for nobody else.
ProcessEnds ==
  /\ pc = "draining"
  /\ pc' = "ended"
  /\ reply' = [c \in Client |-> IF Waiting(c) THEN "closed" ELSE reply[c]]
  /\ UNCHANGED <<wave, todo, oneshots, probes, cur, children, stopping, gone, outcome,
                 verdictVars, worldVars, asked, historyVars, shutdown, rows>>

Kernel ==
  \/ Rejected \/ BeginBuilds \/ BuildsDone \/ BuildsCollected
  \/ WaveSpawned \/ OneshotsDone \/ WaveDone \/ Interrupted
  \/ \E s \in Service : \/ SpawnSucceeds(s) \/ TakeOneshot(s) \/ OneshotSucceeds(s)
                        \/ TakeProbe(s) \/ ProbePasses(s) \/ ProbeGivesUp(s)
                        \/ Poll(s) \/ FinishStop(s)
  \/ SpawnFails \/ ExitFound \/ Ready \/ BeginWave \/ TornDown \/ Epilogue \/ ProcessEnds

----------------------------------------------------------------------------
(* The services, the operator, the clients *)

\* A process exits: done, crashed, or because it was told to.
Dies(s) ==
  /\ live' = live \ {s} /\ lost' = lost \ {s}
  /\ succeeded' \in {succeeded, succeeded \cup ({s} \cap Oneshot)}
  /\ UNCHANGED <<kernelVars, verdictVars, builds, clientVars, historyVars, shutdown, rows>>

\* `arig down`, or ctrl-c.
Down ==
  /\ pc # "ended"
  /\ shutdown' = TRUE
  /\ UNCHANGED <<kernelVars, verdictVars, worldVars, clientVars, historyVars, rows>>

\* Faulty: no gate, so a command may be queued for a kernel that is not there.
AskUngated(c, what) ==
  /\ pc # "ended" /\ asked[c] = "nothing"
  /\ asked' = [asked EXCEPT ![c] = what]
  /\ reply' = IF what = "command" /\ pc = "draining"
              THEN [reply EXCEPT ![c] = "not_accepting"] ELSE reply
  /\ UNCHANGED <<kernelVars, verdictVars, worldVars, historyVars, shutdown, rows>>

\* handle_client up to where it waits.  A lifecycle command is refused while
\* startup is pending, and once the message queue is gone.
Ask(c, what) ==
  /\ pc # "ended" /\ asked[c] = "nothing"
  /\ asked' = [asked EXCEPT ![c] = what]
  /\ reply' = CASE what = "command" /\ startup = "pending" ->
                     [reply EXCEPT ![c] = "still_starting"]
                [] what = "command" /\ startup # "pending" /\ pc = "draining" ->
                     [reply EXCEPT ![c] = "not_accepting"]
                [] OTHER -> reply
  /\ UNCHANGED <<kernelVars, verdictVars, worldVars, historyVars, shutdown, rows>>

\* StateTracker::wait_startup
AnswerWait(c) ==
  /\ pc # "ended" /\ Waiting(c) /\ asked[c] = "wait" /\ startup # "pending"
  /\ reply' = [reply EXCEPT ![c] = startup]
  /\ UNCHANGED <<kernelVars, verdictVars, worldVars, asked, historyVars, shutdown, rows>>

\* StateTracker::wait_built
AnswerBuilt(c) ==
  /\ pc # "ended" /\ Waiting(c) /\ asked[c] = "wait_built"
  /\ built \/ startup # "pending"
  /\ reply' = [reply EXCEPT ![c] = IF built \/ startup = "ready" THEN "built" ELSE "failed"]
  /\ UNCHANGED <<kernelVars, verdictVars, worldVars, asked, historyVars, shutdown, rows>>

\* A command that got through to the steady state: module Lifecycle.
AnswerCommand(c) ==
  /\ pc = "steady" /\ Waiting(c) /\ asked[c] = "command"
  /\ reply' = [reply EXCEPT ![c] = "handled"]
  /\ UNCHANGED <<kernelVars, verdictVars, worldVars, asked, historyVars, shutdown, rows>>

Answer(c) == AnswerWait(c) \/ AnswerBuilt(c) \/ AnswerCommand(c)

\* The supervisor is gone, which is not a deadlock.
Terminated == pc = "ended" /\ UNCHANGED vars

Init ==
  /\ pc = "begin" /\ wave = 0 /\ todo = {} /\ oneshots = {} /\ probes = {} /\ cur = {}
  /\ children = {} /\ stopping = {} /\ gone = {} /\ outcome = "none"
  /\ builds = [s \in Built |-> "waiting"]
  /\ startup = "pending" /\ built = FALSE /\ shutdown = FALSE
  /\ rows = [s \in Service |-> NoRow]
  /\ live = {} /\ lost = {} /\ succeeded = {}
  /\ asked = [c \in Client |-> "nothing"] /\ reply = [c \in Client |-> "none"]
  /\ started = {} /\ vouched = {} /\ deadAtCheck = {} /\ blind = {}
  /\ blocked = {}

Next ==
  \/ Kernel \/ StageTimeout \/ SteadyEnds \/ Down \/ Terminated
  \/ \E s \in Service : OneshotFails(s)
  \/ \E s \in Built : BuildEnds(s)
  \/ \E s \in live : Dies(s)
  \/ \E c \in Client : Answer(c) \/ \E what \in {"wait", "wait_built", "command"} : Ask(c, what)

\* The kernel task is scheduled: a runtime answers a spawn, and a probe passes
\* or meets its deadline, and a stop returns.  A build ends when the watch is
\* set, the steady state when it is set too (module Lifecycle), and the tasks
\* that answer clients run.  Nothing makes a oneshot end, nor a build while
\* nobody asked the stack to go down.
Fairness ==
  /\ WF_vars(Kernel)
  /\ WF_vars(shutdown /\ SteadyEnds)
  /\ \A s \in Service : WF_vars(s \notin live /\ OneshotFails(s))
  /\ \A s \in Built : WF_vars(shutdown /\ BuildEnds(s))
  /\ \A c \in Client : WF_vars(Answer(c))

Spec == Init /\ [][Next]_vars

FairSpec == Spec /\ Fairness

----------------------------------------------------------------------------
(* Properties *)

\* Every variable has its type.
TypeOK ==
  /\ pc \in {"begin", "building", "collecting", "spawning", "oneshots", "probes", "checking",
             "teardown", "steady", "returned", "draining", "ended"}
  /\ wave \in Nat
  /\ todo \subseteq Service /\ oneshots \subseteq Service /\ probes \subseteq Service
  /\ cur \subseteq Service /\ children \subseteq Service /\ stopping \subseteq Service
  /\ gone \subseteq Service /\ live \subseteq Service /\ lost \subseteq Service
  /\ succeeded \subseteq Service
  /\ started \subseteq Service /\ vouched \subseteq Service
  /\ deadAtCheck \subseteq Service /\ blind \subseteq Service
  /\ blocked \subseteq Client
  /\ outcome \in {"none", "rejected", "interrupted", "build_failed", "stage_timeout", "spawn_failed",
                  "oneshot_failed", "probe_failed", "exited_early", "only_oneshots",
                  "steady_ended"}
  /\ builds \in [Built -> {"waiting", "running", "ok", "failed"}]
  /\ startup \in {"pending", "ready", "failed"} /\ built \in BOOLEAN /\ shutdown \in BOOLEAN
  /\ rows \in [Service -> Row]
  /\ asked \in [Client -> {"nothing", "wait", "wait_built", "command"}]
  /\ reply \in [Client -> {"none", "ready", "failed", "built", "handled", "still_starting",
                           "not_accepting", "dropped", "closed"}]

\* What a service depends on is up before it is spawned: a oneshot succeeded, a
\* probe passed, anything else has at least been spawned.  This is what the
\* waves are for, over the dependencies and not the waves.
DependenciesFirst ==
  \A s \in started : \A d \in Deps[s] :
    d \in started /\ (d \in Oneshot \cup Probed => d \in vouched)

\* Nothing is spawned until every build has succeeded.
BuildsFirst == started # {} => \A s \in Built : builds[s] = "ok"

\* The stack is called ready only if everything was spawned, every oneshot had
\* succeeded, every probe had passed, and nothing was dead by the time the
\* last wave was up, unless its runtime could not tell.
ReadyIsEarned ==
  startup = "ready" => /\ started = Service
                       /\ Oneshot \cup Probed \subseteq vouched
                       /\ deadAtCheck \subseteq blind

\* "The first verdict wins" (finish_startup), whatever happens to the stack
\* afterwards.
VerdictIsFinal == [][startup # "pending" => startup' = startup]_startup

\* What a client heard is so: `wait` the verdict, a detaching `up` that every
\* build succeeded.
ClientsHearTheTruth ==
  \A c \in Client :
    /\ asked[c] = "wait" /\ reply[c] \in {"ready", "failed"} => reply[c] = startup
    /\ reply[c] = "built" => \A s \in Built : builds[s] = "ok"

\* run() leaves no long-running service behind, unless a spawn failed or its
\* runtime could not get it down.
NoServiceSurvives ==
  pc \in {"returned", "draining", "ended"} /\ outcome \notin {"spawn_failed", "steady_ended"}
    => live \subseteq Oneshot \cup lost

\* `arig down` stops everything (README), or at least tries to.
DownStopsEverything == pc = "ended" /\ outcome = "interrupted" => live \subseteq lost

\* "Anything blocked in `arig wait` needs an answer rather than the closed
\* connection it would get when we exit" (the epilogue of up).
NoClosedConnection == \A c \in blocked : reply[c] # "closed"

\* The steady state as Startup hands it over: the first instance of every
\* service, nobody's command yet, and the probes that have passed.
L == INSTANCE Lifecycle WITH
  Service <- LongRunning, Foreign <- Oneshot, Request <- {},
  WaveOf <- [s \in LongRunning |-> WaveOf[s]], Probed <- Probed,
  pc <- pc, spawning <- {}, inflight <- {}, nextSeq <- 0, msgs <- << >>, tasks <- {},
  stopping <- stopping, reply <- [r \in {} |-> "unsent"],
  lost <- {[name |-> s, gen |-> 1, probed |-> s \in Probed] : s \in lost},
  starts <- [s \in LongRunning |-> 1], shutdown <- shutdown,
  children <- {[name |-> s, gen |-> 1, probed |-> s \in Probed] : s \in children},
  live <- {[name |-> s, gen |-> 1, probed |-> s \in Probed] : s \in live},
  rows <- [s \in LongRunning |-> rows[s]],
  heard <- {[inst |-> [name |-> s, gen |-> 1, probed |-> TRUE], verdict |-> "passed"] :
              s \in vouched \ Oneshot}

\* Where Kernel::run calls steady_state, module Lifecycle begins: every service
\* is up, once, and its row says so, no oneshot is left, every probe has
\* passed, and nothing is being stopped.
HandsOver == pc = "steady" => L!Init

\* Asked to go down, the supervisor ends, wherever it is.
DownEnds == shutdown ~> pc = "ended"

\* Startup comes to a verdict, unless a build or a oneshot never ends.
StartupSettles ==
  /\ \A s \in Built : []<>(builds[s] # "running")
  /\ \A s \in Oneshot : []<>(s \notin live)
  => <>(startup # "pending")

\* Nobody hangs: every client hears something once there is a verdict, and one
\* that sent a lifecycle command does whether there is one or not.
NobodyHangs ==
  \A c \in Client :
    Waiting(c) /\ (startup # "pending" \/ asked[c] = "command") ~> ~Waiting(c)
=============================================================================
