---------------------------- MODULE Startup_proofs ----------------------------
(***************************************************************************)
(* Startup does nothing out of order and says nothing that is not so, for  *)
(* any stack that dag::toposort could have handed over, any builds and any *)
(* number of clients.                                                      *)
(***************************************************************************)
EXTENDS Startup, StateTracker_proofs, FiniteSetTheorems

----------------------------------------------------------------------------
(* The invariant *)

Before == {"begin", "building", "collecting"}
InWave == {"spawning", "oneshots", "probes"}
After  == {"returned", "draining", "ended"}
GoingUp == Before \cup InWave \cup {"checking", "steady"}

AllBuilt == \A s \in Built : builds[s] = "ok"

\* Nothing but the build stage runs before the builds have succeeded.
BuildStage ==
  /\ pc \in Before => started = {} /\ live = {} /\ children = {}
  /\ pc \in InWave \cup {"checking"} \/ started # {} \/ built \/ startup = "ready" => AllBuilt
  /\ pc = "begin" => /\ ~built /\ startup = "pending"
                     /\ \A c \in Client : reply[c] # "built"

\* It succeeded, or passed its probe, if there was anything to wait for.
Vouched(s) == s \in Oneshot \cup Probed => s \in vouched

\* Every earlier wave is behind us, and every service of this one is to be
\* spawned yet, to be waited for yet, or behind us as well.
WaveByWave ==
  /\ cur # {} => \E s \in Service : cur = {s}
  /\ pc \in Before \cup {"spawning"} => cur = {}
  /\ pc = "spawning" => \A s \in todo : WaveOf[s] = wave
  /\ pc \in InWave =>
       \A s \in Service :
         /\ WaveOf[s] < wave => s \in started /\ Vouched(s)
         /\ WaveOf[s] = wave =>
              \/ pc = "spawning" /\ s \in todo
              \/ /\ s \in started
                 /\ Vouched(s) \/ s \in cur \/ s \in probes \/ (pc # "probes" /\ s \in oneshots)
  /\ oneshots \subseteq Oneshot /\ probes \subseteq Probed
  /\ pc = "oneshots" => cur \subseteq Oneshot

\* The exit check: everything has been up, and whatever was dead when the
\* check began still is, and is found so, unless its runtime cannot tell.
Checking ==
  /\ pc = "checking" => /\ started = Service /\ \A s \in Service : Vouched(s)
                        /\ deadAtCheck \cap live = {}
                        /\ deadAtCheck \subseteq todo \cup gone \cup blind
  /\ startup = "ready" => pc \in {"steady"} \cup After
  /\ pc \in Before \cup InWave => gone = {}
  /\ gone \cap live = {}

\* Every long-running service that is alive is a child until run() is over,
\* unless its runtime has failed to stop it.
Accounted ==
  /\ pc \notin After => live \subseteq children \cup Oneshot \cup lost
  /\ pc \in After => \/ live \subseteq Oneshot \cup lost
                     \/ outcome \in {"spawn_failed", "steady_ended"}

\* Nobody has been answered before asking.
Answers == \A c \in Client : asked[c] = "nothing" => reply[c] = "none"

\* Every service is spawned once, by the time its wave is behind us, and what
\* has been vouched for was spawned: a oneshot that succeeded is gone, and a
\* service that is not a oneshot is a child until something goes wrong.
SpawnedOnce ==
  /\ oneshots \cup probes \cup cur \cup vouched \subseteq started
  /\ vouched \subseteq Oneshot \cup Probed
  /\ \A s \in Oneshot : s \in vouched => s \notin live
  /\ pc = "probes" => cur \subseteq Probed
  /\ pc \in InWave => \A s \in started : WaveOf[s] <= wave
  /\ pc = "spawning" => \A s \in todo : s \notin started
  /\ pc \in GoingUp => children = started \ Oneshot /\ stopping = {} /\ lost = {}
  /\ pc = "steady" => started = Service /\ gone = {} /\ \A s \in Service : Vouched(s)

\* The row of a long-running service that is up and not known to be dead.
UpRow(s) ==
  [state |-> "running", desired |-> "up", restarts |-> 0, ran |-> TRUE,
   ready |-> IF s \notin Probed THEN "unchecked"
             ELSE IF s \in vouched THEN "ready" ELSE "pending"]

\* The rows on the way up: no restart is counted for a service that has not
\* run, whatever its build did to its row.
RowsRise ==
  pc \in GoingUp =>
    \A s \in Service :
      /\ s \notin started => ~rows[s].ran /\ rows[s].restarts = 0
      /\ s \in started \ Oneshot /\ s \notin gone => rows[s] = UpRow(s)

IInv == /\ TypeOK /\ BuildStage /\ WaveByWave /\ Checking /\ Accounted /\ Answers
        /\ DependenciesFirst /\ ReadyIsEarned /\ ClientsHearTheTruth

----------------------------------------------------------------------------
(* Types *)

LEMMA InitTyped == Init => TypeOK
<1> SUFFICES ASSUME Init PROVE TypeOK
  OBVIOUS
<1>1. NoRow \in Row
  BY DEF NoRow, Row, RowState
<1> QED BY <1>1 DEF Init, TypeOK

\* The build stage: the rows of what is built.
LEMMA BuildTyped ==
  ASSUME TypeOK, Rejected \/ BeginBuilds \/ BuildsDone \/ BuildsCollected \/ StageTimeout
                 \/ \E s \in Built : BuildEnds(s)
  PROVE  TypeOK'
<1> USE DEF kernelVars, verdictVars, worldVars, clientVars, historyVars, outsideVars
<1>1. CASE BeginBuilds
  <2>1. \A s \in Service : rows'[s] \in Row
    <3> SUFFICES ASSUME NEW s \in Service PROVE rows'[s] \in Row
      OBVIOUS
    <3>1. rows \in [Service -> Row] /\ BuildStarted(rows, s) \in [Service -> Row]
      BY BuildRowsType DEF TypeOK
    <3> QED BY <1>1, <3>1 DEF BeginBuilds
  <2>2. rows' \in [Service -> Row]
    BY <1>1, <2>1 DEF BeginBuilds
  <2>3. builds' \in [Built -> {"waiting", "running", "ok", "failed"}]
    BY <1>1 DEF BeginBuilds
  <2> QED BY <1>1, <2>2, <2>3 DEF BeginBuilds, TypeOK
<1>2. CASE BuildsDone
  <2>1. 0 \in Nat
    OBVIOUS
  <2>2. {s \in Service : WaveOf[s] = 0} \subseteq Service
    OBVIOUS
  <2> QED BY <1>2, <2>1, <2>2 DEF BuildsDone, Return, EnterWave, FinishStartup, TypeOK
<1>3. CASE Rejected \/ BuildsCollected \/ StageTimeout
  BY <1>3 DEF Rejected, BuildsCollected, StageTimeout, Return, FinishStartup, TypeOK
<1>4. CASE \E s \in Built : BuildEnds(s)
  <2>1. PICK s \in Built : BuildEnds(s)
    BY <1>4
  <2>2. rows' \in [Service -> Row]
    BY <2>1, StackAssumption, BuildRowsType DEF BuildEnds, TypeOK
  <2> QED BY <2>1, <2>2 DEF BuildEnds, TypeOK
<1> QED BY <1>1, <1>2, <1>3, <1>4

\* A wave's spawns and waits: the row of the service they are about.
LEMMA WaveTyped ==
  ASSUME TypeOK, NEW s \in Service,
         \/ SpawnSucceeds(s) \/ TakeOneshot(s) \/ OneshotSucceeds(s) \/ OneshotFails(s)
         \/ TakeProbe(s) \/ ProbePasses(s) \/ ProbeGivesUp(s)
  PROVE  TypeOK'
<1> USE DEF kernelVars, verdictVars, worldVars, clientVars, historyVars, outsideVars
<1>1. rows' \in [Service -> Row]
  <2>1. rows \in [Service -> Row] /\ (s \in Probed) \in BOOLEAN
    BY DEF TypeOK
  <2>2. ServiceStarted(rows, s, s \in Probed) \in [Service -> Row]
    BY <2>1, ServiceStartedType
  <2>3. OneshotCompleted(rows, s, TRUE) \in [Service -> Row]
        /\ OneshotCompleted(rows, s, FALSE) \in [Service -> Row]
    BY <2>1, OneshotCompletedType
  <2>4. ServiceReady(rows, s) \in [Service -> Row]
    BY <2>1, RowChangesType
  <2> QED BY <2>1, <2>2, <2>3, <2>4
             DEF SpawnSucceeds, TakeOneshot, OneshotSucceeds, OneshotFails, TakeProbe,
                 ProbePasses, ProbeGivesUp
<1>2. CASE SpawnSucceeds(s)
  BY <1>1, <1>2 DEF SpawnSucceeds, TypeOK
<1>3. CASE OneshotFails(s)
  BY <1>1, <1>3 DEF OneshotFails, NoSuccess, TearDown, FinishStartup, TypeOK
<1>4. CASE TakeOneshot(s) \/ OneshotSucceeds(s) \/ TakeProbe(s) \/ ProbePasses(s) \/ ProbeGivesUp(s)
  BY <1>1, <1>4 DEF TakeOneshot, OneshotSucceeds, TakeProbe, ProbePasses, ProbeGivesUp,
                    TearDown, FinishStartup, TypeOK
<1> QED BY <1>2, <1>3, <1>4

\* The kernel's other steps inside run().
LEMMA RunTyped ==
  ASSUME TypeOK,
         \/ SpawnFails \/ WaveSpawned \/ OneshotsDone \/ Interrupted \/ WaveDone
         \/ ExitFound \/ Ready \/ SteadyEnds \/ BeginWave \/ TornDown
  PROVE  TypeOK'
<1> USE DEF kernelVars, verdictVars, worldVars, clientVars, historyVars, outsideVars
<1>1. CASE SpawnFails \/ WaveSpawned \/ OneshotsDone \/ Interrupted \/ SteadyEnds \/ TornDown
  BY <1>1 DEF SpawnFails, WaveSpawned, OneshotsDone, Interrupted, SteadyEnds, TornDown,
              Return, TearDown, TypeOK
<1>2. CASE WaveDone
  BY <1>2 DEF WaveDone, EnterWave, TypeOK
<1>3. CASE ExitFound \/ Ready \/ BeginWave
  BY <1>3 DEF ExitFound, Ready, BeginWave, Return, FinishStartup, TypeOK
<1> QED BY <1>1, <1>2, <1>3

\* The exit check, and a child that is down.
LEMMA ExitTyped ==
  ASSUME TypeOK, NEW s \in Service, Poll(s) \/ FinishStop(s)
  PROVE  TypeOK'
<1> USE DEF kernelVars, verdictVars, worldVars, clientVars, historyVars, outsideVars
<1>1. rows' \in [Service -> Row]
  BY RowChangesType DEF Poll, FinishStop, TypeOK
<1> QED BY <1>1 DEF Poll, FinishStop, TypeOK

\* The epilogue, and everybody else.
LEMMA OutsideTyped ==
  ASSUME TypeOK,
         \/ Epilogue \/ ProcessEnds \/ Down \/ UNCHANGED vars
         \/ \E s \in live : Dies(s)
         \/ \E c \in Client : Answer(c) \/ \E what \in {"wait", "wait_built", "command"} : Ask(c, what)
  PROVE  TypeOK'
<1> USE DEF kernelVars, verdictVars, worldVars, clientVars, historyVars, outsideVars
<1>1. CASE Epilogue \/ ProcessEnds
  <2>1. reply' \in [Client -> {"none", "ready", "failed", "built", "handled", "still_starting",
                               "not_accepting", "dropped", "closed"}]
    BY <1>1 DEF Epilogue, ProcessEnds, TypeOK
  <2> QED BY <1>1, <2>1 DEF Epilogue, ProcessEnds, FinishStartup, TypeOK
<1>2. CASE Down
  BY <1>2 DEF Down, TypeOK
<1>3. CASE UNCHANGED vars
  BY <1>3 DEF vars, TypeOK
<1>4. CASE \E s \in live : Dies(s)
  BY <1>4 DEF Dies, TypeOK
<1>5. CASE \E c \in Client : Answer(c)
  BY <1>5 DEF Answer, AnswerWait, AnswerBuilt, AnswerCommand, TypeOK
<1>6. CASE \E c \in Client : \E what \in {"wait", "wait_built", "command"} : Ask(c, what)
  <2>1. PICK c \in Client, what \in {"wait", "wait_built", "command"} : Ask(c, what)
    BY <1>6
  <2>2. reply' \in [Client -> {"none", "ready", "failed", "built", "handled", "still_starting",
                               "not_accepting", "dropped", "closed"}]
    BY <2>1 DEF Ask, TypeOK
  <2> QED BY <2>1, <2>2 DEF Ask, TypeOK
<1> QED BY <1>1, <1>2, <1>3, <1>4, <1>5, <1>6

\* Every step is one of these.
LEMMA StepTyped == TypeOK /\ [Next]_vars => TypeOK'
<1> SUFFICES ASSUME TypeOK, [Next]_vars PROVE TypeOK'
  OBVIOUS
<1> QED BY BuildTyped, WaveTyped, RunTyped, ExitTyped, OutsideTyped DEF Next, Kernel, Terminated

----------------------------------------------------------------------------
(* The kinds of steps *)

BuildStep == \/ Rejected \/ BeginBuilds \/ BuildsDone \/ BuildsCollected \/ StageTimeout
             \/ \E s \in Built : BuildEnds(s)
SpawnStep == SpawnFails \/ WaveSpawned \/ \E s \in Service : SpawnSucceeds(s)
WaitStep  == \/ OneshotsDone
             \/ \E s \in Service : \/ TakeOneshot(s) \/ OneshotSucceeds(s)
                                   \/ TakeProbe(s) \/ ProbePasses(s)
FailStep  == Interrupted \/ \E s \in Service : OneshotFails(s) \/ ProbeGivesUp(s)
CheckStep == ExitFound \/ Ready \/ SteadyEnds \/ \E s \in Service : Poll(s)
StopStep  == BeginWave \/ TornDown \/ \E s \in Service : FinishStop(s)
EndStep   == Epilogue \/ ProcessEnds
OtherStep == \/ Down \/ UNCHANGED vars
             \/ \E s \in live : Dies(s)
             \/ \E c \in Client : \/ Answer(c)
                                  \/ \E what \in {"wait", "wait_built", "command"} : Ask(c, what)

LEMMA StepKinds ==
  [Next]_vars => \/ BuildStep \/ SpawnStep \/ WaitStep \/ FailStep \/ WaveDone
                 \/ CheckStep \/ StopStep \/ EndStep \/ OtherStep
BY DEF Next, Kernel, Terminated, BuildStep, SpawnStep, WaitStep, FailStep, CheckStep, StopStep,
       EndStep, OtherStep

\* Nothing starts before the build stage is over, and over well.
LEMMA BuildStageNext ==
  ASSUME IInv, [Next]_vars
  PROVE  BuildStage'
<1> USE StackAssumption DEF IInv, TypeOK, kernelVars, verdictVars, worldVars, clientVars, historyVars, outsideVars
<1>1. CASE BuildStep
  BY <1>1 DEF BuildStep, Rejected, BeginBuilds, BuildsDone, BuildsCollected, StageTimeout,
     BuildEnds, Return, EnterWave, FinishStartup, BuildsEnded, StageInterrupted,
     BuildStage, AllBuilt, Before, InWave, ClientsHearTheTruth, Checking, After
<1>2. CASE SpawnStep
  BY <1>2 DEF SpawnStep, SpawnSucceeds, SpawnFails, WaveSpawned, Return, BuildStage,
     AllBuilt, Before, InWave, ClientsHearTheTruth, Checking, After
<1>3. CASE WaitStep
  BY <1>3 DEF WaitStep, TakeOneshot, OneshotSucceeds, OneshotsDone, TakeProbe,
     ProbePasses, BuildStage, AllBuilt, Before, InWave, ClientsHearTheTruth, Checking,
     After
<1>4. CASE FailStep
  BY <1>4 DEF FailStep, OneshotFails, NoSuccess, ProbeGivesUp, Interrupted, TearDown,
     FinishStartup, BuildStage, AllBuilt, Before, InWave, ClientsHearTheTruth,
     Checking, After
<1>5. CASE WaveDone
  BY <1>5 DEF WaveDone, EnterWave, BuildStage, AllBuilt, Before, InWave,
     ClientsHearTheTruth, Checking, After
<1>6. CASE CheckStep
  BY <1>6 DEF CheckStep, Poll, ExitFound, Ready, SteadyEnds, Return, FinishStartup,
     BuildStage, AllBuilt, Before, InWave, ClientsHearTheTruth, Checking, After
<1>7. CASE StopStep
  BY <1>7 DEF StopStep, BeginWave, FinishStop, TornDown, Return, BuildStage, AllBuilt,
     Before, InWave, ClientsHearTheTruth, Checking, After
<1>8. CASE EndStep
  BY <1>8 DEF EndStep, Epilogue, ProcessEnds, FinishStartup, Waiting, BuildStage,
     AllBuilt, Before, InWave, ClientsHearTheTruth, Checking, After
<1>9. CASE OtherStep
  BY <1>9 DEF OtherStep, Dies, Down, Ask, Answer, AnswerWait, AnswerBuilt,
     AnswerCommand, Waiting, vars, BuildStage, AllBuilt, Before, InWave,
     ClientsHearTheTruth, Checking, After
<1> QED BY <1>1, <1>2, <1>3, <1>4, <1>5, <1>6, <1>7, <1>8, <1>9, StepKinds

\* No step forgets a service of a wave.
LEMMA WaveByWaveNext ==
  ASSUME IInv, [Next]_vars
  PROVE  WaveByWave'
<1> USE StackAssumption DEF IInv, TypeOK, kernelVars, verdictVars, worldVars, clientVars, historyVars, outsideVars
<1>1. CASE BuildStep
  <2>1. CASE BuildsDone
    <3>1. \A s \in Service : ~(WaveOf[s] < 0)
      OBVIOUS
    <3> QED BY <2>1, <3>1 DEF BuildsDone, Return, EnterWave, WaveByWave, Vouched, InWave, Before
  <2>2. CASE \/ Rejected \/ BeginBuilds \/ BuildsCollected \/ StageTimeout
             \/ \E s \in Built : BuildEnds(s)
    BY <2>2 DEF Rejected, BeginBuilds, BuildsCollected, StageTimeout, BuildEnds, Return, WaveByWave,
                Vouched, InWave, Before
  <2> QED BY <1>1, <2>1, <2>2 DEF BuildStep
<1>2. CASE SpawnStep
  BY <1>2 DEF SpawnStep, SpawnSucceeds, SpawnFails, WaveSpawned, Return, WaveByWave,
     Vouched, InWave
<1>3. CASE WaitStep
  <2> USE DEF WaveByWave, Vouched, InWave, Before
  <2>1. CASE OneshotsDone
    BY <2>1 DEF OneshotsDone
  <2>2. CASE \E s \in Service : TakeOneshot(s)
    BY <2>2 DEF TakeOneshot
  <2>3. CASE \E s \in Service : OneshotSucceeds(s)
    BY <2>3 DEF OneshotSucceeds
  <2>4. CASE \E s \in Service : TakeProbe(s) \/ ProbePasses(s)
    BY <2>4 DEF TakeProbe, ProbePasses
  <2> QED BY <1>3, <2>1, <2>2, <2>3, <2>4 DEF WaitStep
<1>4. CASE FailStep
  BY <1>4 DEF FailStep, OneshotFails, NoSuccess, ProbeGivesUp, Interrupted, TearDown,
     FinishStartup, WaveByWave, Vouched, InWave, Before
<1>5. CASE WaveDone
  BY <1>5 DEF WaveDone, EnterWave, WaveByWave, Vouched, InWave, Before
<1>6. CASE CheckStep
  BY <1>6 DEF CheckStep, Poll, ExitFound, Ready, SteadyEnds, Return, FinishStartup,
     WaveByWave, Vouched, InWave, Before
<1>7. CASE StopStep
  <2>1. pc' \notin Before \cup InWave /\ UNCHANGED <<cur, oneshots, probes>>
    BY <1>7 DEF StopStep, BeginWave, FinishStop, TornDown, Return, Before, InWave
  <2> QED BY <2>1 DEF WaveByWave, Before, InWave
<1>8. CASE EndStep
  <2>1. pc' \notin Before \cup InWave /\ UNCHANGED <<cur, oneshots, probes>>
    BY <1>8 DEF EndStep, Epilogue, ProcessEnds, Before, InWave
  <2> QED BY <2>1 DEF WaveByWave, Before, InWave
<1>9. CASE OtherStep
  BY <1>9 DEF OtherStep, Dies, Down, Ask, Answer, AnswerWait, AnswerBuilt,
     AnswerCommand, Waiting, vars, WaveByWave, Vouched, InWave, Before
<1> QED BY <1>1, <1>2, <1>3, <1>4, <1>5, <1>6, <1>7, <1>8, <1>9, StepKinds

\* The exit check loses sight of nothing that died before it.
LEMMA CheckingNext ==
  ASSUME IInv, [Next]_vars
  PROVE  Checking'
<1> USE StackAssumption DEF IInv, TypeOK, kernelVars, verdictVars, worldVars, clientVars, historyVars, outsideVars
<1>1. CASE BuildStep
  BY <1>1 DEF BuildStep, Rejected, BeginBuilds, BuildsDone, BuildsCollected, StageTimeout,
     BuildEnds, Return, EnterWave, FinishStartup, BuildsEnded, StageInterrupted,
     Checking, WaveByWave, Vouched, Before, InWave, After, BuildStage
<1>2. CASE SpawnStep
  BY <1>2 DEF SpawnStep, SpawnSucceeds, SpawnFails, WaveSpawned, Return, Checking,
     WaveByWave, Vouched, Before, InWave, After, BuildStage
<1>3. CASE WaitStep
  BY <1>3 DEF WaitStep, TakeOneshot, OneshotSucceeds, OneshotsDone, TakeProbe,
     ProbePasses, Checking, WaveByWave, Vouched, Before, InWave, After, BuildStage
<1>4. CASE FailStep
  BY <1>4 DEF FailStep, OneshotFails, NoSuccess, ProbeGivesUp, Interrupted, TearDown,
     FinishStartup, Checking, WaveByWave, Vouched, Before, InWave, After, BuildStage
<1>5. CASE WaveDone
  <2>1. \A s \in Service : WaveOf[s] \in Nat /\ WaveOf[s] \in Waves
    BY DEF Waves
  <2>2. \A s \in Service : WaveOf[s] <= wave => s \in started /\ Vouched(s)
    BY <1>5, <2>1 DEF WaveDone, WaveByWave, InWave, Vouched
  <2>3. CASE wave + 1 \in Waves
    BY <1>5, <2>3 DEF WaveDone, EnterWave, Checking, Before, InWave, After
  <2>4. CASE wave + 1 \notin Waves
    <3>1. Cardinality(Waves) \in Nat
      BY FS_CardinalityType
    <3>2. \A s \in Service : WaveOf[s] <= wave
      <4> SUFFICES ASSUME NEW s \in Service, wave < WaveOf[s] PROVE FALSE
        BY <2>1
      <4>1. WaveOf[s] \in 0 .. Cardinality(Waves) - 1
        BY <2>1
      <4>2. wave + 1 \in 0 .. Cardinality(Waves) - 1
        BY <3>1, <4>1, <2>1
      <4> QED BY <2>4, <4>2
    <3>3. started = Service /\ \A s \in Service : Vouched(s)
      BY <2>2, <3>2
    <3>4. deadAtCheck' \cap live' = {} /\ deadAtCheck' \subseteq todo'
      BY <1>5, <2>4 DEF WaveDone
    <3>5. pc' = "checking" /\ UNCHANGED <<started, vouched, gone, live, startup, blind>>
      BY <1>5, <2>4 DEF WaveDone
    <3>6. startup # "ready"
      BY <1>5 DEF WaveDone, Checking, After
    <3> QED BY <3>3, <3>4, <3>5, <3>6 DEF Checking, Before, InWave, Vouched
  <2> QED BY <2>3, <2>4
<1>6. CASE CheckStep
  BY <1>6 DEF CheckStep, Poll, ExitFound, Ready, SteadyEnds, Return, FinishStartup,
     Checking, WaveByWave, Vouched, Before, InWave, After, BuildStage
<1>7. CASE StopStep
  BY <1>7 DEF StopStep, BeginWave, FinishStop, TornDown, Return, Checking, WaveByWave,
     Vouched, Before, InWave, After, BuildStage
<1>8. CASE EndStep
  BY <1>8 DEF EndStep, Epilogue, ProcessEnds, FinishStartup, Waiting, Checking,
     WaveByWave, Vouched, Before, InWave, After, BuildStage
<1>9. CASE OtherStep
  BY <1>9 DEF OtherStep, Dies, Down, Ask, Answer, AnswerWait, AnswerBuilt,
     AnswerCommand, Waiting, vars, Checking, WaveByWave, Vouched, Before, InWave,
     After, BuildStage
<1> QED BY <1>1, <1>2, <1>3, <1>4, <1>5, <1>6, <1>7, <1>8, <1>9, StepKinds

\* No step lets go of a live child, but a failed spawn and the steady state.
LEMMA AccountedNext ==
  ASSUME IInv, [Next]_vars
  PROVE  Accounted'
<1> USE StackAssumption DEF IInv, TypeOK, kernelVars, verdictVars, worldVars, clientVars, historyVars, outsideVars
<1>1. CASE BuildStep
  BY <1>1 DEF BuildStep, Rejected, BeginBuilds, BuildsDone, BuildsCollected, StageTimeout,
     BuildEnds, Return, EnterWave, FinishStartup, BuildsEnded, StageInterrupted,
     Accounted, After, Before, BuildStage, Checking
<1>2. CASE SpawnStep
  BY <1>2 DEF SpawnStep, SpawnSucceeds, SpawnFails, WaveSpawned, Return, Accounted,
     After, Before, BuildStage, Checking
<1>3. CASE WaitStep
  BY <1>3 DEF WaitStep, TakeOneshot, OneshotSucceeds, OneshotsDone, TakeProbe,
     ProbePasses, Accounted, After, Before, BuildStage, Checking
<1>4. CASE FailStep
  BY <1>4 DEF FailStep, OneshotFails, NoSuccess, ProbeGivesUp, Interrupted, TearDown,
     FinishStartup, Accounted, After, Before, BuildStage, Checking
<1>5. CASE WaveDone
  BY <1>5 DEF WaveDone, EnterWave, Accounted, After, Before, BuildStage, Checking
<1>6. CASE CheckStep
  BY <1>6 DEF CheckStep, Poll, ExitFound, Ready, SteadyEnds, Return, FinishStartup,
     Accounted, After, Before, BuildStage, Checking
<1>7. CASE StopStep
  BY <1>7 DEF StopStep, BeginWave, FinishStop, TornDown, Return, Accounted, After,
     Before, BuildStage, Checking
<1>8. CASE EndStep
  BY <1>8 DEF EndStep, Epilogue, ProcessEnds, FinishStartup, Waiting, Accounted,
     After, Before, BuildStage, Checking
<1>9. CASE OtherStep
  BY <1>9 DEF OtherStep, Dies, Down, Ask, Answer, AnswerWait, AnswerBuilt,
     AnswerCommand, Waiting, vars, Accounted, After, Before, BuildStage, Checking
<1> QED BY <1>1, <1>2, <1>3, <1>4, <1>5, <1>6, <1>7, <1>8, <1>9, StepKinds

\* Only who has asked is answered.
LEMMA AnswersNext ==
  ASSUME IInv, [Next]_vars
  PROVE  Answers'
<1> USE StackAssumption DEF IInv, TypeOK, kernelVars, verdictVars, worldVars, clientVars, historyVars, outsideVars
<1>1. CASE BuildStep
  BY <1>1 DEF BuildStep, Rejected, BeginBuilds, BuildsDone, BuildsCollected, StageTimeout,
     BuildEnds, Return, EnterWave, FinishStartup, BuildsEnded, StageInterrupted,
     Answers
<1>2. CASE SpawnStep
  BY <1>2 DEF SpawnStep, SpawnSucceeds, SpawnFails, WaveSpawned, Return, Answers
<1>3. CASE WaitStep
  BY <1>3 DEF WaitStep, TakeOneshot, OneshotSucceeds, OneshotsDone, TakeProbe,
     ProbePasses, Answers
<1>4. CASE FailStep
  BY <1>4 DEF FailStep, OneshotFails, NoSuccess, ProbeGivesUp, Interrupted, TearDown,
     FinishStartup, Answers
<1>5. CASE WaveDone
  BY <1>5 DEF WaveDone, EnterWave, Answers
<1>6. CASE CheckStep
  BY <1>6 DEF CheckStep, Poll, ExitFound, Ready, SteadyEnds, Return, FinishStartup,
     Answers
<1>7. CASE StopStep
  BY <1>7 DEF StopStep, BeginWave, FinishStop, TornDown, Return, Answers
<1>8. CASE EndStep
  BY <1>8 DEF EndStep, Epilogue, ProcessEnds, FinishStartup, Waiting, Answers
<1>9. CASE OtherStep
  BY <1>9 DEF OtherStep, Dies, Down, Ask, Answer, AnswerWait, AnswerBuilt,
     AnswerCommand, Waiting, vars, Answers
<1> QED BY <1>1, <1>2, <1>3, <1>4, <1>5, <1>6, <1>7, <1>8, <1>9, StepKinds

\* A spawn finds its dependencies up, since earlier waves are behind it.
LEMMA DependenciesFirstNext ==
  ASSUME IInv, [Next]_vars
  PROVE  DependenciesFirst'
<1> USE StackAssumption DEF IInv, TypeOK, kernelVars, verdictVars, worldVars, clientVars, historyVars, outsideVars
<1>1. CASE BuildStep
  BY <1>1 DEF BuildStep, Rejected, BeginBuilds, BuildsDone, BuildsCollected, StageTimeout,
     BuildEnds, Return, EnterWave, FinishStartup, BuildsEnded, StageInterrupted,
     DependenciesFirst, WaveByWave, Vouched, InWave
<1>2. CASE SpawnStep
  BY <1>2 DEF SpawnStep, SpawnSucceeds, SpawnFails, WaveSpawned, Return,
     DependenciesFirst, WaveByWave, Vouched, InWave
<1>3. CASE WaitStep
  BY <1>3 DEF WaitStep, TakeOneshot, OneshotSucceeds, OneshotsDone, TakeProbe,
     ProbePasses, DependenciesFirst, WaveByWave, Vouched, InWave
<1>4. CASE FailStep
  BY <1>4 DEF FailStep, OneshotFails, NoSuccess, ProbeGivesUp, Interrupted, TearDown,
     FinishStartup, DependenciesFirst, WaveByWave, Vouched, InWave
<1>5. CASE WaveDone
  BY <1>5 DEF WaveDone, EnterWave, DependenciesFirst, WaveByWave, Vouched, InWave
<1>6. CASE CheckStep
  BY <1>6 DEF CheckStep, Poll, ExitFound, Ready, SteadyEnds, Return, FinishStartup,
     DependenciesFirst, WaveByWave, Vouched, InWave
<1>7. CASE StopStep
  BY <1>7 DEF StopStep, BeginWave, FinishStop, TornDown, Return, DependenciesFirst,
     WaveByWave, Vouched, InWave
<1>8. CASE EndStep
  BY <1>8 DEF EndStep, Epilogue, ProcessEnds, FinishStartup, Waiting,
     DependenciesFirst, WaveByWave, Vouched, InWave
<1>9. CASE OtherStep
  BY <1>9 DEF OtherStep, Dies, Down, Ask, Answer, AnswerWait, AnswerBuilt,
     AnswerCommand, Waiting, vars, DependenciesFirst, WaveByWave, Vouched, InWave
<1> QED BY <1>1, <1>2, <1>3, <1>4, <1>5, <1>6, <1>7, <1>8, <1>9, StepKinds

\* "ready" is recorded after the exit check, and nothing unearns it.
LEMMA ReadyIsEarnedNext ==
  ASSUME IInv, [Next]_vars
  PROVE  ReadyIsEarned'
<1> USE StackAssumption DEF IInv, TypeOK, kernelVars, verdictVars, worldVars, clientVars, historyVars, outsideVars
<1>1. CASE BuildStep
  BY <1>1 DEF BuildStep, Rejected, BeginBuilds, BuildsDone, BuildsCollected, StageTimeout,
     BuildEnds, Return, EnterWave, FinishStartup, BuildsEnded, StageInterrupted,
     ReadyIsEarned, Checking, Vouched, Before, InWave, After
<1>2. CASE SpawnStep
  BY <1>2 DEF SpawnStep, SpawnSucceeds, SpawnFails, WaveSpawned, Return,
     ReadyIsEarned, Checking, Vouched, Before, InWave, After
<1>3. CASE WaitStep
  BY <1>3 DEF WaitStep, TakeOneshot, OneshotSucceeds, OneshotsDone, TakeProbe,
     ProbePasses, ReadyIsEarned, Checking, Vouched, Before, InWave, After
<1>4. CASE FailStep
  BY <1>4 DEF FailStep, OneshotFails, NoSuccess, ProbeGivesUp, Interrupted, TearDown,
     FinishStartup, ReadyIsEarned, Checking, Vouched, Before, InWave, After
<1>5. CASE WaveDone
  BY <1>5 DEF WaveDone, EnterWave, ReadyIsEarned, Checking, Vouched, Before, InWave,
     After
<1>6. CASE CheckStep
  <2>1. CASE Ready
    <3>1. started = Service /\ (\A s \in Service : Vouched(s)) /\ deadAtCheck \subseteq blind
      BY <2>1 DEF Ready, Checking
    <3>2. UNCHANGED <<started, vouched, deadAtCheck, blind>>
      BY <2>1 DEF Ready
    <3>3. Oneshot \cup Probed \subseteq vouched
      BY <3>1 DEF Vouched, LongRunning
    <3>4. started' = Service /\ Oneshot \cup Probed \subseteq vouched' /\ deadAtCheck' \subseteq blind'
      BY <3>1, <3>2, <3>3
    <3> QED BY <3>4 DEF ReadyIsEarned
  <2>2. CASE ExitFound
    BY <2>2 DEF ExitFound, FinishStartup, ReadyIsEarned
  <2>3. CASE SteadyEnds \/ \E s \in Service : Poll(s)
    BY <2>3 DEF SteadyEnds, Poll, Return, ReadyIsEarned
  <2> QED BY <1>6, <2>1, <2>2, <2>3 DEF CheckStep
<1>7. CASE StopStep
  BY <1>7 DEF StopStep, BeginWave, FinishStop, TornDown, Return, ReadyIsEarned,
     Checking, Vouched, Before, InWave, After
<1>8. CASE EndStep
  BY <1>8 DEF EndStep, Epilogue, ProcessEnds, FinishStartup, Waiting, ReadyIsEarned,
     Checking, Vouched, Before, InWave, After
<1>9. CASE OtherStep
  BY <1>9 DEF OtherStep, Dies, Down, Ask, Answer, AnswerWait, AnswerBuilt,
     AnswerCommand, Waiting, vars, ReadyIsEarned, Checking, Vouched, Before, InWave,
     After
<1> QED BY <1>1, <1>2, <1>3, <1>4, <1>5, <1>6, <1>7, <1>8, <1>9, StepKinds

\* An answer copies a verdict that is final, or builds that stay done.
LEMMA ClientsHearTheTruthNext ==
  ASSUME IInv, [Next]_vars
  PROVE  ClientsHearTheTruth'
<1> USE StackAssumption DEF IInv, TypeOK, kernelVars, verdictVars, worldVars, clientVars, historyVars, outsideVars
<1>1. CASE BuildStep
  BY <1>1 DEF BuildStep, Rejected, BeginBuilds, BuildsDone, BuildsCollected, StageTimeout,
     BuildEnds, Return, EnterWave, FinishStartup, BuildsEnded, StageInterrupted,
     ClientsHearTheTruth, BuildStage, AllBuilt, InWave, Answers
<1>2. CASE SpawnStep
  BY <1>2 DEF SpawnStep, SpawnSucceeds, SpawnFails, WaveSpawned, Return,
     ClientsHearTheTruth, BuildStage, AllBuilt, InWave, Answers
<1>3. CASE WaitStep
  BY <1>3 DEF WaitStep, TakeOneshot, OneshotSucceeds, OneshotsDone, TakeProbe,
     ProbePasses, ClientsHearTheTruth, BuildStage, AllBuilt, InWave, Answers
<1>4. CASE FailStep
  BY <1>4 DEF FailStep, OneshotFails, NoSuccess, ProbeGivesUp, Interrupted, TearDown,
     FinishStartup, ClientsHearTheTruth, BuildStage, AllBuilt, InWave, Answers
<1>5. CASE WaveDone
  BY <1>5 DEF WaveDone, EnterWave, ClientsHearTheTruth, BuildStage, AllBuilt, InWave,
     Answers
<1>6. CASE CheckStep
  BY <1>6 DEF CheckStep, Poll, ExitFound, Ready, SteadyEnds, Return, FinishStartup,
     ClientsHearTheTruth, BuildStage, AllBuilt, InWave, Answers
<1>7. CASE StopStep
  BY <1>7 DEF StopStep, BeginWave, FinishStop, TornDown, Return, ClientsHearTheTruth,
     BuildStage, AllBuilt, InWave, Answers
<1>8. CASE EndStep
  BY <1>8 DEF EndStep, Epilogue, ProcessEnds, FinishStartup, Waiting,
     ClientsHearTheTruth, BuildStage, AllBuilt, InWave, Answers
<1>9. CASE OtherStep
  BY <1>9 DEF OtherStep, Dies, Down, Ask, Answer, AnswerWait, AnswerBuilt,
     AnswerCommand, Waiting, vars, ClientsHearTheTruth, BuildStage, AllBuilt, InWave,
     Answers
<1> QED BY <1>1, <1>2, <1>3, <1>4, <1>5, <1>6, <1>7, <1>8, <1>9, StepKinds

----------------------------------------------------------------------------
(* The theorems *)

LEMMA InitInv == Init => IInv
<1> SUFFICES ASSUME Init PROVE IInv
  OBVIOUS
<1> USE DEF Init
<1>1. TypeOK
  BY InitTyped
<1>2. BuildStage /\ WaveByWave /\ Checking /\ Accounted /\ Answers
  BY DEF BuildStage, WaveByWave, Checking, Accounted, Answers, Before, InWave, After
<1>3. DependenciesFirst /\ ReadyIsEarned /\ ClientsHearTheTruth
  BY DEF DependenciesFirst, ReadyIsEarned, ClientsHearTheTruth
<1> QED BY <1>1, <1>2, <1>3 DEF IInv

LEMMA StepInv == IInv /\ [Next]_vars => IInv'
<1> SUFFICES ASSUME IInv, [Next]_vars PROVE IInv'
  OBVIOUS
<1>1. TypeOK'
  BY StepTyped DEF IInv
<1> QED BY <1>1, BuildStageNext, WaveByWaveNext, CheckingNext, AccountedNext, AnswersNext,
           DependenciesFirstNext, ReadyIsEarnedNext, ClientsHearTheTruthNext DEF IInv

LEMMA Invariant == Spec => []IInv
BY InitInv, StepInv, PTL DEF Spec

\* Every variable always has its type.
THEOREM TypeCorrect == Spec => []TypeOK
<1>1. IInv => TypeOK
  BY DEF IInv
<1> QED BY Invariant, <1>1, PTL

\* Kernel::run never spawns a service before what it depends on is up, whatever
\* depends_on says, as long as the waves respect it.
THEOREM DependenciesFirstAlways == Spec => []DependenciesFirst
<1>1. IInv => DependenciesFirst
  BY DEF IInv
<1> QED BY Invariant, <1>1, PTL

\* Nor does it spawn anything while a build is under way or has failed.
THEOREM BuildsFirstAlways == Spec => []BuildsFirst
<1>1. IInv => BuildsFirst
  BY DEF IInv, BuildStage, AllBuilt, BuildsFirst
<1> QED BY Invariant, <1>1, PTL

\* The verdict "ready" is earned: everything was spawned, succeeded or passed,
\* and the exit check missed nothing it could have seen.
THEOREM ReadyIsEarnedAlways == Spec => []ReadyIsEarned
<1>1. IInv => ReadyIsEarned
  BY DEF IInv
<1> QED BY Invariant, <1>1, PTL

\* What `arig wait` and a detaching `up` are told is so, whenever they ask.
THEOREM ClientsHearTheTruthAlways == Spec => []ClientsHearTheTruth
<1>1. IInv => ClientsHearTheTruth
  BY DEF IInv
<1> QED BY Invariant, <1>1, PTL

\* However startup ends, but for a failed spawn, run() leaves no long-running
\* service behind.
THEOREM NoServiceSurvivesAlways == Spec => []NoServiceSurvives
<1>1. IInv => NoServiceSurvives
  BY DEF IInv, Accounted, After, NoServiceSurvives
<1> QED BY Invariant, <1>1, PTL

\* StateTracker::finish_startup lets the first verdict stand, through every
\* path that records one: the epilogue's, and those that fail half-way.
THEOREM VerdictIsFinalEver == Spec => VerdictIsFinal
<1> USE DEF kernelVars, verdictVars, worldVars, clientVars, historyVars, outsideVars, FinishStartup
<1>1. [Next]_vars => (startup # "pending" => startup' = startup)
  <2> SUFFICES ASSUME [Next]_vars, startup # "pending" PROVE startup' = startup
    OBVIOUS
  <2>1. CASE BuildStep
    BY <2>1 DEF BuildStep, Rejected, BeginBuilds, BuildsDone, BuildsCollected, StageTimeout, BuildEnds
  <2>2. CASE SpawnStep \/ WaitStep \/ FailStep \/ WaveDone
    BY <2>2 DEF SpawnStep, SpawnSucceeds, SpawnFails, WaveSpawned, WaitStep, TakeOneshot,
       OneshotSucceeds, OneshotsDone, TakeProbe, ProbePasses, FailStep, OneshotFails,
       ProbeGivesUp, Interrupted, WaveDone
  <2>3. CASE CheckStep \/ StopStep \/ EndStep
    BY <2>3 DEF CheckStep, Poll, ExitFound, Ready, SteadyEnds, StopStep, BeginWave, FinishStop,
       TornDown, EndStep, Epilogue, ProcessEnds
  <2>4. CASE OtherStep
    BY <2>4 DEF OtherStep, Dies, Down, Ask, Answer, AnswerWait, AnswerBuilt, AnswerCommand, vars
  <2> QED BY <2>1, <2>2, <2>3, <2>4, StepKinds
<1> QED BY <1>1, PTL DEF Spec, VerdictIsFinal

----------------------------------------------------------------------------
(* Where the steady state takes over *)

\* No step spawns a service twice, or lets go of a child on the way up.
LEMMA SpawnedOnceNext ==
  ASSUME IInv, SpawnedOnce, [Next]_vars
  PROVE  SpawnedOnce'
<1> USE StackAssumption DEF IInv, TypeOK, kernelVars, verdictVars, worldVars, clientVars, historyVars, outsideVars
<1>1. CASE BuildStep
  BY <1>1 DEF BuildStep, Rejected, BeginBuilds, BuildsDone, BuildsCollected, StageTimeout,
     BuildEnds, Return, EnterWave, FinishStartup, SpawnedOnce, GoingUp, Before, InWave,
     BuildStage, Checking, Vouched
<1>2. CASE SpawnStep
  BY <1>2 DEF SpawnStep, SpawnSucceeds, SpawnFails, WaveSpawned, Return, SpawnedOnce,
     GoingUp, Before, InWave, WaveByWave, Vouched, LongRunning
<1>3. CASE WaitStep
  <2> USE DEF SpawnedOnce, GoingUp, Before, InWave, WaveByWave, Vouched
  <2>1. CASE OneshotsDone
    BY <2>1 DEF OneshotsDone
  <2>2. CASE \E s \in Service : TakeOneshot(s) \/ TakeProbe(s)
    BY <2>2 DEF TakeOneshot, TakeProbe
  <2>3. CASE \E s \in Service : OneshotSucceeds(s)
    BY <2>3 DEF OneshotSucceeds
  <2>4. CASE \E s \in Service : ProbePasses(s)
    <3>1. PICK s \in Service : ProbePasses(s)
      BY <2>4
    <3>2. s \in started /\ s \in Probed /\ s \notin Oneshot /\ cur' = {} /\ vouched' = vouched \cup {s}
      BY <3>1 DEF ProbePasses, LongRunning
    <3> QED BY <3>1, <3>2 DEF ProbePasses
  <2> QED BY <1>3, <2>1, <2>2, <2>3, <2>4 DEF WaitStep
<1>4. CASE FailStep
  BY <1>4 DEF FailStep, OneshotFails, NoSuccess, ProbeGivesUp, Interrupted, TearDown,
     FinishStartup, SpawnedOnce, GoingUp, Before, InWave, Vouched
<1>5. CASE WaveDone
  BY <1>5 DEF WaveDone, EnterWave, SpawnedOnce, GoingUp, Before, InWave, Vouched
<1>6. CASE CheckStep
  BY <1>6 DEF CheckStep, Poll, ExitFound, Ready, SteadyEnds, Return, FinishStartup,
     SpawnedOnce, GoingUp, Before, InWave, Checking, Vouched
<1>7. CASE StopStep
  BY <1>7 DEF StopStep, BeginWave, FinishStop, TornDown, Return, SpawnedOnce, GoingUp,
     Before, InWave, Vouched
<1>8. CASE EndStep
  BY <1>8 DEF EndStep, Epilogue, ProcessEnds, FinishStartup, SpawnedOnce, GoingUp,
     Before, InWave, Vouched
<1>9. CASE OtherStep
  BY <1>9 DEF OtherStep, Dies, Down, Ask, Answer, AnswerWait, AnswerBuilt,
     AnswerCommand, vars, SpawnedOnce, GoingUp, Before, InWave, Vouched
<1> QED BY <1>1, <1>2, <1>3, <1>4, <1>5, <1>6, <1>7, <1>8, <1>9, StepKinds

\* The rows follow: before the first spawn only builds write them, and then
\* each event only the row of the service it is about.
LEMMA RowsRiseNext ==
  ASSUME IInv, SpawnedOnce, RowsRise, [Next]_vars
  PROVE  RowsRise'
<1> USE StackAssumption DEF kernelVars, verdictVars, worldVars, clientVars, historyVars, outsideVars
<1>1. \A s \in Service : rows[s] \in Row /\ rows[s].restarts \in Nat
  BY DEF IInv, TypeOK, Row
<1>2. rows \in [Service -> Row]
  BY DEF IInv, TypeOK
<1>3. ASSUME pc' \in GoingUp => pc \in GoingUp, UNCHANGED <<started, gone, vouched, rows>>
      PROVE  RowsRise'
  BY <1>3 DEF RowsRise, UpRow
<1>4. CASE BuildStep
  <2>1. CASE BeginBuilds
    <3>1. started = {} /\ started' = {} /\ pc \in GoingUp
      BY <2>1 DEF BeginBuilds, IInv, BuildStage, Before, GoingUp
    <3>2. \A s \in Service : ~rows'[s].ran /\ rows'[s].restarts = 0
      BY <1>1, <1>2, <2>1, <3>1 DEF BeginBuilds, RowsRise, BuildStarted, Tracked, NoRow, Row
    <3> QED BY <3>1, <3>2 DEF RowsRise
  <2>2. CASE \E b \in Built : BuildEnds(b)
    <3>1. started = {} /\ started' = {} /\ pc \in GoingUp
      BY <2>2 DEF BuildEnds, IInv, BuildStage, Before, GoingUp
    <3>2. \A s \in Service : ~rows'[s].ran /\ rows'[s].restarts = 0
      BY <1>1, <1>2, <2>2, <3>1 DEF BuildEnds, RowsRise, BuildFinished, Row
    <3> QED BY <3>1, <3>2 DEF RowsRise
  <2>3. CASE Rejected \/ BuildsDone \/ BuildsCollected \/ StageTimeout
    BY <1>3, <2>3 DEF Rejected, BuildsDone, BuildsCollected, StageTimeout, Return, EnterWave, GoingUp,
       Before, InWave
  <2> QED BY <1>4, <2>1, <2>2, <2>3 DEF BuildStep
<1>5. CASE \E s \in Service : SpawnSucceeds(s)
  <2>1. PICK s \in Service : SpawnSucceeds(s)
    BY <1>5
  <2>2. pc \in GoingUp /\ s \notin started /\ s \notin vouched /\ s \notin gone
    BY <2>1 DEF SpawnSucceeds, SpawnedOnce, GoingUp, InWave, IInv, Checking
  <2>3. started' = started \cup {s} /\ UNCHANGED <<gone, vouched>>
    BY <2>1 DEF SpawnSucceeds
  <2>4. \A t \in Service : t # s => rows'[t] = rows[t]
    BY <1>2, <2>1 DEF SpawnSucceeds, ServiceStarted
  <2>5. ~rows[s].ran /\ rows[s].restarts = 0
    BY <2>2 DEF RowsRise
  <2>6. rows'[s] = UpRow(s)
    BY <1>2, <2>1, <2>2, <2>5 DEF SpawnSucceeds, ServiceStarted, UpRow
  <2>7. \A t \in Service : UpRow(t)' = UpRow(t)
    BY <2>3 DEF UpRow
  <2> QED BY <2>2, <2>3, <2>4, <2>6, <2>7 DEF RowsRise
<1>6. CASE \E s \in Service : OneshotSucceeds(s)
  <2>1. PICK s \in Service : OneshotSucceeds(s)
    BY <1>6
  <2>2. s \in started \cap Oneshot /\ pc \in GoingUp
    BY <2>1 DEF OneshotSucceeds, SpawnedOnce, GoingUp, InWave, IInv, WaveByWave
  <2>3. vouched' = vouched \cup {s} /\ UNCHANGED <<started, gone>>
    BY <2>1 DEF OneshotSucceeds
  <2>4. \A t \in Service : t # s => rows'[t] = rows[t]
    BY <1>2, <2>1 DEF OneshotSucceeds, OneshotCompleted
  <2>5. \A t \in Service : t # s => UpRow(t)' = UpRow(t)
    BY <2>3 DEF UpRow
  <2> QED BY <2>2, <2>3, <2>4, <2>5 DEF RowsRise
<1>7. CASE \E s \in Service : ProbePasses(s)
  <2>1. PICK s \in Service : ProbePasses(s)
    BY <1>7
  <2>2. s \in started /\ s \in Probed /\ s \notin Oneshot /\ pc \in GoingUp /\ s \notin gone
    BY <2>1 DEF ProbePasses, SpawnedOnce, GoingUp, InWave, IInv, Checking, LongRunning
  <2>3. vouched' = vouched \cup {s} /\ UNCHANGED <<started, gone>>
    BY <2>1 DEF ProbePasses
  <2>4. \A t \in Service : t # s => rows'[t] = rows[t]
    BY <1>2, <2>1 DEF ProbePasses, ServiceReady, Update
  <2>5. \A t \in Service : t # s => UpRow(t)' = UpRow(t)
    BY <2>3 DEF UpRow
  <2>6. rows[s] = UpRow(s)
    BY <2>2 DEF RowsRise
  <2>7. rows'[s] = [rows[s] EXCEPT !.ready = "ready"]
    BY <1>2, <2>1, <2>6 DEF ProbePasses, ServiceReady, Update, Tracked, UpRow
  <2>8. rows'[s] = UpRow(s)'
    <3>1. s \in vouched'
      BY <2>3
    <3>2. UpRow(s)' = [state |-> "running", desired |-> "up", restarts |-> 0, ran |-> TRUE,
                       ready |-> "ready"]
      BY <2>2, <3>1 DEF UpRow
    <3>3. /\ rows[s].state = "running" /\ rows[s].desired = "up" /\ rows[s].restarts = 0
          /\ rows[s].ran = TRUE
      BY <2>6 DEF UpRow
    <3>4. rows'[s] \in Row
      BY <1>2, <2>1, RowChangesType DEF ProbePasses
    <3>5. /\ rows'[s].state = "running" /\ rows'[s].desired = "up" /\ rows'[s].restarts = 0
          /\ rows'[s].ran = TRUE /\ rows'[s].ready = "ready"
      BY <1>1, <2>7, <3>3 DEF Row
    <3> QED BY <3>2, <3>4, <3>5 DEF Row
  <2> QED BY <2>2, <2>3, <2>4, <2>5, <2>8 DEF RowsRise
<1>8. CASE \E s \in Service : Poll(s)
  <2>1. PICK s \in Service : Poll(s)
    BY <1>8
  <2>2. pc \in GoingUp /\ UNCHANGED <<pc, started, vouched>>
    BY <2>1 DEF Poll, GoingUp
  <2>3. s \in started
    BY <2>1 DEF Poll, IInv, Checking
  <2>4. \A t \in Service : t # s => rows'[t] = rows[t] /\ (t \in gone' <=> t \in gone)
    BY <1>2, <2>1 DEF Poll, ServiceExited, Update
  <2>5. s \in gone' \/ (rows'[s] = rows[s] /\ gone' = gone)
    BY <2>1 DEF Poll
  <2>6. \A t \in Service : UpRow(t)' = UpRow(t)
    BY <2>2 DEF UpRow
  <2> QED BY <2>2, <2>3, <2>4, <2>5, <2>6 DEF RowsRise
<1>9. CASE \/ SpawnFails \/ WaveSpawned \/ OneshotsDone \/ WaveDone
           \/ \E s \in Service : TakeOneshot(s) \/ TakeProbe(s)
  BY <1>3, <1>9 DEF SpawnFails, WaveSpawned, OneshotsDone, WaveDone, TakeOneshot, TakeProbe,
     Return, EnterWave, GoingUp, Before, InWave
<1>10. CASE ExitFound \/ Ready \/ SteadyEnds
  BY <1>3, <1>10 DEF ExitFound, Ready, SteadyEnds, Return, GoingUp, Before, InWave
<1>11. CASE FailStep \/ StopStep \/ EndStep
  <2>1. pc' \notin GoingUp
    BY <1>11 DEF FailStep, OneshotFails, Interrupted, ProbeGivesUp, TearDown, StopStep,
       BeginWave, FinishStop, TornDown, Return, EndStep, Epilogue, ProcessEnds, GoingUp,
       Before, InWave
  <2> QED BY <2>1 DEF RowsRise
<1>12. CASE OtherStep
  BY <1>3, <1>12 DEF OtherStep, Dies, Down, Ask, Answer, AnswerWait, AnswerBuilt,
     AnswerCommand, vars
<1> QED BY <1>4, <1>5, <1>6, <1>7, <1>8, <1>9, <1>10, <1>11, <1>12, StepKinds
        DEF SpawnStep, WaitStep, CheckStep

\* The two together, on top of what the rest of startup rests on.
LEMMA HandOverInvariant == Spec => [](IInv /\ SpawnedOnce /\ RowsRise)
<1>1. Init => SpawnedOnce /\ RowsRise
  <2> SUFFICES ASSUME Init PROVE SpawnedOnce /\ RowsRise
    OBVIOUS
  <2>1. SpawnedOnce
    BY DEF Init, SpawnedOnce, InWave
  <2>2. RowsRise
    BY DEF Init, RowsRise, NoRow
  <2> QED BY <2>1, <2>2
<1>2. IInv /\ SpawnedOnce /\ RowsRise /\ [Next]_vars => SpawnedOnce' /\ RowsRise'
  BY SpawnedOnceNext, RowsRiseNext
<1> QED BY <1>1, <1>2, InitInv, StepInv, PTL DEF Spec

\* Where Kernel::run calls steady_state, the stack is one that module Lifecycle
\* starts from: what is proved of the steady state is proved of every stack
\* that startup hands over.
THEOREM HandsOverAlways == Spec => []HandsOver
<1>1. IInv /\ SpawnedOnce /\ RowsRise => HandsOver
  <2> SUFFICES ASSUME IInv, SpawnedOnce, RowsRise, pc = "steady" PROVE L!Init
    BY DEF HandsOver
  <2> DEFINE I(s) == [name |-> s, gen |-> 1, probed |-> s \in Probed]
  <2>1. children = LongRunning /\ stopping = {} /\ lost = {} /\ shutdown \in BOOLEAN
    BY DEF IInv, TypeOK, SpawnedOnce, GoingUp, LongRunning
  <2>2. live \subseteq LongRunning
    BY StackAssumption DEF IInv, TypeOK, SpawnedOnce, Vouched, LongRunning
  <2>3. {I(s) : s \in live} \in SUBSET {I(s) : s \in children}
    BY <2>1, <2>2
  <2>4. \A s : s \in vouched \ Oneshot <=> s \in Probed
    BY StackAssumption DEF IInv, TypeOK, SpawnedOnce, Vouched, LongRunning
  <2>5. {[inst |-> [name |-> s, gen |-> 1, probed |-> TRUE], verdict |-> "passed"] :
            s \in vouched \ Oneshot}
        = {[inst |-> c, verdict |-> "passed"] : c \in {d \in {I(s) : s \in children} : d.probed}}
    <3>1. \A s : s \in Probed => I(s) = [name |-> s, gen |-> 1, probed |-> TRUE]
      OBVIOUS
    <3>2. \A c : c \in {d \in {I(s) : s \in children} : d.probed} <=> \E s \in Probed : c = I(s)
      <4>1. \A s : I(s).probed <=> s \in Probed
        OBVIOUS
      <4>2. Probed \subseteq children
        BY <2>1, StackAssumption
      <4> HIDE DEF I
      <4> QED BY <4>1, <4>2
    <3>3. \A c : c \in {d \in {I(s) : s \in children} : d.probed}
                 <=> \E s \in Probed : c = [name |-> s, gen |-> 1, probed |-> TRUE]
      BY <3>1, <3>2
    <3> HIDE DEF I
    <3> QED BY <2>4, <3>3
  <2>6. [s \in LongRunning |-> rows[s]]
        = [s \in LongRunning |->
             [state |-> "running", desired |-> "up", restarts |-> 0, ran |-> TRUE,
              ready |-> IF s \in Probed THEN "ready" ELSE "unchecked"]]
    <3>1. \A s \in LongRunning : rows[s] = UpRow(s) /\ (s \in Probed <=> s \in vouched)
      BY <2>4 DEF RowsRise, GoingUp, SpawnedOnce, LongRunning
    <3> QED BY <3>1 DEF UpRow
  <2>7. {I(s) : s \in lost} = {}
    BY <2>1
  <2> HIDE DEF I
  <2> QED BY <2>1, <2>3, <2>5, <2>6, <2>7 DEF L!Init, I
<1> QED BY HandOverInvariant, <1>1, PTL
=============================================================================
