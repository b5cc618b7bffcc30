--------------------------- MODULE Stopping_proofs ---------------------------
(***************************************************************************)
(* Both runtimes keep the promise of RunningService, for any processes a   *)
(* service and its hook may fork and any number of instances.              *)
(***************************************************************************)
EXTENDS Stopping, TLAPS

----------------------------------------------------------------------------
(* Types *)

\* A step of either runtime keeps the types of the handle.
LEMMA HandleTyped ==
  ASSUME HandleOK, ProcessNext \/ DockerNext PROVE HandleOK'
<1> USE DEF HandleOK, Call, Outcome, handle, Returns, Calls
<1>1. ASSUME ProcessNext PROVE HandleOK'
  <2> USE DEF own
  <2>1. CASE \/ \E p \in Member : Forks(p)
             \/ \E p \in Process : Exits(p)
             \/ \E h \in HookProcess : HookForks(h) \/ HookExits(h)
    BY <2>1 DEF Forks, Exits, HookForks, HookExits
  <2>2. CASE ProcessSpawns \/ ProcessEnds \/ ProcessBeginStop \/ ProcessKilled
    BY <2>2 DEF ProcessSpawns, ProcessEnds, ProcessBeginStop, ProcessKilled
  <2>3. CASE ProcessStops
    BY <2>3 DEF ProcessStops, FinishUnhooked, FinishHooked, HookWorked, HookTimesOut,
                GraceSuffices, GraceEnds
  <2> QED BY <1>1, <2>1, <2>2, <2>3 DEF ProcessNext
<1>2. ASSUME DockerNext PROVE HandleOK'
  <2> USE DEF StepTo
  <2>1. CASE ContainerExits \/ \E i \in 1 .. MaxStarts : StopArrives(i) \/ StopFails(i)
    BY <2>1 DEF ContainerExits, StopArrives, StopFails
  <2>2. CASE DockerSpawns
    BY <2>2 DEF DockerSpawns, SpawnBegins, RemoveLeftover, PullImage, CreateContainer,
                CreateFails, StartContainer, StartFails
  <2>3. CASE DockerEnds \/ DockerWaitFails \/ DockerBeginStop \/ DockerKill
    BY <2>3 DEF DockerEnds, DockerWaitFails, DockerBeginStop, DockerKill
  <2>4. CASE DockerStops \/ WaitFails \/ KillWaitFails
    BY <2>4 DEF DockerStops, DockerFinishStop, WaitAnswers, WaitTimesOut, KillAnswers,
                KillFails, KillWaited, RemoveOld, WaitFails, KillWaitFails, Killed
  <2> QED BY <1>2, <2>1, <2>2, <2>3, <2>4 DEF DockerNext
<1> QED BY <1>1, <1>2

\* A step of the process runtime keeps the types of its processes.
LEMMA ProcessTyped == ASSUME ProcessOK, ProcessNext PROVE ProcessOK'
<1> USE DEF ProcessOK, Terminate, KillGroup
<1>1. ASSUME NEW p \in Process, Forks(p) \/ Exits(p) PROVE ProcessOK'
  BY <1>1 DEF Forks, Exits
<1>2. ASSUME NEW h \in HookProcess, HookForks(h) \/ HookExits(h) PROVE ProcessOK'
  BY <1>2 DEF HookForks, HookExits
<1>3. CASE ProcessSpawns
  BY <1>3 DEF ProcessSpawns, Process
<1>4. CASE ProcessEnds \/ ProcessBeginStop \/ ProcessKilled
  BY <1>4 DEF ProcessEnds, ProcessBeginStop, ProcessKilled
<1>5. CASE FinishUnhooked \/ FinishHooked
  BY <1>5 DEF FinishUnhooked, FinishHooked, own
<1>6. CASE HookWorked \/ HookTimesOut \/ GraceSuffices \/ GraceEnds
  BY <1>6 DEF HookWorked, HookTimesOut, GraceSuffices, GraceEnds
<1>7. Member \subseteq Process
  BY DEF Process
<1> QED BY <1>1, <1>2, <1>3, <1>4, <1>5, <1>6, <1>7 DEF ProcessNext, ProcessStops

\* A step of the docker runtime keeps the types of what it knows of the daemon.
LEMMA DockerTyped == ASSUME DockerOK, DockerNext PROVE DockerOK'
<1> USE DEF DockerOK, Container, daemon, Removed, NotRemoved
<1>1. ASSUME NEW i \in 1 .. MaxStarts, StopArrives(i) \/ StopFails(i) PROVE DockerOK'
  BY <1>1 DEF StopArrives, StopFails
<1>2. CASE ContainerExits \/ DockerEnds \/ DockerWaitFails \/ DockerKill
  BY <1>2 DEF ContainerExits, DockerEnds, DockerWaitFails, DockerKill
<1>3. CASE SpawnBegins \/ RemoveLeftover \/ PullImage \/ CreateContainer
  BY <1>3 DEF SpawnBegins, RemoveLeftover, PullImage, CreateContainer
<1>8. CASE StartContainer
  <2>1. starts' \in Nat
    BY <1>8 DEF StartContainer
  <2> QED BY <1>8, <2>1 DEF StartContainer
<1>9. CASE CreateFails \/ StartFails
  BY <1>9 DEF CreateFails, StartFails
<1>4. CASE DockerBeginStop
  BY <1>4 DEF DockerBeginStop
<1>7. CASE DockerFinishStop
  BY <1>7 DEF DockerFinishStop
<1>5. CASE WaitAnswers \/ WaitFails \/ WaitTimesOut
  BY <1>5 DEF WaitAnswers, WaitFails, WaitTimesOut
<1>6. CASE KillAnswers \/ KillFails \/ KillWaited \/ KillWaitFails \/ RemoveOld
  BY <1>6 DEF KillAnswers, KillFails, KillWaited, KillWaitFails, RemoveOld
<1> QED BY <1>1, <1>2, <1>3, <1>4, <1>5, <1>6, <1>7, <1>8, <1>9
    DEF DockerNext, DockerSpawns, DockerStops

\* The initial states have the right types.
LEMMA InitTyped == Init => TypeOK
<1> SUFFICES ASSUME Init PROVE TypeOK
  OBVIOUS
<1>1. HandleOK
  BY DEF Init, HandleOK, Call, Outcome
<1>2. ProcessOK
  BY DEF Init, ProcessInit, ProcessOK
<1>3. DockerOK
  BY DEF Init, DockerInit, DockerOK, Container
<1> QED BY <1>1, <1>2, <1>3 DEF Init, TypeOK

\* Every step keeps them.
LEMMA StepTyped == TypeOK /\ [Next]_vars => TypeOK'
<1> SUFFICES ASSUME TypeOK, [Next]_vars PROVE TypeOK'
  OBVIOUS
<1>1. UNCHANGED daemon => DockerOK'
  BY DEF daemon, DockerOK, TypeOK
<1>2. UNCHANGED own => ProcessOK'
  BY DEF own, ProcessOK, TypeOK
<1>3. UNCHANGED handle => HandleOK'
  BY DEF handle, HandleOK, TypeOK
<1> QED BY <1>1, <1>2, <1>3, HandleTyped, ProcessTyped, DockerTyped DEF Next, TypeOK, vars

\* Every variable keeps its type, whatever the runtime.
THEOREM TypeCorrect == Spec => []TypeOK
<1> QED BY InitTyped, StepTyped, PTL DEF Spec

----------------------------------------------------------------------------
(* The invariant *)

\* Where the handle and its call can be.  A process is reaped, and its leader
\* gone, only when a call has returned to say so; the hook's processes are
\* there only while it is waited for.
ProcessInv ==
  /\ step \in {"idle", "grace", "hooking"}
  /\ call = "finishing" <=> step # "idle"
  /\ call = "none" => group = {} /\ outcome = "none"
  /\ call \in {"running", "begun", "finishing"} => ~reaped /\ outcome = "none"
  /\ call \in {"returned", "ended"} => Leader \notin group
  /\ call = "ended" => outcome = "exited"
  /\ outcome = "killed" => group = {}
  /\ hookUp # {} => step = "hooking"
  /\ failed = FALSE

\* A container that is being started has just been created, and one that is
\* being removed does not run, unless the wait for its end failed.
DockerInv ==
  /\ Free => step \in {"idle", "removing", "pulling", "creating", "starting"}
  /\ call = "running" => step \in {"idle", "killing", "killed"}
  /\ call = "begun" => step = "idle"
  /\ call = "finishing" => step \in {"waiting", "killing", "killed", "removing the old"}
  /\ call = "none" => container \in {"none", "created"}
  /\ step = "starting" => container = "created"
  /\ step = "removing the old" /\ ~lost => container # "running"
  /\ group = {} /\ hookUp = {}

IInv ==
  /\ TypeOK
  /\ IF runtime = "process" THEN ProcessInv ELSE DockerInv

LEMMA InitHolds == Init => IInv
<1> SUFFICES ASSUME Init PROVE IInv
  OBVIOUS
<1>1. TypeOK
  BY InitTyped
<1> QED BY <1>1 DEF Init, ProcessInit, DockerInit, IInv, ProcessInv, DockerInv, Free

\* A step of the process runtime.
LEMMA ProcessSteps ==
  ASSUME TypeOK, ProcessInv, ProcessNext, UNCHANGED daemon PROVE ProcessInv'
<1> USE DEF ProcessInv, handle, own, daemon, Returns, Calls
<1> USE LeaderAssumption
<1>1. ASSUME NEW p \in Member, Forks(p) PROVE ProcessInv'
  BY <1>1 DEF Forks
<1>2. ASSUME NEW p \in Process, Exits(p) PROVE ProcessInv'
  BY <1>2 DEF Exits
<1>3. ASSUME NEW h \in HookProcess, HookForks(h) \/ HookExits(h) PROVE ProcessInv'
  BY <1>3 DEF HookForks, HookExits
<1>4. CASE ProcessSpawns \/ ProcessEnds \/ ProcessBeginStop
  BY <1>4 DEF ProcessSpawns, ProcessEnds, ProcessBeginStop
<1>5. CASE FinishUnhooked \/ FinishHooked
  BY <1>5 DEF FinishUnhooked, FinishHooked
<1>6. CASE HookWorked \/ HookTimesOut \/ GraceSuffices
  BY <1>6 DEF HookWorked, HookTimesOut, GraceSuffices
<1>7. CASE GraceEnds \/ ProcessKilled
  BY <1>7 DEF GraceEnds, ProcessKilled, KillGroup
<1> QED BY <1>1, <1>2, <1>3, <1>4, <1>5, <1>6, <1>7 DEF ProcessNext, ProcessStops

\* A step of the docker runtime.
LEMMA DockerSteps ==
  ASSUME TypeOK, DockerInv, DockerNext, UNCHANGED own PROVE DockerInv'
<1> USE DEF DockerInv, handle, own, daemon, Returns, Calls, StepTo, Free, Removed, NotRemoved
<1>1. ASSUME NEW i \in 1 .. MaxStarts, StopArrives(i) \/ StopFails(i) PROVE DockerInv'
  BY <1>1 DEF StopArrives, StopFails
<1>2. CASE ContainerExits \/ DockerEnds \/ DockerWaitFails \/ DockerKill
  BY <1>2 DEF ContainerExits, DockerEnds, DockerWaitFails, DockerKill
<1>3. CASE SpawnBegins \/ RemoveLeftover \/ PullImage \/ CreateContainer
  BY <1>3 DEF SpawnBegins, RemoveLeftover, PullImage, CreateContainer
<1>4. CASE StartContainer \/ CreateFails \/ StartFails
  BY <1>4 DEF StartContainer, CreateFails, StartFails
<1>5. CASE DockerBeginStop \/ DockerFinishStop
  BY <1>5 DEF DockerBeginStop, DockerFinishStop
<1>6. CASE WaitAnswers \/ WaitFails \/ WaitTimesOut
  BY <1>6 DEF WaitAnswers, WaitFails, WaitTimesOut
<1>7. CASE KillAnswers \/ KillFails
  BY <1>7 DEF KillAnswers, KillFails
<1>8. CASE KillWaited \/ KillWaitFails
  BY <1>8 DEF KillWaited, KillWaitFails, Killed
<1>9. CASE RemoveOld
  BY <1>9 DEF RemoveOld
<1> QED BY <1>1, <1>2, <1>3, <1>4, <1>5, <1>6, <1>7, <1>8, <1>9
    DEF DockerNext, DockerSpawns, DockerStops

LEMMA StepHolds == IInv /\ [Next]_vars => IInv'
<1> SUFFICES ASSUME IInv, [Next]_vars PROVE IInv'
  OBVIOUS
<1>1. TypeOK'
  BY StepTyped DEF IInv
<1>2. CASE UNCHANGED vars
  BY <1>1, <1>2 DEF vars, handle, own, daemon, IInv, ProcessInv, DockerInv, Free
<1> QED BY <1>1, <1>2, ProcessSteps, DockerSteps DEF Next, IInv

\* What was reported killed, has no process left, and no hook outlives the
\* stop it was run for, whatever the service and its hook fork.
THEOREM NothingOutlivesAKillEver == Spec => []NothingOutlivesAKill
<1>1. IInv => NothingOutlivesAKill
  BY RuntimesAssumption DEF IInv, ProcessInv, DockerInv, NothingOutlivesAKill, TypeOK
<1> QED BY <1>1, InitHolds, StepHolds, PTL DEF Spec

----------------------------------------------------------------------------
(* The contract *)

\* What the process runtime does, the contract allows.
LEMMA ProcessKeeps ==
  ASSUME TypeOK, ProcessInv, ProcessNext, runtime = "process", UNCHANGED <<daemon, runtime>>
  PROVE  [Contract!Next]_(Contract!vars)
<1> USE DEF Contract!vars, Contract!Next, Up, ProcessInv, handle, own, daemon, Returns, Calls
<1>1. ASSUME NEW p \in Member, Forks(p) PROVE UNCHANGED Contract!vars
  BY <1>1, LeaderAssumption DEF Forks
<1>2. ASSUME NEW p \in Process, Exits(p) PROVE [Contract!Next]_(Contract!vars)
  BY <1>2 DEF Exits, Contract!Ends
<1>3. ASSUME NEW h \in HookProcess, HookForks(h) \/ HookExits(h) PROVE UNCHANGED Contract!vars
  BY <1>3 DEF HookForks, HookExits
<1>4. CASE ProcessSpawns
  <2>1. ~Up /\ Up'
    BY <1>4 DEF ProcessSpawns
  <2> QED BY <1>4, <2>1 DEF ProcessSpawns, Contract!Spawns
<1>5. CASE ProcessEnds
  BY <1>5 DEF ProcessEnds, Contract!Exits
<1>6. CASE ProcessBeginStop
  BY <1>6 DEF ProcessBeginStop, Contract!BeginStop
<1>7. CASE FinishUnhooked \/ FinishHooked
  BY <1>7 DEF FinishUnhooked, FinishHooked, Contract!FinishStop
<1>8. CASE HookTimesOut
  BY <1>8 DEF HookTimesOut
<1>9. CASE HookWorked \/ GraceSuffices
  BY <1>9 DEF HookWorked, GraceSuffices, Contract!Returns
<1>10. CASE GraceEnds \/ ProcessKilled
  BY <1>10 DEF GraceEnds, ProcessKilled, KillGroup, Contract!Returns
<1> QED BY <1>1, <1>2, <1>3, <1>4, <1>5, <1>6, <1>7, <1>8, <1>9, <1>10
    DEF ProcessNext, ProcessStops

\* Which call a step of the docker runtime is made in.
LEMMA DockerCalls ==
  ASSUME TypeOK, DockerInv
  PROVE  /\ step \in {"removing", "pulling", "creating", "starting"} =>
              call \in {"none", "returned", "ended"}
         /\ step \in {"waiting", "removing the old"} => call = "finishing"
         /\ step \in {"killing", "killed"} => call \in {"running", "finishing"}
BY DEF TypeOK, HandleOK, Call, DockerInv, Free

\* What the docker runtime does, the contract allows.
LEMMA DockerKeeps ==
  ASSUME TypeOK, DockerInv, DockerNext, runtime = "docker", UNCHANGED <<own, runtime>>
  PROVE  [Contract!Next]_(Contract!vars)
<1> USE DEF Contract!vars, Contract!Next, Up, DockerInv, handle, own, daemon, Returns, Calls,
            StepTo, Free, Removed, NotRemoved
<1>1. ASSUME NEW i \in 1 .. MaxStarts, StopArrives(i) \/ StopFails(i)
      PROVE  UNCHANGED Contract!vars
  BY <1>1 DEF StopArrives, StopFails
<1>2. CASE ContainerExits
  BY <1>2 DEF ContainerExits, Contract!Ends
<1>3. CASE SpawnBegins \/ PullImage \/ CreateContainer \/ CreateFails \/ StartFails
  BY <1>3 DEF SpawnBegins, PullImage, CreateContainer, CreateFails, StartFails
<1>4. CASE RemoveLeftover
  BY <1>4 DEF RemoveLeftover, Contract!Ends
<1>5. CASE StartContainer
  <2>1. ~Up /\ Up' /\ failed' = FALSE
    BY <1>5 DEF StartContainer
  <2>2. call \in {"none", "returned", "ended"} /\ call' = "running"
    BY <1>5, DockerCalls DEF StartContainer
  <2> QED BY <2>1, <2>2 DEF Contract!Spawns
<1>6. CASE DockerEnds \/ DockerWaitFails
  BY <1>6 DEF DockerEnds, DockerWaitFails, Contract!Exits
<1>7. CASE DockerBeginStop
  BY <1>7 DEF DockerBeginStop, Contract!BeginStop
<1>8. CASE DockerFinishStop
  BY <1>8 DEF DockerFinishStop, Contract!FinishStop
<1>9. CASE DockerKill \/ WaitAnswers \/ WaitFails \/ WaitTimesOut \/ KillFails
  BY <1>9 DEF DockerKill, WaitAnswers, WaitFails, WaitTimesOut, KillFails
<1>10. CASE KillAnswers
  BY <1>10 DEF KillAnswers, Contract!Ends
<1>11. CASE KillWaited
  BY <1>11 DEF KillWaited, Killed, Contract!Returns
<1>12. CASE KillWaitFails
  BY <1>12 DEF KillWaitFails, Killed, Contract!Returns, TypeOK, DockerOK
<1>13. CASE RemoveOld
  <2> USE DEF RemoveOld
  <2>1. call \in {"running", "finishing"} /\ call' = "returned"
    BY <1>13, DockerCalls
  <2>2. (Up' => Up) /\ (~Up' \/ failed')
    BY <1>13 DEF TypeOK, DockerOK
  <2> QED BY <2>1, <2>2 DEF Contract!Returns
<1> QED BY <1>1, <1>2, <1>3, <1>4, <1>5, <1>6, <1>7, <1>8, <1>9, <1>10, <1>11, <1>12, <1>13
    DEF DockerNext, DockerSpawns, DockerStops

\* "Wait for the service to actually be gone": for either runtime, whatever
\* its service, its hook and its daemon do, every step is one the contract has,
\* or none at all.
THEOREM RuntimesKeepThePromise == Spec => KeepsThePromise
<1>1. Init => Contract!Init
  BY RuntimesAssumption DEF Init, Contract!Init, Up, ProcessInit, DockerInit
<1>2. IInv /\ [Next]_vars => [Contract!Next]_(Contract!vars)
  <2> SUFFICES ASSUME IInv, [Next]_vars PROVE [Contract!Next]_(Contract!vars)
    OBVIOUS
  <2>1. CASE UNCHANGED vars
    BY <2>1 DEF vars, handle, own, daemon, Contract!vars, Up
  <2> QED BY <2>1, ProcessKeeps, DockerKeeps DEF Next, IInv
<1> QED BY <1>1, <1>2, InitHolds, StepHolds, PTL DEF Spec, KeepsThePromise, Contract!Spec
==============================================================================
