--------------------------- MODULE Endpoint_proofs ---------------------------
(***************************************************************************)
(* A workspace has one supervisor, and what its clients conclude from its  *)
(* endpoint is so, for any number of processes, process numbers, `up -d`s  *)
(* and `down`s.                                                            *)
(***************************************************************************)
EXTENDS Endpoint, TLAPS

----------------------------------------------------------------------------
(* The invariant *)

\* Whoever had the socket once.
HasBound == Holding \cup Leaving \cup {"gone"}

\* Live processes have numbers, of their own.
Numbered ==
  /\ \A s \in Supervisor : Alive(s) <=> pid[s] # {}
  /\ \A s, t \in Supervisor : s # t => pid[s] \cap pid[t] = {}

\* The socket, and every connection, is to a supervisor that has bound it.
Connected ==
  /\ \A s \in sock : pc[s] \in HasBound
  /\ \A w \in Who : \A s \in peer[w] : pc[s] \in HasBound

\* An `up -d` spawns one supervisor, after its probe.
Launched ==
  \A d \in Detached : pc[d] = "unborn" <=> launch[d] \in {"idle", "already", "probed"}

\* Who holds the endpoint is in both files, the pidfile once it is written.
InFiles ==
  \A s \in Supervisor :
    /\ pc[s] \in Holding => sock = {s}
    /\ pc[s] \in Holding \ {"bound"} => pidfile = pid[s]

\* Who is past the stale check, or has removed its socket but not yet its
\* pidfile, has nobody to harm.
NobodyHarmed ==
  \A s, t \in Supervisor :
    /\ pc[s] \in {"evicting", "clearing", "binding", "unlinked"} => pc[t] \notin Holding
    /\ pc[s] \in {"clearing", "binding"} => sock = {}

\* Who is leaving has left both files.
LeftFiles ==
  \A s \in Supervisor :
    /\ pc[s] \in Leaving => s \notin sock
    /\ pc[s] = "leaving" => pid[s] \cap pidfile = {}

\* Nobody else has come up since an `up -d` has found nobody there, and what it
\* has heard, it has heard from the one it spawned.
NotOvertaken ==
  \A d \in Detached \ overtaken :
    /\ InWindow(d) => \A s \in Supervisor \ {d} : pc[s] \notin Holding
    /\ launch[d] \in {"asked", "ok"} => pc[d] \in HasBound \cup {"refused"}
    /\ launch[d] \in {"asked", "ok"} /\ pc[d] \in Holding => peer[d] = {d}
    /\ launch[d] = "ok" /\ pc[d] \in Holding => d \in built

\* `down` has said "stopped".
Stopped ==
  \A c \in Client : ask[c] = "stopped" => \A s \in peer[c] : pc[s] \in Leaving \cup {"gone"}

InTurn == ~Overlap /\ InFiles /\ NobodyHarmed /\ LeftFiles /\ NotOvertaken /\ Stopped

IInv == TypeOK /\ Numbered /\ Connected /\ Launched /\ (~overlapped => InTurn)

----------------------------------------------------------------------------
(* Types *)

LEMMA InitTyped == Init => TypeOK
<1> SUFFICES ASSUME Init PROVE TypeOK
  OBVIOUS
<1>1. pc \in [Supervisor -> Ended \cup Starting \cup Holding \cup Leaving]
  BY DEF Init, Ended
<1>2. pid \in [Supervisor -> SUBSET Pid] /\ peer \in [Who -> SUBSET Supervisor]
  BY DEF Init
<1> QED BY <1>1, <1>2 DEF Init, TypeOK

\* The types of what a supervisor's step changes.
LEMMA GotoTyped ==
  ASSUME TypeOK, NEW s \in Supervisor, NEW l \in Ended \cup Starting \cup Holding \cup Leaving,
         Goto(s, l)
  PROVE  /\ pc' \in [Supervisor -> Ended \cup Starting \cup Holding \cup Leaving]
         /\ pid' \in [Supervisor -> SUBSET Pid]
         /\ overlapped' \in BOOLEAN /\ overtaken' \in SUBSET Detached
<1>1. overlapped' \in BOOLEAN
  BY DEF TypeOK, Goto, Step, Overlap
<1> QED BY <1>1 DEF TypeOK, Goto, Step

\* A supervisor's own steps keep the types.
LEMMA SupervisorTyped ==
  ASSUME TypeOK, NEW s \in Supervisor, Supervises(s) \/ Crash(s) PROVE TypeOK'
<1> USE DEF fileVars, kernVars, userVars, history
<1>1. CASE Check(s) \/ ReadPid(s) \/ WriteFails(s) \/ KernelEnds(s) \/ End(s) \/ Crash(s)
  <2>1. PICK l \in Ended \cup Starting \cup Holding \cup Leaving : Goto(s, l)
    BY <1>1 DEF Check, ReadPid, WriteFails, KernelEnds, End, Crash, Ended, Starting, Holding, Leaving
  <2>2. UNCHANGED <<others, fileVars, kernVars, userVars>>
    BY <1>1 DEF Check, ReadPid, WriteFails, KernelEnds, End, Crash
  <2> QED BY <2>1, <2>2, GotoTyped DEF TypeOK
<1>2. CASE Evict(s) \/ ClearPid(s) \/ Unlink(s) \/ Forget(s)
  <2>1. PICK l \in Ended \cup Starting \cup Holding \cup Leaving : Goto(s, l)
    BY <1>2 DEF Evict, ClearPid, Unlink, Forget, Ended, Starting, Holding, Leaving
  <2>2. sock' \in SUBSET Supervisor /\ pidfile' \in SUBSET Pid
    BY <1>2 DEF Evict, ClearPid, Unlink, Forget, TypeOK
  <2>3. UNCHANGED <<others, kernVars, userVars>>
    BY <1>2 DEF Evict, ClearPid, Unlink, Forget
  <2> QED BY <2>1, <2>2, <2>3, GotoTyped DEF TypeOK
<1>3. CASE Bind(s) \/ WritePid(s) \/ BuildsSucceed(s)
  <2>1. PICK l \in Ended \cup Starting \cup Holding \cup Leaving : Goto(s, l)
    BY <1>3 DEF Bind, WritePid, BuildsSucceed, Ended, Starting, Holding, Leaving
  <2>2. sock' \in SUBSET Supervisor /\ pidfile' \in SUBSET Pid /\ built' \in SUBSET Supervisor
    BY <1>3 DEF Bind, WritePid, BuildsSucceed, TypeOK
  <2>3. UNCHANGED <<others, told, userVars>>
    BY <1>3 DEF Bind, WritePid, BuildsSucceed
  <2> QED BY <2>1, <2>2, <2>3, GotoTyped DEF TypeOK
<1> QED BY <1>1, <1>2, <1>3 DEF Supervises

\* So do the start of a process and the steps of others, of `up -d` and of `down`.
LEMMA StartTyped ==
  ASSUME TypeOK, NEW s \in Supervisor, Start(s), launch' = launch \/ \E d \in Detached : Advance(d, "probed", "waiting"),
         UNCHANGED <<acked, ask, peer>>
  PROVE  TypeOK'
<1>1. /\ pc' \in [Supervisor -> Ended \cup Starting \cup Holding \cup Leaving]
      /\ pid' \in [Supervisor -> SUBSET Pid]
      /\ overtaken' \in SUBSET Detached
  BY DEF Start, Step, TypeOK, Starting
<1>2. overlapped' \in BOOLEAN
  BY DEF Start, Step, TypeOK, Overlap
<1>3. launch' \in [Detached -> {"idle", "already", "probed", "waiting", "bound", "asked", "ok", "failed"}]
  BY DEF Advance, TypeOK
<1> QED BY <1>1, <1>2, <1>3 DEF Start, TypeOK, fileVars, kernVars

LEMMA UserTyped ==
  ASSUME TypeOK, (\E d \in Detached : Launches(d)) \/ (\E c \in Client : Downs(c))
  PROVE  TypeOK'
<1> USE DEF procVars, fileVars, kernVars, history, Outside
<1>1. ASSUME NEW d \in Detached, Launches(d), ~LaunchSpawn(d) PROVE TypeOK'
  <2>1. launch' \in [Detached -> {"idle", "already", "probed", "waiting", "bound", "asked", "ok", "failed"}]
    BY <1>1 DEF Launches, LaunchProbe, LaunchBound, LaunchConnect, LaunchAnswered,
                LaunchChildExited, LaunchTimeout, Advance, TypeOK
  <2>2. peer' \in [Who -> SUBSET Supervisor]
    BY <1>1 DEF Launches, LaunchProbe, LaunchBound, LaunchConnect, LaunchAnswered,
                LaunchChildExited, LaunchTimeout, TypeOK, Who
  <2>3. UNCHANGED <<procVars, fileVars, kernVars, history, acked, ask>>
    BY <1>1 DEF Launches, LaunchProbe, LaunchBound, LaunchConnect, LaunchAnswered,
                LaunchChildExited, LaunchTimeout
  <2> QED BY <2>1, <2>2, <2>3 DEF TypeOK
<1>2. ASSUME NEW d \in Detached, LaunchSpawn(d) PROVE TypeOK'
  BY <1>2, StartTyped, ConstantsAssumption DEF LaunchSpawn
<1>3. ASSUME NEW c \in Client, Downs(c), ~DownSet(c) PROVE TypeOK'
  <2>1. ask' \in [Client -> {"idle", "nobody", "asked", "polling", "stopped", "gave_up", "failed"}]
    BY <1>3 DEF Downs, DownConnect, DownAcked, DownUnanswered, DownPoll, DownTimeout, Move, TypeOK
  <2>2. peer' \in [Who -> SUBSET Supervisor] /\ acked' \in SUBSET Client
    BY <1>3 DEF Downs, DownConnect, DownAcked, DownUnanswered, DownPoll, DownTimeout, TypeOK, Who
  <2>3. UNCHANGED <<procVars, fileVars, kernVars, history, launch>>
    BY <1>3 DEF Downs, DownConnect, DownAcked, DownUnanswered, DownPoll, DownTimeout
  <2> QED BY <2>1, <2>2, <2>3 DEF TypeOK
<1>4. ASSUME NEW c \in Client, DownSet(c) PROVE TypeOK'
  <2>1. told' \in SUBSET Supervisor /\ acked' \in SUBSET Client
    BY <1>4 DEF DownSet, TypeOK, Who
  <2> QED BY <1>4, <2>1 DEF DownSet, TypeOK
<1> QED BY <1>1, <1>2, <1>3, <1>4

LEMMA StepTyped == TypeOK /\ [Next]_vars => TypeOK'
<1> SUFFICES ASSUME TypeOK, [Next]_vars PROVE TypeOK'
  OBVIOUS
<1>1. ASSUME NEW s \in Supervisor, StartForeground(s) PROVE TypeOK'
  BY <1>1, StartTyped DEF StartForeground, userVars
<1>2. ASSUME NEW p \in Pid, OtherStarts(p) \/ OtherEnds(p) PROVE TypeOK'
  BY <1>2 DEF OtherStarts, OtherEnds, TypeOK, fileVars, kernVars, userVars, history
<1>3. CASE UNCHANGED vars
  BY <1>3 DEF vars, TypeOK, procVars, fileVars, kernVars, userVars, history
<1> QED BY <1>1, <1>2, <1>3, SupervisorTyped, UserTyped DEF Next

\* Every variable keeps its type.
THEOREM TypeCorrect == Spec => []TypeOK
<1> QED BY InitTyped, StepTyped, PTL DEF Spec

----------------------------------------------------------------------------
(* What the steps do *)

\* A step of s moves s, and is in turn only if all before it were.
LEMMA Moves ==
  ASSUME TypeOK, NEW s \in Supervisor, NEW l, Step(s, l)
  PROVE  /\ pc'[s] = l
         /\ \A t \in Supervisor : t # s => pc'[t] = pc[t]
         /\ ~overlapped' => ~overlapped /\ ~Overlap'
BY DEF TypeOK, Step

\* Where s gets to in one step of its own, having started.
Follows(from, to) ==
  \/ from = "checking" /\ to \in {"clearing", "reading"}
  \/ from = "reading" /\ to \in {"refused", "evicting"}
  \/ from = "evicting" /\ to = "clearing"
  \/ from = "clearing" /\ to = "binding"
  \/ from = "binding" /\ to \in {"bound", "refused"}
  \/ from = "bound" /\ to = "building"
  \/ from = "building" /\ to = "serving"
  \/ from \in {"building", "serving"} /\ to = "draining"
  \/ from = "draining" /\ to = "unlinked"
  \/ from = "unlinked" /\ to = "leaving"
  \/ from \notin Ended /\ to = "gone"

LEMMA SupervisorMoves ==
  ASSUME TypeOK, NEW s \in Supervisor, Supervises(s) \/ Crash(s)
  PROVE  \E l : Goto(s, l) /\ Follows(pc[s], l) /\ UNCHANGED <<others, told, userVars>>
<1> USE DEF Follows, kernVars, fileVars, Ended
<1>1. CASE Check(s) \/ ReadPid(s)
  BY <1>1 DEF Check, ReadPid
<1>2. CASE Evict(s) \/ ClearPid(s)
  BY <1>2 DEF Evict, ClearPid
<1>3. CASE Bind(s) \/ WritePid(s)
  BY <1>3 DEF Bind, WritePid
<1>4. CASE WriteFails(s) \/ Crash(s)
  BY <1>4 DEF WriteFails, Crash, Alive
<1>5. CASE BuildsSucceed(s) \/ KernelEnds(s)
  BY <1>5 DEF BuildsSucceed, KernelEnds
<1>6. CASE Unlink(s) \/ Forget(s) \/ End(s)
  BY <1>6 DEF Unlink, Forget, End
<1> QED BY <1>1, <1>2, <1>3, <1>4, <1>5, <1>6 DEF Supervises

\* Live processes keep their numbers, and new ones get free ones.
LEMMA StaysNumbered ==
  ASSUME TypeOK, Numbered, NEW s \in Supervisor, Supervises(s) \/ Crash(s) \/ Start(s)
  PROVE  Numbered'
<1>1. CASE Start(s)
  BY <1>1 DEF Start, Step, TypeOK, Numbered, Alive, PidAlive, Ended
<1>2. CASE Supervises(s) \/ Crash(s)
  <2>1. PICK l : Goto(s, l) /\ Follows(pc[s], l)
    BY <1>2, SupervisorMoves
  <2>2. pc'[s] = l /\ \A t \in Supervisor : t # s => pc'[t] = pc[t]
    BY <2>1, Moves DEF Goto
  <2>3. pc[s] \notin Ended
    BY <2>1 DEF Follows, Ended
  <2> QED BY <2>1, <2>2, <2>3 DEF Goto, TypeOK, Numbered, Alive
<1> QED BY <1>1, <1>2

\* Who has had the socket, has had it for good.
LEMMA StaysConnected ==
  ASSUME TypeOK, Connected, NEW s \in Supervisor, Supervises(s) \/ Crash(s) \/ Start(s),
         peer' = peer
  PROVE  Connected'
<1>1. \A t \in Supervisor : pc[t] \in HasBound => pc'[t] \in HasBound
  <2>1. CASE Start(s)
    <3>1. pc[s] = "unborn" /\ Step(s, "checking")
      BY <2>1 DEF Start
    <3>2. pc[s] \notin HasBound
      BY <3>1 DEF HasBound, Holding, Leaving
    <3> QED BY <3>1, <3>2, Moves
  <2>2. CASE Supervises(s) \/ Crash(s)
    <3>1. PICK l : Goto(s, l) /\ Follows(pc[s], l)
      BY <2>2, SupervisorMoves
    <3>2. pc[s] \in HasBound => l \in HasBound
      BY <3>1 DEF Follows, HasBound, Holding, Leaving, Ended
    <3>3. Step(s, l)
      BY <3>1 DEF Goto
    <3> QED BY <3>2, <3>3, Moves
  <2> QED BY <2>1, <2>2
<1>2. sock' = sock \/ sock' = {} \/ (sock' = {s} /\ Step(s, "bound"))
  <2>1. CASE Bind(s)
    BY <2>1 DEF Bind, Goto
  <2>2. CASE Evict(s) \/ ClearPid(s) \/ WritePid(s) \/ Unlink(s) \/ Forget(s)
    BY <2>2 DEF Evict, ClearPid, WritePid, Unlink, Forget
  <2>3. CASE Start(s)
    BY <2>3 DEF Start, fileVars
  <2>4. CASE Check(s) \/ ReadPid(s)
    BY <2>4 DEF Check, ReadPid, fileVars
  <2>5. CASE WriteFails(s) \/ End(s) \/ Crash(s)
    BY <2>5 DEF WriteFails, End, Crash, fileVars
  <2>6. CASE BuildsSucceed(s) \/ KernelEnds(s)
    BY <2>6 DEF BuildsSucceed, KernelEnds, fileVars
  <2> QED BY <2>1, <2>2, <2>3, <2>4, <2>5, <2>6 DEF Supervises
<1>3. Step(s, "bound") => pc'[s] \in HasBound
  BY Moves DEF HasBound, Holding
<1> QED BY <1>1, <1>2, <1>3 DEF Connected, TypeOK

\* A supervisor that an `up -d` has spawned is there, and stays so.
LEMMA StaysLaunched ==
  ASSUME TypeOK, Launched, NEW s \in Supervisor,
         \/ Supervises(s) \/ Crash(s)
         \/ s \notin Detached /\ Start(s)
  PROVE  launch' = launch => Launched'
<1>1. (pc[s] = "unborn") = (pc'[s] = "unborn") \/ s \notin Detached
  <2>1. CASE Supervises(s) \/ Crash(s)
    <3>1. PICK l : Goto(s, l) /\ Follows(pc[s], l)
      BY <2>1, SupervisorMoves
    <3>2. pc[s] # "unborn" /\ l # "unborn"
      BY <3>1 DEF Follows, Ended
    <3>3. Step(s, l)
      BY <3>1 DEF Goto
    <3> QED BY <3>2, <3>3, Moves
  <2> QED BY <2>1
<1>2. \A t \in Supervisor : t # s => pc'[t] = pc[t]
  <2>1. PICK l : Step(s, l)
    BY SupervisorMoves DEF Start, Goto
  <2> QED BY <2>1, Moves
<1> QED BY <1>1, <1>2, ConstantsAssumption DEF Launched

----------------------------------------------------------------------------
(* In turn: as long as no two supervisors change the files at once *)

\* The hypotheses of a step that is in turn.
Safe == TypeOK /\ Numbered /\ Connected /\ Launched /\ InTurn

\* While one is past the stale check, nobody else binds or removes anything.
LEMMA OnlyOneStarts ==
  ASSUME ~Overlap, NEW s \in Supervisor, NEW t \in Supervisor, s # t,
         pc[s] \in Starting
  PROVE  pc[t] \notin Starting \cup {"unlinked"}
BY DEF Overlap

\* A step of s leaves everybody else alone.
LEMMA OthersStay ==
  ASSUME TypeOK, NEW s \in Supervisor, NEW l, Goto(s, l)
  PROVE  /\ pc'[s] = l
         /\ \A t \in Supervisor : t # s => pc'[t] = pc[t] /\ pid'[t] = pid[t]
         /\ l \notin Ended => pid'[s] = pid[s]
BY DEF TypeOK, Goto, Step

\* The steps that touch neither file, and what there is to know of them.
Quiet(s, l) ==
  /\ Follows(pc[s], l) /\ l # "bound" /\ l # "building"
  /\ pc[s] \notin {"evicting", "clearing", "binding", "unlinked"} \/ l = "gone"
  /\ l # "unlinked"
  /\ l \in {"evicting", "clearing"} => \A t \in Supervisor \ {s} : pc[t] \notin Holding
  /\ l = "clearing" => sock = {}
  /\ Goto(s, l) /\ UNCHANGED fileVars

Touches(s) == Evict(s) \/ ClearPid(s) \/ Bind(s) \/ WritePid(s) \/ Unlink(s) \/ Forget(s)

LEMMA QuietSteps ==
  ASSUME Safe, NEW s \in Supervisor, Supervises(s) \/ Crash(s), ~Touches(s)
  PROVE  \E l : Quiet(s, l)
<1> USE DEF Quiet, Follows, fileVars
<1>1. CASE Check(s)
  <2>1. sock = {} => \A t \in Supervisor : pc[t] \notin Holding
    BY DEF Safe, InTurn, InFiles
  <2> QED BY <1>1, <2>1 DEF Check, fileVars, Ended
<1>2. CASE ReadPid(s)
  <2>1. ASSUME NEW t \in Supervisor, t # s, pc[t] \in Holding PROVE \E p \in pidfile : PidAlive(p)
    <3>1. pc[t] # "bound"
      BY <1>2, <2>1, OnlyOneStarts DEF ReadPid, Safe, InTurn, Starting
    <3>2. pidfile = pid[t] /\ Alive(t)
      BY <2>1, <3>1 DEF Safe, InTurn, InFiles, Alive, Ended, Holding
    <3> QED BY <2>1, <3>2 DEF Safe, Numbered, PidAlive, TypeOK
  <2> QED BY <1>2, <2>1 DEF ReadPid, fileVars, Ended
<1>3. CASE WriteFails(s) \/ Crash(s) \/ End(s)
  BY <1>3 DEF WriteFails, Crash, End, Ended, Alive, fileVars
<1>4. CASE KernelEnds(s) \/ BuildsSucceed(s)
  BY <1>4 DEF KernelEnds, BuildsSucceed, fileVars
<1> QED BY <1>1, <1>2, <1>3, <1>4 DEF Supervises, Touches

LEMMA QuietKeepsFiles ==
  ASSUME Safe, NEW s \in Supervisor, NEW l, Quiet(s, l)
  PROVE  InFiles'
<1>1. /\ l \in Holding => pc[s] \in Holding \ {"bound"}
      /\ l \in Holding => l \notin Ended
  BY DEF Quiet, Follows, Holding, Ended
<1>2. sock' = sock /\ pidfile' = pidfile
  BY DEF Quiet, fileVars
<1>3. Goto(s, l)
  BY DEF Quiet
<1> QED BY <1>1, <1>2, <1>3, OthersStay DEF InFiles, Safe, InTurn

LEMMA TouchKeepsFiles ==
  ASSUME Safe, NEW s \in Supervisor, Touches(s), ~Overlap'
  PROVE  InFiles'
<1> USE DEF Safe, InTurn
<1>1. CASE Evict(s) \/ ClearPid(s) \/ Forget(s)
  <2>1. \A t \in Supervisor : pc[t] \notin Holding
    BY <1>1 DEF NobodyHarmed, Evict, ClearPid, Forget
  <2>2. PICK l : Goto(s, l) /\ l \notin Holding
    BY <1>1 DEF Evict, ClearPid, Forget, Holding
  <2> QED BY <2>1, <2>2, OthersStay DEF InFiles
<1>2. CASE Unlink(s)
  <2>1. \A t \in Supervisor : t # s => pc[t] \notin Holding
    BY <1>2 DEF Unlink, InFiles, Holding
  <2>2. Goto(s, "unlinked") /\ "unlinked" \notin Holding
    BY <1>2 DEF Unlink, Holding
  <2> QED BY <2>1, <2>2, OthersStay DEF InFiles
<1>3. CASE Bind(s)
  <2>1. \A t \in Supervisor : pc[t] \notin Holding
    BY <1>3 DEF NobodyHarmed, Bind
  <2>2. sock' = {s} /\ Goto(s, "bound")
    BY <1>3 DEF NobodyHarmed, Bind
  <2> QED BY <2>1, <2>2, OthersStay DEF InFiles
<1>4. CASE WritePid(s)
  <2>1. \A t \in Supervisor : t # s => pc[t] \notin Holding
    BY <1>4 DEF WritePid, InFiles, Holding
  <2>2. Goto(s, "building") /\ pidfile' = pid[s] /\ sock' = {s}
    BY <1>4 DEF WritePid, InFiles, Holding
  <2>3. pid'[s] = pid[s]
    BY <2>2, OthersStay DEF Ended
  <2> QED BY <2>1, <2>2, <2>3, OthersStay DEF InFiles
<1> QED BY <1>1, <1>2, <1>3, <1>4 DEF Touches

\* Nobody who holds the endpoint is harmed.
LEMMA QuietHarmsNobody ==
  ASSUME Safe, NEW s \in Supervisor, NEW l, Quiet(s, l)
  PROVE  NobodyHarmed'
<1>1. /\ l \in {"evicting", "clearing", "binding", "unlinked"} =>
            sock' = sock /\ \A t \in Supervisor \ {s} : pc[t] \notin Holding
      /\ l \in {"clearing", "binding"} => sock = {}
      /\ l \in Holding => pc[s] \in Holding
      /\ l \in Holding => l \notin {"evicting", "clearing", "binding", "unlinked"}
  BY DEF Quiet, Follows, Holding, fileVars
<1>2. sock' = sock /\ Goto(s, l)
  BY DEF Quiet, fileVars
<1> QED BY <1>1, <1>2, OthersStay DEF NobodyHarmed, Safe, InTurn

LEMMA TouchHarmsNobody ==
  ASSUME Safe, NEW s \in Supervisor, Touches(s), ~Overlap'
  PROVE  NobodyHarmed'
<1> USE DEF Safe, InTurn
<1>1. CASE Evict(s) \/ ClearPid(s) \/ Forget(s)
  <2>1. \A t \in Supervisor : pc[t] \notin Holding
    BY <1>1 DEF NobodyHarmed, Evict, ClearPid, Forget
  <2>2. PICK l : Goto(s, l) /\ l \notin Holding /\ (l \in {"clearing", "binding"} => sock' = {})
                /\ sock' \in {sock, {}}
    BY <1>1 DEF Evict, ClearPid, Forget, Holding, NobodyHarmed
  <2> QED BY <2>1, <2>2, OthersStay DEF NobodyHarmed
<1>2. CASE Unlink(s)
  <2>1. \A t \in Supervisor : t # s => pc[t] \notin Holding
    BY <1>2 DEF Unlink, InFiles, Holding
  <2>2. Goto(s, "unlinked") /\ "unlinked" \notin Holding /\ sock' = {}
    BY <1>2 DEF Unlink, Holding
  <2> QED BY <2>1, <2>2, OthersStay DEF NobodyHarmed
<1>3. CASE Bind(s) \/ WritePid(s)
  <2>1. \A t \in Supervisor : t # s => pc[t] \notin {"evicting", "clearing", "binding", "unlinked"}
    BY <1>3, OnlyOneStarts DEF Bind, WritePid, Starting
  <2>2. PICK l : Goto(s, l) /\ l \in {"bound", "building"}
    BY <1>3 DEF Bind, WritePid, NobodyHarmed
  <2> QED BY <2>1, <2>2, OthersStay DEF NobodyHarmed
<1> QED BY <1>1, <1>2, <1>3 DEF Touches

\* Who is leaving stays out of both files.
LEMMA QuietLeavesFiles ==
  ASSUME Safe, NEW s \in Supervisor, NEW l, Quiet(s, l)
  PROVE  LeftFiles'
<1>1. /\ l \notin {"unlinked", "leaving"}
      /\ sock' = sock /\ pidfile' = pidfile /\ Goto(s, l)
  BY DEF Quiet, Follows, fileVars
<1>2. l \notin Leaving
  BY <1>1 DEF Leaving
<1> QED BY <1>1, <1>2, OthersStay DEF LeftFiles, Safe, InTurn

LEMMA TouchLeavesFiles ==
  ASSUME Safe, NEW s \in Supervisor, Touches(s), ~Overlap'
  PROVE  LeftFiles'
<1> USE DEF Safe, InTurn
<1>1. CASE Evict(s) \/ ClearPid(s)
  <2>1. PICK l : Goto(s, l) /\ l \notin Leaving /\ l # "leaving"
    BY <1>1 DEF Evict, ClearPid, Leaving
  <2>2. sock' \in {sock, {}} /\ pidfile' \in {pidfile, {}}
    BY <1>1 DEF Evict, ClearPid
  <2> QED BY <2>1, <2>2, OthersStay DEF LeftFiles
<1>2. CASE Unlink(s)
  <2>1. Goto(s, "unlinked") /\ sock' = {} /\ pidfile' = pidfile
    BY <1>2 DEF Unlink
  <2> QED BY <2>1, OthersStay DEF LeftFiles
<1>3. CASE Forget(s)
  <2>1. Goto(s, "leaving") /\ sock' = sock /\ pidfile' = {} /\ s \notin sock
    BY <1>3 DEF Forget, LeftFiles, Leaving
  <2> QED BY <2>1, OthersStay DEF LeftFiles
<1>4. CASE Bind(s)
  <2>1. PICK l : Goto(s, l) /\ l \in {"bound", "refused"}
    BY <1>4 DEF Bind
  <2>2. l \notin Leaving /\ l # "leaving" /\ sock' \in {sock, {s}} /\ pidfile' = pidfile
    BY <1>4, <2>1 DEF Bind, Leaving
  <2> QED BY <2>1, <2>2, OthersStay DEF LeftFiles
<1>5. CASE WritePid(s)
  <2>1. Goto(s, "building") /\ sock' = sock /\ pidfile' = pid[s] /\ "building" \notin Leaving
    BY <1>5 DEF WritePid, Leaving
  <2> QED BY <2>1, OthersStay DEF LeftFiles, Numbered
<1> QED BY <1>1, <1>2, <1>3, <1>4, <1>5 DEF Touches

\* Whoever is not in an `up -d`'s window does not get there by a step of its own.
LEMMA WindowsClose ==
  ASSUME TypeOK, NEW s \in Supervisor, NEW l, Goto(s, l), Follows(pc[s], l),
         launch' = launch, NEW d \in Detached, InWindow(d)'
  PROVE  InWindow(d)
<1>1. Follows(pc[s], l) /\ l \in Starting => pc[s] \in Starting
  BY DEF Follows, Starting, Ended
<1> QED BY <1>1, OthersStay, ConstantsAssumption DEF InWindow

\* A step of a supervisor overtakes only those it is recorded to overtake.
LEMMA SupervisorOvertakes ==
  ASSUME Safe, NEW s \in Supervisor, Supervises(s) \/ Crash(s), ~overlapped'
  PROVE  NotOvertaken'
<1>1. PICK l : Goto(s, l) /\ Follows(pc[s], l) /\ UNCHANGED <<others, told, userVars>>
  BY SupervisorMoves DEF Safe
<1> SUFFICES ASSUME NEW d \in Detached \ overtaken'
             PROVE  /\ InWindow(d)' => \A t \in Supervisor \ {d} : pc'[t] \notin Holding
                    /\ launch'[d] \in {"asked", "ok"} => pc'[d] \in HasBound \cup {"refused"}
                    /\ launch'[d] \in {"asked", "ok"} /\ pc'[d] \in Holding => peer'[d] = {d}
                    /\ launch'[d] = "ok" /\ pc'[d] \in Holding => d \in built'
  BY DEF NotOvertaken
<1>2. /\ d \notin overtaken
      /\ d # s /\ InWindow(d) => ~(pc[s] = "binding" /\ l = "bound")
  BY <1>1 DEF Goto, Step
<1>3. launch' = launch /\ peer' = peer
  BY <1>1 DEF userVars
<1>4. l \in Holding => pc[s] \in Holding \/ (pc[s] = "binding" /\ l = "bound")
  BY <1>1 DEF Follows, Holding, Ended
<1>5. pc[s] \in HasBound \cup {"refused"} => l \in HasBound
  BY <1>1 DEF Follows, HasBound, Holding, Leaving, Ended
<1>6. built \subseteq built'
  BY DEF Supervises, Crash, Check, ReadPid, Evict, ClearPid, Bind, WritePid, WriteFails,
         BuildsSucceed, KernelEnds, Unlink, Forget, End, kernVars
<1>7. TypeOK
  BY DEF Safe
<1>8. InWindow(d)' => \A t \in Supervisor \ {d} : pc'[t] \notin Holding
  BY <1>1, <1>2, <1>3, <1>4, <1>7, WindowsClose, OthersStay DEF Safe, InTurn, NotOvertaken
<1>9. launch'[d] \in {"asked", "ok"} => pc'[d] \in HasBound \cup {"refused"}
  BY <1>1, <1>2, <1>3, <1>5, <1>7, OthersStay, ConstantsAssumption DEF Safe, InTurn, NotOvertaken
<1>10. launch[d] \in {"asked", "ok"} /\ pc'[d] \in Holding => pc[d] \in Holding
  <2>1. pc[d] = "binding" => launch[d] \notin {"asked", "ok"}
    BY <1>2 DEF Safe, InTurn, NotOvertaken, HasBound, Holding, Leaving
  <2> QED BY <2>1, <1>1, <1>4, <1>7, OthersStay, ConstantsAssumption
<1> QED BY <1>2, <1>3, <1>6, <1>8, <1>9, <1>10 DEF Safe, InTurn, NotOvertaken

\* What a `down` has said stays so.
LEMMA SupervisorStaysStopped ==
  ASSUME Safe, NEW s \in Supervisor, Supervises(s) \/ Crash(s)
  PROVE  Stopped'
<1>1. PICK l : Goto(s, l) /\ Follows(pc[s], l) /\ UNCHANGED <<others, told, userVars>>
  BY SupervisorMoves DEF Safe
<1>2. pc[s] \in Leaving \cup {"gone"} => l \in Leaving \cup {"gone"}
  BY <1>1 DEF Follows, Leaving, Ended
<1>3. ask' = ask /\ peer' = peer
  BY <1>1 DEF userVars
<1>4. \A t \in Supervisor : pc[t] \in Leaving \cup {"gone"} => pc'[t] \in Leaving \cup {"gone"}
  BY <1>1, <1>2, OthersStay DEF Safe
<1>5. \A c \in Client : peer[c] \subseteq Supervisor
  BY DEF Safe, TypeOK, Who
<1> QED BY <1>3, <1>4, <1>5 DEF Safe, InTurn, Stopped

\* None of this is disturbed by what leaves supervisors, files and users alone.
LEMMA Unseen ==
  ASSUME InTurn, UNCHANGED <<pc, pid, fileVars, built, launch, ask, peer, overtaken>>
  PROVE  InTurn'
<1> USE DEF fileVars, InTurn
<1>1. ~Overlap'
  BY DEF Overlap
<1>2. InFiles' /\ NobodyHarmed' /\ LeftFiles'
  BY DEF InFiles, NobodyHarmed, LeftFiles
<1>3. NotOvertaken'
  BY DEF NotOvertaken, InWindow
<1>4. Stopped'
  BY DEF Stopped
<1> QED BY <1>1, <1>2, <1>3, <1>4

\* A process that starts has to be the only one that does.
LEMMA StartsInTurn ==
  ASSUME Safe, NEW s \in Supervisor, Start(s), ~overlapped',
         \/ s \notin Detached /\ launch' = launch
         \/ s \in Detached /\ Advance(s, "probed", "waiting"),
         UNCHANGED <<acked, ask, peer>>
  PROVE  InTurn'
<1> USE DEF Safe, InTurn
<1>1. /\ pc[s] = "unborn" /\ pc'[s] = "checking"
      /\ \A t \in Supervisor \ {s} : pc'[t] = pc[t] /\ pid'[t] = pid[t]
      /\ sock' = sock /\ pidfile' = pidfile /\ built' = built
      /\ overtaken \subseteq overtaken'
  BY DEF Start, Step, TypeOK, fileVars, kernVars
<1>2. ~Overlap'
  BY Moves DEF Start
<1>3. "checking" \notin Holding \cup Leaving \cup {"gone"}
  BY DEF Holding, Leaving
<1>4. InFiles' /\ NobodyHarmed' /\ LeftFiles'
  BY <1>1, <1>3 DEF InFiles, NobodyHarmed, LeftFiles
<1>5. \A d \in Detached : d # s => launch'[d] = launch[d]
  BY DEF Advance, TypeOK
<1>6. s \in Detached => launch[s] = "probed" /\ launch'[s] = "waiting"
  BY DEF Advance, TypeOK
<1>7. NotOvertaken'
  <2> SUFFICES ASSUME NEW d \in Detached \ overtaken'
               PROVE  /\ InWindow(d)' => \A t \in Supervisor \ {d} : pc'[t] \notin Holding
                      /\ launch'[d] \in {"asked", "ok"} => pc'[d] \in HasBound \cup {"refused"}
                      /\ launch'[d] \in {"asked", "ok"} /\ pc'[d] \in Holding => peer'[d] = {d}
                      /\ launch'[d] = "ok" /\ pc'[d] \in Holding => d \in built'
    BY DEF NotOvertaken
  <2>1. d \in Supervisor /\ d \notin overtaken
    BY <1>1, ConstantsAssumption
  <2>2. CASE d = s
    BY <2>1, <2>2, <1>1, <1>6 DEF NotOvertaken, InWindow
  <2>3. CASE d # s
    <3>1. pc'[d] = pc[d] /\ launch'[d] = launch[d]
      BY <2>1, <2>3, <1>1, <1>5
    <3> QED BY <2>1, <3>1, <1>1, <1>3 DEF NotOvertaken, InWindow
  <2> QED BY <2>2, <2>3
<1>8. Stopped'
  <2>1. \A c \in Client : peer[c] \subseteq Supervisor
    BY DEF TypeOK, Who
  <2>2. pc[s] \notin Leaving \cup {"gone"}
    BY <1>1 DEF Leaving
  <2> QED BY <2>1, <2>2, <1>1 DEF Stopped
<1> QED BY <1>2, <1>4, <1>7, <1>8

\* Whoever holds the endpoint answers a probe, and nobody else does.
LEMMA ProbeFindsHolder ==
  ASSUME Safe
  PROVE  /\ \A s \in Supervisor : pc[s] \in Holding => Probe
         /\ Probe => \E s \in Supervisor : pc[s] \in Holding /\ sock = {s}
BY DEF Safe, InTurn, InFiles, LeftFiles, Probe, Listening, TypeOK

\* An `up -d` hears what it hears from the supervisor it spawned.
LEMMA LaunchesInTurn ==
  ASSUME Safe, NEW d \in Detached, Launches(d), ~LaunchSpawn(d)
  PROVE  InTurn'
<1> USE DEF Safe, InTurn
<1>1. Outside /\ ask' = ask
  BY DEF Launches, LaunchProbe, LaunchBound, LaunchConnect, LaunchAnswered,
         LaunchChildExited, LaunchTimeout
<1>2. UNCHANGED <<pc, pid, sock, pidfile, built, overtaken>>
  BY <1>1 DEF Outside, procVars, fileVars, kernVars, history
<1>3. ~Overlap' /\ InFiles' /\ NobodyHarmed' /\ LeftFiles'
  BY <1>2 DEF Overlap, InFiles, NobodyHarmed, LeftFiles
<1>4. \A w \in Who : w # d => peer'[w] = peer[w]
  BY DEF Launches, LaunchProbe, LaunchBound, LaunchConnect, LaunchAnswered,
         LaunchChildExited, LaunchTimeout, TypeOK, Who
<1>5. Stopped'
  <2>1. \A c \in Client : c \in Who /\ c # d
    BY ConstantsAssumption DEF Who
  <2> QED BY <2>1, <1>1, <1>2, <1>4 DEF Stopped
<1>6. \A e \in Detached : e # d => launch'[e] = launch[e] /\ peer'[e] = peer[e]
  <2>1. \A e \in Detached : e # d => launch'[e] = launch[e]
    BY DEF Launches, LaunchProbe, LaunchBound, LaunchConnect, LaunchAnswered,
           LaunchChildExited, LaunchTimeout, Advance, TypeOK
  <2> QED BY <2>1, <1>4 DEF Who
<1>7. d \notin overtaken =>
        /\ InWindow(d)' => \A t \in Supervisor \ {d} : pc'[t] \notin Holding
        /\ launch'[d] \in {"asked", "ok"} => pc'[d] \in HasBound \cup {"refused"}
        /\ launch'[d] \in {"asked", "ok"} /\ pc'[d] \in Holding => peer'[d] = {d}
        /\ launch'[d] = "ok" /\ pc'[d] \in Holding => d \in built'
  <2>1. CASE LaunchProbe(d)
    <3>1. launch'[d] = "already" \/ (launch'[d] = "probed" /\ ~Probe)
      BY <2>1 DEF LaunchProbe, Advance, TypeOK
    <3> QED BY <3>1, <1>2, ProbeFindsHolder, <2>1 DEF NotOvertaken, InWindow
  <2>2. CASE LaunchBound(d) \/ LaunchChildExited(d) \/ LaunchTimeout(d)
    <3>1. launch'[d] \in {"bound", "failed"}
      BY <2>2 DEF LaunchBound, LaunchChildExited, LaunchTimeout, Advance, TypeOK
    <3> QED BY <3>1, <1>2 DEF NotOvertaken, InWindow
  <2>3. CASE LaunchConnect(d)
    <3>1. launch[d] = "bound" /\ pc[d] # "unborn"
      BY <2>3 DEF LaunchConnect, Advance, Launched
    <3>2. CASE ~Probe
      <4>1. launch'[d] = "failed"
        BY <2>3, <3>2 DEF LaunchConnect, Advance, TypeOK
      <4> QED BY <4>1, <1>2 DEF NotOvertaken, InWindow
    <3>3. CASE Probe
      <4>1. launch'[d] = "asked" /\ peer'[d] = sock
        BY <2>3, <3>3 DEF LaunchConnect, Advance, TypeOK, Who
      <4>2. d \in Supervisor /\ (pc[d] \in Holding => sock = {d})
        BY ConstantsAssumption DEF InFiles
      <4>3. d \notin overtaken /\ pc[d] \in Starting => pc[d] \in Holding
        BY <3>3, ProbeFindsHolder DEF NotOvertaken, InWindow
      <4>4. pc[d] \in Ended \cup Starting \cup Holding \cup Leaving
        BY <4>2 DEF TypeOK
      <4>5. d \notin overtaken => pc[d] \in HasBound \cup {"refused"}
        BY <4>3, <4>4, <3>1 DEF HasBound, Ended
      <4> QED BY <4>1, <4>2, <4>3, <4>5, <1>2 DEF NotOvertaken, InWindow
    <3> QED BY <3>2, <3>3
  <2>4. CASE LaunchAnswered(d)
    <3>1. PICK s \in peer[d] : Advance(d, "asked", IF Alive(s) /\ s \in built THEN "ok" ELSE "failed")
      BY <2>4 DEF LaunchAnswered
    <3>2. launch[d] = "asked" /\ (launch'[d] = "failed" \/ (launch'[d] = "ok" /\ s \in built))
      BY <3>1 DEF Advance, TypeOK
    <3>3. peer' = peer
      BY <2>4 DEF LaunchAnswered
    <3> QED BY <3>1, <3>2, <3>3, <1>2 DEF NotOvertaken, InWindow
  <2> QED BY <2>1, <2>2, <2>3, <2>4 DEF Launches
<1>8. NotOvertaken'
  BY <1>2, <1>6, <1>7 DEF NotOvertaken, InWindow
<1> QED BY <1>3, <1>5, <1>8

\* A `down` that finds nobody there has had its supervisor leave.
LEMMA DownsInTurn ==
  ASSUME Safe, NEW c \in Client, Downs(c)
  PROVE  InTurn'
<1> USE DEF Safe, InTurn
<1>1. UNCHANGED <<pc, pid, sock, pidfile, built, launch, overtaken>>
  BY DEF Downs, DownConnect, DownAcked, DownSet, DownUnanswered, DownPoll, DownTimeout,
         Outside, procVars, fileVars, kernVars, history
<1>2. ~Overlap' /\ InFiles' /\ NobodyHarmed' /\ LeftFiles'
  BY <1>1 DEF Overlap, InFiles, NobodyHarmed, LeftFiles
<1>3. \A w \in Who : w # c => peer'[w] = peer[w]
  BY DEF Downs, DownConnect, DownAcked, DownSet, DownUnanswered, DownPoll, DownTimeout, TypeOK, Who
<1>4. NotOvertaken'
  <2>1. \A d \in Detached : d \in Who /\ d # c
    BY ConstantsAssumption DEF Who
  <2> QED BY <2>1, <1>1, <1>3 DEF NotOvertaken, InWindow
<1>5. \A b \in Client : b # c => ask'[b] = ask[b]
  BY DEF Downs, DownConnect, DownAcked, DownSet, DownUnanswered, DownPoll, DownTimeout, Move, TypeOK
<1>6. ask'[c] = "stopped" => \A s \in peer'[c] : pc'[s] \in Leaving \cup {"gone"}
  <2>1. CASE DownPoll(c)
    <3>1. peer' = peer /\ ~Probe /\ c \in Who /\ peer[c] \subseteq Supervisor
      BY <2>1 DEF DownPoll, TypeOK, Who
    <3>2. \A s \in peer[c] : pc[s] \in HasBound /\ pc[s] \notin Holding
      BY <3>1, ProbeFindsHolder DEF Connected
    <3> QED BY <3>1, <3>2, <1>1 DEF HasBound
  <2>2. CASE DownSet(c)
    BY <2>2, <1>1 DEF DownSet, Stopped
  <2>3. CASE DownConnect(c) \/ DownAcked(c) \/ DownUnanswered(c) \/ DownTimeout(c)
    <3>1. ask'[c] \in {"asked", "nobody", "polling", "failed", "gave_up"}
      BY <2>3 DEF DownConnect, DownAcked, DownUnanswered, DownTimeout, Move, TypeOK
    <3> QED BY <3>1
  <2> QED BY <2>1, <2>2, <2>3 DEF Downs
<1>7. Stopped'
  BY <1>1, <1>3, <1>5, <1>6 DEF Stopped, Who
<1> QED BY <1>2, <1>4, <1>7

----------------------------------------------------------------------------
(* The invariant holds *)

LEMMA InitInvariant == Init => IInv
<1> SUFFICES ASSUME Init PROVE IInv
  OBVIOUS
<1>1. TypeOK
  BY InitTyped
<1>2. Numbered /\ Connected /\ Launched
  BY ConstantsAssumption DEF Init, Numbered, Connected, Launched, Alive, Ended
<1>3. \A s \in Supervisor : pc[s] = "unborn"
  BY DEF Init
<1>4. ~Overlap /\ InFiles /\ NobodyHarmed /\ LeftFiles
  BY <1>3 DEF Overlap, InFiles, NobodyHarmed, LeftFiles, Starting, Holding, Leaving
<1>5. NotOvertaken /\ Stopped
  BY <1>3, ConstantsAssumption DEF Init, NotOvertaken, Stopped, InWindow, Holding, Starting
<1> QED BY <1>1, <1>2, <1>4, <1>5 DEF IInv, InTurn

\* What does not depend on anybody's turn.
LEMMA StaysWellFormed ==
  ASSUME IInv, [Next]_vars
  PROVE  Numbered' /\ Connected' /\ Launched'
<1> USE DEF IInv
<1>1. ASSUME NEW s \in Supervisor, Supervises(s) \/ Crash(s) PROVE Numbered' /\ Connected' /\ Launched'
  <2>1. peer' = peer /\ launch' = launch
    BY <1>1, SupervisorMoves DEF userVars
  <2> QED BY <1>1, <2>1, StaysNumbered, StaysConnected, StaysLaunched
<1>2. ASSUME NEW s \in Supervisor \ Detached, StartForeground(s) PROVE Numbered' /\ Connected' /\ Launched'
  <2>1. peer' = peer /\ launch' = launch /\ Start(s)
    BY <1>2 DEF StartForeground, userVars
  <2> QED BY <1>2, <2>1, StaysNumbered, StaysConnected, StaysLaunched
<1>3. ASSUME UNCHANGED <<pc, pid, sock, launch, peer>> PROVE Numbered' /\ Connected' /\ Launched'
  BY <1>3 DEF Numbered, Connected, Launched, Alive
<1>4. ASSUME NEW p \in Pid, OtherStarts(p) \/ OtherEnds(p) PROVE Numbered' /\ Connected' /\ Launched'
  BY <1>3, <1>4 DEF OtherStarts, OtherEnds, fileVars, userVars
<1>5. ASSUME NEW d \in Detached, LaunchSpawn(d) PROVE Numbered' /\ Connected' /\ Launched'
  <2>1. d \in Supervisor /\ Start(d) /\ peer' = peer /\ Advance(d, "probed", "waiting")
    BY <1>5, ConstantsAssumption DEF LaunchSpawn
  <2>2. pc'[d] = "checking" /\ \A t \in Supervisor : t # d => pc'[t] = pc[t]
    BY <2>1, Moves DEF Start
  <2>3. Launched'
    BY <2>1, <2>2, ConstantsAssumption DEF Launched, Advance, TypeOK
  <2> QED BY <2>1, <2>3, StaysNumbered, StaysConnected
<1>6. ASSUME NEW d \in Detached, Launches(d), ~LaunchSpawn(d) PROVE Numbered' /\ Connected' /\ Launched'
  <2>1. UNCHANGED <<pc, pid, sock>>
    BY <1>6 DEF Launches, LaunchProbe, LaunchBound, LaunchConnect, LaunchAnswered,
                LaunchChildExited, LaunchTimeout, Outside, procVars, fileVars
  <2>2. \A w \in Who : peer'[w] = peer[w] \/ peer'[w] = sock
    BY <1>6 DEF Launches, LaunchProbe, LaunchBound, LaunchConnect, LaunchAnswered,
                LaunchChildExited, LaunchTimeout, TypeOK
  <2>3. \A e \in Detached : launch'[e] = launch[e] \/
          (launch[e] = "idle" /\ launch'[e] \in {"already", "probed"}) \/
          (launch[e] \in {"waiting", "bound", "asked"} /\ launch'[e] \in {"bound", "asked", "ok", "failed"})
    BY <1>6 DEF Launches, LaunchProbe, LaunchBound, LaunchConnect, LaunchAnswered,
                LaunchChildExited, LaunchTimeout, Advance, TypeOK
  <2>4. Numbered' /\ Connected'
    BY <2>1, <2>2 DEF Numbered, Connected, Alive
  <2>5. Launched'
    BY <2>1, <2>3 DEF Launched
  <2> QED BY <2>4, <2>5
<1>7. ASSUME NEW c \in Client, Downs(c) PROVE Numbered' /\ Connected' /\ Launched'
  <2>1. UNCHANGED <<pc, pid, sock, launch>>
    BY <1>7 DEF Downs, DownConnect, DownAcked, DownSet, DownUnanswered, DownPoll, DownTimeout,
                Outside, procVars, fileVars
  <2>2. \A w \in Who : peer'[w] = peer[w] \/ peer'[w] = sock
    BY <1>7 DEF Downs, DownConnect, DownAcked, DownSet, DownUnanswered, DownPoll, DownTimeout, TypeOK
  <2>3. Numbered' /\ Launched'
    BY <2>1 DEF Numbered, Launched, Alive
  <2>4. Connected'
    BY <2>1, <2>2 DEF Connected
  <2> QED BY <2>3, <2>4
<1>8. CASE UNCHANGED vars
  BY <1>3, <1>8 DEF vars, procVars, fileVars, userVars
<1> QED BY <1>1, <1>2, <1>4, <1>5, <1>6, <1>7, <1>8 DEF Next

\* Every step that is in turn leaves everything in turn.
LEMMA StaysInTurn ==
  ASSUME Safe, [Next]_vars, ~overlapped' PROVE InTurn'
<1>1. ASSUME NEW s \in Supervisor, Supervises(s) \/ Crash(s) PROVE InTurn'
  <2>1. TypeOK /\ \E l : Step(s, l)
    BY <1>1, SupervisorMoves DEF Goto, Safe
  <2>2. ~Overlap'
    BY <2>1, Moves
  <2>3. CASE Touches(s)
    BY <1>1, <2>2, <2>3, TouchKeepsFiles, TouchHarmsNobody, TouchLeavesFiles,
       SupervisorOvertakes, SupervisorStaysStopped DEF InTurn
  <2>4. CASE ~Touches(s)
    BY <1>1, <2>2, <2>4, QuietSteps, QuietKeepsFiles, QuietHarmsNobody, QuietLeavesFiles,
       SupervisorOvertakes, SupervisorStaysStopped DEF InTurn
  <2> QED BY <2>3, <2>4
<1>2. ASSUME NEW s \in Supervisor \ Detached, StartForeground(s) PROVE InTurn'
  BY <1>2, StartsInTurn DEF StartForeground, userVars
<1>3. ASSUME NEW p \in Pid, OtherStarts(p) \/ OtherEnds(p) PROVE InTurn'
  BY <1>3, Unseen DEF OtherStarts, OtherEnds, kernVars, userVars, history, Safe
<1>4. ASSUME NEW d \in Detached, LaunchSpawn(d) PROVE InTurn'
  BY <1>4, StartsInTurn, ConstantsAssumption DEF LaunchSpawn
<1>5. ASSUME NEW d \in Detached, Launches(d), ~LaunchSpawn(d) PROVE InTurn'
  BY <1>5, LaunchesInTurn
<1>6. ASSUME NEW c \in Client, Downs(c) PROVE InTurn'
  BY <1>6, DownsInTurn
<1>7. CASE UNCHANGED vars
  BY <1>7, Unseen DEF vars, procVars, kernVars, userVars, history, Safe
<1> QED BY <1>1, <1>2, <1>3, <1>4, <1>5, <1>6, <1>7 DEF Next

\* Once two have been at the files together, that is on record.
LEMMA TurnsAreRemembered ==
  ASSUME TypeOK, [Next]_vars, ~overlapped' PROVE ~overlapped
<1>1. ASSUME NEW s \in Supervisor, Supervises(s) \/ Crash(s) \/ Start(s) PROVE ~overlapped
  BY <1>1, SupervisorMoves, Moves DEF Goto, Start
<1>2. CASE overlapped' = overlapped
  BY <1>2
<1>3. ASSUME NEW d \in Detached, Launches(d), ~LaunchSpawn(d) PROVE overlapped' = overlapped
  BY <1>3 DEF Launches, LaunchProbe, LaunchBound, LaunchConnect, LaunchAnswered,
              LaunchChildExited, LaunchTimeout, Outside, history
<1>4. ASSUME NEW c \in Client, Downs(c) PROVE overlapped' = overlapped
  BY <1>4 DEF Downs, DownConnect, DownAcked, DownSet, DownUnanswered, DownPoll, DownTimeout,
              Outside, history
<1>5. ASSUME NEW d \in Detached, LaunchSpawn(d) PROVE ~overlapped
  BY <1>1, <1>5, ConstantsAssumption DEF LaunchSpawn
<1>6. ASSUME NEW s \in Supervisor, StartForeground(s) PROVE ~overlapped
  BY <1>1, <1>6 DEF StartForeground
<1>7. ASSUME NEW p \in Pid, OtherStarts(p) \/ OtherEnds(p) PROVE overlapped' = overlapped
  BY <1>7 DEF OtherStarts, OtherEnds, history
<1> QED BY <1>1, <1>2, <1>3, <1>4, <1>5, <1>6, <1>7 DEF Next, vars, history

LEMMA StepInvariant == IInv /\ [Next]_vars => IInv'
<1> SUFFICES ASSUME IInv, [Next]_vars PROVE IInv'
  OBVIOUS
<1>1. TypeOK' /\ Numbered' /\ Connected' /\ Launched'
  BY StepTyped, StaysWellFormed DEF IInv
<1>2. ~overlapped' => InTurn'
  BY TurnsAreRemembered, StaysInTurn DEF IInv, Safe
<1> QED BY <1>1, <1>2 DEF IInv

LEMMA Invariant == Spec => []IInv
<1> QED BY InitInvariant, StepInvariant, PTL DEF Spec

----------------------------------------------------------------------------
(* What follows from it *)

\* However many supervisors start, crash and leave, one at most has the endpoint.
THEOREM OneSupervisorEver == Spec => []OneSupervisor
<1>1. IInv => OneSupervisor
  BY DEF IInv, InTurn, InFiles, OneSupervisor
<1> QED BY <1>1, Invariant, PTL

\* "stopped" is true of the supervisor that a `down` asked.
THEOREM StoppedIsStoppedEver == Spec => []StoppedIsStopped
<1>1. IInv => StoppedIsStopped
  BY DEF IInv, InTurn, Stopped, StoppedIsStopped, Ended
<1> QED BY <1>1, Invariant, PTL

\* An `up -d` reports the builds of the supervisor it spawned.
THEOREM OwnSupervisorAnswersEver == Spec => []OwnSupervisorAnswers
<1>1. IInv => OwnSupervisorAnswers
  BY DEF IInv, InTurn, NotOvertaken, OwnSupervisorAnswers
<1> QED BY <1>1, Invariant, PTL

\* Whoever is refused is refused by another supervisor, or by a number that
\* has been given away.
LEMMA RefusalHasCause ==
  ASSUME IInv, [Next]_vars, NEW s \in Supervisor,
         pc[s] # "refused", pc'[s] = "refused", ~overlapped'
  PROVE  \/ \E t \in Supervisor \ {s} : pc[t] \in Holding
         \/ \E p \in pidfile : p \in others \cup pid[s]
<1> USE DEF IInv
<1>1. InTurn
  BY TurnsAreRemembered
<1>2. Supervises(s) \/ Crash(s)
  <2>1. ASSUME NEW u \in Supervisor, Start(u) PROVE FALSE
    BY <2>1, Moves DEF Start
  <2>2. ASSUME NEW u \in Supervisor, Supervises(u) \/ Crash(u) PROVE u = s
    BY <2>2, SupervisorMoves, OthersStay
  <2>3. pc' # pc
    OBVIOUS
  <2>4. ASSUME NEW d \in Detached, Launches(d) PROVE FALSE
    BY <2>1, <2>3, <2>4, ConstantsAssumption
       DEF Launches, LaunchProbe, LaunchSpawn, LaunchBound, LaunchConnect, LaunchAnswered,
           LaunchChildExited, LaunchTimeout, Outside, procVars
  <2>5. ASSUME NEW c \in Client, Downs(c) PROVE FALSE
    BY <2>3, <2>5 DEF Downs, DownConnect, DownAcked, DownSet, DownUnanswered, DownPoll,
                      DownTimeout, Outside, procVars
  <2> QED BY <2>1, <2>2, <2>3, <2>4, <2>5
          DEF Next, StartForeground, OtherStarts, OtherEnds, vars, procVars
<1>3. pc[s] \in {"reading", "binding"}
  BY <1>2, SupervisorMoves, OthersStay DEF Follows
<1>4. CASE Bind(s)
  <2>1. sock = {}
    BY <1>1, <1>4 DEF Bind, InTurn, NobodyHarmed
  <2> QED BY <1>4, <2>1, OthersStay DEF Bind
<1>5. CASE ReadPid(s)
  <2>1. pc[s] = "reading" /\ \E p \in pidfile : PidAlive(p)
    BY <1>5, OthersStay DEF ReadPid
  <2>2. PICK p \in pidfile : PidAlive(p)
    BY <2>1
  <2>3. ASSUME NEW t \in Supervisor, t # s, Alive(t), p \in pid[t] PROVE pc[t] \in Holding
    <3>1. pc[t] \notin Starting \cup {"unlinked"}
      BY <1>1, <2>1, <2>3, OnlyOneStarts DEF InTurn, Starting
    <3>2. pc[t] # "leaving"
      BY <1>1, <2>2, <2>3 DEF InTurn, LeftFiles
    <3> QED BY <2>3, <3>1, <3>2 DEF TypeOK, Alive, Leaving
  <2> QED BY <2>2, <2>3 DEF PidAlive
<1> QED BY <1>2, <1>3, <1>4, <1>5
        DEF Supervises, Crash, Check, Evict, ClearPid, WritePid, WriteFails, BuildsSucceed,
            KernelEnds, Unlink, Forget, End, Goto, Step, TypeOK

THEOREM RefusedForCauseEver == Spec => RefusedForCause
<1>1. IInv /\ [Next]_vars =>
        [\A s \in Supervisor :
           pc[s] # "refused" /\ pc'[s] = "refused" /\ ~overlapped' =>
             \/ \E t \in Supervisor \ {s} : pc[t] \in Holding
             \/ \E p \in pidfile : p \in others \cup pid[s]]_vars
  BY RefusalHasCause
<1> QED BY <1>1, Invariant, PTL DEF Spec, RefusedForCause
================================================================
