------------------------ MODULE LifecycleTruth_proofs ------------------------
(***************************************************************************)
(* What the steady state says of itself is so: the rows of `arig ps`, and  *)
(* the answers its clients get, of which each gets one.  And what it does  *)
(* is what module Supervision promises.                                    *)
(***************************************************************************)
EXTENDS Lifecycle_proofs

----------------------------------------------------------------------------
(* Rows                                                                    *)
(*                                                                         *)
(* A row follows the kernel and its tasks one event at a time.  What makes *)
(* the events add up is that they come from one piece of work at a time    *)
(* (DInv), and that every service has run before (`ran`), which is what    *)
(* the restart counter and the end of a build look at.                     *)

RowOK(s) ==
  /\ rows[s].state = Doing(s)
  /\ rows[s].restarts + 1 = starts[s]
  /\ rows[s].ran
  /\ rows[s].state = "running" => rows[s].desired = "up"

RowsOK == pc = "steady" => /\ \A s \in Service : RowOK(s)
                           /\ \A s, r \in spawning : s = r

\* Nothing that a row is about has changed.
Untouched(s) ==
  /\ rows'[s] = rows[s] /\ starts'[s] = starts[s]
  /\ s \in spawning' <=> s \in spawning
  /\ Running(s)' <=> Running(s)
  /\ \A k \in {"build", "stop"} : Busy(k, s)' <=> Busy(k, s)

LEMMA RowKept ==
  ASSUME NEW s \in Service, RowOK(s), Untouched(s) PROVE RowOK(s)'
BY DEF RowOK, Untouched, Doing

\* The arms of the tracker, as far as RowOK can tell: another row stays, and
\* this one becomes what the event says.
LEMMA RowsOfOthers ==
  ASSUME NEW rs \in [Service -> Row], NEW s \in Service, NEW t \in Service, t # s,
         NEW probed \in BOOLEAN
  PROVE  /\ BuildStarted(rs, s)[t] = rs[t] /\ BuildFinished(rs, s)[t] = rs[t]
         /\ StopRequested(rs, s)[t] = rs[t] /\ StartRequested(rs, s)[t] = rs[t]
         /\ ServiceStopped(rs, s)[t] = rs[t] /\ ServiceReady(rs, s)[t] = rs[t]
         /\ ServiceStarted(rs, s, probed)[t] = rs[t] /\ ServiceExited(rs, s)[t] = rs[t]
BY DEF BuildStarted, BuildFinished, StopRequested, StartRequested, ServiceStopped, ServiceReady,
       ServiceStarted, ServiceExited, Update

\* A row that shows nothing but its state, wish, restarts and past.
Shows(row, state, like) ==
  row.state = state /\ row.restarts = like.restarts /\ row.ran = like.ran

LEMMA RowOfService ==
  ASSUME NEW rs \in [Service -> Row], NEW s \in Service, Tracked(rs, s)
  PROVE  /\ Shows(StopRequested(rs, s)[s], "stopping", rs[s])
         /\ Shows(StartRequested(rs, s)[s], "starting", rs[s])
         /\ Shows(ServiceStopped(rs, s)[s], "stopped", rs[s])
         /\ Shows(ServiceReady(rs, s)[s], rs[s].state, rs[s])
         /\ ServiceReady(rs, s)[s].desired = rs[s].desired
<1>1. rs[s] \in Row
  OBVIOUS
<1>2. StopRequested(rs, s)[s] = [rs[s] EXCEPT !.state = "stopping", !.desired = "stopped"]
  BY DEF StopRequested, Update
<1>3. StartRequested(rs, s)[s] = [rs[s] EXCEPT !.state = "starting", !.desired = "up"]
  BY DEF StartRequested, Update
<1>4. ServiceStopped(rs, s)[s] = [rs[s] EXCEPT !.state = "stopped", !.ready = "unchecked"]
  BY DEF ServiceStopped, Update
<1>5. ServiceReady(rs, s)[s] = [rs[s] EXCEPT !.ready = "ready"]
  BY DEF ServiceReady, Update
<1> QED BY <1>1, <1>2, <1>3, <1>4, <1>5 DEF Shows, Row

LEMMA RowOfBuild ==
  ASSUME NEW rs \in [Service -> Row], NEW s \in Service, rs[s].ran
  PROVE  /\ rs[s].state = "stopped" => Shows(BuildStarted(rs, s)[s], "building", rs[s])
         /\ rs[s].state \notin {"absent", "stopped"} => BuildStarted(rs, s)[s] = rs[s]
         /\ rs[s].state = "building" => Shows(BuildFinished(rs, s)[s], "stopped", rs[s])
         /\ rs[s].state # "building" => BuildFinished(rs, s)[s] = rs[s]
<1>1. rs[s] \in Row
  OBVIOUS
<1>2. rs[s].state = "stopped" => BuildStarted(rs, s)[s] = [rs[s] EXCEPT !.state = "building"]
  BY <1>1 DEF BuildStarted, Tracked
<1>3. rs[s].state = "building" => BuildFinished(rs, s)[s] = [rs[s] EXCEPT !.state = "stopped"]
  BY <1>1 DEF BuildFinished
<1> QED BY <1>1, <1>2, <1>3 DEF BuildStarted, BuildFinished, Tracked, Shows, Row

LEMMA RowOfSpawn ==
  ASSUME NEW rs \in [Service -> Row], NEW s \in Service, rs[s].ran, NEW probed \in BOOLEAN
  PROVE  LET row == ServiceStarted(rs, s, probed)[s]
         IN  /\ row.state = "running" /\ row.desired = "up" /\ row.ran
             /\ row.restarts = rs[s].restarts + 1
BY DEF ServiceStarted, Row

\* What a command's next phase does to the rows.
LEMMA AdvanceRows ==
  ASSUME NEW e \in Entry, NEW rest, NEW tk, NEW rp,
         Advance(e, rest, tk, rp) \/ Settle(e, rest, tk, rp, "failed")
  PROVE  \/ tasks' = tk /\ UNCHANGED <<children, spawning, rows>>
         \/ /\ tasks' = tk \cup {[kind |-> "build", name |-> e.name, seq |-> e.seq]}
            /\ rows' = BuildStarted(rows, e.name) /\ UNCHANGED <<children, spawning>>
         \/ \E c \in children :
              /\ c.name = e.name /\ children' = children \ {c}
              /\ tasks' = tk \cup {[kind |-> "stop", name |-> e.name, seq |-> e.seq, inst |-> c]}
              /\ rows' = StopRequested(rows, e.name) /\ UNCHANGED spawning
         \/ /\ tasks' = tk /\ rows' = StartRequested(rows, e.name)
            /\ spawning' = {e.name} /\ UNCHANGED children
<1> DEFINE f == [e EXCEPT !.plan = Tail(@)]
<1>1. f.name = e.name /\ f.seq = e.seq
  BY DEF Entry
<1>2. \/ Settle(e, rest, tk, rp, "ok") \/ Settle(e, rest, tk, rp, "failed")
      \/ BuildPhase(f, rest, tk, rp) \/ StopPhase(f, rest, tk, rp) \/ StartPhase(f, rest, tk, rp)
  BY DEF Advance
<1> HIDE DEF f
<1> QED BY <1>1, <1>2 DEF Settle, BuildPhase, StopPhase, StopChild, StartPhase

\* A task more, of some kind and service, is what is new about who is busy.
LEMMA BusyWith ==
  ASSUME NEW tk, NEW nt, tasks' = tk \cup {nt}, NEW k, NEW r,
         Busy(k, r) <=> \E t \in tk : t.kind = k /\ t.name = r
  PROVE  Busy(k, r)' <=> Busy(k, r) \/ (nt.kind = k /\ nt.name = r)
BY DEF Busy

\* The kernel moves on a command whose service has no work under way.
LEMMA MoveRows ==
  ASSUME DInv, DInv', RowsOK, AtSelect, pc' = pc, starts' = starts,
         NEW e \in Entry, NEW rest, NEW tk, NEW rp,
         Advance(e, rest, tk, rp) \/ Settle(e, rest, tk, rp, "failed"),
         tk \subseteq tasks, \A t \in tasks \ tk : t.kind = "probe",
         \A t \in tk : t.kind # "probe" => t.name # e.name
  PROVE  RowsOK'
<1>1. /\ pc = "steady" /\ spawning = {} /\ e.name \in Service
      /\ rows \in [Service -> Row] /\ \A s \in Service : RowOK(s)
  BY DEF AtSelect, RowsOK, DInv, IInv, TypeOK, Entry
<1>2. \A k \in {"build", "stop"}, s \in Service :
        Busy(k, s) <=> \E t \in tk : t.kind = k /\ t.name = s
  BY DEF Busy
<1>3. ~Busy("build", e.name) /\ ~Busy("stop", e.name)
  BY <1>1, <1>2
<1>4. \A c, d \in children : c.name = d.name => c = d
  BY DEF DInv, IInv, Distinct
<1>0. \A s, r \in spawning' : s = r
  BY <1>1, AdvanceRows
<1> SUFFICES ASSUME NEW s \in Service PROVE RowOK(s)'
  BY <1>0 DEF RowsOK
<1>5. RowOK(s)
  BY <1>1
<1>6. CASE tasks' = tk /\ UNCHANGED <<children, spawning, rows>>
  BY <1>2, <1>5, <1>6, RowKept DEF Untouched, Busy, Running
<1>7. CASE /\ tasks' = tk \cup {[kind |-> "build", name |-> e.name, seq |-> e.seq]}
           /\ rows' = BuildStarted(rows, e.name) /\ UNCHANGED <<children, spawning>>
  <2>1. \A k \in {"build", "stop"}, r \in Service :
          Busy(k, r)' <=> Busy(k, r) \/ (k = "build" /\ r = e.name)
    <3> DEFINE nt == [kind |-> "build", name |-> e.name, seq |-> e.seq]
    <3>1. tasks' = tk \cup {nt} /\ nt.kind = "build" /\ nt.name = e.name
      BY <1>7
    <3> HIDE DEF nt
    <3>2. TAKE k \in {"build", "stop"}, r \in Service
    <3>3. Busy(k, r)' <=> Busy(k, r) \/ (nt.kind = k /\ nt.name = r)
      BY <1>2, <3>1, BusyWith
    <3> QED BY <3>1, <3>3
  <2>2. Running(s)' <=> Running(s)
    BY <1>7 DEF Running
  <2>3. CASE s # e.name
    <3>1. rows'[s] = rows[s]
      BY <1>1, <1>7, <2>3, RowsOfOthers
    <3> QED BY <1>5, <1>7, <2>1, <2>2, <2>3, <3>1, RowKept DEF Untouched
  <2>4. CASE s = e.name
    <3>1. rows[s].state = IF Running(s) THEN "running" ELSE "stopped"
      BY <1>1, <1>3, <1>5, <2>4 DEF RowOK, Doing
    <3>2. CASE Running(s)
      <4>1. rows'[s] = rows[s]
        BY <1>1, <1>5, <1>7, <2>4, <3>1, <3>2, RowOfBuild DEF RowOK
      <4> QED BY <1>1, <1>5, <1>7, <2>2, <3>1, <3>2, <4>1 DEF RowOK, Doing
    <3>3. CASE ~Running(s)
      <4>1. Shows(rows'[s], "building", rows[s])
        BY <1>1, <1>5, <1>7, <2>4, <3>1, <3>3, RowOfBuild DEF RowOK
      <4>2. Doing(s)' = "building"
        BY <1>1, <1>3, <1>7, <2>1, <2>2, <2>4, <3>3 DEF Doing
      <4> QED BY <1>5, <4>1, <4>2 DEF RowOK, Shows
    <3> QED BY <3>2, <3>3
  <2> QED BY <2>3, <2>4
<1>8. ASSUME NEW c \in children,
             /\ c.name = e.name /\ children' = children \ {c}
             /\ tasks' = tk \cup {[kind |-> "stop", name |-> e.name, seq |-> e.seq, inst |-> c]}
             /\ rows' = StopRequested(rows, e.name) /\ UNCHANGED spawning
      PROVE  RowOK(s)'
  <2>1. \A k \in {"build", "stop"}, r \in Service :
          Busy(k, r)' <=> Busy(k, r) \/ (k = "stop" /\ r = e.name)
    <3> DEFINE nt == [kind |-> "stop", name |-> e.name, seq |-> e.seq, inst |-> c]
    <3>1. tasks' = tk \cup {nt} /\ nt.kind = "stop" /\ nt.name = e.name
      BY <1>8
    <3> HIDE DEF nt
    <3>2. TAKE k \in {"build", "stop"}, r \in Service
    <3>3. Busy(k, r)' <=> Busy(k, r) \/ (nt.kind = k /\ nt.name = r)
      BY <1>2, <3>1, BusyWith
    <3> QED BY <3>1, <3>3
  <2>2. CASE s # e.name
    <3>1. rows'[s] = rows[s]
      BY <1>1, <1>8, <2>2, RowsOfOthers
    <3>2. Running(s)' <=> Running(s)
      BY <1>8, <2>2 DEF Running
    <3> QED BY <1>5, <1>8, <2>1, <2>2, <3>1, <3>2, RowKept DEF Untouched
  <2>3. CASE s = e.name
    <3>1. Running(s) /\ ~Running(s)'
      BY <1>4, <1>8, <2>3 DEF Running
    <3>2. rows[s].state = "running"
      BY <1>1, <1>5, <3>1 DEF RowOK, Doing
    <3>3. Shows(rows'[s], "stopping", rows[s])
      BY <1>1, <1>8, <2>3, <3>2, RowOfService DEF Tracked
    <3>4. Doing(s)' = "stopping"
      BY <1>1, <1>8, <2>1, <2>3, <3>1 DEF Doing
    <3> QED BY <1>5, <3>3, <3>4 DEF RowOK, Shows
  <2> QED BY <2>2, <2>3
<1>9. CASE /\ tasks' = tk /\ rows' = StartRequested(rows, e.name)
           /\ spawning' = {e.name} /\ UNCHANGED children
  <2>1. \A k \in {"build", "stop"}, r \in Service : Busy(k, r)' <=> Busy(k, r)
    BY <1>2, <1>9 DEF Busy
  <2>2. Running(s)' <=> Running(s)
    BY <1>9 DEF Running
  <2>3. CASE s # e.name
    <3>1. rows'[s] = rows[s]
      BY <1>1, <1>9, <2>3, RowsOfOthers
    <3> QED BY <1>1, <1>5, <1>9, <2>1, <2>2, <2>3, <3>1, RowKept DEF Untouched
  <2>4. CASE s = e.name
    <3>1. ~Running(s)'
      BY <1>1, <1>9, <2>4 DEF DInv, IInv, Steadily, StartsOnNothing
    <3>2. rows[s].state = "stopped"
      BY <1>1, <1>3, <1>5, <2>2, <2>4, <3>1 DEF RowOK, Doing
    <3>3. Shows(rows'[s], "starting", rows[s])
      BY <1>1, <1>9, <2>4, <3>2, RowOfService DEF Tracked
    <3>4. Doing(s)' = "starting"
      BY <1>9, <2>4 DEF Doing
    <3> QED BY <1>5, <3>3, <3>4 DEF RowOK, Shows
  <2> QED BY <2>3, <2>4
<1> QED BY <1>6, <1>7, <1>8, <1>9, AdvanceRows

\* Nothing moves but probes, which no row is about.
LEMMA StillRows ==
  ASSUME RowsOK, pc' = "steady" => pc = "steady",
         UNCHANGED <<rows, starts, spawning, children>>,
         \A t \in tasks \ tasks' : t.kind = "probe",
         \A t \in tasks' \ tasks : t.kind = "probe"
  PROVE  RowsOK'
<1> SUFFICES ASSUME pc = "steady", NEW s \in Service PROVE RowOK(s)'
  BY DEF RowsOK
<1>1. \A k \in {"build", "stop"} : Busy(k, s)' <=> Busy(k, s)
  BY DEF Busy
<1>2. RowOK(s) /\ (Running(s)' <=> Running(s))
  BY DEF RowsOK, Running
<1> QED BY <1>1, <1>2, RowKept DEF Untouched

\* The kernel takes a message that changes nothing, or moves on one command,
\* whose service has no work under way; what that ends is at most its probe.
PhaseMoves(e, rest, tk, rp) ==
  /\ Advance(e, rest, tk, rp) \/ Settle(e, rest, tk, rp, "failed")
  /\ tk \subseteq tasks /\ \A t \in tasks \ tk : t.kind = "probe"
  /\ \A t \in tk : t.kind # "probe" => t.name # e.name

LEMMA HandleMoves ==
  ASSUME DInv, Handle
  PROVE  /\ AtSelect /\ UNCHANGED <<pc, worldVars>>
         /\ \/ UNCHANGED <<spawning, children, tasks, rows>>
            \/ \E e \in Entry : \E rest, tk, rp : PhaseMoves(e, rest, tk, rp)
<1> DEFINE m == Head(msgs)
<1>1. /\ AtSelect /\ msgs # << >> /\ msgs' = Tail(msgs) /\ pc = "steady"
      /\ TypeOK /\ Distinct /\ OneTokenPerSeq /\ WorkBelongs /\ nextSeq \in Nat
  BY DEF Handle, AtSelect, DInv, IInv, TypeOK
<1>2. m \in Message /\ 1 \in DOMAIN msgs /\ m = msgs[1]
  BY <1>1, HeadType DEF TypeOK
<1>3. UNCHANGED <<pc, worldVars>>
  BY DEF Handle, Refuse, Accept, Complete, kernelVars
<1>4. CASE m.kind = "lifecycle" /\ Refuse(m)
  BY <1>1, <1>3, <1>4 DEF Refuse, kernelVars
<1>5. CASE m.kind = "lifecycle" /\ Accept(m)
  <2> DEFINE prev == Commands(m.cmd.name)
  <2>1. m.req \in Request /\ m.cmd \in Command
    BY <1>2, <1>5 DEF Message, Completion
  <2>2. m.cmd.name \in Service /\ \A e \in prev : ~Holds(e)
    BY <1>5 DEF Accept, Refusable
  <2>3. PICK probed \in BOOLEAN :
          Advance(NewCommand(m, probed), inflight \ prev, tasks \ Abort(prev), Supersede(prev))
    BY <1>5 DEF Accept
  <2> DEFINE e == NewCommand(m, probed)
  <2>4. e \in Entry /\ e.name = m.cmd.name
    BY <1>1, <2>1, <2>2, PlanType DEF NewCommand, Entry, TypeOK
  <2>5. \A t \in Abort(prev) : t.kind = "probe"
    BY DEF Abort
  <2> HIDE DEF m, e
  <2>6. \A t \in tasks : t.kind # "probe" => t.name # e.name
    BY <1>1, <2>2, <2>4 DEF WorkBelongs, Holds, Commands
  <2> HIDE DEF prev
  <2>7. Advance(e, inflight \ prev, tasks \ Abort(prev), Supersede(prev))
    BY <2>3 DEF e
  <2>8. PhaseMoves(e, inflight \ prev, tasks \ Abort(prev), Supersede(prev))
    BY <2>5, <2>6, <2>7 DEF PhaseMoves
  <2> QED BY <1>1, <1>3, <2>4, <2>8
<1>6. CASE m.kind # "lifecycle" /\ Complete(m)
  <2>1. CASE UNCHANGED <<spawning, children, tasks, rows>>
    BY <1>1, <1>3, <2>1
  <2>2. ASSUME NEW e \in Current(m),
               IF m.ok THEN Advance([e EXCEPT !.task = "none"], inflight \ {e}, tasks, reply)
               ELSE Settle(e, inflight \ {e}, tasks, reply, "failed")
        PROVE  \E g \in Entry : \E rest, tk, rp : PhaseMoves(g, rest, tk, rp)
    <3>1. e \in inflight /\ e \in Entry /\ e.seq = m.seq
      BY <1>1 DEF Current, TypeOK
    <3> HIDE DEF m
    <3>2. \A t \in tasks : t.seq # m.seq
      BY <1>1, <1>2, <1>6 DEF OneTokenPerSeq, IsCompletion
    <3>3. \A t \in tasks : t.kind # "probe" => t.name # e.name
      BY <1>1, <3>1, <3>2 DEF WorkBelongs, Distinct
    <3> DEFINE f == [e EXCEPT !.task = "none"]
    <3>4. f \in Entry /\ f.name = e.name
      BY <3>1 DEF Entry
    <3>5. \/ Advance(f, inflight \ {e}, tasks, reply)
          \/ Settle(e, inflight \ {e}, tasks, reply, "failed")
      BY <2>2
    <3> HIDE DEF f
    <3>6. PhaseMoves(f, inflight \ {e}, tasks, reply) \/ PhaseMoves(e, inflight \ {e}, tasks, reply)
      BY <3>3, <3>4, <3>5 DEF PhaseMoves
    <3> QED BY <3>1, <3>4, <3>6
  <2> QED BY <1>1, <1>3, <1>6, <2>1, <2>2 DEF Complete
<1> QED BY <1>4, <1>5, <1>6 DEF Handle, m

LEMMA HandleRows == ASSUME DInv, DInv', RowsOK, Handle PROVE RowsOK'
<1>1. AtSelect /\ pc' = pc /\ starts' = starts
  BY HandleMoves DEF worldVars
<1>2. CASE UNCHANGED <<spawning, children, tasks, rows>>
  BY <1>1, <1>2, StillRows
<1>3. ASSUME NEW e \in Entry, NEW rest, NEW tk, NEW rp, PhaseMoves(e, rest, tk, rp) PROVE RowsOK'
  BY <1>1, <1>3, MoveRows DEF PhaseMoves
<1> QED BY <1>2, <1>3, HandleMoves

\* A service that is being spawned has nothing else going on.
LEMMA SpawningIsIdle ==
  ASSUME DInv, pc = "steady", NEW s \in spawning, NEW e \in inflight, e.name = s
  PROVE  ~Running(s) /\ ~Busy("stop", s) /\ ~Busy("build", s)
BY DEF DInv, IInv, Steadily, StartsOnNothing, NoStop, Busy, WorkBelongs, Distinct

LEMMA SpawnRows ==
  ASSUME DInv, RowsOK, SpawnSucceeds \/ SpawnFails PROVE RowsOK'
<1>1. TypeOK /\ rows \in [Service -> Row] /\ starts \in [Service -> Nat]
  BY DEF DInv, IInv, TypeOK
<1>2. CASE SpawnSucceeds
  <2>1. PICK e \in inflight : SpawnDone(e)
    BY <1>2 DEF SpawnSucceeds
  <2> DEFINE i == [name |-> e.name, gen |-> starts[e.name] + 1, probed |-> e.probed]
             p == [kind |-> "probe", name |-> e.name, seq |-> e.seq, inst |-> i,
                   verdict |-> "checking"]
  <2>2. /\ pc = "steady" /\ e.name \in spawning /\ spawning' = {}
        /\ children' = children \cup {i}
        /\ starts' = [starts EXCEPT ![e.name] = @ + 1]
        /\ rows' = ServiceStarted(rows, e.name, e.probed)
        /\ tasks' = tasks \/ tasks' = tasks \cup {p}
    BY <2>1 DEF SpawnDone
  <2>3. e.name \in Service /\ e.probed \in BOOLEAN /\ i.name = e.name /\ p.kind = "probe"
    BY <1>1 DEF TypeOK, Entry
  <2> HIDE DEF i, p
  <2> SUFFICES ASSUME NEW s \in Service PROVE RowOK(s)'
    BY <2>2 DEF RowsOK
  <2>4. RowOK(s) /\ \A r \in spawning : r = e.name
    BY <2>2 DEF RowsOK
  <2>5. CASE s # e.name
    <3>1. rows'[s] = rows[s]
      BY <1>1, <2>2, <2>3, <2>5, RowsOfOthers
    <3>2. \A k \in {"build", "stop"} : Busy(k, s)' <=> Busy(k, s)
      BY <2>2, <2>3 DEF Busy
    <3>3. /\ Running(s)' <=> Running(s)
          /\ starts'[s] = starts[s] /\ s \notin spawning /\ s \notin spawning'
      BY <1>1, <2>2, <2>3, <2>4, <2>5 DEF Running
    <3> QED BY <2>4, <3>1, <3>2, <3>3, RowKept DEF Untouched
  <2>6. CASE s = e.name
    <3>1. /\ rows'[s].state = "running" /\ rows'[s].desired = "up" /\ rows'[s].ran
          /\ rows'[s].restarts = rows[s].restarts + 1
      BY <1>1, <2>2, <2>3, <2>4, <2>6, RowOfSpawn DEF RowOK
    <3>2. Doing(s)' = "running"
      BY <2>2, <2>3, <2>6 DEF Doing, Running
    <3>3. starts'[s] = starts[s] + 1 /\ starts[s] \in Nat /\ rows[s].restarts \in Nat
      BY <1>1, <2>2, <2>6 DEF Row
    <3> QED BY <2>4, <3>1, <3>2, <3>3 DEF RowOK
  <2> QED BY <2>5, <2>6
<1>3. CASE SpawnFails
  <2>1. PICK e \in inflight : /\ pc = "steady" /\ e.name \in spawning /\ spawning' = {}
                              /\ rows' = ServiceStopped(rows, e.name)
                              /\ UNCHANGED <<children, tasks, starts>>
    BY <1>3 DEF SpawnFails, worldVars
  <2>2. e.name \in Service
    BY <1>1 DEF TypeOK, Entry
  <2> SUFFICES ASSUME NEW s \in Service PROVE RowOK(s)'
    BY <2>1 DEF RowsOK
  <2>3. RowOK(s) /\ \A r \in spawning : r = e.name
    BY <2>1 DEF RowsOK
  <2>4. /\ Running(s)' <=> Running(s)
        /\ \A k \in {"build", "stop"} : Busy(k, s)' <=> Busy(k, s)
    BY <2>1 DEF Running, Busy
  <2>5. CASE s # e.name
    <3>1. rows'[s] = rows[s]
      BY <1>1, <2>1, <2>2, <2>5, RowsOfOthers
    <3> QED BY <2>1, <2>3, <2>4, <2>5, <3>1, RowKept DEF Untouched
  <2>6. CASE s = e.name
    <3>1. ~Running(s) /\ ~Busy("stop", s) /\ ~Busy("build", s)
      BY <2>1, <2>6, SpawningIsIdle
    <3>2. rows[s].state = "starting"
      BY <2>1, <2>3, <2>6 DEF RowOK, Doing
    <3>3. Shows(rows'[s], "stopped", rows[s])
      BY <1>1, <2>1, <2>2, <2>6, <3>2, RowOfService DEF Tracked
    <3>4. Doing(s)' = "stopped"
      BY <2>1, <2>4, <3>1 DEF Doing
    <3> QED BY <2>1, <2>3, <3>3, <3>4 DEF RowOK, Shows
  <2> QED BY <2>5, <2>6
<1> QED BY <1>2, <1>3

\* A build or a stop that ends was the only work its service had.
LEMMA TasksRows ==
  ASSUME DInv, RowsOK, NEW t \in tasks,
         BuildEnds(t) \/ StopEnds(t) \/ ProbeConcludes(t) \/ ProbeReports(t)
  PROVE  RowsOK'
<1> USE DEF worldVars, kernelVars
<1>1. /\ TypeOK /\ rows \in [Service -> Row] /\ t.name \in Service
      /\ UNCHANGED <<pc, starts, spawning, children>>
  BY DEF DInv, IInv, TypeOK, Task, BuildEnds, StopEnds, ProbeConcludes, ProbeReports
<1>2. CASE pc # "steady"
  BY <1>1, <1>2 DEF RowsOK
<1>3. CASE ProbeConcludes(t)
  <2>1. PICK v \in {"passed", "gave_up"} :
          tasks' = (tasks \ {t}) \cup {[t EXCEPT !.verdict = v]}
    BY <1>3 DEF ProbeConcludes
  <2>2. t \in [kind: {"probe"}, name: Service, seq: Nat, inst: Instance,
               verdict: {"checking", "passed", "gave_up"}]
    BY <1>1, <1>3 DEF ProbeConcludes, TypeOK, Task
  <2>3. [t EXCEPT !.verdict = v].kind = "probe" /\ t.kind = "probe"
    BY <2>2
  <2> QED BY <1>1, <1>3, <2>1, <2>3, StillRows DEF ProbeConcludes
<1>4. CASE pc = "steady" /\ ProbeReports(t)
  <2>1. /\ tasks' = tasks \ {t} /\ t.kind = "probe"
        /\ rows' = ServiceReady(rows, t.name) \/ rows' = rows
    BY <1>4 DEF ProbeReports
  <2> SUFFICES ASSUME NEW s \in Service PROVE RowOK(s)'
    BY <1>1, <1>4 DEF RowsOK
  <2>2. RowOK(s)
    BY <1>4 DEF RowsOK
  <2>3. Tracked(rows, s)
    BY <2>2 DEF RowOK, Doing, Tracked
  <2>4. Doing(s)' = Doing(s)
    BY <1>1, <2>1 DEF Doing, Running, Busy
  <2>5. rows'[s] = rows[s] \/ /\ Shows(rows'[s], rows[s].state, rows[s])
                              /\ rows'[s].desired = rows[s].desired
    <3>1. CASE s = t.name
      BY <1>1, <2>1, <2>3, <3>1, RowOfService
    <3>2. CASE s # t.name
      BY <1>1, <2>1, <3>2, RowsOfOthers
    <3> QED BY <3>1, <3>2
  <2> QED BY <1>1, <2>2, <2>4, <2>5 DEF RowOK, Shows
<1>5. CASE pc = "steady" /\ (BuildEnds(t) \/ StopEnds(t))
  <2>1. /\ tasks' = tasks \ {t} /\ t.kind \in {"build", "stop"}
        /\ t.kind = "build" => rows' = BuildFinished(rows, t.name)
        /\ t.kind = "stop" => rows' = ServiceStopped(rows, t.name)
    BY <1>5 DEF BuildEnds, StopEnds
  <2>2. PICK e \in inflight : e.name = t.name /\ e.seq = t.seq
    BY <2>1 DEF DInv, WorkBelongs
  <2>3. \A u \in tasks : u.kind # "probe" /\ u.name = t.name => u = t
    BY <2>2 DEF DInv, IInv, WorkBelongs, Distinct, OneTokenPerSeq
  <2>4. t.name \notin spawning
    BY <1>5, <2>1, <2>2, SpawningIsIdle DEF Busy
  <2>5. t.kind = "stop" => ~Running(t.name)
    BY <1>5 DEF DInv, IInv, Steadily, LiveIsHeld, NoStop, Running
  <2> SUFFICES ASSUME NEW s \in Service PROVE RowOK(s)'
    BY <1>1, <1>5 DEF RowsOK
  <2>6. RowOK(s) /\ (Running(s)' <=> Running(s))
    BY <1>1, <1>5 DEF RowsOK, Running
  <2>7. CASE s # t.name
    <3>1. rows'[s] = rows[s]
      BY <1>1, <2>1, <2>7, RowsOfOthers
    <3>2. \A k \in {"build", "stop"} : Busy(k, s)' <=> Busy(k, s)
      BY <2>1, <2>7 DEF Busy
    <3> QED BY <1>1, <2>6, <3>1, <3>2, RowKept DEF Untouched
  <2>8. CASE s = t.name
    <3>1. ~Busy("build", s)' /\ ~Busy("stop", s)'
      BY <2>1, <2>3, <2>8 DEF Busy
    <3>2. Busy(t.kind, s) /\ (t.kind = "build" => ~Busy("stop", s))
      BY <2>1, <2>3, <2>8 DEF Busy
    <3>3. CASE Running(s)
      <4>1. t.kind = "build" /\ rows[s].state = "running"
        BY <2>1, <2>4, <2>5, <2>6, <2>8, <3>3 DEF RowOK, Doing
      <4>2. rows'[s] = rows[s]
        BY <1>1, <2>1, <2>6, <2>8, <4>1, RowOfBuild DEF RowOK
      <4>3. Doing(s)' = "running"
        BY <1>1, <2>4, <2>6, <2>8, <3>3 DEF Doing
      <4> QED BY <1>1, <2>6, <4>1, <4>2, <4>3 DEF RowOK
    <3>4. CASE ~Running(s)
      <4>1. rows[s].state = IF t.kind = "build" THEN "building" ELSE "stopping"
        BY <2>1, <2>4, <2>6, <2>8, <3>2, <3>4 DEF RowOK, Doing
      <4>2. Shows(rows'[s], "stopped", rows[s])
        BY <1>1, <2>1, <2>6, <2>8, <4>1, RowOfBuild, RowOfService DEF RowOK, Tracked
      <4>3. Doing(s)' = "stopped"
        BY <1>1, <2>4, <2>6, <2>8, <3>1, <3>4 DEF Doing
      <4> QED BY <1>1, <2>6, <4>2, <4>3 DEF RowOK, Shows
    <3> QED BY <3>3, <3>4
  <2> QED BY <2>7, <2>8
<1> QED BY <1>2, <1>3, <1>4, <1>5

LEMMA InitRows == Init => RowsOK
<1> SUFFICES ASSUME Init, NEW s \in Service PROVE RowOK(s)
  BY DEF RowsOK, Init
<1>1. [name |-> s, gen |-> 1, probed |-> s \in Probed] \in children
  BY DEF Init
<1>2. Doing(s) = "running"
  BY <1>1 DEF Init, Doing, Running
<1>3. /\ rows[s].state = "running" /\ rows[s].restarts = 0 /\ rows[s].ran
      /\ rows[s].desired = "up" /\ starts[s] = 1
  BY DEF Init
<1> QED BY <1>2, <1>3 DEF RowOK

LEMMA StepRows == DInv /\ DInv' /\ RowsOK /\ [Next]_vars => RowsOK'
<1> SUFFICES ASSUME DInv, DInv', RowsOK, [Next]_vars PROVE RowsOK'
  OBVIOUS
<1>1. CASE Handle
  BY <1>1, HandleRows
<1>2. CASE SpawnSucceeds \/ SpawnFails
  BY <1>2, SpawnRows
<1>3. CASE \/ SeeShutdown \/ ChildExits \/ WaitFails \/ SettleCommand \/ BeginTeardown
           \/ BeginWave \/ FinishStop \/ Exit
  <2>1. pc' # "steady"
    BY <1>3 DEF SeeShutdown, ChildExits, WaitFails, ChildGone, SettleCommand, BeginTeardown,
                BeginWave, FinishStop, Exit
  <2> QED BY <2>1 DEF RowsOK
<1>4. CASE \E t \in tasks : BuildEnds(t) \/ StopEnds(t) \/ ProbeConcludes(t) \/ ProbeReports(t)
  BY <1>4, TasksRows
<1>5. CASE \/ \E i \in live : Dies(i)
           \/ \E r \in Request, c \in Command : Ask(r, c)
           \/ Down \/ Terminated \/ UNCHANGED vars
  <2>1. UNCHANGED <<pc, rows, starts, spawning, children, tasks>>
    BY <1>5 DEF Dies, Ask, Down, Terminated, vars, kernelVars, worldVars
  <2> QED BY <2>1, StillRows
<1> QED BY <1>1, <1>2, <1>3, <1>4, <1>5 DEF Next, Kernel

LEMMA RowsInvariant == Spec => [](DInv /\ RowsOK)
<1>1. Init => DInv /\ RowsOK
  BY InitDown, InitRows
<1>2. (DInv /\ RowsOK) /\ [Next]_vars => (DInv /\ RowsOK)'
  BY StepDown, StepRows
<1> QED BY <1>1, <1>2, PTL DEF Spec

\* A tracker that has caught up says of every service what is being done with
\* it, and its restart counter tells consecutive instances apart, whatever the
\* commands, their number and their interleaving.
THEOREM RowTellsTruthAlways == Spec => []RowTellsTruth
<1>1. DInv /\ RowsOK => RowTellsTruth
  BY DEF RowTellsTruth, RowsOK, RowOK
<1> QED BY <1>1, RowsInvariant, PTL

\* A service that was asked to stop never reads as one that died: what turns a
\* row to "exited" in the steady state is the end of a child nobody stopped.
THEOREM StopIsNoCrashEver == Spec => StopIsNoCrash
<1> DEFINE A == \A s \in Service :
                  pc = "steady" /\ rows'[s].state = "exited" /\ rows[s].state # "exited" =>
                    rows[s].desired = "up" /\ rows[s].state = "running"
<1>1. DInv /\ RowsOK /\ RowsOK' /\ [Next]_vars => [A]_vars
  <2> SUFFICES ASSUME DInv, RowsOK, RowsOK', Next, NEW s \in Service,
                      pc = "steady", rows'[s].state = "exited", rows[s].state # "exited"
               PROVE  rows[s].desired = "up" /\ rows[s].state = "running"
    OBVIOUS
  <2>1. pc' # "steady"
    BY DEF RowsOK, RowOK, Doing
  <2>2. rows' # rows
    OBVIOUS
  <2>3. PICK c \in children : AtSelect /\ rows' = ServiceExited(rows, c.name)
    BY <2>1, <2>2 DEF Next, Kernel, Handle, Refuse, Accept, Complete, SpawnSucceeds, SpawnDone,
       SpawnFails, SeeShutdown, ChildExits, WaitFails, ChildGone, SettleCommand, BeginTeardown,
       BeginWave, FinishStop, Exit, BuildEnds, StopEnds, ProbeConcludes, ProbeReports, Dies,
       Ask, Down, Terminated, vars, kernelVars
  <2>4. c.name \in Service /\ rows \in [Service -> Row]
    BY DEF DInv, IInv, TypeOK, Instance
  <2>5. s = c.name
    BY <2>3, <2>4, RowsOfOthers
  <2>6. Doing(s) = "running"
    BY <2>3, <2>5 DEF Doing, Running, AtSelect
  <2> QED BY <2>6 DEF RowsOK, RowOK
<1>2. Spec => [](DInv /\ RowsOK) /\ [][Next]_vars
  BY RowsInvariant DEF Spec
<1> QED BY <1>1, <1>2, PTL DEF StopIsNoCrash

----------------------------------------------------------------------------
(* Clients                                                                 *)
(*                                                                         *)
(* A request is a message in the queue, or a command in flight, or neither *)
(* and then it has its answer.                                             *)

Queued(r) == \E k \in DOMAIN msgs : msgs[k].kind = "lifecycle" /\ msgs[k].req = r

QueuedOnce == \A j, k \in DOMAIN msgs :
  msgs[j].kind = "lifecycle" /\ msgs[k].kind = "lifecycle" /\ msgs[j].req = msgs[k].req => j = k

\* A command holds its client's sender while the client waits.
Owes(e, rp) == rp[e.req] # "unsent" /\ (e.reply <=> rp[e.req] = "waiting")

\* Commands es and queued requests Q hold what the replies rp say is awaited.
Owed(es, Q, rp) ==
  /\ \A e, f \in es : e.req = f.req => e = f
  /\ \A e \in es : e.req \notin Q /\ Owes(e, rp)
  /\ \A r \in Request : r \in Q => rp[r] = "waiting"
  /\ \A r \in Request : rp[r] = "waiting" => r \in Q \/ \E e \in es : e.req = r

HeldOnce ==
  /\ \A e, f \in inflight : e.req = f.req => e = f
  /\ \A e \in inflight : ~Queued(e.req) /\ Owes(e, reply)
  /\ \A r \in Request : Queued(r) => reply[r] = "waiting"
  /\ \A r \in Request : reply[r] = "waiting" => Queued(r) \/ \E e \in inflight : e.req = r

HInv == QueuedOnce /\ HeldOnce

\* What the queue holds once its head is taken.
LEMMA TailQueued ==
  ASSUME TypeOK, QueuedOnce, msgs # << >>, msgs' = Tail(msgs), NEW m, m = Head(msgs)
  PROVE  /\ QueuedOnce'
         /\ m.kind = "lifecycle" =>
              Queued(m.req) /\ \A r : Queued(r)' <=> Queued(r) /\ r # m.req
         /\ m.kind # "lifecycle" => \A r : Queued(r)' <=> Queued(r)
<1>1. msgs \in Seq(Message) /\ Len(msgs) \in Nat /\ Len(msgs) # 0
  BY DEF TypeOK
<1>2. /\ \A k \in DOMAIN msgs' : k \in Nat /\ k + 1 \in DOMAIN msgs /\ k + 1 # 1
                                 /\ msgs'[k] = msgs[k + 1]
      /\ \A j \in DOMAIN msgs : j # 1 =>
           j \in Nat /\ j - 1 \in DOMAIN msgs' /\ msgs'[j - 1] = msgs[j]
      /\ 1 \in DOMAIN msgs /\ m = msgs[1]
  BY <1>1
<1>3. QueuedOnce'
  BY <1>2 DEF QueuedOnce
<1>4. ASSUME NEW r
      PROVE  /\ m.kind = "lifecycle" /\ r = m.req => ~Queued(r)'
             /\ Queued(r)' => Queued(r)
             /\ Queued(r) /\ ~(m.kind = "lifecycle" /\ r = m.req) => Queued(r)'
  <2>1. ASSUME Queued(r)'
        PROVE  Queued(r) /\ ~(m.kind = "lifecycle" /\ r = m.req)
    <3>1. PICK k \in DOMAIN msgs' : msgs'[k].kind = "lifecycle" /\ msgs'[k].req = r
      BY <2>1 DEF Queued
    <3>2. k + 1 \in DOMAIN msgs /\ k + 1 # 1 /\ msgs'[k] = msgs[k + 1]
      BY <1>2
    <3> QED BY <1>2, <3>1, <3>2 DEF Queued, QueuedOnce
  <2>2. ASSUME Queued(r), ~(m.kind = "lifecycle" /\ r = m.req)
        PROVE  Queued(r)'
    <3>1. PICK j \in DOMAIN msgs : msgs[j].kind = "lifecycle" /\ msgs[j].req = r
      BY <2>2 DEF Queued
    <3>2. j - 1 \in DOMAIN msgs' /\ msgs'[j - 1] = msgs[j]
      BY <1>2, <2>2, <3>1
    <3> QED BY <3>1, <3>2 DEF Queued
  <2> QED BY <2>1, <2>2
<1>5. m.kind = "lifecycle" => Queued(m.req)
  BY <1>2 DEF Queued
<1> QED BY <1>3, <1>4, <1>5

\* A message sent is in the queue, or the queue is as it was.
LEMMA AppendQueued ==
  ASSUME TypeOK, QueuedOnce, NEW m \in Message, msgs' = Append(msgs, m),
         m.kind = "lifecycle" => ~Queued(m.req)
  PROVE  /\ QueuedOnce'
         /\ \A r : Queued(r)' <=> Queued(r) \/ (m.kind = "lifecycle" /\ r = m.req)
<1>1. msgs \in Seq(Message) /\ Len(msgs) \in Nat
  BY DEF TypeOK
<1>2. /\ \A k \in DOMAIN msgs' : \/ k \in DOMAIN msgs /\ msgs'[k] = msgs[k]
                                 \/ k = Len(msgs) + 1 /\ msgs'[k] = m
      /\ \A k \in DOMAIN msgs : k \in DOMAIN msgs' /\ msgs'[k] = msgs[k]
      /\ Len(msgs) + 1 \in DOMAIN msgs' /\ msgs'[Len(msgs) + 1] = m
  BY <1>1
<1>3. QueuedOnce'
  BY <1>2 DEF QueuedOnce, Queued
<1>4. ASSUME NEW r PROVE Queued(r)' <=> Queued(r) \/ (m.kind = "lifecycle" /\ r = m.req)
  BY <1>2 DEF Queued
<1> QED BY <1>3, <1>4

\* The shape of a command after a step of its own: it is the same command.
Like(g, e) == /\ g \in Entry /\ g.name = e.name /\ g.seq = e.seq /\ g.req = e.req
              /\ g.reply = e.reply /\ g.cmd = e.cmd /\ g.found = e.found
              /\ g.probed = e.probed

\* A command that moves on is answered, or begins its next phase.
LEMMA MoveShape ==
  ASSUME NEW e \in Entry, NEW rest, NEW tk, NEW rp,
         Advance(e, rest, tk, rp) \/ Settle(e, rest, tk, rp, "failed")
  PROVE  \/ /\ inflight' = rest /\ tasks' = tk /\ UNCHANGED <<children, spawning>>
            /\ \/ reply' = Answer(rp, e, "failed")
               \/ reply' = Answer(rp, e, "ok") /\ e.plan = << >>
         \/ \E g : /\ Like(g, e) /\ e.plan # << >> /\ g.plan = Tail(e.plan)
                   /\ inflight' = rest \cup {g} /\ reply' = rp
                   /\ \/ /\ Head(e.plan) = "build" /\ UNCHANGED <<children, spawning>>
                         /\ tasks' = tk \cup {[kind |-> "build", name |-> e.name, seq |-> e.seq]}
                      \/ /\ Head(e.plan) = "stop" /\ UNCHANGED spawning
                         /\ \E c \in children :
                              /\ c.name = e.name /\ children' = children \ {c}
                              /\ tasks' = tk \cup {[kind |-> "stop", name |-> e.name,
                                                    seq |-> e.seq, inst |-> c]}
                      \/ /\ Head(e.plan) = "start" /\ UNCHANGED children
                         /\ spawning' = {e.name} /\ tasks' = tk
<1>1. CASE Settle(e, rest, tk, rp, "failed") \/ e.plan = << >>
  BY <1>1 DEF Advance, Settle
<1>2. CASE Advance(e, rest, tk, rp) /\ e.plan # << >>
  <2> DEFINE f == [e EXCEPT !.plan = Tail(@)]
             g == [f EXCEPT !.task = "work"]
  <2>1. Tail(e.plan) \in Seq(Phase)
    BY <1>2 DEF Entry
  <2>2. Like(f, e) /\ f.plan = Tail(e.plan)
    BY <2>1 DEF Entry, Like
  <2>3. \/ Head(e.plan) = "build" /\ BuildPhase(f, rest, tk, rp)
        \/ Head(e.plan) = "stop" /\ StopPhase(f, rest, tk, rp)
        \/ Head(e.plan) = "start" /\ StartPhase(f, rest, tk, rp)
    BY <1>2 DEF Advance
  <2> HIDE DEF f
  <2>4. Like(g, e) /\ g.plan = Tail(e.plan) /\ f.name = e.name /\ f.seq = e.seq
    BY <2>2 DEF Entry, Like
  <2>5. CASE Head(e.plan) = "build" /\ BuildPhase(f, rest, tk, rp)
    BY <1>2, <2>4, <2>5 DEF BuildPhase
  <2>6. CASE Head(e.plan) = "stop" /\ StopPhase(f, rest, tk, rp)
    <3>1. CASE Settle(f, rest, tk, rp, "failed")
      <4>1. Answer(rp, f, "failed") = Answer(rp, e, "failed")
        BY <2>2 DEF Answer, Like
      <4> QED BY <3>1, <4>1 DEF Settle
    <3>2. ASSUME NEW c \in children, StopChild(f, c, rest, tk, rp)
          PROVE  /\ c.name = e.name /\ children' = children \ {c} /\ UNCHANGED spawning
                 /\ tasks' = tk \cup {[kind |-> "stop", name |-> e.name, seq |-> e.seq,
                                       inst |-> c]}
                 /\ inflight' = rest \cup {g} /\ reply' = rp
      BY <2>4, <3>2 DEF StopChild
    <3> HIDE DEF g
    <3> QED BY <1>2, <2>4, <2>6, <3>1, <3>2 DEF StopPhase
  <2>7. CASE Head(e.plan) = "start" /\ StartPhase(f, rest, tk, rp)
    BY <1>2, <2>2, <2>4, <2>7 DEF StartPhase
  <2> QED BY <2>3, <2>5, <2>6, <2>7
<1> QED BY <1>1, <1>2

\* Whatever becomes of the command, its client is answered or it stays owed.
LEMMA MoveHeld ==
  ASSUME NEW e \in Entry, NEW rest, NEW tk, NEW Q, NEW rp \in [Request -> Replies],
         Advance(e, rest, tk, rp) \/ Settle(e, rest, tk, rp, "failed"),
         Owed(rest \cup {e}, Q, rp), e \notin rest, \A f \in rest : f \in Entry
  PROVE  Owed(inflight', Q, reply')
<1>1. e.req \in Request /\ \A f \in rest : f.req \in Request /\ f.req # e.req
  BY DEF Entry, Owed
<1>2. ASSUME NEW result \in {"ok", "failed"}, inflight' = rest, reply' = Answer(rp, e, result)
      PROVE  Owed(inflight', Q, reply')
  <2>1. \A r \in Request : r # e.req => reply'[r] = rp[r]
    BY <1>2 DEF Answer
  <2>2. reply'[e.req] # "waiting"
    BY <1>1, <1>2 DEF Answer, Owes, Owed
  <2> QED BY <1>1, <1>2, <2>1, <2>2 DEF Owed, Owes
<1>3. ASSUME NEW g, Like(g, e), inflight' = rest \cup {g}, reply' = rp
      PROVE  Owed(inflight', Q, reply')
  BY <1>1, <1>3 DEF Owed, Owes, Like
<1> QED BY <1>2, <1>3, MoveShape

LEMMA HandleHeld == ASSUME IInv, IInv', HInv, Handle PROVE HInv'
<1> DEFINE m == Head(msgs)
<1>1. /\ AtSelect /\ msgs # << >> /\ msgs' = Tail(msgs) /\ TypeOK /\ TypeOK' /\ Distinct
      /\ QueuedOnce /\ HeldOnce
      /\ inflight \subseteq Entry /\ reply \in [Request -> Replies]
  BY DEF Handle, IInv, HInv, TypeOK
<1>2. m \in Message
  BY <1>1, HeadType
<1>3. /\ QueuedOnce'
      /\ m.kind = "lifecycle" =>
           Queued(m.req) /\ \A r : Queued(r)' <=> Queued(r) /\ r # m.req
      /\ m.kind # "lifecycle" => \A r : Queued(r)' <=> Queued(r)
  BY <1>1, TailQueued
<1> SUFFICES HeldOnce'
  BY <1>3 DEF HInv
<1>4. \A f \in inflight : f.req \in Request
  BY <1>1 DEF Entry
<1>8. PICK Q : \A r : r \in Q <=> r \in Request /\ Queued(r)'
  <2> WITNESS {r \in Request : Queued(r)'}
  <2> QED OBVIOUS
<1>9. Owed(inflight', Q, reply') => HeldOnce'
  <2>1. \A f \in inflight' : f.req \in Request
    BY <1>1 DEF TypeOK, Entry
  <2> QED BY <1>8, <2>1 DEF Owed, HeldOnce
<1>5. CASE m.kind = "lifecycle" /\ Refuse(m)
  <2>1. m.req \in Request
    BY <1>2, <1>5 DEF Message, Completion
  <2>2. inflight' = inflight /\ reply' = [reply EXCEPT ![m.req] = "refused"]
    BY <1>5 DEF Refuse, kernelVars
  <2> HIDE DEF m
  <2> QED BY <1>1, <1>3, <1>4, <1>5, <2>1, <2>2 DEF HeldOnce, Owes
<1>6. CASE m.kind = "lifecycle" /\ Accept(m)
  <2> DEFINE prev == Commands(m.cmd.name)
             rp == Supersede(prev)
  <2>1. m.req \in Request /\ m.cmd \in Command
    BY <1>2, <1>6 DEF Message, Completion
  <2>2. m.cmd.name \in Service
    BY <1>6 DEF Accept, Refusable
  <2>3. PICK probed \in BOOLEAN :
          Advance(NewCommand(m, probed), inflight \ prev, tasks \ Abort(prev), rp)
    BY <1>6 DEF Accept
  <2> DEFINE e == NewCommand(m, probed)
  <2>4. e \in Entry /\ e.req = m.req /\ e.reply
    BY <1>1, <2>1, <2>2, PlanType DEF NewCommand, Entry, TypeOK
  <2>5. rp \in [Request -> Replies]
    BY <1>1 DEF Supersede, Replies
  <2>6. prev \subseteq inflight
    BY DEF Commands
  <2>7. \A r \in Request : rp[r] = IF \E f \in prev : f.reply /\ f.req = r
                                   THEN "superseded" ELSE reply[r]
    BY DEF Supersede
  <2> HIDE DEF m, e, prev, rp
  <2>8. \A f \in inflight \ prev : rp[f.req] = reply[f.req] /\ f.req # e.req
    BY <1>1, <1>3, <1>4, <1>6, <2>4, <2>6, <2>7 DEF HeldOnce
  <2>9. rp[e.req] = "waiting" /\ e.req \notin Q
    BY <1>1, <1>3, <1>6, <1>8, <2>1, <2>4, <2>6, <2>7 DEF HeldOnce
  <2>10. \A f \in (inflight \ prev) \cup {e} : f.req \notin Q /\ Owes(f, rp)
    BY <1>1, <1>3, <1>6, <1>8, <2>4, <2>8, <2>9 DEF HeldOnce, Owes
  <2>11. \A r \in Request : r \in Q => rp[r] = "waiting"
    BY <1>1, <1>3, <1>6, <1>8, <2>6, <2>7 DEF HeldOnce
  <2>12. ASSUME NEW r \in Request, rp[r] = "waiting"
         PROVE  r \in Q \/ \E f \in (inflight \ prev) \cup {e} : f.req = r
    <3>1. reply[r] = "waiting" /\ ~\E f \in prev : f.reply /\ f.req = r
      BY <2>7, <2>12
    <3>2. Queued(r) \/ \E f \in inflight : f.req = r /\ f.reply
      BY <1>1, <3>1 DEF HeldOnce, Owes
    <3> QED BY <1>3, <1>6, <1>8, <2>4, <3>1, <3>2
  <2>13. Advance(e, inflight \ prev, tasks \ Abort(prev), rp)
    BY <2>3 DEF e
  <2>14. /\ \A f \in inflight \ prev : f \in Entry
         /\ \A f, g \in inflight \ prev : f.req = g.req => f = g
    BY <1>1 DEF HeldOnce
  <2> DEFINE rest == inflight \ prev
  <2>15. Owed(rest \cup {e}, Q, rp) /\ e \notin rest /\ \A f \in rest : f \in Entry
    BY <2>8, <2>10, <2>11, <2>12, <2>14 DEF Owed
  <2> HIDE DEF rest
  <2> QED BY <1>9, <2>4, <2>5, <2>13, <2>15, MoveHeld DEF rest
<1>7. CASE m.kind # "lifecycle" /\ Complete(m)
  <2>1. CASE UNCHANGED <<inflight, reply>>
    BY <1>1, <1>3, <1>7, <2>1 DEF HeldOnce
  <2>2. ASSUME NEW e \in Current(m),
               IF m.ok THEN Advance([e EXCEPT !.task = "none"], inflight \ {e}, tasks, reply)
               ELSE Settle(e, inflight \ {e}, tasks, reply, "failed")
        PROVE  HeldOnce'
    <3>1. e \in inflight /\ e \in Entry
      BY <1>1 DEF Current
    <3>2. PICK h \in Entry :
            /\ h.req = e.req /\ h.reply = e.reply
            /\ \/ Advance(h, inflight \ {e}, tasks, reply)
               \/ Settle(h, inflight \ {e}, tasks, reply, "failed")
      <4> DEFINE f == [e EXCEPT !.task = "none"]
      <4>1. f \in Entry /\ f.req = e.req /\ f.reply = e.reply
        BY <3>1 DEF Entry
      <4>2. \/ Advance(f, inflight \ {e}, tasks, reply)
            \/ Settle(e, inflight \ {e}, tasks, reply, "failed")
        BY <2>2
      <4> HIDE DEF f
      <4> QED BY <3>1, <4>1, <4>2
    <3> HIDE DEF m
    <3> DEFINE rest == inflight \ {e}
    <3>3. rest \subseteq inflight /\ e \notin rest /\ inflight = rest \cup {e}
      BY <3>1
    <3>4. Advance(h, rest, tasks, reply) \/ Settle(h, rest, tasks, reply, "failed")
      BY <3>2
    <3> HIDE DEF rest
    <3>5. \A f \in rest : f \in Entry /\ f.req # h.req
      BY <1>1, <3>1, <3>2, <3>3 DEF HeldOnce
    <3>6. /\ \A f, g \in rest \cup {h} : f.req = g.req => f = g
          /\ \A f \in rest \cup {h} : f.req \notin Q /\ Owes(f, reply)
      BY <1>1, <1>3, <1>7, <1>8, <3>1, <3>2, <3>3, <3>5 DEF HeldOnce, Owes
    <3>7. /\ \A r \in Request : r \in Q => reply[r] = "waiting"
          /\ \A r \in Request : reply[r] = "waiting" =>
               r \in Q \/ \E f \in rest \cup {h} : f.req = r
      BY <1>1, <1>3, <1>7, <1>8, <3>1, <3>2, <3>3 DEF HeldOnce
    <3>8. Owed(rest \cup {h}, Q, reply) /\ h \notin rest
      BY <3>5, <3>6, <3>7 DEF Owed
    <3> QED BY <1>1, <1>9, <3>2, <3>4, <3>5, <3>8, MoveHeld
  <2> QED BY <1>7, <2>1, <2>2 DEF Complete
<1> QED BY <1>5, <1>6, <1>7 DEF Handle, m

\* The kernel answers one command where it has spawned, or takes it down.
LEMMA SpawnHeld ==
  ASSUME TypeOK, HInv, SpawnSucceeds \/ SpawnFails \/ SettleCommand
  PROVE  HInv'
<1>1. msgs' = msgs
  BY DEF SpawnSucceeds, SpawnDone, SpawnFails, SettleCommand
<1>2. /\ QueuedOnce' /\ HeldOnce /\ \A r : Queued(r)' <=> Queued(r)
      /\ \A f \in inflight : f.req \in Request
  BY <1>1 DEF HInv, QueuedOnce, Queued, TypeOK, Entry
<1>3. ASSUME NEW e \in inflight, NEW result \in {"ok", "failed", "shutting_down"},
             inflight' = inflight \ {e}, reply' = Answer(reply, e, result)
      PROVE  HeldOnce'
  BY <1>2, <1>3 DEF HeldOnce, Owes, Answer, TypeOK
<1>4. ASSUME NEW e \in inflight, NEW g, g.req = e.req, g.reply = (e.reply /\ ~e.cmd.no_wait),
             inflight' = (inflight \ {e}) \cup {g},
             reply' = IF e.cmd.no_wait THEN Answer(reply, e, "ok") ELSE reply
      PROVE  HeldOnce'
  <2>1. /\ \A r \in Request : r # e.req => reply'[r] = reply[r]
        /\ reply'[e.req] # "unsent"
        /\ g.reply <=> reply'[e.req] = "waiting"
    BY <1>2, <1>4 DEF HeldOnce, Owes, Answer, TypeOK
  <2> QED BY <1>2, <1>4, <2>1 DEF HeldOnce, Owes
<1>5. CASE SpawnSucceeds
  <2>1. PICK e \in inflight : SpawnDone(e)
    BY <1>5 DEF SpawnSucceeds
  <2> DEFINE g == [e EXCEPT !.task = "probe", !.reply = e.reply /\ ~e.cmd.no_wait]
  <2>2. g.req = e.req /\ g.reply = (e.reply /\ ~e.cmd.no_wait)
    BY DEF TypeOK, Entry
  <2>3. \/ inflight' = inflight \ {e} /\ reply' = Answer(reply, e, "ok")
        \/ /\ inflight' = (inflight \ {e}) \cup {g}
           /\ reply' = IF e.cmd.no_wait THEN Answer(reply, e, "ok") ELSE reply
    BY <2>1 DEF SpawnDone
  <2> HIDE DEF g
  <2> QED BY <1>2, <1>3, <1>4, <2>2, <2>3 DEF HInv
<1>6. CASE SpawnFails \/ SettleCommand
  BY <1>2, <1>3, <1>6 DEF HInv, SpawnFails, SettleCommand
<1> QED BY <1>5, <1>6

\* What is left in the queue when the kernel is gone is answered all at once.
LEMMA ExitHeld == ASSUME DInv, HInv, Exit PROVE HInv'
<1>1. /\ inflight = {} /\ inflight' = {} /\ msgs' = << >>
      /\ reply' = [r \in Request |-> IF Queued(r) THEN "dropped" ELSE reply[r]]
  BY DEF Exit, DInv, Stages, Queued
<1>2. QueuedOnce' /\ \A r : ~Queued(r)'
  BY <1>1 DEF QueuedOnce, Queued
<1> QED BY <1>1, <1>2 DEF HInv, HeldOnce

LEMMA PostHeld ==
  ASSUME TypeOK, HInv, NEW t \in tasks,
         BuildEnds(t) \/ StopEnds(t) \/ ProbeConcludes(t) \/ ProbeReports(t)
  PROVE  HInv'
<1>1. t.name \in Service /\ t.seq \in Nat /\ UNCHANGED <<inflight, reply>>
  BY DEF TypeOK, Task, BuildEnds, StopEnds, ProbeConcludes, ProbeReports, kernelVars
<1>2. \/ msgs' = msgs
      \/ \E kind \in {"build", "stop", "probe"}, ok \in BOOLEAN :
           msgs' = Append(msgs, [kind |-> kind, name |-> t.name, seq |-> t.seq, ok |-> ok])
  BY DEF BuildEnds, StopEnds, ProbeConcludes, ProbeReports, Post
<1>3. CASE msgs' = msgs
  BY <1>1, <1>3 DEF HInv, QueuedOnce, HeldOnce, Queued
<1>4. ASSUME NEW kind \in {"build", "stop", "probe"}, NEW ok \in BOOLEAN,
             msgs' = Append(msgs, [kind |-> kind, name |-> t.name, seq |-> t.seq, ok |-> ok])
      PROVE  HInv'
  <2> DEFINE m == [kind |-> kind, name |-> t.name, seq |-> t.seq, ok |-> ok]
  <2>1. m \in Message /\ m.kind # "lifecycle"
    BY <1>1 DEF Message, Completion
  <2>2. msgs' = Append(msgs, m)
    BY <1>4
  <2> HIDE DEF m
  <2>3. QueuedOnce' /\ \A r : Queued(r)' <=> Queued(r)
    BY <2>1, <2>2, AppendQueued DEF HInv
  <2> QED BY <1>1, <2>3 DEF HInv, HeldOnce
<1> QED BY <1>2, <1>3, <1>4

LEMMA AskHeld ==
  ASSUME TypeOK, HInv, NEW r \in Request, NEW c \in Command, Ask(r, c)
  PROVE  HInv'
<1>1. reply[r] = "unsent" /\ inflight' = inflight /\ \A f \in inflight : f.req \in Request
  BY DEF Ask, kernelVars, TypeOK, Entry
<1>2. ~Queued(r) /\ \A e \in inflight : e.req # r
  BY <1>1 DEF HInv, HeldOnce, Owes
<1>3. CASE msgs' = msgs /\ reply' = [reply EXCEPT ![r] = "not_accepting"]
  BY <1>1, <1>2, <1>3 DEF HInv, QueuedOnce, HeldOnce, Owes, Queued, TypeOK
<1>4. CASE /\ reply' = [reply EXCEPT ![r] = "waiting"]
           /\ msgs' = Append(msgs, [kind |-> "lifecycle", req |-> r, cmd |-> c])
  <2> DEFINE m == [kind |-> "lifecycle", req |-> r, cmd |-> c]
  <2>1. m \in Message /\ m.kind = "lifecycle" /\ m.req = r
    BY DEF Message
  <2>2. msgs' = Append(msgs, m)
    BY <1>4
  <2> HIDE DEF m
  <2>3. QueuedOnce' /\ \A q : Queued(q)' <=> Queued(q) \/ q = r
    BY <1>2, <2>1, <2>2, AppendQueued DEF HInv
  <2> QED BY <1>1, <1>2, <1>4, <2>3 DEF HInv, HeldOnce, Owes, TypeOK
<1> QED BY <1>3, <1>4 DEF Ask

LEMMA InitHeld == Init => HInv
BY DEF Init, HInv, QueuedOnce, HeldOnce, Queued

LEMMA StepHeld == DInv /\ DInv' /\ HInv /\ [Next]_vars => HInv'
<1> SUFFICES ASSUME DInv, DInv', HInv, [Next]_vars PROVE HInv'
  OBVIOUS
<1>1. IInv /\ IInv' /\ TypeOK
  BY DEF DInv, IInv
<1>2. CASE Handle
  BY <1>1, <1>2, HandleHeld
<1>3. CASE SpawnSucceeds \/ SpawnFails \/ SettleCommand
  BY <1>1, <1>3, SpawnHeld
<1>4. CASE Exit
  BY <1>4, ExitHeld
<1>5. CASE \E t \in tasks : BuildEnds(t) \/ StopEnds(t) \/ ProbeConcludes(t) \/ ProbeReports(t)
  BY <1>1, <1>5, PostHeld
<1>6. CASE \E r \in Request, c \in Command : Ask(r, c)
  BY <1>1, <1>6, AskHeld
<1>7. CASE \/ SeeShutdown \/ ChildExits \/ WaitFails \/ BeginTeardown \/ BeginWave \/ FinishStop
           \/ \E i \in live : Dies(i)
           \/ Down \/ Terminated \/ UNCHANGED vars
  <2>1. UNCHANGED <<msgs, inflight, reply>>
    BY <1>7 DEF SeeShutdown, ChildExits, WaitFails, ChildGone, BeginTeardown, BeginWave,
       FinishStop, Dies, Down, Terminated, vars, kernelVars
  <2> QED BY <2>1 DEF HInv, QueuedOnce, HeldOnce, Queued
<1> QED BY <1>2, <1>3, <1>4, <1>5, <1>6, <1>7 DEF Next, Kernel

LEMMA HeldInvariant == Spec => [](DInv /\ HInv)
<1>1. Init => DInv /\ HInv
  BY InitDown, InitHeld
<1>2. (DInv /\ HInv) /\ [Next]_vars => (DInv /\ HInv)'
  BY StepDown, StepHeld
<1> QED BY <1>1, <1>2, PTL DEF Spec

\* The sizes of two sets of which one is empty and the other has what it may.
LEMMA OneInAll ==
  ASSUME NEW S, NEW T, \A x, y \in S : x = y, \A x, y \in T : x = y, S = {} \/ T = {}
  PROVE  Cardinality(S) + Cardinality(T) = IF S = {} /\ T = {} THEN 0 ELSE 1
<1>1. ASSUME NEW U, \A x, y \in U : x = y
      PROVE  Cardinality(U) = IF U = {} THEN 0 ELSE 1
  <2>1. CASE U = {}
    BY <2>1, FS_EmptySet
  <2>2. CASE U # {}
    <3>1. PICK x \in U : TRUE
      BY <2>2
    <3>2. U = {x}
      BY <1>1, <3>1
    <3> QED BY <2>2, <3>2, FS_Singleton
  <2> QED BY <2>1, <2>2
<1>2. Cardinality(S) = IF S = {} THEN 0 ELSE 1
  BY <1>1
<1>3. Cardinality(T) = IF T = {} THEN 0 ELSE 1
  BY <1>1
<1> QED BY <1>2, <1>3

\* Answered exactly once, on every path, whatever supersedes, fails or takes
\* the stack down: a client waits as long as its request is queued or its
\* command holds its sender, and no longer.
THEOREM WaitingMeansHeldAlways == Spec => []WaitingMeansHeld
<1>1. DInv /\ HInv => WaitingMeansHeld
  <2> SUFFICES ASSUME DInv, HInv, NEW r \in Request
               PROVE  Cardinality({k \in DOMAIN msgs : msgs[k].kind = "lifecycle"
                                                       /\ msgs[k].req = r})
                        + Cardinality({e \in inflight : e.reply /\ e.req = r})
                        = IF reply[r] = "waiting" THEN 1 ELSE 0
    BY DEF WaitingMeansHeld
  <2> DEFINE Q == {k \in DOMAIN msgs : msgs[k].kind = "lifecycle" /\ msgs[k].req = r}
             E == {e \in inflight : e.reply /\ e.req = r}
  <2>1. /\ \A x, y \in Q : x = y
        /\ \A x, y \in E : x = y
        /\ Q = {} \/ E = {}
    BY DEF HInv, QueuedOnce, HeldOnce, Queued
  <2>2. (reply[r] = "waiting") <=> ~(Q = {} /\ E = {})
    BY DEF HInv, HeldOnce, Queued, Owes
  <2>3. Cardinality(Q) + Cardinality(E) = IF Q = {} /\ E = {} THEN 0 ELSE 1
    <3> HIDE DEF Q, E
    <3> QED BY <2>1, OneInAll
  <2> QED BY <2>2, <2>3
<1> QED BY <1>1, HeldInvariant, PTL

----------------------------------------------------------------------------
(* Commands                                                                *)
(*                                                                         *)
(* What moves a command on is a task or the completion it left, its token, *)
(* and what the token will say is already so: the instances a build found  *)
(* are there, those a stop took are gone or lost, the one a probe passed   *)
(* for is a new one.                                                       *)

Starts(e) == e.cmd.verb \in {"start", "restart"}

\* The kind of token that ends a command once its plan is used up.
Last(e) == IF Starts(e) THEN "probe" ELSE e.cmd.verb

TaskOf(e, t) == t.name = e.name /\ t.seq = e.seq

DoneOf(e, m) == m.kind # "lifecycle" /\ m.name = e.name /\ m.seq = e.seq

Passed(c) == [inst |-> c, verdict |-> "passed"] \in heard

Kept(e) == \A c : c \in e.found <=> c \in children /\ c.name = e.name

Moves(e) == \/ e.name \in spawning
            \/ \E t \in tasks : TaskOf(e, t)
            \/ \E k \in DOMAIN msgs : DoneOf(e, msgs[k])

TaskTells(e, t) ==
  /\ e.plan = << >> => t.kind = Last(e)
  /\ t.kind = "build" => Kept(e)
  /\ t.kind = "probe" => /\ t.inst \in children /\ t.inst \notin e.found
                         /\ t.inst.name = e.name
                         /\ t.verdict = "passed" => Passed(t.inst)

DoneTells(e, m) ==
  /\ e.plan = << >> => m.kind = Last(e)
  /\ m.kind = "build" => Kept(e)
  /\ m.kind = "stop" => \A i \in live \ lost : i.name # e.name
  /\ m.kind = "probe" /\ m.ok =>
       \E c \in children : c \notin e.found /\ c.name = e.name /\ Passed(c)

EntryOK(e) ==
  /\ Moves(e)
  /\ e.plan # << >> \/ e.name \in spawning => Starts(e)
  /\ \A c \in e.found : c.gen <= starts[e.name]
  /\ \A t \in tasks : TaskOf(e, t) => TaskTells(e, t)
  /\ \A k \in DOMAIN msgs : DoneOf(e, msgs[k]) => DoneTells(e, msgs[k])

KInv == pc = "steady" => /\ \A c \in children : c.gen <= starts[c.name]
                         /\ \A e \in inflight : EntryOK(e)

\* A command nothing happens to is as it was.
LEMMA EntryKept ==
  ASSUME NEW f \in Entry, EntryOK(f), starts \in [Service -> Nat],
         f.name \in spawning' <=> f.name \in spawning,
         \A t \in tasks : TaskOf(f, t) => t \in tasks',
         \A t \in tasks' : TaskOf(f, t) => t \in tasks,
         \A c \in children : c.name = f.name => c \in children',
         \A c \in children' : c.name = f.name => c \in children,
         \A i \in live' \ lost' : i.name = f.name => i \in live \ lost,
         starts'[f.name] \in Nat, starts[f.name] <= starts'[f.name],
         heard \subseteq heard',
         \A k \in DOMAIN msgs : DoneOf(f, msgs[k]) => \E j \in DOMAIN msgs' : msgs'[j] = msgs[k],
         \A k \in DOMAIN msgs' : DoneOf(f, msgs'[k]) => \E j \in DOMAIN msgs : msgs[j] = msgs'[k]
  PROVE  EntryOK(f)'
<1>1. Moves(f)'
  BY DEF EntryOK, Moves
<1>2. f.plan # << >> \/ f.name \in spawning' => Starts(f)
  BY DEF EntryOK
<1>3. \A c \in f.found : c.gen <= starts'[f.name]
  <2>1. \A c \in f.found : c.gen \in Nat /\ c.gen <= starts[f.name]
    BY DEF EntryOK, Entry, Instance
  <2>2. starts[f.name] \in Nat
    BY DEF Entry
  <2> QED BY <2>1, <2>2
<1>4. Kept(f) => Kept(f)'
  BY DEF Kept
<1>5. \A c : Passed(c) => Passed(c)'
  BY DEF Passed
<1>6. ASSUME NEW t, t \in tasks', TaskOf(f, t) PROVE TaskTells(f, t)'
  <2>1. TaskTells(f, t)
    BY <1>6 DEF EntryOK
  <2> QED BY <1>4, <1>5, <2>1 DEF TaskTells, Last, Starts
<1>7. ASSUME NEW k \in DOMAIN msgs', DoneOf(f, msgs'[k]) PROVE DoneTells(f, msgs[k])'
  <2>1. DoneTells(f, msgs'[k])
    BY <1>7 DEF EntryOK
  <2> QED BY <1>4, <1>5, <2>1 DEF DoneTells, Last, Starts
<1> QED BY <1>1, <1>2, <1>3, <1>6, <1>7 DEF EntryOK, TaskOf, DoneOf, Starts

\* A command that moves on has one of these left of its plan.
Due(e) ==
  \/ Starts(e) /\ e.plan \in {<< >>, <<"start">>, <<"stop", "start">>, <<"build", "start">>,
                              <<"build", "stop", "start">>}
  \/ e.cmd.verb = "stop" /\ e.plan \in {<< >>, <<"stop">>}
  \/ e.cmd.verb = "build" /\ e.plan \in {<< >>, <<"build">>}

LEMMA DueShape ==
  ASSUME NEW e, Due(e), e.plan # << >>
  PROVE  /\ Tail(e.plan) # << >> => Starts(e)
         /\ Tail(e.plan) = << >> /\ Head(e.plan) # "start" => Head(e.plan) = Last(e)
         /\ Head(e.plan) = "start" => Starts(e)
<1>1. /\ Head(<<"stop">>) = "stop" /\ Tail(<<"stop">>) = << >>
      /\ Head(<<"start">>) = "start" /\ Tail(<<"start">>) = << >>
      /\ Head(<<"build">>) = "build" /\ Tail(<<"build">>) = << >>
      /\ Head(<<"stop", "start">>) = "stop" /\ Tail(<<"stop", "start">>) = <<"start">>
      /\ Head(<<"build", "start">>) = "build" /\ Tail(<<"build", "start">>) = <<"start">>
      /\ Head(<<"build", "stop", "start">>) = "build"
      /\ Tail(<<"build", "stop", "start">>) = <<"stop", "start">>
      /\ << >> # <<"start">> /\ <<"stop", "start">> # << >>
  OBVIOUS
<1> QED BY <1>1 DEF Due, Last, Starts

\* The commands whose name is not e's, and the tasks left when e's are gone.
Apart(e, rest, tk) ==
  /\ rest \subseteq inflight /\ tk \subseteq tasks
  /\ \A f \in rest : f.name # e.name
  /\ \A t \in tasks \ tk : t.name = e.name
  /\ \A t \in tk : ~TaskOf(e, t)
  /\ \A k \in DOMAIN msgs : k # 1 => ~DoneOf(e, msgs[k])
  /\ \A f \in rest : ~DoneOf(f, msgs[1])
  /\ \A c \in e.found : c.gen <= starts[e.name]
  /\ Due(e)
  /\ e.plan # << >> /\ Head(e.plan) = "build" => Kept(e)

\* A command that moves on leaves the others alone, and has its next token.
LEMMA MoveTokens ==
  ASSUME TypeOK, TypeOK', KInv, AtSelect, pc' = pc,
         msgs # << >>, msgs' = Tail(msgs), UNCHANGED <<live, lost, starts, heard>>,
         NEW e \in Entry, NEW rest, NEW tk, NEW rp, Apart(e, rest, tk),
         Advance(e, rest, tk, rp) \/ Settle(e, rest, tk, rp, "failed")
  PROVE  KInv'
<1>1. /\ pc = "steady" /\ spawning = {} /\ rest \subseteq inflight /\ inflight \subseteq Entry
      /\ starts \in [Service -> Nat] /\ e.name \in Service
  BY DEF AtSelect, Apart, TypeOK, Entry
<1>2. /\ \A c \in children : c.gen <= starts[c.name]
      /\ \A f \in rest : EntryOK(f) /\ f \in Entry
  BY <1>1 DEF KInv
<1>3. /\ \A k \in DOMAIN msgs' : /\ k \in Nat /\ k + 1 \in DOMAIN msgs /\ k + 1 # 1
                                 /\ msgs'[k] = msgs[k + 1]
      /\ \A j \in DOMAIN msgs : j # 1 =>
           j \in Nat /\ j - 1 \in DOMAIN msgs' /\ msgs'[j - 1] = msgs[j]
  BY DEF TypeOK
<1>4. ASSUME NEW f \in rest,
             spawning' \subseteq {e.name},
             \A t \in tk : t \in tasks', \A t \in tasks' \ tk : t.name = e.name,
             children' \subseteq children, \A c \in children \ children' : c.name = e.name
      PROVE  EntryOK(f)'
  <2>1. f.name # e.name /\ f \in Entry /\ EntryOK(f) /\ f.name \in Service
    BY <1>2 DEF Apart, Entry
  <2>2. \A t \in tasks : TaskOf(f, t) => t \in tasks'
    BY <1>4, <2>1 DEF Apart, TaskOf
  <2>3. \A t \in tasks' : TaskOf(f, t) => t \in tasks
    BY <1>4, <2>1 DEF Apart, TaskOf
  <2>4. \A k \in DOMAIN msgs : DoneOf(f, msgs[k]) => \E j \in DOMAIN msgs' : msgs'[j] = msgs[k]
    <3>1. SUFFICES ASSUME NEW k \in DOMAIN msgs, DoneOf(f, msgs[k])
                   PROVE  \E j \in DOMAIN msgs' : msgs'[j] = msgs[k]
      OBVIOUS
    <3>2. k # 1
      BY <3>1 DEF Apart
    <3> QED BY <1>3, <3>2
  <2>5. \A k \in DOMAIN msgs' : DoneOf(f, msgs'[k]) => \E j \in DOMAIN msgs : msgs[j] = msgs'[k]
    BY <1>3
  <2>6. starts'[f.name] \in Nat /\ starts[f.name] <= starts'[f.name]
    BY <1>1, <2>1
  <2>7. /\ f.name \in spawning' <=> f.name \in spawning
        /\ \A c \in children : c.name = f.name => c \in children'
        /\ \A c \in children' : c.name = f.name => c \in children
        /\ \A i \in live' \ lost' : i.name = f.name => i \in live \ lost
        /\ heard \subseteq heard'
    BY <1>1, <1>4, <2>1
  <2> QED BY <1>1, <2>1, <2>2, <2>3, <2>4, <2>5, <2>6, <2>7, EntryKept
<1>5. \A k \in DOMAIN msgs' : ~DoneOf(e, msgs'[k])
  BY <1>3 DEF Apart
<1>6. ASSUME NEW g, Like(g, e), e.plan # << >>, g.plan = Tail(e.plan),
             \/ /\ e.name \in spawning' /\ tasks' = tk /\ Head(e.plan) = "start"
             \/ /\ e.name \notin spawning' /\ \E t \in tasks' : TaskOf(e, t)
                /\ \A t \in tasks' : TaskOf(e, t) =>
                     t.kind = Head(e.plan) /\ t.kind # "probe" /\ t.kind # "start"
                /\ Head(e.plan) = "build" => UNCHANGED children
      PROVE  EntryOK(g)'
  <2>1. /\ Starts(g) <=> Starts(e)
        /\ Last(g) = Last(e) /\ g.found = e.found /\ g.name = e.name
        /\ \A t : TaskOf(g, t) <=> TaskOf(e, t)
        /\ \A m : DoneOf(g, m) <=> DoneOf(e, m)
    BY <1>6 DEF Like, Starts, Last, TaskOf, DoneOf
  <2>2. /\ Tail(e.plan) # << >> => Starts(e)
        /\ Tail(e.plan) = << >> /\ Head(e.plan) # "start" => Head(e.plan) = Last(e)
        /\ Head(e.plan) = "start" => Starts(e)
    BY <1>6, DueShape DEF Apart
  <2>3. Moves(g)'
    BY <1>6, <2>1 DEF Moves
  <2>4. g.plan # << >> \/ g.name \in spawning' => Starts(g)
    BY <1>6, <2>1, <2>2
  <2>5. \A c \in g.found : c.gen <= starts'[g.name]
    BY <2>1 DEF Apart
  <2>6. ASSUME NEW t, t \in tasks', TaskOf(g, t) PROVE TaskTells(g, t)'
    <3>1. t.kind = Head(e.plan) /\ t.kind # "probe" /\ t.kind # "start"
      BY <1>6, <2>1, <2>6 DEF Apart
    <3>2. g.plan = << >> => t.kind = Last(g)
      BY <1>6, <2>1, <2>2, <3>1
    <3>3. t.kind = "build" => Kept(g)'
      BY <1>6, <2>1, <2>6, <3>1 DEF Apart, Kept
    <3> QED BY <3>1, <3>2, <3>3 DEF TaskTells, Last, Starts
  <2>7. \A k \in DOMAIN msgs' : ~DoneOf(g, msgs'[k])
    BY <1>5, <2>1
  <2> QED BY <2>3, <2>4, <2>5, <2>6, <2>7 DEF EntryOK, TaskOf, DoneOf, Starts
<1> SUFFICES /\ children' \subseteq children
             /\ \A f \in inflight' : EntryOK(f)'
  <2>1. children \subseteq Instance /\ \A c \in children : c.name \in Service
    BY DEF TypeOK, Instance
  <2> QED BY <1>2, <2>1 DEF KInv
<1>7. CASE inflight' = rest /\ tasks' = tk /\ UNCHANGED <<children, spawning>>
  BY <1>1, <1>4, <1>7
<1>8. ASSUME NEW g, Like(g, e), e.plan # << >>, g.plan = Tail(e.plan),
             inflight' = rest \cup {g}, Head(e.plan) = "build", UNCHANGED <<children, spawning>>,
             tasks' = tk \cup {[kind |-> "build", name |-> e.name, seq |-> e.seq]}
      PROVE  \A f \in inflight' : EntryOK(f)'
  <2> DEFINE b == [kind |-> "build", name |-> e.name, seq |-> e.seq]
  <2>1. tasks' = tk \cup {b} /\ b.kind = "build" /\ b.name = e.name /\ b.seq = e.seq
    BY <1>8
  <2> HIDE DEF b
  <2>2. TaskOf(e, b) /\ \A t \in tasks' : TaskOf(e, t) => t = b
    BY <2>1 DEF TaskOf, Apart
  <2>3. EntryOK(g)'
    BY <1>1, <1>6, <1>8, <2>1, <2>2
  <2> QED BY <1>1, <1>4, <1>8, <2>1, <2>3
<1>9. ASSUME NEW g, Like(g, e), e.plan # << >>, g.plan = Tail(e.plan),
             inflight' = rest \cup {g}, Head(e.plan) = "stop", UNCHANGED spawning,
             NEW c \in children, c.name = e.name, children' = children \ {c},
             tasks' = tk \cup {[kind |-> "stop", name |-> e.name, seq |-> e.seq, inst |-> c]}
      PROVE  children' \subseteq children /\ \A f \in inflight' : EntryOK(f)'
  <2> DEFINE b == [kind |-> "stop", name |-> e.name, seq |-> e.seq, inst |-> c]
  <2>1. tasks' = tk \cup {b} /\ b.kind = "stop" /\ b.name = e.name /\ b.seq = e.seq
    BY <1>9
  <2> HIDE DEF b
  <2>2. TaskOf(e, b) /\ \A t \in tasks' : TaskOf(e, t) => t = b
    BY <2>1 DEF TaskOf, Apart
  <2>3. EntryOK(g)'
    BY <1>1, <1>6, <1>9, <2>1, <2>2
  <2> QED BY <1>1, <1>4, <1>9, <2>1, <2>3
<1>10. ASSUME NEW g, Like(g, e), e.plan # << >>, g.plan = Tail(e.plan),
              inflight' = rest \cup {g}, Head(e.plan) = "start", UNCHANGED children,
              spawning' = {e.name}, tasks' = tk
       PROVE  \A f \in inflight' : EntryOK(f)'
  <2>1. EntryOK(g)'
    BY <1>6, <1>10
  <2> QED BY <1>1, <1>4, <1>10, <2>1
<1> QED BY <1>7, <1>8, <1>9, <1>10, MoveShape

LEMMA HandleTokens ==
  ASSUME DInv, DInv', KInv, Handle PROVE KInv'
<1> DEFINE m == Head(msgs)
<1>1. /\ AtSelect /\ msgs # << >> /\ msgs' = Tail(msgs) /\ pc = "steady" /\ spawning = {}
      /\ TypeOK /\ TypeOK' /\ Distinct /\ OneTokenPerSeq
      /\ inflight \subseteq Entry /\ tasks \subseteq Task /\ children \subseteq Instance
      /\ starts \in [Service -> Nat] /\ nextSeq \in Nat
  BY DEF Handle, AtSelect, DInv, IInv, TypeOK
<1>2. m \in Message /\ 1 \in DOMAIN msgs /\ m = msgs[1]
  BY <1>1, HeadType DEF TypeOK
<1>3. ASSUME UNCHANGED <<pc, spawning, children, inflight, tasks, live, lost, starts, heard>>,
             \A f \in inflight : ~DoneOf(f, m)
      PROVE  KInv'
  <2> SUFFICES ASSUME NEW f \in inflight PROVE EntryOK(f)'
    BY <1>1, <1>3 DEF KInv
  <2>1. EntryOK(f) /\ f \in Entry /\ f.name \in Service
    BY <1>1 DEF KInv, Entry
  <2>2. /\ \A k \in DOMAIN msgs' : k \in Nat /\ k + 1 \in DOMAIN msgs /\ msgs'[k] = msgs[k + 1]
        /\ \A j \in DOMAIN msgs : j # 1 =>
             j \in Nat /\ j - 1 \in DOMAIN msgs' /\ msgs'[j - 1] = msgs[j]
    BY <1>1 DEF TypeOK
  <2>3. \A k \in DOMAIN msgs : DoneOf(f, msgs[k]) => \E j \in DOMAIN msgs' : msgs'[j] = msgs[k]
    <3>1. SUFFICES ASSUME NEW k \in DOMAIN msgs, DoneOf(f, msgs[k])
                   PROVE  \E j \in DOMAIN msgs' : msgs'[j] = msgs[k]
      OBVIOUS
    <3>2. k # 1
      BY <1>2, <1>3, <3>1
    <3> QED BY <2>2, <3>2
  <2>4. \A k \in DOMAIN msgs' : DoneOf(f, msgs'[k]) => \E j \in DOMAIN msgs : msgs[j] = msgs'[k]
    BY <2>2
  <2>5. starts'[f.name] \in Nat /\ starts[f.name] <= starts'[f.name]
    BY <1>1, <1>3, <2>1
  <2> QED BY <1>1, <1>3, <2>1, <2>3, <2>4, <2>5, EntryKept
<1>4. CASE m.kind = "lifecycle" /\ Refuse(m)
  <2>1. UNCHANGED <<pc, spawning, children, inflight, tasks, live, lost, starts, heard>>
    BY <1>4 DEF Refuse, kernelVars, worldVars
  <2>2. \A f \in inflight : ~DoneOf(f, m)
    BY <1>4 DEF DoneOf
  <2> QED BY <1>3, <2>1, <2>2
<1>5. CASE m.kind = "lifecycle" /\ Accept(m)
  <2> DEFINE prev == Commands(m.cmd.name)
             rest == inflight \ prev
             tk == tasks \ Abort(prev)
  <2>1. m.req \in Request /\ m.cmd \in Command
    BY <1>2, <1>5 DEF Message, Completion
  <2>2. m.cmd.name \in Service /\ ~Pointless(m.cmd)
    BY <1>5 DEF Accept, Refusable
  <2>3. PICK probed \in BOOLEAN : Advance(NewCommand(m, probed), rest, tk, Supersede(prev))
    BY <1>5 DEF Accept
  <2>4. UNCHANGED <<pc, live, lost, starts, heard>>
    BY <1>5 DEF Accept, worldVars
  <2> DEFINE e == NewCommand(m, probed)
  <2>5. /\ e \in Entry /\ e.name = m.cmd.name /\ e.seq = nextSeq /\ e.cmd = m.cmd
        /\ e.plan = PlanOf(m.cmd) /\ e.found = {i \in children : i.name = m.cmd.name}
    BY <1>1, <2>1, <2>2, PlanType DEF NewCommand, Entry, TypeOK
  <2>6. Due(e)
    <3>1. m.cmd.verb \in {"stop", "start", "restart", "build"}
      BY <2>1 DEF Command
    <3> HIDE DEF m, e
    <3> QED BY <2>5, <3>1 DEF Due, Starts, PlanOf
  <2>7. Kept(e)
    BY <2>5 DEF Kept
  <2>8. /\ rest \subseteq inflight /\ \A f \in rest : f.name # e.name
        /\ tk \subseteq tasks /\ \A t \in tasks \ tk : t.name = e.name
    BY <2>5 DEF Commands, Abort
  <2>9. Advance(e, rest, tk, Supersede(prev))
    BY <2>3
  <2> HIDE DEF m, e, prev, rest, tk
  <2>10. /\ \A t \in tk : ~TaskOf(e, t)
         /\ \A k \in DOMAIN msgs : ~DoneOf(e, msgs[k])
    <3>1. /\ \A t \in tasks : t.seq # nextSeq
          /\ \A k \in DOMAIN msgs : IsCompletion(k) => msgs[k].seq # nextSeq
      BY <1>1 DEF OneTokenPerSeq
    <3> QED BY <2>5, <2>8, <3>1 DEF TaskOf, DoneOf, IsCompletion
  <2>11. \A f \in rest : ~DoneOf(f, msgs[1])
    BY <1>2, <1>5 DEF DoneOf
  <2>12. \A c \in e.found : c.gen <= starts[e.name]
    BY <1>1, <2>5 DEF KInv
  <2>13. Apart(e, rest, tk)
    BY <2>6, <2>7, <2>8, <2>10, <2>11, <2>12 DEF Apart
  <2> QED BY <1>1, <2>4, <2>5, <2>9, <2>13, MoveTokens
<1>6. CASE m.kind # "lifecycle" /\ Complete(m)
  <2>1. UNCHANGED <<pc, live, lost, starts, heard>>
    BY <1>6 DEF Complete, worldVars
  <2>2. CASE Current(m) = {} /\ UNCHANGED <<spawning, children, inflight, tasks, reply, rows>>
    <3>1. \A f \in inflight : ~DoneOf(f, m)
      BY <2>2 DEF Current, DoneOf
    <3> QED BY <1>3, <2>1, <2>2, <3>1
  <2>3. ASSUME NEW e \in Current(m),
               IF m.ok THEN Advance([e EXCEPT !.task = "none"], inflight \ {e}, tasks, reply)
               ELSE Settle(e, inflight \ {e}, tasks, reply, "failed")
        PROVE  KInv'
    <3> DEFINE rest == inflight \ {e}
    <3>1. e \in inflight /\ e \in Entry /\ e.seq = m.seq /\ e.name = m.name
      BY <1>1 DEF Current
    <3>2. PICK h \in Entry : /\ Like(h, e) /\ h.plan = e.plan
                             /\ \/ Advance(h, rest, tasks, reply)
                                \/ Settle(h, rest, tasks, reply, "failed")
      <4> DEFINE f == [e EXCEPT !.task = "none"]
      <4>1. Like(f, e) /\ Like(e, e) /\ f.plan = e.plan /\ f \in Entry
        BY <3>1 DEF Entry, Like
      <4>2. \/ Advance(f, rest, tasks, reply)
            \/ Settle(e, rest, tasks, reply, "failed")
        BY <2>3
      <4> HIDE DEF f, rest
      <4> QED BY <3>1, <4>1, <4>2
    <3> HIDE DEF m
    <3>3. rest \subseteq inflight /\ \A f \in rest : f.name # e.name
      BY <1>1, <3>1 DEF Distinct
    <3> HIDE DEF rest
    <3>4. /\ h.name = e.name /\ h.seq = e.seq /\ h.found = e.found /\ h.cmd = e.cmd
          /\ h.plan = e.plan
      BY <3>2 DEF Like
    <3>5. /\ \A t \in tasks : t.seq # e.seq
          /\ \A k \in DOMAIN msgs : IsCompletion(k) /\ k # 1 => msgs[k].seq # e.seq
      BY <1>1, <1>2, <1>6, <3>1 DEF OneTokenPerSeq, IsCompletion
    <3>6. EntryOK(e)
      BY <1>1, <3>1 DEF KInv
    <3>7. e.plan \in {<< >>, <<"start">>, <<"stop", "start">>}
      BY <1>1, <3>1 DEF Distinct
    <3>8. DoneTells(e, msgs[1])
      BY <1>2, <1>6, <3>1, <3>6 DEF EntryOK, DoneOf
    <3>9. Due(h) /\ (h.plan # << >> => Head(h.plan) # "build")
      <4>1. Head(<<"start">>) # "build" /\ Head(<<"stop", "start">>) # "build"
        OBVIOUS
      <4>2. e.cmd.verb \in {"stop", "start", "restart", "build"}
        BY <3>1 DEF Entry, Command
      <4> QED BY <3>4, <3>6, <3>7, <4>1, <4>2 DEF Due, Starts, EntryOK
    <3>10. /\ \A t \in tasks : ~TaskOf(h, t)
           /\ \A k \in DOMAIN msgs : k # 1 => ~DoneOf(h, msgs[k])
      BY <3>4, <3>5 DEF TaskOf, DoneOf, IsCompletion
    <3>11. \A f \in rest : ~DoneOf(f, msgs[1])
      BY <1>2, <3>1, <3>3 DEF DoneOf
    <3>12. \A c \in h.found : c.gen <= starts[h.name]
      BY <3>4, <3>6 DEF EntryOK
    <3>13. Apart(h, rest, tasks)
      BY <3>3, <3>4, <3>9, <3>10, <3>11, <3>12 DEF Apart
    <3> QED BY <1>1, <2>1, <3>2, <3>13, MoveTokens
  <2> QED BY <1>6, <2>2, <2>3 DEF Complete
<1> QED BY <1>4, <1>5, <1>6 DEF Handle, m

\* The instance a spawn leaves is a new one.
LEMMA SpawnTokens ==
  ASSUME DInv, DInv', RowsOK, KInv, SpawnSucceeds PROVE KInv'
<1>1. PICK e \in inflight : SpawnDone(e)
  BY DEF SpawnSucceeds
<1> DEFINE i == [name |-> e.name, gen |-> starts[e.name] + 1, probed |-> e.probed]
           p == [kind |-> "probe", name |-> e.name, seq |-> e.seq, inst |-> i,
                 verdict |-> "checking"]
           g == [e EXCEPT !.task = "probe", !.reply = e.reply /\ ~e.cmd.no_wait]
<1>2. /\ TypeOK /\ Distinct /\ pc = "steady" /\ starts \in [Service -> Nat]
      /\ children \subseteq Instance /\ inflight \subseteq Entry
      /\ \A c \in children : c.gen <= starts[c.name]
      /\ \A f \in inflight : EntryOK(f)
  BY <1>1 DEF SpawnDone, DInv, IInv, TypeOK, KInv
<1>3. /\ e \in Entry /\ e.name \in Service /\ i.name = e.name /\ i.gen = starts[e.name] + 1
      /\ p.kind = "probe" /\ p.name = e.name /\ p.seq = e.seq /\ p.inst = i
      /\ p.verdict # "passed"
      /\ g.name = e.name /\ g.seq = e.seq /\ g.plan = e.plan /\ g.cmd = e.cmd
      /\ g.found = e.found
  BY <1>2 DEF Entry
<1>4. /\ spawning' = {} /\ children' = children \cup {i} /\ live' = live \cup {i}
      /\ \/ tasks' = tasks \cup {p} /\ inflight' = (inflight \ {e}) \cup {g}
         \/ tasks' = tasks /\ inflight' = inflight \ {e}
      /\ starts' = [starts EXCEPT ![e.name] = @ + 1]
      /\ UNCHANGED <<msgs, heard, lost>>
  BY <1>1 DEF SpawnDone
<1>5. /\ e.name \in spawning /\ e.plan = << >> /\ \A r \in spawning : r = e.name
      /\ \A t \in tasks : t.seq # e.seq
      /\ \A k \in DOMAIN msgs : IsCompletion(k) => msgs[k].seq # e.seq
  BY <1>1, <1>2 DEF SpawnDone, DInv, IInv, Steadily, StartsOnNothing, RowsOK
<1> HIDE DEF i, p, g
<1>6. \A s \in Service : starts'[s] \in Nat /\ starts[s] <= starts'[s]
  BY <1>2, <1>3, <1>4
<1>7. \A c \in children' : c.gen <= starts'[c.name]
  <2>1. starts'[e.name] = starts[e.name] + 1
    BY <1>2, <1>3, <1>4
  <2>2. \A c \in children : c.gen \in Nat /\ c.name \in Service /\ starts[c.name] \in Nat
    BY <1>2 DEF Instance
  <2>3. i.gen <= starts'[i.name]
    BY <1>2, <1>3, <2>1
  <2>4. \A c \in children : c.gen <= starts'[c.name]
    BY <1>2, <1>6, <2>2
  <2> QED BY <1>4, <2>3, <2>4
<1>8. ASSUME NEW f \in inflight \ {e} PROVE EntryOK(f)'
  <2>1. f \in Entry /\ EntryOK(f) /\ f.name \in Service /\ f.name # e.name
    BY <1>2 DEF Entry, Distinct
  <2>2. \A t \in tasks' : TaskOf(f, t) => t \in tasks
    BY <1>3, <1>4, <2>1 DEF TaskOf
  <2>3. starts'[f.name] \in Nat /\ starts[f.name] <= starts'[f.name]
    BY <1>6, <2>1
  <2>4. /\ f.name \in spawning' <=> f.name \in spawning
        /\ \A t \in tasks : TaskOf(f, t) => t \in tasks'
        /\ \A c \in children : c.name = f.name => c \in children'
        /\ \A c \in children' : c.name = f.name => c \in children
        /\ \A j \in live' \ lost' : j.name = f.name => j \in live \ lost
    BY <1>3, <1>4, <1>5, <2>1
  <2>5. /\ \A k \in DOMAIN msgs : DoneOf(f, msgs[k]) => \E j \in DOMAIN msgs' : msgs'[j] = msgs[k]
        /\ \A k \in DOMAIN msgs' : DoneOf(f, msgs'[k]) => \E j \in DOMAIN msgs : msgs[j] = msgs'[k]
    BY <1>4
  <2> QED BY <1>2, <1>4, <2>1, <2>2, <2>3, <2>4, <2>5, EntryKept
<1>9. ASSUME NEW h, h = g, NEW q, q = p, NEW j, j = i, tasks' = tasks \cup {q}
      PROVE  EntryOK(h)'
  <2>0. /\ j.name = e.name /\ j.gen = starts[e.name] + 1 /\ j \in children'
        /\ q.kind = "probe" /\ q.name = e.name /\ q.seq = e.seq /\ q.inst = j
        /\ q.verdict # "passed"
        /\ h.name = e.name /\ h.seq = e.seq /\ h.plan = e.plan /\ h.cmd = e.cmd
        /\ h.found = e.found
    BY <1>3, <1>4, <1>9
  <2>1. EntryOK(e)
    BY <1>2
  <2>2. Starts(h)
    BY <1>5, <2>0, <2>1 DEF EntryOK, Starts
  <2>3. TaskOf(h, q) /\ \A t \in tasks' : TaskOf(h, t) => t = q
    BY <1>5, <1>9, <2>0 DEF TaskOf
  <2>4. \A k \in DOMAIN msgs' : ~DoneOf(h, msgs'[k])
    BY <1>4, <1>5, <2>0 DEF DoneOf, IsCompletion
  <2>5. \A c \in h.found : c.gen \in Nat /\ c.gen <= starts[e.name]
    BY <1>3, <2>0, <2>1 DEF EntryOK, Entry, Instance
  <2>6. \A c \in h.found : c.gen <= starts'[h.name]
    <3>1. starts[e.name] \in Nat /\ starts'[e.name] \in Nat /\ starts[e.name] <= starts'[e.name]
      BY <1>2, <1>3, <1>6
    <3> QED BY <2>0, <2>5, <3>1
  <2>7. j \notin h.found
    <3>1. starts[e.name] \in Nat
      BY <1>2, <1>3
    <3> QED BY <2>0, <2>5, <3>1
  <2>8. TaskTells(h, q)'
    BY <2>0, <2>2, <2>7 DEF TaskTells, Last, Starts
  <2>9. Moves(h)'
    BY <1>9, <2>3 DEF Moves, TaskOf
  <2> QED BY <2>2, <2>3, <2>4, <2>6, <2>8, <2>9 DEF EntryOK, TaskOf, DoneOf, Starts
<1> QED BY <1>4, <1>7, <1>8, <1>9 DEF KInv

LEMMA SpawnFailsTokens ==
  ASSUME DInv, RowsOK, KInv, SpawnFails PROVE KInv'
<1>1. PICK e \in inflight : /\ pc = "steady" /\ e.name \in spawning /\ spawning' = {}
                            /\ inflight' = inflight \ {e}
  BY DEF SpawnFails
<1>2. UNCHANGED <<pc, children, msgs, tasks, live, lost, starts, heard>>
  BY DEF SpawnFails, worldVars
<1>3. /\ TypeOK /\ Distinct /\ starts \in [Service -> Nat] /\ inflight \subseteq Entry
      /\ \A r \in spawning : r = e.name
      /\ \A f \in inflight : EntryOK(f)
  BY <1>1 DEF DInv, IInv, TypeOK, KInv, RowsOK
<1>4. ASSUME NEW f \in inflight \ {e} PROVE EntryOK(f)'
  <2>1. f \in Entry /\ EntryOK(f) /\ f.name \in Service /\ f.name # e.name
    BY <1>3 DEF Entry, Distinct
  <2>2. /\ f.name \in spawning' <=> f.name \in spawning
        /\ starts'[f.name] \in Nat /\ starts[f.name] <= starts'[f.name]
    BY <1>1, <1>2, <1>3, <2>1
  <2> QED BY <1>2, <1>3, <2>1, <2>2, EntryKept
<1> QED BY <1>1, <1>2, <1>4 DEF KInv

\* What a queue with one message more holds.
LEMMA AppendDone ==
  ASSUME TypeOK, NEW m, msgs' = Append(msgs, m)
  PROVE  /\ \A k \in DOMAIN msgs' : (k \in DOMAIN msgs /\ msgs'[k] = msgs[k]) \/ msgs'[k] = m
         /\ \A k \in DOMAIN msgs : k \in DOMAIN msgs' /\ msgs'[k] = msgs[k]
         /\ \E k \in DOMAIN msgs' : msgs'[k] = m
<1>1. msgs \in Seq(Message) /\ Len(msgs) \in Nat
  BY DEF TypeOK
<1>2. Len(msgs) + 1 \in DOMAIN msgs' /\ msgs'[Len(msgs) + 1] = m
  BY <1>1
<1>3. \A k \in DOMAIN msgs' : (k \in DOMAIN msgs /\ msgs'[k] = msgs[k]) \/ msgs'[k] = m
  BY <1>1
<1>4. \A k \in DOMAIN msgs : k \in DOMAIN msgs' /\ msgs'[k] = msgs[k]
  BY <1>1
<1> QED BY <1>2, <1>3, <1>4

\* A task that ends leaves the message that says what it knew.
LEMMA PostTokens ==
  ASSUME TypeOK, TypeOK', KInv, pc = "steady",
         UNCHANGED <<pc, spawning, children, inflight, live, starts, heard>>, lost \subseteq lost',
         NEW t \in tasks, tasks' = tasks \ {t}, NEW m, msgs' = Append(msgs, m),
         m.kind = t.kind, m.kind # "lifecycle", m.name = t.name, m.seq = t.seq,
         t.kind = "stop" => \A i \in live \ lost' : i.name # t.name,
         t.kind = "probe" /\ m.ok => t.verdict = "passed"
  PROVE  KInv'
<1> SUFFICES ASSUME NEW f \in inflight PROVE EntryOK(f)'
  BY DEF KInv
<1>1. /\ f \in Entry /\ EntryOK(f) /\ f.name \in Service /\ starts \in [Service -> Nat]
      /\ starts[f.name] \in Nat
  BY DEF KInv, TypeOK, Entry
<1>2. /\ \A k \in DOMAIN msgs' : (k \in DOMAIN msgs /\ msgs'[k] = msgs[k]) \/ msgs'[k] = m
      /\ \A k \in DOMAIN msgs : k \in DOMAIN msgs' /\ msgs'[k] = msgs[k]
      /\ \E k \in DOMAIN msgs' : msgs'[k] = m
  BY AppendDone
<1>3. CASE ~TaskOf(f, t)
  <2>1. ~DoneOf(f, m)
    BY <1>3 DEF TaskOf, DoneOf
  <2>2. \A u \in tasks : TaskOf(f, u) => u \in tasks'
    BY <1>3
  <2>3. \A k \in DOMAIN msgs : DoneOf(f, msgs[k]) => \E j \in DOMAIN msgs' : msgs'[j] = msgs[k]
    BY <1>2
  <2>4. \A k \in DOMAIN msgs' : DoneOf(f, msgs'[k]) => \E j \in DOMAIN msgs : msgs[j] = msgs'[k]
    BY <1>2, <2>1
  <2> QED BY <1>1, <2>2, <2>3, <2>4, EntryKept
<1>4. CASE TaskOf(f, t)
  <2>1. DoneOf(f, m) /\ TaskTells(f, t)
    BY <1>1, <1>4 DEF TaskOf, DoneOf, EntryOK
  <2>2. Moves(f)'
    BY <1>2, <2>1 DEF Moves, DoneOf
  <2>3. (Kept(f)' <=> Kept(f)) /\ \A c : Passed(c)' <=> Passed(c)
    BY DEF Kept, Passed
  <2>4. \A u \in tasks' : TaskOf(f, u) => TaskTells(f, u)'
    BY <1>1, <2>3 DEF EntryOK, TaskTells, Last, Starts
  <2>5. \A k \in DOMAIN msgs : DoneOf(f, msgs[k]) => DoneTells(f, msgs[k])
    BY <1>1 DEF EntryOK
  <2>6. /\ f.plan = << >> => m.kind = Last(f)
        /\ m.kind = "build" => Kept(f)
        /\ m.kind = "stop" => \A i \in live' \ lost' : i.name # f.name
        /\ m.kind = "probe" /\ m.ok =>
             \E c \in children : c \notin f.found /\ c.name = f.name /\ Passed(c)
    BY <1>4, <2>1 DEF TaskTells, TaskOf
  <2>7. ASSUME NEW k \in DOMAIN msgs', DoneOf(f, msgs'[k]) PROVE DoneTells(f, msgs[k])'
    <3>1. CASE msgs'[k] = m
      BY <2>3, <2>6, <3>1 DEF DoneTells, Last, Starts
    <3>2. CASE k \in DOMAIN msgs /\ msgs'[k] = msgs[k]
      <4>1. DoneTells(f, msgs'[k])
        BY <2>5, <2>7, <3>2
      <4> QED BY <2>3, <4>1 DEF DoneTells, Last, Starts
    <3> QED BY <1>2, <3>1, <3>2
  <2> QED BY <1>1, <2>2, <2>4, <2>7 DEF EntryOK, TaskOf, DoneOf, Starts
<1> QED BY <1>3, <1>4

LEMMA TasksTokens ==
  ASSUME DInv, DInv', KInv, NEW t \in tasks,
         BuildEnds(t) \/ StopEnds(t) \/ ProbeConcludes(t) \/ ProbeReports(t)
  PROVE  KInv'
<1> USE DEF kernelVars, worldVars
<1>1. /\ TypeOK /\ TypeOK' /\ t \in Task /\ UNCHANGED pc
      /\ UNCHANGED <<spawning, children, inflight, live, starts>>
  BY DEF DInv, IInv, TypeOK, BuildEnds, StopEnds, ProbeConcludes, ProbeReports
<1>2. CASE pc # "steady"
  BY <1>1, <1>2 DEF KInv
<1>3. CASE pc = "steady" /\ BuildEnds(t)
  <2>1. PICK ok \in BOOLEAN :
          msgs' = Append(msgs, [kind |-> "build", name |-> t.name, seq |-> t.seq, ok |-> ok])
    BY <1>3 DEF BuildEnds, Post
  <2> DEFINE m == [kind |-> "build", name |-> t.name, seq |-> t.seq, ok |-> ok]
  <2>2. /\ msgs' = Append(msgs, m) /\ m.kind = "build" /\ m.name = t.name /\ m.seq = t.seq
        /\ t.kind = "build" /\ tasks' = tasks \ {t} /\ UNCHANGED <<heard, lost>>
    BY <1>3, <2>1 DEF BuildEnds
  <2> HIDE DEF m
  <2> QED BY <1>1, <1>3, <2>2, PostTokens
<1>4. CASE pc = "steady" /\ StopEnds(t)
  <2> DEFINE m == [kind |-> "stop", name |-> t.name, seq |-> t.seq, ok |-> TRUE]
  <2>1. /\ msgs' = Append(msgs, m) /\ m.kind = "stop" /\ m.name = t.name /\ m.seq = t.seq
        /\ t.kind = "stop" /\ t.inst \notin live \ lost' /\ tasks' = tasks \ {t}
        /\ heard' = heard /\ lost \subseteq lost'
    BY <1>4 DEF StopEnds, LetGo, Post
  <2> HIDE DEF m
  <2>2. ASSUME NEW i \in live \ lost', i.name = t.name PROVE FALSE
    <3>1. LiveIsHeld /\ WorkBelongs /\ Distinct /\ OneTokenPerSeq
      BY <1>4 DEF DInv, IInv, Steadily
    <3>2. i \notin children
      BY <2>1, <2>2, <3>1 DEF LiveIsHeld, NoStop
    <3>3. PICK u \in tasks : u.kind = "stop" /\ u.inst = i
      BY <2>1, <2>2, <3>1, <3>2 DEF LiveIsHeld
    <3>4. u.name = t.name
      BY <2>2, <3>1, <3>3 DEF Distinct
    <3>5. u = t
      BY <2>1, <3>1, <3>3, <3>4 DEF WorkBelongs, Distinct, OneTokenPerSeq
    <3> QED BY <2>1, <3>3, <3>5
  <2> QED BY <1>1, <1>4, <2>1, <2>2, PostTokens
<1>5. CASE pc = "steady" /\ ProbeReports(t)
  <2> DEFINE m == [kind |-> "probe", name |-> t.name, seq |-> t.seq, ok |-> t.verdict = "passed"]
  <2>1. /\ msgs' = Append(msgs, m) /\ m.kind = "probe" /\ m.name = t.name /\ m.seq = t.seq
        /\ t.kind = "probe" /\ m.ok = (t.verdict = "passed")
        /\ tasks' = tasks \ {t} /\ UNCHANGED <<heard, lost>>
    BY <1>5 DEF ProbeReports, Post
  <2> HIDE DEF m
  <2> QED BY <1>1, <1>5, <2>1, PostTokens
<1>6. CASE pc = "steady" /\ ProbeConcludes(t)
  <2>1. PICK v \in {"passed", "gave_up"} :
          /\ tasks' = (tasks \ {t}) \cup {[t EXCEPT !.verdict = v]}
          /\ heard' = heard \cup {[inst |-> t.inst, verdict |-> v]}
    BY <1>6 DEF ProbeConcludes
  <2>2. t \in [kind: {"probe"}, name: Service, seq: Nat, inst: Instance,
               verdict: {"checking", "passed", "gave_up"}]
    BY <1>1, <1>6 DEF ProbeConcludes, Task
  <2> DEFINE u == [t EXCEPT !.verdict = v]
  <2>3. /\ u.kind = "probe" /\ u.name = t.name /\ u.seq = t.seq /\ u.inst = t.inst
        /\ u.verdict = v /\ t.kind = "probe" /\ tasks' = (tasks \ {t}) \cup {u}
    BY <2>1, <2>2
  <2> HIDE DEF u
  <2>4. PICK w : w = u
    OBVIOUS
  <2>5. UNCHANGED <<msgs, lost>>
    BY <1>6 DEF ProbeConcludes
  <2> SUFFICES ASSUME NEW f \in inflight PROVE EntryOK(f)'
    BY <1>1, <1>6 DEF KInv
  <2>6. EntryOK(f)
    BY <1>6 DEF KInv
  <2>7. Moves(f)'
    BY <1>1, <2>3, <2>5, <2>6 DEF EntryOK, Moves, TaskOf, DoneOf
  <2>8. (Kept(f)' <=> Kept(f)) /\ \A c : Passed(c) => Passed(c)'
    BY <1>1, <2>1 DEF Kept, Passed
  <2>9. ASSUME TaskOf(f, w) PROVE TaskTells(f, w)'
    <3>1. TaskTells(f, t)
      BY <2>3, <2>4, <2>6, <2>9 DEF EntryOK, TaskOf
    <3>2. v = "passed" => Passed(w.inst)'
      BY <2>1, <2>3, <2>4 DEF Passed
    <3> QED BY <1>1, <2>3, <2>4, <3>1, <3>2 DEF TaskTells, Last, Starts
  <2>10. \A x \in tasks : TaskOf(f, x) => TaskTells(f, x)'
    BY <1>1, <2>6, <2>8 DEF EntryOK, TaskTells, Last, Starts
  <2>11. \A k \in DOMAIN msgs : DoneOf(f, msgs[k]) => DoneTells(f, msgs[k])'
    BY <1>1, <2>5, <2>6, <2>8 DEF EntryOK, DoneTells, Last, Starts
  <2>12. \A x \in tasks' : TaskOf(f, x) => TaskTells(f, x)'
    BY <2>3, <2>4, <2>9, <2>10
  <2> QED BY <1>1, <2>5, <2>6, <2>7, <2>11, <2>12 DEF EntryOK, TaskOf, DoneOf, Starts
<1> QED BY <1>2, <1>3, <1>4, <1>5, <1>6

\* Nothing a command waits for has changed.
LEMMA StillTokens ==
  ASSUME TypeOK, TypeOK', KInv, UNCHANGED <<pc, spawning, children, inflight, tasks, starts, heard>>,
         live' \ lost' \subseteq live \ lost,
         \/ msgs' = msgs
         \/ \E m : msgs' = Append(msgs, m) /\ m.kind = "lifecycle"
  PROVE  KInv'
<1> SUFFICES ASSUME pc = "steady", NEW f \in inflight PROVE EntryOK(f)'
  BY DEF KInv
<1>1. /\ f \in Entry /\ EntryOK(f) /\ f.name \in Service /\ starts \in [Service -> Nat]
      /\ starts[f.name] \in Nat
  BY DEF KInv, TypeOK, Entry
<1>2. /\ \A k \in DOMAIN msgs : DoneOf(f, msgs[k]) => \E j \in DOMAIN msgs' : msgs'[j] = msgs[k]
      /\ \A k \in DOMAIN msgs' : DoneOf(f, msgs'[k]) => \E j \in DOMAIN msgs : msgs[j] = msgs'[k]
  <2>1. CASE msgs' = msgs
    BY <2>1
  <2>2. ASSUME NEW m, msgs' = Append(msgs, m), m.kind = "lifecycle"
        PROVE  /\ \A k \in DOMAIN msgs : \E j \in DOMAIN msgs' : msgs'[j] = msgs[k]
               /\ \A k \in DOMAIN msgs' : DoneOf(f, msgs'[k]) =>
                    \E j \in DOMAIN msgs : msgs[j] = msgs'[k]
    BY <2>2, AppendDone DEF DoneOf
  <2> QED BY <2>1, <2>2
<1> QED BY <1>1, <1>2, EntryKept

LEMMA InitTokens == Init => KInv
<1> SUFFICES ASSUME Init PROVE KInv
  OBVIOUS
<1>1. inflight = {} /\ \A c \in children : c.gen = 1 /\ c.name \in Service
  BY DEF Init
<1>2. \A c \in children : c.gen <= starts[c.name]
  BY <1>1 DEF Init
<1> QED BY <1>1, <1>2 DEF KInv

LEMMA StepTokens == DInv /\ DInv' /\ RowsOK /\ KInv /\ [Next]_vars => KInv'
<1> SUFFICES ASSUME DInv, DInv', RowsOK, KInv, [Next]_vars PROVE KInv'
  OBVIOUS
<1>1. CASE Handle
  BY <1>1, HandleTokens
<1>2. CASE SpawnSucceeds
  BY <1>2, SpawnTokens
<1>3. CASE SpawnFails
  BY <1>3, SpawnFailsTokens
<1>4. CASE \/ SeeShutdown \/ ChildExits \/ WaitFails \/ SettleCommand \/ BeginTeardown
           \/ BeginWave \/ FinishStop \/ Exit
  <2>1. pc' # "steady"
    BY <1>4 DEF SeeShutdown, ChildExits, WaitFails, ChildGone, SettleCommand, BeginTeardown,
                BeginWave, FinishStop, Exit
  <2> QED BY <2>1 DEF KInv
<1>5. CASE \E t \in tasks : BuildEnds(t) \/ StopEnds(t) \/ ProbeConcludes(t) \/ ProbeReports(t)
  BY <1>5, TasksTokens
<1>6. CASE \/ \E i \in live : Dies(i)
           \/ \E r \in Request, c \in Command : Ask(r, c)
           \/ Down \/ Terminated \/ UNCHANGED vars
  <2>1. /\ UNCHANGED <<pc, spawning, children, inflight, tasks, starts, heard>>
        /\ live' \ lost' \subseteq live \ lost
    BY <1>6 DEF Dies, Ask, Down, Terminated, vars, kernelVars, worldVars
  <2>2. \/ msgs' = msgs
        \/ \E r \in Request, c \in Command :
             msgs' = Append(msgs, [kind |-> "lifecycle", req |-> r, cmd |-> c])
    BY <1>6 DEF Dies, Ask, Down, Terminated, vars
  <2>3. \/ msgs' = msgs
        \/ \E m : msgs' = Append(msgs, m) /\ m.kind = "lifecycle"
    <3>1. ASSUME NEW r \in Request, NEW c \in Command,
                 msgs' = Append(msgs, [kind |-> "lifecycle", req |-> r, cmd |-> c])
          PROVE  \E m : msgs' = Append(msgs, m) /\ m.kind = "lifecycle"
      <4> DEFINE m == [kind |-> "lifecycle", req |-> r, cmd |-> c]
      <4>1. msgs' = Append(msgs, m) /\ m.kind = "lifecycle"
        BY <3>1
      <4> HIDE DEF m
      <4> QED BY <4>1
    <3> QED BY <2>2, <3>1
  <2> QED BY <2>1, <2>3, StillTokens DEF DInv, IInv
<1> QED BY <1>1, <1>2, <1>3, <1>4, <1>5, <1>6 DEF Next, Kernel

CInv == DInv /\ RowsOK /\ HInv /\ KInv

LEMMA CommandsInvariant == Spec => []CInv
<1>1. Init => CInv
  BY InitDown, InitRows, InitHeld, InitTokens DEF CInv
<1>2. CInv /\ [Next]_vars => CInv'
  BY StepDown, StepRows, StepHeld, StepTokens DEF CInv
<1> QED BY <1>1, <1>2, PTL DEF Spec

\* Whatever is superseded, fails or ends late, a command in flight has exactly
\* one thing that will move it on: a task, or the completion it left, or the
\* spawn the kernel awaits.
THEOREM NeverStrandedAlways == Spec => []NeverStranded
<1>1. CInv => NeverStranded
  <2> SUFFICES ASSUME CInv, pc = "steady", NEW e \in inflight
               PROVE  Cardinality({t \in tasks : t.name = e.name /\ t.seq = e.seq})
                        + Cardinality({k \in DOMAIN msgs : /\ msgs[k].kind # "lifecycle"
                                                           /\ msgs[k].name = e.name
                                                           /\ msgs[k].seq = e.seq})
                        = IF e.name \in spawning THEN 0 ELSE 1
    BY DEF NeverStranded
  <2> DEFINE T == {t \in tasks : t.name = e.name /\ t.seq = e.seq}
             M == {k \in DOMAIN msgs : /\ msgs[k].kind # "lifecycle"
                                       /\ msgs[k].name = e.name /\ msgs[k].seq = e.seq}
  <2>1. OneTokenPerSeq /\ StartsOnNothing /\ Moves(e)
    BY DEF CInv, DInv, IInv, Steadily, KInv, EntryOK
  <2>2. /\ \A x, y \in T : x = y
        /\ \A x, y \in M : x = y
        /\ T = {} \/ M = {}
    BY <2>1 DEF OneTokenPerSeq, IsCompletion
  <2>3. (e.name \in spawning) <=> (T = {} /\ M = {})
    BY <2>1 DEF StartsOnNothing, IsCompletion, Moves, TaskOf, DoneOf
  <2>4. Cardinality(T) + Cardinality(M) = IF T = {} /\ M = {} THEN 0 ELSE 1
    <3> HIDE DEF T, M
    <3> QED BY <2>2, OneInAll
  <2> QED BY <2>3, <2>4
<1> QED BY <1>1, CommandsInvariant, PTL

\* The command that fails on its build leaves the instances it found, in a
\* stack of any size and whatever else its clients are doing.
THEOREM FailedBuildKeepsServiceEver == Spec => FailedBuildKeepsService
<1>1. CInv /\ [Next]_vars =>
        [\A e \in inflight :
           /\ msgs # <<>> /\ msgs' = Tail(msgs)
           /\ Head(msgs) = [kind |-> "build", name |-> e.name, seq |-> e.seq, ok |-> FALSE]
           => {c \in children' : c.name = e.name} = e.found]_vars
  <2> SUFFICES ASSUME CInv, Next, NEW e \in inflight, msgs # <<>>, msgs' = Tail(msgs),
                      Head(msgs) = [kind |-> "build", name |-> e.name, seq |-> e.seq, ok |-> FALSE]
               PROVE  {c \in children' : c.name = e.name} = e.found
    OBVIOUS
  <2> DEFINE m == Head(msgs)
  <2>1. /\ m.kind = "build" /\ m.name = e.name /\ m.seq = e.seq /\ ~m.ok
        /\ TypeOK /\ Distinct /\ msgs \in Seq(Message) /\ Len(msgs) \in Nat /\ Len(msgs) # 0
        /\ 1 \in DOMAIN msgs /\ m = msgs[1]
    BY DEF CInv, DInv, IInv, TypeOK
  <2>2. /\ msgs' # msgs
        /\ \A x : msgs' # Append(msgs, x)
    BY <2>1
  <2> HIDE DEF m
  <2>3. ~Exit
    BY DEF Exit, CInv, DInv, Stages
  <2>4. Handle
    BY <2>2, <2>3 DEF Next, Kernel, SpawnSucceeds, SpawnDone, SpawnFails, SeeShutdown, ChildExits,
       WaitFails, ChildGone, SettleCommand, BeginTeardown, BeginWave, FinishStop, BuildEnds,
       StopEnds, ProbeConcludes, ProbeReports, Post, Dies, Ask, Down, Terminated, vars
  <2>5. Complete(m) /\ pc = "steady"
    BY <2>1, <2>4 DEF Handle, AtSelect, m
  <2>6. \A f \in Current(m) : f = e
    BY <2>1 DEF Current, Distinct
  <2>7. e \in Current(m)
    BY <2>1 DEF Current
  <2>8. children' = children
    BY <2>1, <2>5, <2>6, <2>7 DEF Complete, Settle
  <2>9. DoneOf(e, msgs[1]) /\ msgs[1].kind = "build"
    BY <2>1 DEF DoneOf
  <2>10. Kept(e)
    BY <2>1, <2>5, <2>9 DEF CInv, KInv, EntryOK, DoneTells
  <2> QED BY <2>8, <2>10 DEF Kept
<1> QED BY <1>1, CommandsInvariant, PTL DEF Spec, FailedBuildKeepsService

\* A command whose client hears "ok" is the one the kernel has just finished.
LEMMA OkComesFrom ==
  ASSUME CInv, Next, NEW e \in inflight, reply[e.req] = "waiting", reply'[e.req] = "ok"
  PROVE  \/ SpawnDone(e) /\ (e.probed => e.cmd.no_wait)
         \/ /\ pc = "steady" /\ msgs # << >> /\ DoneOf(e, Head(msgs)) /\ Head(msgs).ok
            /\ e.plan = << >> /\ UNCHANGED <<live, lost, children>>
<1>1. /\ TypeOK /\ Distinct /\ HeldOnce /\ e \in Entry /\ e.req \in Request
      /\ reply \in [Request -> Replies] /\ inflight \subseteq Entry
  BY DEF CInv, DInv, IInv, HInv, TypeOK, Entry
<1>2. ASSUME NEW f, NEW rp, NEW result \in Replies, reply' = Answer(rp, f, result),
             result # "ok" \/ f.req # e.req
      PROVE  rp[e.req] = "ok"
  BY <1>1, <1>2 DEF Answer
<1>3. \A f \in inflight : f.req = e.req => f = e
  BY <1>1 DEF HeldOnce
<1>4. CASE Handle
  <2> DEFINE m == Head(msgs)
  <2>1. pc = "steady" /\ msgs # << >> /\ m \in Message
    BY <1>1, <1>4, HeadType DEF Handle, AtSelect
  <2>2. ~Refuse(m)
    BY <1>1 DEF Refuse
  <2>3. ASSUME m.kind = "lifecycle", Accept(m) PROVE FALSE
    <3> DEFINE prev == Commands(m.cmd.name)
               rp == Supersede(prev)
    <3>1. m.req \in Request /\ m.cmd \in Command /\ m.cmd.name \in Service
      BY <2>1, <2>3 DEF Message, Completion, Accept, Refusable
    <3>2. PICK probed \in BOOLEAN :
            Advance(NewCommand(m, probed), inflight \ prev, tasks \ Abort(prev), rp)
      BY <2>3 DEF Accept
    <3> DEFINE n == NewCommand(m, probed)
    <3>3. n \in Entry /\ n.plan = PlanOf(m.cmd)
      BY <1>1, <3>1, PlanType DEF NewCommand, Entry, TypeOK
    <3>4. rp[e.req] # "ok"
      BY <1>1 DEF Supersede
    <3>5. PlanOf(m.cmd) # << >>
      <4>1. /\ <<"stop">> # << >> /\ <<"start">> # << >> /\ <<"build">> # << >>
            /\ <<"stop", "start">> # << >> /\ <<"build", "start">> # << >>
            /\ <<"build", "stop", "start">> # << >>
        OBVIOUS
      <4> HIDE DEF m
      <4> QED BY <3>1, <4>1, PlanOfCases
    <3>6. Advance(n, inflight \ prev, tasks \ Abort(prev), rp)
      BY <3>2
    <3> HIDE DEF n, prev, rp
    <3>7. reply' = rp \/ reply' = Answer(rp, n, "failed")
      BY <3>3, <3>5, <3>6, MoveShape
    <3> QED BY <1>2, <3>4, <3>7 DEF Replies
  <2>4. ASSUME m.kind # "lifecycle", Complete(m)
        PROVE  DoneOf(e, m) /\ m.ok /\ e.plan = << >> /\ UNCHANGED <<live, lost, children>>
    <3>1. PICK f \in Current(m) :
            IF m.ok THEN Advance([f EXCEPT !.task = "none"], inflight \ {f}, tasks, reply)
            ELSE Settle(f, inflight \ {f}, tasks, reply, "failed")
      BY <2>4 DEF Complete
    <3>2. f \in inflight /\ f \in Entry /\ f.name = m.name /\ f.seq = m.seq
      BY <1>1 DEF Current
    <3> DEFINE h == [f EXCEPT !.task = "none"]
    <3>3. h \in Entry /\ h.req = f.req /\ h.plan = f.plan
      BY <3>2 DEF Entry
    <3>4. m.ok
      BY <1>1, <1>2, <3>1 DEF Settle, Replies
    <3>5. Advance(h, inflight \ {f}, tasks, reply)
      BY <3>1, <3>4
    <3> HIDE DEF h, m
    <3>6. /\ reply' = Answer(reply, h, "ok") /\ h.plan = << >> /\ UNCHANGED children
      <4>1. \/ reply' = reply
            \/ reply' = Answer(reply, h, "failed")
            \/ reply' = Answer(reply, h, "ok") /\ h.plan = << >> /\ UNCHANGED children
        BY <3>3, <3>5, MoveShape
      <4> QED BY <1>2, <4>1 DEF Replies
    <3>7. f = e
      BY <1>2, <1>3, <3>2, <3>3, <3>6 DEF Replies
    <3> QED BY <2>4, <3>2, <3>3, <3>4, <3>6, <3>7 DEF DoneOf, Complete, worldVars
  <2> QED BY <1>4, <2>1, <2>2, <2>3, <2>4 DEF Handle
<1>5. CASE SpawnSucceeds
  <2>1. PICK f \in inflight : SpawnDone(f)
    BY <1>5 DEF SpawnSucceeds
  <2>2. reply' = Answer(reply, f, "ok") /\ (f.probed => f.cmd.no_wait)
    BY <2>1 DEF SpawnDone
  <2>3. f = e
    BY <1>2, <1>3, <2>2 DEF Replies
  <2> QED BY <2>1, <2>2, <2>3
<1>6. CASE SpawnFails \/ SettleCommand
  BY <1>2, <1>6 DEF SpawnFails, SettleCommand, Replies
<1>7. CASE Exit
  BY <1>1, <1>7 DEF Exit
<1>8. CASE \E r \in Request, c \in Command : Ask(r, c)
  BY <1>1, <1>8 DEF Ask
<1>9. CASE UNCHANGED reply
  BY <1>9
<1> QED BY <1>4, <1>5, <1>6, <1>7, <1>8, <1>9 DEF Next, Kernel, SeeShutdown, ChildExits, WaitFails,
  ChildGone, BeginTeardown, BeginWave, FinishStop, BuildEnds, StopEnds, ProbeConcludes,
  ProbeReports, Dies, Down, Terminated, vars

\* An "ok" is true when it is sent: what the client asked for has come about,
\* by the work of its own command and not of one before it.
THEOREM AnswersAreTrueEver == Spec => AnswersAreTrue
<1> DEFINE A ==
      \A e \in inflight :
        reply[e.req] = "waiting" /\ reply'[e.req] = "ok" =>
          CASE e.cmd.verb = "stop"  -> \A i \in live' \ lost' : i.name # e.name
            [] e.cmd.verb = "build" -> Head(msgs) = [kind |-> "build", name |-> e.name,
                                                     seq |-> e.seq, ok |-> TRUE]
            [] OTHER -> \E c \in children' \ e.found :
                          /\ c.name = e.name
                          /\ c.probed /\ ~e.cmd.no_wait =>
                               [inst |-> c, verdict |-> "passed"] \in heard
<1>1. CInv /\ [Next]_vars => [A]_vars
  <2> SUFFICES ASSUME CInv, Next, NEW e \in inflight,
                      reply[e.req] = "waiting", reply'[e.req] = "ok"
               PROVE  /\ e.cmd.verb = "stop" => \A i \in live' \ lost' : i.name # e.name
                      /\ e.cmd.verb = "build" =>
                           Head(msgs) = [kind |-> "build", name |-> e.name,
                                         seq |-> e.seq, ok |-> TRUE]
                      /\ e.cmd.verb \notin {"stop", "build"} =>
                           \E c \in children' \ e.found :
                             /\ c.name = e.name
                             /\ c.probed /\ ~e.cmd.no_wait =>
                                  [inst |-> c, verdict |-> "passed"] \in heard
    OBVIOUS
  <2>1. /\ TypeOK /\ e \in Entry /\ e.name \in Service /\ e.probed \in BOOLEAN
        /\ e.cmd.verb \in {"stop", "start", "restart", "build"}
        /\ msgs \in Seq(Message) /\ starts \in [Service -> Nat]
    BY DEF CInv, DInv, IInv, TypeOK, Entry, Command
  <2>2. CASE SpawnDone(e) /\ (e.probed => e.cmd.no_wait)
    <3> DEFINE i == [name |-> e.name, gen |-> starts[e.name] + 1, probed |-> e.probed]
    <3>1. /\ pc = "steady" /\ e.name \in spawning /\ i \in children' /\ i.name = e.name
          /\ i.probed = e.probed /\ i.gen = starts[e.name] + 1
      BY <2>2 DEF SpawnDone
    <3> HIDE DEF i
    <3>2. EntryOK(e)
      BY <3>1 DEF CInv, KInv
    <3>3. Starts(e) /\ \A c \in e.found : c.gen \in Nat /\ c.gen <= starts[e.name]
      BY <2>1, <3>1, <3>2 DEF EntryOK, Entry, Instance
    <3>4. i \notin e.found
      <4>1. starts[e.name] \in Nat
        BY <2>1
      <4> QED BY <3>1, <3>3, <4>1
    <3> QED BY <2>2, <3>1, <3>3, <3>4 DEF Starts
  <2>3. CASE /\ pc = "steady" /\ msgs # << >> /\ DoneOf(e, Head(msgs)) /\ Head(msgs).ok
             /\ e.plan = << >> /\ UNCHANGED <<live, lost, children>>
    <3> DEFINE m == Head(msgs)
    <3>1. 1 \in DOMAIN msgs /\ m = msgs[1] /\ m \in Message
      BY <2>1, <2>3
    <3>2. DoneTells(e, m)
      BY <2>3, <3>1 DEF CInv, KInv, EntryOK
    <3>3. m \in Completion /\ m.name = e.name /\ m.seq = e.seq /\ m.ok = TRUE
      BY <2>3, <3>1 DEF DoneOf, Message, Completion
    <3>4. m = [kind |-> m.kind, name |-> e.name, seq |-> e.seq, ok |-> TRUE]
      BY <3>3 DEF Completion
    <3> HIDE DEF m
    <3>5. m.kind = Last(e)
      BY <2>3, <3>2 DEF DoneTells
    <3>6. CASE e.cmd.verb = "stop"
      BY <2>3, <3>2, <3>5, <3>6 DEF DoneTells, Last, Starts
    <3>7. CASE e.cmd.verb = "build"
      BY <3>4, <3>5, <3>7 DEF Last, Starts, m
    <3>8. CASE Starts(e)
      BY <2>3, <3>2, <3>3, <3>5, <3>8 DEF DoneTells, Last, Passed, Starts
    <3> QED BY <2>1, <3>6, <3>7, <3>8 DEF Starts
  <2> QED BY <2>2, <2>3, OkComesFrom
<1> QED BY <1>1, CommandsInvariant, PTL DEF Spec, AnswersAreTrue

----------------------------------------------------------------------------
(* The promise                                                             *)
(*                                                                         *)
(* Each step of the kernel, of a task or of an instance is a step of       *)
(* Supervision on the one service it is about, or changes nothing that     *)
(* Supervision speaks of.                                                  *)

\* Every service has run, so that the end of its build is no first start.
AllRan == \A s \in Service : Tracked(rows, s) /\ rows[s].ran

\* A service whose instance is being stopped has no other, and a new instance
\* is none that was there before.
StopApart ==
  /\ \A t \in tasks : t.kind = "stop" => \A c \in children : c.name # t.name
  /\ \A i \in live \cup lost : i.gen <= starts[i.name]

PInv == DInv /\ RowsOK /\ AllRan /\ StopApart

Line == [state: RowState, desired: {"up", "stopped"}, restarts: Nat]

\* What Supervision sees of a service.
LEMMA Sight ==
  ASSUME TypeOK
  PROVE  /\ Shown \in [Service -> Line]
         /\ \A s \in Service :
              /\ Shown[s].state = rows[s].state /\ Shown[s].desired = rows[s].desired
              /\ Shown[s].restarts = rows[s].restarts
              /\ s \in Held <=> Running(s)
              /\ s \in Alive <=> \E i \in live \ lost : i.name = s
         /\ Held \subseteq Service /\ Alive \subseteq Service
<1>1. \A s \in Service : rows[s] \in Row
  BY DEF TypeOK
<1>2. Shown \in [Service -> Line]
  BY <1>1 DEF Shown, Line, Row
<1>3. \A s \in Service : /\ Shown[s].state = rows[s].state /\ Shown[s].desired = rows[s].desired
                         /\ Shown[s].restarts = rows[s].restarts
  BY DEF Shown
<1>4. /\ \A s : (s \in Held <=> Running(s)) /\ (s \in Alive <=> \E i \in live \ lost : i.name = s)
      /\ Held \subseteq Service /\ Alive \subseteq Service
  BY DEF Held, Alive, Running, TypeOK, Instance
<1> QED BY <1>2, <1>3, <1>4

LEMMA SightNext ==
  ASSUME TypeOK'
  PROVE  /\ Shown' \in [Service -> Line]
         /\ \A s \in Service :
              /\ Shown'[s].state = rows'[s].state /\ Shown'[s].desired = rows'[s].desired
              /\ Shown'[s].restarts = rows'[s].restarts
              /\ s \in Held' <=> Running(s)'
              /\ s \in Alive' <=> \E i \in live' \ lost' : i.name = s
         /\ Held' \subseteq Service /\ Alive' \subseteq Service
<1>1. \A s \in Service : rows'[s] \in Row
  BY DEF TypeOK
<1>2. Shown' \in [Service -> Line]
  BY <1>1 DEF Shown, Line, Row
<1>3. \A s \in Service : /\ Shown'[s].state = rows'[s].state /\ Shown'[s].desired = rows'[s].desired
                         /\ Shown'[s].restarts = rows'[s].restarts
  BY DEF Shown
<1>4. /\ \A s : (s \in Held' <=> Running(s)') /\ (s \in Alive' <=> \E i \in live' \ lost' : i.name = s)
      /\ Held' \subseteq Service /\ Alive' \subseteq Service
  BY DEF Held, Alive, Running, TypeOK, Instance
<1> QED BY <1>2, <1>3, <1>4

\* What becomes of what Supervision sees, from what one row does.
LEMMA ShownChanges ==
  ASSUME TypeOK, TypeOK', NEW s \in Service, \A t \in Service : t # s => rows'[t] = rows[t]
  PROVE  /\ rows'[s].desired = rows[s].desired /\ rows'[s].restarts = rows[s].restarts =>
              \A x \in RowState : rows'[s].state = x => Shown' = [Shown EXCEPT ![s].state = x]
         /\ rows'[s].restarts = rows[s].restarts =>
              \A x \in RowState, y \in {"up", "stopped"} :
                rows'[s].state = x /\ rows'[s].desired = y =>
                  Shown' = [Shown EXCEPT ![s].state = x, ![s].desired = y]
         /\ rows'[s].restarts = rows[s].restarts + 1 =>
              \A x \in RowState, y \in {"up", "stopped"} :
                rows'[s].state = x /\ rows'[s].desired = y =>
                  Shown' = [Shown EXCEPT ![s].state = x, ![s].desired = y, ![s].restarts = @ + 1]
         /\ rows'[s].state = rows[s].state /\ rows'[s].desired = rows[s].desired
            /\ rows'[s].restarts = rows[s].restarts => Shown' = Shown
<1>1. \A t \in Service : t # s => Shown'[t] = Shown[t]
  BY DEF Shown
<1>2. rows'[s].state = rows[s].state /\ rows'[s].desired = rows[s].desired
      /\ rows'[s].restarts = rows[s].restarts => Shown' = Shown
  BY DEF Shown
<1> HIDE DEF Shown
<1>3. Shown \in [Service -> Line] /\ Shown' \in [Service -> Line]
      /\ Shown'[s].state = rows'[s].state /\ Shown'[s].desired = rows'[s].desired
      /\ Shown'[s].restarts = rows'[s].restarts
      /\ Shown[s].desired = rows[s].desired /\ Shown[s].restarts = rows[s].restarts
  BY Sight, SightNext
<1>4. /\ Shown'[s] \in Line /\ Shown[s] \in Line
      /\ Shown[s].restarts \in Nat /\ Shown[s].restarts + 1 \in Nat
  BY <1>3 DEF Line
<1>5. ASSUME rows'[s].desired = rows[s].desired, rows'[s].restarts = rows[s].restarts,
             NEW x \in RowState, rows'[s].state = x
      PROVE  Shown' = [Shown EXCEPT ![s].state = x]
  <2>1. [Shown[s] EXCEPT !.state = x] \in Line
    BY <1>4 DEF Line
  <2>2. Shown'[s] = [Shown[s] EXCEPT !.state = x]
    BY <1>3, <1>4, <1>5, <2>1 DEF Line
  <2> QED BY <1>1, <1>3, <2>2
<1>6. ASSUME rows'[s].restarts = rows[s].restarts, NEW x \in RowState, NEW y \in {"up", "stopped"},
             rows'[s].state = x, rows'[s].desired = y
      PROVE  Shown' = [Shown EXCEPT ![s].state = x, ![s].desired = y]
  <2>1. [Shown[s] EXCEPT !.state = x, !.desired = y] \in Line
    BY <1>4 DEF Line
  <2>2. Shown'[s] = [Shown[s] EXCEPT !.state = x, !.desired = y]
    BY <1>3, <1>4, <1>6, <2>1 DEF Line
  <2> QED BY <1>1, <1>3, <2>2
<1>7. ASSUME rows'[s].restarts = rows[s].restarts + 1, NEW x \in RowState,
             NEW y \in {"up", "stopped"}, rows'[s].state = x, rows'[s].desired = y
      PROVE  Shown' = [Shown EXCEPT ![s].state = x, ![s].desired = y, ![s].restarts = @ + 1]
  <2>1. [Shown[s] EXCEPT !.state = x, !.desired = y, !.restarts = @ + 1] \in Line
    BY <1>4 DEF Line
  <2>2. Shown'[s] = [Shown[s] EXCEPT !.state = x, !.desired = y, !.restarts = @ + 1]
    BY <1>3, <1>4, <1>7, <2>1 DEF Line
  <2> QED BY <1>1, <1>3, <2>2
<1> QED BY <1>2, <1>5, <1>6, <1>7

\* What is being done with a service, from what there is of it.
LEMMA WorkOf ==
  ASSUME NEW s \in Service
  PROVE  /\ ~Busy("build", s) /\ ~Busy("stop", s) =>
              Work[s] = IF s \in spawning THEN {"spawn"} ELSE {}
         /\ \A k \in {"build", "stop"} :
              Busy(k, s) /\ s \notin spawning
              /\ (\A j \in {"build", "stop"} : Busy(j, s) => j = k) => Work[s] = {k}
         /\ "spawn" \in Work[s] => s \in spawning
<1>1. \A k : k \in Work[s] <=> \/ k \in {"build", "stop"} /\ Busy(k, s)
                               \/ k = "spawn" /\ s \in spawning
  BY DEF Work
<1> QED BY <1>1

LEMMA WorkOfNext ==
  ASSUME NEW s \in Service
  PROVE  /\ ~Busy("build", s)' /\ ~Busy("stop", s)' =>
              Work'[s] = IF s \in spawning' THEN {"spawn"} ELSE {}
         /\ \A k \in {"build", "stop"} :
              Busy(k, s)' /\ s \notin spawning'
              /\ (\A j \in {"build", "stop"} : Busy(j, s)' => j = k) => Work'[s] = {k}
<1>1. \A k : k \in Work'[s] <=> \/ k \in {"build", "stop"} /\ Busy(k, s)'
                                \/ k = "spawn" /\ s \in spawning'
  BY DEF Work
<1> QED BY <1>1

\* The work on one service changes, or on none.
LEMMA WorkChanges ==
  ASSUME NEW s \in Service,
         \A t \in Service : t # s => /\ t \in spawning' <=> t \in spawning
                                     /\ \A k \in {"build", "stop"} : Busy(k, t)' <=> Busy(k, t)
  PROVE  \A W : Work'[s] = W => Work' = [Work EXCEPT ![s] = W]
<1>1. ASSUME NEW t \in Service, t # s PROVE Work'[t] = Work[t]
  <2>1. \A k : /\ k \in Work[t] <=> \/ k \in {"build", "stop"} /\ Busy(k, t)
                                    \/ k = "spawn" /\ t \in spawning
               /\ k \in Work'[t] <=> \/ k \in {"build", "stop"} /\ Busy(k, t)'
                                     \/ k = "spawn" /\ t \in spawning'
    BY DEF Work
  <2> QED BY <1>1, <2>1
<1>2. Work = [t \in Service |-> Work[t]] /\ Work' = [t \in Service |-> Work'[t]]
  BY DEF Work
<1> HIDE DEF Work
<1> QED BY <1>1, <1>2

LEMMA WorkStays ==
  ASSUME \A t \in Service : t \in spawning' <=> t \in spawning,
         \A t \in Service, k \in {"build", "stop"} : Busy(k, t)' <=> Busy(k, t)
  PROVE  Work' = Work
<1>1. ASSUME NEW t \in Service PROVE Work'[t] = Work[t]
  <2>1. \A k : /\ k \in Work[t] <=> \/ k \in {"build", "stop"} /\ Busy(k, t)
                                    \/ k = "spawn" /\ t \in spawning
               /\ k \in Work'[t] <=> \/ k \in {"build", "stop"} /\ Busy(k, t)'
                                     \/ k = "spawn" /\ t \in spawning'
    BY DEF Work
  <2> QED BY <2>1
<1>2. Work = [t \in Service |-> Work[t]] /\ Work' = [t \in Service |-> Work'[t]]
  BY DEF Work
<1> HIDE DEF Work
<1> QED BY <1>1, <1>2

\* The arms of the tracker once more, now with the wish: of a service that has
\* a row and has run.
Says(row, state, desired, like) ==
  /\ row.state = state /\ row.desired = desired
  /\ row.restarts = like.restarts /\ row.ran = like.ran

LEMMA LineOf ==
  ASSUME NEW rs \in [Service -> Row], NEW s \in Service, Tracked(rs, s), rs[s].ran
  PROVE  /\ Says(StopRequested(rs, s)[s], "stopping", "stopped", rs[s])
         /\ Says(StartRequested(rs, s)[s], "starting", "up", rs[s])
         /\ Says(ServiceStopped(rs, s)[s], "stopped", rs[s].desired, rs[s])
         /\ Says(ServiceReady(rs, s)[s], rs[s].state, rs[s].desired, rs[s])
         /\ Says(ServiceExited(rs, s)[s], "exited", rs[s].desired, rs[s])
         /\ Says(BuildStarted(rs, s)[s],
                 IF rs[s].state = "stopped" THEN "building" ELSE rs[s].state,
                 rs[s].desired, rs[s])
         /\ Says(BuildFinished(rs, s)[s],
                 IF rs[s].state = "building" THEN "stopped" ELSE rs[s].state,
                 rs[s].desired, rs[s])
<1>1. rs[s] \in Row
  OBVIOUS
<1>2. StopRequested(rs, s)[s] = [rs[s] EXCEPT !.state = "stopping", !.desired = "stopped"]
  BY DEF StopRequested, Update
<1>3. StartRequested(rs, s)[s] = [rs[s] EXCEPT !.state = "starting", !.desired = "up"]
  BY DEF StartRequested, Update
<1>4. ServiceStopped(rs, s)[s] = [rs[s] EXCEPT !.state = "stopped", !.ready = "unchecked"]
  BY DEF ServiceStopped, Update
<1>5. ServiceReady(rs, s)[s] = [rs[s] EXCEPT !.ready = "ready"]
  BY DEF ServiceReady, Update
<1>6. ServiceExited(rs, s)[s] = [rs[s] EXCEPT !.state = "exited"]
  BY DEF ServiceExited, Update
<1>7. BuildStarted(rs, s)[s] =
        IF rs[s].state = "stopped" THEN [rs[s] EXCEPT !.state = "building"] ELSE rs[s]
  BY <1>1 DEF BuildStarted
<1>8. BuildFinished(rs, s)[s] =
        IF rs[s].state = "building" THEN [rs[s] EXCEPT !.state = "stopped"] ELSE rs[s]
  BY <1>1 DEF BuildFinished
<1>9. Says(StopRequested(rs, s)[s], "stopping", "stopped", rs[s])
  BY <1>1, <1>2 DEF Says, Row
<1>10. Says(StartRequested(rs, s)[s], "starting", "up", rs[s])
  BY <1>1, <1>3 DEF Says, Row
<1>11. Says(ServiceStopped(rs, s)[s], "stopped", rs[s].desired, rs[s])
  BY <1>1, <1>4 DEF Says, Row
<1>12. Says(ServiceReady(rs, s)[s], rs[s].state, rs[s].desired, rs[s])
  <2> DEFINE row == [rs[s] EXCEPT !.ready = "ready"]
  <2>1. /\ row.state = rs[s].state /\ row.desired = rs[s].desired
        /\ row.restarts = rs[s].restarts /\ row.ran = rs[s].ran
    BY <1>1 DEF Row
  <2> HIDE DEF row
  <2>2. ServiceReady(rs, s)[s] = row
    BY <1>5 DEF row
  <2> QED BY <2>1, <2>2 DEF Says
<1>13. Says(ServiceExited(rs, s)[s], "exited", rs[s].desired, rs[s])
  BY <1>1, <1>6 DEF Says, Row
<1>14. Says(BuildStarted(rs, s)[s],
            IF rs[s].state = "stopped" THEN "building" ELSE rs[s].state,
            rs[s].desired, rs[s])
  BY <1>1, <1>7 DEF Says, Row
<1>15. Says(BuildFinished(rs, s)[s],
            IF rs[s].state = "building" THEN "stopped" ELSE rs[s].state,
            rs[s].desired, rs[s])
  BY <1>1, <1>8 DEF Says, Row
<1> QED BY <1>9, <1>10, <1>11, <1>12, <1>13, <1>14, <1>15

\* Out of the steady state the rows still move, with the tasks that end and
\* the instances that go, and no service loses its past.
LEMMA RanKept ==
  ASSUME NEW rs \in [Service -> Row], \A s \in Service : Tracked(rs, s) /\ rs[s].ran,
         NEW n \in Service, NEW s \in Service
  PROVE  /\ Tracked(ServiceExited(rs, n), s) /\ ServiceExited(rs, n)[s].ran
         /\ Tracked(ServiceStopped(rs, n), s) /\ ServiceStopped(rs, n)[s].ran
         /\ Tracked(ServiceReady(rs, n), s) /\ ServiceReady(rs, n)[s].ran
         /\ Tracked(BuildFinished(rs, n), s) /\ BuildFinished(rs, n)[s].ran
<1>1. CASE s = n
  BY <1>1, LineOf DEF Says, Tracked
<1>2. CASE s # n
  BY <1>2, RowsOfOthers DEF Tracked
<1> QED BY <1>1, <1>2

LEMMA StepRan ==
  ASSUME DInv, AllRan, RowsOK', [Next]_vars PROVE AllRan'
<1>1. rows \in [Service -> Row] /\ \A c \in children : c.name \in Service
  BY DEF DInv, IInv, TypeOK, Instance
<1>2. CASE pc' = "steady"
  BY <1>2 DEF AllRan, RowsOK, RowOK, Doing, Tracked
<1>3. CASE pc' # "steady"
  <2>1. \A t \in tasks : t.name \in Service
    BY DEF DInv, IInv, TypeOK, Task
  <2>2. \/ rows' = rows
        \/ \E c \in children : rows' = ServiceExited(rows, c.name)
        \/ \E t \in tasks : \/ rows' = ServiceStopped(rows, t.name)
                            \/ rows' = ServiceReady(rows, t.name)
                            \/ rows' = BuildFinished(rows, t.name)
    <3>1. CASE Handle \/ SpawnSucceeds \/ SpawnFails
      BY <1>3, <3>1 DEF Handle, AtSelect, Refuse, Accept, Complete, SpawnSucceeds, SpawnDone,
                        SpawnFails, kernelVars
    <3>2. CASE \/ SeeShutdown \/ ChildExits \/ WaitFails \/ SettleCommand \/ BeginTeardown
               \/ BeginWave \/ Exit
      BY <3>2 DEF SeeShutdown, ChildExits, WaitFails, ChildGone, SettleCommand, BeginTeardown,
                  BeginWave, Exit
    <3>3. CASE FinishStop
      <4>1. PICK c \in stopping : rows' = ServiceExited(rows, c.name)
        BY <3>3 DEF FinishStop
      <4> QED BY <4>1 DEF DInv, Stages
    <3>4. CASE \E t \in tasks : BuildEnds(t) \/ StopEnds(t) \/ ProbeConcludes(t) \/ ProbeReports(t)
      BY <3>4 DEF BuildEnds, StopEnds, ProbeConcludes, ProbeReports
    <3>5. CASE \/ \E i \in live : Dies(i)
               \/ \E r \in Request, c \in Command : Ask(r, c)
               \/ Down \/ Terminated \/ UNCHANGED vars
      BY <3>5 DEF Dies, Ask, Down, Terminated, vars
    <3> QED BY <3>1, <3>2, <3>3, <3>4, <3>5 DEF Next, Kernel
  <2>3. ASSUME NEW n \in Service,
               \/ rows' = ServiceExited(rows, n) \/ rows' = ServiceStopped(rows, n)
               \/ rows' = ServiceReady(rows, n) \/ rows' = BuildFinished(rows, n)
        PROVE  AllRan'
    <3> SUFFICES ASSUME NEW s \in Service PROVE Tracked(rows', s) /\ rows'[s].ran
      BY DEF AllRan, Tracked
    <3> QED BY <1>1, <2>3, RanKept DEF AllRan
  <2>4. CASE rows' = rows
    BY <2>4 DEF AllRan, Tracked
  <2> QED BY <1>1, <2>1, <2>2, <2>3, <2>4
<1> QED BY <1>2, <1>3

LEMMA StepApart ==
  ASSUME DInv, DInv', StopApart, [Next]_vars PROVE StopApart'
<1>1. \A t \in tasks' : t.kind = "stop" => \A c \in children' : c.name # t.name
  <2>1. CASE Handle \/ SpawnSucceeds \/ SpawnFails
    <3>1. pc' = "steady"
      BY <2>1 DEF Handle, AtSelect, Refuse, Accept, Complete, SpawnSucceeds, SpawnDone,
                  SpawnFails, kernelVars
    <3> QED BY <3>1 DEF DInv, IInv, Steadily, LiveIsHeld, NoStop
  <2>2. CASE ~(Handle \/ SpawnSucceeds \/ SpawnFails)
    <3>1. children' \subseteq children
      BY <2>2 DEF Next, Kernel, SeeShutdown, ChildExits, WaitFails, ChildGone, SettleCommand,
                  BeginTeardown, BeginWave, FinishStop, Exit, BuildEnds, StopEnds,
                  ProbeConcludes, ProbeReports, Dies, Ask, Down, Terminated, vars, kernelVars
    <3>2. \A t \in tasks' : t.kind = "stop" => t \in tasks
      <4>1. CASE \E t \in tasks : ProbeConcludes(t)
        <5>1. PICK t \in tasks, v \in {"passed", "gave_up"} :
                t.kind = "probe" /\ tasks' = (tasks \ {t}) \cup {[t EXCEPT !.verdict = v]}
          BY <4>1 DEF ProbeConcludes
        <5>2. t \in [kind: {"probe"}, name: Service, seq: Nat, inst: Instance,
                     verdict: {"checking", "passed", "gave_up"}]
          BY <5>1 DEF DInv, IInv, TypeOK, Task
        <5>3. [t EXCEPT !.verdict = v].kind = "probe"
          BY <5>2
        <5> QED BY <5>1, <5>3
      <4>2. CASE ~\E t \in tasks : ProbeConcludes(t)
        BY <2>2, <4>2 DEF Next, Kernel, SeeShutdown, ChildExits, WaitFails, ChildGone,
                    SettleCommand, BeginTeardown, BeginWave, FinishStop, Exit, BuildEnds,
                    StopEnds, ProbeReports, Dies, Ask, Down, Terminated, vars, kernelVars
      <4> QED BY <4>1, <4>2
    <3> QED BY <3>1, <3>2 DEF StopApart
  <2> QED BY <2>1, <2>2
<1>2. \A i \in live' \cup lost' : i.gen <= starts'[i.name]
  <2>1. CASE SpawnSucceeds
    <3>1. PICK e \in inflight : SpawnDone(e)
      BY <2>1 DEF SpawnSucceeds
    <3> DEFINE n == [name |-> e.name, gen |-> starts[e.name] + 1, probed |-> e.probed]
    <3>2. /\ live' = live \cup {n} /\ lost' = lost
          /\ starts' = [starts EXCEPT ![e.name] = @ + 1]
          /\ n.name = e.name /\ n.gen = starts[e.name] + 1
      BY <3>1 DEF SpawnDone
    <3> HIDE DEF n
    <3>3. e.name \in Service /\ starts \in [Service -> Nat]
      BY DEF DInv, IInv, TypeOK, Entry
    <3>4. n.gen <= starts'[n.name]
      BY <3>2, <3>3
    <3>5. ASSUME NEW i \in live \cup lost PROVE i.gen <= starts'[i.name]
      <4>1. i.gen \in Nat /\ i.name \in Service /\ i.gen <= starts[i.name]
        BY DEF DInv, IInv, TypeOK, Instance, StopApart
      <4> QED BY <3>2, <3>3, <4>1
    <3> QED BY <3>2, <3>4, <3>5
  <2>2. CASE ~SpawnSucceeds
    <3>1. live' \cup lost' \subseteq live \cup lost /\ starts' = starts
      BY <2>2 DEF Next, Kernel, Handle, Refuse, Accept, Complete, SpawnFails, SeeShutdown,
                  ChildExits, WaitFails, ChildGone, LetGo, SettleCommand, BeginTeardown,
                  BeginWave, FinishStop, Exit, BuildEnds, StopEnds, ProbeConcludes,
                  ProbeReports, Dies, Ask, Down, Terminated, vars, worldVars
    <3> QED BY <3>1 DEF StopApart
  <2> QED BY <2>1, <2>2
<1> QED BY <1>1, <1>2 DEF StopApart

LEMMA PromiseInvariant == Spec => []PInv
<1>1. Init => PInv
  <2>1. Init => AllRan
    BY DEF Init, AllRan, Tracked
  <2>2. ASSUME Init PROVE StopApart
    <3>1. \A i \in live \cup lost : i.gen = 1 /\ i.name \in Service
      BY <2>2 DEF Init
    <3>2. \A i \in live \cup lost : i.gen <= starts[i.name]
      BY <2>2, <3>1 DEF Init
    <3> QED BY <2>2, <3>2 DEF Init, StopApart
  <2> QED BY <2>2, <2>1, InitDown, InitRows DEF PInv
<1>2. PInv /\ [Next]_vars => PInv'
  BY StepDown, StepRows, StepRan, StepApart DEF PInv
<1> QED BY <1>1, <1>2, PTL DEF Spec

\* Supervision sees nothing of a step that changes neither an instance, nor the
\* work (a probe is none), nor what a row shows.
LEMMA Unseen ==
  ASSUME pc' = pc \/ (pc # "steady" /\ pc' # "steady"),
         UNCHANGED <<spawning, children, live, lost>>,
         \A t \in tasks \ tasks' : t.kind = "probe",
         \A t \in tasks' \ tasks : t.kind = "probe",
         \A s \in Service : /\ rows'[s].state = rows[s].state
                            /\ rows'[s].desired = rows[s].desired
                            /\ rows'[s].restarts = rows[s].restarts
  PROVE  UNCHANGED Promise!vars
<1>1. (pc # "steady")' = (pc # "steady") /\ Held' = Held /\ Alive' = Alive /\ Adrift' = Adrift
  BY DEF Held, Alive, Adrift
<1>2. Work' = Work
  <2>1. \A t \in Service, k \in {"build", "stop"} : Busy(k, t)' <=> Busy(k, t)
    BY DEF Busy
  <2> QED BY <2>1, WorkStays
<1>3. Shown' = Shown
  BY DEF Shown
<1> QED BY <1>1, <1>2, <1>3 DEF Promise!vars

\* What becomes of a service nobody looks after any more.
LEMMA Parting ==
  ASSUME NEW c, LetGo(c), live' = live, \A i \in live \ lost : i.name = c.name => i = c
  PROVE  Promise!Parts(c.name)
<1>1. live' \ lost' = (live \ lost) \ {c}
  BY DEF LetGo
<1>2. Alive' = Alive \ {c.name}
  BY <1>1 DEF Alive
<1>3. c.name \in Alive <=> c \in live \ lost
  BY DEF Alive
<1>4. lost' = IF c \in live THEN lost \cup {c} ELSE lost
  BY DEF LetGo
<1>5. Adrift' = Adrift \cup ({c.name} \cap Alive)
  <2>1. CASE c \in live \ lost
    BY <1>3, <1>4, <2>1 DEF Adrift
  <2>2. CASE c \notin live \ lost
    <3>1. lost' = lost
      BY <1>4, <2>2
    <3> QED BY <1>3, <2>2, <3>1 DEF Adrift
  <2> QED BY <2>1, <2>2
<1> QED BY <1>2, <1>5 DEF Promise!Parts

\* A phase begins, or a command ends and nobody but its client notices.
LEMMA MovePromise ==
  ASSUME PInv, DInv', AtSelect, UNCHANGED <<pc, worldVars>>,
         NEW e \in Entry, NEW rest, NEW tk, NEW rp, PhaseMoves(e, rest, tk, rp)
  PROVE  [Promise!Next]_(Promise!vars)
<1> DEFINE s == e.name
<1>1. /\ pc = "steady" /\ pc' = "steady" /\ spawning = {} /\ s \in Service /\ UNCHANGED <<live, lost>>
      /\ TypeOK /\ TypeOK' /\ rows \in [Service -> Row] /\ rows[s] \in Row
      /\ \A t \in Service : RowOK(t)
      /\ Tracked(rows, s) /\ rows[s].ran
      /\ tk \subseteq tasks /\ \A t \in tasks \ tk : t.kind = "probe"
      /\ Advance(e, rest, tk, rp) \/ Settle(e, rest, tk, rp, "failed")
  BY DEF AtSelect, PInv, RowsOK, DInv, IInv, TypeOK, Entry, AllRan, PhaseMoves, worldVars
<1>2. ~Busy("build", s) /\ ~Busy("stop", s)
  BY <1>1 DEF PhaseMoves, Busy
<1>3. /\ Work[s] = {} /\ (s \in Held <=> Running(s))
      /\ rows[s].state = IF Running(s) THEN "running" ELSE "stopped"
      /\ Shown[s].state = rows[s].state
  <2>1. Work[s] = {}
    BY <1>1, <1>2, WorkOf
  <2>2. rows[s].state = IF Running(s) THEN "running" ELSE "stopped"
    BY <1>1, <1>2 DEF RowOK, Doing
  <2> QED BY <1>1, <2>1, <2>2, Sight
<1>4. (pc # "steady") = FALSE /\ (pc' # "steady") = FALSE /\ Alive' = Alive /\ Adrift' = Adrift
  BY <1>1 DEF Alive, Adrift
<1> HIDE DEF s
<1>5. CASE tasks' = tk /\ UNCHANGED <<children, spawning, rows>>
  <2>1. UNCHANGED Promise!vars
    BY <1>1, <1>5, Unseen
  <2> QED BY <2>1
<1>6. CASE /\ tasks' = tk \cup {[kind |-> "build", name |-> s, seq |-> e.seq]}
           /\ rows' = BuildStarted(rows, s) /\ UNCHANGED <<children, spawning>>
  <2>1. \A k \in {"build", "stop"}, r \in Service :
          Busy(k, r)' <=> Busy(k, r) \/ (k = "build" /\ r = s)
    <3> DEFINE nt == [kind |-> "build", name |-> s, seq |-> e.seq]
    <3>1. tasks' = tk \cup {nt} /\ nt.kind = "build" /\ nt.name = s
      BY <1>6
    <3> HIDE DEF nt
    <3>2. TAKE k \in {"build", "stop"}, r \in Service
    <3>3. Busy(k, r)' <=> Busy(k, r) \/ (nt.kind = k /\ nt.name = r)
      BY <1>1, <3>1 DEF Busy
    <3> QED BY <3>1, <3>3
  <2>2. Work' = [Work EXCEPT ![s] = {"build"}]
    <3>1. Work'[s] = {"build"}
      BY <1>1, <1>2, <1>6, <2>1, WorkOfNext
    <3> QED BY <1>1, <1>6, <2>1, <3>1, WorkChanges
  <2>3. Held' = Held
    BY <1>6 DEF Held
  <2>4. \A t \in Service : t # s => rows'[t] = rows[t]
    BY <1>1, <1>6, RowsOfOthers
  <2>5. Says(rows'[s], IF rows[s].state = "stopped" THEN "building" ELSE rows[s].state,
             rows[s].desired, rows[s])
    BY <1>1, <1>6, LineOf
  <2>6. IF s \in Held THEN Shown' = Shown
        ELSE Shown[s].state = "stopped" /\ Shown' = [Shown EXCEPT ![s].state = "building"]
    <3>1. CASE s \in Held
      BY <1>1, <1>3, <2>4, <2>5, <3>1, ShownChanges DEF Says
    <3>2. CASE s \notin Held
      BY <1>1, <1>3, <2>4, <2>5, <3>2, ShownChanges DEF Says, RowState
    <3> QED BY <3>1, <3>2
  <2>7. Promise!BuildBegins(s)
    BY <1>3, <1>4, <2>2, <2>3, <2>6 DEF Promise!BuildBegins, Promise!Begins, Promise!Shows
  <2> QED BY <1>1, <2>7 DEF Promise!Next
<1>7. ASSUME NEW c \in children,
             /\ c.name = s /\ children' = children \ {c}
             /\ tasks' = tk \cup {[kind |-> "stop", name |-> s, seq |-> e.seq, inst |-> c]}
             /\ rows' = StopRequested(rows, s) /\ UNCHANGED spawning
      PROVE  [Promise!Next]_(Promise!vars)
  <2>1. \A k \in {"build", "stop"}, r \in Service :
          Busy(k, r)' <=> Busy(k, r) \/ (k = "stop" /\ r = s)
    <3> DEFINE nt == [kind |-> "stop", name |-> s, seq |-> e.seq, inst |-> c]
    <3>1. tasks' = tk \cup {nt} /\ nt.kind = "stop" /\ nt.name = s
      BY <1>7
    <3> HIDE DEF nt
    <3>2. TAKE k \in {"build", "stop"}, r \in Service
    <3>3. Busy(k, r)' <=> Busy(k, r) \/ (nt.kind = k /\ nt.name = r)
      BY <1>1, <3>1 DEF Busy
    <3> QED BY <3>1, <3>3
  <2>2. Work' = [Work EXCEPT ![s] = {"stop"}]
    <3>1. Work'[s] = {"stop"}
      BY <1>1, <1>2, <1>7, <2>1, WorkOfNext
    <3> QED BY <1>1, <1>7, <2>1, <3>1, WorkChanges
  <2>3. s \in Held /\ Held' = Held \ {s}
    BY <1>7 DEF Held, PInv, DInv, IInv, Distinct
  <2>4. \A t \in Service : t # s => rows'[t] = rows[t]
    BY <1>1, <1>7, RowsOfOthers
  <2>5. Says(rows'[s], "stopping", "stopped", rows[s])
    BY <1>1, <1>7, LineOf
  <2>6. Shown' = [Shown EXCEPT ![s].state = "stopping", ![s].desired = "stopped"]
    BY <1>1, <2>4, <2>5, ShownChanges DEF Says, RowState
  <2>7. Shown[s].state = "running"
    BY <1>3, <2>3
  <2>8. Promise!StopBegins(s)
    BY <1>3, <1>4, <2>2, <2>3, <2>6, <2>7 DEF Promise!StopBegins, Promise!Begins
  <2> QED BY <1>1, <2>8 DEF Promise!Next
<1>8. CASE /\ tasks' = tk /\ rows' = StartRequested(rows, s)
           /\ spawning' = {s} /\ UNCHANGED children
  <2>1. \A k \in {"build", "stop"}, r \in Service : Busy(k, r)' <=> Busy(k, r)
    BY <1>1, <1>8 DEF Busy
  <2>2. Work' = [Work EXCEPT ![s] = {"spawn"}]
    <3>1. Work'[s] = {"spawn"}
      BY <1>1, <1>2, <1>8, <2>1, WorkOfNext
    <3> QED BY <1>1, <1>8, <2>1, <3>1, WorkChanges
  <2>3. Held' = Held
    BY <1>8 DEF Held
  <2>4. ~Running(s)' /\ NoStop(s)' /\ LiveIsHeld'
    BY <1>1, <1>8 DEF DInv, IInv, Steadily, StartsOnNothing
  <2>5. \A t \in tasks' : t.kind = "stop" => t.inst.name = t.name
    BY DEF DInv, IInv, Distinct
  <2>6. s \notin Held' /\ s \notin Alive'
    BY <2>4, <2>5 DEF Held, Alive, Running, NoStop, LiveIsHeld
  <2>7. s \notin Held /\ s \notin Alive
    BY <1>4, <2>3, <2>6
  <2>8. \A t \in Service : t # s => rows'[t] = rows[t]
    BY <1>1, <1>8, RowsOfOthers
  <2>9. Says(rows'[s], "starting", "up", rows[s])
    BY <1>1, <1>8, LineOf
  <2>10. Shown' = [Shown EXCEPT ![s].state = "starting", ![s].desired = "up"]
    BY <1>1, <2>8, <2>9, ShownChanges DEF Says, RowState
  <2>11. Promise!SpawnBegins(s)
    BY <1>3, <1>4, <2>2, <2>3, <2>7, <2>10 DEF Promise!SpawnBegins, Promise!Begins
  <2> QED BY <1>1, <2>11 DEF Promise!Next
<1> QED BY <1>1, <1>5, <1>6, <1>7, <1>8, AdvanceRows DEF s

\* The runtime answers a spawn.
LEMMA SpawnPromise ==
  ASSUME PInv, SpawnSucceeds \/ SpawnFails, TypeOK' PROVE [Promise!Next]_(Promise!vars)
<1>1. PICK e \in inflight :
        /\ pc = "steady" /\ pc' = "steady" /\ e.name \in spawning /\ spawning' = {}
        /\ \/ SpawnDone(e)
           \/ /\ rows' = ServiceStopped(rows, e.name)
              /\ UNCHANGED <<children, tasks, live, lost>>
  BY DEF SpawnSucceeds, SpawnDone, SpawnFails, worldVars
<1> DEFINE s == e.name
<1>2. /\ TypeOK /\ s \in Service /\ e.probed \in BOOLEAN
      /\ rows \in [Service -> Row] /\ rows[s] \in Row
      /\ Tracked(rows, s) /\ rows[s].ran
      /\ \A r \in spawning : r = s
  BY <1>1 DEF PInv, RowsOK, DInv, IInv, TypeOK, Entry, AllRan
<1>3. ~Running(s) /\ ~Busy("stop", s) /\ ~Busy("build", s)
  BY <1>1, SpawningIsIdle DEF PInv
<1>4. \A t \in tasks : t.kind = "stop" => t.inst.name = t.name
  BY DEF PInv, DInv, IInv, Distinct
<1>5. s \notin Held /\ s \notin Alive
  BY <1>1, <1>3, <1>4 DEF PInv, DInv, IInv, Steadily, LiveIsHeld, Held, Alive, Running, Busy
<1>6. (pc # "steady") = FALSE /\ (pc' # "steady") = FALSE
  BY <1>1
<1> HIDE DEF s
<1>7. ASSUME \A r \in Service, k \in {"build", "stop"} : Busy(k, r)' <=> Busy(k, r)
      PROVE  Work[s] = {"spawn"} /\ Work' = [Work EXCEPT ![s] = {}]
  <2>1. Work[s] = {"spawn"}
    BY <1>1, <1>2, <1>3, WorkOf DEF s
  <2>2. Work'[s] = {}
    BY <1>1, <1>2, <1>3, <1>7, WorkOfNext
  <2> QED BY <1>1, <1>2, <1>7, <2>1, <2>2, WorkChanges
<1>8. CASE SpawnDone(e)
  <2> DEFINE i == [name |-> e.name, gen |-> starts[e.name] + 1, probed |-> e.probed]
             p == [kind |-> "probe", name |-> e.name, seq |-> e.seq, inst |-> i,
                   verdict |-> "checking"]
  <2>1. /\ children' = children \cup {i} /\ live' = live \cup {i} /\ lost' = lost
        /\ rows' = ServiceStarted(rows, s, e.probed) /\ i.gen = starts[s] + 1
        /\ tasks' = tasks \/ tasks' = tasks \cup {p}
    BY <1>8 DEF SpawnDone, s
  <2>2. i.name = s /\ p.kind = "probe"
    BY DEF s
  <2> HIDE DEF i, p
  <2>3. Work[s] = {"spawn"} /\ Work' = [Work EXCEPT ![s] = {}]
    BY <1>7, <2>1, <2>2 DEF Busy
  <2>4. i \notin lost
    <3>1. starts[s] \in Nat
      BY <1>2 DEF TypeOK
    <3> QED BY <2>1, <2>2, <3>1 DEF PInv, StopApart
  <2>5. Held' = Held \cup {s} /\ Alive' = Alive \cup {s} /\ Adrift' = Adrift
    BY <2>1, <2>2, <2>4 DEF Held, Alive, Adrift
  <2>6. \A t \in Service : t # s => rows'[t] = rows[t]
    BY <1>2, <2>1, RowsOfOthers
  <2>7. /\ rows'[s].state = "running" /\ rows'[s].desired = "up"
        /\ rows'[s].restarts = rows[s].restarts + 1
    BY <1>2, <2>1, RowOfSpawn
  <2>8. Shown' = [Shown EXCEPT ![s].state = "running", ![s].desired = "up", ![s].restarts = @ + 1]
    BY <1>2, <2>6, <2>7, ShownChanges DEF RowState
  <2>9. Promise!SpawnSucceeds(s)
    BY <1>5, <1>6, <2>3, <2>5, <2>8 DEF Promise!SpawnSucceeds, Promise!Ends
  <2> QED BY <1>2, <2>9 DEF Promise!Next
<1>9. CASE /\ rows' = ServiceStopped(rows, s)
           /\ UNCHANGED <<children, tasks, live, lost>>
  <2>1. Work[s] = {"spawn"} /\ Work' = [Work EXCEPT ![s] = {}]
    BY <1>7, <1>9 DEF Busy
  <2>2. Held' = Held /\ Alive' = Alive /\ Adrift' = Adrift
    BY <1>9 DEF Held, Alive, Adrift
  <2>3. \A t \in Service : t # s => rows'[t] = rows[t]
    BY <1>2, <1>9, RowsOfOthers
  <2>4. Says(rows'[s], "stopped", rows[s].desired, rows[s])
    BY <1>2, <1>9, LineOf
  <2>5. Shown' = [Shown EXCEPT ![s].state = "stopped"]
    BY <1>2, <2>3, <2>4, ShownChanges DEF Says, RowState
  <2>6. Promise!SpawnFails(s)
    BY <1>6, <2>1, <2>2, <2>5 DEF Promise!SpawnFails, Promise!Ends, Promise!Shows
  <2> QED BY <1>2, <2>6 DEF Promise!Next
<1> QED BY <1>1, <1>8, <1>9 DEF s

\* The kernel leaves its loop, told to or because a child ended.
LEMMA LeavePromise ==
  ASSUME PInv, SeeShutdown \/ ChildExits \/ WaitFails, TypeOK'
  PROVE  [Promise!Next]_(Promise!vars)
<1>1. /\ pc = "steady" /\ pc' = "settling" /\ spawning = {}
      /\ UNCHANGED <<spawning, tasks, live>>
  BY DEF SeeShutdown, ChildExits, WaitFails, ChildGone, AtSelect, worldVars
<1>2. /\ TypeOK /\ rows \in [Service -> Row] /\ \A c \in children : c.name \in Service
      /\ \A c, d \in children : c.name = d.name => c = d
  BY DEF PInv, DInv, IInv, TypeOK, Instance, Distinct
<1>3. Work' = Work
  BY <1>1, WorkStays DEF Busy
<1>4. Promise!GoesDown
  <2>1. (pc # "steady") = FALSE /\ (pc # "steady")' = TRUE
    BY <1>1
  <2>2. \A t \in Service : "spawn" \notin Work[t]
    BY <1>1, WorkOf
  <2> QED BY <1>3, <2>1, <2>2 DEF Promise!GoesDown
<1>5. CASE SeeShutdown
  <2>1. Held' = Held /\ Alive' = Alive /\ Adrift' = Adrift /\ Shown' = Shown
    BY <1>5 DEF SeeShutdown, worldVars, Held, Alive, Adrift, Shown
  <2> QED BY <1>4, <2>1 DEF Promise!Next, Promise!IsTold
<1>6. ASSUME NEW c \in children, children' = children \ {c}
      PROVE  /\ c.name \in Held /\ Held' = Held \ {c.name}
             /\ \A i \in live \ lost : i.name = c.name => i = c
  <2>1. c.name \in Held /\ Held' = Held \ {c.name}
    BY <1>2, <1>6 DEF Held
  <2>2. \A i \in live \ lost : i.name = c.name => i = c
    BY <1>1, <1>2 DEF PInv, DInv, IInv, Steadily, LiveIsHeld, NoStop, Distinct
  <2> QED BY <2>1, <2>2
<1>7. CASE ChildExits
  <2>1. PICK c \in children \ live :
          /\ children' = children \ {c} /\ rows' = ServiceExited(rows, c.name)
          /\ lost' = lost
    BY <1>7 DEF ChildExits, ChildGone
  <2> DEFINE s == c.name
  <2>2. s \in Service /\ RowOK(s) /\ Tracked(rows, s) /\ rows[s].ran /\ rows[s] \in Row
    BY <1>1, <1>2 DEF PInv, RowsOK, AllRan
  <2>3. s \notin Alive /\ Alive' = Alive /\ Adrift' = Adrift
    BY <1>1, <1>6, <2>1 DEF Alive, Adrift
  <2>4. rows[s].state = "running" /\ rows[s].desired = "up"
    BY <1>1, <2>1, <2>2 DEF RowOK, Doing, Running
  <2>5. s \in Held /\ Held' = Held \ {s}
    BY <1>6, <2>1
  <2> HIDE DEF s
  <2>6. \A t \in Service : t # s => rows'[t] = rows[t]
    BY <1>2, <2>1, <2>2, RowsOfOthers DEF s
  <2>7. Says(rows'[s], "exited", rows[s].desired, rows[s])
    BY <1>2, <2>1, <2>2, LineOf DEF s
  <2>8. Shown' = [Shown EXCEPT ![s].state = "exited"]
    BY <1>2, <2>2, <2>6, <2>7, ShownChanges DEF Says, RowState
  <2>9. Shown[s].state = "running" /\ Shown[s].desired = "up"
    BY <1>2, <2>2, <2>4, Sight
  <2>10. Promise!FindsDead(s)
    BY <1>4, <2>3, <2>5, <2>8, <2>9 DEF Promise!FindsDead, Promise!Shows
  <2> QED BY <2>2, <2>10 DEF Promise!Next
<1>8. CASE WaitFails
  <2>1. PICK c \in children : children' = children \ {c} /\ rows' = rows /\ LetGo(c)
    BY <1>8 DEF WaitFails, ChildGone
  <2>2. /\ c.name \in Held /\ Held' = Held \ {c.name} /\ Shown' = Shown
        /\ Promise!Parts(c.name)
    BY <1>1, <1>6, <2>1, Parting DEF Shown
  <2>3. Promise!LosesSight(c.name)
    BY <1>4, <2>2 DEF Promise!LosesSight
  <2> QED BY <1>2, <2>3 DEF Promise!Next
<1> QED BY <1>5, <1>7, <1>8

\* A wave goes, one instance at a time.
LEMMA TakePromise ==
  ASSUME PInv, FinishStop, TypeOK' PROVE [Promise!Next]_(Promise!vars)
<1>1. PICK c \in stopping :
        /\ pc = "teardown" /\ children' = children \ {c} /\ LetGo(c)
        /\ rows' = ServiceExited(rows, c.name) /\ UNCHANGED <<pc, spawning, tasks, live>>
  BY DEF FinishStop
<1> DEFINE s == c.name
<1>2. /\ TypeOK /\ rows \in [Service -> Row] /\ inflight = {} /\ spawning = {}
      /\ c \in children /\ s \in Service
      /\ Tracked(rows, s) /\ rows[s].ran
      /\ \A a, d \in children : a.name = d.name => a = d
      /\ \A d \in children : WaveOf[d.name] <= WaveOf[s]
  BY <1>1 DEF PInv, DInv, IInv, TypeOK, Instance, Distinct, Stages, AllRan
<1>3. \A t \in tasks : t.kind = "probe"
  BY <1>2 DEF PInv, DInv, WorkBelongs
<1>4. \A t \in Service : Work[t] = {}
  BY <1>2, <1>3, WorkOf DEF Busy
<1>5. Work' = Work /\ (pc # "steady") = TRUE /\ (pc # "steady")' = (pc # "steady")
  BY <1>1, WorkStays DEF Busy
<1>6. s \in Held /\ Held' = Held \ {s} /\ \A t \in Held : WaveOf[t] <= WaveOf[s]
  BY <1>1, <1>2 DEF Held
<1>7. Promise!Parts(s)
  <2>1. \A i \in live \ lost : i.name = c.name => i = c
    BY <1>2, <1>3 DEF PInv, DInv, LiveIsAccounted
  <2> QED BY <1>1, <2>1, Parting
<1> HIDE DEF s
<1>8. \A t \in Service : t # s => rows'[t] = rows[t]
  BY <1>1, <1>2, RowsOfOthers DEF s
<1>9. Says(rows'[s], "exited", rows[s].desired, rows[s])
  BY <1>1, <1>2, LineOf DEF s
<1>10. Shown' = [Shown EXCEPT ![s].state = "exited"]
  BY <1>2, <1>8, <1>9, ShownChanges DEF Says, RowState
<1>11. Promise!TakesDown(s)
  BY <1>4, <1>5, <1>6, <1>7, <1>10 DEF Promise!TakesDown, Promise!Shows
<1> QED BY <1>2, <1>11 DEF Promise!Next

\* A build or a stop ends, which was all that was being done with its service.
LEMMA WorkEndsPromise ==
  ASSUME PInv, NEW t \in tasks, BuildEnds(t) \/ StopEnds(t), TypeOK'
  PROVE  [Promise!Next]_(Promise!vars)
<1> DEFINE s == t.name
<1>1. /\ TypeOK /\ rows \in [Service -> Row] /\ s \in Service /\ rows[s] \in Row
      /\ Tracked(rows, s) /\ rows[s].ran
      /\ UNCHANGED <<pc, spawning, children, live>> /\ tasks' = tasks \ {t}
      /\ t.kind \in {"build", "stop"}
  BY DEF PInv, DInv, IInv, TypeOK, Task, BuildEnds, StopEnds, worldVars, kernelVars, AllRan
<1>2. PICK e \in inflight : e.name = t.name /\ e.seq = t.seq
  BY <1>1 DEF PInv, DInv, WorkBelongs
<1>3. \A u \in tasks : u.kind # "probe" /\ u.name = t.name => u = t
  BY <1>2 DEF PInv, DInv, IInv, WorkBelongs, Distinct, OneTokenPerSeq
<1>4. s \notin spawning
  <2>1. CASE pc = "steady"
    BY <1>1, <1>2, <2>1, SpawningIsIdle DEF PInv, Busy
  <2>2. CASE pc # "steady"
    BY <2>2 DEF PInv, DInv, Stages
  <2> QED BY <2>1, <2>2
<1>5. Held' = Held /\ (pc # "steady")' = (pc # "steady")
  BY <1>1 DEF Held
<1> HIDE DEF s
<1>6. \A k \in {"build", "stop"} : (Busy(k, s) <=> k = t.kind) /\ ~Busy(k, s)'
  BY <1>1, <1>3 DEF Busy, s
<1>7. Work[s] = {t.kind} /\ Work' = [Work EXCEPT ![s] = {}]
  <2>1. Work[s] = {t.kind}
    BY <1>1, <1>4, <1>6, WorkOf
  <2>2. Work'[s] = {}
    BY <1>1, <1>4, <1>6, WorkOfNext
  <2>3. \A r \in Service : r # s => \A k \in {"build", "stop"} : Busy(k, r)' <=> Busy(k, r)
    BY <1>1 DEF Busy, s
  <2> QED BY <1>1, <2>1, <2>2, <2>3, WorkChanges
<1>8. CASE BuildEnds(t)
  <2>1. rows' = BuildFinished(rows, s) /\ t.kind = "build"
    BY <1>8 DEF BuildEnds, s
  <2>2. \A r \in Service : r # s => rows'[r] = rows[r]
    BY <1>1, <2>1, RowsOfOthers
  <2>3. Says(rows'[s], IF rows[s].state = "building" THEN "stopped" ELSE rows[s].state,
             rows[s].desired, rows[s])
    BY <1>1, <2>1, LineOf
  <2>4. Shown[s].state = rows[s].state
    BY <1>1, Sight
  <2>5. IF Shown[s].state = "building" THEN Shown' = [Shown EXCEPT ![s].state = "stopped"]
        ELSE Shown' = Shown
    <3>1. CASE rows[s].state = "building"
      BY <1>1, <2>2, <2>3, <2>4, <3>1, ShownChanges DEF Says, RowState
    <3>2. CASE rows[s].state # "building"
      BY <1>1, <2>2, <2>3, <2>4, <3>2, ShownChanges DEF Says
    <3> QED BY <3>1, <3>2
  <2>6. Alive' = Alive /\ Adrift' = Adrift
    BY <1>8 DEF BuildEnds, worldVars, Alive, Adrift
  <2>7. Promise!BuildEnds(s)
    BY <1>5, <1>7, <2>1, <2>5, <2>6 DEF Promise!BuildEnds, Promise!Ends, Promise!Shows
  <2> QED BY <1>1, <2>7 DEF Promise!Next
<1>9. CASE StopEnds(t)
  <2>1. rows' = ServiceStopped(rows, s) /\ t.kind = "stop" /\ LetGo(t.inst)
    BY <1>9 DEF StopEnds, s
  <2>2. \A r \in Service : r # s => rows'[r] = rows[r]
    BY <1>1, <2>1, RowsOfOthers
  <2>3. Says(rows'[s], "stopped", rows[s].desired, rows[s])
    BY <1>1, <2>1, LineOf
  <2>4. Shown' = [Shown EXCEPT ![s].state = "stopped"]
    BY <1>1, <2>2, <2>3, ShownChanges DEF Says, RowState
  <2>5. Promise!Parts(s)
    <3>1. t.inst.name = s
      BY <2>1 DEF PInv, DInv, IInv, Distinct, s
    <3>2. ASSUME NEW i \in live \ lost, i.name = s PROVE i = t.inst
      <4>1. PICK u \in tasks : u.kind = "stop" /\ u.inst = i
        BY <2>1, <3>2 DEF PInv, DInv, LiveIsAccounted, StopApart, s
      <4>2. u.name = s
        BY <3>2, <4>1 DEF PInv, DInv, IInv, Distinct
      <4>3. u = t
        BY <1>3, <4>1, <4>2 DEF s
      <4> QED BY <4>1, <4>3
    <3> QED BY <1>1, <2>1, <3>1, <3>2, Parting
  <2>6. Promise!StopEnds(s)
    BY <1>5, <1>7, <2>1, <2>4, <2>5 DEF Promise!StopEnds, Promise!Ends, Promise!Shows
  <2> QED BY <1>1, <2>6 DEF Promise!Next
<1> QED BY <1>8, <1>9

\* Probes, and what only clients or the kernel's own account see.
LEMMA UnseenSteps ==
  ASSUME PInv,
         \/ SettleCommand \/ BeginTeardown \/ BeginWave \/ Exit
         \/ \E t \in tasks : ProbeConcludes(t) \/ ProbeReports(t)
         \/ \E r \in Request, c \in Command : Ask(r, c)
         \/ Down \/ Terminated \/ UNCHANGED vars
  PROVE  UNCHANGED Promise!vars
<1> USE DEF worldVars, kernelVars
<1>1. CASE SettleCommand
  <2>1. PICK e \in inflight : tasks' = tasks \ Abort({e})
    BY <1>1 DEF SettleCommand
  <2>2. \A t \in Abort({e}) : t.kind = "probe"
    BY DEF Abort
  <2> QED BY <1>1, <2>1, <2>2, Unseen DEF SettleCommand
<1>2. CASE \/ BeginTeardown \/ BeginWave \/ Exit
           \/ (\E r \in Request, c \in Command : Ask(r, c)) \/ Down \/ Terminated \/ UNCHANGED vars
  <2>1. /\ pc' = pc \/ (pc # "steady" /\ pc' # "steady")
        /\ UNCHANGED <<spawning, children, live, lost, tasks, rows>>
    BY <1>2 DEF BeginTeardown, BeginWave, Exit, Ask, Down, Terminated, vars
  <2> QED BY <2>1, Unseen
<1>3. CASE \E t \in tasks : ProbeConcludes(t)
  <2>1. PICK t \in tasks, v \in {"passed", "gave_up"} :
          /\ t.kind = "probe" /\ tasks' = (tasks \ {t}) \cup {[t EXCEPT !.verdict = v]}
          /\ UNCHANGED <<pc, spawning, children, live, lost, rows>>
    BY <1>3 DEF ProbeConcludes
  <2>2. t \in [kind: {"probe"}, name: Service, seq: Nat, inst: Instance,
               verdict: {"checking", "passed", "gave_up"}]
    BY <2>1 DEF PInv, DInv, IInv, TypeOK, Task
  <2>3. [t EXCEPT !.verdict = v].kind = "probe"
    BY <2>2
  <2> QED BY <2>1, <2>3, Unseen
<1>4. CASE \E t \in tasks : ProbeReports(t)
  <2>1. PICK t \in tasks : /\ t.kind = "probe" /\ tasks' = tasks \ {t}
                           /\ rows' = ServiceReady(rows, t.name) \/ rows' = rows
                           /\ UNCHANGED <<pc, spawning, children, live, lost>>
    BY <1>4 DEF ProbeReports
  <2>2. t.name \in Service /\ rows \in [Service -> Row] /\ AllRan
    BY DEF PInv, DInv, IInv, TypeOK, Task
  <2>3. ASSUME NEW s \in Service
        PROVE  /\ rows'[s].state = rows[s].state /\ rows'[s].desired = rows[s].desired
               /\ rows'[s].restarts = rows[s].restarts
    <3>1. CASE s = t.name
      BY <2>1, <2>2, <3>1, LineOf DEF Says, AllRan
    <3>2. CASE s # t.name
      BY <2>1, <2>2, <3>2, RowsOfOthers
    <3> QED BY <3>1, <3>2
  <2> QED BY <2>1, <2>3, Unseen
<1> QED BY <1>1, <1>2, <1>3, <1>4

\* Of two instances of a service that are adrift, the end of one goes unseen.
LEMMA DiesPromise ==
  ASSUME PInv, NEW i \in live, Dies(i)
  PROVE  i.name \in Service /\ (Promise!Dies(i.name) \/ UNCHANGED Promise!vars)
<1>1. /\ live' = live \ {i} /\ lost' = lost \ {i}
      /\ UNCHANGED <<pc, spawning, children, tasks, rows>>
      /\ i.name \in Service /\ OneInstance
  BY DEF Dies, kernelVars, PInv, DInv, IInv, TypeOK, Instance
<1>2. Held' = Held /\ Work' = Work /\ Shown' = Shown /\ (pc # "steady")' = (pc # "steady")
  BY <1>1, WorkStays DEF Held, Busy, Shown
<1>3. CASE i \notin lost
  <2>1. i.name \in Alive /\ Alive' = Alive \ {i.name} /\ Adrift' = Adrift
    BY <1>1, <1>3 DEF Alive, Adrift, OneInstance
  <2> QED BY <1>1, <1>2, <2>1 DEF Promise!Dies
<1>4. CASE i \in lost
  <2>1. live' \ lost' = live \ lost
    BY <1>1, <1>4
  <2>2. Alive' = Alive
    BY <2>1 DEF Alive
  <2>3. i.name \in Adrift /\ (Adrift' = Adrift \ {i.name} \/ Adrift' = Adrift)
    BY <1>1, <1>4 DEF Adrift
  <2> QED BY <1>1, <1>2, <2>2, <2>3 DEF Promise!Dies, Promise!vars
<1> QED BY <1>3, <1>4

LEMMA StepPromise == PInv /\ PInv' /\ [Next]_vars => [Promise!Next]_(Promise!vars)
<1> SUFFICES ASSUME PInv, PInv', [Next]_vars PROVE [Promise!Next]_(Promise!vars)
  OBVIOUS
<1>1. DInv /\ DInv' /\ TypeOK'
  BY DEF PInv, DInv, IInv
<1>2. CASE Handle
  <2>1. AtSelect /\ UNCHANGED <<pc, worldVars>>
    BY <1>1, <1>2, HandleMoves
  <2>2. CASE UNCHANGED <<spawning, children, tasks, rows>>
    <3>1. UNCHANGED Promise!vars
      BY <2>1, <2>2, Unseen DEF worldVars
    <3> QED BY <3>1
  <2>3. ASSUME NEW e \in Entry, NEW rest, NEW tk, NEW rp, PhaseMoves(e, rest, tk, rp)
        PROVE  [Promise!Next]_(Promise!vars)
    BY <1>1, <2>1, <2>3, MovePromise
  <2> QED BY <1>1, <1>2, <2>2, <2>3, HandleMoves
<1>3. CASE SpawnSucceeds \/ SpawnFails
  BY <1>1, <1>3, SpawnPromise
<1>4. CASE SeeShutdown \/ ChildExits \/ WaitFails
  BY <1>1, <1>4, LeavePromise
<1>5. CASE FinishStop
  BY <1>1, <1>5, TakePromise
<1>6. CASE \E t \in tasks : BuildEnds(t) \/ StopEnds(t)
  BY <1>1, <1>6, WorkEndsPromise
<1>7. CASE \E i \in live : Dies(i)
  BY <1>7, DiesPromise DEF Promise!Next
<1>8. CASE \/ SettleCommand \/ BeginTeardown \/ BeginWave \/ Exit
           \/ \E t \in tasks : ProbeConcludes(t) \/ ProbeReports(t)
           \/ \E r \in Request, c \in Command : Ask(r, c)
           \/ Down \/ Terminated \/ UNCHANGED vars
  <2>1. UNCHANGED Promise!vars
    BY <1>8, UnseenSteps
  <2> QED BY <2>1
<1> QED BY <1>2, <1>3, <1>4, <1>5, <1>6, <1>7, <1>8 DEF Next, Kernel

LEMMA InitPromise == Init => Promise!Init
<1> SUFFICES ASSUME Init PROVE Promise!Init
  OBVIOUS
<1>1. (pc # "steady") = FALSE
  BY DEF Init
<1>2. Held = Service /\ Alive \in SUBSET Service /\ Adrift = {}
  <2>1. \A s \in Service : [name |-> s, gen |-> 1, probed |-> s \in Probed].name = s
    OBVIOUS
  <2>2. \A c \in children : c.name \in Service
    BY <2>1 DEF Init
  <2>3. \A s \in Service : \E c \in children : c.name = s
    BY <2>1 DEF Init
  <2>4. live \subseteq children /\ lost = {}
    BY DEF Init
  <2> QED BY <2>2, <2>3, <2>4 DEF Held, Alive, Adrift
<1>3. Work = [s \in Service |-> {}]
  BY DEF Init, Work, Busy
<1>4. Shown = [s \in Service |-> [state |-> "running", desired |-> "up", restarts |-> 0]]
  BY DEF Init, Shown
<1> QED BY <1>1, <1>2, <1>3, <1>4 DEF Promise!Init

\* Under the messages, the tasks and the clients, whatever their interleaving,
\* the kernel keeps the promise of module Supervision, step by step.
THEOREM LifecycleImplementsSupervision == Spec => SupervisesAsPromised
<1>1. PInv /\ PInv' /\ [Next]_vars => [Promise!Next]_(Promise!vars)
  BY StepPromise
<1>2. Init => Promise!Init
  BY InitPromise
<1> QED BY <1>1, <1>2, PromiseInvariant, PTL DEF Spec, SupervisesAsPromised, Promise!Spec
=============================================================================
