--------------------------- MODULE Lifecycle_proofs ---------------------------
(***************************************************************************)
(* Theorems about module Lifecycle, for any services, any waves, any       *)
(* clients and any number of commands.                                     *)
(***************************************************************************)
EXTENDS Lifecycle, StateTracker_proofs, SequenceTheorems, FiniteSetTheorems

----------------------------------------------------------------------------
(* Types *)

\* A plan the kernel hands out is one of these six.
LEMMA PlanOfCases ==
  ASSUME NEW c \in Command
  PROVE  PlanOf(c) \in {<<"stop">>, <<"start">>, <<"build">>, <<"stop", "start">>,
                        <<"build", "start">>, <<"build", "stop", "start">>}
<1>1. c.verb \in {"stop", "start", "restart", "build"}
  BY DEF Command
<1> QED
  BY <1>1 DEF PlanOf

LEMMA PlanType == ASSUME NEW c \in Command PROVE PlanOf(c) \in Seq(Phase)
<1>1. /\ <<"stop">> \in Seq(Phase) /\ <<"start">> \in Seq(Phase)
      /\ <<"build">> \in Seq(Phase) /\ <<"stop", "start">> \in Seq(Phase)
      /\ <<"build", "start">> \in Seq(Phase)
      /\ <<"build", "stop", "start">> \in Seq(Phase)
  BY DEF Phase
<1> QED
  BY <1>1, PlanOfCases

\* What the phases of a command make of the state they share, whichever runs.
LEMMA AdvanceType ==
  ASSUME TypeOK, NEW e \in Entry, NEW rest \in SUBSET Entry, NEW tk \in SUBSET Task,
         NEW rp \in [Request -> Replies], Advance(e, rest, tk, rp)
  PROVE  /\ spawning' \in SUBSET Service
         /\ children' \in SUBSET Instance
         /\ inflight' \in SUBSET Entry
         /\ tasks' \in SUBSET Task
         /\ reply' \in [Request -> Replies]
         /\ rows' \in [Service -> Row]
<1> USE DEF TypeOK
<1>1. e.name \in Service /\ e.req \in Request /\ e.plan \in Seq(Phase) /\ e.seq \in Nat
  BY DEF Entry
<1>2. ASSUME NEW result \in Replies
      PROVE  Answer(rp, e, result) \in [Request -> Replies]
  BY <1>1 DEF Answer
<1>3. CASE e.plan = << >>
  BY <1>2, <1>3 DEF Advance, Settle, Replies
<1>4. CASE e.plan # << >>
  <2> DEFINE f == [e EXCEPT !.plan = Tail(@)]
  <2>1. Tail(e.plan) \in Seq(Phase)
    BY <1>1, <1>4
  <2>2. f \in Entry /\ f.name = e.name /\ f.seq = e.seq /\ f.req = e.req /\ f.reply = e.reply
    BY <2>1 DEF Entry
  <2>3. [f EXCEPT !.task = "work"] \in Entry
    BY <2>2 DEF Entry
  <2> HIDE DEF f
  <2>4. CASE BuildPhase(f, rest, tk, rp)
    <3>1. [kind |-> "build", name |-> f.name, seq |-> f.seq] \in Task
      BY <1>1, <2>2 DEF Task
    <3>2. BuildStarted(rows, f.name) \in [Service -> Row]
      BY <1>1, <2>2, BuildRowsType
    <3> QED
      BY <2>3, <2>4, <3>1, <3>2 DEF BuildPhase
  <2>5. CASE StopPhase(f, rest, tk, rp)
    <3>1. CASE ~Running(f.name)
      <4>1. Settle(f, rest, tk, rp, "failed")
        BY <2>5, <3>1 DEF StopPhase, StopChild, Running
      <4>2. Answer(rp, f, "failed") \in [Request -> Replies]
        BY <1>1, <2>2 DEF Answer, Replies
      <4> QED
        BY <4>1, <4>2 DEF Settle
    <3>2. CASE Running(f.name)
      <4>1. PICK c \in children : StopChild(f, c, rest, tk, rp)
        BY <2>5, <3>2 DEF StopPhase
      <4>2. [kind |-> "stop", name |-> f.name, seq |-> f.seq, inst |-> c] \in Task
        BY <1>1, <2>2 DEF Task
      <4>3. StopRequested(rows, f.name) \in [Service -> Row]
        BY <1>1, <2>2, RowChangesType
      <4> QED
        BY <2>3, <4>1, <4>2, <4>3 DEF StopChild
    <3> QED
      BY <3>1, <3>2
  <2>6. CASE StartPhase(f, rest, tk, rp)
    <3>1. StartRequested(rows, f.name) \in [Service -> Row]
      BY <1>1, <2>2, RowChangesType
    <3> QED
      BY <1>1, <2>2, <2>6, <3>1 DEF StartPhase
  <2> QED
    BY <1>4, <2>4, <2>5, <2>6 DEF Advance, f
<1> QED
  BY <1>3, <1>4

\* A message sent while the kernel is in its loop, or lost once it is not.
LEMMA PostType == ASSUME TypeOK, NEW m \in Message PROVE Post(m) \in Seq(Message)
BY DEF TypeOK, Post

\* The messages of the kernel's queue, and what is left when one is taken.
LEMMA HeadType ==
  ASSUME TypeOK, msgs # << >>
  PROVE  Head(msgs) \in Message /\ Tail(msgs) \in Seq(Message)
BY DEF TypeOK

\* Init makes the types right: every service's first instance is running.
LEMMA InitType == Init => TypeOK
<1> SUFFICES ASSUME Init PROVE TypeOK
  OBVIOUS
<1> USE ConstantsAssumption DEF Init
<1>1. children \in SUBSET Instance /\ live \in SUBSET Instance
  <2>1. \A s \in Service : [name |-> s, gen |-> 1, probed |-> s \in Probed] \in Instance
    BY DEF Instance
  <2>2. children = {[name |-> s, gen |-> 1, probed |-> s \in Probed] : s \in Service}
    OBVIOUS
  <2>3. live \in SUBSET children
    OBVIOUS
  <2> QED
    BY ONLY <2>1, <2>2, <2>3
<1>2. rows \in [Service -> Row]
  BY DEF Row, RowState
<1>3. heard \in SUBSET [inst: Instance, verdict: {"passed", "gave_up"}]
  BY <1>1
<1>4. msgs \in Seq(Message) /\ reply \in [Request -> Replies] /\ starts \in [Service -> Nat]
  BY DEF Replies
<1> QED
  BY <1>1, <1>2, <1>3, <1>4 DEF TypeOK

LEMMA HandleType == TypeOK /\ Handle => TypeOK'
<1> SUFFICES ASSUME TypeOK, Handle PROVE TypeOK'
  OBVIOUS
<1> DEFINE m == Head(msgs)
<1>1. m \in Message /\ msgs' \in Seq(Message)
  BY HeadType DEF Handle
<1>2. ASSUME m.kind = "lifecycle" PROVE m.req \in Request /\ m.cmd \in Command
  BY <1>1, <1>2 DEF Message, Completion
<1>3. ASSUME m.kind # "lifecycle" PROVE m.kind \in {"build", "stop", "probe"}
  BY <1>1, <1>3 DEF Message, Completion
<1> HIDE DEF m
<1>4. CASE m.kind = "lifecycle" /\ Refuse(m)
  BY <1>1, <1>2, <1>4 DEF TypeOK, Refuse, Replies, kernelVars, worldVars
<1>5. CASE m.kind = "lifecycle" /\ Accept(m)
  <2> DEFINE c == m.cmd
             prev == Commands(c.name)
  <2>1. c \in Command /\ c.name \in Service /\ m.req \in Request
    BY <1>2, <1>5 DEF Accept, Refusable
  <2>2. PICK probed \in BOOLEAN :
          Advance(NewCommand(m, probed), inflight \ prev, tasks \ Abort(prev), Supersede(prev))
    BY <1>5 DEF Accept
  <2> DEFINE e == NewCommand(m, probed)
  <2>3. e \in Entry
    BY <2>1, PlanType DEF Entry, TypeOK, NewCommand
  <2>4. Supersede(prev) \in [Request -> Replies]
    BY DEF Supersede, TypeOK, Replies
  <2>5. inflight \ prev \in SUBSET Entry /\ tasks \ Abort(prev) \in SUBSET Task
    BY DEF TypeOK
  <2> HIDE DEF c, prev
  <2>6. Advance(e, inflight \ prev, tasks \ Abort(prev), Supersede(prev))
    BY <2>2
  <2> HIDE DEF e
  <2>7. nextSeq' = nextSeq + 1 /\ UNCHANGED <<pc, shutdown, stopping, worldVars>>
    BY <1>5 DEF Accept
  <2>8. /\ spawning' \in SUBSET Service
        /\ children' \in SUBSET Instance
        /\ inflight' \in SUBSET Entry
        /\ tasks' \in SUBSET Task
        /\ reply' \in [Request -> Replies]
        /\ rows' \in [Service -> Row]
    BY <2>3, <2>4, <2>5, <2>6, AdvanceType
  <2> QED
    BY <1>1, <2>7, <2>8 DEF TypeOK, worldVars
<1>6. CASE m.kind # "lifecycle" /\ Complete(m)
  <2>1. UNCHANGED <<pc, nextSeq, shutdown, stopping, worldVars>>
    BY <1>6 DEF Complete
  <2>2. CASE UNCHANGED <<spawning, children, inflight, tasks, reply, rows>>
    BY <1>1, <2>1, <2>2 DEF TypeOK, worldVars
  <2>3. ASSUME NEW e \in Current(m),
               IF m.ok THEN Advance([e EXCEPT !.task = "none"], inflight \ {e}, tasks, reply)
               ELSE Settle(e, inflight \ {e}, tasks, reply, "failed")
        PROVE  TypeOK'
    <3>1. e \in Entry /\ [e EXCEPT !.task = "none"] \in Entry
      BY DEF Current, TypeOK, Entry
    <3>2. CASE m.ok
      <4> DEFINE f == [e EXCEPT !.task = "none"]
      <4>1. f \in Entry /\ Advance(f, inflight \ {e}, tasks, reply)
        BY <2>3, <3>1, <3>2
      <4> HIDE DEF f
      <4>2. /\ inflight \ {e} \in SUBSET Entry /\ tasks \in SUBSET Task
            /\ reply \in [Request -> Replies]
        BY DEF TypeOK
      <4>3. /\ spawning' \in SUBSET Service
            /\ children' \in SUBSET Instance
            /\ inflight' \in SUBSET Entry
            /\ tasks' \in SUBSET Task
            /\ reply' \in [Request -> Replies]
            /\ rows' \in [Service -> Row]
        BY <4>1, <4>2, AdvanceType
      <4> QED
        BY <1>1, <2>1, <4>3 DEF TypeOK, worldVars
    <3>3. CASE ~m.ok
      <4>1. Settle(e, inflight \ {e}, tasks, reply, "failed")
        BY <2>3, <3>3
      <4>2. Answer(reply, e, "failed") \in [Request -> Replies]
        BY <3>1 DEF Answer, Replies, Entry, TypeOK
      <4> QED
        BY <1>1, <2>1, <4>1, <4>2 DEF Settle, TypeOK, worldVars
    <3> QED
      BY <3>2, <3>3
  <2> QED
    BY <1>6, <2>2, <2>3 DEF Complete
<1> QED
  BY <1>4, <1>5, <1>6 DEF Handle, m

LEMMA SpawnSucceedsType == TypeOK /\ SpawnSucceeds => TypeOK'
<1> SUFFICES ASSUME TypeOK, SpawnSucceeds PROVE TypeOK'
  OBVIOUS
<1>1. PICK e \in inflight : SpawnDone(e)
  BY DEF SpawnSucceeds
<1> DEFINE i == [name |-> e.name, gen |-> starts[e.name] + 1, probed |-> e.probed]
<1>2. e \in Entry /\ e.name \in Service /\ e.probed \in BOOLEAN /\ e.req \in Request
      /\ e.seq \in Nat /\ e.cmd \in Command /\ e.reply \in BOOLEAN
  BY DEF TypeOK, Entry
<1>3. starts[e.name] \in Nat
  BY <1>2 DEF TypeOK
<1>4. i \in Instance
  BY <1>2, <1>3 DEF Instance
<1> HIDE DEF i
<1>5. [kind |-> "probe", name |-> e.name, seq |-> e.seq, inst |-> i,
       verdict |-> "checking"] \in Task
  BY <1>2, <1>4 DEF Task
<1>6. [e EXCEPT !.task = "probe", !.reply = e.reply /\ ~e.cmd.no_wait] \in Entry
  BY <1>2 DEF Entry
<1>7. Answer(reply, e, "ok") \in [Request -> Replies]
  BY <1>2 DEF Answer, Replies, TypeOK
<1>8. ServiceStarted(rows, e.name, e.probed) \in [Service -> Row]
  BY <1>2, ServiceStartedType DEF TypeOK
<1>9. children' \in SUBSET Instance /\ live' \in SUBSET Instance /\ spawning' \in SUBSET Service
      /\ rows' \in [Service -> Row] /\ starts' \in [Service -> Nat]
  BY <1>1, <1>2, <1>3, <1>4, <1>8 DEF TypeOK, i, SpawnDone
<1>10. tasks' \in SUBSET Task
  BY <1>1, <1>5 DEF TypeOK, i, SpawnDone
<1>11. inflight' \in SUBSET Entry
  BY <1>1, <1>6 DEF TypeOK, SpawnDone
<1>12. reply' \in [Request -> Replies]
  BY <1>1, <1>7 DEF TypeOK, SpawnDone
<1> QED
  BY <1>1, <1>9, <1>10, <1>11, <1>12 DEF TypeOK, SpawnDone

LEMMA SpawnFailsType == TypeOK /\ SpawnFails => TypeOK'
<1> SUFFICES ASSUME TypeOK, SpawnFails PROVE TypeOK'
  OBVIOUS
<1>1. PICK e \in inflight :
        /\ rows' = ServiceStopped(rows, e.name)
        /\ reply' = Answer(reply, e, "failed")
        /\ inflight' = inflight \ {e}
  BY DEF SpawnFails
<1>2. e.name \in Service /\ e.req \in Request
  BY DEF TypeOK, Entry
<1>3. rows' \in [Service -> Row]
  BY <1>1, <1>2, RowChangesType DEF TypeOK
<1>4. reply' \in [Request -> Replies]
  BY <1>1, <1>2 DEF Answer, Replies, TypeOK
<1> QED
  BY <1>1, <1>3, <1>4 DEF TypeOK, SpawnFails, worldVars

LEMMA ChildGoneType ==
  ASSUME TypeOK, NEW c \in children, NEW r \in [Service -> Row], ChildGone(c, r),
         lost' \in SUBSET Instance
  PROVE  TypeOK'
BY DEF TypeOK, ChildGone

LEMMA ChildEndsType == TypeOK /\ (ChildExits \/ WaitFails) => TypeOK'
<1>1. ASSUME TypeOK, NEW c \in children \ live, ChildGone(c, ServiceExited(rows, c.name)),
             UNCHANGED lost
      PROVE  TypeOK'
  <2>1. c.name \in Service
    BY <1>1 DEF TypeOK, Instance
  <2>2. ServiceExited(rows, c.name) \in [Service -> Row] /\ lost' \in SUBSET Instance
    BY <1>1, <2>1, RowChangesType DEF TypeOK
  <2> QED
    BY <1>1, <2>2, ChildGoneType
<1>2. ASSUME TypeOK, NEW c \in children, ChildGone(c, rows), LetGo(c)
      PROVE  TypeOK'
  <2>1. rows \in [Service -> Row] /\ lost' \in SUBSET Instance
    BY <1>2 DEF TypeOK, LetGo
  <2> QED
    BY <1>2, <2>1, ChildGoneType
<1> QED
  BY <1>1, <1>2 DEF ChildExits, WaitFails

LEMMA TeardownType ==
  TypeOK /\ (SeeShutdown \/ SettleCommand \/ BeginTeardown \/ BeginWave \/ FinishStop \/ Exit)
    => TypeOK'
<1> SUFFICES ASSUME TypeOK
    PROVE (SeeShutdown \/ SettleCommand \/ BeginTeardown \/ BeginWave \/ FinishStop \/ Exit)
            => TypeOK'
  OBVIOUS
<1> USE DEF TypeOK, worldVars
<1>1. CASE SeeShutdown
  BY <1>1 DEF SeeShutdown
<1>2. CASE SettleCommand
  <2>1. PICK e \in inflight : /\ inflight' = inflight \ {e}
                              /\ tasks' = tasks \ Abort({e})
                              /\ reply' = Answer(reply, e, "shutting_down")
    BY <1>2 DEF SettleCommand
  <2>2. e.req \in Request
    BY DEF Entry
  <2>3. reply' \in [Request -> Replies]
    BY <2>1, <2>2 DEF Answer, Replies
  <2> QED
    BY <1>2, <2>1, <2>3 DEF SettleCommand
<1>3. CASE BeginTeardown
  BY <1>3 DEF BeginTeardown
<1>4. CASE BeginWave
  BY <1>4 DEF BeginWave, TopWave
<1>5. CASE FinishStop
  <2>1. PICK c \in stopping : /\ rows' = ServiceExited(rows, c.name)
                              /\ LetGo(c)
                              /\ stopping' = stopping \ {c}
                              /\ children' = children \ {c}
    BY <1>5 DEF FinishStop
  <2>2. c.name \in Service
    BY DEF Instance
  <2>3. rows' \in [Service -> Row]
    BY <2>1, <2>2, RowChangesType
  <2>4. lost' \in SUBSET Instance
    BY <2>1 DEF LetGo
  <2> QED
    BY <1>5, <2>1, <2>3, <2>4 DEF FinishStop
<1>6. CASE Exit
  BY <1>6 DEF Exit, Replies
<1> QED
  BY <1>1, <1>2, <1>3, <1>4, <1>5, <1>6

LEMMA TaskStepsType ==
  ASSUME TypeOK, NEW t \in tasks,
         BuildEnds(t) \/ StopEnds(t) \/ ProbeConcludes(t) \/ ProbeReports(t)
  PROVE  TypeOK'
<1>1. t \in Task /\ t.name \in Service /\ t.seq \in Nat
  BY DEF TypeOK, Task
<1>2. ASSUME NEW kind \in {"build", "stop", "probe"}, NEW ok \in BOOLEAN
      PROVE  Post([kind |-> kind, name |-> t.name, seq |-> t.seq, ok |-> ok]) \in Seq(Message)
  <2>1. [kind |-> kind, name |-> t.name, seq |-> t.seq, ok |-> ok] \in Message
    BY <1>1 DEF Message, Completion
  <2> QED
    BY <2>1, PostType
<1>3. CASE BuildEnds(t)
  <2>1. BuildFinished(rows, t.name) \in [Service -> Row]
    BY <1>1, BuildRowsType DEF TypeOK
  <2>2. msgs' \in Seq(Message)
    BY <1>2, <1>3 DEF BuildEnds
  <2> QED
    BY <1>3, <2>1, <2>2 DEF BuildEnds, TypeOK, kernelVars, worldVars
<1>4. CASE StopEnds(t)
  <2>1. ServiceStopped(rows, t.name) \in [Service -> Row]
    BY <1>1, RowChangesType DEF TypeOK
  <2>2. msgs' \in Seq(Message)
    BY <1>2, <1>4 DEF StopEnds
  <2>3. lost' \in SUBSET Instance
    BY <1>4 DEF StopEnds, LetGo, TypeOK
  <2> QED
    BY <1>4, <2>1, <2>2, <2>3 DEF StopEnds, TypeOK, kernelVars
<1>5. CASE ProbeConcludes(t)
  <2>1. PICK v \in {"passed", "gave_up"} :
          /\ tasks' = (tasks \ {t}) \cup {[t EXCEPT !.verdict = v]}
          /\ heard' = heard \cup {[inst |-> t.inst, verdict |-> v]}
          /\ t.kind = "probe"
    BY <1>5 DEF ProbeConcludes
  <2>2. t \in [kind: {"probe"}, name: Service, seq: Nat, inst: Instance,
               verdict: {"checking", "passed", "gave_up"}]
    BY <1>1, <2>1 DEF Task
  <2>3. [t EXCEPT !.verdict = v] \in Task /\ t.inst \in Instance
    BY <2>2 DEF Task
  <2> QED
    BY <1>5, <2>1, <2>3 DEF ProbeConcludes, TypeOK, kernelVars
<1>6. CASE ProbeReports(t)
  <2>1. ServiceReady(rows, t.name) \in [Service -> Row]
    BY <1>1, RowChangesType DEF TypeOK
  <2>2. msgs' \in Seq(Message)
    BY <1>2, <1>6 DEF ProbeReports
  <2> QED
    BY <1>6, <2>1, <2>2 DEF ProbeReports, TypeOK, kernelVars, worldVars
<1> QED
  BY <1>3, <1>4, <1>5, <1>6

LEMMA AskType ==
  ASSUME TypeOK, NEW r \in Request, NEW c \in Command, Ask(r, c)
  PROVE  TypeOK'
<1> DEFINE m == [kind |-> "lifecycle", req |-> r, cmd |-> c]
<1>1. m \in Message
  BY DEF Message
<1>2. reply' \in [Request -> Replies]
  BY DEF Ask, TypeOK, Replies
<1>3. msgs' = msgs \/ msgs' = Append(msgs, m)
  BY DEF Ask
<1> HIDE DEF m
<1>4. msgs' \in Seq(Message)
  <2>1. msgs \in Seq(Message)
    BY DEF TypeOK
  <2>2. Append(msgs, m) \in Seq(Message)
    BY <1>1, <2>1, AppendProperties
  <2> QED
    BY <1>3, <2>1, <2>2
<1> QED
  BY <1>2, <1>4 DEF Ask, TypeOK, kernelVars, worldVars

\* Every variable keeps its type, whatever the kernel, the tasks, the instances
\* and the clients do and in whatever order.
LEMMA StepType == TypeOK /\ [Next]_vars => TypeOK'
<1> SUFFICES ASSUME TypeOK, [Next]_vars PROVE TypeOK'
  OBVIOUS
<1>1. CASE Kernel
  BY <1>1, HandleType, SpawnSucceedsType, SpawnFailsType, ChildEndsType, TeardownType
     DEF Kernel
<1>2. CASE WaitFails
  BY <1>2, ChildEndsType
<1>3. CASE \E t \in tasks : BuildEnds(t) \/ StopEnds(t) \/ ProbeConcludes(t) \/ ProbeReports(t)
  BY <1>3, TaskStepsType
<1>4. CASE \E i \in live : Dies(i)
  BY <1>4 DEF Dies, TypeOK, kernelVars
<1>5. CASE \E r \in Request, c \in Command : Ask(r, c)
  BY <1>5, AskType
<1>6. CASE Down
  BY <1>6 DEF Down, TypeOK, kernelVars, worldVars
<1>7. CASE Terminated \/ UNCHANGED vars
  BY <1>7 DEF Terminated, vars, TypeOK, kernelVars, worldVars
<1> QED
  BY <1>1, <1>2, <1>3, <1>4, <1>5, <1>6, <1>7 DEF Next

\* Whatever the stack and however many commands it is sent, the supervisor's
\* state stays what its types say: no counter underflows, no plan runs out.
THEOREM TypeCorrect == Spec => []TypeOK
<1>1. Init => TypeOK
  BY InitType
<1>2. TypeOK /\ [Next]_vars => TypeOK'
  BY StepType
<1> QED
  BY <1>1, <1>2, PTL DEF Spec

----------------------------------------------------------------------------
(* One instance of a service at a time.                                    *)
(*                                                                         *)
(* OneInstance is not inductive: what keeps a start from meeting the old   *)
(* instance is that every live instance is a child, in the hands of a stop *)
(* or lost sight of, that a stop belongs to a command, that a service has  *)
(* one command, and that a completion can only move on the command that is *)
(* waiting for it.  Each part below is one of these.                       *)

IsCompletion(k) == msgs[k].kind # "lifecycle"

\* A service has one child and one command, with what is left of its plan.
Distinct ==
  /\ \A c, d \in children : c.name = d.name => c = d
  /\ \A e, f \in inflight : e.name = f.name => e = f
  /\ \A e \in inflight : e.plan \in {<< >>, <<"start">>, <<"stop", "start">>}
  /\ \A t \in tasks : t.kind = "stop" => t.inst.name = t.name

\* A sequence number has been handed out, and has one task or one completion.
OneTokenPerSeq ==
  /\ \A e \in inflight : e.seq < nextSeq
  /\ \A t \in tasks : t.seq < nextSeq
  /\ \A k \in DOMAIN msgs : IsCompletion(k) => msgs[k].seq < nextSeq
  /\ \A t, u \in tasks : t.seq = u.seq => t = u
  /\ \A t \in tasks, k \in DOMAIN msgs : IsCompletion(k) => msgs[k].seq # t.seq
  /\ \A j, k \in DOMAIN msgs :
       IsCompletion(j) /\ IsCompletion(k) /\ msgs[j].seq = msgs[k].seq => j = k

\* A build or a stop belongs to the command its service is running.
WorkBelongs ==
  \A t \in tasks : t.kind # "probe" =>
    \E e \in inflight : e.name = t.name /\ e.seq = t.seq /\ e.task = "work"

NoStop(s) == \A t \in tasks : t.kind = "stop" => t.name # s

\* A live instance that is not lost sight of is a child or being stopped, and
\* no service has both.
LiveIsHeld ==
  /\ \A i \in live \ lost :
       i \in children \/ \E t \in tasks : t.kind = "stop" /\ t.inst = i
  /\ \A c \in children : NoStop(c.name)

\* Nothing of a service is left when its start is due, nor while the kernel
\* awaits its spawn; the command then has nothing else under way.
StartsOnNothing ==
  /\ \A e \in inflight : e.plan = <<"start">> => ~Running(e.name)
  /\ \A s \in spawning : ~Running(s) /\ NoStop(s)
  /\ \A e \in inflight : e.name \in spawning =>
       /\ e.plan = << >>
       /\ \A t \in tasks : t.seq # e.seq
       /\ \A k \in DOMAIN msgs : IsCompletion(k) => msgs[k].seq # e.seq

Steadily == WorkBelongs /\ LiveIsHeld /\ StartsOnNothing

IInv == /\ TypeOK /\ OneInstance /\ Distinct /\ OneTokenPerSeq
        /\ pc = "steady" => Steadily

\* Taking a message off the queue leaves the others in their order.
LEMMA TailMessages ==
  ASSUME TypeOK, msgs # << >>, msgs' = Tail(msgs)
  PROVE  \A k \in DOMAIN msgs' : k \in Nat /\ k # 0 /\ k + 1 \in DOMAIN msgs
                                 /\ msgs'[k] = msgs[k + 1]
BY DEF TypeOK

\* Tokens are only lost when the kernel takes a message and starts nothing.
LEMMA TailTokens ==
  ASSUME TypeOK, OneTokenPerSeq, msgs # << >>, msgs' = Tail(msgs), nextSeq' = nextSeq,
         tasks' \subseteq tasks, inflight' \subseteq inflight
  PROVE  OneTokenPerSeq'
<1>1. \A k \in DOMAIN msgs' : k \in Nat /\ k # 0 /\ k + 1 \in DOMAIN msgs
                              /\ msgs'[k] = msgs[k + 1]
  BY TailMessages
<1> QED
  BY <1>1 DEF OneTokenPerSeq, IsCompletion

\* The command e is the one to move on: its service has no other among the
\* rest, its token has been taken, and every build or stop is somebody else's.
Movable(e, rest, tk) ==
  /\ rest \subseteq inflight /\ tk \subseteq tasks
  /\ \A t \in tasks \ tk : t.kind = "probe"
  /\ \A f \in rest : f.name # e.name
  /\ \A t \in tk : t.seq # e.seq
  /\ \A t \in tk : t.kind # "probe" =>
       \E f \in rest : f.name = t.name /\ f.seq = t.seq /\ f.task = "work"
  /\ e.plan = <<"start">> \/ e.plan = <<"build", "start">> => ~Running(e.name)

\* What Advance does to the commands and their tasks, in one form: the command
\* goes, or stays with a shorter plan and at most one task.
LEMMA AdvanceShape ==
  ASSUME TypeOK, Distinct, NEW e \in Entry, NEW rest, NEW tk, NEW rp,
         Movable(e, rest, tk),
         e.plan \in {<< >>, <<"stop">>, <<"start">>, <<"build">>, <<"stop", "start">>,
                     <<"build", "start">>, <<"build", "stop", "start">>},
         Advance(e, rest, tk, rp)
  PROVE  \/ \* settled
            /\ inflight' = rest /\ tasks' = tk /\ UNCHANGED <<children, spawning>>
         \/ \* a build
            \E g \in Entry : 
              /\ g.name = e.name /\ g.seq = e.seq /\ g.task = "work"
              /\ g.plan \in {<< >>, <<"start">>, <<"stop", "start">>}
              /\ g.plan = <<"start">> => ~Running(e.name)
              /\ inflight' = rest \cup {g} /\ UNCHANGED <<children, spawning>>
              /\ tasks' = tk \cup {[kind |-> "build", name |-> e.name, seq |-> e.seq]}
         \/ \* a stop
            \E g \in Entry, c \in children : 
              /\ g.name = e.name /\ g.seq = e.seq /\ g.task = "work"
              /\ g.plan \in {<< >>, <<"start">>}
              /\ c.name = e.name /\ children' = children \ {c} /\ UNCHANGED spawning
              /\ inflight' = rest \cup {g}
              /\ tasks' = tk \cup {[kind |-> "stop", name |-> e.name, seq |-> e.seq, inst |-> c]}
         \/ \* a start
            \E g \in Entry :
              /\ g.name = e.name /\ g.seq = e.seq /\ g.plan = << >> /\ ~Running(e.name)
              /\ inflight' = rest \cup {g} /\ tasks' = tk
              /\ spawning' = {e.name} /\ UNCHANGED children
<1>1. CASE e.plan = << >>
  BY <1>1 DEF Advance, Settle
<1>2. CASE e.plan # << >>
  <2> DEFINE f == [e EXCEPT !.plan = Tail(@)]
             g == [f EXCEPT !.task = "work"]
  <2>1. /\ Head(<<"stop">>) = "stop" /\ Tail(<<"stop">>) = << >>
        /\ Head(<<"start">>) = "start" /\ Tail(<<"start">>) = << >>
        /\ Head(<<"build">>) = "build" /\ Tail(<<"build">>) = << >>
        /\ Head(<<"stop", "start">>) = "stop" /\ Tail(<<"stop", "start">>) = <<"start">>
        /\ Head(<<"build", "start">>) = "build" /\ Tail(<<"build", "start">>) = <<"start">>
        /\ Head(<<"build", "stop", "start">>) = "build"
        /\ Tail(<<"build", "stop", "start">>) = <<"stop", "start">>
        /\ << >> # <<"start">> /\ <<"stop", "start">> # <<"start">>
    OBVIOUS
  <2>2. /\ f \in Entry /\ g \in Entry /\ f.name = e.name /\ f.seq = e.seq
        /\ g.name = e.name /\ g.seq = e.seq /\ g.task = "work"
        /\ f.plan = Tail(e.plan) /\ g.plan = Tail(e.plan)
    <3>1. Tail(e.plan) \in Seq(Phase)
      BY <1>2 DEF Entry
    <3>2. f \in Entry /\ f.name = e.name /\ f.seq = e.seq /\ f.plan = Tail(e.plan)
      BY <3>1 DEF Entry
    <3> HIDE DEF f
    <3> QED
      BY <3>2 DEF Entry
  <2> HIDE DEF f, g
  <2>3. CASE Head(e.plan) = "build" /\ BuildPhase(f, rest, tk, rp)
    <3>1. e.plan \in {<<"build">>, <<"build", "start">>, <<"build", "stop", "start">>}
      BY <1>2, <2>1, <2>3
    <3>2. /\ g.plan \in {<< >>, <<"start">>, <<"stop", "start">>}
          /\ g.plan = <<"start">> => ~Running(e.name)
      <4>1. CASE e.plan = <<"build">>
        BY <2>1, <2>2, <4>1
      <4>2. CASE e.plan = <<"build", "start">>
        BY <2>1, <2>2, <4>2 DEF Movable
      <4>3. CASE e.plan = <<"build", "stop", "start">>
        BY <2>1, <2>2, <4>3
      <4> QED
        BY <3>1, <4>1, <4>2, <4>3
    <3> QED
      BY <2>2, <2>3, <3>2 DEF BuildPhase, g
  <2>4. CASE Head(e.plan) = "stop" /\ StopPhase(f, rest, tk, rp)
    <3>1. e.plan \in {<<"stop">>, <<"stop", "start">>}
      BY <1>2, <2>1, <2>4
    <3>2. g.plan \in {<< >>, <<"start">>}
      BY <2>1, <2>2, <3>1
    <3> QED
      BY <2>2, <2>4, <3>2 DEF StopPhase, StopChild, Settle, g
  <2>5. CASE Head(e.plan) = "start" /\ StartPhase(f, rest, tk, rp)
    <3>1. e.plan = <<"start">>
      BY <1>2, <2>1, <2>5
    <3>2. f.plan = << >> /\ ~Running(e.name)
      BY <2>1, <2>2, <3>1 DEF Movable
    <3> QED
      BY <2>2, <2>5, <3>2 DEF StartPhase
  <2> QED
    BY <1>2, <2>3, <2>4, <2>5 DEF Advance, f
<1> QED
  BY <1>1, <1>2

\* However a command moves on, the parts of the invariant survive it.
LEMMA MovingOn ==
  ASSUME IInv, AtSelect, NEW e \in Entry, NEW rest, NEW tk, NEW rp,
         Movable(e, rest, tk),
         e.plan \in {<< >>, <<"stop">>, <<"start">>, <<"build">>, <<"stop", "start">>,
                     <<"build", "start">>, <<"build", "stop", "start">>},
         Advance(e, rest, tk, rp) \/ Settle(e, rest, tk, rp, "failed"),
         msgs # << >>, msgs' = Tail(msgs),
         nextSeq' \in {nextSeq, nextSeq + 1}, e.seq < nextSeq',
         \A k \in DOMAIN msgs' : IsCompletion(k)' => msgs'[k].seq # e.seq,
         UNCHANGED <<live, lost>>
  PROVE  OneInstance' /\ Distinct' /\ OneTokenPerSeq' /\ Steadily'
<1>1. /\ TypeOK /\ OneInstance /\ Distinct /\ OneTokenPerSeq /\ WorkBelongs /\ LiveIsHeld
      /\ StartsOnNothing /\ spawning = {}
  BY DEF IInv, AtSelect, Steadily
<1>2. /\ nextSeq \in Nat /\ e.seq \in Nat /\ \A f \in inflight : f.seq \in Nat
      /\ \A t \in tasks : t.seq \in Nat
      /\ \A k \in DOMAIN msgs : IsCompletion(k) => msgs[k].seq \in Nat
  BY <1>1 DEF TypeOK, Entry, Task, Message, Completion, IsCompletion
<1>3. OneInstance'
  BY <1>1 DEF OneInstance
<1>4. \A t \in tk : t \in tasks /\ (t.kind = "stop" => t.name # e.name)
  BY DEF Movable
<1>5. \A k \in DOMAIN msgs' : k \in Nat /\ k # 0 /\ k + 1 \in DOMAIN msgs
                              /\ msgs'[k] = msgs[k + 1]
  BY <1>1, TailMessages
<1>6. /\ \A k \in DOMAIN msgs' : IsCompletion(k)' => msgs'[k].seq < nextSeq'
      /\ \A j, k \in DOMAIN msgs' :
           IsCompletion(j)' /\ IsCompletion(k)' /\ msgs'[j].seq = msgs'[k].seq => j = k
      /\ \A t \in tk, k \in DOMAIN msgs' : IsCompletion(k)' => msgs'[k].seq # t.seq
      /\ \A t \in tk : t.seq < nextSeq'
      /\ \A f \in rest : f.seq < nextSeq'
      /\ \A t, u \in tk : t.seq = u.seq => t = u
  BY <1>1, <1>2, <1>4, <1>5 DEF OneTokenPerSeq, IsCompletion, Movable
<1>7. \A i \in live \ lost : i \in children \/ \E t \in tk : t.kind = "stop" /\ t.inst = i
  BY <1>1 DEF LiveIsHeld, Movable
<1>8. \A c \in children, t \in tk : t.kind = "stop" => t.name # c.name
  BY <1>1, <1>4 DEF LiveIsHeld, NoStop
<1>9. /\ \A f \in rest : f.plan \in {<< >>, <<"start">>, <<"stop", "start">>}
      /\ \A f \in rest : f.plan = <<"start">> => ~Running(f.name)
      /\ \A f, g \in rest : f.name = g.name => f = g
  BY <1>1 DEF Distinct, StartsOnNothing, Movable
<1>10. CASE inflight' = rest /\ tasks' = tk /\ UNCHANGED <<children, spawning>>
  <2>1. Distinct'
    BY <1>1, <1>4, <1>9, <1>10 DEF Distinct
  <2>2. OneTokenPerSeq'
    BY <1>6, <1>10 DEF OneTokenPerSeq
  <2>3. WorkBelongs'
    BY <1>10 DEF WorkBelongs, Movable
  <2>4. LiveIsHeld'
    BY <1>7, <1>8, <1>10 DEF LiveIsHeld, NoStop
  <2>5. StartsOnNothing'
    BY <1>1, <1>9, <1>10 DEF StartsOnNothing, Running
  <2> QED
    BY <1>3, <2>1, <2>2, <2>3, <2>4, <2>5 DEF Steadily
<1>11. ASSUME NEW g \in Entry,
              g.name = e.name, g.seq = e.seq, g.task = "work",
              g.plan \in {<< >>, <<"start">>, <<"stop", "start">>},
              g.plan = <<"start">> => ~Running(e.name),
              inflight' = rest \cup {g}, UNCHANGED <<children, spawning>>,
              tasks' = tk \cup {[kind |-> "build", name |-> e.name, seq |-> e.seq]}
       PROVE  OneInstance' /\ Distinct' /\ OneTokenPerSeq' /\ Steadily'
  <2> DEFINE b == [kind |-> "build", name |-> e.name, seq |-> e.seq]
  <2>1. tasks' = tk \cup {b} /\ b.kind = "build" /\ b.name = e.name /\ b.seq = e.seq
    BY <1>11
  <2> HIDE DEF b
  <2>2. Distinct'
    BY <1>1, <1>4, <1>9, <1>11, <2>1 DEF Distinct, Movable
  <2>3. OneTokenPerSeq'
    BY <1>6, <1>11, <2>1 DEF OneTokenPerSeq, Movable
  <2>4. WorkBelongs'
    BY <1>11, <2>1 DEF WorkBelongs, Movable
  <2>5. LiveIsHeld'
    BY <1>7, <1>8, <1>11, <2>1 DEF LiveIsHeld, NoStop
  <2>6. StartsOnNothing'
    BY <1>1, <1>9, <1>11 DEF StartsOnNothing, Running
  <2> QED
    BY <1>3, <2>2, <2>3, <2>4, <2>5, <2>6 DEF Steadily
<1>12. ASSUME NEW g \in Entry, NEW c \in children,
              g.name = e.name, g.seq = e.seq, g.task = "work",
              g.plan \in {<< >>, <<"start">>},
              c.name = e.name, children' = children \ {c}, UNCHANGED spawning,
              inflight' = rest \cup {g},
              tasks' = tk \cup {[kind |-> "stop", name |-> e.name, seq |-> e.seq, inst |-> c]}
       PROVE  OneInstance' /\ Distinct' /\ OneTokenPerSeq' /\ Steadily'
  <2> DEFINE b == [kind |-> "stop", name |-> e.name, seq |-> e.seq, inst |-> c]
  <2>1. /\ tasks' = tk \cup {b} /\ b.kind = "stop" /\ b.name = e.name /\ b.seq = e.seq
        /\ b.inst = c
    BY <1>12
  <2> HIDE DEF b
  <2>2. \A d \in children' : d.name # e.name
    BY <1>1, <1>12 DEF Distinct
  <2>3. Distinct'
    BY <1>1, <1>4, <1>9, <1>12, <2>1 DEF Distinct, Movable
  <2>4. OneTokenPerSeq'
    BY <1>6, <1>12, <2>1 DEF OneTokenPerSeq, Movable
  <2>5. WorkBelongs'
    BY <1>12, <2>1 DEF WorkBelongs, Movable
  <2>6. LiveIsHeld'
    BY <1>7, <1>8, <1>12, <2>1, <2>2 DEF LiveIsHeld, NoStop
  <2>7. StartsOnNothing'
    BY <1>1, <1>9, <1>12, <2>2 DEF StartsOnNothing, Running
  <2> QED
    BY <1>3, <2>3, <2>4, <2>5, <2>6, <2>7 DEF Steadily
<1>13. ASSUME NEW g \in Entry,
              g.name = e.name, g.seq = e.seq, g.plan = << >>, ~Running(e.name),
              inflight' = rest \cup {g}, tasks' = tk,
              spawning' = {e.name}, UNCHANGED children
       PROVE  OneInstance' /\ Distinct' /\ OneTokenPerSeq' /\ Steadily'
  <2>1. << >> # <<"start">>
    OBVIOUS
  <2>2. Distinct'
    BY <1>1, <1>4, <1>9, <1>13 DEF Distinct, Movable
  <2>3. OneTokenPerSeq'
    BY <1>6, <1>13 DEF OneTokenPerSeq
  <2>4. WorkBelongs'
    BY <1>13 DEF WorkBelongs, Movable
  <2>5. LiveIsHeld'
    BY <1>7, <1>8, <1>13 DEF LiveIsHeld, NoStop
  <2>6. StartsOnNothing'
    BY <1>4, <1>9, <1>13, <2>1 DEF StartsOnNothing, Running, NoStop, Movable
  <2> QED
    BY <1>3, <2>2, <2>3, <2>4, <2>5, <2>6 DEF Steadily
<1>14. CASE Settle(e, rest, tk, rp, "failed")
  BY <1>10, <1>14 DEF Settle
<1>15. CASE Advance(e, rest, tk, rp)
  BY <1>1, <1>10, <1>11, <1>12, <1>13, <1>15, AdvanceShape
<1> QED
  BY <1>14, <1>15

LEMMA AcceptSafe ==
  ASSUME IInv, AtSelect, msgs # << >>, msgs' = Tail(msgs),
         Head(msgs).kind = "lifecycle", Accept(Head(msgs))
  PROVE  OneInstance' /\ Distinct' /\ OneTokenPerSeq' /\ Steadily'
<1> DEFINE m == Head(msgs)
           prev == Commands(m.cmd.name)
<1>1. /\ TypeOK /\ Distinct /\ OneTokenPerSeq /\ WorkBelongs /\ LiveIsHeld /\ nextSeq \in Nat
      /\ spawning = {}
  BY DEF IInv, AtSelect, Steadily, TypeOK
<1>2. m \in Message
  BY <1>1, HeadType
<1>3. m.req \in Request /\ m.cmd \in Command
  BY <1>2 DEF Message, Completion
<1>4. m.cmd.name \in Service /\ ~Pointless(m.cmd) /\ \A e \in prev : ~Holds(e)
  BY <1>3 DEF Accept, Refusable
<1>5. PICK probed \in BOOLEAN :
        Advance(NewCommand(m, probed), inflight \ prev, tasks \ Abort(prev), Supersede(prev))
  BY DEF Accept
<1>6. nextSeq' = nextSeq + 1 /\ UNCHANGED <<live, lost>>
  BY DEF Accept, worldVars
<1> HIDE DEF m, prev
<1> DEFINE e == NewCommand(m, probed)
<1>7. e \in Entry /\ e.seq = nextSeq /\ e.plan = PlanOf(m.cmd) /\ e.name = m.cmd.name
  BY <1>1, <1>3, <1>4, PlanType DEF NewCommand, Entry, TypeOK
<1>8. e.plan = <<"start">> \/ e.plan = <<"build", "start">> => ~Running(e.name)
  <2>1. /\ <<"start">> # <<"stop">> /\ <<"start">> # <<"build">>
        /\ <<"start">> # <<"stop", "start">> /\ <<"start">> # <<"build", "stop", "start">>
        /\ <<"build", "start">> # <<"stop">> /\ <<"build", "start">> # <<"build">>
        /\ <<"build", "start">> # <<"start">>
        /\ <<"build", "start">> # <<"stop", "start">>
        /\ <<"build", "start">> # <<"build", "stop", "start">>
    OBVIOUS
  <2>2. m.cmd.verb \in {"stop", "start", "restart", "build"}
    BY <1>3 DEF Command
  <2> QED
    BY <1>4, <1>7, <2>1, <2>2 DEF PlanOf, Pointless
<1> HIDE DEF e
<1>9. \A t \in Abort(prev) : t.kind = "probe"
  BY DEF Abort
<1>10. \A t \in tasks : t.kind # "probe" =>
         \E f \in inflight \ prev : f.name = t.name /\ f.seq = t.seq /\ f.task = "work"
  BY <1>1, <1>4 DEF WorkBelongs, Holds
<1>11. Movable(e, inflight \ prev, tasks \ Abort(prev))
  <2>1. \A f \in inflight \ prev : f.name # e.name
    BY <1>7 DEF prev, Commands
  <2>2. (\A f \in inflight : f.seq # e.seq) /\ (\A t \in tasks : t.seq # e.seq)
    BY <1>1, <1>7 DEF OneTokenPerSeq
  <2> QED
    BY <1>8, <1>9, <1>10, <2>1, <2>2 DEF Movable
<1>12. \A k \in DOMAIN msgs' : IsCompletion(k)' => msgs'[k].seq # e.seq
  BY <1>1, <1>7, TailMessages DEF OneTokenPerSeq, IsCompletion
<1>13. e.plan \in {<< >>, <<"stop">>, <<"start">>, <<"build">>, <<"stop", "start">>,
                   <<"build", "start">>, <<"build", "stop", "start">>}
  BY <1>3, <1>7, PlanOfCases
<1>14. Advance(e, inflight \ prev, tasks \ Abort(prev), Supersede(prev))
  BY <1>5 DEF e
<1>15. e.seq < nextSeq' /\ nextSeq' \in {nextSeq, nextSeq + 1}
  BY <1>1, <1>6, <1>7
<1> QED
  BY <1>6, <1>7, <1>11, <1>12, <1>13, <1>14, <1>15, MovingOn

LEMMA CompleteSafe ==
  ASSUME IInv, AtSelect, msgs # << >>, msgs' = Tail(msgs),
         Head(msgs).kind # "lifecycle", Complete(Head(msgs))
  PROVE  OneInstance' /\ Distinct' /\ OneTokenPerSeq' /\ Steadily'
<1> DEFINE m == Head(msgs)
<1>1. /\ TypeOK /\ OneInstance /\ Distinct /\ OneTokenPerSeq /\ WorkBelongs /\ LiveIsHeld
      /\ StartsOnNothing /\ nextSeq \in Nat /\ spawning = {}
  BY DEF IInv, AtSelect, Steadily, TypeOK
<1>2. 1 \in DOMAIN msgs /\ m = msgs[1]
  BY <1>1 DEF TypeOK
<1>3. UNCHANGED <<nextSeq, live, lost>>
  BY DEF Complete, worldVars
<1> HIDE DEF m
<1>4. \A k \in DOMAIN msgs' : k \in Nat /\ k # 0 /\ k + 1 \in DOMAIN msgs
                              /\ msgs'[k] = msgs[k + 1]
  BY <1>1, TailMessages
<1>5. /\ \A k \in DOMAIN msgs' : IsCompletion(k)' => msgs'[k].seq # m.seq
      /\ \A t \in tasks : t.seq # m.seq
  BY <1>1, <1>2, <1>4 DEF OneTokenPerSeq, IsCompletion, m
<1>6. CASE UNCHANGED <<spawning, children, inflight, tasks, reply, rows>>
  <2>1. OneInstance' /\ Distinct'
    BY <1>1, <1>3, <1>6 DEF OneInstance, Distinct
  <2>2. OneTokenPerSeq'
    BY <1>1, <1>3, <1>6, TailTokens
  <2>3. WorkBelongs' /\ LiveIsHeld'
    BY <1>1, <1>3, <1>6 DEF WorkBelongs, LiveIsHeld, NoStop
  <2>4. StartsOnNothing'
    BY <1>1, <1>6 DEF StartsOnNothing, Running
  <2> QED
    BY <2>1, <2>2, <2>3, <2>4 DEF Steadily
<1>7. ASSUME NEW e \in Current(m),
             IF m.ok THEN Advance([e EXCEPT !.task = "none"], inflight \ {e}, tasks, reply)
             ELSE Settle(e, inflight \ {e}, tasks, reply, "failed")
      PROVE  OneInstance' /\ Distinct' /\ OneTokenPerSeq' /\ Steadily'
  <2>1. e \in inflight /\ e \in Entry /\ e.seq = m.seq /\ e.seq < nextSeq
    BY <1>1 DEF Current, TypeOK, OneTokenPerSeq
  <2>2. ASSUME NEW f \in Entry, f.name = e.name, f.seq = e.seq, f.plan = e.plan
        PROVE  /\ Movable(f, inflight \ {e}, tasks)
               /\ f.plan \in {<< >>, <<"stop">>, <<"start">>, <<"build">>, <<"stop", "start">>,
                              <<"build", "start">>, <<"build", "stop", "start">>}
    <3>1. \A g \in inflight \ {e} : g.name # f.name
      BY <1>1, <2>1, <2>2 DEF Distinct
    <3>2. \A t \in tasks : t.kind # "probe" =>
            \E g \in inflight \ {e} : g.name = t.name /\ g.seq = t.seq /\ g.task = "work"
      BY <1>1, <1>5, <2>1 DEF WorkBelongs
    <3>3. e.plan \in {<< >>, <<"start">>, <<"stop", "start">>}
      BY <1>1, <2>1 DEF Distinct
    <3>4. /\ << >> # <<"start">> /\ << >> # <<"build", "start">>
          /\ <<"start">> # <<"build", "start">> /\ <<"stop", "start">> # <<"build", "start">>
      OBVIOUS
    <3>5. f.plan = <<"start">> \/ f.plan = <<"build", "start">> => ~Running(f.name)
      BY <1>1, <2>1, <2>2, <3>3, <3>4 DEF StartsOnNothing
    <3> QED
      BY <1>5, <2>1, <2>2, <3>1, <3>2, <3>3, <3>5 DEF Movable
  <2>3. CASE m.ok
    <3> DEFINE f == [e EXCEPT !.task = "none"]
    <3>1. f \in Entry /\ f.name = e.name /\ f.seq = e.seq /\ f.plan = e.plan
      BY <2>1 DEF Entry
    <3>2. Advance(f, inflight \ {e}, tasks, reply)
      BY <1>7, <2>3
    <3> HIDE DEF f
    <3>3. f.seq < nextSeq' /\ \A k \in DOMAIN msgs' : IsCompletion(k)' => msgs'[k].seq # f.seq
      BY <1>3, <1>5, <2>1, <3>1
    <3> QED
      BY <1>3, <2>2, <3>1, <3>2, <3>3, MovingOn
  <2>4. CASE ~m.ok
    <3>1. Settle(e, inflight \ {e}, tasks, reply, "failed")
      BY <1>7, <2>4
    <3>2. e.seq < nextSeq' /\ \A k \in DOMAIN msgs' : IsCompletion(k)' => msgs'[k].seq # e.seq
      BY <1>3, <1>5, <2>1
    <3> QED
      BY <1>3, <2>1, <2>2, <3>1, <3>2, MovingOn
  <2> QED
    BY <2>3, <2>4
<1> QED
  BY <1>6, <1>7 DEF Complete, m

LEMMA HandleSafe ==
  ASSUME IInv, Handle
  PROVE  OneInstance' /\ Distinct' /\ OneTokenPerSeq' /\ (pc = "steady" => Steadily)'
<1> DEFINE m == Head(msgs)
<1>1. AtSelect /\ msgs # << >> /\ msgs' = Tail(msgs)
  BY DEF Handle
<1>2. CASE m.kind = "lifecycle" /\ Refuse(m)
  <2>1. UNCHANGED <<kernelVars, tasks, worldVars>>
    BY <1>2 DEF Refuse
  <2>2. OneTokenPerSeq'
    BY <1>1, <2>1, TailTokens DEF IInv, kernelVars
  <2>3. Steadily
    BY <1>1 DEF IInv, AtSelect
  <2>4. WorkBelongs' /\ LiveIsHeld'
    BY <2>1, <2>3 DEF Steadily, WorkBelongs, LiveIsHeld, NoStop, kernelVars, worldVars
  <2>5. StartsOnNothing'
    BY <1>1, <2>1, <2>3 DEF Steadily, StartsOnNothing, Running, AtSelect, kernelVars
  <2> QED
    BY <2>1, <2>2, <2>4, <2>5 DEF IInv, Steadily, OneInstance, Distinct, kernelVars, worldVars
<1>3. CASE m.kind = "lifecycle" /\ Accept(m)
  BY <1>1, <1>3, AcceptSafe
<1>4. CASE m.kind # "lifecycle" /\ Complete(m)
  BY <1>1, <1>4, CompleteSafe
<1> QED
  BY <1>2, <1>3, <1>4 DEF Handle

\* The only step that adds a live instance: there is none of its service then.
LEMMA SpawnSafe ==
  ASSUME IInv, SpawnSucceeds
  PROVE  OneInstance' /\ Distinct' /\ OneTokenPerSeq' /\ Steadily'
<1>1. PICK e \in inflight : SpawnDone(e)
  BY DEF SpawnSucceeds
<1> DEFINE i == [name |-> e.name, gen |-> starts[e.name] + 1, probed |-> e.probed]
           p == [kind |-> "probe", name |-> e.name, seq |-> e.seq, inst |-> i,
                 verdict |-> "checking"]
           g == [e EXCEPT !.task = "probe", !.reply = e.reply /\ ~e.cmd.no_wait]
<1>2. /\ TypeOK /\ OneInstance /\ Distinct /\ OneTokenPerSeq /\ WorkBelongs /\ LiveIsHeld
      /\ StartsOnNothing
  BY <1>1 DEF IInv, SpawnDone, Steadily
<1>3. /\ e \in Entry /\ i.name = e.name
      /\ p.kind = "probe" /\ p.seq = e.seq
      /\ g.name = e.name /\ g.seq = e.seq /\ g.plan = e.plan
  BY <1>2 DEF TypeOK, Entry
<1>4. /\ e.name \in spawning /\ ~Running(e.name) /\ NoStop(e.name) /\ e.plan = << >>
      /\ \A t \in tasks : t.seq # e.seq
      /\ \A k \in DOMAIN msgs : IsCompletion(k) => msgs[k].seq # e.seq
  BY <1>1, <1>2 DEF SpawnDone, StartsOnNothing
<1>5. /\ spawning' = {} /\ children' = children \cup {i} /\ live' = live \cup {i}
      /\ lost' = lost
      /\ \/ tasks' = tasks \cup {p} /\ inflight' = (inflight \ {e}) \cup {g}
         \/ tasks' = tasks /\ inflight' = inflight \ {e}
      /\ UNCHANGED <<pc, nextSeq, msgs>>
  BY <1>1 DEF SpawnDone
<1>6. \A j \in live \ lost : j.name # e.name
  <2>1. \A t \in tasks : t.kind = "stop" => t.inst.name # e.name
    BY <1>2, <1>4 DEF NoStop, Distinct
  <2> QED
    BY <1>2, <1>4, <2>1 DEF LiveIsHeld, Running
<1>7. \A t \in tasks : t.kind # "probe" =>
        \E f \in inflight \ {e} : f.name = t.name /\ f.seq = t.seq /\ f.task = "work"
  BY <1>2, <1>4 DEF WorkBelongs
<1> HIDE DEF i, p, g
<1>8. OneInstance'
  BY <1>2, <1>3, <1>5, <1>6 DEF OneInstance
<1>9. Distinct'
  BY <1>2, <1>3, <1>4, <1>5 DEF Distinct, Running
<1>10. OneTokenPerSeq'
  BY <1>2, <1>3, <1>4, <1>5 DEF OneTokenPerSeq, IsCompletion
<1>11. WorkBelongs'
  BY <1>3, <1>5, <1>7 DEF WorkBelongs
<1>12. LiveIsHeld'
  BY <1>2, <1>3, <1>4, <1>5 DEF LiveIsHeld, NoStop
<1>13. StartsOnNothing'
  <2>1. << >> # <<"start">>
    OBVIOUS
  <2>2. \A f \in inflight \ {e} : f.name # e.name
    BY <1>2 DEF Distinct
  <2> QED
    BY <1>2, <1>3, <1>4, <1>5, <2>1, <2>2 DEF StartsOnNothing, Running
<1> QED
  BY <1>8, <1>9, <1>10, <1>11, <1>12, <1>13 DEF Steadily

LEMMA SpawnFailsSafe ==
  ASSUME IInv, SpawnFails
  PROVE  OneInstance' /\ Distinct' /\ OneTokenPerSeq' /\ Steadily'
<1>1. PICK e \in inflight : /\ pc = "steady" /\ e.name \in spawning /\ spawning' = {}
                            /\ inflight' = inflight \ {e}
  BY DEF SpawnFails
<1>2. /\ OneInstance /\ Distinct /\ OneTokenPerSeq /\ WorkBelongs /\ LiveIsHeld
      /\ StartsOnNothing
  BY <1>1 DEF IInv, Steadily
<1>3. UNCHANGED <<children, nextSeq, msgs, tasks, live, lost>>
  BY DEF SpawnFails, worldVars
<1>4. \A t \in tasks : t.seq # e.seq
  BY <1>1, <1>2 DEF StartsOnNothing
<1>5. OneInstance' /\ Distinct' /\ OneTokenPerSeq'
  BY <1>1, <1>2, <1>3 DEF OneInstance, Distinct, OneTokenPerSeq, IsCompletion
<1>6. WorkBelongs'
  BY <1>1, <1>2, <1>3, <1>4 DEF WorkBelongs
<1>7. LiveIsHeld' /\ StartsOnNothing'
  BY <1>1, <1>2, <1>3 DEF LiveIsHeld, StartsOnNothing, NoStop, Running
<1> QED
  BY <1>5, <1>6, <1>7 DEF Steadily

\* On the way down nothing is added: what is left of the invariant survives.
LEMMA DownwardsSafe ==
  ASSUME IInv, pc' # "steady", live' \ lost' \subseteq live \ lost,
         children' \subseteq children,
         inflight' \subseteq inflight, tasks' \subseteq tasks, nextSeq' = nextSeq,
         msgs' = msgs \/ msgs' = << >>
  PROVE  OneInstance' /\ Distinct' /\ OneTokenPerSeq' /\ (pc = "steady" => Steadily)'
<1>1. DOMAIN msgs' \subseteq DOMAIN msgs /\ \A k \in DOMAIN msgs' : msgs'[k] = msgs[k]
  <2>1. CASE msgs' = msgs
    BY <2>1
  <2>2. CASE msgs' = << >>
    BY <2>2
  <2> QED
    BY <2>1, <2>2
<1> QED
  BY <1>1 DEF IInv, OneInstance, Distinct, OneTokenPerSeq, IsCompletion

LEMMA TeardownSafe ==
  ASSUME IInv, \/ SeeShutdown \/ ChildExits \/ WaitFails \/ SettleCommand \/ BeginTeardown
               \/ BeginWave \/ FinishStop \/ Exit
  PROVE  OneInstance' /\ Distinct' /\ OneTokenPerSeq' /\ (pc = "steady" => Steadily)'
<1>1. /\ pc' # "steady" /\ live' \ lost' \subseteq live \ lost
      /\ children' \subseteq children
      /\ inflight' \subseteq inflight /\ tasks' \subseteq tasks /\ nextSeq' = nextSeq
      /\ msgs' = msgs \/ msgs' = << >>
  BY DEF SeeShutdown, ChildExits, WaitFails, ChildGone, SettleCommand, BeginTeardown,
         BeginWave, FinishStop, LetGo, Exit, worldVars
<1> QED
  BY <1>1, DownwardsSafe

\* A task that ends leaves its token in the queue, or nobody to read it.
LEMMA PostSafe ==
  ASSUME IInv, NEW t \in tasks, NEW kind \in {"build", "stop", "probe"}, NEW ok \in BOOLEAN,
         tasks' = tasks \ {t}, UNCHANGED <<kernelVars, live>>, lost \subseteq lost',
         msgs' = Post([kind |-> kind, name |-> t.name, seq |-> t.seq, ok |-> ok]),
         t.kind = "stop" => t.inst \notin live \ lost'
  PROVE  OneInstance' /\ Distinct' /\ OneTokenPerSeq' /\ (pc = "steady" => Steadily)'
<1> DEFINE m == [kind |-> kind, name |-> t.name, seq |-> t.seq, ok |-> ok]
<1>1. TypeOK /\ OneInstance /\ Distinct /\ OneTokenPerSeq
  BY DEF IInv
<1>2. m \in Message /\ m.seq = t.seq /\ msgs \in Seq(Message)
  BY <1>1 DEF TypeOK, Task, Message, Completion
<1>3. msgs' = msgs \/ msgs' = Append(msgs, m)
  BY DEF Post
<1> HIDE DEF m
<1>4. \A k \in DOMAIN msgs' : \/ k \in DOMAIN msgs /\ msgs'[k] = msgs[k]
                              \/ k = Len(msgs) + 1 /\ k \notin DOMAIN msgs /\ msgs'[k] = m
  <2>1. CASE msgs' = msgs
    BY <2>1
  <2>2. CASE msgs' = Append(msgs, m)
    BY <1>2, <2>2
  <2> QED
    BY <1>3, <2>1, <2>2
<1>5. OneInstance' /\ Distinct'
  BY <1>1 DEF OneInstance, Distinct, kernelVars
<1>6. OneTokenPerSeq'
  BY <1>1, <1>2, <1>4 DEF OneTokenPerSeq, IsCompletion, kernelVars
<1>7. ASSUME pc = "steady" PROVE Steadily'
  <2>1. WorkBelongs /\ LiveIsHeld /\ StartsOnNothing
    BY <1>7 DEF IInv, Steadily
  <2>2. WorkBelongs' /\ LiveIsHeld'
    BY <2>1 DEF WorkBelongs, LiveIsHeld, NoStop, kernelVars
  <2>3. StartsOnNothing'
    BY <1>2, <1>4, <2>1 DEF StartsOnNothing, Running, NoStop, IsCompletion, kernelVars
  <2> QED
    BY <2>2, <2>3 DEF Steadily
<1> QED
  BY <1>5, <1>6, <1>7 DEF kernelVars

LEMMA TaskStepsSafe ==
  ASSUME IInv, NEW t \in tasks,
         BuildEnds(t) \/ StopEnds(t) \/ ProbeConcludes(t) \/ ProbeReports(t)
  PROVE  OneInstance' /\ Distinct' /\ OneTokenPerSeq' /\ (pc = "steady" => Steadily)'
<1>1. CASE BuildEnds(t)
  BY <1>1, PostSafe DEF BuildEnds, worldVars
<1>2. CASE StopEnds(t)
  <2>1. lost \subseteq lost' /\ t.inst \notin live \ lost'
    BY <1>2 DEF StopEnds, LetGo
  <2> QED
    BY <1>2, <2>1, PostSafe DEF StopEnds
<1>3. CASE ProbeReports(t)
  <2>1. (t.verdict = "passed") \in BOOLEAN
    OBVIOUS
  <2> QED
    BY <1>3, <2>1, PostSafe DEF ProbeReports, worldVars
<1>4. CASE ProbeConcludes(t)
  <2>1. PICK v \in {"passed", "gave_up"} : tasks' = (tasks \ {t}) \cup {[t EXCEPT !.verdict = v]}
    BY <1>4 DEF ProbeConcludes
  <2> DEFINE u == [t EXCEPT !.verdict = v]
  <2>2. t \in [kind: {"probe"}, name: Service, seq: Nat, inst: Instance,
               verdict: {"checking", "passed", "gave_up"}]
    BY <1>4 DEF ProbeConcludes, IInv, TypeOK, Task
  <2>3. u.kind = "probe" /\ u.seq = t.seq /\ t.kind = "probe"
    BY <2>2
  <2>4. tasks' = (tasks \ {t}) \cup {u}
    BY <2>1
  <2>5. UNCHANGED <<kernelVars, msgs, live, lost>>
    BY <1>4 DEF ProbeConcludes
  <2> HIDE DEF u
  <2>6. OneInstance' /\ Distinct' /\ OneTokenPerSeq'
    BY <2>3, <2>4, <2>5
       DEF IInv, OneInstance, Distinct, OneTokenPerSeq, IsCompletion, kernelVars
  <2>7. ASSUME pc = "steady" PROVE Steadily'
    <3>1. WorkBelongs /\ LiveIsHeld /\ StartsOnNothing
      BY <2>7 DEF IInv, Steadily
    <3>2. WorkBelongs' /\ LiveIsHeld'
      BY <2>3, <2>4, <2>5, <3>1 DEF WorkBelongs, LiveIsHeld, NoStop, kernelVars
    <3>3. StartsOnNothing'
      BY <2>3, <2>4, <2>5, <3>1 DEF StartsOnNothing, Running, NoStop, IsCompletion, kernelVars
    <3> QED
      BY <3>2, <3>3 DEF Steadily
  <2> QED
    BY <2>5, <2>6, <2>7 DEF kernelVars
<1> QED
  BY <1>1, <1>2, <1>3, <1>4

LEMMA AskSafe ==
  ASSUME IInv, NEW r \in Request, NEW c \in Command, Ask(r, c)
  PROVE  OneInstance' /\ Distinct' /\ OneTokenPerSeq' /\ (pc = "steady" => Steadily)'
<1> DEFINE m == [kind |-> "lifecycle", req |-> r, cmd |-> c]
<1>1. UNCHANGED <<kernelVars, tasks, worldVars>> /\ m.kind = "lifecycle"
  BY DEF Ask
<1>2. msgs' = msgs \/ msgs' = Append(msgs, m)
  BY DEF Ask
<1>3. msgs \in Seq(Message) /\ m \in Message
  BY DEF IInv, TypeOK, Message
<1> HIDE DEF m
<1>4. \A k \in DOMAIN msgs' : IsCompletion(k)' => k \in DOMAIN msgs /\ msgs'[k] = msgs[k]
  <2>1. CASE msgs' = msgs
    BY <2>1
  <2>2. CASE msgs' = Append(msgs, m)
    BY <1>1, <1>3, <2>2 DEF IsCompletion
  <2> QED
    BY <1>2, <2>1, <2>2
<1>5. OneInstance' /\ Distinct' /\ OneTokenPerSeq'
  BY <1>1, <1>4
     DEF IInv, OneInstance, Distinct, OneTokenPerSeq, IsCompletion, kernelVars, worldVars
<1>6. ASSUME pc = "steady" PROVE Steadily'
  BY <1>1, <1>4, <1>6 DEF IInv, Steadily, WorkBelongs, LiveIsHeld, StartsOnNothing, NoStop,
                          Running, IsCompletion, kernelVars, worldVars
<1> QED
  BY <1>1, <1>5, <1>6 DEF kernelVars

LEMMA InitSafe == Init => IInv
<1> SUFFICES ASSUME Init PROVE IInv
  OBVIOUS
<1>1. /\ \A c, d \in children : c.name = d.name => c = d
      /\ live \subseteq children
  BY DEF Init
<1>2. inflight = {} /\ tasks = {} /\ spawning = {} /\ msgs = << >>
  BY DEF Init
<1>3. OneInstance /\ Distinct /\ OneTokenPerSeq
  BY <1>1, <1>2 DEF OneInstance, Distinct, OneTokenPerSeq
<1>4. WorkBelongs /\ LiveIsHeld /\ StartsOnNothing
  BY <1>1, <1>2 DEF WorkBelongs, LiveIsHeld, StartsOnNothing, NoStop
<1> QED
  BY <1>3, <1>4, InitType DEF IInv, Steadily

LEMMA StepSafe == IInv /\ [Next]_vars => IInv'
<1> SUFFICES ASSUME IInv, [Next]_vars
             PROVE  OneInstance' /\ Distinct' /\ OneTokenPerSeq' /\ (pc = "steady" => Steadily)'
  BY StepType DEF IInv
<1>1. CASE Handle
  BY <1>1, HandleSafe
<1>2. CASE SpawnSucceeds
  BY <1>2, SpawnSafe
<1>3. CASE SpawnFails
  BY <1>3, SpawnFailsSafe
<1>4. CASE \/ SeeShutdown \/ ChildExits \/ WaitFails \/ SettleCommand \/ BeginTeardown
           \/ BeginWave \/ FinishStop \/ Exit
  BY <1>4, TeardownSafe
<1>5. CASE \E t \in tasks : BuildEnds(t) \/ StopEnds(t) \/ ProbeConcludes(t) \/ ProbeReports(t)
  BY <1>5, TaskStepsSafe
<1>6. CASE \E r \in Request, c \in Command : Ask(r, c)
  BY <1>6, AskSafe
<1>7. CASE (\E i \in live : Dies(i)) \/ Down \/ Terminated \/ UNCHANGED vars
  <2>1. UNCHANGED <<kernelVars, msgs, tasks>> /\ live' \ lost' \subseteq live \ lost
    BY <1>7 DEF Dies, Down, Terminated, vars, worldVars
  <2>2. OneInstance' /\ Distinct' /\ OneTokenPerSeq'
    BY <2>1 DEF IInv, OneInstance, Distinct, OneTokenPerSeq, IsCompletion, kernelVars
  <2>3. ASSUME pc = "steady" PROVE Steadily'
    BY <2>1, <2>3 DEF IInv, Steadily, WorkBelongs, LiveIsHeld, StartsOnNothing, NoStop,
                      Running, IsCompletion, kernelVars
  <2> QED
    BY <2>1, <2>2, <2>3 DEF kernelVars
<1> QED
  BY <1>1, <1>2, <1>3, <1>4, <1>5, <1>6, <1>7 DEF Next, Kernel

\* However commands, crashes, probes and teardown interleave, in a stack of any
\* size, two instances of a service are never alive at once, unless a runtime
\* has lost sight of one.
THEOREM OneInstanceAlways == Spec => []OneInstance
<1>1. Init => IInv
  BY InitSafe
<1>2. IInv /\ [Next]_vars => IInv'
  BY StepSafe
<1>3. IInv => OneInstance
  BY DEF IInv
<1> QED
  BY <1>1, <1>2, <1>3, PTL DEF Spec

----------------------------------------------------------------------------
(* Going down: nothing left behind, dependents before dependencies, and    *)
(* work exclusive to the end.                                              *)
(*                                                                         *)
(* An instance may be live and neither a child nor in the hands of a stop, *)
(* but then its runtime has failed; commands and their work outlast the    *)
(* steady state and are gone before the teardown.                          *)

\* A live instance the supervisor has not lost is a child or being stopped.
LiveIsAccounted ==
  \A i \in live : \/ i \in children \/ i \in lost
                  \/ \E t \in tasks : t.kind = "stop" /\ t.inst = i

\* What the kernel is done with by the time it is in each of its stages.
Stages ==
  /\ pc # "steady" => spawning = {}
  /\ pc \in {"teardown", "exited"} => inflight = {}
  /\ pc = "exited" => children = {}
  /\ pc # "teardown" => stopping = {}
  /\ stopping \subseteq children
  /\ \A c \in stopping, d \in children : WaveOf[d.name] <= WaveOf[c.name]

DInv == IInv /\ WorkBelongs /\ LiveIsAccounted /\ Stages

\* In the steady state the two invariants differ in little.
LEMMA SteadyDown ==
  ASSUME IInv, pc = "steady", stopping = {}
  PROVE  DInv
BY DEF IInv, DInv, Steadily, LiveIsHeld, LiveIsAccounted, Stages

LEMMA InitDown == Init => DInv
<1>1. Init => pc = "steady" /\ stopping = {}
  BY DEF Init
<1> QED
  BY <1>1, InitSafe, SteadyDown

\* A stop that has ended, or an instance that has, leaves the account right.
LEMMA TaskStepsDown ==
  ASSUME DInv, pc # "steady", NEW t \in tasks,
         BuildEnds(t) \/ StopEnds(t) \/ ProbeConcludes(t) \/ ProbeReports(t)
  PROVE  WorkBelongs' /\ LiveIsAccounted' /\ Stages'
<1>1. /\ UNCHANGED <<kernelVars, live>> /\ lost \subseteq lost'
      /\ t.kind = "stop" => t.inst \notin live \ lost'
      /\ \A u \in tasks' \ tasks : u.kind = "probe"
      /\ \A u \in tasks \ tasks' : u = t
  <2>1. CASE BuildEnds(t) \/ StopEnds(t) \/ ProbeReports(t)
    BY <2>1 DEF BuildEnds, StopEnds, ProbeReports, LetGo, worldVars
  <2>2. CASE ProbeConcludes(t)
    <3>1. PICK v \in {"passed", "gave_up"} :
            tasks' = (tasks \ {t}) \cup {[t EXCEPT !.verdict = v]}
      BY <2>2 DEF ProbeConcludes
    <3>2. t \in [kind: {"probe"}, name: Service, seq: Nat, inst: Instance,
                 verdict: {"checking", "passed", "gave_up"}]
      BY <2>2 DEF ProbeConcludes, DInv, IInv, TypeOK, Task
    <3>3. [t EXCEPT !.verdict = v].kind = "probe" /\ t.kind = "probe"
      BY <3>2
    <3> QED
      BY <2>2, <3>1, <3>3 DEF ProbeConcludes
  <2> QED
    BY <2>1, <2>2
<1>2. WorkBelongs'
  BY <1>1 DEF DInv, WorkBelongs, kernelVars
<1>3. LiveIsAccounted'
  BY <1>1 DEF DInv, LiveIsAccounted, kernelVars
<1>4. Stages'
  BY <1>1 DEF DInv, Stages, kernelVars
<1> QED
  BY <1>2, <1>3, <1>4

LEMMA LeavingDown ==
  ASSUME DInv, SeeShutdown \/ ChildExits \/ WaitFails
  PROVE  WorkBelongs' /\ LiveIsAccounted' /\ Stages'
<1>1. /\ pc = "steady" /\ pc' = "settling" /\ spawning = {} /\ UNCHANGED <<spawning, stopping>>
      /\ UNCHANGED <<inflight, tasks, live>>
      /\ children' \subseteq children
      /\ \A c \in children \ children' : c \in live => c \in lost'
      /\ lost \subseteq lost'
  BY DEF SeeShutdown, ChildExits, WaitFails, ChildGone, LetGo, AtSelect, worldVars
<1> QED
  BY <1>1 DEF DInv, WorkBelongs, LiveIsAccounted, Stages

LEMMA TeardownDown ==
  ASSUME DInv, SettleCommand \/ BeginTeardown \/ BeginWave \/ FinishStop \/ Exit
  PROVE  WorkBelongs' /\ LiveIsAccounted' /\ Stages'
<1> USE DEF DInv, worldVars
<1>1. CASE SettleCommand
  <2>1. PICK e \in inflight : /\ Awaited(e) /\ inflight' = inflight \ {e}
                              /\ tasks' = tasks \ Abort({e})
    BY <1>1 DEF SettleCommand
  <2>2. \A u \in Abort({e}) : u.kind = "probe"
    BY DEF Abort
  <2>3. WorkBelongs'
    BY <2>1 DEF WorkBelongs, Awaited
  <2>4. LiveIsAccounted'
    BY <1>1, <2>1, <2>2 DEF SettleCommand, LiveIsAccounted
  <2>5. Stages'
    BY <1>1, <2>1 DEF SettleCommand, Stages
  <2> QED
    BY <2>3, <2>4, <2>5
<1>2. CASE BeginTeardown
  BY <1>2 DEF BeginTeardown, WorkBelongs, LiveIsAccounted, Stages
<1>3. CASE BeginWave
  <2>1. /\ \A c \in TopWave, d \in children : WaveOf[d.name] <= WaveOf[c.name]
        /\ TopWave \subseteq children
    BY DEF TopWave
  <2> QED
    BY <1>3, <2>1 DEF BeginWave, WorkBelongs, LiveIsAccounted, Stages
<1>4. CASE FinishStop
  BY <1>4 DEF FinishStop, LetGo, WorkBelongs, LiveIsAccounted, Stages
<1>5. CASE Exit
  BY <1>5 DEF Exit, WorkBelongs, LiveIsAccounted, Stages
<1> QED
  BY <1>1, <1>2, <1>3, <1>4, <1>5

LEMMA StepDown == DInv /\ [Next]_vars => DInv'
<1> SUFFICES ASSUME DInv, [Next]_vars PROVE DInv'
  OBVIOUS
<1>1. IInv /\ IInv'
  BY StepSafe DEF DInv
<1>2. CASE Handle \/ SpawnSucceeds \/ SpawnFails
  <2>1. pc = "steady" /\ UNCHANGED <<pc, stopping>>
    BY <1>2 DEF Handle, AtSelect, Refuse, Accept, Complete, SpawnSucceeds, SpawnDone,
                SpawnFails, kernelVars
  <2>2. pc' = "steady" /\ stopping' = {}
    BY <2>1 DEF DInv, Stages
  <2> QED
    BY <1>1, <2>2 DEF IInv, DInv, Steadily, LiveIsHeld, LiveIsAccounted, Stages
<1>3. CASE SeeShutdown \/ ChildExits \/ WaitFails
  BY <1>1, <1>3, LeavingDown DEF DInv
<1>4. CASE SettleCommand \/ BeginTeardown \/ BeginWave \/ FinishStop \/ Exit
  BY <1>1, <1>4, TeardownDown DEF DInv
<1>5. CASE \E t \in tasks : BuildEnds(t) \/ StopEnds(t) \/ ProbeConcludes(t) \/ ProbeReports(t)
  <2>1. UNCHANGED <<pc, stopping>>
    BY <1>5 DEF BuildEnds, StopEnds, ProbeConcludes, ProbeReports, kernelVars
  <2>2. CASE pc = "steady"
    <3>1. pc' = "steady" /\ stopping' = {}
      BY <2>1, <2>2 DEF DInv, Stages
    <3> QED
      BY <1>1, <3>1 DEF IInv, DInv, Steadily, LiveIsHeld, LiveIsAccounted, Stages
  <2>3. CASE pc # "steady"
    BY <1>1, <1>5, <2>3, TaskStepsDown DEF DInv
  <2> QED
    BY <2>2, <2>3
<1>6. CASE \/ \E i \in live : Dies(i)
           \/ \E r \in Request, c \in Command : Ask(r, c)
           \/ Down \/ Terminated \/ UNCHANGED vars
  <2>1. UNCHANGED <<kernelVars, tasks>> /\ live' \ lost' \subseteq live \ lost
    BY <1>6 DEF Dies, Ask, Down, Terminated, vars, worldVars
  <2> QED
    BY <1>1, <2>1 DEF DInv, WorkBelongs, LiveIsAccounted, Stages, kernelVars
<1> QED
  BY <1>2, <1>3, <1>4, <1>5, <1>6 DEF Next, Kernel

LEMMA DownInvariant == Spec => []DInv
<1>1. Init => DInv
  BY InitDown
<1>2. DInv /\ [Next]_vars => DInv'
  BY StepDown
<1> QED
  BY <1>1, <1>2, PTL DEF Spec

\* Once the kernel is out of its loop, nothing it started is left: only an
\* instance whose wait or whose finish_stop had failed, and probes, which touch
\* nothing.
THEOREM NothingLeftBehindAlways == Spec => []NothingLeftBehind
<1>1. DInv => NothingLeftBehind
  BY DEF DInv, NothingLeftBehind, WorkBelongs, LiveIsAccounted, Stages, IInv, TypeOK
<1> QED
  BY <1>1, DownInvariant, PTL

\* Dependents go before their dependencies, for any number of waves.
THEOREM DependentsFirstAlways == Spec => []DependentsFirst
<1>1. DInv => DependentsFirst
  <2> SUFFICES ASSUME DInv, NEW c \in stopping, NEW i \in live,
                      WaveOf[i.name] > WaveOf[c.name]
               PROVE  i \in lost
    BY DEF DependentsFirst
  <2>1. inflight = {} /\ \A d \in children : WaveOf[d.name] <= WaveOf[c.name]
    BY DEF DInv, Stages
  <2>2. i.name \in Service /\ c.name \in Service
    BY DEF DInv, IInv, TypeOK, Instance
  <2>3. WaveOf[i.name] \in Nat /\ WaveOf[c.name] \in Nat
    BY <2>2, ConstantsAssumption
  <2>4. i \notin children
    BY <2>1, <2>3
  <2> QED
    BY <2>1, <2>4 DEF DInv, WorkBelongs, LiveIsAccounted
<1> QED
  BY <1>1, DownInvariant, PTL

LEMMA AtMostOne ==
  ASSUME NEW S, \A x, y \in S : x = y
  PROVE  Cardinality(S) <= 1
<1>1. CASE S = {}
  BY <1>1, FS_EmptySet
<1>2. CASE S # {}
  <2>1. PICK x \in S : TRUE
    BY <1>2
  <2>2. S = {x}
    BY <2>1
  <2> QED
    BY <2>2, FS_Singleton
<1> QED
  BY <1>1, <1>2

\* A service never has two of a build, a stop and a spawn going at once, not
\* even while the supervisor is on its way out.
THEOREM WorkIsExclusiveAlways == Spec => []WorkIsExclusive
<1>1. DInv => WorkIsExclusive
  <2> SUFFICES ASSUME DInv, NEW s \in Service
               PROVE  Cardinality({t \in tasks : t.kind \in {"build", "stop"} /\ t.name = s}
                                  \cup {x \in {"spawn"} : s \in spawning}) <= 1
    BY DEF WorkIsExclusive
  <2> DEFINE W == {t \in tasks : t.kind \in {"build", "stop"} /\ t.name = s}
             P == {x \in {"spawn"} : s \in spawning}
  <2>1. \A t \in W : \E e \in inflight : e.name = s /\ e.seq = t.seq
    BY DEF DInv, WorkBelongs
  <2>2. \A t, u \in W : t = u
    BY <2>1 DEF DInv, IInv, Distinct, OneTokenPerSeq
  <2>3. \A x, y \in W \cup P : x = y
    <3>1. CASE s \in spawning
      <4>1. \A e \in inflight, t \in tasks : e.name = s => t.seq # e.seq
        BY <3>1 DEF DInv, IInv, Stages, Steadily, StartsOnNothing
      <4>2. W = {}
        BY <2>1, <4>1
      <4> QED
        BY <4>2
    <3>2. CASE s \notin spawning
      BY <2>2, <3>2
    <3> QED
      BY <3>1, <3>2
  <2>4. Cardinality(W \cup P) <= 1
    <3> HIDE DEF W, P
    <3> QED
      BY <2>3, AtMostOne
  <2> QED
    BY <2>4
<1> QED
  BY <1>1, DownInvariant, PTL
=============================================================================
