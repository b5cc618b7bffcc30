-------------------------------- MODULE Bus --------------------------------
(***************************************************************************)
(* What the supervisor observes, from the pipes of its services to the     *)
(* terminal, the log files and the rows of `arig ps` (src/event.rs,        *)
(* src/sink/, src/supervisor/logs.rs and the tracker's task in             *)
(* src/state.rs).                                                          *)
(*                                                                         *)
(* Everything goes through one bounded broadcast channel.  Emitters count  *)
(* an event, then send it; the sink task and the tracker's task follow at  *)
(* their own pace, and the channel makes room by dropping what they have   *)
(* not read.  The kernel is here what it does to its output: it spawns     *)
(* services, reports one that dies with the end of its output, stops the   *)
(* others and waits for the sinks before the process ends.  Of its own     *)
(* lines only those that dump a tail are here.                             *)
(***************************************************************************)
EXTENDS Integers, Sequences, SequencesExt, FiniteSets, StateTracker

CONSTANTS
  Order,      \* the services, in the order in which they are spawned
  Stream,     \* stdout and stderr
  Capacity,   \* of the broadcast channel (event.rs: 4096)
  Broken,     \* log files that may turn out not to open
  TailLines,  \* of the ring kept for each service (logs.rs: 50)
  MaxLines    \* bound: lines each service writes to each of its streams

ASSUME ConstantsAssumption ==
  /\ Order \in Seq(Range(Order)) /\ Len(Order) > 0 /\ IsInjective(Order)
  /\ IsFiniteSet(Stream)
  /\ Capacity \in Nat \ {0} /\ TailLines \in Nat \ {0} /\ MaxLines \in [Range(Order) -> Nat]
  /\ Broken \subseteq Range(Order) \cup {"_arig"}

Service == Range(Order)
Session == "_arig"                \* the log of arig's own lines
File    == Service \cup {Session}
Pipe    == Service \X Stream
Kernel  == <<"kernel">>
Sinks   == <<"sinks">>
Emitter == Pipe \cup {Kernel, Sinks}

VARIABLES
  emitted,    \* Bus::emitted
  sent,       \* the events sent so far; the channel keeps the last Capacity of them
  say,        \* what each emitter is about to emit, in order
  counted,    \* emitters that have counted the first event of theirs, but not sent it
  next,       \* next[r]: the position receiver r reads next
  owed,       \* events the sink task has written and not counted yet
  cursor,     \* Cursor: events it is done with
  console,    \* positions the terminal tells of: the line is there, or a notice of its loss
  disk,       \* positions the log files tell of
  file,       \* FileSink::files
  rows,       \* the tracker's rows
  missed,     \* history: services of which the tracker missed a change
  alive,      \* services that run
  children,   \* services the kernel has spawned and not seen end
  wrote,      \* lines written to each pipe
  unread,     \* of them, lines that nobody has read yet
  reader,     \* the task of pipe_output on each pipe
  held,       \* pipes held open by what a service left behind when it died
  tail,       \* LogTail of each service: pairs of a stream and a line number
  pc, cur,    \* where the kernel is, and with which service
  dump,       \* the tail that was dumped, if one was
  hasty,      \* history: drain_io timed out before the dump
  target,     \* drain's target
  mark,       \* history: how many events had been sent when drain was called
  gaveUp      \* history: drain returned at its deadline

chanVars  == <<emitted, sent, say, counted>>
sinkVars  == <<owed, cursor, console, disk, file>>
rowVars   == <<rows, missed>>
pipeVars  == <<alive, children, wrote, unread, reader, held, tail>>
kernVars  == <<pc, cur, dump, hasty, target, mark, gaveUp>>
vars == <<chanVars, next, sinkVars, rowVars, pipeVars, kernVars>>

Receiver == {"sink", "tracker"}
Kind     == {"arig", "line", "started", "exited", "complaint"}
Event    == [kind : Kind, of : File]

Ev(kind, of) == [kind |-> kind, of |-> of]
Arig == Ev("arig", Session)       \* a line of arig's own

\* The process ends when `up` returns, and every task with it.
Up == pc # "ended"

Idle(e) == say[e] = <<>>
Says(e, events) == say' = [say EXCEPT ![e] = @ \o events]

----------------------------------------------------------------------------
(* Bus::emit and the channel *)

Sends(e) == sent' = Append(sent, Head(say[e]))
Said(e)  == say' = [say EXCEPT ![e] = Tail(@)]

\* Faulty: an event is counted once it has been sent.
EmitSendFirst(e) ==
  /\ Up /\ ~Idle(e)
  /\ \/ /\ e \notin counted
        /\ Sends(e) /\ counted' = counted \cup {e}
        /\ UNCHANGED <<emitted, say>>
     \/ /\ e \in counted
        /\ emitted' = emitted + 1
        /\ Said(e) /\ counted' = counted \ {e}
        /\ UNCHANGED sent
  /\ UNCHANGED <<next, sinkVars, rowVars, pipeVars, kernVars>>

\* An event is counted, then sent.
Emit(e) ==
  /\ Up /\ ~Idle(e)
  /\ \/ /\ e \notin counted
        /\ emitted' = emitted + 1 /\ counted' = counted \cup {e}
        /\ UNCHANGED <<sent, say>>
     \/ /\ e \in counted
        /\ Sends(e) /\ Said(e) /\ counted' = counted \ {e}
        /\ UNCHANGED emitted
  /\ UNCHANGED <<next, sinkVars, rowVars, pipeVars, kernVars>>

\* The same for the kernel, whose two steps nobody can tell apart: the counter
\* is read by drain only, and the kernel emits nothing while it drains.
KernelEmits ==
  /\ Up /\ ~Idle(Kernel)
  /\ emitted' = emitted + 1 /\ Sends(Kernel) /\ Said(Kernel)
  /\ UNCHANGED <<counted, next, sinkVars, rowVars, pipeVars, kernVars>>

\* The oldest event the channel still holds.
Oldest == IF Len(sent) > Capacity THEN Len(sent) - Capacity + 1 ELSE 1

\* recv: the next event, or Lagged with the number of those that are gone,
\* and the reader resumes with the oldest there is.
Received(r) ==
  IF next[r] < Oldest THEN [from |-> next[r], n |-> Oldest - next[r], lost |-> TRUE]
                      ELSE [from |-> next[r], n |-> 1, lost |-> FALSE]

Receives(r) ==
  /\ Up /\ next[r] <= Len(sent)
  /\ next' = [next EXCEPT ![r] = @ + Received(r).n]

----------------------------------------------------------------------------
(* sink::spawn: one task feeds the console, then the log files *)

\* What of an event is shown.
Printable(ev) == ev.kind \in {"arig", "complaint", "line"}
LogOf(ev) == IF ev.kind \in {"line", "started"} THEN ev.of ELSE Session

\* A line, or the notice that events were lost.  A start is shown nowhere, but
\* opens the file of its service.
Shown(it) == it.lost \/ Printable(sent[it.from])

\* The positions an item stands for.
Covers(it) == it.from .. it.from + it.n - 1

\* The file an item goes to; none for an event FileSink has no use for.
Wanted(it) ==
  IF it.lost THEN {Session}
  ELSE IF sent[it.from].kind = "exited" THEN {} ELSE {LogOf(sent[it.from])}

\* Faulty: what is recorded is files; there is none.
OpensOrComplains(f) ==
  \/ file' = [file EXCEPT ![f] = "open"] /\ UNCHANGED say
  \/ f \in Broken /\ Says(Sinks, <<Ev("complaint", f)>>) /\ UNCHANGED file

\* FileSink::file: opened when first wanted.  One that cannot be opened is
\* recorded as such before the complaint about it is emitted.
Opens(f) ==
  \/ file' = [file EXCEPT ![f] = "open"] /\ UNCHANGED say
  \/ f \in Broken /\ file' = [file EXCEPT ![f] = "broken"] /\ Says(Sinks, <<Ev("complaint", f)>>)

\* ConsoleSink::write and dropped.
WritesConsole(it) == console' = IF Shown(it) THEN console \cup Covers(it) ELSE console

\* Faulty: what is lost is noted where the session log is open already.
WritesFileIfOpen(it) ==
  IF it.lost /\ file[Session] # "open" THEN UNCHANGED <<say, file, disk>>
  ELSE /\ IF \E f \in Wanted(it) : file[f] = "unopened" THEN \E f \in Wanted(it) : Opens(f)
                                                        ELSE UNCHANGED <<say, file>>
       /\ disk' = IF Shown(it) /\ \E f \in Wanted(it) : file'[f] = "open"
                  THEN disk \cup Covers(it) ELSE disk

\* FileSink::write and dropped: what is lost is noted in the session log only.
WritesFile(it) ==
  /\ IF \E f \in Wanted(it) : file[f] = "unopened" THEN \E f \in Wanted(it) : Opens(f)
                                                    ELSE UNCHANGED <<say, file>>
  /\ disk' = IF Shown(it) /\ \E f \in Wanted(it) : file'[f] = "open"
             THEN disk \cup Covers(it) ELSE disk

\* Faulty: a gap is one event.
DoneWithOne(n) == cursor + 1

\* Cursor::advance.
DoneWith(n) == cursor + n

\* One turn of the loop, in two steps if writing makes FileSink say something,
\* which is emitted before the cursor moves.
SinkReceives ==
  LET it == Received("sink") IN
  /\ owed = 0 /\ Receives("sink")
  /\ WritesConsole(it) /\ WritesFile(it)
  /\ IF say' = say THEN cursor' = DoneWith(it.n) /\ owed' = 0
                   ELSE owed' = it.n /\ UNCHANGED cursor
  /\ UNCHANGED <<emitted, sent, counted, rowVars, pipeVars, kernVars>>

SinkAdvances ==
  /\ Up /\ owed > 0 /\ Idle(Sinks)
  /\ cursor' = DoneWith(owed) /\ owed' = 0
  /\ UNCHANGED <<chanVars, next, console, disk, file, rowVars, pipeVars, kernVars>>

SinkTask == SinkReceives \/ SinkAdvances

----------------------------------------------------------------------------
(* state::spawn: the tracker applies what it receives and ignores a gap *)

Applied(r, ev) ==
  CASE ev.kind = "started" -> ServiceStarted(r, ev.of, FALSE)
    [] ev.kind = "exited"  -> ServiceExited(r, ev.of)
    [] OTHER               -> r

Changes(ev) == ev.kind \in {"started", "exited"}

\* Services a change of which is in the gap.
Missed == {sent[i].of : i \in {j \in Covers(Received("tracker")) : Changes(sent[j])}}

\* Faulty: after a gap it subscribes anew, and goes on with what comes next.
TrackerResubscribes ==
  /\ Up /\ next["tracker"] <= Len(sent)
  /\ IF Received("tracker").lost
     THEN /\ next' = [next EXCEPT !["tracker"] = Len(sent) + 1]
          /\ missed' = missed \cup Missed
          /\ UNCHANGED rows
     ELSE /\ Receives("tracker")
          /\ rows' = Applied(rows, sent[next["tracker"]])
          /\ UNCHANGED missed
  /\ UNCHANGED <<chanVars, sinkVars, pipeVars, kernVars>>

TrackerTask ==
  /\ Receives("tracker")
  /\ IF Received("tracker").lost
     THEN missed' = missed \cup Missed /\ UNCHANGED rows
     ELSE rows' = Applied(rows, sent[next["tracker"]]) /\ UNCHANGED missed
  /\ UNCHANGED <<chanVars, sinkVars, pipeVars, kernVars>>

----------------------------------------------------------------------------
(* Services and pipe_output *)

Open(p) == p[1] \in alive \/ p \in held

\* A line written by the service, or by a process it left behind.
Writes(p) ==
  /\ Up /\ Open(p) /\ reader[p] = "reading" /\ wrote[p] < MaxLines[p[1]]
  /\ wrote' = [wrote EXCEPT ![p] = @ + 1]
  /\ unread' = [unread EXCEPT ![p] = @ + 1]
  /\ UNCHANGED <<chanVars, next, sinkVars, rowVars, alive, children, reader, held, tail, kernVars>>

\* It may leave processes behind that keep its streams.
Leaves(s) ==
  /\ alive' = alive \ {s}
  /\ \E P \in SUBSET {p \in Pipe : p[1] = s /\ MaxLines[s] > 0} : held' = held \cup P

Dies(s) ==
  /\ Up /\ s \in alive /\ Leaves(s)
  /\ UNCHANGED <<chanVars, next, sinkVars, rowVars, children, wrote, unread, reader, tail, kernVars>>

\* push_tail: the oldest line makes room.
Pushed(q, line) == Append(IF Len(q) >= TailLines THEN Tail(q) ELSE q, line)

\* A line is pushed to the tail, then emitted.  dump_tail holds the tail's lock.
Reads(p) ==
  /\ Up /\ reader[p] = "reading" /\ unread[p] > 0 /\ Idle(p)
  /\ ~(pc = "dumping" /\ cur = p[1] /\ ~Idle(Kernel))
  /\ unread' = [unread EXCEPT ![p] = @ - 1]
  /\ tail' = [tail EXCEPT ![p[1]] = Pushed(@, <<p[2], wrote[p] - unread'[p]>>)]
  /\ Says(p, <<Ev("line", p[1])>>)
  /\ UNCHANGED <<emitted, sent, counted, next, sinkVars, rowVars, alive, children, wrote, reader, held, kernVars>>

\* next_line fails, on a line that is no UTF-8: nobody reads on, nor could.
ReaderFails(p) ==
  /\ Up /\ reader[p] = "reading" /\ unread[p] > 0 /\ Idle(p)
  /\ reader' = [reader EXCEPT ![p] = "failed"]
  /\ UNCHANGED <<chanVars, next, sinkVars, rowVars, alive, children, wrote, unread, held, tail, kernVars>>

----------------------------------------------------------------------------
(* The kernel *)

\* The kernel emits all it has to say of one step before it takes the next.
KernelAt(l) == Up /\ pc = l /\ Idle(Kernel)

\* The streams of s are read.
Piped(s) == \A p \in Pipe : p[1] = s => reader[p] # "unborn"
Spawned  == \A s \in Service : Piped(s)

\* spawn_service: the process is there, then its pipes are read.
Spawns ==
  /\ KernelAt("spawning")
  /\ \E i \in DOMAIN Order :
       /\ ~Piped(Order[i]) /\ \A j \in 1 .. i - 1 : Piped(Order[j])
       /\ cur' = Order[i]
       /\ alive' = alive \cup {Order[i]} /\ children' = children \cup {Order[i]}
  /\ pc' = "piping"
  /\ UNCHANGED <<chanVars, next, sinkVars, rowVars, wrote, unread, reader, held, tail, dump, hasty,
                 target, mark, gaveUp>>

Pipes ==
  /\ KernelAt("piping")
  /\ pc' = "spawning"
  /\ reader' = [p \in Pipe |-> IF p[1] = cur THEN "reading" ELSE reader[p]]
  /\ Says(Kernel, <<Ev("started", cur)>>)
  /\ UNCHANGED <<emitted, sent, counted, next, sinkVars, rowVars, alive, children, wrote, unread, held, tail,
                 cur, dump, hasty, target, mark, gaveUp>>

\* report_unexpected_exit: the news, unless what ended is the wait and not the
\* service, and then the end of its output, as soon as the readers are done
\* with it.
Reports(s) ==
  /\ KernelAt("spawning") /\ Spawned
  /\ \/ s \notin alive /\ Says(Kernel, <<Ev("exited", s)>>)
     \/ UNCHANGED say
  /\ pc' = "joining" /\ cur' = s
  /\ children' = children \ {s}
  /\ UNCHANGED <<emitted, sent, counted, next, sinkVars, rowVars, alive, wrote, unread, reader, held, tail,
                 dump, hasty, target, mark, gaveUp>>

\* The reader has found the end of the stream, or failed.
Ended(p) == Idle(p) /\ (reader[p] = "failed" \/ (~Open(p) /\ unread[p] = 0))

\* `arig down` instead.
IsStopped ==
  /\ KernelAt("spawning") /\ Spawned
  /\ pc' = "stopping"
  /\ UNCHANGED <<chanVars, next, sinkVars, rowVars, pipeVars, cur, dump, hasty, target, mark, gaveUp>>

Joined == \A p \in Pipe : p[1] = cur => Ended(p)

\* dump_tail.
Dumps ==
  /\ pc' = "dumping"
  /\ dump' = tail[cur]
  /\ Says(Kernel, [i \in 1 .. Len(dump') |-> Arig])
  /\ UNCHANGED <<emitted, sent, counted, next, sinkVars, rowVars, pipeVars,
                 cur, target, mark, gaveUp>>

\* Faulty: the tail is dumped first.
DrainIoAfter == KernelAt("joining") /\ Dumps /\ UNCHANGED hasty

\* drain_io: up to half a second for each reader.
DrainIo == KernelAt("joining") /\ Joined /\ Dumps /\ UNCHANGED hasty

DrainIoTimesOut == KernelAt("joining") /\ ~Joined /\ Dumps /\ hasty' = TRUE

\* shutdown, for one service.  One that docker could not stop writes on, like
\* a process left behind.  Its drain_io holds up the kernel and changes nothing.
Stops(s) ==
  /\ KernelAt("dumping") \/ KernelAt("stopping")
  /\ s \in children
  /\ pc' = "stopping"
  /\ IF s \in alive THEN Leaves(s) ELSE UNCHANGED <<alive, held>>
  /\ children' = children \ {s}
  /\ Says(Kernel, <<Ev("exited", s)>>)
  /\ UNCHANGED <<emitted, sent, counted, next, sinkVars, rowVars, wrote, unread, reader, tail,
                 cur, dump, hasty, target, mark, gaveUp>>

\* Bus::drain, called by `up` when the kernel is done.
CallsDrain ==
  /\ KernelAt("dumping") \/ KernelAt("stopping")
  /\ children = {}
  /\ pc' = "draining"
  /\ target' = emitted
  /\ mark' = Len(sent)
  /\ UNCHANGED <<chanVars, next, sinkVars, rowVars, pipeVars, cur, dump, hasty, gaveUp>>

DrainReturns ==
  /\ KernelAt("draining") /\ cursor >= target
  /\ pc' = "ended"
  /\ UNCHANGED <<chanVars, next, sinkVars, rowVars, pipeVars, cur, dump, hasty, target, mark, gaveUp>>

DrainGivesUp ==
  /\ KernelAt("draining") /\ cursor < target
  /\ pc' = "ended" /\ gaveUp' = TRUE
  /\ UNCHANGED <<chanVars, next, sinkVars, rowVars, pipeVars, cur, dump, hasty, target, mark>>

KernelTask ==
  \/ \E s \in Service : Reports(s) \/ Stops(s)
  \/ Spawns \/ Pipes \/ IsStopped \/ DrainIo \/ DrainIoTimesOut \/ CallsDrain \/ DrainReturns

----------------------------------------------------------------------------
(* The specification *)

Init ==
  /\ emitted = 0 /\ sent = <<>> /\ counted = {}
  /\ say = [e \in Emitter |-> <<>>]
  /\ next = [r \in Receiver |-> 1]
  /\ owed = 0 /\ cursor = 0 /\ console = {} /\ disk = {}
  /\ file = [f \in File |-> "unopened"]
  /\ rows = [s \in Service |-> NoRow] /\ missed = {}
  /\ alive = {} /\ children = {} /\ held = {}
  /\ wrote = [p \in Pipe |-> 0] /\ unread = [p \in Pipe |-> 0]
  /\ reader = [p \in Pipe |-> "unborn"]
  /\ tail = [s \in Service |-> <<>>]
  /\ pc = "spawning" /\ cur = Order[1]
  /\ dump = <<>> /\ hasty = FALSE /\ target = 0 /\ mark = 0 /\ gaveUp = FALSE

Next ==
  \/ \E e \in Emitter \ {Kernel} : Emit(e)
  \/ SinkTask \/ TrackerTask \/ KernelEmits \/ KernelTask \/ DrainGivesUp
  \/ \E p \in Pipe : Writes(p) \/ Reads(p) \/ ReaderFails(p)
  \/ \E s \in Service : Dies(s)

Spec == Init /\ [][Next]_vars

\* The runtime runs the tasks that can go on: those that emit, the sinks', and
\* the kernel's.  Services, and deadlines, do as they please.
Fairness ==
  /\ \A e \in Emitter \ {Kernel} : WF_vars(Emit(e))
  /\ WF_vars(SinkTask) /\ WF_vars(KernelTask)

FairSpec == Spec /\ Fairness

----------------------------------------------------------------------------
(* Properties *)

\* Every variable has its type.
TypeOK ==
  /\ emitted \in Nat /\ cursor \in Nat /\ target \in Nat /\ mark \in Nat
  /\ sent \in Seq(Event) /\ say \in [Emitter -> Seq(Event)] /\ counted \subseteq Emitter
  /\ next \in [Receiver -> Nat \ {0}]
  /\ owed \in Nat
  /\ console \subseteq Nat /\ disk \subseteq Nat
  /\ file \in [File -> {"unopened", "open", "broken"}]
  /\ rows \in [Service -> Row] /\ missed \subseteq Service
  /\ alive \subseteq Service /\ children \subseteq Service /\ held \subseteq Pipe
  /\ wrote \in [Pipe -> Nat] /\ unread \in [Pipe -> Nat]
  /\ reader \in [Pipe -> {"unborn", "reading", "failed"}]
  /\ tail \in [Service -> Seq(Stream \X Nat)] /\ dump \in Seq(Stream \X Nat)
  /\ pc \in {"spawning", "piping", "joining", "dumping", "stopping", "draining", "ended"}
  /\ cur \in Service /\ hasty \in BOOLEAN /\ gaveUp \in BOOLEAN

\* What was to be shown of position i is on the terminal and in the log files,
\* or a notice that it is lost.  A file that could not be opened holds nothing,
\* and there are no notices without the session log.
OnConsole(i) == Printable(sent[i]) => i \in console

OnDisk(i) ==
  Printable(sent[i]) => i \in disk \/ \E f \in {Session, LogOf(sent[i])} : file[f] = "broken"

\* "Sinks report the gap rather than resuming mid-stream as if nothing
\* happened" (LogSink::dropped): whatever the sinks are done with has been
\* written or is in a gap they tell of, whoever emits while they write.
NoSilentGap == \A i \in 1 .. cursor : OnConsole(i) /\ OnDisk(i)

\* "Without this the process can exit with its last lines still queued"
\* (Bus::drain): when the process ends before drain's deadline, nothing whose
\* emit had returned when drain was called is missing.
DrainMeansWritten ==
  pc = "ended" /\ ~gaveUp => \A i \in 1 .. mark : OnConsole(i) /\ OnDisk(i)

\* A log file that cannot be opened is complained about once (FileSink::file),
\* though the complaint comes back round as a line to write.
OneComplaint ==
  \A f \in File : Cardinality({i \in 1 .. Len(sent) : sent[i] = Ev("complaint", f)}) <= 1

\* The lines of q are numbered up to n[st], the last one of each stream st, and
\* none is left out.
Unbroken(q, n) ==
  /\ \A i \in 1 .. Len(q) : (\A j \in i + 1 .. Len(q) : q[j][1] # q[i][1]) => q[i][2] = n[q[i][1]]
  /\ \A i, j \in 1 .. Len(q) :
       i < j /\ q[j][1] = q[i][1] /\ (\A k \in i + 1 .. j - 1 : q[k][1] # q[i][1]) => q[j][2] = q[i][2] + 1

\* q is the end of what a service wrote, n[st] lines to each stream st, as far as
\* the ring holds it.
EndOf(q, n) == Len(q) = Min({TailLines, SumFunction(n)}) /\ Unbroken(q, n)

\* dump_tail shows the end of what the service wrote, in the order each of its
\* streams wrote it, and as much as the ring holds, unless a reader was given
\* up on or failed, whatever the readers do meanwhile.
DumpIsTheEnd ==
  pc = "dumping" /\ ~hasty /\ (\A st \in Stream : reader[<<cur, st>>] = "reading") =>
    EndOf(dump, [st \in Stream |-> wrote[<<cur, st>>]])

\* "Missed events cannot be recovered" (state::spawn), but no others are lost:
\* a tracker that has caught up has, for every service it missed nothing of,
\* the row that all its events make.
OnlyMissedRowsAreStale ==
  next["tracker"] = Len(sent) + 1 =>
    \A s \in Service :
      s \notin missed => rows[s] = FoldLeft(Applied, [t \in Service |-> NoRow], sent)[s]

\* drain does not need its deadline, however far the sinks have fallen behind
\* and whatever services go on writing.
DrainEnds == pc = "draining" ~> pc = "ended"
=============================================================================
