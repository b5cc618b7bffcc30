------------------------------ MODULE Bus_proofs ------------------------------
(***************************************************************************)
(* What the sinks are done with is written or told of, drain waits for all *)
(* of it, the tracker's rows are stale only where it missed a change, and  *)
(* the dump of a dead service is the end of what it wrote: for any         *)
(* services, lines and capacity of the channel, and however far the sinks  *)
(* and the tracker fall behind.                                            *)
(***************************************************************************)
EXTENDS Bus, StateTracker_proofs, FiniteSetTheorems, SequenceTheorems, WellFoundedInduction

----------------------------------------------------------------------------
(* The invariant *)

\* What each emitter says.
Sayable(e) ==
  IF e = Sinks THEN {Ev("complaint", f) : f \in Broken}
  ELSE IF e = Kernel THEN {Arig} \cup {Ev(k, s) : k \in {"started", "exited"}, s \in Service}
  ELSE {Ev("line", s) : s \in Service}

Sayings == UNION {Sayable(e) : e \in Emitter}

Spoken ==
  /\ \A e \in Emitter : say[e] \in Seq(Sayable(e))
  /\ sent \in Seq(Sayings)

\* What is counted is sent, or about to be.
Counted == IsFiniteSet(counted) /\ emitted = Len(sent) + Cardinality(counted)

\* The sink task has received what it has counted, and what it is busy with.
Kept == next["sink"] <= Len(sent) + 1 /\ cursor + owed = next["sink"] - 1

\* What it has received, it has written.
Written == \A i \in 1 .. next["sink"] - 1 : OnConsole(i) /\ OnDisk(i)

\* It complains of one file at a time, which it has recorded as broken.
Complaining ==
  /\ owed = 0 => Idle(Sinks)
  /\ Len(say[Sinks]) <= 1
  /\ ~Idle(Sinks) => file[Head(say[Sinks]).of] = "broken"

Complained ==
  \A f \in File : \A i \in 1 .. Len(sent) : sent[i] = Ev("complaint", f) =>
    /\ file[f] = "broken"
    /\ Idle(Sinks) \/ Head(say[Sinks]) # Ev("complaint", f)
    /\ \A j \in 1 .. Len(sent) : sent[j] = Ev("complaint", f) => i = j

\* What drain waits for is all there was when it was called.
Drained ==
  /\ mark <= Len(sent)
  /\ pc \in {"draining", "ended"} => mark <= target
  /\ pc = "ended" /\ ~gaveUp => target <= cursor

Consumed == \A p \in Pipe : unread[p] <= wrote[p]

IInv == /\ TypeOK /\ Spoken /\ Counted /\ Kept /\ Written
        /\ Complaining /\ Complained /\ Drained /\ Consumed

----------------------------------------------------------------------------
(* What is said *)

\* The kernel, the sinks and the pipes are different emitters.
LEMMA Emitters ==
  /\ Kernel \in Emitter /\ Sinks \in Emitter /\ Kernel # Sinks
  /\ \A p \in Pipe : p \in Emitter /\ p # Kernel /\ p # Sinks /\ p[1] \in Service /\ p[2] \in Stream
<1>1. Kernel # Sinks
  <2>1. Kernel[1] # Sinks[1]
    BY DEF Kernel, Sinks
  <2> QED BY <2>1
<1>2. \A p \in Pipe : Len(p) = 2 /\ p[1] \in Service /\ p[2] \in Stream
  BY DEF Pipe
<1>3. Len(Kernel) = 1 /\ Len(Sinks) = 1
  BY DEF Kernel, Sinks
<1> QED BY <1>1, <1>2, <1>3 DEF Emitter

\* What each of them may say.
LEMMA Sayables ==
  /\ Sayable(Sinks) = {Ev("complaint", f) : f \in Broken}
  /\ Sayable(Kernel) = {Arig} \cup {Ev(k, s) : k \in {"started", "exited"}, s \in Service}
  /\ \A p \in Pipe : Sayable(p) = {Ev("line", s) : s \in Service}
BY Emitters DEF Sayable

LEMMA SayableTyped ==
  /\ \A e \in Emitter : Sayable(e) \subseteq Sayings
  /\ \A ev \in Sayings : /\ ev \in Event
                         /\ Changes(ev) => ev.of \in Service
  /\ \A e \in Emitter : \A ev \in Sayable(e) :
       /\ ev.kind = "complaint" => e = Sinks
       /\ ev = Ev(ev.kind, ev.of)
<1>1. \A e \in Emitter : \A ev \in Sayable(e) :
        /\ ev \in Event
        /\ Changes(ev) => ev.of \in Service
        /\ ev.kind = "complaint" => e = Sinks
        /\ ev = Ev(ev.kind, ev.of)
  <2> SUFFICES ASSUME NEW e \in Emitter, NEW ev \in Sayable(e)
               PROVE  /\ ev \in Event
                      /\ Changes(ev) => ev.of \in Service
                      /\ ev.kind = "complaint" => e = Sinks
                      /\ ev = Ev(ev.kind, ev.of)
    OBVIOUS
  <2>1. CASE e = Sinks
    <3>1. PICK f \in Broken : ev = Ev("complaint", f)
      BY <2>1, Sayables
    <3>2. f \in File
      BY ConstantsAssumption DEF File, Session, Service
    <3> QED BY <2>1, <3>1, <3>2 DEF Ev, Event, Kind, Changes
  <2>2. CASE e = Kernel
    <3>1. CASE ev = Arig
      BY <3>1 DEF Arig, Ev, Event, Kind, Changes, File
    <3>2. CASE ev # Arig
      <4>1. PICK k \in {"started", "exited"}, s \in Service : ev = Ev(k, s)
        BY <2>2, <3>2, Sayables
      <4> QED BY <4>1 DEF Ev, Event, Kind, Changes, File
    <3> QED BY <3>1, <3>2
  <2>3. CASE e \in Pipe
    <3>1. PICK s \in Service : ev = Ev("line", s)
      BY <2>3, Sayables
    <3> QED BY <3>1 DEF Ev, Event, Kind, Changes, File
  <2> QED BY <2>1, <2>2, <2>3 DEF Emitter
<1> QED BY <1>1 DEF Sayings

\* Saying more of what one may say.
LEMMA Speaks ==
  ASSUME TypeOK, Spoken, NEW e \in Emitter, NEW new \in Seq(Sayable(e)), Says(e, new)
  PROVE  /\ say' \in [Emitter -> Seq(Event)]
         /\ \A d \in Emitter : say'[d] \in Seq(Sayable(d))
         /\ \A d \in Emitter : d # e => say'[d] = say[d]
         /\ say'[e] = say[e] \o new
<1>1. say[e] \o new \in Seq(Sayable(e))
  BY ConcatProperties DEF Spoken
<1>2. say[e] \o new \in Seq(Event)
  BY <1>1, SayableTyped, SeqMonotonic
<1>3. say' = [say EXCEPT ![e] = say[e] \o new]
  BY DEF Says
<1> QED BY <1>1, <1>2, <1>3 DEF TypeOK, Spoken

\* The first thing said is sent.
LEMMA Sending ==
  ASSUME TypeOK, Spoken, NEW e \in Emitter, ~Idle(e), Sends(e), Said(e)
  PROVE  /\ Head(say[e]) \in Sayable(e)
         /\ sent' \in Seq(Sayings) /\ sent' \in Seq(Event) /\ Len(sent') = Len(sent) + 1
         /\ \A i \in 1 .. Len(sent) : sent'[i] = sent[i]
         /\ sent'[Len(sent) + 1] = Head(say[e])
         /\ say' \in [Emitter -> Seq(Event)]
         /\ \A d \in Emitter : say'[d] \in Seq(Sayable(d))
         /\ \A d \in Emitter : d # e => say'[d] = say[d]
         /\ Len(say'[e]) = Len(say[e]) - 1
<1>1. say[e] \in Seq(Sayable(e)) /\ say[e] # <<>>
  BY DEF Spoken, Idle
<1>2. Head(say[e]) \in Sayable(e) /\ Tail(say[e]) \in Seq(Sayable(e)) /\ Len(Tail(say[e])) = Len(say[e]) - 1
  BY <1>1, HeadTailProperties
<1>3. Tail(say[e]) \in Seq(Event)
  BY <1>2, SayableTyped, SeqMonotonic
<1>4. say' = [say EXCEPT ![e] = Tail(say[e])]
  BY DEF Said
<1>5. Head(say[e]) \in Sayings /\ Head(say[e]) \in Event
  BY <1>2, SayableTyped
<1>6. sent' = Append(sent, Head(say[e])) /\ sent \in Seq(Sayings) /\ sent \in Seq(Event)
  BY DEF Sends, Spoken, TypeOK
<1>7. /\ sent' \in Seq(Sayings) /\ sent' \in Seq(Event) /\ Len(sent') = Len(sent) + 1
      /\ \A i \in 1 .. Len(sent) : sent'[i] = sent[i]
      /\ sent'[Len(sent) + 1] = Head(say[e])
  BY <1>5, <1>6
<1> QED BY <1>2, <1>3, <1>4, <1>7 DEF TypeOK, Spoken

----------------------------------------------------------------------------
(* What is sent and what is written *)

\* An event that is sent is one more for the sinks to receive.
LEMMA SendingKeeps ==
  ASSUME IInv, NEW e \in Emitter, ~Idle(e), Sends(e), Said(e),
         UNCHANGED <<next, sinkVars>>
  PROVE  Spoken' /\ Kept' /\ Written' /\ Complaining' /\ Complained'
<1> USE DEF IInv, sinkVars
<1>1. /\ Head(say[e]) \in Sayable(e)
      /\ sent' \in Seq(Sayings) /\ Len(sent') = Len(sent) + 1
      /\ \A i \in 1 .. Len(sent) : sent'[i] = sent[i]
      /\ sent'[Len(sent) + 1] = Head(say[e])
      /\ \A d \in Emitter : say'[d] \in Seq(Sayable(d))
      /\ \A d \in Emitter : d # e => say'[d] = say[d]
      /\ Len(say'[e]) = Len(say[e]) - 1
  BY Sending
<1>2. Len(sent) \in Nat
  BY DEF TypeOK
<1>3. Spoken'
  BY <1>1 DEF Spoken
<1>4. Kept'
  BY <1>1, <1>2 DEF Kept, TypeOK, Receiver
<1>5. Written'
  <2> SUFFICES ASSUME NEW i \in 1 .. next["sink"] - 1 PROVE OnConsole(i)' /\ OnDisk(i)'
    BY DEF Written
  <2>1. i \in 1 .. Len(sent)
    BY <1>2 DEF Kept, TypeOK, Receiver
  <2>2. sent'[i] = sent[i]
    BY <2>1, <1>1
  <2>3. OnConsole(i) /\ OnDisk(i)
    BY DEF Written
  <2> QED BY <2>2, <2>3 DEF OnConsole, OnDisk
<1>6. e = Sinks => say'[Sinks] = <<>>
  <2>1. say'[e] \in Seq(Sayable(e)) /\ say[e] \in Seq(Sayable(e))
    BY <1>1 DEF Spoken
  <2>2. Len(say'[e]) \in Nat /\ Len(say[e]) \in Nat /\ Len(say'[e]) = Len(say[e]) - 1
    BY <1>1, <2>1, LenProperties
  <2>3. ASSUME e = Sinks PROVE Len(say'[e]) = 0
    <3>1. Len(say[e]) <= 1
      BY <2>3 DEF Complaining
    <3>2. \A m, n \in Nat : n = m - 1 /\ m <= 1 => n = 0
      OBVIOUS
    <3> QED BY <2>2, <3>1, <3>2
  <2> QED BY <2>1, <2>3, EmptySeq
<1>7. Complaining'
  <2>1. say'[Sinks] = say[Sinks] \/ say'[Sinks] = <<>>
    BY <1>1, <1>6, Emitters
  <2> QED BY <2>1 DEF Complaining, Idle
<1>8. Complained'
  <2> SUFFICES ASSUME NEW f \in File, NEW i \in 1 .. Len(sent) + 1, sent'[i] = Ev("complaint", f)
               PROVE  /\ file[f] = "broken"
                      /\ Idle(Sinks)' \/ Head(say'[Sinks]) # Ev("complaint", f)
                      /\ \A j \in 1 .. Len(sent) + 1 : sent'[j] = Ev("complaint", f) => i = j
    BY <1>1 DEF Complained, Idle
  <2>1. Head(say[e]) = Ev("complaint", f) => e = Sinks
    BY <1>1, SayableTyped DEF Ev
  <2>2. CASE i = Len(sent) + 1
    <3>1. e = Sinks /\ Head(say[Sinks]) = Ev("complaint", f)
      BY <2>1, <2>2, <1>1
    <3>2. file[f] = "broken"
      BY <3>1 DEF Complaining, Ev
    <3>3. \A j \in 1 .. Len(sent) : sent[j] # Ev("complaint", f)
      BY <3>1 DEF Complained
    <3> QED BY <3>1, <3>2, <3>3, <2>2, <1>1, <1>2, <1>6 DEF Idle
  <2>3. CASE i \in 1 .. Len(sent)
    <3>1. /\ file[f] = "broken" /\ (Idle(Sinks) \/ Head(say[Sinks]) # Ev("complaint", f))
          /\ \A j \in 1 .. Len(sent) : sent[j] = Ev("complaint", f) => i = j
      BY <2>3, <1>1 DEF Complained
    <3>2. Head(say[e]) # Ev("complaint", f)
      BY <2>1, <3>1
    <3>3. say'[Sinks] = <<>> \/ say'[Sinks] = say[Sinks]
      BY <1>1, <1>6, Emitters
    <3> QED BY <3>1, <3>2, <3>3, <1>1, <1>2 DEF Idle
  <2> QED BY <2>2, <2>3, <1>2
<1> QED BY <1>3, <1>4, <1>5, <1>7, <1>8

\* What happens elsewhere is nothing to the sinks.
LEMMA Elsewhere ==
  ASSUME IInv, UNCHANGED <<emitted, sent, counted, sinkVars>>, next'["sink"] = next["sink"],
         \A e \in Emitter : say'[e] \in Seq(Sayable(e)), say'[Sinks] = say[Sinks]
  PROVE  Spoken' /\ Counted' /\ Kept' /\ Written' /\ Complaining' /\ Complained'
<1> USE DEF IInv, sinkVars
<1>1. Spoken' /\ Counted' /\ Kept'
  BY DEF Spoken, Counted, Kept
<1>2. Written'
  BY DEF Written, OnConsole, OnDisk
<1>3. Complaining' /\ Complained'
  BY DEF Complaining, Complained, Idle
<1> QED BY <1>1, <1>2, <1>3

\* A receiver gets at least one event, and none that has not been sent.
LEMMA Receiving ==
  ASSUME TypeOK, NEW r \in Receiver, Receives(r)
  PROVE  /\ Received(r).from = next[r] /\ Received(r).n \in Nat \ {0}
         /\ Received(r).lost \in BOOLEAN /\ (~Received(r).lost => Received(r).n = 1)
         /\ next' \in [Receiver -> Nat \ {0}]
         /\ next'[r] = next[r] + Received(r).n /\ next'[r] <= Len(sent) + 1
         /\ \A q \in Receiver : q # r => next'[q] = next[q]
<1>1. next[r] \in Nat \ {0} /\ Len(sent) \in Nat /\ Capacity \in Nat \ {0} /\ next[r] <= Len(sent)
  BY ConstantsAssumption DEF TypeOK, Receives
<1>2. Oldest \in Nat \ {0} /\ Oldest <= Len(sent) + 1
  BY <1>1 DEF Oldest
<1>3. /\ Received(r).from = next[r] /\ Received(r).n \in Nat \ {0}
      /\ Received(r).lost \in BOOLEAN /\ (~Received(r).lost => Received(r).n = 1)
      /\ next[r] + Received(r).n <= Len(sent) + 1
  BY <1>1, <1>2 DEF Received
<1>4. next' = [next EXCEPT ![r] = next[r] + Received(r).n]
  BY DEF Receives
<1> QED BY <1>1, <1>3, <1>4 DEF TypeOK

\* What the sinks receive they write, or note as lost, in the files they can open.
LEMMA Writing ==
  ASSUME IInv, SinkReceives
  PROVE  /\ \A f \in File : file[f] = "broken" => file'[f] = "broken"
         /\ file' \in [File -> {"unopened", "open", "broken"}]
         /\ \A i \in Covers(Received("sink")) : OnConsole(i)' /\ OnDisk(i)'
         /\ console \subseteq console' /\ disk \subseteq disk'
         /\ \/ say' = say
            \/ \E f \in Broken : /\ file[f] = "unopened" /\ file'[f] = "broken"
                                 /\ Says(Sinks, <<Ev("complaint", f)>>)
<1> USE DEF IInv
<1> DEFINE it == Received("sink")
<1>1. Receives("sink") /\ WritesConsole(it) /\ WritesFile(it) /\ sent' = sent
  BY DEF SinkReceives
<1>2. /\ it.from = next["sink"] /\ it.n \in Nat \ {0} /\ it.lost \in BOOLEAN
      /\ ~it.lost => it.n = 1
      /\ next["sink"] \in Nat \ {0} /\ next["sink"] <= Len(sent)
  BY <1>1, Receiving DEF Receiver, Receives, TypeOK
<1>3. sent[it.from] \in Event /\ LogOf(sent[it.from]) \in File
  <2>1. sent \in Seq(Event) /\ it.from \in 1 .. Len(sent)
    BY <1>2 DEF TypeOK
  <2>2. sent[it.from] \in Event
    BY <2>1, ElementOfSeq
  <2> QED BY <2>2 DEF LogOf, Event, File
<1>4. Wanted(it) \subseteq File
  BY <1>3 DEF Wanted, File, Session
<1>5. /\ \A f \in Wanted(it) : file'[f] \in {"open", "broken"}
      /\ \A f \in File : file[f] # "unopened" => file'[f] = file[f]
      /\ file' \in [File -> {"unopened", "open", "broken"}]
      /\ \/ say' = say
         \/ \E f \in Broken : /\ file[f] = "unopened" /\ file'[f] = "broken"
                              /\ Says(Sinks, <<Ev("complaint", f)>>)
  <2>1. CASE \E f \in Wanted(it) : file[f] = "unopened"
    <3>1. PICK f \in Wanted(it) : Opens(f)
      BY <1>1, <2>1 DEF WritesFile
    <3>2. Wanted(it) = {f} /\ f \in File
      BY <3>1, <1>4 DEF Wanted
    <3>3. file[f] = "unopened"
      BY <2>1, <3>2
    <3> QED BY <3>1, <3>2, <3>3 DEF Opens, TypeOK
  <2>2. CASE ~\E f \in Wanted(it) : file[f] = "unopened"
    <3>1. say' = say /\ file' = file
      BY <1>1, <2>2 DEF WritesFile
    <3> QED BY <3>1, <2>2, <1>4 DEF TypeOK
  <2> QED BY <2>1, <2>2
<1>6. console \subseteq console' /\ disk \subseteq disk'
  BY <1>1 DEF WritesConsole, WritesFile
<1>7. ASSUME NEW i \in Covers(it) PROVE OnConsole(i)' /\ OnDisk(i)'
  <2>1. ~it.lost => i = it.from
    BY <1>2, <1>7 DEF Covers
  <2>2. Printable(sent[i]) => Shown(it)
    BY <2>1 DEF Shown
  <2>3. OnConsole(i)'
    BY <1>1, <2>2 DEF OnConsole, WritesConsole
  <2>4. Printable(sent[i]) => \E f \in {Session, LogOf(sent[i])} : f \in Wanted(it)
    <3>1. Printable(sent[i]) => sent[i].kind # "exited"
      BY DEF Printable
    <3>2. CASE it.lost
      BY <3>2 DEF Wanted
    <3>3. CASE ~it.lost
      BY <2>1, <3>1, <3>3 DEF Wanted
    <3> QED BY <3>2, <3>3
  <2>5. Shown(it) /\ (\E f \in Wanted(it) : file'[f] = "open") => i \in disk'
    BY <1>1, <1>7 DEF WritesFile
  <2>6. OnDisk(i)'
    BY <1>1, <1>5, <2>2, <2>4, <2>5 DEF OnDisk
  <2> QED BY <2>3, <2>6
<1> QED BY <1>5, <1>6, <1>7

\* The sink task is busy with one turn of its loop at most.
LEMMA SinksReceive ==
  ASSUME IInv, SinkReceives
  PROVE  Spoken' /\ Counted' /\ Kept' /\ Written' /\ Complaining' /\ Complained'
<1> USE DEF IInv
<1> DEFINE it == Received("sink")
<1>1. /\ owed = 0 /\ Receives("sink") /\ UNCHANGED <<emitted, sent, counted>>
      /\ IF say' = say THEN cursor' = cursor + it.n /\ owed' = 0
                       ELSE owed' = it.n /\ cursor' = cursor
  BY DEF SinkReceives, DoneWith
<1>2. /\ it.from = next["sink"] /\ it.n \in Nat \ {0}
      /\ next'["sink"] = next["sink"] + it.n /\ next'["sink"] <= Len(sent) + 1
  BY <1>1, Receiving DEF Receiver
<1>3. /\ \A f \in File : file[f] = "broken" => file'[f] = "broken"
      /\ \A i \in Covers(it) : OnConsole(i)' /\ OnDisk(i)'
      /\ console \subseteq console' /\ disk \subseteq disk'
  BY Writing
<1>4. next["sink"] \in Nat \ {0} /\ cursor \in Nat
  BY DEF TypeOK, Receiver
<1>5. Kept'
  BY <1>1, <1>2, <1>4 DEF Kept
<1>6. Written'
  <2> SUFFICES ASSUME NEW i \in 1 .. next'["sink"] - 1 PROVE OnConsole(i)' /\ OnDisk(i)'
    BY DEF Written
  <2>1. CASE i \in Covers(it)
    BY <1>3, <2>1
  <2>2. CASE i \notin Covers(it)
    <3>1. i \in 1 .. next["sink"] - 1
      BY <2>2, <1>2, <1>4 DEF Covers
    <3>2. OnConsole(i) /\ OnDisk(i) /\ sent'[i] = sent[i]
      BY <3>1, <1>1 DEF Written
    <3>3. Printable(sent[i]) => Session \in File /\ LogOf(sent[i]) \in File
      <4>1. i \in 1 .. Len(sent)
        BY <3>1, <1>4 DEF Kept, TypeOK
      <4>2. sent[i] \in Event
        BY <4>1, ElementOfSeq DEF TypeOK
      <4> QED BY <4>2 DEF LogOf, Event, File
    <3> QED BY <3>2, <3>3, <1>3 DEF OnConsole, OnDisk
  <2> QED BY <2>1, <2>2
<1>7. CASE say' = say
  <2>1. Spoken' /\ Counted'
    BY <1>1, <1>7 DEF Spoken, Counted
  <2>2. Complaining'
    BY <1>1, <1>7 DEF Complaining, Idle
  <2>3. Complained'
    BY <1>1, <1>3, <1>7 DEF Complained, Idle
  <2> QED BY <2>1, <2>2, <2>3, <1>5, <1>6
<1>8. CASE say' # say
  <2>1. PICK f \in Broken : /\ file[f] = "unopened" /\ file'[f] = "broken"
                            /\ Says(Sinks, <<Ev("complaint", f)>>)
    BY <1>8, Writing
  <2>2. <<Ev("complaint", f)>> \in Seq(Sayable(Sinks)) /\ f \in File
    BY Sayables, ConstantsAssumption DEF File, Session, Service
  <2>3. /\ \A e \in Emitter : say'[e] \in Seq(Sayable(e))
        /\ say'[Sinks] = say[Sinks] \o <<Ev("complaint", f)>>
    BY <2>1, <2>2, Speaks, Emitters
  <2>4. say'[Sinks] = <<Ev("complaint", f)>>
    <3>1. say[Sinks] = <<>>
      BY <1>1 DEF Complaining, Idle
    <3> QED BY <2>2, <2>3, <3>1, ConcatEmptySeq
  <2>5. Spoken' /\ Counted'
    BY <2>3, <1>1 DEF Spoken, Counted
  <2>6. Complaining'
    BY <2>1, <2>4, <1>1, <1>2, <1>8 DEF Complaining, Idle, Ev
  <2>7. Complained'
    <3> SUFFICES ASSUME NEW g \in File, NEW i \in 1 .. Len(sent), sent[i] = Ev("complaint", g)
                 PROVE  /\ file'[g] = "broken" /\ Head(say'[Sinks]) # Ev("complaint", g)
                        /\ \A j \in 1 .. Len(sent) : sent[j] = Ev("complaint", g) => i = j
      BY <1>1 DEF Complained
    <3>1. file[g] = "broken" /\ \A j \in 1 .. Len(sent) : sent[j] = Ev("complaint", g) => i = j
      BY DEF Complained
    <3>2. g # f
      BY <3>1, <2>1
    <3> QED BY <3>1, <3>2, <1>3, <2>4 DEF Ev
  <2> QED BY <2>5, <2>6, <2>7, <1>5, <1>6
<1> QED BY <1>7, <1>8

LEMMA SinksAdvance ==
  ASSUME IInv, SinkAdvances
  PROVE  Spoken' /\ Counted' /\ Kept' /\ Written' /\ Complaining' /\ Complained'
<1> USE DEF IInv
<1>1. /\ UNCHANGED <<chanVars, next, console, disk, file>>
      /\ cursor' = cursor + owed /\ owed' = 0 /\ Idle(Sinks)
  BY DEF SinkAdvances, DoneWith
<1>2. Spoken' /\ Counted'
  BY <1>1 DEF Spoken, Counted, chanVars
<1>3. Kept'
  BY <1>1 DEF Kept, chanVars, TypeOK, Receiver
<1>4. Written'
  BY <1>1 DEF Written, OnConsole, OnDisk, chanVars
<1>5. Complaining' /\ Complained'
  BY <1>1 DEF Complaining, Complained, Idle, chanVars
<1> QED BY <1>2, <1>3, <1>4, <1>5

\* An event is counted, and then sent.
LEMMA Emitting ==
  ASSUME IInv, NEW e \in Emitter, Emit(e) \/ (e = Kernel /\ KernelEmits)
  PROVE  Spoken' /\ Counted' /\ Kept' /\ Written' /\ Complaining' /\ Complained'
<1> USE DEF IInv
<1>1. /\ UNCHANGED <<next, sinkVars>> /\ ~Idle(e)
      /\ Len(sent) \in Nat /\ emitted \in Nat
  BY DEF Emit, KernelEmits, TypeOK
<1>2. CASE Emit(e) /\ e \notin counted
  <2>1. UNCHANGED <<sent, say>> /\ emitted' = emitted + 1 /\ counted' = counted \cup {e}
    BY <1>2 DEF Emit
  <2>2. Counted'
    <3>1. Cardinality(counted) \in Nat
      BY FS_CardinalityType DEF Counted
    <3>2. IsFiniteSet(counted') /\ Cardinality(counted') = Cardinality(counted) + 1
      BY <2>1, <1>2, FS_AddElement DEF Counted
    <3> QED BY <3>1, <3>2, <2>1, <1>1 DEF Counted
  <2>3. Spoken' /\ Kept' /\ Complaining' /\ Complained'
    BY <2>1, <1>1 DEF Spoken, Kept, Complaining, Complained, Idle, sinkVars
  <2>4. Written'
    BY <2>1, <1>1 DEF Written, OnConsole, OnDisk, sinkVars
  <2> QED BY <2>2, <2>3, <2>4
<1>3. CASE Sends(e) /\ Said(e) /\ \/ e \in counted /\ counted' = counted \ {e} /\ emitted' = emitted
                                  \/ counted' = counted /\ emitted' = emitted + 1
  <2>1. Len(sent') = Len(sent) + 1
    BY <1>1, <1>3, Sending
  <2>2. Counted'
    <3>1. Cardinality(counted) \in Nat
      BY FS_CardinalityType DEF Counted
    <3>2. CASE counted' = counted /\ emitted' = emitted + 1
      BY <3>1, <3>2, <2>1, <1>1 DEF Counted
    <3>3. CASE e \in counted /\ counted' = counted \ {e} /\ emitted' = emitted
      <4>1. IsFiniteSet(counted') /\ Cardinality(counted') = Cardinality(counted) - 1
        BY <3>3, FS_RemoveElement DEF Counted
      <4> QED BY <4>1, <3>1, <3>3, <2>1, <1>1 DEF Counted
    <3> QED BY <3>2, <3>3, <1>3
  <2> QED BY <2>2, <1>1, <1>3, SendingKeeps
<1> QED BY <1>2, <1>3 DEF Emit, KernelEmits

----------------------------------------------------------------------------
(* Types *)

ChanOK ==
  /\ emitted \in Nat /\ sent \in Seq(Event) /\ say \in [Emitter -> Seq(Event)]
  /\ counted \subseteq Emitter /\ next \in [Receiver -> Nat \ {0}]

SinkOK ==
  /\ owed \in Nat /\ cursor \in Nat /\ console \subseteq Nat /\ disk \subseteq Nat
  /\ file \in [File -> {"unopened", "open", "broken"}]

RowOK == rows \in [Service -> Row] /\ missed \subseteq Service

PipeOK ==
  /\ alive \subseteq Service /\ children \subseteq Service /\ held \subseteq Pipe
  /\ wrote \in [Pipe -> Nat] /\ unread \in [Pipe -> Nat]
  /\ reader \in [Pipe -> {"unborn", "reading", "failed"}]
  /\ tail \in [Service -> Seq(Stream \X Nat)]

KernOK ==
  /\ pc \in {"spawning", "piping", "joining", "dumping", "stopping", "draining", "ended"}
  /\ cur \in Service /\ dump \in Seq(Stream \X Nat)
  /\ hasty \in BOOLEAN /\ gaveUp \in BOOLEAN /\ target \in Nat /\ mark \in Nat

LEMMA TypeParts == TypeOK <=> ChanOK /\ SinkOK /\ RowOK /\ PipeOK /\ KernOK
BY DEF TypeOK, ChanOK, SinkOK, RowOK, PipeOK, KernOK

LEMMA TypePartsNext == ChanOK' /\ SinkOK' /\ RowOK' /\ PipeOK' /\ KernOK' => TypeOK'
BY DEF TypeOK, ChanOK, SinkOK, RowOK, PipeOK, KernOK

\* What a service leaves behind are pipes of its own.
LEMMA Leaving ==
  ASSUME PipeOK, NEW s \in Service, Leaves(s)
  PROVE  alive' \subseteq Service /\ held' \subseteq Pipe
BY DEF Leaves, PipeOK

\* Services come, write and go, and the readers read.
LEMMA ServicesRun ==
  ASSUME IInv,
         \/ \E p \in Pipe : Writes(p) \/ Reads(p) \/ ReaderFails(p)
         \/ \E s \in Service : Dies(s)
  PROVE  /\ PipeOK' /\ Consumed'
         /\ UNCHANGED <<emitted, sent, counted, next, sinkVars, rowVars, kernVars>>
         /\ say' = say \/ \E p \in Pipe : Says(p, <<Ev("line", p[1])>>)
<1> USE DEF IInv, chanVars
<1>1. PipeOK
  BY TypeParts
<1>2. ASSUME NEW p \in Pipe, Writes(p)
      PROVE  PipeOK' /\ Consumed' /\ say' = say
             /\ UNCHANGED <<emitted, sent, counted, next, sinkVars, rowVars, kernVars>>
  <2>1. /\ wrote' = [wrote EXCEPT ![p] = wrote[p] + 1]
        /\ unread' = [unread EXCEPT ![p] = unread[p] + 1]
        /\ UNCHANGED <<alive, children, reader, held, tail>>
    BY <1>2 DEF Writes
  <2>2. PipeOK'
    BY <1>1, <2>1 DEF PipeOK
  <2>3. Consumed'
    BY <1>1, <2>1 DEF PipeOK, Consumed
  <2> QED BY <1>2, <2>2, <2>3 DEF Writes
<1>3. ASSUME NEW p \in Pipe, Reads(p)
      PROVE  PipeOK' /\ Consumed' /\ Says(p, <<Ev("line", p[1])>>)
             /\ UNCHANGED <<emitted, sent, counted, next, sinkVars, rowVars, kernVars>>
  <2>1. /\ unread[p] > 0 /\ unread' = [unread EXCEPT ![p] = unread[p] - 1]
        /\ tail' = [tail EXCEPT ![p[1]] = Pushed(tail[p[1]], <<p[2], wrote[p] - unread'[p]>>)]
        /\ UNCHANGED <<alive, children, wrote, reader, held>>
    BY <1>3 DEF Reads
  <2>2. unread' \in [Pipe -> Nat] /\ Consumed'
    BY <1>1, <2>1 DEF PipeOK, Consumed
  <2>3. p[1] \in Service /\ p[2] \in Stream
    BY Emitters
  <2>4. wrote[p] - unread'[p] \in Nat
    BY <1>1, <2>1, <2>2 DEF PipeOK, Consumed
  <2>5. <<p[2], wrote[p] - unread'[p]>> \in Stream \X Nat
    BY <2>3, <2>4
  <2>6. tail[p[1]] \in Seq(Stream \X Nat)
    BY <1>1, <2>3 DEF PipeOK
  <2>7. Pushed(tail[p[1]], <<p[2], wrote[p] - unread'[p]>>) \in Seq(Stream \X Nat)
    <3>1. CASE Len(tail[p[1]]) >= TailLines
      <4>1. tail[p[1]] # <<>>
        BY <3>1, ConstantsAssumption
      <4>2. Tail(tail[p[1]]) \in Seq(Stream \X Nat)
        BY <2>6, <4>1, HeadTailProperties
      <4> QED BY <2>5, <3>1, <4>2 DEF Pushed
    <3>2. CASE ~(Len(tail[p[1]]) >= TailLines)
      BY <2>5, <2>6, <3>2 DEF Pushed
    <3> QED BY <3>1, <3>2
  <2>8. PipeOK'
    BY <1>1, <2>1, <2>2, <2>3, <2>7 DEF PipeOK
  <2> QED BY <1>3, <2>2, <2>8 DEF Reads
<1>4. ASSUME NEW p \in Pipe, ReaderFails(p)
      PROVE  PipeOK' /\ Consumed' /\ say' = say
             /\ UNCHANGED <<emitted, sent, counted, next, sinkVars, rowVars, kernVars>>
  BY <1>1, <1>4 DEF ReaderFails, PipeOK, Consumed
<1>5. ASSUME NEW s \in Service, Dies(s)
      PROVE  PipeOK' /\ Consumed' /\ say' = say
             /\ UNCHANGED <<emitted, sent, counted, next, sinkVars, rowVars, kernVars>>
  <2>1. /\ UNCHANGED <<children, wrote, unread, reader, tail>>
        /\ alive' \subseteq Service /\ held' \subseteq Pipe
    BY <1>1, <1>5, Leaving DEF Dies
  <2>2. PipeOK' /\ Consumed'
    BY <1>1, <2>1 DEF PipeOK, Consumed
  <2> QED BY <1>5, <2>2 DEF Dies
<1> QED BY <1>2, <1>3, <1>4, <1>5

\* The kernel says what happens to its services, and drain's target is all
\* that has been counted when it is called.
LEMMA KernelRuns ==
  ASSUME IInv, KernelTask \/ DrainGivesUp
  PROVE  /\ PipeOK' /\ KernOK' /\ Consumed' /\ Drained'
         /\ UNCHANGED <<emitted, sent, counted, next, sinkVars, rowVars>>
         /\ say' = say \/ \E new \in Seq(Sayable(Kernel)) : Says(Kernel, new)
<1> USE DEF IInv
<1> DEFINE Quiet == UNCHANGED <<emitted, sent, counted, next, sinkVars, rowVars>>
           Speaking == say' = say \/ \E new \in Seq(Sayable(Kernel)) : Says(Kernel, new)
<1>1. PipeOK /\ KernOK /\ ChanOK /\ SinkOK
  BY TypeParts
<1>2. \A k \in {"started", "exited"}, s \in Service : <<Ev(k, s)>> \in Seq(Sayable(Kernel))
  <2>1. \A k \in {"started", "exited"}, s \in Service : Ev(k, s) \in Sayable(Kernel)
    BY Sayables
  <2> QED BY <2>1
<1>3. CASE Spawns
  <2>1. PICK i \in DOMAIN Order : /\ cur' = Order[i] /\ alive' = alive \cup {Order[i]}
                                  /\ children' = children \cup {Order[i]}
    BY <1>3 DEF Spawns
  <2>2. Order[i] \in Service
    BY DEF Service, Range
  <2>3. /\ pc = "spawning" /\ pc' = "piping" /\ UNCHANGED <<dump, hasty, target, mark, gaveUp, say>> /\ Quiet
        /\ UNCHANGED <<wrote, unread, reader, held, tail>>
    BY <1>3 DEF Spawns, chanVars, KernelAt
  <2>4. PipeOK' /\ KernOK'
    BY <1>1, <2>1, <2>2, <2>3 DEF PipeOK, KernOK
  <2>5. Consumed' /\ Drained'
    BY <2>3 DEF Consumed, Drained
  <2> QED BY <2>3, <2>4, <2>5
<1>4. CASE Pipes
  <2>1. /\ pc' = "spawning" /\ UNCHANGED <<cur, dump, hasty, target, mark, gaveUp>> /\ Quiet
        /\ UNCHANGED <<alive, children, wrote, unread, held, tail>>
        /\ reader' = [p \in Pipe |-> IF p[1] = cur THEN "reading" ELSE reader[p]]
        /\ Says(Kernel, <<Ev("started", cur)>>)
    BY <1>4 DEF Pipes
  <2>2. PipeOK' /\ KernOK'
    BY <1>1, <2>1 DEF PipeOK, KernOK
  <2>3. Consumed' /\ Drained'
    BY <2>1 DEF Consumed, Drained
  <2>4. cur \in Service
    BY <1>1 DEF KernOK
  <2> QED BY <1>2, <2>1, <2>2, <2>3, <2>4
<1>5. ASSUME NEW s \in Service, Reports(s)
      PROVE  PipeOK' /\ KernOK' /\ Consumed' /\ Drained' /\ Quiet /\ Speaking
  <2>1. /\ pc' = "joining" /\ cur' = s /\ children' = children \ {s} /\ Quiet
        /\ UNCHANGED <<dump, hasty, target, mark, gaveUp, alive, wrote, unread, reader, held, tail>>
        /\ Says(Kernel, <<Ev("exited", s)>>) \/ UNCHANGED say
    BY <1>5 DEF Reports
  <2>2. PipeOK' /\ KernOK'
    BY <1>1, <2>1 DEF PipeOK, KernOK
  <2>3. Consumed' /\ Drained'
    BY <2>1 DEF Consumed, Drained
  <2> QED BY <1>2, <2>1, <2>2, <2>3
<1>6. ASSUME NEW s \in Service, Stops(s)
      PROVE  PipeOK' /\ KernOK' /\ Consumed' /\ Drained' /\ Quiet /\ Speaking
  <2>1. /\ pc' = "stopping" /\ children' = children \ {s} /\ Quiet
        /\ UNCHANGED <<cur, dump, hasty, target, mark, gaveUp, wrote, unread, reader, tail>>
        /\ Says(Kernel, <<Ev("exited", s)>>)
        /\ Leaves(s) \/ UNCHANGED <<alive, held>>
    BY <1>6 DEF Stops
  <2>2. alive' \subseteq Service /\ held' \subseteq Pipe
    BY <1>1, <2>1, Leaving DEF PipeOK
  <2>3. PipeOK' /\ KernOK'
    BY <1>1, <2>1, <2>2 DEF PipeOK, KernOK
  <2>4. Consumed' /\ Drained'
    BY <2>1 DEF Consumed, Drained
  <2> QED BY <1>2, <2>1, <2>3, <2>4
<1>7. CASE DrainIo \/ DrainIoTimesOut
  <2>1. /\ pc' = "dumping" /\ dump' = tail[cur] /\ Quiet
        /\ UNCHANGED <<cur, target, mark, gaveUp, pipeVars>>
        /\ Says(Kernel, [i \in 1 .. Len(dump') |-> Arig])
        /\ hasty' = hasty \/ hasty' = TRUE
    BY <1>7 DEF DrainIo, DrainIoTimesOut, Dumps
  <2>2. dump' \in Seq(Stream \X Nat)
    BY <1>1, <2>1 DEF PipeOK, KernOK
  <2>3. PipeOK' /\ KernOK'
    BY <1>1, <2>1, <2>2 DEF PipeOK, KernOK, pipeVars
  <2>4. Consumed' /\ Drained'
    BY <2>1 DEF Consumed, Drained, pipeVars
  <2>5. [i \in 1 .. Len(dump') |-> Arig] \in Seq(Sayable(Kernel))
    <3>1. Arig \in Sayable(Kernel) /\ Len(dump') \in Nat
      BY <2>2, Sayables
    <3> QED BY <3>1
  <2> QED BY <2>1, <2>3, <2>4, <2>5
<1>8. CASE IsStopped
  <2>1. /\ pc' = "stopping" /\ UNCHANGED <<cur, dump, hasty, target, mark, gaveUp, pipeVars, say>> /\ Quiet
    BY <1>8 DEF IsStopped, chanVars
  <2>2. PipeOK' /\ KernOK'
    BY <1>1, <2>1 DEF PipeOK, KernOK, pipeVars
  <2>3. Consumed' /\ Drained'
    BY <2>1 DEF Consumed, Drained, pipeVars
  <2> QED BY <2>1, <2>2, <2>3
<1>9. CASE CallsDrain
  <2>1. /\ pc' = "draining" /\ target' = emitted /\ mark' = Len(sent) /\ Quiet
        /\ UNCHANGED <<cur, dump, hasty, gaveUp, pipeVars, say>>
    BY <1>9 DEF CallsDrain, chanVars
  <2>2. Len(sent) \in Nat /\ emitted \in Nat
    BY <1>1 DEF ChanOK
  <2>3. Len(sent) <= emitted
    BY <2>2, FS_CardinalityType DEF Counted
  <2>4. PipeOK' /\ KernOK'
    BY <1>1, <2>1, <2>2 DEF PipeOK, KernOK, pipeVars
  <2>5. Consumed' /\ Drained'
    BY <2>1, <2>2, <2>3 DEF Consumed, Drained, pipeVars
  <2> QED BY <2>1, <2>4, <2>5
<1>10. CASE DrainReturns \/ DrainGivesUp
  <2>1. /\ pc = "draining" /\ pc' = "ended" /\ Quiet
        /\ UNCHANGED <<cur, dump, hasty, target, mark, pipeVars, say>>
        /\ gaveUp' = TRUE \/ (gaveUp' = gaveUp /\ target <= cursor)
    BY <1>1, <1>10 DEF DrainReturns, DrainGivesUp, chanVars, KernelAt, SinkOK, KernOK
  <2>2. PipeOK' /\ KernOK'
    BY <1>1, <2>1 DEF PipeOK, KernOK, pipeVars
  <2>3. Consumed' /\ Drained'
    BY <2>1 DEF Consumed, Drained, pipeVars, sinkVars
  <2> QED BY <2>1, <2>2, <2>3
<1> QED BY <1>3, <1>4, <1>5, <1>6, <1>7, <1>8, <1>9, <1>10 DEF KernelTask

\* The tracker's rows are those of services.
LEMMA TrackerTracks ==
  ASSUME IInv, TrackerTask
  PROVE  /\ RowOK' /\ next' \in [Receiver -> Nat \ {0}] /\ next'["sink"] = next["sink"]
         /\ UNCHANGED <<chanVars, sinkVars, pipeVars, kernVars>>
<1> USE DEF IInv
<1>1. Receives("tracker") /\ UNCHANGED <<chanVars, sinkVars, pipeVars, kernVars>>
  BY DEF TrackerTask
<1>2. /\ Received("tracker").from = next["tracker"] /\ Received("tracker").n \in Nat \ {0}
      /\ next' \in [Receiver -> Nat \ {0}] /\ next'["sink"] = next["sink"]
      /\ next'["tracker"] = next["tracker"] + Received("tracker").n
      /\ next'["tracker"] <= Len(sent) + 1
      /\ next["tracker"] \in Nat \ {0} /\ next["tracker"] <= Len(sent)
  BY <1>1, Receiving DEF Receiver, Receives, TypeOK
<1>3. \A i \in 1 .. Len(sent) : sent[i] \in Sayings
  BY ElementOfSeq DEF Spoken
<1>4. missed' \subseteq Service
  <2>1. Covers(Received("tracker")) \subseteq 1 .. Len(sent)
    BY <1>2 DEF Covers, TypeOK
  <2>2. Missed \subseteq Service
    BY <2>1, <1>3, SayableTyped DEF Missed
  <2> QED BY <2>2 DEF TrackerTask, TypeOK
<1>5. rows' \in [Service -> Row]
  <2> DEFINE ev == sent[next["tracker"]]
  <2>1. rows \in [Service -> Row] /\ ev \in Sayings
    BY <1>2, <1>3 DEF TypeOK
  <2>2. Changes(ev) => ev.of \in Service
    BY <2>1, SayableTyped
  <2>3. CASE ev.kind = "started"
    <3>1. ev.of \in Service
      BY <2>2, <2>3 DEF Changes
    <3>2. Applied(rows, ev) = ServiceStarted(rows, ev.of, FALSE)
      BY <2>3 DEF Applied
    <3>3. ServiceStarted(rows, ev.of, FALSE) \in [Service -> Row]
      BY <2>1, <3>1, ServiceStartedType
    <3> QED BY <2>1, <3>2, <3>3 DEF TrackerTask
  <2>4. CASE ev.kind = "exited"
    <3>1. ev.of \in Service
      BY <2>2, <2>4 DEF Changes
    <3>2. Applied(rows, ev) = ServiceExited(rows, ev.of)
      BY <2>4 DEF Applied
    <3>3. ServiceExited(rows, ev.of) \in [Service -> Row]
      BY <2>1, <3>1, RowChangesType
    <3> QED BY <2>1, <3>2, <3>3 DEF TrackerTask
  <2>5. CASE ev.kind \notin {"started", "exited"}
    <3>1. Applied(rows, ev) = rows
      BY <2>5 DEF Applied
    <3> QED BY <2>1, <3>1 DEF TrackerTask
  <2> QED BY <2>3, <2>4, <2>5
<1> QED BY <1>1, <1>2, <1>4, <1>5 DEF RowOK

----------------------------------------------------------------------------
(* The invariant holds *)

LEMMA InitInvariant == Init => IInv
<1> SUFFICES ASSUME Init PROVE IInv
  OBVIOUS
<1>1. ChanOK /\ SinkOK
  BY DEF Init, ChanOK, SinkOK
<1>2. Order[1] \in Service
  BY ConstantsAssumption DEF Service, Range
<1>3. RowOK
  <2>1. NoRow \in Row
    BY DEF NoRow, Row, RowState
  <2> QED BY <2>1 DEF Init, RowOK
<1>4. PipeOK
  BY DEF Init, PipeOK
<1>5. KernOK
  <2>1. dump \in Seq(Stream \X Nat) /\ cur \in Service
    BY <1>2 DEF Init
  <2> QED BY <2>1 DEF Init, KernOK
<1>6. Spoken
  BY Emitters DEF Init, Spoken
<1>7. Counted
  BY FS_EmptySet DEF Init, Counted
<1>8. Kept /\ Written
  BY DEF Init, Kept, Written, Receiver
<1>9. Complaining /\ Complained
  BY Emitters DEF Init, Complaining, Complained, Idle
<1>10. Drained /\ Consumed
  BY DEF Init, Drained, Consumed
<1> QED BY <1>1, <1>3, <1>4, <1>5, <1>6, <1>7, <1>8, <1>9, <1>10, TypeParts DEF IInv

LEMMA StepInvariant == IInv /\ [Next]_vars => IInv'
<1> SUFFICES ASSUME IInv, [Next]_vars PROVE IInv'
  OBVIOUS
<1> USE DEF IInv
<1>1. ChanOK /\ SinkOK /\ RowOK /\ PipeOK /\ KernOK
  BY TypeParts
<1>2. ASSUME NEW e \in Emitter, Emit(e) \/ (e = Kernel /\ KernelEmits) PROVE IInv'
  <2>1. /\ UNCHANGED <<next, sinkVars, rowVars, pipeVars, kernVars>>
        /\ emitted' \in Nat /\ counted' \subseteq Emitter
        /\ ~Idle(e) /\ \/ UNCHANGED <<sent, say>>
                       \/ Sends(e) /\ Said(e)
    BY <1>1, <1>2 DEF Emit, KernelEmits, ChanOK
  <2>2. sent' \in Seq(Event) /\ say' \in [Emitter -> Seq(Event)] /\ Len(sent') >= Len(sent)
    <3>1. CASE UNCHANGED <<sent, say>>
      BY <1>1, <3>1 DEF ChanOK
    <3>2. CASE Sends(e) /\ Said(e)
      <4>1. sent' \in Seq(Event) /\ say' \in [Emitter -> Seq(Event)] /\ Len(sent') = Len(sent) + 1
        BY <2>1, <3>2, Sending
      <4>2. Len(sent) \in Nat
        BY <1>1 DEF ChanOK
      <4> QED BY <4>1, <4>2
    <3> QED BY <2>1, <3>1, <3>2
  <2>3. ChanOK'
    BY <2>1, <2>2, <1>1 DEF ChanOK
  <2>4. SinkOK' /\ RowOK' /\ PipeOK' /\ KernOK'
    BY <2>1, <1>1 DEF SinkOK, RowOK, PipeOK, KernOK, sinkVars, rowVars, pipeVars, kernVars
  <2>5. Drained' /\ Consumed'
    <3>1. mark \in Nat /\ Len(sent) \in Nat /\ Len(sent') \in Nat
      BY <1>1, <2>3 DEF ChanOK, KernOK
    <3> QED BY <2>1, <2>2, <3>1 DEF Drained, Consumed, kernVars, pipeVars, sinkVars
  <2> QED BY <2>3, <2>4, <2>5, <1>2, Emitting, TypePartsNext
<1>3. CASE SinkReceives
  <2>1. /\ UNCHANGED <<emitted, sent, counted, rowVars, pipeVars, kernVars>>
        /\ IF say' = say THEN cursor' = cursor + Received("sink").n /\ owed' = 0
                         ELSE owed' = Received("sink").n /\ cursor' = cursor
        /\ WritesConsole(Received("sink")) /\ WritesFile(Received("sink")) /\ Receives("sink")
    BY <1>3 DEF SinkReceives, DoneWith
  <2>2. Received("sink").n \in Nat \ {0} /\ Received("sink").from \in Nat
        /\ next' \in [Receiver -> Nat \ {0}]
    BY <1>1, <2>1, Receiving DEF Receiver, ChanOK
  <2>3. owed' \in Nat /\ cursor' \in Nat /\ cursor' >= cursor
    BY <1>1, <2>1, <2>2 DEF SinkOK
  <2>4. Covers(Received("sink")) \subseteq Nat
    BY <2>2 DEF Covers
  <2>5. console' \subseteq Nat /\ disk' \subseteq Nat
    BY <1>1, <2>1, <2>4 DEF WritesConsole, WritesFile, SinkOK
  <2>6. SinkOK'
    BY <1>3, <2>3, <2>5, Writing DEF SinkOK
  <2>7. say' \in [Emitter -> Seq(Event)]
    <3>1. CASE say' = say
      BY <1>1, <3>1 DEF ChanOK
    <3>2. CASE say' # say
      <4>1. PICK f \in Broken : Says(Sinks, <<Ev("complaint", f)>>)
        BY <1>3, <3>2, Writing
      <4>2. <<Ev("complaint", f)>> \in Seq(Sayable(Sinks))
        BY Sayables
      <4> QED BY <4>1, <4>2, Speaks, Emitters
    <3> QED BY <3>1, <3>2
  <2>8. ChanOK'
    BY <1>1, <2>1, <2>2, <2>7 DEF ChanOK
  <2>9. RowOK' /\ PipeOK' /\ KernOK'
    BY <2>1, <1>1 DEF RowOK, PipeOK, KernOK, rowVars, pipeVars, kernVars
  <2>10. Drained' /\ Consumed'
    BY <1>1, <2>1, <2>3 DEF Drained, Consumed, kernVars, pipeVars, SinkOK, KernOK
  <2> QED BY <2>6, <2>8, <2>9, <2>10, <1>3, SinksReceive, TypePartsNext
<1>4. CASE SinkAdvances
  <2>1. /\ UNCHANGED <<chanVars, next, console, disk, file, rowVars, pipeVars, kernVars>>
        /\ cursor' = cursor + owed /\ owed' = 0
    BY <1>4 DEF SinkAdvances, DoneWith
  <2>2. ChanOK' /\ SinkOK'
    BY <1>1, <2>1 DEF ChanOK, SinkOK, chanVars
  <2>3. RowOK' /\ PipeOK' /\ KernOK'
    BY <2>1, <1>1 DEF RowOK, PipeOK, KernOK, rowVars, pipeVars, kernVars
  <2>4. Drained' /\ Consumed'
    BY <1>1, <2>1 DEF Drained, Consumed, kernVars, pipeVars, chanVars, SinkOK, KernOK
  <2> QED BY <2>2, <2>3, <2>4, <1>4, SinksAdvance, TypePartsNext
<1>5. CASE TrackerTask
  <2>1. /\ RowOK' /\ next' \in [Receiver -> Nat \ {0}] /\ next'["sink"] = next["sink"]
        /\ UNCHANGED <<chanVars, sinkVars, pipeVars, kernVars>>
    BY <1>5, TrackerTracks
  <2>2. ChanOK' /\ SinkOK' /\ PipeOK' /\ KernOK'
    BY <2>1, <1>1 DEF ChanOK, SinkOK, PipeOK, KernOK, chanVars, sinkVars, pipeVars, kernVars
  <2>3. Drained' /\ Consumed'
    BY <2>1 DEF Drained, Consumed, kernVars, pipeVars, chanVars, sinkVars
  <2>4. UNCHANGED <<emitted, sent, counted, sinkVars>> /\ say' = say
    BY <2>1 DEF chanVars
  <2>5. Spoken' /\ Counted' /\ Kept' /\ Written' /\ Complaining' /\ Complained'
    BY <2>1, <2>4, Elsewhere DEF Spoken
  <2> QED BY <2>1, <2>2, <2>3, <2>5, TypePartsNext
<1>6. ASSUME PipeOK' /\ KernOK' /\ Consumed' /\ Drained',
             UNCHANGED <<emitted, sent, counted, next, sinkVars, rowVars>>,
             say' = say \/ \E e \in Emitter \ {Sinks} : \E new \in Seq(Sayable(e)) : Says(e, new)
      PROVE  IInv'
  <2>1. /\ say' \in [Emitter -> Seq(Event)] /\ say'[Sinks] = say[Sinks]
        /\ \A e \in Emitter : say'[e] \in Seq(Sayable(e))
    <3>1. CASE say' = say
      BY <1>1, <3>1 DEF ChanOK, Spoken
    <3>2. ASSUME NEW e \in Emitter \ {Sinks}, NEW new \in Seq(Sayable(e)), Says(e, new)
          PROVE  /\ say' \in [Emitter -> Seq(Event)] /\ say'[Sinks] = say[Sinks]
                 /\ \A d \in Emitter : say'[d] \in Seq(Sayable(d))
      BY <3>2, Speaks, Emitters
    <3> QED BY <3>1, <3>2, <1>6
  <2>2. ChanOK' /\ SinkOK' /\ RowOK'
    BY <1>1, <1>6, <2>1 DEF ChanOK, SinkOK, RowOK, sinkVars, rowVars
  <2>3. Spoken' /\ Counted' /\ Kept' /\ Written' /\ Complaining' /\ Complained'
    BY <1>6, <2>1, Elsewhere
  <2> QED BY <1>6, <2>2, <2>3, TypePartsNext
<1>7. CASE KernelTask \/ DrainGivesUp
  BY <1>6, <1>7, KernelRuns, Emitters
<1>8. CASE \/ \E p \in Pipe : Writes(p) \/ Reads(p) \/ ReaderFails(p)
           \/ \E s \in Service : Dies(s)
  <2>1. /\ PipeOK' /\ Consumed'
        /\ UNCHANGED <<emitted, sent, counted, next, sinkVars, rowVars, kernVars>>
        /\ say' = say \/ \E p \in Pipe : Says(p, <<Ev("line", p[1])>>)
    BY <1>8, ServicesRun
  <2>2. KernOK' /\ Drained'
    BY <1>1, <2>1 DEF KernOK, Drained, kernVars, sinkVars
  <2>3. \A p \in Pipe : p \in Emitter \ {Sinks} /\ <<Ev("line", p[1])>> \in Seq(Sayable(p))
    <3>1. \A p \in Pipe : Ev("line", p[1]) \in Sayable(p)
      BY Sayables, Emitters
    <3> QED BY <3>1, Emitters
  <2> QED BY <1>6, <2>1, <2>2, <2>3
<1>9. CASE UNCHANGED vars
  <2>1. say' = say /\ UNCHANGED <<emitted, sent, counted, next, sinkVars, rowVars, pipeVars, kernVars>>
    BY <1>9 DEF vars, chanVars
  <2>2. PipeOK' /\ KernOK' /\ Consumed' /\ Drained'
    BY <1>1, <2>1 DEF PipeOK, KernOK, Consumed, Drained, pipeVars, kernVars, sinkVars
  <2> QED BY <1>6, <2>1, <2>2
<1> QED BY <1>2, <1>3, <1>4, <1>5, <1>7, <1>8, <1>9, Emitters DEF Next, SinkTask

LEMMA Invariant == Spec => []IInv
<1> QED BY InitInvariant, StepInvariant, PTL DEF Spec

----------------------------------------------------------------------------
(* What follows from it *)

\* Every variable keeps its type.
THEOREM TypeCorrect == Spec => []TypeOK
<1>1. IInv => TypeOK
  BY DEF IInv
<1> QED BY <1>1, Invariant, PTL

\* The sinks never pass over an event in silence.
THEOREM NoSilentGapEver == Spec => []NoSilentGap
<1>1. IInv => NoSilentGap
  <2>1. IInv => cursor \in Nat /\ owed \in Nat /\ next["sink"] \in Nat
    BY DEF IInv, TypeOK, Receiver
  <2> QED BY <2>1 DEF IInv, Kept, Written, NoSilentGap
<1> QED BY <1>1, Invariant, PTL

\* A drain that returns in time has seen everything written.
THEOREM DrainMeansWrittenEver == Spec => []DrainMeansWritten
<1>1. IInv => DrainMeansWritten
  <2>1. IInv => /\ cursor \in Nat /\ owed \in Nat /\ next["sink"] \in Nat
                /\ mark \in Nat /\ target \in Nat
    BY DEF IInv, TypeOK, Receiver
  <2> QED BY <2>1 DEF IInv, Kept, Written, Drained, DrainMeansWritten
<1> QED BY <1>1, Invariant, PTL

\* A log file is complained about once.
THEOREM OneComplaintEver == Spec => []OneComplaint
<1>1. IInv => OneComplaint
  <2> SUFFICES ASSUME IInv, NEW f \in File
               PROVE  Cardinality({i \in 1 .. Len(sent) : sent[i] = Ev("complaint", f)}) <= 1
    BY DEF OneComplaint
  <2> DEFINE C == {i \in 1 .. Len(sent) : sent[i] = Ev("complaint", f)}
  <2>1. CASE C = {}
    <3>1. Cardinality(C) = 0
      BY <2>1, FS_EmptySet
    <3> QED BY <3>1
  <2>2. CASE C # {}
    <3>1. PICK i \in C : TRUE
      BY <2>2
    <3>2. C = {i}
      BY <3>1 DEF IInv, Complained
    <3>3. Cardinality(C) = 1
      BY <3>2, FS_Singleton
    <3> QED BY <3>3
  <2> QED BY <2>1, <2>2
<1> QED BY <1>1, Invariant, PTL

----------------------------------------------------------------------------
(* Induction, as a fact about sets of numbers *)

\* A set of numbers has a least one.
LEMMA Least ==
  ASSUME NEW T \in SUBSET Nat, T # {}
  PROVE  \E n \in T : \A m \in T : n <= m
<1> DEFINE R == {ss \in Nat \X Nat : ss[1] < ss[2]}
<1>1. IsWellFoundedOn(R, Nat)
  <2>1. R = OpToRel(<, Nat)  BY DEF OpToRel
  <2> QED BY <2>1, NatLessThanWellFounded
<1>2. \A m, n \in Nat : m < n => <<m, n>> \in R
  OBVIOUS
<1> HIDE DEF R
<1>3. \E n \in T : \A m \in T : ~ (<<m, n>> \in R)
  BY <1>1, WFMin
<1>4. PICK n \in T : \A m \in T : ~ (<<m, n>> \in R)
  BY <1>3
<1>5. \A m \in T : n <= m
  <2>1. SUFFICES ASSUME NEW m \in T, ~(n <= m) PROVE FALSE
    OBVIOUS
  <2>2. m < n
    BY <2>1
  <2>3. <<m, n>> \in R
    BY <1>2, <2>2
  <2> QED BY <1>4, <2>3
<1> QED BY <1>5

\* A set of numbers with 0 and the successor of each of its members has them all.
LEMMA Induct ==
  ASSUME NEW T \in SUBSET Nat, 0 \in T, \A n \in T : n + 1 \in T
  PROVE  T = Nat
<1>1. SUFFICES ASSUME Nat \ T # {} PROVE FALSE
  OBVIOUS
<1>2. PICK n \in Nat \ T : \A m \in Nat \ T : n <= m
  BY <1>1, Least
<1>3. n - 1 \in T
  BY <1>2
<1> QED BY <1>3

----------------------------------------------------------------------------
(* The rows that events make: the fold of Applied, one event at a time *)

\* No service has a row.
Blank == [s \in Service |-> NoRow]

\* The table that the fold of Applied over q fills in.
Table(q) ==
  CHOOSE t : t = [S \in SUBSET DOMAIN q |->
                    IF S = {} THEN Blank ELSE Applied(t[S \ {Max(S)}], q[Max(S)])]

\* Which is what the fold looks up.
LEMMA FoldIsTable ==
  ASSUME NEW q
  PROVE  FoldLeft(Applied, Blank, q) = Table(q)[DOMAIN q]
BY DEF FoldLeft, MapThenFoldSet, Table

\* The largest of some positions of a sequence.
LEMMA Largest ==
  ASSUME NEW n \in Nat, NEW S \in SUBSET (1 .. n), S # {}
  PROVE  Max(S) \in S /\ \A x \in S : x <= Max(S)
<1> DEFINE D == {n - x : x \in S}
<1>1. D \in SUBSET Nat /\ D # {}
  <2>1. \A x \in S : n - x \in Nat
    OBVIOUS
  <2> QED BY <2>1
<1>2. PICK d \in D : \A m \in D : d <= m
  BY <1>1, Least
<1>3. PICK y \in S : d = n - y
  OBVIOUS
<1>4. \A x \in S : y >= x
  <2> SUFFICES ASSUME NEW x \in S PROVE y >= x
    OBVIOUS
  <2>1. n - x \in D
    OBVIOUS
  <2>2. n - y <= n - x
    BY <1>2, <1>3, <2>1
  <2> QED BY <2>2
<1>5. \E y1 \in S : \A x \in S : y1 >= x
  BY <1>4
<1>6. Max(S) \in S /\ \A x \in S : Max(S) >= x
  BY <1>5 DEF Max
<1> QED BY <1>6

\* Without the largest they are positions of a shorter sequence.
LEMMA Shorter ==
  ASSUME NEW k \in Nat, NEW S \in SUBSET (1 .. k + 1), S # {}
  PROVE  S \ {Max(S)} \in SUBSET (1 .. k)
<1>1. PICK n \in Nat : n = k + 1
  OBVIOUS
<1>2. S \in SUBSET (1 .. n)
  BY <1>1
<1>3. Max(S) \in S /\ \A x \in S : x <= Max(S)
  BY <1>2, Largest
<1>4. ASSUME NEW x \in S, x # Max(S) PROVE x \in 1 .. k
  <2> DEFINE m == Max(S)
  <2>1. m \in S /\ x <= m /\ x # m
    BY <1>3, <1>4
  <2> HIDE DEF m
  <2> QED BY <2>1
<1> QED BY <1>4

\* The table exists: it is filled in from the smallest sets up.
LEMMA TableFits ==
  ASSUME NEW q, NEW n \in Nat, DOMAIN q = 1 .. n
  PROVE  Table(q) = [S \in SUBSET DOMAIN q |->
                       IF S = {} THEN Blank ELSE Applied(Table(q)[S \ {Max(S)}], q[Max(S)])]
<1> DEFINE Entry(t, S) == IF S = {} THEN Blank ELSE Applied(t[S \ {Max(S)}], q[Max(S)])
           Fits(t, k) == /\ t = [S \in SUBSET DOMAIN q |-> t[S]]
                         /\ \A S \in SUBSET (1 .. k) : t[S] = Entry(t, S)
           Some(k) == \E t : Fits(t, k)
           T == {k \in Nat : k <= n => Some(k)}
<1>1. Some(0)
  <2> DEFINE u == [S \in SUBSET DOMAIN q |-> Blank]
  <2>1. \A S \in SUBSET (1 .. 0) : S = {} /\ S \in SUBSET DOMAIN q
    OBVIOUS
  <2>2. Fits(u, 0)
    BY <2>1
  <2> HIDE DEF Fits
  <2> QED BY <2>2
<1>2. ASSUME NEW k \in Nat, k + 1 <= n, Some(k) PROVE Some(k + 1)
  <2>1. PICK t : Fits(t, k)
    BY <1>2
  <2> DEFINE u == [S \in SUBSET DOMAIN q |-> Entry(t, S)]
  <2>2. \A S \in SUBSET (1 .. k) : u[S] = t[S]
    <3>1. \A S \in SUBSET (1 .. k) : S \in SUBSET DOMAIN q
      BY <1>2
    <3> QED BY <2>1, <3>1
  <2>3. ASSUME NEW S \in SUBSET (1 .. k + 1) PROVE u[S] = Entry(u, S)
    <3>1. S \in SUBSET DOMAIN q
      BY <1>2
    <3>2. CASE S = {}
      BY <3>1, <3>2
    <3>3. CASE S # {}
      <4>2. S \ {Max(S)} \in SUBSET (1 .. k)
        BY <3>3, Shorter
      <4>3. u[S \ {Max(S)}] = t[S \ {Max(S)}]
        BY <2>2, <4>2
      <4> QED BY <3>1, <4>3
    <3> QED BY <3>2, <3>3
  <2>4. u = [S \in SUBSET DOMAIN q |-> u[S]]
    OBVIOUS
  <2>5. Fits(u, k + 1)
    <3> HIDE DEF u
    <3> QED BY <2>3, <2>4
  <2> HIDE DEF Fits, u
  <2> QED BY <2>5
<1>3. Some(n)
  <2> HIDE DEF Some
  <2>1. T \in SUBSET Nat /\ 0 \in T
    BY <1>1
  <2>2. ASSUME NEW k \in T PROVE k + 1 \in T
    BY <1>2
  <2>3. T = Nat
    <3> HIDE DEF T
    <3> QED BY <2>1, <2>2, Induct
  <2> QED BY <2>3
<1>4. PICK t : t = [S \in SUBSET DOMAIN q |-> t[S]] /\ \A S \in SUBSET (1 .. n) : t[S] = Entry(t, S)
  BY <1>3
<1>5. t = [S \in SUBSET DOMAIN q |-> Entry(t, S)]
  <2>1. \A S \in SUBSET DOMAIN q : t[S] = Entry(t, S)
    BY <1>4
  <2> HIDE DEF Entry
  <2> QED BY <1>4, <2>1
<1> QED BY <1>5 DEF Table

\* Row by row of the table.
LEMMA TableRows ==
  ASSUME NEW q, NEW n \in Nat, DOMAIN q = 1 .. n
  PROVE  /\ Table(q)[1 .. 0] = Blank
         /\ \A k \in 1 .. n : Table(q)[1 .. k] = Applied(Table(q)[1 .. k - 1], q[k])
<1>1. \A S \in SUBSET (1 .. n) :
        Table(q)[S] = IF S = {} THEN Blank ELSE Applied(Table(q)[S \ {Max(S)}], q[Max(S)])
  BY TableFits
<1>2. 1 .. 0 = {}
  OBVIOUS
<1>3. ASSUME NEW k \in 1 .. n PROVE Table(q)[1 .. k] = Applied(Table(q)[1 .. k - 1], q[k])
  <2>1. 1 .. k \in SUBSET (1 .. n) /\ 1 .. k # {}
    <3>1. k \in 1 .. k /\ \A x \in 1 .. k : x \in 1 .. n
      OBVIOUS
    <3> QED BY <3>1
  <2>2. Max(1 .. k) = k
    <3>1. k \in Nat /\ 1 .. k \in SUBSET (1 .. k)
      OBVIOUS
    <3>2. Max(1 .. k) \in 1 .. k /\ \A x \in 1 .. k : x <= Max(1 .. k)
      BY <2>1, <3>1, Largest
    <3> QED BY <3>2
  <2>3. (1 .. k) \ {k} = 1 .. k - 1
    OBVIOUS
  <2> QED BY <1>1, <2>1, <2>2, <2>3
<1> QED BY <1>1, <1>2, <1>3

\* A set of rows is a row for each service, and stays one.
LEMMA AppliedType ==
  ASSUME NEW r \in [Service -> Row], NEW ev \in Sayings
  PROVE  /\ Applied(r, ev) \in [Service -> Row]
         /\ \A s \in Service : ~(Changes(ev) /\ ev.of = s) => Applied(r, ev)[s] = r[s]
         /\ \A o \in [Service -> Row] : \A s \in Service :
              r[s] = o[s] => Applied(r, ev)[s] = Applied(o, ev)[s]
<1>1. Changes(ev) => ev.of \in Service
  BY SayableTyped
<1>2. CASE ev.kind = "started"
  <2>1. ev.of \in Service
    BY <1>1, <1>2 DEF Changes
  <2>2. \A o : Applied(o, ev) = ServiceStarted(o, ev.of, FALSE)
    BY <1>2 DEF Applied
  <2>3. ServiceStarted(r, ev.of, FALSE) \in [Service -> Row]
    BY <2>1, ServiceStartedType
  <2> DEFINE F(x) == [state |-> "running", desired |-> "up", ran |-> TRUE, ready |-> "unchecked",
                      restarts |-> IF x.ran THEN x.restarts + 1 ELSE x.restarts]
  <2>4. \A o \in [Service -> Row] : Applied(o, ev) = [o EXCEPT ![ev.of] = F(o[ev.of])]
    BY <2>2 DEF ServiceStarted
  <2> HIDE DEF F
  <2>5. Applied(r, ev) \in [Service -> Row]
    BY <2>2, <2>3
  <2>6. \A s \in Service : s # ev.of => Applied(r, ev)[s] = r[s]
    BY <2>1, <2>4
  <2>7. \A o \in [Service -> Row] : \A s \in Service : r[s] = o[s] => Applied(r, ev)[s] = Applied(o, ev)[s]
    BY <2>1, <2>4
  <2>8. Changes(ev)
    BY <1>2 DEF Changes
  <2> QED BY <2>5, <2>6, <2>7, <2>8
<1>3. CASE ev.kind = "exited"
  <2>1. ev.of \in Service
    BY <1>1, <1>3 DEF Changes
  <2>2. \A o : Applied(o, ev) = ServiceExited(o, ev.of)
    BY <1>3 DEF Applied
  <2>3. ServiceExited(r, ev.of) \in [Service -> Row]
    BY <2>1, RowChangesType
  <2> DEFINE F(x) == IF x.state # "absent" THEN [x EXCEPT !.state = "exited"] ELSE x
  <2>4. \A o \in [Service -> Row] : Applied(o, ev) = [o EXCEPT ![ev.of] = F(o[ev.of])]
    BY <2>1, <2>2 DEF ServiceExited, Update, Tracked
  <2> HIDE DEF F
  <2> QED BY <2>1, <2>2, <2>3, <2>4, <1>3 DEF Changes
<1>4. CASE ~Changes(ev)
  BY <1>4 DEF Applied, Changes
<1> QED BY <1>2, <1>3, <1>4 DEF Changes

\* There is a row of each service in every place of the table.
LEMMA TableType ==
  ASSUME NEW q \in Seq(Sayings)
  PROVE  \A k \in 0 .. Len(q) : Table(q)[1 .. k] \in [Service -> Row]
<1> DEFINE T == {k \in Nat : k <= Len(q) => Table(q)[1 .. k] \in [Service -> Row]}
<1>1. /\ Table(q)[1 .. 0] = Blank
      /\ \A k \in 1 .. Len(q) : Table(q)[1 .. k] = Applied(Table(q)[1 .. k - 1], q[k])
  BY TableRows
<1>2. 0 \in T
  <2>1. NoRow \in Row
    BY DEF NoRow, Row, RowState
  <2>2. Blank \in [Service -> Row]
    BY <2>1 DEF Blank
  <2> QED BY <1>1, <2>2
<1>3. ASSUME NEW k \in T, k + 1 <= Len(q) PROVE Table(q)[1 .. k + 1] \in [Service -> Row]
  <2>1. k + 1 \in 1 .. Len(q) /\ (k + 1) - 1 = k /\ q[k + 1] \in Sayings
    BY <1>3
  <2>2. Table(q)[1 .. k] \in [Service -> Row]
    BY <1>3
  <2>3. Table(q)[1 .. k + 1] = Applied(Table(q)[1 .. k], q[k + 1])
    BY <1>1, <2>1
  <2> QED BY <2>1, <2>2, <2>3, AppliedType
<1>4. T \in SUBSET Nat /\ \A k \in T : k + 1 \in T
  BY <1>3
<1>5. T = Nat
  <2> HIDE DEF T
  <2> QED BY <1>2, <1>4, Induct
<1> QED BY <1>5

\* The table of a longer sequence begins with that of the shorter one.
LEMMA TableOfMore ==
  ASSUME NEW q \in Seq(Sayings), NEW ev \in Sayings
  PROVE  \A k \in 0 .. Len(q) : Table(Append(q, ev))[1 .. k] = Table(q)[1 .. k]
<1> DEFINE r == Append(q, ev)
           T == {k \in Nat : k <= Len(q) => Table(r)[1 .. k] = Table(q)[1 .. k]}
<1>1. r \in Seq(Sayings) /\ Len(r) = Len(q) + 1 /\ \A k \in 1 .. Len(q) : r[k] = q[k]
  OBVIOUS
<1> HIDE DEF r
<1>2. /\ Table(q)[1 .. 0] = Blank
      /\ \A k \in 1 .. Len(q) : Table(q)[1 .. k] = Applied(Table(q)[1 .. k - 1], q[k])
  BY TableRows
<1>3. /\ Table(r)[1 .. 0] = Blank
      /\ \A k \in 1 .. Len(r) : Table(r)[1 .. k] = Applied(Table(r)[1 .. k - 1], r[k])
  BY <1>1, TableRows
<1>4. 0 \in T
  BY <1>2, <1>3
<1>5. ASSUME NEW k \in T, k + 1 <= Len(q) PROVE Table(r)[1 .. k + 1] = Table(q)[1 .. k + 1]
  <2>1. k + 1 \in 1 .. Len(q) /\ k + 1 \in 1 .. Len(r) /\ (k + 1) - 1 = k
    BY <1>1, <1>5
  <2>2. Table(r)[1 .. k] = Table(q)[1 .. k]
    BY <1>5
  <2> QED BY <1>1, <1>2, <1>3, <2>1, <2>2
<1>6. T \in SUBSET Nat /\ \A k \in T : k + 1 \in T
  BY <1>5
<1>7. T = Nat
  <2> HIDE DEF T
  <2> QED BY <1>4, <1>6, Induct
<1> QED BY <1>7 DEF r

\* What the events q make of the rows, one event at a time.
LEMMA FoldStep ==
  /\ FoldLeft(Applied, Blank, <<>>) = Blank
  /\ \A q \in Seq(Sayings) :
       /\ FoldLeft(Applied, Blank, q) \in [Service -> Row]
       /\ \A ev \in Sayings :
            FoldLeft(Applied, Blank, Append(q, ev)) = Applied(FoldLeft(Applied, Blank, q), ev)
<1>1. FoldLeft(Applied, Blank, <<>>) = Blank
  <2>1. DOMAIN <<>> = 1 .. 0
    OBVIOUS
  <2>2. Table(<<>>)[1 .. 0] = Blank
    BY <2>1, TableRows
  <2> QED BY <2>1, <2>2, FoldIsTable
<1>2. \A q \in Seq(Sayings) : FoldLeft(Applied, Blank, q) = Table(q)[1 .. Len(q)]
  BY FoldIsTable
<1>3. ASSUME NEW q \in Seq(Sayings), NEW ev \in Sayings
      PROVE  Table(Append(q, ev))[1 .. Len(Append(q, ev))] = Applied(Table(q)[1 .. Len(q)], ev)
  <2> DEFINE r == Append(q, ev)
             n == Len(q)
  <2>1. r \in Seq(Sayings) /\ n \in Nat /\ Len(r) = n + 1 /\ r[n + 1] = ev
    OBVIOUS
  <2>2. Table(r)[1 .. n] = Table(q)[1 .. n]
    BY <2>1, TableOfMore
  <2> HIDE DEF r, n
  <2>3. \A k \in 1 .. n + 1 : Table(r)[1 .. k] = Applied(Table(r)[1 .. k - 1], r[k])
    <3>1. DOMAIN r = 1 .. n + 1 /\ n + 1 \in Nat
      BY <2>1
    <3> QED BY <3>1, TableRows
  <2>4. n + 1 \in 1 .. n + 1 /\ (n + 1) - 1 = n
    BY <2>1
  <2>5. Table(r)[1 .. n + 1] = Applied(Table(r)[1 .. n], r[n + 1])
    BY <2>3, <2>4
  <2> QED BY <2>1, <2>2, <2>5 DEF r, n
<1>4. ASSUME NEW q \in Seq(Sayings) PROVE FoldLeft(Applied, Blank, q) \in [Service -> Row]
  BY <1>2, TableType
<1>5. ASSUME NEW q \in Seq(Sayings), NEW ev \in Sayings
      PROVE  FoldLeft(Applied, Blank, Append(q, ev)) = Applied(FoldLeft(Applied, Blank, q), ev)
  <2>1. Append(q, ev) \in Seq(Sayings)
    OBVIOUS
  <2> QED BY <1>2, <1>3, <2>1
<1> QED BY <1>1, <1>4, <1>5

----------------------------------------------------------------------------
(* The tracker *)

\* The rows that the first k events of q make.
Heard(q, k) == FoldLeft(Applied, Blank, SubSeq(q, 1, k))

\* One event more.
LEMMA HeardStep ==
  ASSUME NEW q \in Seq(Sayings)
  PROVE  /\ Heard(q, 0) = Blank
         /\ Heard(q, Len(q)) = FoldLeft(Applied, Blank, q)
         /\ \A k \in 0 .. Len(q) : Heard(q, k) \in [Service -> Row]
         /\ \A k \in 0 .. Len(q) : k < Len(q) => Heard(q, k + 1) = Applied(Heard(q, k), q[k + 1])
         /\ \A k \in 0 .. Len(q) : \A ev \in Sayings : Heard(Append(q, ev), k) = Heard(q, k)
<1>1. SubSeq(q, 1, 0) = <<>> /\ SubSeq(q, 1, Len(q)) = q
  OBVIOUS
<1>2. \A k \in 0 .. Len(q) : SubSeq(q, 1, k) \in Seq(Sayings)
  OBVIOUS
<1>3. ASSUME NEW k \in 0 .. Len(q), k < Len(q)
      PROVE  Heard(q, k + 1) = Applied(Heard(q, k), q[k + 1])
  <2>1. SubSeq(q, 1, k + 1) = Append(SubSeq(q, 1, k), q[k + 1]) /\ q[k + 1] \in Sayings
    BY <1>3
  <2> QED BY <1>2, <2>1, FoldStep DEF Heard
<1>4. ASSUME NEW k \in 0 .. Len(q), NEW ev \in Sayings
      PROVE  SubSeq(Append(q, ev), 1, k) = SubSeq(q, 1, k)
  OBVIOUS
<1> QED BY <1>1, <1>2, <1>3, <1>4, FoldStep DEF Heard

\* Events that are no change of s leave its row alone.
LEMMA HeardNothing ==
  ASSUME NEW q \in Seq(Sayings), NEW s \in Service, NEW m \in Nat, NEW n \in Nat, m <= n, n <= Len(q),
         \A i \in m + 1 .. n : ~(Changes(q[i]) /\ q[i].of = s)
  PROVE  Heard(q, n)[s] = Heard(q, m)[s]
<1> DEFINE T == {k \in Nat : m <= k /\ k <= n => Heard(q, k)[s] = Heard(q, m)[s]}
<1>1. T \in SUBSET Nat /\ 0 \in T
  OBVIOUS
<1>2. ASSUME NEW k \in T, m <= k + 1, k + 1 <= n PROVE Heard(q, k + 1)[s] = Heard(q, m)[s]
  <2>1. CASE m = k + 1
    BY <2>1
  <2>2. CASE m # k + 1
    <3>1. /\ k \in 0 .. Len(q) /\ k < Len(q) /\ m <= k /\ k <= n
          /\ k + 1 \in 1 .. Len(q) /\ k + 1 \in m + 1 .. n
      BY <1>2, <2>2
    <3>2. q[k + 1] \in Sayings /\ ~(Changes(q[k + 1]) /\ q[k + 1].of = s)
      BY <3>1
    <3>3. Heard(q, k + 1) = Applied(Heard(q, k), q[k + 1]) /\ Heard(q, k) \in [Service -> Row]
      BY <3>1, HeardStep
    <3>4. Heard(q, k + 1)[s] = Heard(q, k)[s]
      BY <3>2, <3>3, AppliedType
    <3>5. Heard(q, k)[s] = Heard(q, m)[s]
      BY <3>1
    <3> QED BY <3>4, <3>5
  <2> QED BY <2>1, <2>2
<1>3. \A k \in T : k + 1 \in T
  BY <1>2
<1>4. n \in T
  <2> HIDE DEF T
  <2> QED BY <1>1, <1>3, Induct
<1> QED BY <1>4

\* The rows are what the events up to now make, for every service of which no
\* change was missed.
Fresh ==
  /\ next["tracker"] <= Len(sent) + 1
  /\ \A s \in Service \ missed : rows[s] = Heard(sent, next["tracker"] - 1)[s]

\* No event, no row.
LEMMA InitFresh == Init => Fresh
<1> SUFFICES ASSUME Init PROVE Fresh
  OBVIOUS
<1>1. sent = <<>> /\ next["tracker"] = 1 /\ rows = Blank
  BY DEF Init, Receiver, Blank
<1>2. Heard(sent, 0) = Blank
  <2>1. sent \in Seq(Sayings)
    BY <1>1
  <2> QED BY <2>1, HeardStep
<1>3. next["tracker"] - 1 = 0
  BY <1>1
<1> QED BY <1>1, <1>2, <1>3 DEF Fresh

\* What is sent is news the tracker has not heard.
LEMMA SendingStaysFresh ==
  ASSUME IInv, Fresh, NEW e \in Emitter, ~Idle(e), Sends(e), Said(e), UNCHANGED <<next, rowVars>>
  PROVE  Fresh'
<1>1. sent \in Seq(Sayings) /\ next["tracker"] \in Nat \ {0} /\ Spoken /\ TypeOK
  BY DEF IInv, Spoken, TypeOK, Receiver
<1>2. Head(say[e]) \in Sayings
  BY <1>1, Sending, SayableTyped
<1>3. sent' = Append(sent, Head(say[e])) /\ Len(sent') = Len(sent) + 1
  BY <1>1, Sending DEF Sends
<1> DEFINE k == next["tracker"] - 1
<1>4. k \in 0 .. Len(sent)
  BY <1>1 DEF Fresh
<1>5. Heard(sent', k) = Heard(sent, k)
  BY <1>1, <1>2, <1>3, <1>4, HeardStep
<1>6. next'["tracker"] - 1 = k /\ rows' = rows /\ missed' = missed
  BY DEF rowVars
<1>7. next'["tracker"] <= Len(sent') + 1
  BY <1>1, <1>3 DEF Fresh
<1> QED BY <1>5, <1>6, <1>7 DEF Fresh

\* What the tracker hears it applies; what it misses concerns the services it
\* has missed a change of.
LEMMA TrackerStaysFresh ==
  ASSUME IInv, Fresh, TrackerTask
  PROVE  Fresh'
<1> DEFINE it == Received("tracker")
           k == next["tracker"] - 1
<1>1. /\ sent \in Seq(Sayings) /\ next["tracker"] \in Nat \ {0} /\ rows \in [Service -> Row]
      /\ missed \subseteq Service
  BY DEF IInv, Spoken, TypeOK, Receiver
<1>2. Receives("tracker") /\ sent' = sent
  BY DEF TrackerTask, chanVars
<1>3. /\ it.from = next["tracker"] /\ it.n \in Nat \ {0} /\ (~it.lost => it.n = 1)
      /\ next'["tracker"] = next["tracker"] + it.n /\ next'["tracker"] <= Len(sent) + 1
  BY <1>2, Receiving DEF Receiver, IInv
<1> HIDE DEF it
<1>4. PICK n \in Nat \ {0} : n = it.n
  BY <1>3
<1>5. /\ k \in Nat /\ Len(sent) \in Nat /\ k + n <= Len(sent) /\ next'["tracker"] - 1 = k + n
      /\ next["tracker"] = k + 1 /\ Covers(it) = k + 1 .. k + 1 + n - 1
      /\ k \in 0 .. Len(sent) /\ k < Len(sent)
  <2>1. Len(sent) \in Nat
    BY <1>1
  <2>2. Covers(it) = k + 1 .. k + 1 + n - 1
    BY <1>1, <1>3, <1>4 DEF Covers
  <2>3. PICK x \in Nat \ {0} : x = next["tracker"]
    BY <1>1
  <2>4. next'["tracker"] = x + n /\ x + n <= Len(sent) + 1 /\ k = x - 1
    BY <1>3, <1>4, <2>3
  <2> HIDE DEF k
  <2>5. k \in Nat /\ k + n <= Len(sent) /\ k < Len(sent) /\ x = k + 1
    BY <2>1, <2>4
  <2>6. k \in 0 .. Len(sent)
    BY <2>1, <2>5
  <2>7. next'["tracker"] - 1 = k + n
    BY <2>4, <2>5
  <2> QED BY <2>1, <2>2, <2>3, <2>5, <2>6, <2>7
<1> HIDE DEF k
<1>6. CASE it.lost
  <2>1. missed' = missed \cup Missed /\ rows' = rows
    BY <1>6 DEF TrackerTask, it
  <2>2. ASSUME NEW s \in Service \ missed' PROVE rows'[s] = Heard(sent, k + n)[s]
    <3>1. s \in Service \ missed /\ s \notin Missed
      BY <2>1, <2>2
    <3>2. \A i \in Covers(it) : ~(Changes(sent[i]) /\ sent[i].of = s)
      BY <3>1 DEF Missed, it
    <3>3. \A i \in k + 1 .. k + n : i \in Covers(it)
      BY <1>5
    <3>4. \A i \in k + 1 .. k + n : ~(Changes(sent[i]) /\ sent[i].of = s)
      BY <3>2, <3>3
    <3>5. Heard(sent, k + n)[s] = Heard(sent, k)[s]
      <4>1. PICK j \in Nat : j = k + n
        BY <1>5
      <4>2. k \in Nat /\ k <= j /\ j <= Len(sent) /\ s \in Service
        BY <1>5, <4>1
      <4>3. \A i \in k + 1 .. j : ~(Changes(sent[i]) /\ sent[i].of = s)
        BY <3>4, <4>1
      <4>4. Heard(sent, j)[s] = Heard(sent, k)[s]
        BY <1>1, <4>2, <4>3, HeardNothing
      <4> QED BY <4>1, <4>4
    <3>6. rows[s] = Heard(sent, k)[s]
      BY <3>1 DEF Fresh, k
    <3> QED BY <2>1, <3>5, <3>6
  <2> QED BY <1>2, <1>3, <1>5, <2>2 DEF Fresh
<1>7. CASE ~it.lost
  <2>1. missed' = missed /\ rows' = Applied(rows, sent[k + 1])
    BY <1>5, <1>7 DEF TrackerTask, it
  <2>2. k \in 0 .. Len(sent) /\ k < Len(sent) /\ n = 1
    <3>1. n = 1
      BY <1>3, <1>4, <1>7
    <3> QED BY <1>5, <3>1
  <2>3. /\ Heard(sent, k) \in [Service -> Row]
        /\ Heard(sent, k + 1) = Applied(Heard(sent, k), sent[k + 1])
    BY <1>1, <2>2, HeardStep
  <2>4. sent[k + 1] \in Sayings
    BY <1>1, <2>2
  <2>5. ASSUME NEW s \in Service \ missed' PROVE rows'[s] = Heard(sent, k + 1)[s]
    <3>1. rows[s] = Heard(sent, k)[s]
      BY <2>1 DEF Fresh, k
    <3>2. PICK o : o = Heard(sent, k)
      OBVIOUS
    <3>3. Applied(rows, sent[k + 1])[s] = Applied(o, sent[k + 1])[s]
      BY <1>1, <2>3, <2>4, <3>1, <3>2, AppliedType
    <3> QED BY <2>1, <2>3, <3>2, <3>3
  <2> QED BY <1>2, <1>3, <1>5, <2>2, <2>5 DEF Fresh
<1> QED BY <1>6, <1>7

\* Only emitters send, and only the tracker's task touches its rows.
LEMMA WhoMovesRows ==
  ASSUME TypeOK, [Next]_vars
  PROVE  \/ \E e \in Emitter : ~Idle(e) /\ Sends(e) /\ Said(e) /\ UNCHANGED <<next, rowVars>>
         \/ TrackerTask
         \/ UNCHANGED <<sent, rowVars>> /\ next'["tracker"] = next["tracker"]
<1>1. ASSUME NEW e \in Emitter, Emit(e)
      PROVE  \/ ~Idle(e) /\ Sends(e) /\ Said(e) /\ UNCHANGED <<next, rowVars>>
             \/ UNCHANGED <<sent, rowVars, next>>
  BY <1>1 DEF Emit
<1>2. KernelEmits => ~Idle(Kernel) /\ Sends(Kernel) /\ Said(Kernel) /\ UNCHANGED <<next, rowVars>>
  BY DEF KernelEmits
<1>3. SinkTask => UNCHANGED <<sent, rowVars>> /\ next'["tracker"] = next["tracker"]
  <2>1. SinkReceives => UNCHANGED <<sent, rowVars>> /\ next' = [next EXCEPT !["sink"] = next["sink"] + Received("sink").n]
    BY DEF SinkReceives, Receives
  <2>2. SinkAdvances => UNCHANGED <<sent, rowVars, next>>
    BY DEF SinkAdvances, chanVars
  <2> QED BY <2>1, <2>2 DEF SinkTask, TypeOK, Receiver
<1>4. KernelTask \/ DrainGivesUp => UNCHANGED <<sent, rowVars, next>>
  BY DEF KernelTask, DrainGivesUp, Reports, Stops, Spawns, Pipes, IsStopped, DrainIo, DrainIoTimesOut, Dumps,
         CallsDrain, DrainReturns, chanVars
<1>5. ASSUME \/ \E p \in Pipe : Writes(p) \/ Reads(p) \/ ReaderFails(p)
             \/ \E s \in Service : Dies(s)
      PROVE  UNCHANGED <<sent, rowVars, next>>
  BY <1>5 DEF Writes, Reads, ReaderFails, Dies, chanVars
<1>6. UNCHANGED vars => UNCHANGED <<sent, rowVars, next>>
  BY DEF vars, chanVars
<1> QED BY <1>1, <1>2, <1>3, <1>4, <1>5, <1>6, Emitters DEF Next

\* Whoever moves, the rows stay fresh.
LEMMA StepFresh == IInv /\ Fresh /\ [Next]_vars => Fresh'
<1> SUFFICES ASSUME IInv, Fresh, [Next]_vars PROVE Fresh'
  OBVIOUS
<1>1. CASE UNCHANGED <<sent, rowVars>> /\ next'["tracker"] = next["tracker"]
  BY <1>1 DEF Fresh, rowVars
<1>2. TypeOK
  BY DEF IInv
<1> QED BY <1>1, <1>2, WhoMovesRows, SendingStaysFresh, TrackerStaysFresh

\* A tracker that has caught up is wrong about no service but those it missed
\* a change of.
THEOREM OnlyMissedRowsAreStaleEver == Spec => []OnlyMissedRowsAreStale
<1>1. IInv /\ Fresh => OnlyMissedRowsAreStale
  <2> SUFFICES ASSUME IInv, Fresh, next["tracker"] = Len(sent) + 1, NEW s \in Service, s \notin missed
               PROVE  rows[s] = FoldLeft(Applied, [t \in Service |-> NoRow], sent)[s]
    BY DEF OnlyMissedRowsAreStale
  <2>1. sent \in Seq(Sayings) /\ next["tracker"] - 1 = Len(sent)
    BY DEF IInv, Spoken
  <2>2. Heard(sent, Len(sent)) = FoldLeft(Applied, Blank, sent)
    BY <2>1, HeardStep
  <2> QED BY <2>1, <2>2 DEF Fresh, Blank
<1>2. Init => Fresh
  BY InitFresh
<1> QED BY <1>1, <1>2, StepFresh, Invariant, PTL DEF Spec

----------------------------------------------------------------------------
(* Sums *)

\* The element of S that a fold over S begins with.
OneOf(S) == CHOOSE x \in S : TRUE

\* The table that the sum of f fills in.
Sums(f) ==
  CHOOSE t : t = [S \in SUBSET DOMAIN f |-> IF S = {} THEN 0 ELSE f[OneOf(S)] + t[S \ {OneOf(S)}]]

\* Which is what the sum looks up.
LEMMA SumIsTable ==
  ASSUME NEW f
  PROVE  SumFunction(f) = Sums(f)[DOMAIN f]
BY DEF SumFunction, SumFunctionOnSet, FoldFunctionOnSet, MapThenFoldSet, Sums, OneOf

\* A set without one of its elements has one less.
LEMMA Smaller ==
  ASSUME NEW S, IsFiniteSet(S), S # {}
  PROVE  /\ OneOf(S) \in S /\ IsFiniteSet(S \ {OneOf(S)}) /\ Cardinality(S) \in Nat \ {0}
         /\ Cardinality(S \ {OneOf(S)}) = Cardinality(S) - 1
<1>1. OneOf(S) \in S
  BY DEF OneOf
<1>2. /\ IsFiniteSet(S \ {OneOf(S)})
      /\ Cardinality(S \ {OneOf(S)}) = Cardinality(S) - 1
  BY <1>1, FS_RemoveElement
<1>3. Cardinality(S) \in Nat /\ Cardinality(S) # 0
  BY FS_CardinalityType, FS_EmptySet
<1> QED BY <1>1, <1>2, <1>3

\* The table exists: it is filled in from the smallest sets up.
LEMMA SumsFit ==
  ASSUME NEW D, IsFiniteSet(D), NEW f \in [D -> Nat]
  PROVE  \A S \in SUBSET D : Sums(f)[S] = IF S = {} THEN 0 ELSE f[OneOf(S)] + Sums(f)[S \ {OneOf(S)}]
<1> DEFINE Entry(t, S) == IF S = {} THEN 0 ELSE f[OneOf(S)] + t[S \ {OneOf(S)}]
           Fits(t, k) == /\ t = [S \in SUBSET D |-> t[S]]
                         /\ \A S \in SUBSET D : Cardinality(S) <= k => t[S] = Entry(t, S)
           Known(k) == \E t : Fits(t, k)
           T == {k \in Nat : Known(k)}
<1>1. \A S \in SUBSET D : IsFiniteSet(S) /\ Cardinality(S) \in Nat
  BY FS_Subset, FS_CardinalityType
<1>2. Known(0)
  <2> DEFINE u == [S \in SUBSET D |-> 0]
  <2>1. \A S \in SUBSET D : Cardinality(S) <= 0 => S = {}
    <3>1. \A S \in SUBSET D : Cardinality(S) <= 0 => Cardinality(S) = 0
      BY <1>1
    <3> QED BY <1>1, <3>1, FS_EmptySet
  <2>2. Fits(u, 0)
    BY <2>1
  <2> HIDE DEF Fits
  <2> QED BY <2>2
<1>3. ASSUME NEW k \in Nat, Known(k) PROVE Known(k + 1)
  <2>1. PICK t : Fits(t, k)
    BY <1>3
  <2> DEFINE u == [S \in SUBSET D |-> Entry(t, S)]
  <2>2. \A S \in SUBSET D : Cardinality(S) <= k => u[S] = t[S]
    BY <2>1
  <2>3. ASSUME NEW S \in SUBSET D, Cardinality(S) <= k + 1 PROVE u[S] = Entry(u, S)
    <3>1. CASE S = {}
      BY <3>1
    <3>2. CASE S # {}
      <4>1. PICK R \in SUBSET D : R = S \ {OneOf(S)}
        OBVIOUS
      <4>2. Cardinality(R) <= k
        <5>1. Cardinality(R) = Cardinality(S) - 1 /\ Cardinality(S) \in Nat
          BY <1>1, <3>2, <4>1, Smaller
        <5> QED BY <2>3, <5>1
      <4>3. u[R] = t[R]
        BY <2>2, <4>2
      <4> QED BY <3>2, <4>1, <4>3
    <3> QED BY <3>1, <3>2
  <2>4. u = [S \in SUBSET D |-> u[S]]
    OBVIOUS
  <2>5. Fits(u, k + 1)
    <3> HIDE DEF u
    <3> QED BY <2>3, <2>4
  <2> HIDE DEF Fits, u
  <2> QED BY <2>5
<1>4. Known(Cardinality(D))
  <2> HIDE DEF Known
  <2>1. T \in SUBSET Nat /\ 0 \in T /\ \A k \in T : k + 1 \in T
    BY <1>2, <1>3
  <2>2. T = Nat
    <3> HIDE DEF T
    <3> QED BY <2>1, Induct
  <2> QED BY <2>2, FS_CardinalityType
<1>5. PICK t : Fits(t, Cardinality(D))
  BY <1>4
<1>6. t = [S \in SUBSET D |-> Entry(t, S)]
  <2>1. \A S \in SUBSET D : Cardinality(S) <= Cardinality(D)
    BY FS_Subset
  <2>2. \A S \in SUBSET D : t[S] = Entry(t, S)
    BY <1>5, <2>1
  <2> HIDE DEF Entry
  <2> QED BY <1>5, <2>2
<1>7. DOMAIN f = D
  OBVIOUS
<1>8. Sums(f) = [S \in SUBSET D |-> Entry(Sums(f), S)]
  BY <1>6, <1>7 DEF Sums
<1> QED BY <1>8

\* One more in one place is one more in all.
LEMMA SumStep ==
  ASSUME NEW D, IsFiniteSet(D), NEW f \in [D -> Nat], NEW g \in [D -> Nat], NEW d \in D,
         g[d] = f[d] + 1, \A x \in D : x # d => g[x] = f[x]
  PROVE  SumFunction(f) \in Nat /\ SumFunction(g) = SumFunction(f) + 1
<1> DEFINE Good(S) == /\ Sums(f)[S] \in Nat
                      /\ d \in S => Sums(g)[S] = Sums(f)[S] + 1
                      /\ d \notin S => Sums(g)[S] = Sums(f)[S]
           T == {k \in Nat : \A S \in SUBSET D : Cardinality(S) <= k => Good(S)}
<1>1. \A S \in SUBSET D : IsFiniteSet(S) /\ Cardinality(S) \in Nat
  BY FS_Subset, FS_CardinalityType
<1>2. \A S \in SUBSET D :
        /\ Sums(f)[S] = IF S = {} THEN 0 ELSE f[OneOf(S)] + Sums(f)[S \ {OneOf(S)}]
        /\ Sums(g)[S] = IF S = {} THEN 0 ELSE g[OneOf(S)] + Sums(g)[S \ {OneOf(S)}]
  <2>1. \A h \in [D -> Nat] : \A S \in SUBSET D :
          Sums(h)[S] = IF S = {} THEN 0 ELSE h[OneOf(S)] + Sums(h)[S \ {OneOf(S)}]
    BY SumsFit
  <2> HIDE DEF OneOf
  <2> QED BY <2>1
<1>3. Good({})
  <2>1. {} \in SUBSET D
    OBVIOUS
  <2>2. Sums(f)[{}] = 0 /\ Sums(g)[{}] = 0
    BY <1>2, <2>1
  <2> QED BY <2>2
<1>4. 0 \in T
  <2>1. \A S \in SUBSET D : Cardinality(S) <= 0 => S = {}
    <3>1. \A S \in SUBSET D : Cardinality(S) <= 0 => Cardinality(S) = 0
      BY <1>1
    <3> QED BY <1>1, <3>1, FS_EmptySet
  <2> HIDE DEF Good
  <2> QED BY <1>3, <2>1
<1>5. ASSUME NEW k \in T, NEW S \in SUBSET D, Cardinality(S) <= k + 1 PROVE Good(S)
  <2>1. CASE S = {}
    BY <1>3, <2>1
  <2>2. CASE S # {}
    <3>1. PICK R \in SUBSET D : R = S \ {OneOf(S)}
      OBVIOUS
    <3>2. PICK x \in D : x = OneOf(S) /\ x \in S
      BY <1>1, <2>2, Smaller
    <3>3. Cardinality(R) <= k
      <4>1. Cardinality(R) = Cardinality(S) - 1 /\ Cardinality(S) \in Nat
        BY <1>1, <2>2, <3>1, Smaller
      <4> QED BY <1>5, <4>1
    <3>4. Good(R)
      <4> HIDE DEF Good
      <4> QED BY <3>3
    <3>5. Sums(f)[S] = f[x] + Sums(f)[R] /\ Sums(g)[S] = g[x] + Sums(g)[R]
      BY <1>2, <2>2, <3>1, <3>2
    <3>6. R = S \ {x}
      BY <3>1, <3>2
    <3>7. f[x] \in Nat
      OBVIOUS
    <3>8. CASE x = d
      BY <3>4, <3>5, <3>6, <3>7, <3>8, <3>2
    <3>9. CASE x # d
      BY <3>4, <3>5, <3>6, <3>7, <3>9, <3>2
    <3> QED BY <3>8, <3>9
  <2> QED BY <2>1, <2>2
<1>6. Cardinality(D) \in T
  <2> HIDE DEF Good
  <2>1. T \in SUBSET Nat /\ \A k \in T : k + 1 \in T
    BY <1>5
  <2>2. T = Nat
    <3> HIDE DEF T
    <3> QED BY <1>4, <2>1, Induct
  <2> QED BY <2>2, FS_CardinalityType
<1>7. Good(D)
  <2>1. D \in SUBSET D /\ Cardinality(D) <= Cardinality(D)
    BY FS_CardinalityType
  <2> HIDE DEF Good
  <2> QED BY <1>6, <2>1
<1>8. SumFunction(f) = Sums(f)[D] /\ SumFunction(g) = Sums(g)[D]
  <2>1. DOMAIN f = D /\ DOMAIN g = D
    OBVIOUS
  <2> QED BY <2>1, SumIsTable
<1> QED BY <1>7, <1>8

\* Nothing adds up to nothing.
LEMMA SumOfNone ==
  ASSUME NEW D, IsFiniteSet(D)
  PROVE  SumFunction([x \in D |-> 0]) = 0
<1> DEFINE f == [x \in D |-> 0]
           T == {k \in Nat : \A S \in SUBSET D : Cardinality(S) <= k => Sums(f)[S] = 0}
<1>1. \A S \in SUBSET D : IsFiniteSet(S) /\ Cardinality(S) \in Nat
  BY FS_Subset, FS_CardinalityType
<1>2. f \in [D -> Nat] /\ DOMAIN f = D /\ \A x \in D : f[x] = 0
  OBVIOUS
<1> HIDE DEF f
<1>3. \A S \in SUBSET D : Sums(f)[S] = IF S = {} THEN 0 ELSE f[OneOf(S)] + Sums(f)[S \ {OneOf(S)}]
  BY <1>2, SumsFit
<1>4. 0 \in T
  <2>1. \A S \in SUBSET D : Cardinality(S) <= 0 => S = {}
    <3>1. \A S \in SUBSET D : Cardinality(S) <= 0 => Cardinality(S) = 0
      BY <1>1
    <3> QED BY <1>1, <3>1, FS_EmptySet
  <2> QED BY <1>3, <2>1
<1>5. ASSUME NEW k \in T, NEW S \in SUBSET D, Cardinality(S) <= k + 1 PROVE Sums(f)[S] = 0
  <2>1. CASE S = {}
    BY <1>3, <2>1
  <2>2. CASE S # {}
    <3>1. PICK R \in SUBSET D : R = S \ {OneOf(S)}
      OBVIOUS
    <3>2. OneOf(S) \in D
      BY <1>1, <2>2, Smaller
    <3>3. Cardinality(R) <= k
      <4>1. Cardinality(R) = Cardinality(S) - 1 /\ Cardinality(S) \in Nat
        BY <1>1, <2>2, <3>1, Smaller
      <4> QED BY <1>5, <4>1
    <3>4. Sums(f)[R] = 0
      BY <3>3
    <3>5. f[OneOf(S)] = 0
      BY <1>2, <3>2
    <3>6. Sums(f)[S] = f[OneOf(S)] + Sums(f)[R]
      BY <1>3, <2>2, <3>1
    <3> QED BY <3>4, <3>5, <3>6
  <2> QED BY <2>1, <2>2
<1>6. Cardinality(D) \in T
  <2>1. T \in SUBSET Nat /\ \A k \in T : k + 1 \in T
    BY <1>5
  <2>2. T = Nat
    <3> HIDE DEF T
    <3> QED BY <1>4, <2>1, Induct
  <2> QED BY <2>2, FS_CardinalityType
<1>7. Sums(f)[D] = 0
  <2>1. D \in SUBSET D /\ Cardinality(D) <= Cardinality(D)
    BY FS_CardinalityType
  <2> QED BY <1>6, <2>1
<1> QED BY <1>2, <1>7, SumIsTable DEF f

----------------------------------------------------------------------------
(* What a service wrote last *)

\* The smaller of two numbers.
LEMMA SmallerOfTwo ==
  ASSUME NEW a \in Int, NEW b \in Int
  PROVE  Min({a, b}) = IF a <= b THEN a ELSE b
<1>1. \E x \in {a, b} : \A y \in {a, b} : x <= y
  OBVIOUS
<1>2. Min({a, b}) \in {a, b} /\ \A y \in {a, b} : Min({a, b}) <= y
  BY <1>1 DEF Min
<1> QED BY <1>2

\* The oldest line may go.
LEMMA UnbrokenTail ==
  ASSUME NEW q \in Seq(Stream \X Nat), q # <<>>, NEW n, Unbroken(q, n)
  PROVE  Unbroken(Tail(q), n)
<1> DEFINE r == Tail(q)
<1>1. Len(r) = Len(q) - 1 /\ Len(q) \in Nat \ {0} /\ \A i \in 1 .. Len(r) : r[i] = q[i + 1]
  OBVIOUS
<1> HIDE DEF r
<1>2. ASSUME NEW i \in 1 .. Len(r), \A j \in i + 1 .. Len(r) : r[j][1] # r[i][1]
      PROVE  r[i][2] = n[r[i][1]]
  <2>1. i + 1 \in 1 .. Len(q) /\ r[i] = q[i + 1]
    BY <1>1
  <2>2. ASSUME NEW j \in (i + 1) + 1 .. Len(q) PROVE q[j][1] # q[i + 1][1]
    <3>1. PICK m \in i + 1 .. Len(r) : j = m + 1
      <4>1. j - 1 \in i + 1 .. Len(r) /\ j = (j - 1) + 1
        BY <1>1
      <4> QED BY <4>1
    <3>2. m \in 1 .. Len(r)
      BY <1>1
    <3>3. r[m] = q[m + 1] /\ r[m][1] # r[i][1]
      BY <1>1, <1>2, <3>2
    <3> QED BY <2>1, <3>1, <3>3
  <2> QED BY <2>1, <2>2 DEF Unbroken
<1>3. ASSUME NEW i \in 1 .. Len(r), NEW j \in 1 .. Len(r), i < j, r[j][1] = r[i][1],
             \A k \in i + 1 .. j - 1 : r[k][1] # r[i][1]
      PROVE  r[j][2] = r[i][2] + 1
  <2>1. i + 1 \in 1 .. Len(q) /\ r[i] = q[i + 1] /\ j + 1 \in 1 .. Len(q) /\ r[j] = q[j + 1] /\ i + 1 < j + 1
    <3>1. r[i] = q[i + 1] /\ r[j] = q[j + 1]
      BY <1>1
    <3>2. i + 1 \in 1 .. Len(q) /\ j + 1 \in 1 .. Len(q) /\ i + 1 < j + 1
      BY <1>1, <1>3
    <3> QED BY <3>1, <3>2
  <2>2. ASSUME NEW k \in (i + 1) + 1 .. (j + 1) - 1 PROVE q[k][1] # q[i + 1][1]
    <3>1. PICK m \in i + 1 .. j - 1 : k = m + 1
      <4>1. k - 1 \in i + 1 .. j - 1 /\ k = (k - 1) + 1
        BY <1>1
      <4> QED BY <4>1
    <3>2. m \in 1 .. Len(r)
      BY <1>1
    <3>3. r[m] = q[m + 1] /\ r[m][1] # r[i][1]
      BY <1>1, <1>3, <3>2
    <3> QED BY <2>1, <3>1, <3>3
  <2> QED BY <1>3, <2>1, <2>2 DEF Unbroken
<1> QED BY <1>2, <1>3 DEF Unbroken, r

\* The next line of a stream may follow.
LEMMA UnbrokenAppend ==
  ASSUME NEW q \in Seq(Stream \X Nat), NEW n \in [Stream -> Nat], NEW m \in [Stream -> Nat],
         NEW st \in Stream, m[st] = n[st] + 1, \A x \in Stream : x # st => m[x] = n[x], Unbroken(q, n)
  PROVE  Unbroken(Append(q, <<st, m[st]>>), m)
<1> DEFINE l == <<st, m[st]>>
           r == Append(q, l)
<1>1. l[1] = st /\ l[2] = m[st] /\ l \in Stream \X Nat
  OBVIOUS
<1> HIDE DEF l
<1>2. /\ Len(q) \in Nat /\ Len(r) = Len(q) + 1 /\ r[Len(q) + 1] = l
      /\ \A i \in 1 .. Len(q) : r[i] = q[i]
  OBVIOUS
<1>3. \A i \in 1 .. Len(q) : q[i][1] \in Stream /\ q[i][2] \in Nat
  <2>1. \A i \in 1 .. Len(q) : q[i] \in Stream \X Nat
    OBVIOUS
  <2> QED BY <2>1
<1> HIDE DEF r
<1>4. ASSUME NEW i \in 1 .. Len(r), \A j \in i + 1 .. Len(r) : r[j][1] # r[i][1]
      PROVE  r[i][2] = m[r[i][1]]
  <2>1. CASE i = Len(q) + 1
    <3>1. r[i] = l
      BY <1>2, <2>1
    <3> QED BY <1>1, <3>1
  <2>2. CASE i \in 1 .. Len(q)
    <3>1. r[i] = q[i] /\ q[i][1] # st
      <4>1. Len(q) + 1 \in i + 1 .. Len(r)
        BY <1>2, <2>2
      <4> QED BY <1>1, <1>2, <1>4, <2>2, <4>1
    <3>2. ASSUME NEW j \in i + 1 .. Len(q) PROVE q[j][1] # q[i][1]
      <4>1. j \in 1 .. Len(q) /\ j \in i + 1 .. Len(r)
        BY <1>2, <2>2
      <4> QED BY <1>2, <1>4, <3>1, <4>1
    <3>3. q[i][2] = n[q[i][1]]
      BY <2>2, <3>2 DEF Unbroken
    <3> QED BY <1>3, <2>2, <3>1, <3>3
  <2>3. i = Len(q) + 1 \/ i \in 1 .. Len(q)
    BY <1>2
  <2> QED BY <2>1, <2>2, <2>3
<1>5. ASSUME NEW i \in 1 .. Len(r), NEW j \in 1 .. Len(r), i < j, r[j][1] = r[i][1],
             \A k \in i + 1 .. j - 1 : r[k][1] # r[i][1]
      PROVE  r[j][2] = r[i][2] + 1
  <2>1. i \in 1 .. Len(q) /\ r[i] = q[i]
    <3>1. i \in 1 .. Len(q)
      BY <1>2, <1>5
    <3> QED BY <1>2, <3>1
  <2>2. \A k \in i + 1 .. j - 1 : k \in 1 .. Len(q) /\ r[k] = q[k]
    <3>1. \A k \in i + 1 .. j - 1 : k \in 1 .. Len(q)
      BY <1>2, <1>5
    <3> QED BY <1>2, <3>1
  <2>3. \A k \in i + 1 .. j - 1 : q[k][1] # q[i][1]
    BY <1>5, <2>1, <2>2
  <2>4. CASE j \in 1 .. Len(q)
    <3>1. r[j] = q[j]
      BY <1>2, <2>4
    <3>2. q[j][1] = q[i][1]
      BY <1>5, <2>1, <3>1
    <3>3. q[j][2] = q[i][2] + 1
      BY <1>5, <2>1, <2>3, <2>4, <3>2 DEF Unbroken
    <3> QED BY <2>1, <3>1, <3>3
  <2>5. CASE j = Len(q) + 1
    <3>1. r[j] = l /\ q[i][1] = st
      BY <1>1, <1>2, <1>5, <2>1, <2>5
    <3>2. \A k \in i + 1 .. Len(q) : q[k][1] # q[i][1]
      <4>1. j - 1 = Len(q)
        BY <1>2, <2>5
      <4> QED BY <2>3, <4>1
    <3>3. q[i][2] = n[st]
      BY <2>1, <3>1, <3>2 DEF Unbroken
    <3> QED BY <1>1, <2>1, <3>1, <3>3
  <2>6. j \in 1 .. Len(q) \/ j = Len(q) + 1
    BY <1>2
  <2> QED BY <2>4, <2>5, <2>6
<1> QED BY <1>4, <1>5 DEF Unbroken, r, l

\* The line just read is pushed to the tail.
LEMMA Pushing ==
  ASSUME NEW q \in Seq(Stream \X Nat), NEW n \in [Stream -> Nat], NEW m \in [Stream -> Nat],
         NEW st \in Stream, m[st] = n[st] + 1, \A x \in Stream : x # st => m[x] = n[x], EndOf(q, n)
  PROVE  EndOf(Pushed(q, <<st, m[st]>>), m)
<1>1. /\ IsFiniteSet(Stream) /\ TailLines \in Nat \ {0}
      /\ SumFunction(n) \in Nat /\ SumFunction(m) = SumFunction(n) + 1
  <2>1. IsFiniteSet(Stream) /\ TailLines \in Nat \ {0}
    BY ConstantsAssumption
  <2> QED BY <2>1, SumStep
<1>2. Len(q) = Min({TailLines, SumFunction(n)}) /\ Unbroken(q, n) /\ Len(q) \in Nat
  BY DEF EndOf
<1>3. Len(q) = IF TailLines <= SumFunction(n) THEN TailLines ELSE SumFunction(n)
  BY <1>1, <1>2, SmallerOfTwo
<1>4. Min({TailLines, SumFunction(m)}) = IF TailLines <= SumFunction(m) THEN TailLines ELSE SumFunction(m)
  BY <1>1, SmallerOfTwo
<1>5. PICK r : r = IF Len(q) >= TailLines THEN Tail(q) ELSE q
  OBVIOUS
<1>6. /\ r \in Seq(Stream \X Nat) /\ Unbroken(r, n)
      /\ Len(r) + 1 = Min({TailLines, SumFunction(m)})
  <2>1. CASE Len(q) >= TailLines
    <3>1. q # <<>> /\ r = Tail(q)
      BY <1>1, <1>5, <2>1
    <3>2. r \in Seq(Stream \X Nat) /\ Len(r) = Len(q) - 1
      BY <3>1
    <3>3. Unbroken(r, n)
      BY <1>2, <3>1, UnbrokenTail
    <3>4. PICK a \in Nat, c \in Nat \ {0} : a = SumFunction(n) /\ c = TailLines
      BY <1>1
    <3>5. Len(q) = c /\ c <= a
      BY <1>1, <1>3, <2>1, <3>4
    <3>6. Min({TailLines, SumFunction(m)}) = c
      BY <1>1, <1>4, <3>4, <3>5
    <3> QED BY <3>2, <3>3, <3>5, <3>6
  <2>2. CASE ~(Len(q) >= TailLines)
    BY <1>1, <1>2, <1>3, <1>4, <1>5, <2>2
  <2> QED BY <2>1, <2>2
<1>7. PICK l : l = <<st, m[st]>>
  OBVIOUS
<1>8. Pushed(q, l) = Append(r, l)
  BY <1>5 DEF Pushed
<1>9. Len(Append(r, l)) = Len(r) + 1
  BY <1>6
<1>10. Unbroken(Append(r, l), m)
  BY <1>6, <1>7, UnbrokenAppend
<1> QED BY <1>6, <1>7, <1>8, <1>9, <1>10 DEF EndOf

----------------------------------------------------------------------------
(* The tails and the dump *)

\* What has been read of each stream of a service.
Seen(s) == [st \in Stream |-> wrote[<<s, st>>] - unread[<<s, st>>]]

\* Each tail is the end of what was read.
Tails == \A s \in Service : EndOf(tail[s], Seen(s))

\* What is dumped is the end of what was read, and there is no more to come.
Dumped ==
  pc = "dumping" /\ ~hasty =>
    /\ EndOf(dump, Seen(cur))
    /\ \A p \in Pipe : p[1] = cur /\ reader[p] = "reading" => unread[p] = 0 /\ ~Open(p)

\* Nothing written, nothing in the tails.
LEMMA InitDump == Init => Tails /\ Dumped
<1> SUFFICES ASSUME Init PROVE Tails /\ Dumped
  OBVIOUS
<1>1. ASSUME NEW s \in Service PROVE EndOf(tail[s], Seen(s))
  <2>1. tail[s] = <<>>
    BY DEF Init
  <2>2. Seen(s) = [st \in Stream |-> 0]
    <3>1. \A st \in Stream : wrote[<<s, st>>] - unread[<<s, st>>] = 0
      BY DEF Init, Pipe
    <3> QED BY <3>1 DEF Seen
  <2>3. SumFunction(Seen(s)) = 0
    BY <2>2, SumOfNone, ConstantsAssumption
  <2>4. Min({TailLines, SumFunction(Seen(s))}) = 0
    <3>1. Min({TailLines, 0}) = 0
      BY SmallerOfTwo, ConstantsAssumption
    <3> QED BY <2>3, <3>1
  <2>5. Unbroken(<<>>, Seen(s))
    BY DEF Unbroken
  <2> QED BY <2>1, <2>4, <2>5 DEF EndOf
<1>2. pc = "spawning"
  BY DEF Init
<1> QED BY <1>1, <1>2 DEF Tails, Dumped

\* A line that nobody has read yet is in no tail.
LEMMA WritingKeepsTails ==
  ASSUME TypeOK, Consumed, Tails, Dumped, NEW p \in Pipe, Writes(p)
  PROVE  Tails' /\ Dumped'
<1>1. /\ wrote \in [Pipe -> Nat] /\ unread \in [Pipe -> Nat]
      /\ wrote' = [wrote EXCEPT ![p] = wrote[p] + 1]
      /\ unread' = [unread EXCEPT ![p] = unread[p] + 1]
      /\ Open(p) /\ reader[p] = "reading"
      /\ UNCHANGED <<alive, reader, held, tail, pc, cur, dump, hasty>>
  BY DEF Writes, TypeOK, kernVars
<1>2. ASSUME NEW s PROVE Seen(s)' = Seen(s)
  <2>1. ASSUME NEW st \in Stream PROVE wrote'[<<s, st>>] - unread'[<<s, st>>] = wrote[<<s, st>>] - unread[<<s, st>>]
    <3>1. CASE <<s, st>> = p
      BY <1>1, <3>1
    <3>2. CASE <<s, st>> # p
      BY <1>1, <3>2
    <3> QED BY <3>1, <3>2
  <2> QED BY <2>1 DEF Seen
<1>3. Tails'
  BY <1>1, <1>2 DEF Tails
<1>4. Dumped'
  <2> SUFFICES ASSUME pc = "dumping", ~hasty PROVE Dumped'
    BY <1>1 DEF Dumped
  <2>1. /\ EndOf(dump, Seen(cur))
        /\ \A x \in Pipe : x[1] = cur /\ reader[x] = "reading" => unread[x] = 0 /\ ~Open(x)
    BY DEF Dumped
  <2>2. p[1] # cur
    BY <1>1, <2>1
  <2>3. \A x \in Pipe : x[1] = cur => unread'[x] = unread[x] /\ reader'[x] = reader[x] /\ Open(x)' = Open(x)
    BY <1>1, <2>2 DEF Open
  <2>4. EndOf(dump, Seen(cur))'
    BY <1>1, <1>2, <2>1
  <2> QED BY <1>1, <2>1, <2>3, <2>4 DEF Dumped
<1> QED BY <1>3, <1>4

\* A line that is read is the last one of its tail.
LEMMA ReadingKeepsTails ==
  ASSUME TypeOK, Consumed, Tails, Dumped, NEW p \in Pipe, Reads(p)
  PROVE  Tails' /\ Dumped'
<1>1. /\ wrote \in [Pipe -> Nat] /\ unread \in [Pipe -> Nat] /\ tail \in [Service -> Seq(Stream \X Nat)]
      /\ unread[p] > 0 /\ unread' = [unread EXCEPT ![p] = unread[p] - 1] /\ wrote' = wrote
      /\ tail' = [tail EXCEPT ![p[1]] = Pushed(tail[p[1]], <<p[2], wrote[p] - unread'[p]>>)]
      /\ reader[p] = "reading"
      /\ UNCHANGED <<alive, reader, held, pc, cur, dump, hasty>>
  BY DEF Reads, TypeOK, kernVars
<1>2. p[1] \in Service /\ p[2] \in Stream /\ p = <<p[1], p[2]>>
  BY DEF Pipe
<1>3. ASSUME NEW s, s # p[1] PROVE Seen(s)' = Seen(s)
  <2>1. ASSUME NEW st \in Stream PROVE wrote'[<<s, st>>] - unread'[<<s, st>>] = wrote[<<s, st>>] - unread[<<s, st>>]
    <3>1. <<s, st>> # p
      BY <1>3
    <3> QED BY <1>1, <3>1
  <2> QED BY <2>1 DEF Seen
<1>4. ASSUME NEW s \in Service PROVE EndOf(tail[s], Seen(s))'
  <2>1. CASE s # p[1]
    <3>1. tail'[s] = tail[s]
      BY <1>1, <2>1
    <3> QED BY <1>3, <2>1, <3>1 DEF Tails
  <2>2. CASE s = p[1]
    <3>1. PICK n, m : n = Seen(s) /\ m = Seen(s)'
      OBVIOUS
    <3>2. \A st \in Stream : <<s, st>> \in Pipe /\ wrote[<<s, st>>] - unread[<<s, st>>] \in Nat
      BY <1>1, <2>2 DEF Pipe, Consumed
    <3>3. n \in [Stream -> Nat] /\ \A st \in Stream : n[st] = wrote[<<s, st>>] - unread[<<s, st>>]
      BY <3>1, <3>2 DEF Seen
    <3>4. \A st \in Stream : wrote'[<<s, st>>] - unread'[<<s, st>>] = n[st] + (IF st = p[2] THEN 1 ELSE 0)
      <4> SUFFICES ASSUME NEW st \in Stream
                   PROVE  wrote'[<<s, st>>] - unread'[<<s, st>>] = n[st] + (IF st = p[2] THEN 1 ELSE 0)
        OBVIOUS
      <4>1. CASE st = p[2]
        <5>1. <<s, st>> = p
          BY <1>2, <2>2, <4>1
        <5>2. unread'[p] = unread[p] - 1 /\ unread[p] \in Nat /\ wrote[p] \in Nat /\ wrote'[p] = wrote[p]
          BY <1>1
        <5>3. n[st] = wrote[p] - unread[p]
          BY <3>3, <5>1
        <5> QED BY <4>1, <5>1, <5>2, <5>3
      <4>2. CASE st # p[2]
        <5>1. <<s, st>> # p
          BY <4>2
        <5>2. unread'[<<s, st>>] = unread[<<s, st>>] /\ wrote'[<<s, st>>] = wrote[<<s, st>>]
          BY <1>1, <3>2, <5>1
        <5>3. n[st] \in Nat
          BY <3>3
        <5> QED BY <3>3, <4>2, <5>2, <5>3
      <4> QED BY <4>1, <4>2
    <3>5. m = [st \in Stream |-> wrote'[<<s, st>>] - unread'[<<s, st>>]]
      BY <3>1 DEF Seen
    <3>6. /\ m \in [Stream -> Nat] /\ m[p[2]] = n[p[2]] + 1
          /\ \A st \in Stream : st # p[2] => m[st] = n[st]
      <4>1. \A st \in Stream : m[st] = n[st] + (IF st = p[2] THEN 1 ELSE 0) /\ n[st] \in Nat
        BY <3>3, <3>4, <3>5
      <4>2. \A st \in Stream : m[st] \in Nat
        BY <4>1
      <4>3. m \in [Stream -> Nat]
        BY <3>5, <4>2
      <4> QED BY <1>2, <4>1, <4>3
    <3>7. wrote[p] - unread'[p] = m[p[2]]
      BY <1>1, <1>2, <2>2, <3>5
    <3>8. tail'[s] = Pushed(tail[s], <<p[2], m[p[2]]>>)
      BY <1>1, <1>2, <2>2, <3>7
    <3>9. tail[s] \in Seq(Stream \X Nat) /\ EndOf(tail[s], n)
      BY <1>1, <3>1 DEF Tails
    <3>10. EndOf(Pushed(tail[s], <<p[2], m[p[2]]>>), m)
      BY <1>2, <3>3, <3>6, <3>9, Pushing
    <3> QED BY <3>1, <3>8, <3>10
  <2> QED BY <2>1, <2>2
<1>5. Dumped'
  <2> SUFFICES ASSUME pc = "dumping", ~hasty PROVE Dumped'
    BY <1>1 DEF Dumped
  <2>1. /\ EndOf(dump, Seen(cur))
        /\ \A x \in Pipe : x[1] = cur /\ reader[x] = "reading" => unread[x] = 0 /\ ~Open(x)
    BY DEF Dumped
  <2>2. cur # p[1]
    BY <1>1, <2>1
  <2>3. \A x \in Pipe : x[1] = cur => unread'[x] = unread[x] /\ reader'[x] = reader[x] /\ Open(x)' = Open(x)
    BY <1>1, <2>2 DEF Open
  <2>4. EndOf(dump, Seen(cur))'
    BY <1>1, <1>3, <2>1, <2>2
  <2> QED BY <1>1, <2>1, <2>3, <2>4 DEF Dumped
<1> QED BY <1>4, <1>5 DEF Tails

\* Neither the reader that fails nor the service that dies changes what was read.
LEMMA EndingKeepsTails ==
  ASSUME TypeOK, Tails, Dumped,
         \/ \E p \in Pipe : ReaderFails(p)
         \/ \E s \in Service : Dies(s)
  PROVE  Tails' /\ Dumped'
<1>1. UNCHANGED <<wrote, unread, tail, pc, cur, dump, hasty>>
  BY DEF ReaderFails, Dies, kernVars
<1>2. \A s : Seen(s)' = Seen(s)
  BY <1>1 DEF Seen
<1>3. Tails'
  BY <1>1, <1>2 DEF Tails
<1>4. Dumped'
  <2> SUFFICES ASSUME pc = "dumping", ~hasty PROVE Dumped'
    BY <1>1 DEF Dumped
  <2>1. /\ EndOf(dump, Seen(cur))
        /\ \A x \in Pipe : x[1] = cur /\ reader[x] = "reading" => unread[x] = 0 /\ ~Open(x)
    BY DEF Dumped
  <2>2. ASSUME NEW x \in Pipe, x[1] = cur, reader'[x] = "reading" PROVE unread'[x] = 0 /\ ~Open(x)'
    <3>1. CASE \E p \in Pipe : ReaderFails(p)
      <4>1. PICK p \in Pipe : ReaderFails(p)
        BY <3>1
      <4>2. reader' = [reader EXCEPT ![p] = "failed"] /\ UNCHANGED <<alive, held>>
        BY <4>1 DEF ReaderFails
      <4>3. reader[x] = "reading"
        BY <2>2, <4>2 DEF TypeOK
      <4> QED BY <1>1, <2>1, <2>2, <4>2, <4>3 DEF Open
    <3>2. CASE \E s \in Service : Dies(s)
      <4>1. PICK s \in Service : Dies(s)
        BY <3>2
      <4>2. /\ s \in alive /\ alive' = alive \ {s} /\ reader' = reader
            /\ \E P \in SUBSET {p \in Pipe : p[1] = s /\ MaxLines[s] > 0} : held' = held \cup P
        BY <4>1 DEF Dies, Leaves
      <4>3. unread[x] = 0 /\ x[1] \notin alive /\ x \notin held
        BY <2>1, <2>2, <4>2 DEF Open
      <4> QED BY <1>1, <4>2, <4>3 DEF Open
    <3> QED BY <3>1, <3>2
  <2>3. EndOf(dump, Seen(cur))'
    BY <1>1, <1>2, <2>1
  <2> QED BY <1>1, <2>2, <2>3 DEF Dumped
<1> QED BY <1>3, <1>4

\* The kernel dumps what there is once the readers are done.
LEMMA KernelKeepsTails ==
  ASSUME TypeOK, Tails, Dumped, KernelTask \/ DrainGivesUp
  PROVE  Tails' /\ Dumped'
<1>1. UNCHANGED <<wrote, unread, tail>>
  BY DEF KernelTask, DrainGivesUp, Reports, Stops, Spawns, Pipes, IsStopped, DrainIo, DrainIoTimesOut, Dumps,
         CallsDrain, DrainReturns, pipeVars
<1>2. \A s : Seen(s)' = Seen(s)
  BY <1>1 DEF Seen
<1>3. Tails'
  BY <1>1, <1>2 DEF Tails
<1>4. pc' # "dumping" \/ DrainIo \/ DrainIoTimesOut
  BY DEF KernelTask, DrainGivesUp, Reports, Stops, Spawns, Pipes, IsStopped, CallsDrain, DrainReturns
<1>5. CASE DrainIo
  <2>1. Joined /\ dump' = tail[cur] /\ cur' = cur /\ UNCHANGED pipeVars /\ cur \in Service
    BY <1>5 DEF DrainIo, Dumps, TypeOK
  <2>2. EndOf(dump, Seen(cur))'
    BY <1>2, <2>1 DEF Tails
  <2>3. \A x \in Pipe : x[1] = cur /\ reader[x] = "reading" => unread[x] = 0 /\ ~Open(x)
    BY <2>1 DEF Joined, Ended
  <2> QED BY <2>1, <2>2, <2>3, <1>3 DEF Dumped, pipeVars, Open
<1>6. CASE DrainIoTimesOut
  BY <1>3, <1>6 DEF DrainIoTimesOut, Dumped
<1>7. CASE pc' # "dumping"
  BY <1>3, <1>7 DEF Dumped
<1> QED BY <1>4, <1>5, <1>6, <1>7

\* Whoever moves, the tails stay what they are.
LEMMA StepDump == IInv /\ Tails /\ Dumped /\ [Next]_vars => Tails' /\ Dumped'
<1> SUFFICES ASSUME IInv, Tails, Dumped, [Next]_vars PROVE Tails' /\ Dumped'
  OBVIOUS
<1>1. TypeOK /\ Consumed
  BY DEF IInv
<1>2. ASSUME UNCHANGED <<pipeVars, kernVars>> PROVE Tails' /\ Dumped'
  BY <1>2 DEF pipeVars, kernVars, Tails, Dumped, Seen, Open
<1>3. \/ UNCHANGED <<pipeVars, kernVars>>
      \/ KernelTask \/ DrainGivesUp
      \/ \E p \in Pipe : Writes(p) \/ Reads(p) \/ ReaderFails(p)
      \/ \E s \in Service : Dies(s)
  BY DEF Next, vars, Emit, KernelEmits, SinkTask, SinkReceives, SinkAdvances, TrackerTask
<1> QED BY <1>1, <1>2, <1>3, WritingKeepsTails, ReadingKeepsTails, EndingKeepsTails, KernelKeepsTails

\* What is dumped of a service that has died is the end of what it wrote.
THEOREM DumpIsTheEndEver == Spec => []DumpIsTheEnd
<1>1. IInv /\ Dumped => DumpIsTheEnd
  <2> SUFFICES ASSUME IInv, Dumped, pc = "dumping", ~hasty,
                      \A st \in Stream : reader[<<cur, st>>] = "reading"
               PROVE  EndOf(dump, [st \in Stream |-> wrote[<<cur, st>>]])
    BY DEF DumpIsTheEnd
  <2>1. cur \in Service /\ wrote \in [Pipe -> Nat]
    BY DEF IInv, TypeOK
  <2>2. ASSUME NEW st \in Stream PROVE wrote[<<cur, st>>] - unread[<<cur, st>>] = wrote[<<cur, st>>]
    <3>1. <<cur, st>> \in Pipe
      BY <2>1 DEF Pipe
    <3>2. unread[<<cur, st>>] = 0
      BY <3>1 DEF Dumped
    <3> QED BY <2>1, <3>1, <3>2
  <2>3. Seen(cur) = [st \in Stream |-> wrote[<<cur, st>>]]
    BY <2>2 DEF Seen
  <2> QED BY <2>3 DEF Dumped
<1>2. Init => Tails /\ Dumped
  BY InitDump
<1> QED BY <1>1, <1>2, StepDump, Invariant, PTL DEF Spec
===============================================================================
