---------------------------- MODULE Waves_proofs ----------------------------
(***************************************************************************)
(* Theorems about module Waves: what dag::toposort promises, for any       *)
(* finite set of services and any depends_on lists.                        *)
(*                                                                         *)
(* The invariant says what the counters stand for: a service's in-degree   *)
(* is how many entries of its depends_on name a service not yet in a wave, *)
(* and the queue holds the services for which that has come to none.       *)
(***************************************************************************)
EXTENDS Waves, FiniteSetTheorems, SequenceTheorems, TLAPS

\* The entries of n's depends_on whose service is in no wave yet.
Left(n) == DOMAIN deps[n] \ Uses(n, Placed)

Sorting == pc \in {"sort", "ok", "cycle"}

\* Nothing has been placed before the sort, nor in a config it refuses.
NotSorting ==
  ~Sorting => waves = << >> /\ queue = {} /\ visited = 0 /\ inDegree = [n \in Name |-> 0]

\* Every name is known, and every counter is what it stands for.
Counted ==
  /\ \A n \in Name : Uses(n, Name) = DOMAIN deps[n]
  /\ \A n \in Name : inDegree[n] = Cardinality(Left(n))
  /\ visited = Cardinality(Placed)

\* The queue is the services that are due; none of them has a wave.
Due ==
  /\ Placed \subseteq Name /\ queue \cap Placed = {}
  /\ \A n \in Name : n \in queue \cup Placed <=> Left(n) = {}
  /\ waves # << >> => \A n \in queue : \E i \in DOMAIN deps[n] : deps[n][i] \in waves[Len(waves)]

\* No service on a cycle ever gets a wave.
CyclesAreStuck == \A S \in SUBSET Name : Stuck(S) => S \cap Placed = {}

Verdict == /\ pc \in {"ok", "cycle"} => queue = {}
           /\ pc = "ok" => visited = Cardinality(Name)
           /\ pc = "cycle" => visited # Cardinality(Name)

Typed == /\ pc \in {"validate", "sort", "ok", "unknown", "cycle"}
         /\ deps \in Configs /\ queue \subseteq Name /\ waves \in Seq(SUBSET Name)
         /\ inDegree \in [Name -> Int]

WInv == /\ Typed /\ NotSorting /\ DependenciesEarlier /\ AsEarlyAsPossible
        /\ Sorting => Counted /\ Due /\ CyclesAreStuck /\ Verdict

----------------------------------------------------------------------------
(* Facts about one state *)

\* Sets of entries of a depends_on list can be counted.
LEMMA EntriesFinite ==
  ASSUME deps \in Configs, NEW n \in Name, NEW I \in SUBSET DOMAIN deps[n]
  PROVE  IsFiniteSet(I) /\ Cardinality(I) \in Nat
<1>1. \A T : deps[n] \in Seq(T) => IsFiniteSet(DOMAIN deps[n])
  <2> SUFFICES ASSUME NEW T, deps[n] \in Seq(T) PROVE IsFiniteSet(DOMAIN deps[n])
    OBVIOUS
  <2>1. DOMAIN deps[n] = 1 .. Len(deps[n]) /\ Len(deps[n]) \in Nat
    OBVIOUS
  <2> QED
    BY <2>1, FS_Interval
<1>2. IsFiniteSet(DOMAIN deps[n])
  BY <1>1, ConfigsAssumption
<1> QED
  BY <1>2, FS_Subset, FS_CardinalityType

LEMMA PlacedFinite ==
  ASSUME Placed \subseteq Name
  PROVE  IsFiniteSet(Placed) /\ Cardinality(Placed) \in Nat
BY ConfigsAssumption, FS_Subset, FS_CardinalityType

\* Appending a wave places exactly its services.
LEMMA PlacedGrows ==
  ASSUME Typed, waves' = Append(waves, queue)
  PROVE  /\ Placed' = Placed \cup queue
         /\ Len(waves') = Len(waves) + 1
         /\ waves'[Len(waves) + 1] = queue
         /\ \A k \in DOMAIN waves : waves'[k] = waves[k]
         /\ DOMAIN waves = 1 .. Len(waves) /\ DOMAIN waves' = 1 .. Len(waves) + 1
         /\ Len(waves) \in Nat
<1>1. queue \in SUBSET Name /\ waves \in Seq(SUBSET Name)
  BY DEF Typed
<1>2. /\ Len(waves') = Len(waves) + 1
      /\ waves'[Len(waves) + 1] = queue
      /\ \A k \in 1 .. Len(waves) : waves'[k] = waves[k]
      /\ waves' \in Seq(SUBSET Name)
  BY <1>1, AppendProperties
<1>3. DOMAIN waves = 1 .. Len(waves) /\ DOMAIN waves' = 1 .. Len(waves') /\ Len(waves) \in Nat
  BY <1>1, <1>2
<1>4. \A x : x \in Placed' <=> x \in Placed \/ x \in queue
  BY <1>2, <1>3 DEF Placed
<1> QED
  BY <1>2, <1>3, <1>4

\* Placing the queue leaves each service what it did not use of it.
LEMMA CountDown ==
  ASSUME deps \in Configs, UNCHANGED deps, NEW n \in Name,
         queue \cap Placed = {}, Placed' = Placed \cup queue
  PROVE  /\ Left(n)' = Left(n) \ Uses(n, queue)
         /\ Uses(n, queue) \subseteq Left(n)
         /\ Cardinality(Left(n)') = Cardinality(Left(n)) - Cardinality(Uses(n, queue))
<1>1. /\ Left(n)' = Left(n) \ Uses(n, queue)
      /\ Uses(n, queue) \subseteq Left(n)
      /\ Left(n) \subseteq DOMAIN deps[n]
  BY DEF Left, Uses
<1>2. IsFiniteSet(Left(n)) /\ IsFiniteSet(Uses(n, queue))
  BY <1>1, EntriesFinite
<1>3. Left(n) \cap Uses(n, queue) = Uses(n, queue)
  BY <1>1
<1> QED
  BY <1>1, <1>2, <1>3, FS_Difference

----------------------------------------------------------------------------
(* The invariant holds from step to step *)

LEMMA InitWaves == Init => WInv
<1> SUFFICES ASSUME Init PROVE WInv
  OBVIOUS
<1> USE DEF Init
<1>1. Typed /\ NotSorting /\ ~Sorting
  BY DEF Typed, NotSorting, Sorting
<1>2. DependenciesEarlier /\ AsEarlyAsPossible
  BY DEF DependenciesEarlier, AsEarlyAsPossible
<1> QED
  BY <1>1, <1>2 DEF WInv

LEMMA BuildInDegreesWaves ==
  ASSUME WInv, BuildInDegrees
  PROVE  WInv'
<1>1. /\ Typed /\ waves = << >> /\ visited = 0 /\ UNCHANGED <<deps, visited, waves>>
      /\ pc' = "sort" /\ \A n \in Name : Uses(n, Name) = DOMAIN deps[n]
      /\ inDegree' = [n \in Name |-> InDegree(n)]
      /\ queue' = {n \in Name : InDegree(n) = 0}
  BY DEF WInv, NotSorting, Sorting, BuildInDegrees
<1>2. Placed = {} /\ Placed' = {}
  BY <1>1 DEF Placed
<1>3. ASSUME NEW n \in Name
      PROVE  /\ Left(n) = DOMAIN deps[n]
             /\ InDegree(n) = Cardinality(DOMAIN deps[n]) /\ InDegree(n) \in Nat
             /\ InDegree(n) = 0 <=> DOMAIN deps[n] = {}
  <2>1. Left(n) = DOMAIN deps[n]
    BY <1>2 DEF Left, Uses
  <2>2. \E T : deps[n] \in Seq(T)
    BY <1>1, ConfigsAssumption DEF Typed
  <2>3. DOMAIN deps[n] = 1 .. Len(deps[n]) /\ Len(deps[n]) \in Nat
    BY <2>2
  <2>4. Cardinality(1 .. Len(deps[n])) = Len(deps[n])
    BY <2>3, FS_Interval
  <2> QED
    BY <2>1, <2>3, <2>4 DEF InDegree
<1>4. \A n \in Name : Left(n)' = DOMAIN deps[n]
  BY <1>1, <1>2 DEF Left, Uses
<1>5. Typed'
  BY <1>1, <1>3 DEF Typed
<1>6. Counted'
  <2>1. \A n \in Name : inDegree'[n] = Cardinality(Left(n)')
    BY <1>1, <1>3, <1>4
  <2>2. visited' = Cardinality(Placed')
    BY <1>1, <1>2, FS_EmptySet
  <2> QED
    BY <1>1, <2>1, <2>2 DEF Counted, Uses
<1>7. Due'
  BY <1>1, <1>2, <1>3, <1>4 DEF Due
<1>8. CyclesAreStuck'
  BY <1>2 DEF CyclesAreStuck
<1>9. DependenciesEarlier' /\ AsEarlyAsPossible'
  BY <1>1 DEF DependenciesEarlier, AsEarlyAsPossible
<1> QED
  BY <1>1, <1>5, <1>6, <1>7, <1>8, <1>9 DEF WInv, NotSorting, Sorting, Verdict

LEMMA TakeWaveWaves ==
  ASSUME WInv, TakeWave
  PROVE  WInv'
<1>1. /\ Typed /\ Counted /\ Due /\ CyclesAreStuck /\ DependenciesEarlier /\ AsEarlyAsPossible
      /\ pc = "sort" /\ pc' = "sort" /\ UNCHANGED deps /\ queue # {}
      /\ visited' = visited + Cardinality(queue)
      /\ inDegree' = [n \in Name |-> inDegree[n] - Cardinality(Uses(n, queue))]
      /\ queue' = {n \in Name : Released(n)}
      /\ waves' = Append(waves, queue)
  BY DEF WInv, Sorting, TakeWave
<1>2. /\ Placed' = Placed \cup queue
      /\ Len(waves') = Len(waves) + 1
      /\ waves'[Len(waves) + 1] = queue
      /\ \A k \in DOMAIN waves : waves'[k] = waves[k]
      /\ DOMAIN waves = 1 .. Len(waves) /\ DOMAIN waves' = 1 .. Len(waves) + 1
      /\ Len(waves) \in Nat
  BY <1>1, PlacedGrows
<1>3. deps \in Configs /\ queue \subseteq Name /\ queue \cap Placed = {} /\ Placed \subseteq Name
  BY <1>1 DEF Typed, Due
<1>4. ASSUME NEW n \in Name
      PROVE  /\ Left(n)' = Left(n) \ Uses(n, queue)
             /\ Uses(n, queue) \subseteq Left(n)
             /\ Cardinality(Left(n)') = Cardinality(Left(n)) - Cardinality(Uses(n, queue))
             /\ inDegree[n] = Cardinality(Left(n))
             /\ Cardinality(Left(n)) \in Nat /\ Cardinality(Left(n)') \in Nat
             /\ Cardinality(Uses(n, queue)) \in Nat
             /\ Cardinality(Left(n)) = 0 <=> Left(n) = {}
             /\ Cardinality(Left(n)') = 0 <=> Left(n)' = {}
  <2>1. /\ Left(n)' = Left(n) \ Uses(n, queue)
        /\ Uses(n, queue) \subseteq Left(n)
        /\ Cardinality(Left(n)') = Cardinality(Left(n)) - Cardinality(Uses(n, queue))
    BY <1>1, <1>2, <1>3, CountDown
  <2>2. Left(n) \subseteq DOMAIN deps[n] /\ Uses(n, queue) \subseteq DOMAIN deps[n]
        /\ Left(n)' \subseteq DOMAIN deps[n]
    BY <2>1 DEF Left, Uses
  <2>3. /\ IsFiniteSet(Left(n)) /\ Cardinality(Left(n)) \in Nat
        /\ IsFiniteSet(Left(n)') /\ Cardinality(Left(n)') \in Nat
        /\ Cardinality(Uses(n, queue)) \in Nat
    BY <1>3, <2>2, EntriesFinite
  <2> QED
    BY <1>1, <2>1, <2>3, FS_EmptySet DEF Counted
<1>5. ASSUME NEW n \in Name
      PROVE  n \in queue' <=> Left(n) # {} /\ Left(n)' = {}
  BY <1>1, <1>4 DEF Released
<1>6. Typed'
  <2>1. waves' \in Seq(SUBSET Name)
    BY <1>1, <1>3, AppendProperties DEF Typed
  <2>2. inDegree' \in [Name -> Int]
    BY <1>1, <1>4 DEF Typed
  <2> QED
    BY <1>1, <1>3, <2>1, <2>2 DEF Typed
<1>7. Counted'
  <2>1. \A n \in Name : inDegree'[n] = Cardinality(Left(n)')
    BY <1>1, <1>4
  <2>2. IsFiniteSet(queue) /\ IsFiniteSet(Placed)
    BY <1>3, ConfigsAssumption, FS_Subset
  <2>3. Cardinality(Placed \cup queue) = Cardinality(Placed) + Cardinality(queue)
    <3>1. Placed \cap queue = {}
      BY <1>3
    <3>2. Cardinality(Placed) \in Nat /\ Cardinality(queue) \in Nat
      BY <2>2, FS_CardinalityType
    <3> QED
      BY <2>2, <3>1, <3>2, FS_Union, FS_EmptySet
  <2>4. visited' = Cardinality(Placed')
    BY <1>1, <1>2, <2>3 DEF Counted
  <2> QED
    BY <1>1, <2>1, <2>4 DEF Counted, Uses
<1>8. Due'
  <2>1. Placed' \subseteq Name /\ queue' \cap Placed' = {}
    BY <1>1, <1>2, <1>3, <1>5 DEF Due
  <2>2. \A n \in Name : n \in queue' \cup Placed' <=> Left(n)' = {}
    BY <1>1, <1>2, <1>4, <1>5 DEF Due
  <2>3. \A n \in queue' : \E i \in DOMAIN deps[n] : deps[n][i] \in queue
    <3> SUFFICES ASSUME NEW n \in queue' PROVE Uses(n, queue) # {}
      BY DEF Uses
    <3>1. n \in Name
      BY <1>1
    <3> QED
      BY <1>4, <1>5, <3>1
  <2> QED
    BY <1>1, <1>2, <2>1, <2>2, <2>3 DEF Due
<1>9. CyclesAreStuck'
  <2>1. ASSUME NEW S \in SUBSET Name, Stuck(S), NEW n \in S, n \in queue
        PROVE  FALSE
    <3>1. PICK i \in DOMAIN deps[n] : deps[n][i] \in S
      BY <2>1 DEF Stuck, Uses
    <3>2. Left(n) = {}
      BY <1>1, <1>3, <2>1 DEF Due
    <3>3. deps[n][i] \in Placed
      BY <3>1, <3>2 DEF Left, Uses
    <3> QED
      BY <1>1, <2>1, <3>1, <3>3 DEF CyclesAreStuck
  <2>2. \A S \in SUBSET Name : Stuck(S) => S \cap Placed' = {}
    BY <1>1, <1>2, <2>1 DEF CyclesAreStuck
  <2>3. \A S : Stuck(S)' <=> Stuck(S)
    BY <1>1 DEF Stuck, Uses
  <2> QED
    BY <2>2, <2>3 DEF CyclesAreStuck
<1>10. DependenciesEarlier'
  <2>1. ASSUME NEW n \in queue, NEW i \in DOMAIN deps[n]
        PROVE  \E j \in DOMAIN waves : deps[n][i] \in waves[j]
    <3>1. Left(n) = {}
      BY <1>1, <1>3 DEF Due
    <3> QED
      BY <3>1 DEF Left, Uses, Placed
  <2> QED
    BY <1>1, <1>2, <2>1 DEF DependenciesEarlier
<1>11. AsEarlyAsPossible'
  <2>1. \A n \in queue, j \in DOMAIN waves : n \notin waves[j]
    BY <1>3 DEF Placed
  <2>2. \A n \in queue : Len(waves) > 0 => \E i \in DOMAIN deps[n] : deps[n][i] \in waves[Len(waves)]
    BY <1>1, <1>2 DEF Due
  <2> SUFFICES ASSUME NEW k \in DOMAIN waves', NEW n \in waves'[k]
               PROVE  /\ \A j \in DOMAIN waves' : n \in waves'[j] => j = k
                      /\ k > 1 => \E i \in DOMAIN deps[n] : deps[n][i] \in waves'[k - 1]
    BY <1>1 DEF AsEarlyAsPossible
  <2>3. CASE k \in DOMAIN waves
    <3>1. n \in waves[k] /\ n \notin queue
      BY <1>2, <2>1, <2>3
    <3>2. \A j \in DOMAIN waves' : n \in waves'[j] => j \in DOMAIN waves
      BY <1>2, <3>1
    <3>3. \A j \in DOMAIN waves : n \in waves[j] => j = k
      BY <1>1, <2>3, <3>1 DEF AsEarlyAsPossible
    <3>4. k > 1 => k - 1 \in DOMAIN waves
      BY <1>2, <2>3
    <3>5. k > 1 => \E i \in DOMAIN deps[n] : deps[n][i] \in waves[k - 1]
      BY <1>1, <2>3, <3>1 DEF AsEarlyAsPossible
    <3> QED
      BY <1>2, <3>2, <3>3, <3>4, <3>5
  <2>4. CASE k = Len(waves) + 1
    <3>1. n \in queue
      BY <1>2, <2>4
    <3>2. \A j \in DOMAIN waves' : n \in waves'[j] => j = k
      BY <1>2, <2>1, <2>4, <3>1
    <3>3. k > 1 => k - 1 \in DOMAIN waves /\ k - 1 = Len(waves) /\ Len(waves) > 0
      BY <1>2, <2>4
    <3> QED
      BY <1>2, <2>2, <3>1, <3>2, <3>3
  <2> QED
    BY <1>2, <2>3, <2>4
<1> QED
  BY <1>1, <1>6, <1>7, <1>8, <1>9, <1>10, <1>11 DEF WInv, NotSorting, Sorting, Verdict

LEMMA StandingStill ==
  ASSUME Counted, Due, CyclesAreStuck, UNCHANGED <<deps, inDegree, queue, visited, waves>>
  PROVE  Counted' /\ Due' /\ CyclesAreStuck'
<1>1. Placed' = Placed /\ \A n, W : Uses(n, W)' = Uses(n, W)
  BY DEF Placed, Uses
<1>2. \A n : Left(n)' = Left(n)
  BY <1>1 DEF Left, Uses
<1>3. \A S : Stuck(S)' <=> Stuck(S)
  BY DEF Stuck, Uses
<1>4. Counted'
  BY <1>1, <1>2 DEF Counted, Uses
<1>5. Due'
  BY <1>1, <1>2 DEF Due
<1>6. CyclesAreStuck'
  BY <1>1, <1>3 DEF CyclesAreStuck
<1> QED
  BY <1>4, <1>5, <1>6

LEMMA FinishWaves ==
  ASSUME WInv, Finish
  PROVE  WInv'
<1>1. /\ Typed /\ Counted /\ Due /\ CyclesAreStuck /\ DependenciesEarlier /\ AsEarlyAsPossible
      /\ queue = {} /\ UNCHANGED <<deps, inDegree, queue, visited, waves>>
      /\ pc' = IF visited = Cardinality(Name) THEN "ok" ELSE "cycle"
  BY DEF WInv, Sorting, Finish
<1>2. Typed' /\ DependenciesEarlier' /\ AsEarlyAsPossible'
  BY <1>1 DEF Typed, DependenciesEarlier, AsEarlyAsPossible
<1>3. Counted' /\ Due' /\ CyclesAreStuck'
  BY <1>1, StandingStill
<1> QED
  BY <1>1, <1>2, <1>3 DEF WInv, NotSorting, Sorting, Verdict

LEMMA StepWaves == WInv /\ [Next]_vars => WInv'
<1> SUFFICES ASSUME WInv, [Next]_vars PROVE WInv'
  OBVIOUS
<1>1. CASE UnknownDependency
  <2>1. /\ Typed /\ waves = << >> /\ pc' = "unknown" /\ queue = {} /\ visited = 0
        /\ inDegree = [n \in Name |-> 0]
        /\ UNCHANGED <<deps, inDegree, queue, visited, waves>>
    BY <1>1 DEF WInv, NotSorting, Sorting, UnknownDependency
  <2> QED
    BY <2>1 DEF WInv, Typed, NotSorting, Sorting, DependenciesEarlier, AsEarlyAsPossible
<1>2. CASE BuildInDegrees
  BY <1>2, BuildInDegreesWaves
<1>3. CASE TakeWave
  BY <1>3, TakeWaveWaves
<1>4. CASE Finish
  BY <1>4, FinishWaves
<1>5. CASE Done \/ UNCHANGED vars
  <2>1. UNCHANGED vars
    BY <1>5 DEF Done
  <2>2. Typed' /\ NotSorting' /\ DependenciesEarlier' /\ AsEarlyAsPossible'
    BY <2>1 DEF vars, WInv, Typed, NotSorting, Sorting, DependenciesEarlier,
                AsEarlyAsPossible
  <2>3. Sorting => Counted' /\ Due' /\ CyclesAreStuck' /\ Verdict'
    BY <2>1, StandingStill DEF vars, WInv, Verdict
  <2> QED
    BY <2>1, <2>2, <2>3 DEF vars, WInv, Sorting
<1> QED
  BY <1>1, <1>2, <1>3, <1>4, <1>5 DEF Next

LEMMA WavesInvariant == Spec => []WInv
<1>1. Init => WInv
  BY InitWaves
<1>2. WInv /\ [Next]_vars => WInv'
  BY StepWaves
<1> QED
  BY <1>1, <1>2, PTL DEF Spec

----------------------------------------------------------------------------
(* What dag::toposort promises *)

\* No in-degree is taken below 0, which would panic in the code's usize.
THEOREM TypeCorrect == Spec => []TypeOK
<1>1. WInv => TypeOK
  <2> SUFFICES ASSUME WInv PROVE TypeOK
    OBVIOUS
  <2>1. Typed
    BY DEF WInv
  <2>2. CASE Sorting
    <3>1. Counted /\ Due
      BY <2>2 DEF WInv
    <3>2. \A n \in Name : Left(n) \subseteq DOMAIN deps[n]
      BY DEF Left
    <3>3. \A n \in Name : inDegree[n] \in Nat
      BY <2>1, <3>1, <3>2, EntriesFinite DEF Counted, Typed
    <3>4. visited \in Nat
      BY <3>1, PlacedFinite DEF Counted, Due
    <3> QED
      BY <2>1, <3>3, <3>4 DEF Typed, TypeOK
  <2>3. CASE ~Sorting
    BY <2>1, <2>3 DEF WInv, NotSorting, Typed, TypeOK
  <2> QED
    BY <2>2, <2>3
<1> QED
  BY <1>1, WavesInvariant, PTL

\* Whatever a service depends on is in an earlier wave than it, for every
\* config.
THEOREM DependenciesEarlierAlways == Spec => []DependenciesEarlier
<1>1. WInv => DependenciesEarlier
  BY DEF WInv
<1> QED
  BY <1>1, WavesInvariant, PTL

\* A service has one wave, and the earliest its dependencies allow.
THEOREM AsEarlyAsPossibleAlways == Spec => []AsEarlyAsPossible
<1>1. WInv => AsEarlyAsPossible
  BY DEF WInv
<1> QED
  BY <1>1, WavesInvariant, PTL

\* The verdict is right for every config: a stack that is brought up has no
\* cycle and leaves nobody out, one called circular has a cycle.
THEOREM VerdictIsRightAlways == Spec => []VerdictIsRight
<1>1. WInv => VerdictIsRight
  <2> SUFFICES ASSUME WInv PROVE VerdictIsRight
    OBVIOUS
  <2>1. CASE pc \in {"ok", "cycle"}
    <3>1. Typed /\ Counted /\ Due /\ CyclesAreStuck /\ Verdict /\ queue = {}
      BY <2>1 DEF WInv, Sorting, Verdict
    <3>2. Placed \in SUBSET Name /\ IsFiniteSet(Name)
      BY <3>1, ConfigsAssumption DEF Due
    <3>3. pc = "ok" => Placed = Name
      <4>1. pc = "ok" => Cardinality(Placed) = Cardinality(Name)
        BY <3>1 DEF Counted, Verdict
      <4> QED
        BY <3>2, <4>1, FS_Subset
    <3>4. pc = "ok" => ~\E S \in SUBSET Name : Stuck(S)
      BY <3>1, <3>3 DEF CyclesAreStuck, Stuck
    <3>5. pc = "cycle" => Stuck(Name \ Placed)
      <4>1. pc = "cycle" => Placed # Name
        BY <3>1 DEF Counted, Verdict
      <4>2. ASSUME NEW n \in Name \ Placed PROVE Uses(n, Name \ Placed) # {}
        <5>1. Left(n) # {}
          BY <3>1 DEF Due
        <5>2. PICK i \in DOMAIN deps[n] : deps[n][i] \notin Placed
          BY <5>1 DEF Left, Uses
        <5>3. deps[n][i] \in Name
          BY <3>1 DEF Counted, Uses
        <5> QED
          BY <5>2, <5>3 DEF Uses
      <4> QED
        BY <3>2, <4>1, <4>2 DEF Stuck
    <3> QED
      BY <3>1, <3>3, <3>4, <3>5 DEF VerdictIsRight, Counted
  <2>2. CASE pc \notin {"ok", "cycle"}
    BY <2>2 DEF VerdictIsRight
  <2> QED
    BY <2>1, <2>2
<1> QED
  BY <1>1, WavesInvariant, PTL
=============================================================================
