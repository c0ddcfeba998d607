-------------------------- MODULE WorldPlan_proofs --------------------------
(***************************************************************************)
(* The waves of WorldPlan, for every archive index and every world.  What  *)
(* is added to the properties to make them inductive: what a source still  *)
(* waits for is what it depends on less what has a wave, a source that is  *)
(* ready now was not one wave ago, and a set of sources without a forced   *)
(* one is entered at a source that depends on no other of the set.  That   *)
(* no wave is empty comes from a least element: something waits for the    *)
(* fewest others.                                                          *)
(***************************************************************************)
EXTENDS WorldPlan, TLAPS, FiniteSetTheorems, WellFoundedInduction

\* The sources are those with a wave and those without, and a source without
\* one waits for what it depends on and has none.
Progress ==
  /\ DOMAIN deps = DOMAIN waves \cup Left
  /\ DOMAIN waves \cap Left = {}
  /\ \A s \in Left : remaining[s] = deps[s] \ DOMAIN waves
  /\ \A s \in DOMAIN waves : waves[s] < wave
  /\ pc = "plan" => DOMAIN deps = {} /\ wave = 0
  /\ pc = "done" => Left = {}

\* Nothing that is ready could have been built a wave earlier.
JustReady ==
  wave > 0 => \A s \in Left :
    remaining[s] = {} => \E d \in deps[s] \cap DOMAIN waves : waves[d] = wave - 1

\* Without a forced source, the sources with a wave are entered in order.
Entered ==
  forced = {} =>
    \A S \in SUBSET DOMAIN deps :
      S \cap DOMAIN waves # {} => \E s \in S : deps[s] \cap S = {}

\* The inputs stay what they were.
IndexOK == index \in Indices /\ world \in Worlds

IInv ==
  /\ IndexOK /\ RebuiltFromItsSource
  /\ TypeOK /\ Progress /\ JustReady /\ Entered
  /\ DependenciesFirst /\ NoIdleWave
  /\ Acyclic => forced = {}

LEMMA InitIInv == Init => IInv
  BY DEF Init, IInv, TypeOK, Progress, JustReady, Entered, DependenciesFirst,
         NoIdleWave, Acyclic, Nothing, Left, IndexOK, RebuiltFromItsSource

\* What placing the sources of S in the current wave leaves of the invariant
\* whichever S is: S is what is ready, or all of S is forced.
LEMMA PlaceStep ==
  ASSUME IInv, NEW S \in SUBSET Left, Place(S), pc = "waves",
         \/ S = Ready /\ Ready # {} /\ forced' = forced
         \/ Ready = {} /\ forced' = forced \cup S
  PROVE  TypeOK' /\ Progress' /\ JustReady' /\ DependenciesFirst' /\ NoIdleWave'
  <1> USE DEF IInv, Place
  <1>1. /\ DOMAIN waves' = DOMAIN waves \cup S /\ Left' = Left \ S
        /\ wave' = wave + 1 /\ deps' = deps /\ pc' = pc
        /\ wave \in Nat /\ DOMAIN waves \cap S = {}
    BY DEF Left, TypeOK, Progress
  <1>2. \A s \in DOMAIN waves : waves'[s] = waves[s] /\ waves[s] < wave
    BY <1>1 DEF Progress
  <1>3. \A s \in S : waves'[s] = wave
    BY <1>1
  <1>4. \A s \in Left' : s \in Left /\ remaining'[s] = remaining[s] \ S
    BY <1>1 DEF Left
  <1>5. forced \subseteq forced' /\ forced' \subseteq forced \cup S
    BY DEF Ready
  <1>6. TypeOK'
    BY <1>1, <1>2, <1>3, <1>5 DEF TypeOK, Progress
  <1>7. Progress'
    <2>1. /\ DOMAIN deps' = DOMAIN waves' \cup Left'
          /\ DOMAIN waves' \cap Left' = {}
      BY <1>1 DEF Progress
    <2>2. \A s \in Left' : remaining'[s] = deps'[s] \ DOMAIN waves'
      BY <1>1, <1>4 DEF Progress
    <2>3. \A s \in DOMAIN waves' : waves'[s] < wave'
      BY <1>1, <1>2, <1>3, <1>6 DEF TypeOK
    <2> QED
      BY <2>1, <2>2, <2>3, <1>1 DEF Progress
  <1>8. JustReady'
    <2> SUFFICES ASSUME NEW s \in Left', remaining'[s] = {}
                 PROVE  \E d \in deps'[s] \cap DOMAIN waves' : waves'[d] = wave' - 1
      BY DEF JustReady
    <2>1. remaining[s] # {} /\ remaining[s] \subseteq S
      BY <1>1, <1>4 DEF Ready
    <2>2. PICK d \in remaining[s] : TRUE
      BY <2>1
    <2>3. d \in deps[s] /\ d \in S
      BY <2>1, <2>2, <1>4 DEF Progress
    <2>4. d \in deps'[s] \cap DOMAIN waves' /\ waves'[d] = wave' - 1
      BY <2>3, <1>1, <1>3
    <2> QED
      BY <2>4
  <1>9. DependenciesFirst'
    <2> SUFFICES ASSUME NEW s \in DOMAIN waves' \ forced', NEW d \in deps[s]
                 PROVE  d \in DOMAIN waves' /\ waves'[d] < waves'[s]
      BY <1>1 DEF DependenciesFirst
    <2>1. CASE s \in DOMAIN waves
      BY <2>1, <1>1, <1>2, <1>5 DEF DependenciesFirst
    <2>2. CASE s \in S
      <3>1. remaining[s] = {}
        BY <2>2 DEF Ready
      <3> QED
        BY <3>1, <2>2, <1>1, <1>2, <1>3 DEF Progress
    <2> QED
      BY <2>1, <2>2, <1>1
  <1>10. NoIdleWave'
    <2> SUFFICES ASSUME NEW s \in DOMAIN waves' \ forced', waves'[s] > 0
                 PROVE  \E d \in deps[s] \cap DOMAIN waves' : waves'[d] = waves'[s] - 1
      BY <1>1 DEF NoIdleWave
    <2>1. CASE s \in DOMAIN waves
      BY <2>1, <1>1, <1>2, <1>5 DEF NoIdleWave
    <2>2. CASE s \in S
      <3>1. remaining[s] = {}
        BY <2>2 DEF Ready
      <3> QED
        BY <3>1, <2>2, <1>1, <1>2, <1>3 DEF JustReady
    <2> QED
      BY <2>1, <2>2, <1>1
  <1> QED
    BY <1>6, <1>7, <1>8, <1>9, <1>10

LEMMA NextIInv == IInv /\ [Next]_vars => IInv'
  <1> SUFFICES ASSUME IInv, [Next]_vars PROVE IInv'
    OBVIOUS
  <1>1. CASE Group
    <2>1. /\ DOMAIN deps' = Closure /\ DOMAIN remaining' = Closure
          /\ remaining' = deps' /\ waves' = waves /\ wave' = wave
          /\ forced' = forced /\ pc' = "waves"
          /\ \A s \in Closure : deps'[s] = EdgesOf(s)
      BY <1>1 DEF Group
    <2>2. DOMAIN waves = {} /\ forced = {} /\ wave = 0
      BY <1>1 DEF Group, IInv, TypeOK, Progress
    <2>3. Closure \subseteq Sources /\ \A s \in Closure : EdgesOf(s) \subseteq Closure \ {s}
      BY <1>1, PlanAssumption DEF Group, IInv, IndexOK, Closure, Sourced, EdgesOf
    <2>4. TypeOK' /\ Progress'
      BY <2>1, <2>2, <2>3 DEF TypeOK, Progress, Left
    <2>5. JustReady' /\ Entered' /\ DependenciesFirst' /\ NoIdleWave' /\ (Acyclic => forced = {})'
      BY <2>1, <2>2 DEF JustReady, Entered, DependenciesFirst, NoIdleWave
    <2>6. IndexOK' /\ RebuiltFromItsSource'
      <3>1. units' = [s \in Closure |-> {b \in Sourced : SourceOf(b) = s}]
            /\ unsourced' = DOMAIN world \ Sourced /\ index' = index /\ world' = world
        BY <1>1 DEF Group
      <3>2. \A b \in DOMAIN world : InIndex(b) => b \in index[SourceOf(b)].binaries
        BY DEF InIndex, SourceOf, Bin2Src
      <3>3. \A b \in DOMAIN world : ~InIndex(b) => SourceOf(b) = world[b]
        BY DEF SourceOf
      <3>4. \A b \in DOMAIN world : (b \in Sourced) <=> (\E s \in Closure : b \in units'[s])
        BY <3>1 DEF Closure
      <3>5. \A b \in DOMAIN world : \A s \in Closure : b \in units'[s] => SourceOf(b) = s
        BY <3>1
      <3> QED
        BY <3>1, <3>2, <3>3, <3>4, <3>5 DEF RebuiltFromItsSource, IInv, IndexOK, InIndex
    <2> QED
      BY <2>4, <2>5, <2>6 DEF IInv
  <1>2. CASE PlaceReady
    <2>1. pc = "waves" /\ Ready # {} /\ Place(Ready) /\ forced' = forced
      BY <1>2 DEF PlaceReady
    <2>2. Ready \subseteq Left
      BY DEF Ready
    <2>3. TypeOK' /\ Progress' /\ JustReady' /\ DependenciesFirst' /\ NoIdleWave'
      BY <2>1, <2>2, PlaceStep
    <2>4. /\ deps' = deps /\ DOMAIN waves' = DOMAIN waves \cup Ready
          /\ index' = index /\ world' = world /\ units' = units /\ unsourced' = unsourced
          /\ pc' = pc
      BY <2>1 DEF Place
    <2>5. Entered'
      <3> SUFFICES ASSUME forced = {}, NEW S \in SUBSET DOMAIN deps,
                          S \cap (DOMAIN waves \cup Ready) # {}
                   PROVE  \E s \in S : deps[s] \cap S = {}
        BY <2>1, <2>4 DEF Entered
      <3>1. CASE S \cap DOMAIN waves # {}
        BY <3>1 DEF IInv, Entered
      <3>2. CASE S \cap DOMAIN waves = {}
        <4>1. PICK s \in S : s \in Ready
          BY <3>2
        <4>2. deps[s] \subseteq DOMAIN waves
          BY <4>1 DEF IInv, Progress, Ready
        <4> QED
          BY <4>1, <4>2, <3>2
      <3> QED
        BY <3>1, <3>2
    <2>6. IndexOK' /\ RebuiltFromItsSource' /\ (Acyclic => forced = {})'
      BY <2>1, <2>4 DEF IInv, IndexOK, RebuiltFromItsSource, Acyclic
    <2> QED
      BY <2>3, <2>5, <2>6 DEF IInv
  <1>3. CASE ForceFewest
    <2>1. pc = "waves" /\ Left # {} /\ Ready = {} /\ Place(Fewest) /\ forced' = forced \cup Fewest
      BY <1>3 DEF ForceFewest
    <2>2. Fewest \subseteq Left
      BY DEF Fewest
    <2>3. TypeOK' /\ Progress' /\ JustReady' /\ DependenciesFirst' /\ NoIdleWave'
      BY <2>1, <2>2, PlaceStep
    <2>4. /\ deps' = deps /\ index' = index /\ world' = world
          /\ units' = units /\ unsourced' = unsourced /\ pc' = pc
          /\ DOMAIN waves' = DOMAIN waves \cup Fewest
      BY <2>1 DEF Place
    \* What is left is a set in which each depends on another.
    <2>5. ~Acyclic
      <3>1. \A s \in Left : deps[s] \cap Left # {}
        BY <2>1 DEF IInv, TypeOK, Progress, Ready
      <3>2. Left \in SUBSET DOMAIN deps
        BY DEF IInv, TypeOK
      <3> QED
        BY <3>1, <3>2, <2>1 DEF Acyclic
    <2>6. (Acyclic => forced = {})'
      BY <2>4, <2>5 DEF Acyclic
    <2>7. Entered'
      <3>1. CASE forced' = {}
        <4>1. DOMAIN waves' = DOMAIN waves /\ forced = {}
          BY <3>1, <2>1, <2>4
        <4> QED
          BY <4>1, <2>4 DEF IInv, Entered
      <3>2. CASE forced' # {}
        BY <3>2 DEF Entered
      <3> QED
        BY <3>1, <3>2
    <2>8. IndexOK' /\ RebuiltFromItsSource'
      BY <2>4 DEF IInv, IndexOK, RebuiltFromItsSource
    <2> QED
      BY <2>3, <2>6, <2>7, <2>8 DEF IInv
  <1>4. CASE Finish
    <2>1. /\ deps' = deps /\ index' = index /\ world' = world
          /\ units' = units /\ unsourced' = unsourced /\ remaining' = remaining
          /\ waves' = waves /\ wave' = wave /\ forced' = forced
          /\ pc = "waves" /\ pc' = "done" /\ Left = {}
      BY <1>4 DEF Finish
    <2>2. Left' = Left
      BY <2>1 DEF Left
    <2>3. TypeOK' /\ Progress' /\ JustReady'
      BY <2>1, <2>2 DEF IInv, TypeOK, Progress, JustReady
    <2>4. Entered' /\ DependenciesFirst' /\ NoIdleWave' /\ (Acyclic => forced = {})'
      BY <2>1 DEF IInv, Entered, DependenciesFirst, NoIdleWave, Acyclic
    <2>5. IndexOK' /\ RebuiltFromItsSource'
      BY <2>1 DEF IInv, IndexOK, RebuiltFromItsSource
    <2> QED
      BY <2>3, <2>4, <2>5 DEF IInv
  <1>5. CASE UNCHANGED vars
    BY <1>5 DEF vars, IInv, IndexOK, TypeOK, Progress, Left, JustReady, Entered,
                DependenciesFirst, NoIdleWave, Acyclic, RebuiltFromItsSource
  <1> QED
    BY <1>1, <1>2, <1>3, <1>4, <1>5 DEF Next

\* The invariant holds throughout a plan.
THEOREM PlanInv == Spec => []IInv
  <1> QED
    BY InitIInv, NextIInv, PTL DEF Spec

\* The types of the state of plan_world and _assign_waves.
THEOREM TypeCorrect == Spec => []TypeOK
  <1>1. IInv => TypeOK
    BY DEF IInv
  <1> QED
    BY <1>1, PlanInv, PTL

\* A source whose wave was not forced comes after everything it depends on.
THEOREM AfterDependencies == Spec => []DependenciesFirst
  <1>1. IInv => DependenciesFirst
    BY DEF IInv
  <1> QED
    BY <1>1, PlanInv, PTL

\* And in the first wave that does.
THEOREM AsSoonAsPossible == Spec => []NoIdleWave
  <1>1. IInv => NoIdleWave
    BY DEF IInv
  <1> QED
    BY <1>1, PlanInv, PTL

\* Sources are forced if and only if the dependencies have a cycle.
THEOREM OnlyCyclesForce == Spec => []ForcedByCycles
  <1>1. IInv => ForcedByCycles
    <2> SUFFICES ASSUME IInv, pc = "done", forced = {} PROVE Acyclic
      BY DEF IInv, ForcedByCycles
    <2>1. DOMAIN waves = DOMAIN deps
      BY DEF IInv, Progress
    <2> QED
      BY <2>1 DEF IInv, Entered, Acyclic
  <1> QED
    BY <1>1, PlanInv, PTL

\* No binary is lost or built from a source the archive does not build it from.
THEOREM GroupedBySource == Spec => []RebuiltFromItsSource
  <1>1. IInv => RebuiltFromItsSource
    BY DEF IInv
  <1> QED
    BY <1>1, PlanInv, PTL

-----------------------------------------------------------------------------
\* Something waits for the fewest others.
LEMMA FewestIsSome ==
  ASSUME IInv, Left # {}
  PROVE  Fewest # {}
  <1> DEFINE R == OpToRel(<, Nat)
             size(s) == Cardinality(remaining[s])
             T == {size(s) : s \in Left}
  <1>1. \A s \in Left : size(s) \in Nat
    <2> SUFFICES ASSUME NEW s \in Left PROVE size(s) \in Nat
      OBVIOUS
    <2>1. remaining[s] \in SUBSET Sources
      BY DEF IInv, TypeOK, Progress
    <2>2. IsFiniteSet(remaining[s])
      BY <2>1, PlanAssumption, FS_Subset
    <2> QED
      BY <2>2, FS_CardinalityType
  <1> HIDE DEF size
  <1>2. T \in SUBSET Nat /\ T # {}
    BY <1>1
  <1>3. IsWellFoundedOn(R, Nat)
    BY NatLessThanWellFounded
  <1>4. PICK x \in T : \A y \in T : ~(<<y, x>> \in R)
    <2> HIDE DEF R, T
    <2> QED
      BY <1>2, <1>3, WFMin
  <1>5. \A y \in T : ~(y < x)
    BY <1>2, <1>4 DEF OpToRel
  <1>6. PICK s \in Left : x = size(s)
    OBVIOUS
  <1>7. \A t \in Left : size(s) <= size(t)
    BY <1>1, <1>5, <1>6
  <1> QED
    BY <1>7 DEF Fewest, size

\* No wave is without a source, and none of the closure without a wave: each
\* step of _assign_waves places something, ready or forced.
Full == WavesAreFull /\ DOMAIN units = DOMAIN deps

LEMMA PlaceFills ==
  ASSUME IInv, Full, NEW S \in SUBSET Left, S # {}, Place(S), pc = "waves"
  PROVE  Full'
  <1>1. /\ DOMAIN waves' = DOMAIN waves \cup S /\ wave' = wave + 1 /\ pc' = pc
        /\ deps' = deps /\ units' = units /\ wave \in Nat
        /\ DOMAIN waves \cap S = {}
        /\ \A s \in DOMAIN waves : waves'[s] = waves[s]
        /\ \A s \in S : waves'[s] = wave
    BY DEF Place, IInv, TypeOK, Progress
  <1>2. ASSUME NEW w \in 0 .. wave PROVE \E s \in DOMAIN waves' : waves'[s] = w
    <2>1. CASE w = wave
      BY <1>1, <2>1
    <2>2. CASE w \in 0 .. wave - 1
      BY <1>1, <2>2 DEF Full, WavesAreFull
    <2> QED
      BY <1>1, <2>1, <2>2
  <1>3. wave' - 1 = wave
    BY <1>1
  <1> QED
    BY <1>1, <1>2, <1>3 DEF Full, WavesAreFull

LEMMA NextFull == IInv /\ Full /\ [Next]_vars => Full'
  <1> SUFFICES ASSUME IInv, Full, [Next]_vars PROVE Full'
    OBVIOUS
  <1>1. CASE Group
    <2>1. DOMAIN units' = DOMAIN deps' /\ wave' = wave /\ waves' = waves /\ pc' = "waves"
      BY <1>1 DEF Group
    <2> QED
      BY <2>1 DEF Full, WavesAreFull
  <1>2. CASE PlaceReady
    <2>1. Ready \in SUBSET Left
      BY DEF Ready
    <2> QED
      BY <1>2, <2>1, PlaceFills DEF PlaceReady
  <1>3. CASE ForceFewest
    <2>1. Fewest \in SUBSET Left /\ Left # {} /\ Place(Fewest) /\ pc = "waves"
      BY <1>3 DEF Fewest, ForceFewest
    <2> QED
      BY <2>1, PlaceFills, FewestIsSome
  <1>4. CASE Finish
    <2>1. /\ Left = {} /\ UNCHANGED <<units, deps, waves, wave>>
      BY <1>4 DEF Finish
    <2>2. DOMAIN waves = DOMAIN deps
      BY <2>1 DEF IInv, Progress
    <2> QED
      BY <2>1, <2>2 DEF Full, WavesAreFull
  <1>5. CASE UNCHANGED vars
    BY <1>5 DEF vars, Full, WavesAreFull
  <1> QED
    BY <1>1, <1>2, <1>3, <1>4, <1>5 DEF Next

\* There is a source in every wave, and every source in one.
THEOREM EveryWaveIsFull == Spec => []WavesAreFull
  <1>1. Init => Full
    BY DEF Init, Nothing, Full, WavesAreFull
  <1>2. Full => WavesAreFull
    BY DEF Full
  <1> QED
    BY <1>1, <1>2, PlanInv, NextFull, PTL DEF Spec
-----------------------------------------------------------------------------
(***************************************************************************)
(* Why planning ends (PlanEnds): every wave takes a source, cycles or not. *)
(***************************************************************************)
StagesAhead == CASE pc = "plan" -> 2 [] pc = "waves" -> 1 [] OTHER -> 0

Less(p, q) == p[1] < q[1] \/ (p[1] = q[1] /\ p[2] < q[2])

Ahead == <<StagesAhead, Cardinality(Left)>>

LEMMA LeftIsFinite == TypeOK => IsFiniteSet(Left) /\ Cardinality(Left) \in Nat
BY PlanAssumption, FS_Subset, FS_CardinalityType DEF TypeOK

LEMMA AheadType == TypeOK => Ahead \in Nat \X Nat
BY LeftIsFinite DEF Ahead, StagesAhead

LEMMA AheadStep == IInv /\ [Next]_vars => [Less(Ahead', Ahead)]_vars
  <1> SUFFICES ASSUME IInv, Next PROVE Less(Ahead', Ahead)
    OBVIOUS
  <1>1. ASSUME NEW S \in SUBSET Left, S # {}, Place(S) PROVE Less(Ahead', Ahead)
    <2>1. Left' = Left \ S
      BY <1>1 DEF Place, Left
    <2>2. IsFiniteSet(Left) /\ Left' \subseteq Left /\ Left' # Left
      BY <1>1, <2>1, LeftIsFinite DEF IInv
    <2>3. Cardinality(Left') < Cardinality(Left)
      BY <2>2, FS_Subset, FS_CardinalityType
    <2>4. StagesAhead' = StagesAhead
      BY <1>1 DEF Place, StagesAhead
    <2> QED
      BY <2>3, <2>4 DEF Ahead, Less
  <1>2. CASE PlaceReady
    BY <1>1, <1>2 DEF PlaceReady, Ready
  <1>3. CASE ForceFewest
    BY <1>1, <1>3, FewestIsSome DEF ForceFewest, Fewest
  <1>4. CASE Group \/ Finish
    <2>1. StagesAhead' < StagesAhead
      BY <1>4 DEF Group, Finish, StagesAhead
    <2> QED
      BY <2>1 DEF Ahead, Less
  <1> QED
    BY <1>2, <1>3, <1>4 DEF Next

\* No plan takes for ever to make: whatever depends on what, no step leaves
\* as much to do as it found.
THEOREM PlanningIsBounded ==
  Spec => [](Ahead \in Nat \X Nat) /\ [][Less(Ahead', Ahead)]_vars
  <1>1. IInv => Ahead \in Nat \X Nat
    BY AheadType DEF IInv
  <1>2. IInv /\ [Next]_vars => [Less(Ahead', Ahead)]_vars
    BY AheadStep
  <1> QED
    BY <1>1, <1>2, PlanInv, PTL DEF Spec
=============================================================================
