----------------------------- MODULE WorldPlan -----------------------------
(***************************************************************************)
(* `autokernel world plan` (world/closure.py, plan_world): from the        *)
(* installed binaries and the archive's Sources index to the sources to    *)
(* rebuild, the build-dependencies among them, and the wave each of them   *)
(* is built in.  WorldBuild takes the waves as its constant.               *)
(*                                                                         *)
(* The loop of _assign_waves is one step per wave.  An index is what       *)
(* parse_sources leaves of the archive: for each source the binaries it    *)
(* builds and those it build-depends on.                                   *)
(***************************************************************************)
EXTENDS Naturals, FiniteSets

CONSTANTS
  Sources, Binaries,
  Indices,     \* what Sources may say: sets of [binaries, depends] by source
  Worlds       \* the installed binaries, each with the source dpkg records

ASSUME PlanAssumption ==
  /\ IsFiniteSet(Sources)
  /\ \A x \in Indices :
       /\ DOMAIN x \subseteq Sources
       /\ \A s \in DOMAIN x : x[s].binaries \subseteq Binaries /\ x[s].depends \subseteq Binaries
  /\ \A w \in Worlds : DOMAIN w \subseteq Binaries

VARIABLES
  index, world,   \* the inputs
  units,          \* the sources of the closure, with the binaries of each
  unsourced,      \* the binaries whose source the index does not have
  deps,           \* the edges of the closure
  remaining,      \* the edges not yet resolved, of the sources without a wave
  waves, wave,    \* the waves assigned, and the one being assigned
  forced,         \* cycle_members
  pc

vars == <<index, world, units, unsourced, deps, remaining, waves, wave, forced, pc>>

Nothing == [s \in {} |-> {}]

Init ==
  /\ index \in Indices /\ world \in Worlds
  /\ units = Nothing /\ unsourced = {} /\ deps = Nothing
  /\ remaining = Nothing /\ waves = Nothing /\ wave = 0 /\ forced = {}
  /\ pc = "plan"

-----------------------------------------------------------------------------
(* Grouping: the index knows a binary's source better than dpkg does.      *)

InIndex(b) == \E s \in DOMAIN index : b \in index[s].binaries

\* A binary that moved may be in two sources (an older one of the base release,
\* a newer one of its updates).  The last of them wins, here: either.
Bin2Src(b) == CHOOSE s \in DOMAIN index : b \in index[s].binaries

\* bug: dpkg's record is looked up first.
SourceByDpkg(b) ==
  IF world[b] \in DOMAIN index \/ ~InIndex(b) THEN world[b] ELSE Bin2Src(b)

SourceOf(b) == IF InIndex(b) THEN Bin2Src(b) ELSE world[b]

Sourced == {b \in DOMAIN world : SourceOf(b) \in DOMAIN index}

Closure == {SourceOf(b) : b \in Sourced}

\* bug: the edges to sources outside the closure are kept.
EdgesAnywhere(s) == {Bin2Src(b) : b \in {x \in index[s].depends : InIndex(x)}} \ {s}

EdgesOf(s) ==
  ({Bin2Src(b) : b \in {x \in index[s].depends : InIndex(x)}} \cap Closure) \ {s}

Group ==
  /\ pc = "plan"
  /\ units' = [s \in Closure |-> {b \in Sourced : SourceOf(b) = s}]
  /\ unsourced' = DOMAIN world \ Sourced
  /\ deps' = [s \in Closure |-> EdgesOf(s)]
  /\ remaining' = deps'
  /\ pc' = "waves"
  /\ UNCHANGED <<index, world, waves, wave, forced>>

-----------------------------------------------------------------------------
(* _assign_waves *)

Left == DOMAIN remaining

\* bug: the sources that wait for one other are as good as ready.
ReadyButOne == {s \in Left : Cardinality(remaining[s]) <= 1}

\* bug: a wave takes one source only.
ReadyFirst ==
  LET all == {s \in Left : remaining[s] = {}}
  IN  IF all = {} THEN {} ELSE {CHOOSE s \in all : TRUE}

Ready == {s \in Left : remaining[s] = {}}

Fewest ==
  {s \in Left : \A t \in Left : Cardinality(remaining[s]) <= Cardinality(remaining[t])}

\* bug: a placed source is not taken from what the others wait for.
PlaceOnly(S) ==
  /\ waves' = [s \in DOMAIN waves \cup S |-> IF s \in S THEN wave ELSE waves[s]]
  /\ remaining' = [s \in Left \ S |-> remaining[s]]
  /\ wave' = wave + 1
  /\ UNCHANGED <<index, world, units, unsourced, deps, pc>>

\* The sources of S are built in the current wave.
Place(S) ==
  /\ waves' = [s \in DOMAIN waves \cup S |-> IF s \in S THEN wave ELSE waves[s]]
  /\ remaining' = [s \in Left \ S |-> remaining[s] \ S]
  /\ wave' = wave + 1
  /\ UNCHANGED <<index, world, units, unsourced, deps, pc>>

PlaceReady ==
  /\ pc = "waves" /\ Ready # {}
  /\ Place(Ready)
  /\ UNCHANGED forced

\* bug: a cycle is passed by, in the hope of the next wave (bounded here).
ForceNone ==
  /\ pc = "waves" /\ Left # {} /\ Ready = {} /\ wave < Cardinality(Sources)
  /\ Place({})
  /\ UNCHANGED forced

\* bug: a tie of the fewest is not broken.
ForceUnlessTied ==
  /\ pc = "waves" /\ Left # {} /\ Ready = {} /\ Cardinality(Fewest) = 1
  /\ Place(Fewest)
  /\ forced' = forced \cup Fewest

ForceFewest ==
  /\ pc = "waves" /\ Left # {} /\ Ready = {}
  /\ Place(Fewest)
  /\ forced' = forced \cup Fewest

Finish ==
  /\ pc = "waves" /\ Left = {}
  /\ pc' = "done"
  /\ UNCHANGED <<index, world, units, unsourced, deps, remaining, waves, wave, forced>>

Next == Group \/ PlaceReady \/ ForceFewest \/ Finish

Spec == Init /\ [][Next]_vars /\ WF_vars(Next)

-----------------------------------------------------------------------------

TypeOK ==
  /\ pc \in {"plan", "waves", "done"}
  /\ wave \in Nat
  /\ DOMAIN deps \subseteq Sources
  /\ \A s \in DOMAIN deps : deps[s] \subseteq DOMAIN deps \ {s}
  /\ Left \subseteq DOMAIN deps
  /\ DOMAIN waves \subseteq DOMAIN deps
  /\ \A s \in DOMAIN waves : waves[s] \in Nat
  /\ forced \subseteq DOMAIN waves

\* A binary is rebuilt with the source that builds it in this archive, or
\* reported as unsourced: exactly one of the two.
RebuiltFromItsSource ==
  pc # "plan" =>
    \A b \in DOMAIN world :
      /\ (b \in unsourced) # (\E s \in DOMAIN units : b \in units[s])
      /\ \A s \in DOMAIN units :
           b \in units[s] =>
             \/ b \in index[s].binaries
             \/ s = world[b] /\ \A t \in DOMAIN index : b \notin index[t].binaries

\* A source that was not forced into its wave comes after all of the sources
\* it build-depends on.
DependenciesFirst ==
  \A s \in DOMAIN waves \ forced :
    \A d \in deps[s] : d \in DOMAIN waves /\ waves[d] < waves[s]

\* And it comes no later than that: something it depends on is in the wave
\* just before, so the waves are as wide as the dependencies allow.
NoIdleWave ==
  \A s \in DOMAIN waves \ forced :
    waves[s] > 0 => \E d \in deps[s] \cap DOMAIN waves : waves[d] = waves[s] - 1

\* There is a source in every wave, and every source in one.
WavesAreFull ==
  /\ \A w \in 0 .. wave - 1 : \E s \in DOMAIN waves : waves[s] = w
  /\ pc = "done" => DOMAIN waves = DOMAIN units

\* In every set of sources there is one that depends on no other of them.
Acyclic ==
  \A S \in SUBSET DOMAIN deps : S # {} => \E s \in S : deps[s] \cap S = {}

\* Sources are forced into waves if and only if the dependencies have a cycle.
ForcedByCycles ==
  /\ Acyclic => forced = {}
  /\ pc = "done" /\ forced = {} => Acyclic

\* The plan is finished, cycles or not.
PlanEnds == <>(pc = "done")
=============================================================================
