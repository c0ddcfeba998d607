------------------------ MODULE ConfigPipeline_proofs ------------------------
(***************************************************************************)
(* For all symbols, modules, hosts, advice and command lines: what apply   *)
(* writes is what the review accepted and keeps a driver for all evidence, *)
(* and a tree that is prepared is as it was asked for.                     *)
(***************************************************************************)
EXTENDS ConfigPipeline, TLAPS, WellFoundedInduction

(***************************************************************************)
(* The inductive invariant.  ReviewInv ties the fragment to what the last  *)
(* review accepted; TreeInv follows .config through the steps of a build,  *)
(* each of which may fail and leave it.                                    *)
(***************************************************************************)
ReviewInv == kfrag # NoFile => kfrag \in Fragments(approved)

BuiltIn == \A s \in Symbols \ MayGo : final[s] = "y" => tree[s] = "y"

Drivers ==
  \A m \in InUse(snap) : \A s \in BuiltBy[m] \ MayGo : s \in On(final) => s \in On(tree)

Werror ==
  (asked.lto # "none" /\ ObjtoolWerror \notin DOMAIN asked.overrides) => tree[ObjtoolWerror] = "n"

\* At most one option of the LTO choice is on.
OneOption(cfg) ==
  /\ ~(cfg[LtoThin] = "y" /\ cfg[LtoFull] = "y")
  /\ (cfg[LtoThin] = "y" \/ cfg[LtoFull] = "y") => cfg[LtoNone] # "y"

\* Kconfig has settled the tree at least once.
Canonicalized == pc \in {"localmodconfig", "olddefconfig2", "checks", "prepared"} /\ ~failed

TreeInv ==
  pc # "idle" =>
    /\ asked \in Commands /\ final \in Configs /\ tree \in Configs
    /\ report.build < MaxBuilds
    /\ BuiltIn /\ Drivers /\ Werror
    /\ Canonicalized => OneOption(tree)
    /\ pc = "prepared" => AsAsked /\ ~failed

IInv == TypeOK /\ ReviewInv /\ TreeInv

USE DEF files, Settlements

-----------------------------------------------------------------------------
\* A set of naturals that is not empty has a first one.
LEMMA HasFirst ==
  ASSUME NEW S \in SUBSET Nat, S # {}
  PROVE  \E i \in S : \A j \in S : i <= j
<1> DEFINE R == OpToRel(<, Nat)
<1>1. IsWellFoundedOn(R, Nat)
  BY NatLessThanWellFounded
<1>2. PICK x \in S : \A y \in S : ~(<<y, x>> \in R)
  <2> HIDE DEF R
  <2> QED
    BY <1>1, WFMin
<1>3. \A y \in S : ~(y < x)
  BY <1>2 DEF OpToRel
<1> QED
  BY <1>3

\* The candidate that stands for a module is on in the running kernel.
LEMMA ConfigOfModule ==
  ASSUME NEW h \in Hosts, NEW m \in Modules, Hits(h, m) # {}
  PROVE  \E i \in Hits(h, m) : Candidates[m][i] \in ModuleConfig(h, m)
<1>1. Candidates[m] \in Seq(Symbols)
  BY PipelineAssumption
<1>2. Hits(h, m) \in SUBSET Nat
  BY <1>1 DEF Hits
<1>3. PICK i \in Hits(h, m) : \A k \in Hits(h, m) : i <= k
  BY <1>2, HasFirst
<1> QED
  BY <1>3 DEF ModuleConfig

LEMMA ModuleConfigIsOn ==
  ASSUME NEW h \in Hosts, NEW m \in Modules
  PROVE  ModuleConfig(h, m) \subseteq On(h.running)
BY DEF ModuleConfig, Hits

\* The validation of apply lets through what keeps the evidence's drivers.
LEMMA ValidatedKeepsEvidence ==
  ASSUME NEW h \in Hosts, NEW cfg \in Configs, Downgraded(h, cfg) = {}
  PROVE  EvidenceKept(h, cfg)
<1> SUFFICES ASSUME NEW m \in h.loaded \cup h.bound \cup h.pci \cup h.alias \cup h.audio
                              \cup {Canonical[i] : i \in h.initramfs},
                    \A b \in h.blacklisted : Canonical[b] # m, Hits(h, m) # {}
             PROVE  \E i \in Hits(h, m) : Candidates[m][i] \in On(cfg)
  BY DEF EvidenceKept
<1>1. m \in Modules /\ m \in RequiredModules(h)
  BY PipelineAssumption DEF Evidence, RequiredModules, Canonicals
<1>2. PICK i \in Hits(h, m) : Candidates[m][i] \in ModuleConfig(h, m)
  BY <1>1, ConfigOfModule
<1>3. Candidates[m][i] \in LoadBearing(h)
  BY <1>1, <1>2 DEF LoadBearing, RequiredConfigs
<1>4. Candidates[m][i] \in On(h.running)
  BY DEF Hits
<1>5. Candidates[m][i] \in On(cfg)
  BY <1>3, <1>4 DEF Downgraded
<1> QED
  BY <1>5

-----------------------------------------------------------------------------
\* Fragments: who put a line there, and which line wins.
LEMMA LinesOf ==
  ASSUME NEW ps \in SUBSET Advice
  PROVE  /\ \A l \in Lines(ps) : l.sym \in Symbols
         /\ \A p \in ps : [sym |-> p.sym, value |-> Emitted(p), rank |-> Rank(p)] \in Lines(ps)
         /\ \A l \in Lines(ps) :
              \/ \E p \in ps : p.sym = l.sym /\ l.value = Emitted(p)
              \/ l.rank = 1 /\ l.value = "n" /\ \E p \in ps : p.prev = l.sym
<1>1. \A p \in ps : p.sym \in Symbols
  BY PipelineAssumption
<1>2. \A l \in Lines(ps) :
        \/ \E p \in ps : l = [sym |-> p.sym, value |-> Emitted(p), rank |-> Rank(p)]
        \/ \E p \in ps : p.prev \in Symbols /\ l = [sym |-> p.prev, value |-> "n", rank |-> 1]
  BY DEF Lines
<1>3. \A p \in ps : [sym |-> p.sym, value |-> Emitted(p), rank |-> Rank(p)] \in Lines(ps)
  BY DEF Lines
<1>4. \A l \in Lines(ps) : l.sym \in Symbols
  BY <1>1, <1>2
<1> QED
  BY <1>2, <1>3, <1>4

\* A proposal's line is in the first group exactly if it switches off.
LEMMA FirstRank ==
  ASSUME NEW p \in Advice
  PROVE  /\ Rank(p) \in Nat
         /\ Rank(p) <= 1 <=> Emitted(p) = "n"
         /\ Emitted(p) \in Values
<1>1. p.value \in Values /\ {"y", "m", "n"} \cap Texts = {}
  BY PipelineAssumption
<1>2. CASE p.source = "choice"
  BY <1>2 DEF Rank, Emitted, Values
<1>3. CASE p.source # "choice" /\ p.value \in Texts
  BY <1>1, <1>3 DEF Rank, Emitted
<1>4. CASE p.source # "choice" /\ p.value \notin Texts
  BY <1>1, <1>4 DEF Rank, Emitted, Values
<1> QED
  BY <1>2, <1>3, <1>4

LEMMA FragmentType ==
  ASSUME NEW ps \in SUBSET Advice, NEW f \in Fragments(ps)
  PROVE  DOMAIN f \subseteq Symbols /\ \A s \in DOMAIN f : f[s] \in Values
<1>1. DOMAIN f = {l.sym : l \in Lines(ps)}
  BY DEF Fragments
<1>2. \A l \in Lines(ps) : l.value \in Values
  BY LinesOf, FirstRank DEF Values
<1>3. \A s \in DOMAIN f : \E l \in Lines(ps) : l.value = f[s]
  BY DEF Fragments
<1> QED
  BY <1>1, <1>2, <1>3, LinesOf

\* The line that wins for a symbol: a proposal's own, or a previous option that
\* no proposal keeps on.
LEMMA FragmentLines ==
  ASSUME NEW ps \in SUBSET Advice, NEW f \in Fragments(ps)
  PROVE  /\ \A p \in ps : p.sym \in DOMAIN f
         /\ \A s \in DOMAIN f :
              /\ \/ \E p \in ps : p.sym = s /\ f[s] = Emitted(p)
                 \/ f[s] = "n" /\ \E p \in ps : p.prev = s
              /\ f[s] = "n" => \A p \in ps : p.sym = s => Emitted(p) = "n"
<1>1. DOMAIN f = {l.sym : l \in Lines(ps)}
  BY DEF Fragments
<1>2. \A p \in ps : p.sym \in DOMAIN f
  BY <1>1, LinesOf
<1>3. ASSUME NEW s \in DOMAIN f
      PROVE  /\ \/ \E p \in ps : p.sym = s /\ f[s] = Emitted(p)
                \/ f[s] = "n" /\ \E p \in ps : p.prev = s
             /\ f[s] = "n" => \A p \in ps : p.sym = s => Emitted(p) = "n"
  <2>1. PICK l \in Lines(ps) : /\ l.sym = s /\ l.value = f[s]
                               /\ \A k \in Lines(ps) : k.sym = s => k.rank <= l.rank
    BY <1>3 DEF Fragments
  <2>2. \/ \E p \in ps : l = [sym |-> p.sym, value |-> Emitted(p), rank |-> Rank(p)]
        \/ \E p \in ps : l = [sym |-> p.prev, value |-> "n", rank |-> 1]
    BY <2>1 DEF Lines
  <2>3. \A p \in ps : p.sym = s => Rank(p) <= l.rank
    BY <2>1, LinesOf
  <2>4. f[s] = "n" => l.rank <= 1
    BY <2>1, <2>2, FirstRank
  <2>5. l.rank \in Nat
    BY <2>2, FirstRank
  <2>6. f[s] = "n" => \A p \in ps : p.sym = s => Rank(p) <= 1
    BY <2>3, <2>4, <2>5, FirstRank
  <2> QED
    BY <2>1, <2>2, <2>6, FirstRank
<1> QED
  BY <1>2, <1>3

LEMMA MergedType ==
  ASSUME NEW base \in Configs, NEW frag, DOMAIN frag \subseteq Symbols,
         \A s \in DOMAIN frag : frag[s] \in Values
  PROVE  Merged(base, frag) \in Configs
BY DEF Merged, Configs

LEMMA InitInv == Init => IInv
<1> SUFFICES ASSUME Init PROVE IInv
  OBVIOUS
<1>1. report.build \in 0 .. MaxBuilds
  BY PipelineAssumption DEF Init
<1>2. TypeOK
  BY <1>1 DEF Init, TypeOK
<1>3. ReviewInv /\ TreeInv
  BY DEF Init, ReviewInv, TreeInv
<1> QED
  BY <1>2, <1>3 DEF IInv

-----------------------------------------------------------------------------
(* Types                                                                   *)

LEMMA StepTypes ==
  ASSUME NEW cfg \in Configs
  PROVE  /\ \A c \in Settlements(cfg) : c \in Configs
         /\ \A h \in Hosts, needed \in SUBSET Symbols : Trimmed(cfg, h, needed) \in Configs
         /\ \A c \in Commands :
              /\ SetLto(cfg, c.lto) \in Configs
              /\ Merged(SetLto(cfg, c.lto), c.overrides) \in Configs
<1>1. \A off \in SUBSET Fragile : Settled(cfg, off) \in Configs
  BY DEF Settled, Configs, Values
<1>2. \A h \in Hosts, needed \in SUBSET Symbols : Trimmed(cfg, h, needed) \in Configs
  BY DEF Trimmed, Configs, Values
<1>3. \A c \in Commands : SetLto(cfg, c.lto) \in Configs
  BY DEF SetLto, Configs, Values
<1>4. \A c \in Commands : Merged(SetLto(cfg, c.lto), c.overrides) \in Configs
  BY <1>3, PipelineAssumption, MergedType
<1> QED
  BY <1>1, <1>2, <1>3, <1>4

LEMMA ApplyType ==
  ASSUME TypeOK, Apply
  PROVE  final' \in Configs
<1>1. snap.running \in Configs
  BY PipelineAssumption DEF TypeOK
<1>2. DOMAIN kfrag \subseteq Symbols /\ \A s \in DOMAIN kfrag : kfrag[s] \in Values
  BY DEF TypeOK, Apply
<1>3. Merged(snap.running, kfrag) \in Configs
  BY <1>1, <1>2, MergedType
<1> QED
  BY <1>3 DEF Apply

\* What either kind of review takes from proposal.json is advice.
LEMMA ReviewAccepts ==
  ASSUME TypeOK, NEW accepted, WriteReview(accepted), proposal # NoFile,
         accepted \subseteq proposal.auto \cup proposal.review
  PROVE  /\ approved' \subseteq Advice
         /\ kfrag' \in Fragments(approved')
         /\ DOMAIN kfrag' \subseteq Symbols /\ \A s \in DOMAIN kfrag' : kfrag'[s] \in Values
<1>1. proposal \in [auto : SUBSET Advice, review : SUBSET Advice]
  BY DEF TypeOK
<1>2. accepted \in SUBSET Advice
  BY <1>1
<1>3. approved' = accepted /\ kfrag' \in Fragments(accepted)
  BY DEF WriteReview
<1> QED
  BY <1>2, <1>3, FragmentType

LEMMA ReviewSteps ==
  ASSUME TypeOK,
         \/ \E rules \in SUBSET {"reject", "deterministic", "low", "recommended"} : Review(rules)
         \/ \E chosen \in SUBSET Advice : ReviewInteractive(chosen)
  PROVE  /\ approved' \subseteq Advice
         /\ kfrag' \in Fragments(approved')
         /\ DOMAIN kfrag' \subseteq Symbols /\ \A s \in DOMAIN kfrag' : kfrag'[s] \in Values
         /\ pc = "idle"
         /\ UNCHANGED <<snap, proposal, final, pc, asked, failed, tree, packages, report>>
<1>1. PICK accepted : /\ WriteReview(accepted) /\ proposal # NoFile /\ pc = "idle"
                      /\ accepted \subseteq proposal.auto \cup proposal.review
  BY DEF Review, ReviewInteractive
<1> QED
  BY <1>1, ReviewAccepts DEF WriteReview

LEMMA NextType == IInv /\ [Next]_vars => TypeOK'
<1> SUFFICES ASSUME IInv, [Next]_vars PROVE TypeOK'
  OBVIOUS
<1>0. TypeOK /\ TreeInv
  BY DEF IInv
<1>1. ASSUME NEW h \in Hosts, Scan(h) PROVE TypeOK'
  BY <1>0, <1>1 DEF Scan, TypeOK
<1>2. ASSUME NEW level \in Levels, NEW ps \in SUBSET Advice, Propose(level, ps) PROVE TypeOK'
  <2>1. proposal' \in [auto : SUBSET Advice, review : SUBSET Advice]
    BY <1>2 DEF Propose
  <2> QED
    BY <1>0, <1>2, <2>1 DEF Propose, TypeOK
<1>3. CASE \/ \E rules \in SUBSET {"reject", "deterministic", "low", "recommended"} : Review(rules)
           \/ \E chosen \in SUBSET Advice : ReviewInteractive(chosen)
  BY <1>0, <1>3, ReviewSteps DEF TypeOK
<1>4. CASE Apply
  BY <1>0, <1>4, ApplyType DEF Apply, TypeOK
<1>5. ASSUME NEW c \in Commands, StartBuild(c) PROVE TypeOK'
  <2>1. final \in Configs
    BY <1>0, <1>5 DEF StartBuild, TypeOK
  <2>2. tree' \in Configs
    BY <1>5, <2>1, StepTypes DEF StartBuild
  <2> QED
    BY <1>0, <1>5, <2>2 DEF StartBuild, TypeOK
<1>6. CASE Olddefconfig
  <2>1. tree \in Configs
    BY <1>0, <1>6 DEF Olddefconfig, ConfigStep, TreeInv
  <2>2. tree' \in Configs
    BY <1>6, <2>1, StepTypes DEF Olddefconfig, ConfigStep
  <2> QED
    BY <1>0, <1>6, <2>2 DEF Olddefconfig, ConfigStep, TypeOK
<1>7. CASE Localmodconfig
  <2>1. tree \in Configs /\ snap \in Hosts
    BY <1>0, <1>7 DEF Localmodconfig, ConfigStep, TreeInv, TypeOK
  <2>2. tree' \in Configs
    BY <1>7, <2>1, StepTypes DEF Localmodconfig, ConfigStep
  <2> QED
    BY <1>0, <1>7, <2>2 DEF Localmodconfig, ConfigStep, TypeOK
<1>8. CASE Olddefconfig2
  <2>1. tree \in Configs
    BY <1>0, <1>8 DEF Olddefconfig2, ConfigStep, TreeInv
  <2>2. tree' \in Configs
    BY <1>8, <2>1, StepTypes DEF Olddefconfig2, ConfigStep
  <2> QED
    BY <1>0, <1>8, <2>2 DEF Olddefconfig2, ConfigStep, TypeOK
<1>9. CASE Checks \/ PrepareOnly
  BY <1>0, <1>9 DEF Checks, PrepareOnly, Return, TypeOK
<1>10. ASSUME NEW ok \in BOOLEAN, Make(ok) PROVE TypeOK'
  <2>1. report.build \in 0 .. MaxBuilds /\ report.build < MaxBuilds /\ MaxBuilds \in Nat
    BY <1>0, <1>10, PipelineAssumption DEF Make, TreeInv, TypeOK
  <2>2. report.build + 1 \in 1 .. MaxBuilds
    BY <2>1
  <2>3. tree[LocalVersion] \in Values
    BY <1>0, <1>10, PipelineAssumption DEF Make, TreeInv, Configs
  <2>4. CASE ok
    <3>1. \A p \in packages' : p \in packages \/ p = [release |-> tree[LocalVersion], build |-> report.build + 1]
      BY <1>10, <2>4 DEF Make
    <3>2. report'.build = report.build + 1
      BY <1>10, <2>4 DEF Make
    <3>3. \A p \in packages' : p.build \in 1 .. MaxBuilds /\ p.release \in Values
      BY <1>0, <2>2, <2>3, <3>1 DEF TypeOK
    <3>4. report'.build \in 0 .. MaxBuilds
      BY <2>1, <3>2
    <3> QED
      BY <1>0, <1>10, <3>3, <3>4 DEF Make, Return, TypeOK
  <2>5. CASE ~ok
    BY <1>0, <1>10, <2>5 DEF Make, Return, TypeOK
  <2> QED
    BY <2>4, <2>5
<1>11. CASE UNCHANGED vars
  BY <1>0, <1>11 DEF vars, TypeOK
<1> QED
  BY <1>1, <1>2, <1>3, <1>4, <1>5, <1>6, <1>7, <1>8, <1>9, <1>10, <1>11 DEF Next

\* A fragment is only ever written together with what was accepted.
LEMMA NextReview == IInv /\ [Next]_vars => ReviewInv'
<1> SUFFICES ASSUME IInv, [Next]_vars PROVE ReviewInv'
  OBVIOUS
<1>0. TypeOK /\ ReviewInv
  BY DEF IInv
<1>1. CASE \/ \E rules \in SUBSET {"reject", "deterministic", "low", "recommended"} : Review(rules)
           \/ \E chosen \in SUBSET Advice : ReviewInteractive(chosen)
  BY <1>0, <1>1, ReviewSteps DEF ReviewInv
<1>2. CASE UNCHANGED <<kfrag, approved>>
  BY <1>0, <1>2 DEF ReviewInv
<1> QED
  BY <1>1, <1>2 DEF Next, vars, Scan, Propose, Apply, StartBuild, Olddefconfig, Localmodconfig,
                    Olddefconfig2, ConfigStep, Checks, PrepareOnly, Make

-----------------------------------------------------------------------------
(* .config through a build                                                 *)

Parts == BuiltIn /\ Drivers /\ Werror

LEMMA StartParts ==
  ASSUME TypeOK, NEW c \in Commands, StartBuild(c)
  PROVE  Parts'
<1>1. final \in Configs /\ final' = final /\ snap' = snap /\ asked' = c
  BY DEF StartBuild, TypeOK
<1>2. \A s \in Symbols : tree'[s] = IF s \in DOMAIN c.overrides THEN c.overrides[s]
                                     ELSE SetLto(final, c.lto)[s]
  BY DEF StartBuild, Merged
<1>3. c.lto \in {"none", "thin", "full"}
  BY PipelineAssumption
<1>4. \A s \in Symbols \ MayGo' : s \notin DOMAIN c.overrides /\ SetLto(final, c.lto)[s] = final[s]
  BY <1>1, <1>3, PipelineAssumption DEF MayGo, LtoSymbols, SetLto, LtoOption
<1>5. BuiltIn'
  BY <1>1, <1>2, <1>4 DEF BuiltIn
<1>6. Drivers'
  BY <1>1, <1>2, <1>4 DEF Drivers, On, InUse
<1>7. Werror'
  BY <1>1, <1>2, <1>3, PipelineAssumption DEF Werror, SetLto, LtoOption
<1> QED
  BY <1>5, <1>6, <1>7 DEF Parts

\* Kconfig only switches off what is fragile, or turns LTO off.
LEMMA SettledKeeps ==
  ASSUME Parts, asked \in Commands, tree \in Configs, tree' \in Settlements(tree),
         UNCHANGED <<files, asked>>
  PROVE  Parts' /\ OneOption(tree')
<1>1. PICK off \in SUBSET Fragile : /\ tree' = Settled(tree, off)
                                    /\ LtoOn(tree, off) # {LtoThin, LtoFull}
  OBVIOUS
<1>2. \A s \in Symbols :
        tree'[s] = IF s \in off THEN "n"
                   ELSE IF s = LtoNone THEN IF LtoOn(tree, off) = {} THEN "y" ELSE "n"
                   ELSE IF s \in LtoDerived THEN IF LtoOn(tree, off) = {} THEN "n" ELSE "y"
                   ELSE tree[s]
  BY <1>1 DEF Settled
<1>3. LtoNone \in MayGo /\ LtoDerived \subseteq MayGo /\ Fragile \subseteq MayGo /\ MayGo' = MayGo
  BY DEF MayGo, LtoSymbols
<1>4. \A s \in Symbols \ MayGo : tree'[s] = tree[s]
  BY <1>2, <1>3
<1>5. BuiltIn'
  BY <1>3, <1>4 DEF Parts, BuiltIn
<1>6. Drivers'
  BY <1>3, <1>4 DEF Parts, Drivers, On, InUse
<1>7. Werror'
  BY <1>2, PipelineAssumption DEF Parts, Werror
<1>8. OneOption(tree')
  <2>1. LtoOn(tree, off) = {s \in {LtoThin, LtoFull} : s \notin off /\ tree[s] = "y"}
    BY DEF LtoOn
  <2>2. \A s \in {LtoThin, LtoFull} : tree'[s] = "y" => s \in LtoOn(tree, off)
    BY <1>2, <2>1, PipelineAssumption
  <2>3. LtoOn(tree, off) # {} => tree'[LtoNone] # "y"
    BY <1>2, PipelineAssumption
  <2>4. LtoThin \in LtoOn(tree, off) /\ LtoFull \in LtoOn(tree, off) => LtoOn(tree, off) = {LtoThin, LtoFull}
    BY <2>1
  <2> QED
    BY <1>1, <2>2, <2>3, <2>4 DEF OneOption
<1> QED
  BY <1>5, <1>6, <1>7, <1>8 DEF Parts

\* The trim spares what is built in, and modules in use are on its list.
LEMMA TrimmedKeeps ==
  ASSUME Parts, tree \in Configs, NEW needed, tree' = Trimmed(tree, snap, needed),
         UNCHANGED <<files, asked>>
  PROVE  Parts' /\ (OneOption(tree) => OneOption(tree'))
<1>1. \A s \in Symbols :
        tree'[s] = IF tree[s] = "m" /\ s \notin needed \cup UNION {BuiltBy[m] : m \in Kept(snap)}
                   THEN "n" ELSE tree[s]
  BY DEF Trimmed
<1>2. MayGo' = MayGo
  BY DEF MayGo, LtoSymbols
<1>3. BuiltIn'
  BY <1>1, <1>2 DEF Parts, BuiltIn
<1>4. \A m \in InUse(snap) : \A s \in BuiltBy[m] \cap Symbols : tree'[s] = tree[s]
  BY <1>1 DEF InUse, Kept
<1>5. Drivers'
  BY <1>2, <1>4 DEF Parts, Drivers, On, InUse
<1>6. Werror'
  BY <1>1, PipelineAssumption DEF Parts, Werror
<1>7. OneOption(tree) => OneOption(tree')
  BY <1>1, PipelineAssumption DEF OneOption
<1> QED
  BY <1>3, <1>5, <1>6, <1>7 DEF Parts

LEMMA FailedStepKeeps ==
  ASSUME Parts, UNCHANGED <<files, asked, tree>>
  PROVE  Parts'
BY DEF Parts, BuiltIn, Drivers, Werror, MayGo, LtoSymbols, On, InUse

LEMMA NextTree == IInv /\ [Next]_vars => TreeInv'
<1> SUFFICES ASSUME IInv, [Next]_vars PROVE TreeInv'
  OBVIOUS
<1>0. TypeOK /\ TreeInv /\ TypeOK'
  BY NextType DEF IInv
<1> DEFINE Building == /\ asked \in Commands /\ final \in Configs /\ tree \in Configs
                       /\ report.build < MaxBuilds /\ Parts
<1>a. pc # "idle" => Building
  BY <1>0 DEF TreeInv, Parts
<1>b. ASSUME Building', pc' # "prepared", Canonicalized' => OneOption(tree') PROVE TreeInv'
  BY <1>b DEF TreeInv, Parts
<1>1. ASSUME NEW c \in Commands, StartBuild(c) PROVE TreeInv'
  <2>1. Parts'
    BY <1>0, <1>1, StartParts
  <2>2. final \in Configs /\ tree' \in Configs
    BY <1>0, <1>1, StepTypes DEF StartBuild, TypeOK
  <2> QED
    BY <1>1, <1>b, <2>1, <2>2 DEF StartBuild, Canonicalized
<1>2. CASE Olddefconfig \/ Olddefconfig2
  <2>1. Building
    BY <1>2, <1>a DEF Olddefconfig, Olddefconfig2, ConfigStep
  <2>2. \/ tree' \in Settlements(tree)
        \/ UNCHANGED tree /\ failed'
    BY <1>2 DEF Olddefconfig, Olddefconfig2, ConfigStep
  <2>3. UNCHANGED <<files, asked, report>> /\ pc' # "prepared"
    BY <1>2 DEF Olddefconfig, Olddefconfig2, ConfigStep
  <2>4. tree' \in Configs
    BY <2>1, <2>2, StepTypes
  <2>5. CASE tree' \in Settlements(tree)
    <3>1. Parts' /\ OneOption(tree')
      BY <2>1, <2>3, <2>5, SettledKeeps
    <3> QED
      BY <1>b, <2>1, <2>3, <2>4, <3>1
  <2>6. CASE UNCHANGED tree /\ failed'
    <3>1. Parts'
      BY <2>1, <2>3, <2>6, FailedStepKeeps
    <3> QED
      BY <1>b, <2>1, <2>3, <2>4, <2>6, <3>1 DEF Canonicalized
  <2> QED
    BY <2>2, <2>5, <2>6
<1>3. CASE Localmodconfig
  <2>1. Building /\ (Canonicalized => OneOption(tree))
    BY <1>0, <1>3, <1>a DEF Localmodconfig, ConfigStep, TreeInv
  <2>2. \/ \E needed \in SUBSET Symbols : tree' = Trimmed(tree, snap, needed) /\ UNCHANGED failed
        \/ UNCHANGED tree /\ failed'
    BY <1>3 DEF Localmodconfig, ConfigStep
  <2>3. UNCHANGED <<files, asked, report>> /\ pc = "localmodconfig" /\ pc' # "prepared"
    BY <1>3 DEF Localmodconfig, ConfigStep
  <2>4. ASSUME NEW needed \in SUBSET Symbols, tree' = Trimmed(tree, snap, needed), UNCHANGED failed
        PROVE  TreeInv'
    <3>1. Parts' /\ (OneOption(tree) => OneOption(tree'))
      BY <2>1, <2>3, <2>4, TrimmedKeeps
    <3>2. tree' \in Configs
      BY <1>0, <2>1, <2>4, StepTypes DEF TypeOK
    <3> QED
      BY <1>b, <2>1, <2>3, <2>4, <3>1, <3>2 DEF Canonicalized
  <2>5. CASE UNCHANGED tree /\ failed'
    <3>1. Parts'
      BY <2>1, <2>3, <2>5, FailedStepKeeps
    <3> QED
      BY <1>b, <2>1, <2>3, <2>5, <3>1 DEF Canonicalized
  <2> QED
    BY <2>2, <2>4, <2>5
<1>4. CASE Checks
  <2>1. CASE pc' = "prepared"
    <3>1. Building /\ AsAsked /\ ~failed /\ UNCHANGED <<files, asked, failed, tree, report>>
      BY <1>4, <1>a, <2>1 DEF Checks, Return
    <3>2. AsAsked'
      BY <3>1 DEF AsAsked
    <3>3. Parts'
      BY <3>1, FailedStepKeeps
    <3>4. OneOption(tree')
      BY <1>0, <1>4, <3>1 DEF Checks, TreeInv, Canonicalized
    <3> QED
      BY <3>1, <3>2, <3>3, <3>4 DEF TreeInv, Parts
  <2>2. CASE pc' # "prepared"
    <3>1. pc' = "idle"
      BY <1>4, <2>2 DEF Checks, Return
    <3> QED
      BY <3>1 DEF TreeInv
  <2> QED
    BY <2>1, <2>2
<1>5. CASE PrepareOnly \/ \E ok \in BOOLEAN : Make(ok)
  BY <1>5 DEF PrepareOnly, Make, Return, TreeInv
<1>6. CASE \/ \E h \in Hosts : Scan(h)
           \/ \E level \in Levels, ps \in SUBSET Advice : Propose(level, ps)
           \/ Apply
  BY <1>6 DEF Scan, Propose, Apply, TreeInv
<1>7. CASE \/ \E rules \in SUBSET {"reject", "deterministic", "low", "recommended"} : Review(rules)
           \/ \E chosen \in SUBSET Advice : ReviewInteractive(chosen)
  BY <1>0, <1>7, ReviewSteps DEF TreeInv
<1>8. CASE UNCHANGED vars
  <2>1. CASE pc = "idle"
    BY <1>8, <2>1 DEF vars, TreeInv
  <2>2. CASE pc # "idle"
    <3>1. Parts'
      BY <1>8, <1>a, <2>2, FailedStepKeeps DEF vars
    <3> QED
      BY <1>0, <1>8, <2>2, <3>1 DEF vars, TreeInv, Parts, Canonicalized, OneOption, AsAsked
  <2> QED
    BY <2>1, <2>2
<1> QED
  BY <1>1, <1>2, <1>3, <1>4, <1>5, <1>6, <1>7, <1>8 DEF Next

-----------------------------------------------------------------------------
\* The files of the verbs belong together as IInv says.
THEOREM PipelineInv == Spec => []IInv
<1>1. Init => IInv
  BY InitInv
<1>2. IInv /\ [Next]_vars => IInv'
  BY NextType, NextReview, NextTree DEF IInv
<1> QED
  BY <1>1, <1>2, PTL DEF Spec

\* Every file and option is of the kind its readers expect.
THEOREM TypeCorrect == Spec => []TypeOK
<1>1. IInv => TypeOK
  BY DEF IInv
<1> QED
  BY <1>1, PipelineInv, PTL

\* Whatever apply writes keeps a driver for the evidence of the host.
THEOREM KeepsEvidence == Spec => LoadBearingWritten
<1>1. IInv /\ [Next]_vars => [final' # final => EvidenceKept(snap, final')]_vars
  <2> SUFFICES ASSUME IInv, Next, final' # final PROVE EvidenceKept(snap, final')
    BY DEF vars
  <2>0. TypeOK
    BY DEF IInv
  <2>1. Apply
    BY ReviewSteps, <2>0
       DEF Next, Scan, Propose, StartBuild, Olddefconfig, Localmodconfig, Olddefconfig2, ConfigStep,
           Checks, PrepareOnly, Make
  <2>2. final' \in Configs /\ snap \in Hosts
    BY <2>0, <2>1, ApplyType DEF TypeOK
  <2>3. Downgraded(snap, final') = {}
    BY <2>1 DEF Apply
  <2> QED
    BY <2>2, <2>3, ValidatedKeepsEvidence
<1> QED
  BY <1>1, PipelineInv, PTL DEF Spec, LoadBearingWritten

\* What apply writes is what the last review accepted.
THEOREM WritesTheReview == Spec => FragmentIsTheReview
<1>1. IInv /\ [Next]_vars => [final' # final => AsReviewed]_vars
  <2> SUFFICES ASSUME IInv, Next, final' # final PROVE AsReviewed
    BY DEF vars
  <2>0. TypeOK /\ ReviewInv
    BY DEF IInv
  <2>1. Apply
    BY ReviewSteps, <2>0
       DEF Next, Scan, Propose, StartBuild, Olddefconfig, Localmodconfig, Olddefconfig2, ConfigStep,
           Checks, PrepareOnly, Make
  <2>2. kfrag \in Fragments(approved) /\ approved \in SUBSET Advice
    BY <2>0, <2>1 DEF Apply, ReviewInv, TypeOK
  <2>3. \A s \in Symbols : final'[s] = IF s \in DOMAIN kfrag THEN kfrag[s] ELSE snap.running[s]
    BY <2>1 DEF Apply, Merged
  <2>4. \A p \in approved : p.sym \in Symbols /\ p.sym \in DOMAIN kfrag
    BY <2>2, FragmentLines, PipelineAssumption
  <2>5. ASSUME NEW s \in Symbols, final'[s] # snap.running[s]
        PROVE  \E p \in approved : \/ p.sym = s /\ final'[s] = Emitted(p)
                                   \/ p.prev = s /\ final'[s] = "n"
    <3>1. s \in DOMAIN kfrag /\ final'[s] = kfrag[s]
      BY <2>3, <2>5
    <3> QED
      BY <2>2, <3>1, FragmentLines
  <2>6. ASSUME NEW p \in approved
        PROVE  /\ \E q \in approved : q.sym = p.sym /\ final'[p.sym] = Emitted(q)
               /\ Emitted(p) # "n" => final'[p.sym] # "n"
    <3>1. final'[p.sym] = kfrag[p.sym] /\ p.sym \in DOMAIN kfrag
      BY <2>3, <2>4
    <3>2. kfrag[p.sym] = "n" => Emitted(p) = "n"
      BY <2>2, <3>1, FragmentLines
    <3> QED
      BY <2>2, <3>1, <3>2, FragmentLines
  <2> QED
    BY <2>5, <2>6 DEF AsReviewed
<1> QED
  BY <1>1, PipelineInv, PTL DEF Spec, FragmentIsTheReview

\* A prepared tree is as it was asked for.
THEOREM PreparesAsAsked == Spec => []PreparedAsAsked
<1>1. IInv => PreparedAsAsked
  <2> SUFFICES ASSUME IInv, pc = "prepared"
               PROVE  /\ asked.lto # "none" =>
                           /\ \A s \in {LtoNone, LtoThin, LtoFull} :
                                tree[s] = "y" <=> s = LtoOption(asked.lto)
                           /\ ObjtoolWerror \notin DOMAIN asked.overrides => tree[ObjtoolWerror] = "n"
                      /\ \A s \in DOMAIN asked.overrides : tree[s] = asked.overrides[s]
                      /\ \A s \in Symbols \ MayGo : final[s] = "y" => tree[s] = "y"
    BY DEF PreparedAsAsked
  <2>1. asked \in Commands /\ OneOption(tree) /\ AsAsked /\ BuiltIn /\ Werror
    BY DEF IInv, TreeInv, Canonicalized
  <2>2. LtoOption(asked.lto) \in {LtoThin, LtoFull} /\ LtoNone \notin {LtoThin, LtoFull}
    BY PipelineAssumption DEF LtoOption
  <2>3. asked.lto # "none" => \A s \in {LtoNone, LtoThin, LtoFull} : tree[s] = "y" <=> s = LtoOption(asked.lto)
    BY <2>1, <2>2 DEF AsAsked, OneOption
  <2> QED
    BY <2>1, <2>3 DEF AsAsked, BuiltIn, Werror
<1> QED
  BY <1>1, PipelineInv, PTL

\* The trim spares the drivers of what is in use.
THEOREM SparesWhatIsUsed == Spec => []ModulesInUseSurvive
<1>1. IInv => ModulesInUseSurvive
  BY DEF IInv, TreeInv, Drivers, ModulesInUseSurvive
<1> QED
  BY <1>1, PipelineInv, PTL
=============================================================================
