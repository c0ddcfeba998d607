--------------------------- MODULE ConfigPipeline ---------------------------
(***************************************************************************)
(* From the evidence of a snapshot to a kernel tree that is ready to build *)
(* and to its packages: resolve, policy, review, kfrag, merge, validation, *)
(* prepare (olddefconfig, localmodconfig) and make.  Each verb of the      *)
(* command line works on the files the earlier ones left in the snapshot   *)
(* directory and in the source tree, in whatever order the user runs them; *)
(* one verb runs at a time.  What rules and models advise, and what        *)
(* Kconfig makes of a configuration, is arbitrary within what the code     *)
(* accepts of it.                                                          *)
(***************************************************************************)
EXTENDS Naturals, Sequences

CONSTANTS
  Symbols,       \* Kconfig symbols
  Texts,         \* values other than y, m and n (numbers, strings)
  Modules,       \* names of kernel modules a snapshot can give evidence of
  Canonical,     \* [Modules -> Modules]: the name with '_' for '-', as the kernel lists it
  Candidates,    \* [Modules -> Seq(Symbols)]: candidate_configs, best guess first
  BuiltBy,       \* [Modules -> SUBSET Symbols]: what the kernel's Makefiles build a module for
  Blocklist,     \* core and architecture symbols, protected on every host
  Hosts,         \* what a scan may find
  Advice,        \* what deterministic rules and agents may propose
  Vetoed,        \* symbols that --reject-subsystem and --reject-pattern name
  Fragile,       \* symbols whose dependencies Kconfig may find unmet
  LtoNone, LtoThin, LtoFull,  \* the options of the LTO choice
  LtoDerived,    \* what Kconfig derives from it: LTO, LTO_CLANG
  ObjtoolWerror, \* off under LTO
  Commands,      \* command lines of build; overrides is what [config] of its patch sets pins
  LocalVersion,  \* the symbol that tells one kernel release from another
  NoFile,        \* a file that is not there
  MaxBuilds      \* bound: successful makes

Values == {"y", "m", "n"} \cup Texts
Configs == [Symbols -> Values]

\* The fields of an element of Hosts that give evidence of modules.
Evidence == {"loaded", "initramfs", "bound", "pci", "alias", "audio",
             "firmware", "late", "blacklisted"}

ASSUME PipelineAssumption ==
  /\ {"y", "m", "n"} \cap Texts = {}
  /\ Candidates \in [Modules -> Seq(Symbols)]
  /\ Canonical \in [Modules -> Modules]
  /\ BuiltBy \in [Modules -> SUBSET Symbols]
  /\ \A h \in Hosts : /\ h.running \in Configs
                      /\ h.inUse \subseteq Symbols
                      /\ h.protected \subseteq Symbols
                      /\ \A e \in Evidence : h[e] \subseteq Modules
                      /\ h.dkms \in BOOLEAN
  /\ \A p \in Advice : /\ p.sym \in Symbols
                       /\ p.value \in Values
                       /\ p.prev \in Symbols \cup {NoFile}
  /\ NoFile \notin Symbols
  /\ \A c \in Commands :
       /\ c.lto \in {"none", "thin", "full"}  \* needs --compiler=llvm: lto stands for both
       /\ DOMAIN c.overrides \subseteq Symbols
       /\ \A s \in DOMAIN c.overrides : c.overrides[s] \in Values
       /\ {c.localmodconfig, c.execute} \subseteq BOOLEAN
       /\ c.target \in {"bindeb-pkg", "kernel-only"}
  /\ Fragile \subseteq Symbols /\ Vetoed \subseteq Symbols
  /\ {LtoNone, LtoThin, LtoFull, ObjtoolWerror, LocalVersion} \subseteq Symbols
  /\ LtoThin # LtoFull /\ LtoNone \notin {LtoThin, LtoFull}
  /\ LtoDerived \subseteq Symbols \ {LtoNone, LtoThin, LtoFull, ObjtoolWerror}
  /\ ObjtoolWerror \notin {LtoNone, LtoThin, LtoFull}
  /\ {LtoThin, LtoFull} \subseteq Fragile /\ LtoNone \notin Fragile
  /\ MaxBuilds \in Nat

VARIABLES
  snap,      \* the snapshot directory's evidence and running_config
  proposal,  \* proposal.json: what policy applied by itself and what it left to review
  kfrag,     \* auto.kfrag: a value for each symbol it names
  approved,  \* history: the proposals the review that wrote auto.kfrag accepted
  final,     \* final.config
  pc,        \* where the running build command is
  asked,     \* its options
  failed,    \* whether one of its steps has failed
  tree,      \* <source>/.config
  packages,  \* packages in the output directory: [release, build]
  report     \* the last successful build: its number and the artifacts it names

vars == <<snap, proposal, kfrag, approved, final, pc, asked, failed, tree, packages, report>>
files == <<snap, proposal, kfrag, approved, final>>

-----------------------------------------------------------------------------
(* resolve and the load-bearing set                                        *)

On(cfg) == {s \in Symbols : cfg[s] \in {"y", "m"}}

\* The names of the initramfs are file names, with '-' or '_'; so are the
\* blacklisted ones.
Canonicals(names) == {Canonical[m] : m \in names}

RequiredModules(h) ==
  (h.loaded \cup Canonicals(h.initramfs) \cup h.bound \cup h.pci \cup h.alias \cup h.audio)
    \ Canonicals(h.blacklisted)

\* The positions of m's candidates that are on in the running kernel.
Hits(h, m) == {i \in DOMAIN Candidates[m] : Candidates[m][i] \in On(h.running)}

\* The configs resolve_module_to_config finds for m: the first hit, or none.
ModuleConfig(h, m) ==
  {Candidates[m][i] : i \in {j \in Hits(h, m) : \A k \in Hits(h, m) : j <= k}}

RequiredConfigs(h) == h.inUse \cup UNION {ModuleConfig(h, m) : m \in RequiredModules(h)}

CandidateTrims(h) == On(h.running) \ RequiredConfigs(h)

\* A module without a config protects all its candidates.
LoadBearing(h) ==
  Blocklist \cup h.protected \cup RequiredConfigs(h)
    \cup UNION {{Candidates[m][i] : i \in DOMAIN Candidates[m]} :
                  m \in {n \in RequiredModules(h) : Hits(h, n) = {}}}

-----------------------------------------------------------------------------
(* scan, propose, review                                                   *)

Init ==
  /\ snap \in Hosts
  /\ proposal = NoFile /\ kfrag = NoFile /\ approved = {} /\ final = NoFile
  /\ pc = "idle" /\ asked = NoFile /\ failed = FALSE
  /\ tree = NoFile /\ packages = {} /\ report = [build |-> 0, artifacts |-> {}]

\* A later scan into the same directory: it replaces the evidence and leaves
\* what the other verbs wrote.
Scan(h) ==
  /\ pc = "idle"
  /\ snap' = h
  /\ UNCHANGED <<proposal, kfrag, approved, final, pc, asked, failed, tree, packages, report>>

AutoApplied(level, p) ==
  CASE level = "explain"   -> FALSE
    [] level = "advise"    -> p.source \in {"deterministic", "microarch"} /\ p.sure = "certain"
    [] level = "auto_safe" -> p.risk = "low" /\ p.sure \in {"certain", "likely"}
    [] level = "auto_bold" -> p.risk # "high"

\* ps: the answers of the rules and the agents.  Module trims are only taken
\* for symbols that were offered; load-bearing symbols are blocked.
Propose(level, ps) ==
  /\ pc = "idle"
  /\ snap.dkms => level \notin {"auto_safe", "auto_bold"}
  /\ \A p \in ps : p.source \in {"deterministic", "llm"} => p.sym \in CandidateTrims(snap)
  /\ LET free == {p \in ps : p.sym \notin LoadBearing(snap)}
         auto == {p \in free : AutoApplied(level, p)}
     IN proposal' = [auto   |-> auto,
                     review |-> IF level = "explain" THEN {} ELSE free \ auto]
  /\ UNCHANGED <<snap, kfrag, approved, final, pc, asked, failed, tree, packages, report>>

\* The first rule that matches decides; the vetoes come first, and nothing
\* else but accepting takes a proposal into the fragment.
Accepts(rules, p) ==
  /\ ~("reject" \in rules /\ p.sym \in Vetoed)
  /\ \/ "deterministic" \in rules /\ p.source = "deterministic"
     \/ "low" \in rules /\ p.risk = "low"
     \/ "recommended" \in rules /\ p.risk \in {"low", "medium"}

\* write_kfrag's groups as merge_kfrag reads them back: what is switched off
\* goes first, wherever it is written; then the later assignment of a symbol wins.
Emitted(p) == IF p.source = "choice" THEN "y" ELSE p.value
Rank(p) == IF p.source = "choice" \/ p.value \in Texts THEN 4
           ELSE CASE p.value = "m" -> 3 [] p.value = "y" -> 2 [] p.value = "n" -> 1

Lines(ps) ==
  {[sym |-> p.sym, value |-> Emitted(p), rank |-> Rank(p)] : p \in ps}
    \cup {[sym |-> p.prev, value |-> "n", rank |-> 1] :
            p \in {q \in ps : q.source = "choice" /\ q.prev \in Symbols}}

\* Reading what is switched off after the assignments.
FragmentsOffLast(ps) ==
  {f \in [{l.sym : l \in Lines(ps)} -> {l.value : l \in Lines(ps)}] :
     \A s \in DOMAIN f : \E l \in Lines(ps) :
        /\ l.sym = s /\ l.value = f[s]
        /\ \A k \in Lines(ps) : k.sym = s => l.rank = 1 \/ (k.rank # 1 /\ k.rank <= l.rank)}

Fragments(ps) ==
  {f \in [{l.sym : l \in Lines(ps)} -> {l.value : l \in Lines(ps)}] :
     \A s \in DOMAIN f : \E l \in Lines(ps) :
        /\ l.sym = s /\ l.value = f[s]
        /\ \A k \in Lines(ps) : k.sym = s => k.rank <= l.rank}

\* review without and with the TUI, where the user may decide any proposal
\* otherwise; quitting the TUI writes nothing.
WriteReview(accepted) ==
  /\ approved' = accepted
  /\ kfrag' \in Fragments(accepted)
  /\ UNCHANGED <<snap, proposal, final, pc, asked, failed, tree, packages, report>>

Review(rules) ==
  /\ pc = "idle" /\ proposal # NoFile
  /\ WriteReview(proposal.auto \cup {p \in proposal.review : Accepts(rules, p)})

ReviewInteractive(chosen) ==
  /\ pc = "idle" /\ proposal # NoFile
  /\ chosen \subseteq proposal.auto \cup proposal.review
  /\ WriteReview(chosen)

-----------------------------------------------------------------------------
(* apply                                                                   *)

Merged(base, frag) == [s \in Symbols |-> IF s \in DOMAIN frag THEN frag[s] ELSE base[s]]

\* Looking for modules only.
DowngradedModules(h, cfg) == {s \in LoadBearing(h) : h.running[s] = "m" /\ s \notin On(cfg)}

\* What validate_load_bearing reports: protected symbols the merge switched off.
Downgraded(h, cfg) == {s \in LoadBearing(h) : s \in On(h.running) /\ s \notin On(cfg)}

\* With a finding apply exits 4 and leaves an older final.config where it is.
Apply ==
  /\ pc = "idle" /\ kfrag # NoFile
  /\ Downgraded(snap, Merged(snap.running, kfrag)) = {}
  /\ final' = Merged(snap.running, kfrag)
  /\ UNCHANGED <<snap, proposal, kfrag, approved, pc, asked, failed, tree, packages, report>>

-----------------------------------------------------------------------------
(* build: prepare, then make                                               *)

LtoOption(lto) == IF lto = "thin" THEN LtoThin ELSE LtoFull

\* The asked option is set, every other symbol of LTO is dropped or switched
\* off, and objtool's warnings are no errors; "none" leaves all of them alone.
SetLto(cfg, lto) ==
  IF lto = "none" THEN cfg
  ELSE [s \in Symbols |-> IF s = LtoOption(lto) THEN "y"
                          ELSE IF s \in {LtoNone, LtoThin, LtoFull, ObjtoolWerror} \cup LtoDerived
                          THEN "n" ELSE cfg[s]]

StartBuild(options) ==
  /\ pc = "idle" /\ final # NoFile /\ report.build < MaxBuilds
  /\ ~(options.execute /\ snap.dkms)
  /\ asked' = options
  /\ tree' = Merged(SetLto(final, options.lto), options.overrides)
  /\ pc' = "olddefconfig" /\ failed' = FALSE
  /\ UNCHANGED <<files, packages, report>>

LtoOn(cfg, off) == {s \in {LtoThin, LtoFull} \ off : cfg[s] = "y"}

\* Kconfig (external) switches off what has unmet dependencies and all but one
\* option of the LTO choice, which without another is "no LTO".
Settled(cfg, off) ==
  [s \in Symbols |-> IF s \in off THEN "n"
                     ELSE IF s = LtoNone THEN IF LtoOn(cfg, off) = {} THEN "y" ELSE "n"
                     ELSE IF s \in LtoDerived THEN IF LtoOn(cfg, off) = {} THEN "n" ELSE "y"
                     ELSE cfg[s]]

Settlements(cfg) ==
  {Settled(cfg, off) : off \in {o \in SUBSET Fragile : LtoOn(cfg, o) # {LtoThin, LtoFull}}}

\* A step that fails or times out leaves .config alone, and the next step runs
\* all the same.
ConfigStep(at, next, results) ==
  /\ pc = at /\ pc' = next
  /\ \/ tree' \in results /\ UNCHANGED failed
     \/ failed' = TRUE /\ UNCHANGED tree
  /\ UNCHANGED <<files, asked, packages, report>>

Olddefconfig ==
  ConfigStep("olddefconfig", IF asked.localmodconfig THEN "localmodconfig" ELSE "checks",
             Settlements(tree))

\* Handing localmodconfig the plain lsmod of the snapshot.
KeptLoaded(h) == h.loaded

\* What _write_localmodconfig_lsmod lists besides what is loaded: modules of the
\* devices, the initramfs and firmware, and those known to be loaded late, by
\* the names the snapshot has for them.
Kept(h) == h.loaded \cup h.initramfs \cup h.bound \cup h.pci \cup h.firmware \cup h.late

\* streamline_config (external): every =m that builds none of the listed modules
\* goes, but for what the others depend on.
Trimmed(cfg, h, needed) ==
  [s \in Symbols |-> IF cfg[s] = "m" /\ s \notin needed \cup UNION {BuiltBy[m] : m \in Kept(h)}
                     THEN "n" ELSE cfg[s]]

Localmodconfig ==
  ConfigStep("localmodconfig", "olddefconfig2",
             {Trimmed(tree, snap, needed) : needed \in SUBSET {s \in Symbols : tree[s] = "m"}})

Olddefconfig2 == ConfigStep("olddefconfig2", "checks", Settlements(tree))

Return == pc' = "idle" /\ asked' = NoFile /\ failed' = FALSE

\* Checking the patch sets' Kconfig but not the LTO option.
AsAskedNoLto == \A s \in DOMAIN asked.overrides : tree[s] = asked.overrides[s]

\* The two checks are made when all steps went well; a failed step, a failed
\* check and a prepare-only build end the command.
AsAsked ==
  /\ asked.lto # "none" => tree[LtoOption(asked.lto)] = "y"
  /\ \A s \in DOMAIN asked.overrides : tree[s] = asked.overrides[s]

Checks ==
  /\ pc = "checks"
  /\ IF ~failed /\ AsAsked
     THEN pc' = "prepared" /\ UNCHANGED <<asked, failed>>
     ELSE Return
  /\ UNCHANGED <<files, tree, packages, report>>

PrepareOnly ==
  /\ pc = "prepared" /\ ~asked.execute
  /\ Return
  /\ UNCHANGED <<files, tree, packages, report>>

\* make packages the tree under its release; the report names every package
\* in the output directory with that release.  kernel-only packages nothing.
Make(ok) ==
  /\ pc = "prepared" /\ asked.execute
  /\ Return
  /\ IF ok
     THEN LET number  == report.build + 1
              release == tree[LocalVersion]
              present == packages \cup IF asked.target = "kernel-only" THEN {}
                                       ELSE {[release |-> release, build |-> number]}
          IN /\ packages' = present
             /\ report' = [build     |-> number,
                           artifacts |-> {p \in present : p.release = release}]
     ELSE UNCHANGED <<packages, report>>
  /\ UNCHANGED <<files, tree>>

-----------------------------------------------------------------------------
Levels == {"explain", "advise", "auto_safe", "auto_bold"}

Next ==
  \/ \E h \in Hosts : Scan(h)
  \/ \E level \in Levels, ps \in SUBSET Advice : Propose(level, ps)
  \/ \E rules \in SUBSET {"reject", "deterministic", "low", "recommended"} : Review(rules)
  \/ \E chosen \in SUBSET Advice : ReviewInteractive(chosen)
  \/ Apply
  \/ \E options \in Commands : StartBuild(options)
  \/ Olddefconfig \/ Localmodconfig \/ Olddefconfig2 \/ Checks \/ PrepareOnly
  \/ \E ok \in BOOLEAN : Make(ok)

Spec == Init /\ [][Next]_vars

-----------------------------------------------------------------------------
(* Properties                                                              *)

\* Every file and option is of the kind the verbs that read it expect.
TypeOK ==
  /\ snap \in Hosts
  /\ proposal \in [auto : SUBSET Advice, review : SUBSET Advice] \cup {NoFile}
  /\ approved \subseteq Advice
  /\ \/ kfrag = NoFile
     \/ DOMAIN kfrag \subseteq Symbols /\ \A s \in DOMAIN kfrag : kfrag[s] \in Values
  /\ final \in Configs \cup {NoFile} /\ tree \in Configs \cup {NoFile}
  /\ pc \in {"idle", "olddefconfig", "localmodconfig", "olddefconfig2", "checks", "prepared"}
  /\ asked \in Commands \cup {NoFile} /\ failed \in BOOLEAN
  /\ \A p \in packages : p.build \in 1..MaxBuilds /\ p.release \in Values
  /\ report.build \in 0..MaxBuilds

\* A configuration written by apply has a driver for every module the host
\* shows evidence of now and does not blacklist, if the running kernel has one:
\* whatever the review accepted when, and though a choice switches off symbols
\* the policy never looked at (resolve.py:157-297, merge.py:164-215).
EvidenceKept(h, cfg) ==
  \A m \in h.loaded \cup h.bound \cup h.pci \cup h.alias \cup h.audio
            \cup {Canonical[i] : i \in h.initramfs} :
     ((\A b \in h.blacklisted : Canonical[b] # m) /\ Hits(h, m) # {})
       => \E i \in Hits(h, m) : Candidates[m][i] \in On(cfg)

LoadBearingWritten == [][final' # final => EvidenceKept(snap, final')]_vars

\* What apply changes is what the last review accepted and nothing else: a
\* difference to the running kernel is the value of an accepted proposal or the
\* previous option of an accepted choice; an accepted proposal takes effect, or
\* another one for its symbol does; and what one of them keeps on, as a module
\* or as the option of a choice, no other one switches off, whatever the order
\* of the lines (kfrag.py:104-165, merge.py:98-163).
AsReviewed ==
  /\ \A s \in Symbols : final'[s] # snap.running[s] =>
       \E p \in approved :
          \/ p.sym = s /\ final'[s] = Emitted(p)
          \/ p.prev = s /\ final'[s] = "n"
  /\ \A p \in approved :
       /\ \E q \in approved : q.sym = p.sym /\ final'[p.sym] = Emitted(q)
       /\ Emitted(p) # "n" => final'[p.sym] # "n"

FragmentIsTheReview == [][final' # final => AsReviewed]_vars

\* What --lto changes besides the option, and what Kconfig derives anyhow.
LtoSymbols ==
  LtoDerived \cup (IF asked.lto = "none" THEN {LtoNone}
                   ELSE {LtoNone, LtoThin, LtoFull, ObjtoolWerror})

\* What may go off in a tree for another reason than the trim.
MayGo == Fragile \cup LtoSymbols \cup DOMAIN asked.overrides

\* A prepared tree has the LTO option that was asked for and no other, with
\* OBJTOOL_WERROR off, and the Kconfig of the patch sets; and what final.config
\* builds in besides is still built in, although Kconfig settles it twice and
\* localmodconfig trims it in between.  --lto drops the rest of its own symbols
\* (build.py:115-146, 336-463; tests/test_build.py:638-671).
PreparedAsAsked ==
  pc = "prepared" =>
   (/\ asked.lto # "none" =>
         /\ \A s \in {LtoNone, LtoThin, LtoFull} : tree[s] = "y" <=> s = LtoOption(asked.lto)
         /\ ObjtoolWerror \notin DOMAIN asked.overrides => tree[ObjtoolWerror] = "n"
    /\ \A s \in DOMAIN asked.overrides : tree[s] = asked.overrides[s]
    /\ \A s \in Symbols \ MayGo :
         final[s] = "y" => tree[s] = "y")

\* The trim spares the driver of everything that is in use: what the kernel's
\* Makefiles build a module for that is loaded, bound, listed for a device or in
\* the initramfs is on in a prepared tree, if final.config has it on and its
\* dependencies are met.  The Makefiles know no name with '-': such a name in the
\* initramfs says nothing here, see EveryModuleInUseSurvives (build.py:552-635).
InUse(h) == h.loaded \cup h.bound \cup h.pci \cup h.initramfs

ModulesInUseSurvive ==
  pc = "prepared" =>
    \A m \in InUse(snap) : \A s \in BuiltBy[m] \ MayGo :
      s \in On(final) => s \in On(tree)

\* The same whatever the spelling.  It does not hold: resolve.py:180 reads a '-'
\* of an initramfs name as '_', build.py:613 hands it on to localmodconfig as it
\* is, where it stands for no module: README.
EveryModuleInUseSurvives ==
  pc = "prepared" =>
    \A m \in InUse(snap) : \A s \in BuiltBy[Canonical[m]] \ MayGo :
      s \in On(final) => s \in On(tree)

\* resolve.py:18-20 calls the required set "the set of symbols we are confident
\* MUST stay enabled": what is required and on in final.config is on in the tree
\* that is built.  It does not hold: README.
RequiredSurvives ==
  pc = "prepared" =>
    \A s \in RequiredConfigs(snap) \ (Fragile \cup DOMAIN asked.overrides) :
      s \in On(final) => s \in On(tree)

\* build.py:820-821 says of the packages a build reports: "keep only this
\* build's packages (their names embed the kernel release)".  It does not hold
\* of two builds of one release: README.
ReportsItsOwnPackages == \A p \in report.artifacts : p.build = report.build
=============================================================================
