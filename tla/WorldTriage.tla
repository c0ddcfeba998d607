---------------------------- MODULE WorldTriage ----------------------------
(***************************************************************************)
(* Triage and retry at the end of a `world build`, and the exceptions      *)
(* table it leaves for later runs (world/builder.py triage_and_retry,      *)
(* world/triage.py, world/agent_patch.py).                                 *)
(*                                                                         *)
(* After the waves, up to MaxRounds rounds go over the packages that       *)
(* failed to build.  A verdict (of an LLM, so anything) gives a remedy or  *)
(* defers; a deferred package may be handed to a coding agent that writes  *)
(* patches/<source>.patch.  Remedies of one run accumulate per package,    *)
(* the package is rebuilt with the accumulated override, and an override   *)
(* that built is merged into exceptions.json, which the next run prepends  *)
(* to the manifest's overrides.                                            *)
(*                                                                         *)
(* An override is the set of things it changes: tokens stand for nocheck,  *)
(* a stripped flag, force_compiler and so on, Patch for patches, which     *)
(* names a file, and Stock for use_stock.  WorldBuild has the threads, the *)
(* repository and the record files; here a build is one step.              *)
(***************************************************************************)
EXTENDS Naturals, FiniteSets

CONSTANTS
  Units,     \* the source packages of the plan that are to be rebuilt
  Remedies,  \* what a remedy may change, short of a patch or giving up
  Patches,   \* what a coding agent may write for a package
  Manifest,  \* the manifest's own override of every unit, or None
  Flags,     \* the global flag sets a run may be started with
  MaxRounds, \* max_rounds of triage_and_retry
  MaxRuns,   \* bound: how many runs are started
  None,      \* stands for no override at all
  Torn       \* exceptions.json between truncation and write

Stock   == "use_stock"
Patch   == "patches"
NoFile  == "NoFile"
Nothing == "nobody"

Tokens    == Remedies \cup {Stock, Patch}
Overrides == SUBSET Tokens

ASSUME TriageUnits     == IsFiniteSet(Units) /\ Nothing \notin Units
ASSUME TriageRemedies  == {Stock, Patch} \cap Remedies = {}
ASSUME TriagePatches   == NoFile \notin Patches
ASSUME TriageNone      == \A o \in Overrides : o # None
ASSUME TriageTorn      == \A t \in [Units -> {None} \cup Overrides] : t # Torn
ASSUME TriageManifest  == Manifest \in [Units -> {None} \cup Overrides]
ASSUME TriageMaxRounds == MaxRounds \in Nat \ {0}
ASSUME TriageMaxRuns   == MaxRuns \in Nat

VARIABLES
  table,     \* exceptions.json, or Torn between truncation and write
  patchfile, \* the content of patches/<source>.patch
  record,    \* record.json of every unit
  runs,      \* runs started
  phase,     \* where the run stands
  flags,     \* the flags of this run
  eff,       \* override_for(u) of this run's effective manifest
  todo,      \* units of the waves not built yet, then of this round's failing
  out,       \* outcome of every unit this run has attempted
  acc,       \* the remedies this run has accumulated
  round,     \* the triage round
  progressed,\* something was applied in this round
  cur,       \* the unit being triaged
  draft,     \* the table save_exception is about to write
  confirmed, \* history: <<override, patch>> pairs a green build had
  saved,     \* history: what save_exception has been given for a unit
  lost       \* history: a kill tore the table

files == <<table, patchfile, record>>
mem   == <<flags, eff, todo, out, acc, round, progressed, cur, draft>>
hist  == <<confirmed, saved, lost>>
vars  == <<table, patchfile, record, runs, phase, flags, eff, todo, out, acc,
           round, progressed, cur, draft, confirmed, saved, lost>>

Results == {"ok", "ftbfs", "fetch-failed"}

NoTable == [u \in Units |-> None]

(* load_exceptions: a table that does not parse counts as empty.           *)
Load(t) == IF t = Torn THEN NoTable ELSE t

(* merge_overrides: the union of two remedies, or the one there is.  Its   *)
(* docstring says that use_stock and force_compiler are last-wins; the code*)
(* has `new or old` for both, so that use_stock once set stays set.        *)
(* (force_compiler has one value in a remedy, "gcc", and is a token.)      *)
Merge(old, new) == IF old = None THEN new ELSE old \cup new

(* apply_exceptions, then override_for: an exception hides the manifest's. *)
Override(u) == IF Load(table)[u] = None THEN Manifest[u] ELSE Load(table)[u]

(* What an override changes about a build: use_stock changes nothing.      *)
Changes(o) == IF o = None THEN {} ELSE o \ {Stock}

(* flags_hash: the flags and what the override changes; a patch counts by  *)
(* the name of its file.                                                   *)
Hash(f, o) == <<f, Changes(o)>>

Hashes == Flags \X (SUBSET (Tokens \ {Stock}))

NoRecord == [outcome |-> "none", hash |-> <<>>]

Done(u, h) == record[u].outcome = "ok" /\ record[u].hash = h

(* What a build with override o really gets.                               *)
Built(u, o) ==
  <<Changes(o), IF Patch \in Changes(o) THEN patchfile[u] ELSE NoFile>>

Init ==
  /\ table = NoTable
  /\ patchfile = [u \in Units |-> NoFile]
  /\ record = [u \in Units |-> NoRecord]
  /\ runs = 0
  /\ phase = "idle"
  /\ flags \in Flags
  /\ eff = NoTable
  /\ todo = {}
  /\ out = [u \in Units |-> "none"]
  /\ acc = NoTable
  /\ round = 0
  /\ progressed = FALSE
  /\ cur = Nothing
  /\ draft = NoTable
  /\ confirmed = [u \in Units |-> {}]
  /\ saved = [u \in Units |-> {}]
  /\ lost = FALSE

(* What a process forgets when it ends.                                    *)
Forgotten ==
  /\ eff' = NoTable
  /\ todo' = {}
  /\ out' = [u \in Units |-> "none"]
  /\ acc' = NoTable
  /\ round' = 0
  /\ progressed' = FALSE
  /\ cur' = Nothing
  /\ draft' = NoTable

BeginRun ==
  /\ phase = "idle"
  /\ runs < MaxRuns
  /\ flags' \in Flags
  /\ eff' = [u \in Units |-> Override(u)]
  /\ todo' = {u \in Units : ~Done(u, Hash(flags', eff'[u]))}
  /\ todo' # {}
  /\ phase' = "waves"
  /\ runs' = runs + 1
  /\ UNCHANGED <<files, out, acc, round, progressed, cur, draft, hist>>

(***************************************************************************)
(* build_unit with override o.  A patch that is missing or does not apply  *)
(* is an FTBFS before anything is built.                                   *)
(***************************************************************************)
BuildUnit(u, o, result) ==
  /\ Patch \in Changes(o) /\ patchfile[u] = NoFile => result # "ok"
  /\ record' = [record EXCEPT ![u] = [outcome |-> result, hash |-> Hash(flags, o)]]
  /\ out' = [out EXCEPT ![u] = result]
  /\ confirmed' = [confirmed EXCEPT ![u] =
                     IF result = "ok" THEN @ \cup {Built(u, o)} ELSE @]

Build(u) ==
  /\ phase = "waves"
  /\ u \in todo
  /\ \E result \in Results : BuildUnit(u, eff[u], result)
  /\ todo' = todo \ {u}
  /\ UNCHANGED <<table, patchfile, runs, phase, flags, eff, acc, round,
                 progressed, cur, draft, saved, lost>>

(* bug: every package the round before had worked on is triaged again *)
FailingOrTriaged == {u \in Units : out[u] = "ftbfs" \/ (acc[u] # None /\ out[u] = "ok")}

Failing == {u \in Units : out[u] = "ftbfs"}

(* The waves are built and something of this run failed.                   *)
StartTriage ==
  /\ phase = "waves"
  /\ todo = {}
  /\ Failing # {}
  /\ phase' = "triage"
  /\ todo' = Failing
  /\ round' = 1
  /\ progressed' = FALSE
  /\ UNCHANGED <<files, runs, flags, eff, out, acc, cur, draft, hist>>

(* No log, no remedy, or one that adds nothing: no build is burnt.         *)
Defer(u) ==
  /\ phase = "triage"
  /\ u \in todo
  /\ todo' = todo \ {u}
  /\ UNCHANGED <<files, runs, phase, flags, eff, out, acc, round, progressed,
                 cur, draft, hist>>

(* bug: whether to give up is read off the new remedy alone *)
ApplyByNewRemedy(u, remedy) ==
  /\ acc' = [acc EXCEPT ![u] = Merge(acc[u], remedy)]
  /\ phase' = IF Stock \in remedy THEN "save" ELSE "rebuild"
  /\ cur' = u

(***************************************************************************)
(* The remedy joins what this run has accumulated for the package; giving  *)
(* up (now or in an earlier round) goes to the table at once, anything     *)
(* else is rebuilt first.                                                  *)
(***************************************************************************)
Apply(u, remedy) ==
  LET merged == Merge(acc[u], remedy)
  IN  /\ acc' = [acc EXCEPT ![u] = merged]
      /\ phase' = IF Stock \in merged THEN "save" ELSE "rebuild"
      /\ cur' = u

(* triage_record's verdict, through override_check: one kind of remedy.    *)
Verdict(u) ==
  /\ phase = "triage"
  /\ u \in todo
  /\ \E remedy \in {{r} : r \in Remedies \cup {Stock}} \cup {{}} : Apply(u, remedy)
  /\ todo' = todo \ {u}
  /\ UNCHANGED <<files, runs, flags, eff, out, round, progressed, draft, hist>>

(* The escalation of a deferred failure: save_patch writes the file that   *)
(* carries the package's name, then the override that names it is tried.   *)
AgenticPatch(u) ==
  /\ phase = "triage"
  /\ u \in todo
  /\ \E p \in Patches : patchfile' = [patchfile EXCEPT ![u] = p]
  /\ \/ Apply(u, {Patch})
     \/ /\ acc[u] # None /\ Patch \in acc[u]   \* merged == prior
        /\ UNCHANGED <<acc, phase, cur>>
  /\ todo' = todo \ {u}
  /\ UNCHANGED <<table, record, runs, flags, eff, out, round, progressed, draft,
                 hist>>

(* bug: the remedy is remembered whatever the rebuild says *)
RebuildUnchecked ==
  /\ phase = "rebuild"
  /\ \E result \in Results : BuildUnit(cur, acc[cur], result)
  /\ phase' = "save"
  /\ progressed' = TRUE
  /\ UNCHANGED <<table, patchfile, runs, flags, eff, todo, acc, round, cur, draft,
                 saved, lost>>

(* The rebuild that has to confirm the accumulated override.               *)
Rebuild ==
  /\ phase = "rebuild"
  /\ \E result \in Results :
       /\ BuildUnit(cur, acc[cur], result)
       /\ IF result = "ok" /\ acc[cur] # {}
            THEN phase' = "save" /\ UNCHANGED cur
            ELSE phase' = "triage" /\ cur' = Nothing
  /\ progressed' = TRUE
  /\ UNCHANGED <<table, patchfile, runs, flags, eff, todo, acc, round, draft,
                 saved, lost>>

(* bug: only the package's own entry is written *)
SaveOpenAlone ==
  /\ phase = "save"
  /\ draft' = [NoTable EXCEPT ![cur] = acc[cur]]
  /\ table' = Torn
  /\ phase' = "write"
  /\ UNCHANGED <<patchfile, record, runs, flags, eff, todo, out, acc, round,
                 progressed, cur, hist>>

(* save_exception: load, merge with the package's entry, truncate ...      *)
SaveOpen ==
  /\ phase = "save"
  /\ draft' = [Load(table) EXCEPT ![cur] = Merge(@, acc[cur])]
  /\ table' = Torn
  /\ phase' = "write"
  /\ UNCHANGED <<patchfile, record, runs, flags, eff, todo, out, acc, round,
                 progressed, cur, hist>>

(* ... and write every package's entry back.                               *)
SaveWrite ==
  /\ phase = "write"
  /\ table' = draft
  /\ draft' = NoTable
  /\ saved' = [saved EXCEPT ![cur] = @ \cup acc[cur]]
  /\ progressed' = TRUE
  /\ phase' = "triage"
  /\ cur' = Nothing
  /\ UNCHANGED <<patchfile, record, runs, flags, eff, todo, out, acc, round,
                 confirmed, lost>>

(* Another round only after progress, for what still fails, at most        *)
(* MaxRounds times.                                                        *)
NextRound ==
  /\ phase = "triage"
  /\ todo = {}
  /\ progressed
  /\ round < MaxRounds
  /\ Failing # {}
  /\ todo' = Failing
  /\ round' = round + 1
  /\ progressed' = FALSE
  /\ UNCHANGED <<files, runs, phase, flags, eff, out, acc, cur, draft, hist>>

(* bug: a run ends only when nothing fails any more *)
EndRunWhenFixed ==
  /\ todo = {}
  /\ phase \in {"waves", "triage"}
  /\ Failing = {}
  /\ phase' = "idle"
  /\ Forgotten
  /\ UNCHANGED <<files, runs, flags, hist>>

EndRun ==
  /\ todo = {}
  /\ \/ phase = "waves"   \* nothing failed, or --no-triage
     \/ phase = "triage" /\ (~progressed \/ round = MaxRounds \/ Failing = {})
  /\ phase' = "idle"
  /\ Forgotten
  /\ UNCHANGED <<files, runs, flags, hist>>

(* A kill, or an exception (the LLM is out of reach, the disk is full).    *)
Kill ==
  /\ phase # "idle"
  /\ phase' = "idle"
  /\ lost' = (lost \/ table = Torn)
  /\ Forgotten
  /\ UNCHANGED <<files, runs, flags, confirmed, saved>>

Step ==
  \/ \E u \in Units : Build(u) \/ Defer(u) \/ Verdict(u) \/ AgenticPatch(u)
  \/ StartTriage
  \/ Rebuild
  \/ SaveOpen
  \/ SaveWrite
  \/ NextRound
  \/ EndRun

Next == BeginRun \/ Step \/ Kill

Spec == Init /\ [][Next]_vars

(* The run goes on as long as the process lives.                           *)
FairSpec == Spec /\ WF_vars(Step)

-----------------------------------------------------------------------------
Tables   == [Units -> {None} \cup Overrides]
Contents == (SUBSET (Tokens \ {Stock})) \X (Patches \cup {NoFile})

TypeOK ==
  /\ table \in {Torn} \cup Tables
  /\ patchfile \in [Units -> Patches \cup {NoFile}]
  /\ record \in [Units -> {NoRecord} \cup [outcome : Results, hash : Hashes]]
  /\ runs \in 0 .. MaxRuns
  /\ phase \in {"idle", "waves", "triage", "rebuild", "save", "write"}
  /\ flags \in Flags
  /\ eff \in Tables
  /\ todo \subseteq Units
  /\ out \in [Units -> Results \cup {"none"}]
  /\ acc \in Tables
  /\ round \in 0 .. MaxRounds
  /\ progressed \in BOOLEAN
  /\ cur \in Units \cup {Nothing}
  /\ draft \in Tables
  /\ confirmed \in [Units -> SUBSET Contents]
  /\ saved \in [Units -> Overrides]
  /\ lost \in BOOLEAN

Entry(u) == IF Load(table)[u] = None THEN {} ELSE Load(table)[u]

(* The rebuild gates the table: unless its entry gives the package up,     *)
(* everything a persisted exception changes was part of a build of that    *)
(* package that succeeded, in this run or an earlier one.                  *)
RemediesConfirmed ==
  \A u \in Units : Stock \notin Entry(u) =>
    \A t \in Entry(u) : \E c \in confirmed[u] : t \in c[1]

(* One file holds every package's exception and is rewritten for each:     *)
(* as long as no kill tore it, nothing that was saved is ever missing.     *)
NothingSavedIsLost ==
  ~lost /\ table # Torn => \A u \in Units : saved[u] \subseteq Entry(u)

(* exceptions.json, with the save that is under way; and what the builds   *)
(* that succeeded had.                                                     *)
OnFile == IF phase = "write" THEN draft ELSE Load(table)

Green == [u \in Units |-> {c[1] : c \in confirmed[u]}]

Table == INSTANCE ExceptionsTable WITH
           entries <- OnFile, green <- Green, writing <- (phase = "write"),
           GiveUp <- Stock

(* The triage of every run, its rounds, rebuilds and kills, does to        *)
(* exceptions.json what ExceptionsTable says: save_exception gets an       *)
(* override that its package was built with, as a whole, or that gives the *)
(* package up; it adds that to the package's entry and keeps the others.   *)
ImplementsTable == Table!Spec

(* Triage has settled on the distribution's binary, for this run.           *)
GivenUp(u) == acc[u] # None /\ Stock \in acc[u]

(* A package given up in some round stays given up and is not rebuilt in a *)
(* later round of the run, whatever its later verdicts say.  This is what  *)
(* merge_overrides and the test of the merged remedy do; a use_stock that  *)
(* were last-wins, as the docstring has it, would rebuild it.              *)
GivenUpForThisRun ==
  [][\A u \in Units : GivenUp(u)
       => record'[u] = record[u] /\ (GivenUp(u)' \/ phase' = "idle")]_vars

(* A package that a round has fixed is not triaged or built again.         *)
FixedStaysFixed ==
  [][\A u \in Units : out[u] = "ok" => record'[u] = record[u]]_vars

(* The rounds come to an end although verdicts never run out.              *)
TriageEnds == phase # "idle" ~> phase = "idle"
=============================================================================
