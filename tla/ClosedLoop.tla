----------------------------- MODULE ClosedLoop -----------------------------
(***************************************************************************)
(* `autokernel iterate` over one snapshot directory and one kernel tree:   *)
(* propose, review, apply, build, boot-test, measure, record, round after  *)
(* round (cli.py, iteration.py, measurements.py, boottest.py), and the     *)
(* verbs a user runs between two loops to get the result installed.        *)
(*                                                                         *)
(* The loop runs its verbs as subprocesses and hands results on in files:  *)
(* the snapshot's auto.kfrag, final.config and boot-test.json, the tree's  *)
(* bzImage, and per round iterations/i<NNN>/ with its own final.config,    *)
(* post_build.config and record.json.  The files survive a kill of the     *)
(* loop; what the loop knows of its round does not.                        *)
(*                                                                         *)
(* A configuration is the set of symbols that are y or m in it; a symbol   *)
(* that is off is not in it.  What a proposal says otherwise (numbers,     *)
(* strings, =y against =m) makes no difference to the loop.                *)
(***************************************************************************)
EXTENDS Naturals, Sequences, FiniteSets, FiniteSetsExt

CONSTANTS
  Symbols,      \* CONFIG_ symbols
  Running,      \* running_config: what is on in the running kernel
  LoadBearing,  \* compute_load_bearing: what must not be turned off
  Proposals,    \* what the agents may propose
  Answers,      \* the lists of proposals they may answer with in a round
  Unloaded,     \* modules not in the snapshot's lsmod
  Forced,       \* symbols olddefconfig turns on again (selected by others)
  Size,         \* the bzImage size of a configuration
  Options,      \* the command lines of iterate in use
  MaxRounds,    \* bound: rounds over all loops
  MaxStarts,    \* bound: how often iterate is started
  MaxVerbs,     \* bound: how many verbs the user runs in between
  None, Torn

Configs  == SUBSET Symbols
Rounds   == 1 .. MaxRounds
Converge == {"stable-size", "no-new-proposals", "max-iter"}

ASSUME RunningAssumption == Running \subseteq Symbols /\ LoadBearing \subseteq Symbols
ASSUME ProposalsAssumption ==
  Proposals \subseteq [config : Symbols, value : {"y", "n"}, previous : Symbols \cup {None}]
ASSUME AnswersAssumption == Answers \subseteq SUBSET Proposals
ASSUME KconfigAssumption == Unloaded \subseteq Symbols /\ Forced \subseteq Symbols
ASSUME SizeAssumption == Size \in [Configs -> Nat]
ASSUME OptionsAssumption ==
  Options \subseteq [execute : BOOLEAN, converge : Converge, revert : BOOLEAN,
                     rounds : Nat \ {0}]
(* The names i<NNN> of the rounds sort as the rounds do up to i999.         *)
ASSUME BoundsAssumption ==
  /\ MaxRounds \in Nat /\ MaxRounds < 1000
  /\ MaxStarts \in Nat /\ MaxVerbs \in Nat

VARIABLES
  kfrag,      \* auto.kfrag: the symbols it sets and those it turns off
  final,      \* final.config of the snapshot, or None
  image,      \* the configuration the tree's bzImage was built from, or None
  boot,       \* boot-test.json: the verdict and the bzImage it is about
  finals,     \* final.config of every round's directory
  posts,      \* post_build.config of every round's directory
  records,    \* record.json of every round's directory
  pc,         \* where the loop stands, or "idle"
  opts,       \* its command line
  round,      \* the round it works on
  last,       \* the last round of this invocation
  nothing,    \* this round's proposal list is empty
  failed,     \* this round's build failed
  rec,        \* the record it is about to save
  ended,      \* why the latest loop ended
  package,    \* the configuration of the kernel package built last, or None
  installed,  \* the configuration of the kernel installed last, or None
  starts,     \* loops started so far
  verbs,      \* verbs the user ran so far
  tested      \* history: this round ran a boot test that gave a verdict

dirs == <<finals, posts, records>>
snap == <<kfrag, final, image, boot>>
user == <<package, installed, verbs>>
loop == <<opts, round, last>>
vars == <<kfrag, final, image, boot, finals, posts, records, pc, opts, round, last,
          nothing, failed, rec, ended, package, installed, starts, verbs, tested>>

Fragments == [on : Configs, off : Configs]
Verdicts  == [ok : BOOLEAN, image : Configs]
Sizes     == {Size[c] : c \in Configs}
Records   == [nothing : BOOLEAN, size : Sizes \cup {None},
              boot : BOOLEAN \cup {None}, regressed : BOOLEAN]
RoundSteps == {"propose", "apply", "chain", "build", "keep", "boot-test",
               "measure", "save", "write"}

(* None is Python's None and an absent file, Torn a file that does not     *)
(* parse; neither is a value.                                              *)
ASSUME MarkersAssumption ==
  /\ None # Torn
  /\ None \notin Records /\ Torn \notin Records
  /\ None \notin Symbols /\ None \notin Nat
  /\ \A c \in Configs : c # None
  /\ None \notin Fragments /\ None \notin Verdicts /\ None \notin Options

-----------------------------------------------------------------------------
(* From proposals to a configuration.                                      *)

(* apply_policy: whatever the autonomy, a proposal about a load-bearing    *)
(* symbol is blocked.  Only the proposal's own symbol is looked at.        *)
PassesPolicy(p) == p.config \notin LoadBearing

(* write_kfrag: a choice also turns its previously selected sibling off.   *)
Fragment(accepted) ==
  [on  |-> {p.config : p \in {q \in accepted : q.value = "y"}},
   off |-> {p.config : p \in {q \in accepted : q.value = "n"}}
             \cup ({p.previous : p \in accepted} \ {None})]

(* merge_kfrag: the fragment's disables first, its assignments over them.  *)
Merge(base, f) == (base \ f.off) \cup f.on

(* bug: the merge is written without being validated *)
DowngradesNone(merged) == {}

(* validate_load_bearing: on in the running configuration, off after.      *)
Downgrades(merged) == (LoadBearing \cap Running) \ merged

(* make olddefconfig, localmodconfig, olddefconfig over a final.config.    *)
Settle(c, localmod) == (IF localmod THEN c \ Unloaded ELSE c) \cup Forced

-----------------------------------------------------------------------------
(* The history of the loop.                                                *)

(* load_history: a record.json that does not parse is passed over.         *)
Saved(i) == records[i] \notin {None, Torn}

Last == Max({0} \cup {i \in Rounds : Saved(i)})

(* bug: the directories are counted, with or without a record *)
FirstRoundByDirs ==
  1 + Cardinality({i \in Rounds : finals[i] # None \/ records[i] # None})

FirstRound == Last + 1

(* bug: the window is one step, not two *)
HasConvergedShort(recs, n) ==
  LET Close(i) == /\ recs[i].size # 0
                  /\ 100 * recs[i + 1].size <= 101 * recs[i].size
                  /\ 100 * recs[i + 1].size >= 99 * recs[i].size
  IN  /\ n >= 2
      /\ \A i \in {n - 1, n} : recs[i].size # None
      /\ Close(n - 1)

(* has_converged: the last three rounds have sizes, one step apart each.   *)
HasConverged(recs, n) ==
  LET Close(i) == /\ recs[i].size # 0
                  /\ 100 * recs[i + 1].size <= 101 * recs[i].size
                  /\ 100 * recs[i + 1].size >= 99 * recs[i].size
  IN  /\ n >= 3
      /\ \A i \in {n - 2, n - 1, n} : recs[i].size # None
      /\ Close(n - 2)
      /\ Close(n - 1)

(* Why the loop ends with round n: the convergence test, then the count.   *)
Ending(recs, n) ==
  CASE opts.converge = "stable-size" /\ HasConverged(recs, n) -> "stable"
    [] opts.converge = "no-new-proposals" /\ recs[n].nothing -> "nothing-new"
    [] n = last -> "max"
    [] OTHER -> "none"

-----------------------------------------------------------------------------
Init ==
  /\ kfrag = None
  /\ final = None
  /\ image = None
  /\ boot = None
  /\ finals = [i \in Rounds |-> None]
  /\ posts = [i \in Rounds |-> None]
  /\ records = [i \in Rounds |-> None]
  /\ pc = "idle"
  /\ opts = None
  /\ round = 0
  /\ last = 0
  /\ nothing = FALSE
  /\ failed = FALSE
  /\ rec = None
  /\ ended = "none"
  /\ package = None
  /\ installed = None
  /\ starts = 0
  /\ verbs = 0
  /\ tested = FALSE

Goto(step) == pc' = step

(* What the process forgets with a round, and with the loop.               *)
ForgetRound ==
  /\ nothing' = FALSE
  /\ failed' = FALSE
  /\ rec' = None
  /\ tested' = FALSE

ForgetLoop == opts' = None /\ round' = 0 /\ last' = 0

(***************************************************************************)
(* iterate: history from disk, the first round after the last recorded.    *)
(***************************************************************************)
Begin ==
  /\ pc = "idle"
  /\ starts < MaxStarts
  /\ FirstRound \in Rounds
  /\ \E o \in Options :
       /\ opts' = o
       /\ last' = Min({FirstRound + o.rounds - 1, MaxRounds})
  /\ round' = FirstRound
  /\ starts' = starts + 1
  /\ ended' = "none"
  /\ Goto("propose")
  /\ UNCHANGED <<snap, dirs, nothing, failed, rec, user, tested>>

(***************************************************************************)
(* propose and review --accept-recommended: of what the agents offer, the  *)
(* proposals the policy lets pass are this round's list, and those that    *)
(* are applied automatically or match a review rule make the kfrag.  That  *)
(* review fails, whose exit status the loop does not look at either and    *)
(* which leaves the kfrag of an earlier round, is left out.                *)
(***************************************************************************)
Propose ==
  /\ pc = "propose"
  /\ \E offered \in Answers :
       LET passing == {p \in offered : PassesPolicy(p)}
       IN  /\ nothing' = (passing = {})
           /\ \E accepted \in SUBSET passing : kfrag' = Fragment(accepted)
  /\ Goto("apply")
  /\ UNCHANGED <<final, image, boot, dirs, loop, failed, rec, ended, user, starts, tested>>

(* propose exits with an error (no provider, DKMS, ...): the round is      *)
(* recorded as regressed, with no proposals and nothing measured.          *)
ProposeFails ==
  /\ pc = "propose"
  /\ rec' = [nothing |-> TRUE, size |-> None, boot |-> None, regressed |-> TRUE]
  /\ Goto("save")
  /\ UNCHANGED <<snap, dirs, loop, nothing, failed, ended, user, starts, tested>>

(***************************************************************************)
(* apply: the kfrag over running_config.  A merge that turns a load-bearing*)
(* symbol off is refused and final.config left as it was; the loop does    *)
(* not look at the exit status.  final.config is taken to be written whole *)
(* or not at all.                                                          *)
(***************************************************************************)
Apply ==
  /\ pc = "apply"
  /\ LET merged == Merge(Running, kfrag)
     IN  final' = IF Downgrades(merged) = {} THEN merged ELSE final
  /\ Goto("chain")
  /\ UNCHANGED <<kfrag, image, boot, dirs, loop, nothing, failed, rec, ended, user,
                 starts, tested>>

(* final.config is copied to the round's directory.  A dry run ends here.  *)
Chain ==
  /\ pc = "chain"
  /\ finals' = IF final = None THEN finals ELSE [finals EXCEPT ![round] = final]
  /\ IF opts.execute
       THEN Goto("build") /\ UNCHANGED rec
       ELSE /\ Goto("save")
            /\ rec' = [nothing |-> nothing, size |-> None, boot |-> None,
                       regressed |-> FALSE]
  /\ UNCHANGED <<snap, posts, records, loop, nothing, failed, ended, user, starts, tested>>

(***************************************************************************)
(* build --execute --localmodconfig --target=kernel-only.  A build fails   *)
(* before it reaches the tree (no final.config, no compiler, DKMS) or in   *)
(* make, before or after it has written bzImage.                           *)
(***************************************************************************)
BuildFails ==
  /\ pc = "build"
  /\ \/ UNCHANGED image
     \/ final # None /\ image' = Settle(final, TRUE)
  /\ failed' = TRUE
  /\ Goto("measure")
  /\ UNCHANGED <<kfrag, final, boot, dirs, loop, nothing, rec, ended, user, starts, tested>>

BuildSucceeds ==
  /\ pc = "build"
  /\ final # None
  /\ image' = Settle(final, TRUE)
  /\ Goto("keep")
  /\ UNCHANGED <<kfrag, final, boot, dirs, loop, nothing, failed, rec, ended, user,
                 starts, tested>>

(* The tree's .config, which this build was made with, is kept.            *)
KeepPostBuild ==
  /\ pc = "keep"
  /\ posts' = [posts EXCEPT ![round] = image]
  /\ Goto("boot-test")
  /\ UNCHANGED <<snap, finals, records, loop, nothing, failed, rec, ended, user, starts,
                 tested>>

(* boottest.execute: a verdict about the tree's bzImage.                   *)
Verdict(ok) == boot' = [ok |-> ok, image |-> image]

(* boot-test may also give up before it boots (no runtime, no transport),  *)
(* and then leaves boot-test.json alone.                                   *)
BootTest ==
  /\ pc = "boot-test"
  /\ \/ \E ok \in BOOLEAN : Verdict(ok) /\ tested' = TRUE
     \/ UNCHANGED <<boot, tested>>
  /\ Goto("measure")
  /\ UNCHANGED <<kfrag, final, image, dirs, loop, nothing, failed, rec, ended, user, starts>>

(* bug: the tree's bzImage is measured although the build failed *)
MeasuredAlways == IF image = None THEN None ELSE Size[image]

(* measure_bzimage, for which a round whose build failed names no tree.    *)
MeasuredSize == IF failed THEN None ELSE Size[image]

(* read_boot_test_record: what boot-test.json says, whenever it was written*)
MeasuredBoot == IF boot = None THEN None ELSE boot.ok

(***************************************************************************)
(* Measure, decide whether the round regressed and, with --auto-revert,    *)
(* take back the final.config of the round before.                         *)
(***************************************************************************)
Measure ==
  /\ pc = "measure"
  /\ LET regressed == failed \/ MeasuredBoot = FALSE
     IN  /\ rec' = [nothing |-> nothing, size |-> MeasuredSize, boot |-> MeasuredBoot,
                    regressed |-> regressed]
         /\ final' = IF regressed /\ opts.revert /\ Last # 0
                       THEN IF finals[Last] # None THEN finals[Last] ELSE final
                       ELSE final
  /\ Goto("save")
  /\ UNCHANGED <<kfrag, image, boot, dirs, loop, nothing, failed, ended, user, starts, tested>>

(* save_record: write_text truncates record.json ...                       *)
SaveOpen ==
  /\ pc = "save"
  /\ records' = [records EXCEPT ![round] = Torn]
  /\ Goto("write")
  /\ UNCHANGED <<snap, finals, posts, loop, nothing, failed, rec, ended, user, starts, tested>>

(* bug: a regressed round is tried again until it does not regress *)
SaveWriteRetried ==
  /\ pc = "write"
  /\ records' = [records EXCEPT ![round] = rec]
  /\ ForgetRound
  /\ ended' = IF rec.regressed THEN "none" ELSE Ending(records', round)
  /\ IF ended' = "none"
       THEN /\ round' = IF rec.regressed THEN round ELSE round + 1
            /\ Goto("propose")
            /\ UNCHANGED <<opts, last>>
       ELSE ForgetLoop /\ Goto("idle")
  /\ UNCHANGED <<snap, finals, posts, user, starts>>

(* ... and writes it; the loop goes on with the next round or ends.        *)
SaveWrite ==
  /\ pc = "write"
  /\ records' = [records EXCEPT ![round] = rec]
  /\ ForgetRound
  /\ ended' = Ending(records', round)
  /\ IF ended' = "none"
       THEN round' = round + 1 /\ UNCHANGED <<opts, last>> /\ Goto("propose")
       ELSE ForgetLoop /\ Goto("idle")
  /\ UNCHANGED <<snap, finals, posts, user, starts>>

Kill ==
  /\ pc # "idle"
  /\ ForgetRound
  /\ ForgetLoop
  /\ Goto("idle")
  /\ UNCHANGED <<snap, dirs, ended, user, starts>>

-----------------------------------------------------------------------------
(* The verbs of a user, between two loops.                                 *)

Verb ==
  /\ pc = "idle"
  /\ verbs < MaxVerbs
  /\ verbs' = verbs + 1
  /\ UNCHANGED <<kfrag, final, dirs, pc, loop, nothing, failed, rec, ended, starts, tested>>

(* build --execute, without --localmodconfig, for a package; or not quite. *)
BuildPackage ==
  /\ Verb
  /\ final # None
  /\ image' = Settle(final, FALSE)
  /\ \/ package' = image'
     \/ UNCHANGED package
  /\ UNCHANGED <<boot, installed>>

TestByHand ==
  /\ Verb
  /\ image # None
  /\ \E ok \in BOOLEAN : Verdict(ok)
  /\ UNCHANGED <<image, package, installed>>

(* install --execute: the boot-test gate, then the package.                *)
Install ==
  /\ Verb
  /\ package # None
  /\ boot # None
  /\ boot.ok
  /\ installed' = package
  /\ UNCHANGED <<image, boot, package>>

Step ==
  \/ Propose
  \/ ProposeFails
  \/ Apply
  \/ Chain
  \/ BuildFails
  \/ BuildSucceeds
  \/ KeepPostBuild
  \/ BootTest
  \/ Measure
  \/ SaveOpen
  \/ SaveWrite

Next ==
  \/ Begin
  \/ Step
  \/ Kill
  \/ BuildPackage
  \/ TestByHand
  \/ Install

Spec == Init /\ [][Next]_vars

(***************************************************************************)
(* Every verb of a round ends - make, the boot test (its timeout) and the  *)
(* agents' calls - so a loop that is not killed takes its next step.       *)
(***************************************************************************)
FairSpec == Spec /\ WF_vars(Step)

-----------------------------------------------------------------------------
TypeOK ==
  /\ kfrag \in Fragments \cup {None}
  /\ final \in Configs \cup {None} /\ image \in Configs \cup {None}
  /\ package \in Configs \cup {None} /\ installed \in Configs \cup {None}
  /\ boot \in Verdicts \cup {None}
  /\ finals \in [Rounds -> Configs \cup {None}]
  /\ posts \in [Rounds -> Configs \cup {None}]
  /\ records \in [Rounds -> Records \cup {None, Torn}]
  /\ pc \in RoundSteps \cup {"idle"}
  /\ opts \in Options \cup {None}
  /\ round \in 0 .. MaxRounds /\ last \in 0 .. MaxRounds
  /\ nothing \in BOOLEAN /\ failed \in BOOLEAN /\ tested \in BOOLEAN
  /\ rec \in Records \cup {None}
  /\ ended \in {"none", "stable", "nothing-new", "max"}
  /\ starts \in 0 .. MaxStarts
  /\ verbs \in 0 .. MaxVerbs

(* Whatever the agents propose, whichever round's final.config is taken    *)
(* back: no final.config turns off a load-bearing symbol that is on in the *)
(* running kernel.                                                         *)
LoadBearingKept ==
  \A c \in {final} \cup {finals[i] : i \in Rounds} :
    c # None => LoadBearing \cap Running \subseteq c

(* The history a loop resumes from has no holes, so its last entry is the  *)
(* round before the one the loop works on, kills or not.                   *)
HistoryHasNoHoles ==
  /\ \A i \in Rounds : Saved(i) => \A j \in 1 .. i : Saved(j)
  /\ pc # "idle" => round = Last + 1

(* A round that is on record stays as it is: no later loop works in its    *)
(* directory again.                                                        *)
RecordedOnce ==
  [][\A i \in Rounds :
       Saved(i) => /\ records'[i] = records[i]
                   /\ finals'[i] = finals[i]
                   /\ posts'[i] = posts[i]]_vars

(* The rounds' directories implement the list of RoundLog.tla: every loop, *)
(* whatever died before it, goes on at the end of what is on record.       *)
History == [i \in 1 .. Last |-> [record |-> records[i], config |-> finals[i],
                                 kernel |-> posts[i]]]

RoundsLeft == IF pc = "idle" THEN 0 ELSE last + 1 - round

Log == INSTANCE RoundLog WITH
         log <- History, left <- RoundsLeft, Required <- LoadBearing \cap Running,
         MaxLoop <- MaxRounds

ImplementsRoundLog == Log!Spec

(* A size on record is the size of the kernel built in that very round -   *)
(* never of a bzImage an earlier round, or the user, left in the tree.     *)
SizesAreOfTheRound ==
  \A i \in Rounds :
    Saved(i) /\ records[i].size # None
      => posts[i] # None /\ records[i].size = Size[posts[i]]

(* A loop that says it converged has built three kernels in a row, each    *)
(* within one percent of the one before - also when the rounds are of      *)
(* several loops with kills in between.                                    *)
ConvergedIsStable ==
  ended = "stable" =>
    \E i \in Rounds :
      /\ i + 2 = Last
      /\ \A j \in {i, i + 1, i + 2} : posts[j] # None
      /\ \A j \in {i, i + 1} :
           /\ 100 * Size[posts[j + 1]] <= 101 * Size[posts[j]]
           /\ 100 * Size[posts[j + 1]] >= 99 * Size[posts[j]]

(* A loop ends, however its rounds go.                                     *)
LoopEnds == pc # "idle" ~> pc = "idle"

(* measurements.py's "None where the relevant artifact wasn't present      *)
(* (e.g. boot_test_seconds when boot-test wasn't run yet)": a round that   *)
(* records a boot verdict has run a boot test.  It does not hold: README.  *)
VerdictIsOfTheRound ==
  pc = "save" /\ rec.boot # None => tested

(* cli.py's "so this round proposes on top of the prior round's accepted   *)
(* changes": what the fragment of a round does not mention is in its       *)
(* final.config as the last round, unless that one regressed, left it.     *)
(* It does not hold: README.                                               *)
RoundsAccumulate ==
  (/\ pc = "chain"
   /\ Last # 0
   /\ finals[Last] # None
   /\ ~records[Last].regressed)
  => \A s \in Symbols \ (kfrag.on \cup kfrag.off) :
       s \in final <=> s \in finals[Last]

(* boottest.py's "installing a kernel that's been modified since the       *)
(* boot-test is detected": what is installed is what the verdict is about. *)
InstalledWasTested ==
  [][installed' # installed => boot.image = installed']_vars
=============================================================================
