----------------------------- MODULE PatchSets -----------------------------
(***************************************************************************)
(* Carried kernel patches: what `autokernel build --patches` does to a git *)
(* work tree (patches.apply and _process).  The same tree is used by one   *)
(* command after another, by the user in between, and as a killed command  *)
(* left it.                                                                *)
(*                                                                         *)
(* A tree is a release of the kernel and the patches it carries; the       *)
(* patches are what reverse-applying, git am and a person can tell apart.  *)
(* What git does with them is external, and given by three relations:      *)
(* Rewrites[p] are the patches whose lines p changes again, Brushes[p] the *)
(* ones whose context only it changes, and Stuck[p] the releases that have *)
(* moved away from p.                                                      *)
(*                                                                         *)
(* MaxCommands bounds the builds, MaxNames the sets one of them names.     *)
(* The branch of a build is named after the second it starts in; no two    *)
(* builds on one tree are assumed to start in the same second.             *)
(***************************************************************************)
EXTENDS Naturals, Sequences, FiniteSets

CONSTANTS
  Patches, Rewrites, Brushes, Stuck,
  Sets,
  Series,        \* [Sets -> Seq(Patches)]: the file series of each set
  Declares,      \* [Sets -> SUBSET Releases]: min_version .. max_version
  Wants,         \* [Sets -> functions from symbols to values]: [config]
  LastRelease,
  Upstream,      \* [Releases -> SUBSET Patches]: what a release has merged
  Main, Detached,
  MaxCommands, MaxNames

Releases == 1 .. LastRelease

PatchesOf(s) == {Series[s][j] : j \in DOMAIN Series[s]}

ASSUME PatchAssumption ==
  /\ Rewrites \in [Patches -> SUBSET Patches]
  /\ Brushes \in [Patches -> SUBSET Patches]
  /\ Stuck \in [Patches -> SUBSET Releases]

ASSUME SetAssumption ==
  /\ Series \in [Sets -> Seq(Patches) \ {<<>>}]
  /\ Declares \in [Sets -> SUBSET Releases]
  /\ LastRelease \in Nat \ {0}
  /\ Upstream \in [Releases -> SUBSET Patches]

ASSUME NameAssumption ==
  /\ Main \notin Nat /\ Detached \notin Nat /\ Main # Detached
  /\ MaxCommands \in Nat /\ MaxNames \in Nat

VARIABLES
  branches,   \* the branches, with the tree at the tip of each
  head,       \* the branch checked out, or Detached
  tree,       \* the tree HEAD stands at
  dirty,      \* whether tracked files are modified
  left,       \* whether a git am is in progress (.git/rebase-apply)
  cmd,        \* the command that is running
  commands,   \* how many have been started
  start       \* the repository when the command began: a history variable

vars == <<branches, head, tree, dirty, left, cmd, commands, start>>

Trees == [rel : Releases, has : SUBSET Patches]
BranchNames == {Main} \cup (1 .. MaxCommands)

NameLists == UNION {[1 .. n -> Sets] : n \in 1 .. MaxNames}

Outcomes == [set : Sets, patch : Patches, result : {"present", "applied"}]

PC == {"idle", "checkout", "series", "patch", "am", "abort", "restore", "drop",
       "failed", "prepare"}

-----------------------------------------------------------------------------
(* What git says of a patch and a tree. *)

Disturbs(q, p) == p \in Rewrites[q] \cup Brushes[q]

\* git apply --check --reverse: the change is there, and nothing is on top.
Reverses(p, has) == p \in has /\ \A q \in has : ~Disturbs(q, p)

Later(s, j) == {Series[s][n] : n \in {m \in DOMAIN Series[s] : m > j}}

\* _series_present: taken back from the last one to the first.
SeriesPresent(s, has) ==
  \A j \in DOMAIN Series[s] : Reverses(Series[s][j], has \ Later(s, j))

\* git am --3way commits the patch, ...
AmApplies(p, t) ==
  p \notin t.has /\ Rewrites[p] \subseteq t.has /\ t.rel \notin Stuck[p]

\* ... or finds by the three-way merge that there is nothing left to do.
AmFindsItDone(p, t) == p \in t.has /\ \A q \in t.has : p \notin Rewrites[q]

-----------------------------------------------------------------------------
(* What apply looks at before it touches the tree. *)

\* merged_config: no two of the sets want different values of a symbol.
ConfigsAgree(names) ==
  \A a, b \in DOMAIN names :
    \A sym \in DOMAIN Wants[names[a]] \cap DOMAIN Wants[names[b]] :
      Wants[names[a]][sym] = Wants[names[b]][sym]

AppliesTo(s, rel) == rel \in Declares[s]

Idle ==
  [pc |-> "idle", names |-> <<>>, i |-> 1, j |-> 1, whole |-> FALSE,
   base |-> [rel |-> 1, has |-> {}], orig |-> Main, branch |-> Main, outcomes |-> {}]

Init ==
  /\ branches = [b \in {Main} |-> [rel |-> 1, has |-> Upstream[1]]]
  /\ head \in {Main, Detached}
  /\ tree = branches[Main]
  /\ dirty = FALSE /\ left = FALSE
  /\ cmd = Idle
  /\ commands = 0
  /\ start = [branches |-> branches, head |-> head, tree |-> tree]

Quiet == cmd.pc \in {"idle", "failed"}

Repository == <<branches, head, tree>>

\* bug: the patches go on the branch that is checked out
ApplyInPlace(names) ==
  /\ Quiet /\ commands < MaxCommands
  /\ ConfigsAgree(names)
  /\ ~dirty
  /\ \A n \in DOMAIN names : AppliesTo(names[n], tree.rel)
  /\ commands' = commands + 1
  /\ cmd' = [Idle EXCEPT !.pc = "checkout", !.names = names, !.base = tree,
               !.orig = head, !.branch = IF head = Detached THEN commands' ELSE head]
  /\ start' = [branches |-> branches, head |-> head, tree |-> tree]
  /\ UNCHANGED <<Repository, dirty, left>>

\* build --patches: any refusal leaves everything as it is.
Apply(names) ==
  /\ Quiet /\ commands < MaxCommands
  /\ ConfigsAgree(names)
  /\ ~dirty
  /\ \A n \in DOMAIN names : AppliesTo(names[n], tree.rel)
  /\ commands' = commands + 1
  /\ cmd' = [Idle EXCEPT !.pc = "checkout", !.names = names,
                         !.base = tree, !.orig = head, !.branch = commands']
  /\ start' = [branches |-> branches, head |-> head, tree |-> tree]
  /\ UNCHANGED <<Repository, dirty, left>>

-----------------------------------------------------------------------------
(* apply and _process, one git command after another. *)

Grow(b, t) == [x \in DOMAIN branches \cup {b} |-> IF x = b THEN t ELSE branches[x]]

\* git checkout -B branch base
Checkout ==
  /\ cmd.pc = "checkout"
  /\ branches' = Grow(cmd.branch, cmd.base)
  /\ head' = cmd.branch
  /\ tree' = cmd.base
  /\ cmd' = [cmd EXCEPT !.pc = "series"]
  /\ UNCHANGED <<dirty, left, commands, start>>

Set == cmd.names[cmd.i]
Patch == Series[Set][cmd.j]

\* bug: a patch is tested on its own only
EnterSetPatchwise ==
  /\ cmd.pc = "series"
  /\ cmd' = [cmd EXCEPT !.pc = "patch", !.j = 1, !.whole = FALSE]
  /\ UNCHANGED <<Repository, dirty, left, commands, start>>

\* bug: whole_set_present survives from one set to the next
EnterSetSticky ==
  /\ cmd.pc = "series"
  /\ cmd' = [cmd EXCEPT !.pc = "patch", !.j = 1,
                        !.whole = @ \/ SeriesPresent(Set, tree.has)]
  /\ UNCHANGED <<Repository, dirty, left, commands, start>>

EnterSet ==
  /\ cmd.pc = "series"
  /\ cmd' = [cmd EXCEPT !.pc = "patch", !.j = 1,
                        !.whole = Len(Series[Set]) > 1 /\ SeriesPresent(Set, tree.has)]
  /\ UNCHANGED <<Repository, dirty, left, commands, start>>

\* The command once the current patch has come out as r.
Outcome(r) ==
  LET done == [cmd EXCEPT !.outcomes = @ \cup
                 {[set |-> Set, patch |-> Patch, result |-> r]}]
  IN CASE cmd.j < Len(Series[Set]) -> [done EXCEPT !.pc = "patch", !.j = @ + 1]
       [] cmd.j >= Len(Series[Set]) /\ cmd.i < Len(cmd.names) ->
            [done EXCEPT !.pc = "series", !.i = @ + 1]
       [] OTHER -> [done EXCEPT !.pc = "prepare"]

SkipPatch ==
  /\ cmd.pc = "patch"
  /\ cmd.whole \/ Reverses(Patch, tree.has)
  /\ cmd' = Outcome("present")
  /\ UNCHANGED <<Repository, dirty, left, commands, start>>

StartAm ==
  /\ cmd.pc = "patch"
  /\ ~cmd.whole /\ ~Reverses(Patch, tree.has)
  /\ cmd' = [cmd EXCEPT !.pc = "am"]
  /\ UNCHANGED <<Repository, dirty, left, commands, start>>

\* bug: the outcome of a dry run
AmCommitsDry ==
  /\ cmd.pc = "am" /\ ~left
  /\ AmApplies(Patch, tree)
  /\ tree' = [tree EXCEPT !.has = @ \cup {Patch}]
  /\ branches' = [branches EXCEPT ![cmd.branch] = tree']
  /\ cmd' = Outcome("would-apply")
  /\ UNCHANGED <<head, dirty, left, commands, start>>

AmCommits ==
  /\ cmd.pc = "am" /\ ~left
  /\ AmApplies(Patch, tree)
  /\ tree' = [tree EXCEPT !.has = @ \cup {Patch}]
  /\ branches' = [branches EXCEPT ![cmd.branch] = tree']
  /\ cmd' = Outcome("applied")
  /\ UNCHANGED <<head, dirty, left, commands, start>>

AmHasNothingToDo ==
  /\ cmd.pc = "am" /\ ~left
  /\ AmFindsItDone(Patch, tree)
  /\ cmd' = Outcome("applied")
  /\ UNCHANGED <<Repository, dirty, left, commands, start>>

\* A conflict, or an earlier git am that is still in progress.
AmFails ==
  /\ cmd.pc = "am"
  /\ \/ left /\ UNCHANGED <<dirty, left>>
     \/ /\ ~left /\ ~AmApplies(Patch, tree) /\ ~AmFindsItDone(Patch, tree)
        /\ left' = TRUE /\ dirty' \in BOOLEAN
  /\ cmd' = [cmd EXCEPT !.pc = "abort"]
  /\ UNCHANGED <<Repository, commands, start>>

\* bug: the conflict is reported and git am left as it is
AbortAmNot ==
  /\ cmd.pc = "abort"
  /\ cmd' = [cmd EXCEPT !.pc = "restore"]
  /\ UNCHANGED <<Repository, dirty, left, commands, start>>

\* git am --abort
AbortAm ==
  /\ cmd.pc = "abort"
  /\ left' = FALSE /\ dirty' = FALSE
  /\ cmd' = [cmd EXCEPT !.pc = "restore"]
  /\ UNCHANGED <<Repository, commands, start>>

\* git checkout orig_ref
Restore ==
  /\ cmd.pc = "restore"
  /\ head' = cmd.orig
  /\ tree' = IF cmd.orig = Detached THEN cmd.base ELSE branches[cmd.orig]
  /\ cmd' = [cmd EXCEPT !.pc = "drop"]
  /\ UNCHANGED <<branches, dirty, left, commands, start>>

\* git branch -D branch; then PatchError
DropBranch ==
  /\ cmd.pc = "drop"
  /\ branches' = [b \in DOMAIN branches \ {cmd.branch} |-> branches[b]]
  /\ cmd' = [cmd EXCEPT !.pc = "failed"]
  /\ UNCHANGED <<head, tree, dirty, left, commands, start>>

\* The build goes on in the tree as it is now.
Prepare ==
  /\ cmd.pc = "prepare"
  /\ cmd' = Idle
  /\ UNCHANGED <<Repository, dirty, left, commands, start>>

-----------------------------------------------------------------------------
(* A command is killed, git am with it; the user.  The moment in which git *)
(* am has made its commit and not yet removed .git/rebase-apply is left    *)
(* out.                                                                    *)

Kill ==
  /\ ~Quiet
  /\ \/ cmd.pc # "am" /\ UNCHANGED <<dirty, left>>
     \/ /\ cmd.pc = "am"
        /\ left' \in {left, TRUE}
        /\ dirty' \in IF left' /\ ~left THEN BOOLEAN ELSE {dirty}
  /\ cmd' = Idle
  /\ UNCHANGED <<Repository, commands, start>>

\* git am --abort and git reset --hard, by hand
Tidy ==
  /\ Quiet /\ (dirty \/ left)
  /\ dirty' = FALSE /\ left' = FALSE
  /\ cmd' = Idle
  /\ UNCHANGED <<Repository, commands, start>>

Edit ==
  /\ Quiet /\ ~dirty
  /\ dirty' = TRUE
  /\ cmd' = Idle
  /\ UNCHANGED <<Repository, left, commands, start>>

SwitchBack ==
  /\ Quiet /\ ~dirty /\ head # Main
  /\ head' = Main /\ tree' = branches[Main]
  /\ cmd' = Idle
  /\ UNCHANGED <<branches, dirty, left, commands, start>>

\* The next release of the kernel arrives on the main branch.
Pull ==
  /\ Quiet /\ ~dirty /\ head = Main /\ tree.rel < LastRelease
  /\ tree' = [rel |-> tree.rel + 1, has |-> Upstream[tree.rel + 1]]
  /\ branches' = [branches EXCEPT ![Main] = tree']
  /\ cmd' = Idle
  /\ UNCHANGED <<head, dirty, left, commands, start>>

Next ==
  \/ \E names \in NameLists : Apply(names)
  \/ Checkout \/ EnterSet \/ SkipPatch
  \/ StartAm \/ AmCommits \/ AmHasNothingToDo \/ AmFails
  \/ AbortAm \/ Restore \/ DropBranch
  \/ Prepare
  \/ Kill
  \/ Tidy \/ Edit \/ SwitchBack \/ Pull

Spec == Init /\ [][Next]_vars

-----------------------------------------------------------------------------

Commands ==
  [pc : PC, names : Seq(Sets), i : Nat, j : Nat, whole : BOOLEAN, base : Trees,
   orig : BranchNames \cup {Detached}, branch : BranchNames,
   outcomes : SUBSET Outcomes]

TypeOK ==
  /\ DOMAIN branches \subseteq BranchNames
  /\ branches = [b \in DOMAIN branches |-> branches[b]]
  /\ \A b \in DOMAIN branches : branches[b] \in Trees
  /\ head \in BranchNames \cup {Detached}
  /\ tree \in Trees
  /\ dirty \in BOOLEAN /\ left \in BOOLEAN
  /\ cmd \in Commands
  /\ commands \in 0 .. MaxCommands

Applying == cmd.pc \in {"checkout", "series", "patch", "am", "abort", "restore", "drop"}

\* A patch set that does not apply leaves the repository as the command found
\* it: the same branches at the same trees, the same one checked out, nothing
\* modified and no git am in progress - whichever patches were committed
\* before the conflict, and whatever an earlier killed command had left.
FailedApplyRestores ==
  cmd.pc = "failed" =>
    /\ branches = start.branches /\ head = start.head /\ tree = start.tree
    /\ ~dirty /\ ~left

\* "The original commit is untouched": while patches are applied every branch
\* there was before keeps its tip.
OriginalUntouched ==
  Applying =>
    \A b \in DOMAIN start.branches :
      b \in DOMAIN branches /\ branches[b] = start.branches[b]

Requested(names) == UNION {PatchesOf(names[n]) : n \in DOMAIN names}

\* A build goes on to prepare with all the patches of the sets it names, each
\* of them reported, and with no other patch than the tree had before.
AppliedIsCarried ==
  cmd.pc = "prepare" =>
    /\ tree.has = cmd.base.has \cup Requested(cmd.names)
    /\ Requested(cmd.names) = {o.patch : o \in cmd.outcomes}

\* Nothing in the tree lies over a patch of set s but later patches of s.
OnTop(s, has) ==
  \A j \in DOMAIN Series[s] :
    /\ Series[s][j] \in has \ Later(s, j)
    /\ \A q \in has \ Later(s, j) : ~Disturbs(q, Series[s][j])

\* Building again on the branch an earlier build left, or on a release that
\* merged the sets, does not fail, even if the patches of a series change the
\* same lines - as long as nothing outside the series lies over it.
PresentSetsPass ==
  cmd.pc = "failed" =>
    \E n \in DOMAIN cmd.names : ~OnTop(cmd.names[n], cmd.base.has)

\* "A tree that already contains the change doesn't fail the build": stated
\* of all the sets named, in whatever order they lie over one another.  It does
\* not hold: README.
PresentNeverConflicts ==
  cmd.pc = "failed" => ~(Requested(cmd.names) \subseteq cmd.base.has)
=============================================================================
