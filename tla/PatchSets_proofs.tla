-------------------------- MODULE PatchSets_proofs --------------------------
(***************************************************************************)
(* For every collection of patches, sets and releases: a failed apply      *)
(* restores the repository, the branches there were are not touched, a     *)
(* build carries what it names, and sets that are present do not fail.     *)
(***************************************************************************)
EXTENDS PatchSets, TLAPS

(***************************************************************************)
(* The inductive invariant.  RepoInv ties the tree to the branch that is   *)
(* checked out, StartInv the running command to the repository it found,   *)
(* OnBranch says where it is while it works, PlaceInv that the position in *)
(* the sets is one, DoneInv what has been carried up to that position, and *)
(* CalmInv that sets with nothing on top of them never reach git am.       *)
(***************************************************************************)
RepoInv ==
  /\ Main \in DOMAIN branches
  /\ DOMAIN branches \subseteq {Main} \cup (1 .. commands)
  /\ head # Detached => head \in DOMAIN branches /\ tree = branches[head]

WithNames == cmd.names # <<>>

StartInv ==
  WithNames =>
    /\ commands \in Nat \ {0}
    /\ cmd.branch = commands
    /\ cmd.branch \notin DOMAIN start.branches
    /\ start.branches = [b \in DOMAIN start.branches |-> start.branches[b]]
    /\ cmd.orig = start.head /\ cmd.base = start.tree
    /\ start.head # Detached =>
         start.head \in DOMAIN start.branches /\ start.tree = start.branches[start.head]

Branched ==
  /\ DOMAIN branches = DOMAIN start.branches \cup {cmd.branch}
  /\ \A b \in DOMAIN start.branches : branches[b] = start.branches[b]

AsFound == branches = start.branches /\ head = start.head /\ tree = start.tree

OnBranch ==
  /\ cmd.pc = "idle" => ~WithNames
  /\ Applying \/ cmd.pc = "prepare" => WithNames
  /\ cmd.pc = "failed" => WithNames /\ AsFound /\ ~dirty /\ ~left
  /\ cmd.pc = "checkout" => AsFound
  /\ cmd.pc \in {"series", "patch", "am", "abort", "restore", "prepare"} =>
       Branched /\ head = cmd.branch
  /\ cmd.pc = "restore" => ~dirty /\ ~left
  /\ cmd.pc = "drop" =>
       Branched /\ head = start.head /\ tree = start.tree /\ ~dirty /\ ~left

PlaceInv ==
  /\ cmd.pc = "checkout" => cmd.i = 1 /\ cmd.outcomes = {}
  /\ cmd.pc \in {"checkout", "series", "patch", "am"} => cmd.i \in DOMAIN cmd.names
  /\ cmd.pc \in {"patch", "am"} => cmd.j \in DOMAIN Series[Set]

Behind == UNION {PatchesOf(cmd.names[n]) : n \in {m \in DOMAIN cmd.names : m < cmd.i}}
Before == {Series[Set][n] : n \in {m \in DOMAIN Series[Set] : m < cmd.j}}

Carried(ps) ==
  /\ tree.has = cmd.base.has \cup ps
  /\ {o.patch : o \in cmd.outcomes} = ps

DoneInv ==
  /\ cmd.pc = "series" => Carried(Behind)
  /\ cmd.pc \in {"patch", "am"} => Carried(Behind \cup Before)
  /\ cmd.pc \in {"patch", "am"} /\ cmd.whole => PatchesOf(Set) \subseteq tree.has
  /\ cmd.pc = "prepare" => Carried(Requested(cmd.names))

Calm == \A n \in DOMAIN cmd.names : OnTop(cmd.names[n], cmd.base.has)

CalmInv ==
  Calm /\ WithNames =>
    /\ cmd.pc \notin {"am", "abort", "restore", "drop", "failed"}
    /\ cmd.pc \in {"series", "patch"} => tree.has = cmd.base.has
    /\ cmd.pc = "patch" =>
         cmd.whole \/ (Len(Series[Set]) = 1 /\ Reverses(Patch, tree.has))

IInv ==
  /\ TypeOK /\ RepoInv /\ StartInv /\ OnBranch /\ PlaceInv /\ DoneInv /\ CalmInv

USE DEF BranchNames

LEMMA NamesAreSeq ==
  ASSUME NEW names \in NameLists
  PROVE  names \in Seq(Sets) /\ names # <<>> /\ 1 \in DOMAIN names
<1>1. PICK n \in 1 .. MaxNames : names \in [1 .. n -> Sets]
  BY DEF NameLists
<1>2. n \in Nat /\ n >= 1 /\ DOMAIN names = 1 .. n
  BY <1>1, NameAssumption
<1>3. names \in Seq(Sets) /\ Len(names) = n
  BY <1>1, <1>2
<1> QED
  BY <1>2, <1>3

\* The series of a set is a non-empty sequence of patches.
LEMMA SeriesIsSeq ==
  ASSUME NEW s \in Sets
  PROVE  /\ Series[s] \in Seq(Patches) /\ Len(Series[s]) \in Nat \ {0}
         /\ DOMAIN Series[s] = 1 .. Len(Series[s])
         /\ \A j \in DOMAIN Series[s] : Series[s][j] \in Patches
<1>1. Series[s] \in Seq(Patches) /\ Series[s] # <<>>
  BY SetAssumption
<1> QED
  BY <1>1

\* While the position is one of the sets, the set and the patch are known.
LEMMA AtPosition ==
  ASSUME TypeOK, PlaceInv, cmd.pc \in {"series", "patch", "am"}
  PROVE  /\ cmd.names \in Seq(Sets) /\ cmd.i \in 1 .. Len(cmd.names)
         /\ DOMAIN cmd.names = 1 .. Len(cmd.names)
         /\ Len(cmd.names) \in Nat
         /\ Set \in Sets
         /\ cmd.pc # "series" => cmd.j \in 1 .. Len(Series[Set]) /\ Patch \in Patches
<1>1. cmd.names \in Seq(Sets)
  BY DEF TypeOK, Commands
<1>2. cmd.i \in 1 .. Len(cmd.names) /\ DOMAIN cmd.names = 1 .. Len(cmd.names)
      /\ Len(cmd.names) \in Nat
  BY <1>1 DEF PlaceInv
<1>3. Set \in Sets
  BY <1>1, <1>2 DEF Set
<1>4. CASE cmd.pc = "series"
  BY <1>1, <1>2, <1>3, <1>4
<1>5. CASE cmd.pc # "series"
  <2>1. cmd.j \in DOMAIN Series[Set]
    BY <1>5 DEF PlaceInv
  <2> QED
    BY <2>1, <1>1, <1>2, <1>3, SeriesIsSeq DEF Patch
<1> QED
  BY <1>4, <1>5

LEMMA InitInv == Init => IInv
<1> SUFFICES ASSUME Init PROVE IInv
  OBVIOUS
<1>1. Upstream[1] \in SUBSET Patches /\ 1 \in Releases
  BY SetAssumption DEF Releases
<1>2. branches = [b \in {Main} |-> [rel |-> 1, has |-> Upstream[1]]]
  BY DEF Init
<1>3. DOMAIN branches = {Main} /\ branches[Main] = [rel |-> 1, has |-> Upstream[1]]
  BY <1>2
<1>4. branches[Main] \in Trees
  BY <1>1, <1>3 DEF Trees
<1>5. cmd = Idle /\ Idle \in Commands
  BY <1>1, NameAssumption DEF Init, Idle, Commands, PC, Trees
<1>6. TypeOK
  <2>1. branches = [b \in DOMAIN branches |-> branches[b]]
    BY <1>2, <1>3
  <2>2. \A b \in DOMAIN branches : branches[b] \in Trees
    BY <1>3, <1>4
  <2>3. /\ head \in {Main, Detached} /\ tree = branches[Main]
        /\ dirty = FALSE /\ left = FALSE /\ commands = 0
    BY DEF Init
  <2>4. commands \in 0 .. MaxCommands
    BY <2>3, NameAssumption
  <2>5. head \in BranchNames \cup {Detached} /\ DOMAIN branches \subseteq BranchNames
    BY <2>3, <1>3
  <2>6. tree \in Trees /\ cmd \in Commands
    BY <2>3, <1>4, <1>5
  <2> HIDE DEF BranchNames
  <2> QED
    BY <2>1, <2>2, <2>3, <2>4, <2>5, <2>6 DEF TypeOK
<1>7. RepoInv
  BY <1>3, NameAssumption DEF Init, RepoInv
<1>8. cmd.pc = "idle" /\ ~WithNames
  BY <1>5 DEF Idle, WithNames
<1>9. StartInv /\ OnBranch /\ PlaceInv /\ DoneInv /\ CalmInv
  BY <1>8 DEF StartInv, OnBranch, PlaceInv, DoneInv, CalmInv, Applying
<1> QED
  BY <1>6, <1>7, <1>9 DEF IInv

\* What the command is after a patch: at the next patch of the set, at the
\* next set, or through.
LEMMA OutcomeMoves ==
  ASSUME TypeOK, PlaceInv, cmd.pc \in {"patch", "am"},
         NEW r \in {"present", "applied"}, cmd' = Outcome(r)
  PROVE  /\ cmd' \in Commands
         /\ cmd'.names = cmd.names /\ cmd'.whole = cmd.whole /\ cmd'.base = cmd.base
         /\ cmd'.orig = cmd.orig /\ cmd'.branch = cmd.branch
         /\ cmd'.outcomes =
              cmd.outcomes \cup {[set |-> Set, patch |-> Patch, result |-> r]}
         /\ \/ /\ cmd'.pc = "patch" /\ cmd'.i = cmd.i /\ cmd'.j = cmd.j + 1
               /\ cmd.j < Len(Series[Set])
            \/ /\ cmd'.pc = "series" /\ cmd'.i = cmd.i + 1
               /\ cmd.i < Len(cmd.names) /\ cmd.j = Len(Series[Set])
            \/ /\ cmd'.pc = "prepare"
               /\ cmd.i = Len(cmd.names) /\ cmd.j = Len(Series[Set])
<1> DEFINE o == [set |-> Set, patch |-> Patch, result |-> r]
           done == [cmd EXCEPT !.outcomes = @ \cup {o}]
<1>1. /\ cmd.i \in 1 .. Len(cmd.names) /\ Len(cmd.names) \in Nat
      /\ Set \in Sets /\ cmd.j \in 1 .. Len(Series[Set]) /\ Patch \in Patches
      /\ Len(Series[Set]) \in Nat
  BY AtPosition, SeriesIsSeq
<1>2. o \in Outcomes
  BY <1>1 DEF Outcomes
<1>3. cmd \in Commands
  BY DEF TypeOK
<1>4. done \in Commands /\ done.outcomes = cmd.outcomes \cup {o}
      /\ done.names = cmd.names /\ done.whole = cmd.whole /\ done.base = cmd.base
      /\ done.orig = cmd.orig /\ done.branch = cmd.branch
      /\ done.i = cmd.i /\ done.j = cmd.j
  BY <1>2, <1>3 DEF Commands
<1>5. cmd' = CASE cmd.j < Len(Series[Set]) -> [done EXCEPT !.pc = "patch", !.j = @ + 1]
               [] cmd.j >= Len(Series[Set]) /\ cmd.i < Len(cmd.names) ->
                    [done EXCEPT !.pc = "series", !.i = @ + 1]
               [] OTHER -> [done EXCEPT !.pc = "prepare"]
  BY DEF Outcome
<1> HIDE DEF done, o
<1>6. CASE cmd.j < Len(Series[Set])
  <2>1. cmd' = [done EXCEPT !.pc = "patch", !.j = @ + 1]
    BY <1>1, <1>5, <1>6
  <2>2. done.j + 1 \in Nat
    BY <1>1, <1>4
  <2> QED
    BY <2>1, <2>2, <1>4, <1>6 DEF Commands, PC, o
<1>7. CASE cmd.j >= Len(Series[Set]) /\ cmd.i < Len(cmd.names)
  <2>1. cmd' = [done EXCEPT !.pc = "series", !.i = @ + 1]
    BY <1>1, <1>5, <1>7
  <2>2. done.i + 1 \in Nat /\ cmd.j = Len(Series[Set])
    BY <1>1, <1>4, <1>7
  <2> QED
    BY <2>1, <2>2, <1>4, <1>7 DEF Commands, PC, o
<1>8. CASE ~(cmd.j < Len(Series[Set])) /\ ~(cmd.i < Len(cmd.names))
  <2>1. cmd' = [done EXCEPT !.pc = "prepare"]
    BY <1>1, <1>5, <1>8
  <2>2. cmd.i = Len(cmd.names) /\ cmd.j = Len(Series[Set])
    BY <1>1, <1>8
  <2> QED
    BY <2>1, <2>2, <1>4 DEF Commands, PC, o
<1> QED
  BY <1>1, <1>6, <1>7, <1>8

LEMMA IdleIsCommand == Idle \in Commands /\ Idle.pc = "idle" /\ Idle.names = <<>>
BY SetAssumption, NameAssumption DEF Idle, Commands, PC, Trees, Releases

LEMMA NextType ==
  ASSUME IInv, Next
  PROVE  TypeOK'
<1> USE DEF IInv
<1>0. /\ cmd \in Commands /\ tree \in Trees /\ commands \in 0 .. MaxCommands
      /\ head \in BranchNames \cup {Detached} /\ MaxCommands \in Nat
  BY NameAssumption DEF TypeOK
<1>1. ASSUME NEW names \in NameLists, Apply(names) PROVE TypeOK'
  <2>1. commands' \in 1 .. MaxCommands
    BY <1>0, <1>1 DEF Apply
  <2>2. cmd' \in Commands
    BY <2>1, <1>0, <1>1, NamesAreSeq, IdleIsCommand DEF Apply, Commands, PC
  <2> QED
    BY <2>1, <2>2, <1>1 DEF Apply, TypeOK, Repository
<1>3. CASE Checkout
  <2>1. cmd' \in Commands /\ cmd.base \in Trees /\ cmd.branch \in BranchNames
    BY <1>0, <1>3 DEF Checkout, Commands, PC
  <2> QED
    BY <2>1, <1>3 DEF Checkout, TypeOK, Grow
<1>4. CASE EnterSet
  <2>1. cmd' \in Commands
    BY <1>0, <1>4 DEF EnterSet, Commands, PC
  <2> QED
    BY <2>1, <1>4 DEF EnterSet, TypeOK, Repository
<1>5. CASE SkipPatch
  BY <1>5, OutcomeMoves DEF SkipPatch, TypeOK, Repository
<1>6. CASE StartAm
  <2>1. cmd' \in Commands
    BY <1>0, <1>6 DEF StartAm, Commands, PC
  <2> QED
    BY <2>1, <1>6 DEF StartAm, TypeOK, Repository
<1>7. CASE AmCommits
  <2>1. Patch \in Patches
    BY <1>7, AtPosition DEF AmCommits
  <2>2. tree' \in Trees
    BY <2>1, <1>0, <1>7 DEF AmCommits, Trees
  <2> QED
    BY <2>2, <1>7, OutcomeMoves DEF AmCommits, TypeOK
<1>8. CASE AmHasNothingToDo
  BY <1>8, OutcomeMoves DEF AmHasNothingToDo, TypeOK, Repository
<1>9. CASE AmFails
  <2>1. cmd' \in Commands
    BY <1>0, <1>9 DEF AmFails, Commands, PC
  <2> QED
    BY <2>1, <1>9 DEF AmFails, TypeOK, Repository
<1>10. CASE AbortAm
  <2>1. cmd' \in Commands
    BY <1>0, <1>10 DEF AbortAm, Commands, PC
  <2> QED
    BY <2>1, <1>10 DEF AbortAm, TypeOK, Repository
<1>11. CASE Restore
  <2>1. cmd' \in Commands /\ cmd.base \in Trees /\ cmd.orig \in BranchNames \cup {Detached}
    BY <1>0, <1>11 DEF Restore, Commands, PC
  <2>2. cmd.orig # Detached => cmd.orig \in DOMAIN branches
    BY <1>11 DEF Restore, OnBranch, Applying, StartInv, Branched
  <2>3. tree' \in Trees
    BY <2>1, <2>2, <1>11 DEF Restore, TypeOK
  <2> QED
    BY <2>1, <2>3, <1>11 DEF Restore, TypeOK
<1>12. CASE DropBranch
  <2>1. cmd' \in Commands
    BY <1>0, <1>12 DEF DropBranch, Commands, PC
  <2> QED
    BY <2>1, <1>12 DEF DropBranch, TypeOK
<1>13. CASE Prepare
  BY <1>13, IdleIsCommand DEF Prepare, TypeOK, Repository
<1>14. CASE Kill
  BY <1>14, IdleIsCommand DEF Kill, TypeOK, Repository
<1>15. CASE Tidy
  BY <1>15, IdleIsCommand DEF Tidy, TypeOK, Repository
<1>16. CASE Edit
  BY <1>16, IdleIsCommand DEF Edit, TypeOK, Repository
<1>17. CASE SwitchBack
  BY <1>17, IdleIsCommand DEF SwitchBack, TypeOK, RepoInv
<1>18. CASE Pull
  <2>1. tree' \in Trees
    <3>1. tree.rel + 1 \in Releases
      BY <1>0, <1>18, SetAssumption DEF Pull, Trees, Releases
    <3> QED
      BY <3>1, <1>18, SetAssumption DEF Pull, Trees
  <2> QED
    BY <2>1, <1>18, IdleIsCommand DEF Pull, TypeOK, RepoInv
<1> QED
  BY <1>1, <1>3, <1>4, <1>5, <1>6, <1>7, <1>8, <1>9, <1>10, <1>11, <1>12,
     <1>13, <1>14, <1>15, <1>16, <1>17, <1>18 DEF Next

LEMMA NextRepo ==
  ASSUME IInv, Next
  PROVE  RepoInv'
<1> USE DEF IInv
<1>0. commands \in Nat /\ Main \notin Nat /\ Main # Detached /\ Detached \notin Nat
  BY NameAssumption DEF TypeOK
<1>1. ASSUME NEW names \in NameLists, Apply(names) PROVE RepoInv'
  BY <1>0, <1>1 DEF Apply, RepoInv, Repository
<1>3. CASE Checkout
  <2>1. commands \in Nat \ {0} /\ cmd.branch = commands
    BY <1>3 DEF Checkout, OnBranch, Applying, StartInv
  <2>2. /\ DOMAIN branches' = DOMAIN branches \cup {cmd.branch}
        /\ branches'[cmd.branch] = cmd.base
    BY <1>3 DEF Checkout, Grow
  <2> QED
    BY <2>1, <2>2, <1>0, <1>3 DEF Checkout, RepoInv
<1>4. CASE AmCommits
  <2>1. head = cmd.branch /\ cmd.branch = commands
    BY <1>4 DEF AmCommits, OnBranch, Applying, StartInv
  <2>2. head # Detached /\ head \in DOMAIN branches
    BY <2>1, <1>0 DEF RepoInv
  <2>3. DOMAIN branches' = DOMAIN branches /\ branches'[head] = tree'
    BY <2>1, <2>2, <1>4 DEF AmCommits
  <2> QED
    BY <2>3, <2>2, <1>4 DEF AmCommits, RepoInv
<1>5. CASE Restore
  <2>1. cmd.orig # Detached => cmd.orig \in DOMAIN branches
    BY <1>5 DEF Restore, OnBranch, Applying, StartInv, Branched
  <2> QED
    BY <2>1, <1>5 DEF Restore, RepoInv
<1>6. CASE DropBranch
  <2>1. /\ cmd.branch = commands /\ cmd.branch \notin DOMAIN start.branches
        /\ head = start.head
        /\ start.head # Detached => start.head \in DOMAIN start.branches
    BY <1>6 DEF DropBranch, OnBranch, Applying, StartInv
  <2>2. /\ DOMAIN branches' = DOMAIN branches \ {cmd.branch}
        /\ \A b \in DOMAIN branches' : branches'[b] = branches[b]
    BY <1>6 DEF DropBranch
  <2> QED
    BY <2>1, <2>2, <1>0, <1>6 DEF DropBranch, RepoInv
<1>7. CASE SwitchBack
  BY <1>7 DEF SwitchBack, RepoInv
<1>8. CASE Pull
  BY <1>8 DEF Pull, RepoInv
<1>9. CASE EnterSet \/ SkipPatch \/ StartAm \/ AmHasNothingToDo \/ AmFails \/ AbortAm
           \/ Prepare \/ Kill \/ Tidy \/ Edit
  BY <1>9 DEF EnterSet, SkipPatch, StartAm, AmHasNothingToDo, AmFails, AbortAm,
              Prepare, Kill, Tidy, Edit, RepoInv, Repository
<1> QED
  BY <1>1, <1>3, <1>4, <1>5, <1>6, <1>7, <1>8, <1>9 DEF Next

\* Between commands there is nothing to keep.
LEMMA Unnamed ==
  ASSUME cmd'.names = <<>>, cmd'.pc = "idle"
  PROVE  StartInv' /\ OnBranch' /\ PlaceInv' /\ DoneInv' /\ CalmInv'
BY DEF StartInv, OnBranch, PlaceInv, DoneInv, CalmInv, WithNames, Applying

LEMMA Ending ==
  ASSUME Prepare \/ Kill \/ Tidy \/ Edit \/ SwitchBack \/ Pull
  PROVE  StartInv' /\ OnBranch' /\ PlaceInv' /\ DoneInv' /\ CalmInv'
<1>1. cmd' = Idle
  BY DEF Prepare, Kill, Tidy, Edit, SwitchBack, Pull
<1>2. cmd'.names = <<>> /\ cmd'.pc = "idle"
  BY <1>1 DEF Idle
<1> QED
  BY <1>2, Unnamed

\* The steps of a command that keep what it remembers of its beginning.
Working ==
  \/ Checkout \/ EnterSet \/ SkipPatch \/ StartAm \/ AmCommits \/ AmHasNothingToDo
  \/ AmFails \/ AbortAm \/ Restore \/ DropBranch

LEMMA WorkingKeeps ==
  ASSUME IInv, Working
  PROVE  /\ cmd'.names = cmd.names /\ cmd'.branch = cmd.branch
         /\ cmd'.orig = cmd.orig /\ cmd'.base = cmd.base
         /\ start' = start /\ commands' = commands
         /\ WithNames /\ WithNames'
<1>1. cmd \in Commands /\ WithNames
  BY DEF IInv, TypeOK, OnBranch, Applying, Working, Checkout, EnterSet, SkipPatch,
         StartAm, AmCommits, AmHasNothingToDo, AmFails, AbortAm, Restore, DropBranch
<1>2. start' = start /\ commands' = commands
  BY DEF Working, Checkout, EnterSet, SkipPatch, StartAm, AmCommits,
         AmHasNothingToDo, AmFails, AbortAm, Restore, DropBranch
<1>3. /\ cmd'.names = cmd.names /\ cmd'.branch = cmd.branch
      /\ cmd'.orig = cmd.orig /\ cmd'.base = cmd.base
  <2>1. CASE SkipPatch \/ AmCommits \/ AmHasNothingToDo
    BY <2>1, OutcomeMoves DEF IInv, SkipPatch, AmCommits, AmHasNothingToDo
  <2>2. CASE Checkout \/ EnterSet \/ StartAm \/ AmFails \/ AbortAm \/ Restore \/ DropBranch
    BY <2>2, <1>1 DEF Commands, Checkout, EnterSet, StartAm, AmFails, AbortAm,
                      Restore, DropBranch
  <2> QED
    BY <2>1, <2>2 DEF Working
<1> QED
  BY <1>1, <1>2, <1>3 DEF WithNames

LEMMA ApplyStarts ==
  ASSUME IInv, NEW names \in NameLists, Apply(names)
  PROVE  /\ cmd'.pc = "checkout" /\ cmd'.names = names /\ cmd'.i = 1
         /\ cmd'.outcomes = {} /\ cmd'.base = tree /\ cmd'.orig = head
         /\ cmd'.branch = commands + 1 /\ commands' = commands + 1
         /\ commands \in Nat
         /\ start' = [branches |-> branches, head |-> head, tree |-> tree]
         /\ names \in Seq(Sets) /\ names # <<>> /\ 1 \in DOMAIN names
         /\ branches' = branches /\ head' = head /\ tree' = tree
<1>1. commands \in Nat
  BY NameAssumption DEF IInv, TypeOK
<1> QED
  BY <1>1, NamesAreSeq DEF Apply, Idle, Repository

LEMMA NextStart ==
  ASSUME IInv, Next
  PROVE  StartInv'
<1> USE DEF IInv
<1>1. ASSUME NEW names \in NameLists, Apply(names) PROVE StartInv'
  <2>1. commands + 1 \notin DOMAIN branches
    <3>1. commands + 1 \in Nat /\ commands + 1 \notin 1 .. commands /\ commands + 1 # Main
      BY <1>1, ApplyStarts, NameAssumption
    <3> QED
      BY <3>1 DEF RepoInv
  <2>2. branches = [b \in DOMAIN branches |-> branches[b]]
    BY DEF TypeOK
  <2>3. commands + 1 \in Nat \ {0}
    BY <1>1, ApplyStarts
  <2> QED
    BY <2>1, <2>2, <2>3, <1>1, ApplyStarts DEF StartInv, RepoInv
<1>2. CASE Working
  BY <1>2, WorkingKeeps DEF StartInv
<1> QED
  BY <1>1, <1>2, Ending DEF Next, Working

LEMMA NextOnBranch ==
  ASSUME IInv, Next
  PROVE  OnBranch'
<1> USE DEF IInv
<1>1. ASSUME NEW names \in NameLists, Apply(names) PROVE OnBranch'
  BY <1>1, ApplyStarts DEF OnBranch, WithNames, Applying, AsFound
<1>2. CASE Working
  <2>0. /\ cmd'.names = cmd.names /\ cmd'.branch = cmd.branch
        /\ start' = start /\ WithNames /\ WithNames' /\ cmd \in Commands
    BY <1>2, WorkingKeeps DEF TypeOK
  <2>1. CASE Checkout
    <3>1. /\ branches = start.branches /\ head' = cmd.branch /\ cmd'.pc = "series"
      BY <2>0, <2>1 DEF Checkout, OnBranch, AsFound, Commands
    <3>2. cmd.branch \notin DOMAIN start.branches
      BY <2>0 DEF StartInv
    <3>3. Branched'
      BY <2>0, <2>1, <3>1, <3>2 DEF Checkout, Grow, Branched
    <3> QED
      BY <2>0, <3>1, <3>3 DEF OnBranch, Applying
  <2>2. CASE AmCommits
    <3>1. Branched /\ head' = cmd.branch
      BY <2>0, <2>2 DEF AmCommits, OnBranch
    <3>2. cmd.branch \notin DOMAIN start.branches
      BY <2>0 DEF StartInv
    <3>3. Branched'
      BY <2>0, <2>2, <3>1, <3>2 DEF AmCommits, Branched
    <3>4. cmd'.pc \in {"patch", "series", "prepare"}
      BY <2>2, OutcomeMoves DEF AmCommits
    <3> QED
      BY <2>0, <3>1, <3>3, <3>4 DEF OnBranch, Applying
  <2>3. CASE SkipPatch \/ AmHasNothingToDo
    <3>1. cmd'.pc \in {"patch", "series", "prepare"}
      BY <2>3, OutcomeMoves DEF SkipPatch, AmHasNothingToDo
    <3>2. Branched /\ head = cmd.branch
      BY <2>0, <2>3 DEF SkipPatch, AmHasNothingToDo, OnBranch
    <3>3. branches' = branches /\ head' = head
      BY <2>3 DEF SkipPatch, AmHasNothingToDo, Repository
    <3> QED
      BY <2>0, <3>1, <3>2, <3>3 DEF OnBranch, Applying, Branched
  <2>4. CASE EnterSet \/ StartAm \/ AmFails
    <3>1. cmd'.pc \in {"patch", "am", "abort"}
      BY <2>0, <2>4 DEF EnterSet, StartAm, AmFails, Commands
    <3>2. Branched /\ head = cmd.branch
      BY <2>0, <2>4 DEF EnterSet, StartAm, AmFails, OnBranch
    <3>3. branches' = branches /\ head' = head
      BY <2>4 DEF EnterSet, StartAm, AmFails, Repository
    <3> QED
      BY <2>0, <3>1, <3>2, <3>3 DEF OnBranch, Applying, Branched
  <2>5. CASE AbortAm
    <3>1. cmd'.pc = "restore"
      BY <2>0, <2>5 DEF AbortAm, Commands
    <3>2. Branched /\ head = cmd.branch
      BY <2>0, <2>5 DEF AbortAm, OnBranch
    <3> QED
      BY <2>0, <2>5, <3>1, <3>2 DEF AbortAm, Repository, OnBranch, Applying, Branched
  <2>6. CASE Restore
    <3>1. cmd'.pc = "drop"
      BY <2>0, <2>6 DEF Restore, Commands
    <3>2. Branched /\ ~dirty /\ ~left
      BY <2>0, <2>6 DEF Restore, OnBranch
    <3>3. head' = start.head /\ tree' = start.tree
      BY <2>0, <2>6, <3>2 DEF Restore, StartInv, Branched
    <3> QED
      BY <2>0, <2>6, <3>1, <3>2, <3>3 DEF Restore, OnBranch, Applying, Branched
  <2>7. CASE DropBranch
    <3>1. cmd'.pc = "failed"
      BY <2>0, <2>7 DEF DropBranch, Commands
    <3>2. Branched /\ head = start.head /\ tree = start.tree /\ ~dirty /\ ~left
      BY <2>0, <2>7 DEF DropBranch, OnBranch
    <3>3. /\ cmd.branch \notin DOMAIN start.branches
          /\ start.branches = [b \in DOMAIN start.branches |-> start.branches[b]]
      BY <2>0 DEF StartInv
    <3>4. /\ DOMAIN branches \ {cmd.branch} = DOMAIN start.branches
          /\ branches' = [b \in DOMAIN branches \ {cmd.branch} |-> branches[b]]
      BY <2>7, <3>2, <3>3 DEF DropBranch, Branched
    <3>5. branches' = [b \in DOMAIN start.branches |-> branches[b]]
      BY <3>4
    <3>6. branches' = start.branches
      BY <3>2, <3>3, <3>5 DEF Branched
    <3> QED
      BY <2>0, <2>7, <3>1, <3>2, <3>6 DEF DropBranch, OnBranch, Applying, AsFound
  <2> QED
    BY <1>2, <2>1, <2>2, <2>3, <2>4, <2>5, <2>6, <2>7 DEF Working
<1> QED
  BY <1>1, <1>2, Ending DEF Next, Working

LEMMA NextPlace ==
  ASSUME IInv, Next
  PROVE  PlaceInv'
<1> USE DEF IInv
<1>1. ASSUME NEW names \in NameLists, Apply(names) PROVE PlaceInv'
  BY <1>1, ApplyStarts DEF PlaceInv
<1>2. CASE Checkout
  BY <1>2 DEF Checkout, PlaceInv, TypeOK, Commands
<1>3. CASE EnterSet
  <2>1. /\ cmd'.pc = "patch" /\ cmd'.j = 1 /\ cmd'.i = cmd.i
        /\ cmd'.names = cmd.names
    BY <1>3 DEF EnterSet, TypeOK, Commands
  <2>2. Set' = Set /\ Set \in Sets /\ cmd.i \in DOMAIN cmd.names
    BY <2>1, <1>3, AtPosition DEF EnterSet, Set
  <2> QED
    BY <2>1, <2>2, SeriesIsSeq DEF PlaceInv
<1>4. CASE SkipPatch \/ AmCommits \/ AmHasNothingToDo
  <2>1. PICK r \in {"present", "applied"} : cmd' = Outcome(r)
    BY <1>4 DEF SkipPatch, AmCommits, AmHasNothingToDo
  <2>2. cmd.pc \in {"patch", "am"}
    BY <1>4 DEF SkipPatch, AmCommits, AmHasNothingToDo
  <2>3. /\ cmd.i \in 1 .. Len(cmd.names) /\ Len(cmd.names) \in Nat
        /\ DOMAIN cmd.names = 1 .. Len(cmd.names)
        /\ Set \in Sets /\ cmd.j \in 1 .. Len(Series[Set])
    BY <2>2, AtPosition
  <2>4. DOMAIN Series[Set] = 1 .. Len(Series[Set]) /\ Len(Series[Set]) \in Nat
    BY <2>3, SeriesIsSeq
  <2>5. CASE cmd'.pc = "patch"
    <3>1. /\ cmd'.i = cmd.i /\ cmd'.j = cmd.j + 1 /\ cmd.j < Len(Series[Set])
          /\ cmd'.names = cmd.names
      BY <2>1, <2>2, <2>5, OutcomeMoves
    <3>2. Set' = Set
      BY <3>1 DEF Set
    <3>3. cmd.j + 1 \in DOMAIN Series[Set]
      BY <2>3, <2>4, <3>1
    <3> QED
      BY <2>3, <2>5, <3>1, <3>2, <3>3 DEF PlaceInv
  <2>6. CASE cmd'.pc = "series"
    <3>1. cmd'.i = cmd.i + 1 /\ cmd.i < Len(cmd.names) /\ cmd'.names = cmd.names
      BY <2>1, <2>2, <2>6, OutcomeMoves
    <3>2. cmd.i + 1 \in DOMAIN cmd.names
      BY <2>3, <3>1
    <3> QED
      BY <2>6, <3>1, <3>2 DEF PlaceInv
  <2>7. CASE cmd'.pc = "prepare"
    BY <2>7 DEF PlaceInv
  <2> QED
    BY <2>1, <2>2, <2>5, <2>6, <2>7, OutcomeMoves
<1>5. CASE StartAm
  BY <1>5 DEF StartAm, PlaceInv, TypeOK, Commands, Set
<1>6. CASE AmFails \/ AbortAm \/ Restore \/ DropBranch
  <2>1. cmd'.pc \in {"abort", "restore", "drop", "failed"}
    BY <1>6 DEF AmFails, AbortAm, Restore, DropBranch, TypeOK, Commands
  <2> QED
    BY <2>1 DEF PlaceInv
<1> QED
  BY <1>1, <1>2, <1>3, <1>4, <1>5, <1>6, Ending DEF Next

LEMMA SeriesPresentIsThere ==
  ASSUME NEW s \in Sets, NEW has, SeriesPresent(s, has)
  PROVE  PatchesOf(s) \subseteq has
BY DEF SeriesPresent, Reverses, PatchesOf

\* A set with nothing on top of it passes one of the two tests of _process.
LEMMA OnTopIsPresent ==
  ASSUME NEW s \in Sets, NEW has, OnTop(s, has)
  PROVE  SeriesPresent(s, has) /\ (Len(Series[s]) = 1 => Reverses(Series[s][1], has))
<1>1. SeriesPresent(s, has)
  BY DEF OnTop, SeriesPresent, Reverses
<1>2. ASSUME Len(Series[s]) = 1 PROVE Reverses(Series[s][1], has)
  <2>1. DOMAIN Series[s] = {1}
    BY <1>2, SeriesIsSeq
  <2>2. Later(s, 1) = {}
    BY <2>1 DEF Later
  <2> QED
    BY <2>1, <2>2 DEF OnTop, Reverses
<1> QED
  BY <1>1, <1>2

\* Whatever became of the patch, the tree carries it then and it is listed.
LEMMA PatchIsCarried ==
  ASSUME IInv, SkipPatch \/ AmCommits \/ AmHasNothingToDo
  PROVE  /\ tree'.has = tree.has \cup {Patch}
         /\ {o.patch : o \in cmd'.outcomes} = {o.patch : o \in cmd.outcomes} \cup {Patch}
         /\ Carried(Behind \cup Before)
<1> USE DEF IInv
<1>1. cmd.pc \in {"patch", "am"}
  BY DEF SkipPatch, AmCommits, AmHasNothingToDo
<1>2. Set \in Sets /\ cmd.j \in DOMAIN Series[Set] /\ Patch \in PatchesOf(Set)
  BY <1>1, AtPosition, SeriesIsSeq DEF PlaceInv, Patch, PatchesOf
<1>3. tree'.has = tree.has \cup {Patch}
  <2>1. CASE SkipPatch
    <3>1. Patch \in tree.has
      BY <2>1, <1>2 DEF SkipPatch, DoneInv, Reverses
    <3> QED
      BY <2>1, <3>1 DEF SkipPatch, Repository
  <2>2. CASE AmCommits
    BY <2>2 DEF AmCommits, TypeOK, Trees
  <2>3. CASE AmHasNothingToDo
    BY <2>3 DEF AmHasNothingToDo, AmFindsItDone, Repository
  <2> QED
    BY <2>1, <2>2, <2>3
<1>4. PICK r \in {"present", "applied"} : cmd' = Outcome(r)
  BY DEF SkipPatch, AmCommits, AmHasNothingToDo
<1>5. cmd'.outcomes = cmd.outcomes \cup {[set |-> Set, patch |-> Patch, result |-> r]}
  BY <1>1, <1>4, OutcomeMoves
<1>6. {o.patch : o \in cmd'.outcomes} = {o.patch : o \in cmd.outcomes} \cup {Patch}
  <2> DEFINE new == [set |-> Set, patch |-> Patch, result |-> r]
  <2>1. new.patch = Patch
    OBVIOUS
  <2>2. cmd'.outcomes = cmd.outcomes \cup {new}
    BY <1>5
  <2> HIDE DEF new
  <2> QED
    BY <2>1, <2>2
<1>7. Carried(Behind \cup Before)
  BY <1>1 DEF DoneInv
<1> QED
  BY <1>3, <1>6, <1>7

LEMMA NextDone ==
  ASSUME IInv, Next
  PROVE  DoneInv'
<1> USE DEF IInv
<1>1. ASSUME NEW names \in NameLists, Apply(names) PROVE DoneInv'
  BY <1>1, ApplyStarts DEF DoneInv
<1>2. CASE Checkout
  <2>1. /\ cmd'.pc = "series" /\ cmd'.i = 1 /\ cmd'.outcomes = {}
        /\ cmd'.names = cmd.names /\ cmd'.base = cmd.base /\ tree' = cmd.base
    BY <1>2 DEF Checkout, PlaceInv, TypeOK, Commands
  <2>2. DOMAIN cmd.names \subseteq Nat \ {0}
    BY DEF TypeOK, Commands
  <2>3. Behind' = {}
    BY <2>1, <2>2 DEF Behind
  <2> QED
    BY <2>1, <2>3 DEF DoneInv, Carried
<1>3. CASE EnterSet
  <2>1. /\ cmd'.pc = "patch" /\ cmd'.j = 1 /\ cmd'.i = cmd.i /\ cmd.pc = "series"
        /\ cmd'.names = cmd.names /\ cmd'.base = cmd.base /\ tree' = tree
        /\ cmd'.outcomes = cmd.outcomes
        /\ cmd'.whole => SeriesPresent(Set, tree.has)
    BY <1>3 DEF EnterSet, TypeOK, Commands, Repository
  <2>2. Set \in Sets /\ Set' = Set /\ Behind' = Behind
    BY <2>1, AtPosition DEF Set, Behind
  <2>3. Before' = {}
    BY <2>1, <2>2, SeriesIsSeq DEF Before
  <2>4. Carried(Behind)'
    BY <2>1, <2>2 DEF DoneInv, Carried
  <2> QED
    BY <2>1, <2>2, <2>3, <2>4, SeriesPresentIsThere DEF DoneInv
<1>4. CASE SkipPatch \/ AmCommits \/ AmHasNothingToDo
  <2>1. PICK r \in {"present", "applied"} : cmd' = Outcome(r)
    BY <1>4 DEF SkipPatch, AmCommits, AmHasNothingToDo
  <2>2. cmd.pc \in {"patch", "am"}
    BY <1>4 DEF SkipPatch, AmCommits, AmHasNothingToDo
  <2>3. /\ cmd.i \in 1 .. Len(cmd.names) /\ Len(cmd.names) \in Nat
        /\ DOMAIN cmd.names = 1 .. Len(cmd.names)
        /\ Set \in Sets /\ cmd.j \in 1 .. Len(Series[Set])
    BY <2>2, AtPosition
  <2>4. DOMAIN Series[Set] = 1 .. Len(Series[Set]) /\ Len(Series[Set]) \in Nat
    BY <2>3, SeriesIsSeq
  <2>5. /\ tree'.has = cmd.base.has \cup (Behind \cup Before \cup {Patch})
        /\ {o.patch : o \in cmd'.outcomes} = Behind \cup Before \cup {Patch}
    BY <1>4, PatchIsCarried DEF Carried
  <2>6. cmd'.names = cmd.names /\ cmd'.base = cmd.base /\ cmd'.whole = cmd.whole
    BY <2>1, <2>2, OutcomeMoves
  <2>7. CASE cmd'.pc = "patch"
    <3>1. cmd'.i = cmd.i /\ cmd'.j = cmd.j + 1 /\ cmd.j < Len(Series[Set])
      BY <2>1, <2>2, <2>7, OutcomeMoves
    <3>2. Set' = Set /\ Behind' = Behind
      BY <2>6, <3>1 DEF Set, Behind
    <3>3. {m \in DOMAIN Series[Set] : m < cmd.j + 1}
            = {m \in DOMAIN Series[Set] : m < cmd.j} \cup {cmd.j}
      BY <2>3, <2>4
    <3>4. Before' = Before \cup {Patch}
      BY <3>1, <3>2, <3>3 DEF Before, Patch
    <3>5. cmd.whole => PatchesOf(Set) \subseteq tree'.has
      BY <1>4, <2>2, PatchIsCarried DEF DoneInv
    <3> QED
      BY <2>5, <2>6, <2>7, <3>2, <3>4, <3>5 DEF DoneInv, Carried
  <2>8. ASSUME cmd.j = Len(Series[Set]) PROVE Before \cup {Patch} = PatchesOf(Set)
    <3>1. DOMAIN Series[Set] = {m \in DOMAIN Series[Set] : m < cmd.j} \cup {cmd.j}
      BY <2>3, <2>4, <2>8
    <3> QED
      BY <3>1 DEF Before, Patch, PatchesOf
  <2>9. CASE cmd'.pc = "series"
    <3>1. cmd'.i = cmd.i + 1 /\ cmd.j = Len(Series[Set])
      BY <2>1, <2>2, <2>9, OutcomeMoves
    <3>2. {m \in DOMAIN cmd.names : m < cmd.i + 1}
            = {m \in DOMAIN cmd.names : m < cmd.i} \cup {cmd.i}
      BY <2>3
    <3>3. Behind' = Behind \cup PatchesOf(Set)
      BY <2>6, <3>1, <3>2 DEF Behind, Set
    <3> QED
      BY <2>5, <2>6, <2>8, <2>9, <3>1, <3>3 DEF DoneInv, Carried
  <2>10. CASE cmd'.pc = "prepare"
    <3>1. cmd.i = Len(cmd.names) /\ cmd.j = Len(Series[Set])
      BY <2>1, <2>2, <2>10, OutcomeMoves
    <3>2. DOMAIN cmd.names = {m \in DOMAIN cmd.names : m < cmd.i} \cup {cmd.i}
      BY <2>3, <3>1
    <3>3. Requested(cmd.names) = Behind \cup PatchesOf(Set)
      BY <3>2 DEF Behind, Set, Requested
    <3> QED
      BY <2>5, <2>6, <2>8, <2>10, <3>1, <3>3 DEF DoneInv, Carried
  <2> QED
    BY <2>1, <2>2, <2>7, <2>9, <2>10, OutcomeMoves
<1>5. CASE StartAm
  <2>1. /\ cmd.pc = "patch" /\ cmd'.pc = "am" /\ cmd'.whole = cmd.whole
        /\ cmd'.i = cmd.i /\ cmd'.j = cmd.j /\ cmd'.names = cmd.names
        /\ cmd'.base = cmd.base /\ cmd'.outcomes = cmd.outcomes /\ tree' = tree
    BY <1>5 DEF StartAm, TypeOK, Commands, Repository
  <2>2. Set' = Set /\ Behind' = Behind
    BY <2>1 DEF Set, Behind
  <2>3. Before' = Before
    BY <2>1, <2>2 DEF Before
  <2>4. Carried(Behind \cup Before) /\ (cmd.whole => PatchesOf(Set) \subseteq tree.has)
    BY <2>1 DEF DoneInv
  <2> QED
    BY <2>1, <2>2, <2>3, <2>4 DEF DoneInv, Carried
<1>6. CASE AmFails \/ AbortAm \/ Restore \/ DropBranch
  <2>1. cmd'.pc \in {"abort", "restore", "drop", "failed"}
    BY <1>6 DEF AmFails, AbortAm, Restore, DropBranch, TypeOK, Commands
  <2> QED
    BY <2>1 DEF DoneInv
<1> QED
  BY <1>1, <1>2, <1>3, <1>4, <1>5, <1>6, Ending DEF Next

LEMMA NextCalm ==
  ASSUME IInv, Next
  PROVE  CalmInv'
<1> USE DEF IInv
<1>1. ASSUME NEW names \in NameLists, Apply(names) PROVE CalmInv'
  BY <1>1, ApplyStarts DEF CalmInv
<1>2. CASE Working
  <2>0. cmd'.names = cmd.names /\ cmd'.base = cmd.base /\ WithNames /\ cmd \in Commands
    BY <1>2, WorkingKeeps DEF TypeOK
  <2> SUFFICES ASSUME Calm
               PROVE  /\ cmd'.pc \notin {"am", "abort", "restore", "drop", "failed"}
                      /\ cmd'.pc \in {"series", "patch"} => tree'.has = cmd.base.has
                      /\ cmd'.pc = "patch" =>
                           \/ cmd'.whole
                           \/ Len(Series[Set']) = 1 /\ Reverses(Patch', tree'.has)
    BY <2>0 DEF CalmInv, Calm
  <2>1. /\ cmd.pc \notin {"am", "abort", "restore", "drop", "failed"}
        /\ cmd.pc \in {"series", "patch"} => tree.has = cmd.base.has
        /\ cmd.pc = "patch" =>
             cmd.whole \/ (Len(Series[Set]) = 1 /\ Reverses(Patch, tree.has))
    BY <2>0 DEF CalmInv
  <2>2. CASE Checkout
    BY <2>0, <2>2 DEF Checkout, Commands
  <2>3. CASE EnterSet
    <3>1. /\ cmd'.pc = "patch" /\ cmd'.i = cmd.i /\ cmd'.j = 1 /\ tree' = tree
          /\ cmd'.whole = (Len(Series[Set]) > 1 /\ SeriesPresent(Set, tree.has))
          /\ cmd.pc = "series"
      BY <2>0, <2>3 DEF EnterSet, Commands, Repository
    <3>2. Set \in Sets /\ Set' = Set /\ Patch' = Series[Set][1]
      BY <2>0, <3>1, AtPosition DEF Set, Patch
    <3>3. OnTop(Set, tree.has)
      BY <2>1, <3>1 DEF Calm, Set, PlaceInv
    <3>4. Len(Series[Set]) = 1 \/ Len(Series[Set]) > 1
      <4>1. Len(Series[Set]) \in Nat \ {0}
        BY <3>2, SeriesIsSeq
      <4>2. \A n \in Nat \ {0} : n = 1 \/ n > 1
        OBVIOUS
      <4> QED
        BY <4>1, <4>2
    <3> QED
      BY <2>1, <3>1, <3>2, <3>3, <3>4, OnTopIsPresent
  <2>4. CASE SkipPatch
    <3>1. cmd' = Outcome("present") /\ cmd.pc = "patch" /\ tree' = tree
      BY <2>4 DEF SkipPatch, Repository
    <3>2. /\ cmd'.whole = cmd.whole
          /\ cmd'.pc \in {"patch", "series", "prepare"}
          /\ cmd'.pc = "patch" => cmd.j < Len(Series[Set])
      BY <3>1, OutcomeMoves
    <3>3. cmd'.pc = "patch" => Len(Series[Set]) # 1
      <4>1. cmd.j \in 1 .. Len(Series[Set]) /\ Set \in Sets
        BY <3>1, AtPosition
      <4> QED
        BY <3>2, <4>1, SeriesIsSeq
    <3> QED
      BY <2>1, <3>1, <3>2, <3>3
  <2>5. CASE StartAm
    BY <2>1, <2>5 DEF StartAm
  <2> QED
    BY <1>2, <2>1, <2>2, <2>3, <2>4, <2>5 DEF Working, AmCommits, AmHasNothingToDo,
       AmFails, AbortAm, Restore, DropBranch
<1> QED
  BY <1>1, <1>2, Ending DEF Next, Working

-----------------------------------------------------------------------------

LEMMA StutterInv == IInv /\ UNCHANGED vars => IInv'
<1> SUFFICES ASSUME IInv, UNCHANGED vars PROVE IInv'
  OBVIOUS
<1> USE DEF IInv, vars
<1>1. TypeOK' /\ RepoInv'
  BY DEF TypeOK, RepoInv
<1>2. StartInv' /\ OnBranch'
  BY DEF StartInv, OnBranch, WithNames, Branched, AsFound, Applying
<1>3. PlaceInv'
  BY DEF PlaceInv, Set
<1>4. DoneInv'
  <2>1. Behind' = Behind /\ Before' = Before /\ Set' = Set
    BY DEF Behind, Before, Set
  <2> QED
    BY <2>1 DEF DoneInv, Carried, WithNames
<1>5. CalmInv'
  BY DEF CalmInv, Calm, Set, Patch, WithNames
<1> QED
  BY <1>1, <1>2, <1>3, <1>4, <1>5

\* Every reachable state satisfies the inductive invariant.
THEOREM PatchSetsInv == Spec => []IInv
<1>1. IInv /\ [Next]_vars => IInv'
  BY NextType, NextRepo, NextStart, NextOnBranch, NextPlace, NextDone, NextCalm,
     StutterInv DEF IInv
<1> QED
  BY InitInv, <1>1, PTL DEF Spec

\* patches.apply: after a conflict the repository is as the command found it.
THEOREM FailureRestores == Spec => []FailedApplyRestores
<1>1. IInv => FailedApplyRestores
  BY DEF IInv, OnBranch, AsFound, FailedApplyRestores
<1> QED
  BY <1>1, PatchSetsInv, PTL

\* patches.apply: no branch that was there is moved or removed meanwhile.
THEOREM BranchesUntouched == Spec => []OriginalUntouched
<1>1. IInv => OriginalUntouched
  <2> SUFFICES ASSUME IInv, Applying, NEW b \in DOMAIN start.branches
               PROVE  b \in DOMAIN branches /\ branches[b] = start.branches[b]
    BY DEF OriginalUntouched
  <2> QED
    BY DEF IInv, OnBranch, AsFound, Branched, Applying
<1> QED
  BY <1>1, PatchSetsInv, PTL

\* _process: what a build names is in the tree it prepares, and in its record.
THEOREM CarriesWhatItNames == Spec => []AppliedIsCarried
<1>1. IInv => AppliedIsCarried
  BY DEF IInv, DoneInv, Carried, AppliedIsCarried
<1> QED
  BY <1>1, PatchSetsInv, PTL

\* _series_present: a set that is there, with nothing over it, does not fail.
THEOREM PresentPasses == Spec => []PresentSetsPass
<1>1. IInv => PresentSetsPass
  BY DEF IInv, OnBranch, CalmInv, Calm, PresentSetsPass
<1> QED
  BY <1>1, PatchSetsInv, PTL
=============================================================================
