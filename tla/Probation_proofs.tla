-------------------------- MODULE Probation_proofs --------------------------
(***************************************************************************)
(* For any number of builds and records, and whichever kernels come up:    *)
(* the saved entry is a vetted kernel, rollback can find what an install   *)
(* left in /boot, and a record rolled back stands for nothing there.  And, *)
(* for any host, trees and command lines: the scripts that lead there      *)
(* install the kernel they built and tested.                               *)
(***************************************************************************)
EXTENDS Probation, HardwareSmoke, TLAPS, WellFoundedInduction

(***************************************************************************)
(* The inductive invariant.  BootInv: what is up has come up, and the      *)
(* saved entry is the distribution's or was committed by a running kernel. *)
(* PlanInv ties the command in progress to its record and to /boot.        *)
(* Recorded and Gone are InstalledIsRecorded and RolledBackIsGone made     *)
(* exact about the steps during which a package has no record yet.         *)
(***************************************************************************)
BootInv ==
  /\ running # Down => running \in Bootable
  /\ committed \subseteq Bootable
  /\ saved \in committed \cup {NoEntry}
  /\ Distro \in committed

Unwritten  == {"regenerate", "arm", "record"}
Unrecorded == Unwritten \cup {"write"}

PlanInv ==
  /\ pc \in {"capture", "package", "commit"} \cup Unwritten => Len(records) < MaxRecords
  /\ pc = "write" => Len(records) # 0 /\ records[Len(records)] = TornRecord
  /\ pc \in {"capture", "package", "regenerate", "arm"} => cmd.pkg \in Builds
  /\ pc = "commit" => running # Down /\ cmd.pkg = NoPackage
  /\ pc \in {"remove", "clean", "mark"} =>
       cmd.rec \in Open /\ records[cmd.rec].pkg = cmd.pkg /\ cmd.pkg \in Builds
  /\ pc = "rewrite" =>
       cmd.rec \in DOMAIN records /\ records[cmd.rec] = TornRecord /\ cmd.pkg \in Builds
  /\ pc \in {"clean", "mark", "rewrite"} => cmd.pkg \notin installed

Recorded ==
  \A p \in installed \cap Builds :
    \/ p \in orphans
    \/ pc \in Unrecorded /\ cmd.pkg = p
    \/ \E i \in Open : records[i].pkg = p

Gone ==
  \A i \in DOMAIN records :
    records[i].rolledBack =>
      \/ records[i].pkg \notin installed
      \/ records[i].pkg \in orphans
      \/ pc \in Unrecorded /\ cmd.pkg = records[i].pkg
      \/ \E j \in DOMAIN records : j > i /\ records[j].pkg = records[i].pkg

IInv == TypeOK /\ BootInv /\ PlanInv /\ Recorded /\ Gone

USE DEF Kernels, NoEntry, NoPackage, Down

-----------------------------------------------------------------------------
\* A set of positions that is not empty has a last one.
LEMMA HasLast ==
  ASSUME NEW n \in Nat, NEW S \in SUBSET (1 .. n), S # {}
  PROVE  \E i \in S : \A j \in S : j <= i
<1> DEFINE R == OpToRel(<, Nat)
           T == {m \in Nat : \E i \in S : m = n - i}
<1>1. IsWellFoundedOn(R, Nat)
  BY NatLessThanWellFounded
<1>2. T \in SUBSET Nat
  OBVIOUS
<1>3. \A i \in S : n - i \in T
  OBVIOUS
<1>4. PICK x \in T : \A y \in T : ~(<<y, x>> \in R)
  <2>1. T # {}
    BY <1>3
  <2> HIDE DEF R, T
  <2> QED
    BY <1>1, <1>2, <2>1, WFMin
<1>5. \A y \in T : ~(y < x)
  BY <1>2, <1>4 DEF OpToRel
<1>6. PICK i \in S : x = n - i
  OBVIOUS
<1>7. \A j \in S : ~(n - j < n - i)
  BY <1>3, <1>5, <1>6
<1> QED
  BY <1>7

LEMMA RecordForms ==
  ASSUME TypeOK, NEW b \in BOOLEAN
  PROVE  /\ TornRecord \in Record /\ ~TornRecord.whole /\ ~TornRecord.rolledBack
         /\ TornRecord.pkg = NoPackage
         /\ Written(b) \in Record /\ Written(b).whole /\ Written(b).rolledBack = b
         /\ Written(b).pkg = cmd.pkg
BY DEF TypeOK, Record, TornRecord, Written

\* Replacing one record keeps the others, and their places.
LEMMA Replaced ==
  ASSUME TypeOK, NEW i \in DOMAIN records, NEW r \in Record,
         records' = [records EXCEPT ![i] = r]
  PROVE  /\ records' \in Seq(Record) /\ Len(records') = Len(records)
         /\ DOMAIN records' = DOMAIN records
         /\ records'[i] = r
         /\ \A j \in DOMAIN records : j # i => records'[j] = records[j]
<1>1. records \in Seq(Record)
  BY DEF TypeOK
<1> QED
  BY <1>1

LEMMA RecordsType ==
  ASSUME TypeOK
  PROVE  /\ records \in Seq(Record) /\ Len(records) \in Nat /\ Len(records) <= MaxRecords
         /\ DOMAIN records = 1 .. Len(records)
         /\ \A i \in DOMAIN records : records[i] \in Record
<1>1. records \in Seq(Record) /\ Len(records) <= MaxRecords
  BY DEF TypeOK
<1>2. Len(records) \in Nat /\ DOMAIN records = 1 .. Len(records)
  BY <1>1
<1> QED
  BY <1>1, <1>2

\* find_latest_install_record finds an open record if there is one.
LEMMA LatestIsOpen ==
  ASSUME TypeOK, Latest # 0
  PROVE  Latest \in Open /\ Latest \in 0 .. MaxRecords
<1>1. Open # {}
  BY DEF Latest
<1>2. Open \in SUBSET (1 .. Len(records)) /\ Len(records) \in Nat /\ Len(records) <= MaxRecords
  BY RecordsType DEF Open
<1>3. \E i \in Open : \A j \in Open : j <= i
  BY <1>1, <1>2, HasLast
<1>4. Latest \in Open
  BY <1>1, <1>3 DEF Latest
<1> QED
  BY <1>2, <1>4, ProbationRecords

LEMMA InitInv == Init => IInv
<1> SUFFICES ASSUME Init PROVE IInv
  OBVIOUS
<1> USE DEF Init
<1>1. records \in Seq(Record) /\ Len(records) = 0 /\ DOMAIN records = {}
  OBVIOUS
<1>2. NoCommand \in [pkg : Builds \cup {NoPackage}, arm : BOOLEAN, ok : BOOLEAN, rec : 0 .. MaxRecords]
  BY ProbationRecords DEF NoCommand
<1>3. TypeOK
  BY <1>1, <1>2, ProbationRecords DEF TypeOK
<1>4. BootInv /\ PlanInv
  BY ProbationBootable DEF BootInv, PlanInv, Unwritten
<1>5. Recorded /\ Gone
  BY <1>1, ProbationKernels DEF Recorded, Gone
<1> QED
  BY <1>3, <1>4, <1>5 DEF IInv

-----------------------------------------------------------------------------
\* A step that fails leaves the package the command is about.
LEMMA FailureKeepsPackage == TypeOK /\ StepFails => pc' = "record" /\ cmd'.pkg = cmd.pkg
<1> SUFFICES ASSUME TypeOK, StepFails PROVE pc' = "record" /\ cmd'.pkg = cmd.pkg
  OBVIOUS
<1>1. cmd \in [pkg : Builds \cup {NoPackage}, arm : BOOLEAN, ok : BOOLEAN, rec : 0 .. MaxRecords]
  BY DEF TypeOK
<1> QED
  BY <1>1 DEF StepFails

\* Step by step, the types.
LEMMA NextType == IInv /\ [Next]_vars => TypeOK'
<1> SUFFICES ASSUME IInv, [Next]_vars PROVE TypeOK'
  OBVIOUS
<1> USE DEF TypeOK, boot, hist
<1>0. TypeOK /\ BootInv /\ PlanInv
  BY DEF IInv
<1>r. /\ records \in Seq(Record) /\ Len(records) \in Nat /\ Len(records) <= MaxRecords
      /\ DOMAIN records = 1 .. Len(records)
      /\ \A i \in DOMAIN records : records[i] \in Record
  BY <1>0, RecordsType
<1> DEFINE Commands == [pkg : Builds \cup {NoPackage}, arm : BOOLEAN, ok : BOOLEAN, rec : 0 .. MaxRecords]
<1>c. NoCommand \in Commands
  BY ProbationRecords DEF NoCommand
<1>f. StepFails => pc' = "record" /\ cmd' \in Commands
  BY <1>0 DEF StepFails
<1>1. ASSUME NEW p \in Builds, BeginInstall(p) PROVE TypeOK'
  <2>1. PICK arm \in BOOLEAN : cmd' = [NoCommand EXCEPT !.pkg = p, !.arm = arm]
    BY <1>1 DEF BeginInstall
  <2>2. cmd' = [pkg |-> p, arm |-> arm, ok |-> TRUE, rec |-> 0]
    BY <2>1 DEF NoCommand
  <2>3. 0 \in 0 .. MaxRecords
    BY ProbationRecords
  <2>4. cmd' \in Commands
    BY <2>2, <2>3
  <2> QED
    BY <1>0, <1>1, <2>4 DEF BeginInstall
<1>2. CASE CaptureGrubState
  BY <1>0, <1>2, <1>f DEF CaptureGrubState
<1>3. CASE InstallPackage
  <2>1. installed' \subseteq Kernels /\ menu' \subseteq Kernels
    BY <1>0, <1>3 DEF InstallPackage, Hooks, PlanInv
  <2> QED
    BY <1>0, <1>3, <1>f, <2>1 DEF InstallPackage
<1>4. CASE RegenerateBootloader
  BY <1>0, <1>4, <1>f DEF RegenerateBootloader
<1>5. CASE ArmOneShotBoot
  BY <1>0, <1>5, <1>f DEF ArmOneShotBoot, PlanInv
<1>6. CASE BeginCommit
  BY <1>0, <1>6, <1>c DEF BeginCommit
<1>7. CASE CommitDefault
  BY <1>0, <1>7, <1>f DEF CommitDefault, PlanInv
<1>8. CASE OpenRecord
  <2>1. records' \in Seq(Record) /\ Len(records') = Len(records) + 1
    BY <1>0, <1>r, <1>8, RecordForms DEF OpenRecord
  <2>2. Len(records) < MaxRecords
    BY <1>0, <1>8 DEF OpenRecord, PlanInv, Unwritten
  <2>3. Len(records') <= MaxRecords
    BY <1>r, <2>1, <2>2, ProbationRecords
  <2> QED
    BY <1>0, <1>8, <2>1, <2>3 DEF OpenRecord
<1>8w. CASE WriteRecord
  <2>1. Len(records) \in DOMAIN records
    BY <1>0, <1>r, <1>8w DEF WriteRecord, PlanInv
  <2>2. records' \in Seq(Record) /\ Len(records') = Len(records)
    BY <1>0, <1>8w, <2>1, RecordForms, Replaced DEF WriteRecord
  <2> QED
    BY <1>0, <1>8w, <1>c, <2>2 DEF WriteRecord
<1>9. CASE BeginRollback
  <2>1. Latest \in DOMAIN records /\ Latest \in 0 .. MaxRecords
    BY <1>0, <1>9, LatestIsOpen DEF BeginRollback, CanRollBack, Open
  <2>2. records[Latest] \in Record
    BY <1>r, <2>1
  <2>3. cmd' \in Commands
    BY <1>9, <2>1, <2>2 DEF BeginRollback, NoCommand, Record
  <2> QED
    BY <1>0, <1>9, <2>3 DEF BeginRollback
<1>10. CASE RemovePackage
  BY <1>0, <1>10, <1>c DEF RemovePackage, Hooks
<1>11. CASE CleanMenu
  BY <1>0, <1>11, <1>c DEF CleanMenu
<1>12. CASE OpenMark
  <2>1. cmd.rec \in DOMAIN records /\ records[cmd.rec].ok \in BOOLEAN
    BY <1>0, <1>r, <1>12 DEF OpenMark, PlanInv, Open, Record
  <2>2. records' = [records EXCEPT ![cmd.rec] = TornRecord] \/ UNCHANGED records
    BY <1>12 DEF OpenMark
  <2>3. records' \in Seq(Record) /\ Len(records') = Len(records)
    BY <1>0, <1>r, <2>1, <2>2, RecordForms, Replaced
  <2>4. cmd' \in Commands
    BY <1>0, <1>12, <1>c, <2>1 DEF OpenMark
  <2> QED
    BY <1>0, <1>12, <2>3, <2>4 DEF OpenMark
<1>12m. CASE MarkRolledBack
  <2>1. cmd.rec \in DOMAIN records
    BY <1>0, <1>12m DEF MarkRolledBack, PlanInv
  <2>2. records' = [records EXCEPT ![cmd.rec] = Written(TRUE)] \/ UNCHANGED records
    BY <1>12m DEF MarkRolledBack
  <2>3. records' \in Seq(Record) /\ Len(records') = Len(records)
    BY <1>0, <1>r, <2>1, <2>2, RecordForms, Replaced
  <2> QED
    BY <1>0, <1>12m, <1>c, <2>3 DEF MarkRolledBack
<1>13. CASE GoDown \/ Interrupt
  BY <1>0, <1>13, <1>c, ProbationKernels DEF GoDown, Interrupt, Abandon
<1>14. CASE Boot
  BY <1>0, <1>14, ProbationBootable DEF Boot
<1>15. CASE UNCHANGED vars
  BY <1>0, <1>15 DEF vars
<1> QED
  BY <1>1, <1>2, <1>3, <1>4, <1>5, <1>6, <1>7, <1>8, <1>8w, <1>9, <1>10, <1>11, <1>12, <1>12m,
     <1>13, <1>14, <1>15 DEF Next

\* Only CommitDefault changes what is saved, and only Boot what is up.
LEMMA NextBoot == IInv /\ [Next]_vars => BootInv'
<1> SUFFICES ASSUME IInv, [Next]_vars PROVE BootInv'
  OBVIOUS
<1> USE DEF BootInv, boot, hist
<1>0. BootInv /\ PlanInv
  BY DEF IInv
<1>1. CASE CommitDefault
  BY <1>0, <1>1 DEF CommitDefault, PlanInv
<1>2. CASE GoDown \/ Interrupt
  BY <1>0, <1>2 DEF GoDown, Interrupt, Abandon
<1>3. CASE Boot
  BY <1>0, <1>3 DEF Boot
<1>4. CASE UNCHANGED <<running, committed, saved>>
  BY <1>0, <1>4
<1> QED
  BY <1>1, <1>2, <1>3, <1>4
     DEF Next, vars, BeginInstall, CaptureGrubState, InstallPackage, RegenerateBootloader,
         ArmOneShotBoot, BeginCommit, OpenRecord, WriteRecord, BeginRollback, RemovePackage,
         CleanMenu, OpenMark, MarkRolledBack

LEMMA NextPlan == IInv /\ [Next]_vars => PlanInv'
<1> SUFFICES ASSUME IInv, [Next]_vars PROVE PlanInv'
  OBVIOUS
<1> USE DEF PlanInv, Unwritten, boot, hist, Open, NoCommand
<1>0. TypeOK /\ BootInv /\ PlanInv
  BY DEF IInv
<1>1. ASSUME NEW p \in Builds, BeginInstall(p) PROVE PlanInv'
  BY <1>0, <1>1 DEF BeginInstall
<1>2. CASE CaptureGrubState
  BY <1>0, <1>2 DEF CaptureGrubState, StepFails
<1>3. CASE InstallPackage
  BY <1>0, <1>3 DEF InstallPackage, StepFails
<1>4. CASE RegenerateBootloader
  BY <1>0, <1>4 DEF RegenerateBootloader, StepFails
<1>5. CASE ArmOneShotBoot
  BY <1>0, <1>5 DEF ArmOneShotBoot, StepFails
<1>6. CASE BeginCommit
  BY <1>0, <1>6, ProbationKernels DEF BeginCommit, TypeOK
<1>7. CASE CommitDefault
  BY <1>0, <1>7 DEF CommitDefault, StepFails
<1>8. CASE OpenRecord
  BY <1>0, <1>8, RecordsType DEF OpenRecord
<1>8w. CASE WriteRecord
  BY <1>8w DEF WriteRecord
<1>9. CASE BeginRollback
  <2>1. Latest \in Open /\ Latest \in 0 .. MaxRecords
    BY <1>0, <1>9, LatestIsOpen DEF BeginRollback, CanRollBack
  <2>2. records[Latest] \in Record
    BY <1>0, <2>1, RecordsType DEF Open
  <2>3. records[Latest].pkg \in Builds
    BY <1>9, <2>2 DEF BeginRollback, CanRollBack, Record
  <2>4. cmd'.rec = Latest /\ cmd'.pkg = records[Latest].pkg /\ pc' = "remove" /\ records' = records
    BY <1>9 DEF BeginRollback
  <2> QED
    BY <2>1, <2>3, <2>4
<1>10. CASE RemovePackage
  BY <1>0, <1>10 DEF RemovePackage
<1>11. CASE CleanMenu
  BY <1>0, <1>11 DEF CleanMenu
<1>12. CASE OpenMark
  <2>1. CASE pc' = "idle"
    BY <2>1
  <2>2. CASE pc' # "idle"
    <3>1. /\ pc = "mark" /\ pc' = "rewrite" /\ cmd'.pkg = cmd.pkg /\ cmd'.rec = cmd.rec
          /\ records' = [records EXCEPT ![cmd.rec] = TornRecord] /\ UNCHANGED installed
      BY <1>0, <1>12, <2>2 DEF OpenMark, TypeOK
    <3>2. DOMAIN records' = DOMAIN records /\ records'[cmd.rec] = TornRecord
      BY <1>0, <3>1, RecordForms, Replaced
    <3> QED
      BY <1>0, <3>1, <3>2
  <2> QED
    BY <2>1, <2>2
<1>12m. CASE MarkRolledBack
  BY <1>12m DEF MarkRolledBack
<1>13. CASE GoDown \/ Interrupt
  BY <1>13 DEF GoDown, Interrupt, Abandon
<1>14. CASE Boot
  <2>1. pc # "commit"
    BY <1>0, <1>14 DEF Boot
  <2> QED
    BY <1>0, <1>14, <2>1 DEF Boot
<1>15. CASE UNCHANGED vars
  BY <1>0, <1>15 DEF vars
<1> QED
  BY <1>1, <1>2, <1>3, <1>4, <1>5, <1>6, <1>7, <1>8, <1>8w, <1>9, <1>10, <1>11, <1>12, <1>12m,
     <1>13, <1>14, <1>15 DEF Next

\* A package that comes to be in /boot has its install in progress, and one
\* whose install ends has its record, or died without.
LEMMA NextRecorded == IInv /\ [Next]_vars => Recorded'
<1> SUFFICES ASSUME IInv, [Next]_vars PROVE Recorded'
  OBVIOUS
<1> USE DEF Unrecorded, Unwritten, boot, hist
<1>0. TypeOK /\ PlanInv /\ Recorded
  BY DEF IInv
<1>1. CASE InstallPackage
  <2>1. pc = "package" /\ pc' \in Unrecorded /\ cmd'.pkg = cmd.pkg
    BY <1>0, <1>1, FailureKeepsPackage DEF InstallPackage
  <2>2. installed' \subseteq installed \cup {cmd.pkg} /\ UNCHANGED <<records, orphans>>
    BY <1>1 DEF InstallPackage
  <2> QED
    BY <1>0, <2>1, <2>2 DEF Recorded, Open
<1>2. CASE OpenRecord
  <2>1. /\ DOMAIN records' = 1 .. Len(records) + 1
        /\ \A i \in DOMAIN records : i \in DOMAIN records' /\ records'[i] = records[i]
    BY <1>0, <1>2, RecordsType DEF OpenRecord
  <2>2. \A i \in Open : i \in Open' /\ records'[i] = records[i]
    BY <2>1 DEF Open
  <2>3. pc' = "write" /\ pc = "record" /\ UNCHANGED <<installed, orphans, cmd>>
    BY <1>2 DEF OpenRecord
  <2> QED
    BY <1>0, <2>2, <2>3 DEF Recorded
<1>2w. CASE WriteRecord
  <2> DEFINE n == Len(records)
  <2>1. n \in DOMAIN records /\ records[n] = TornRecord /\ records' = [records EXCEPT ![n] = Written(FALSE)]
    BY <1>0, <1>2w, RecordsType DEF WriteRecord, PlanInv
  <2>2. /\ DOMAIN records' = DOMAIN records /\ records'[n] = Written(FALSE)
        /\ \A i \in DOMAIN records : i # n => records'[i] = records[i]
    BY <1>0, <2>1, RecordForms, Replaced
  <2>3. \A i \in Open : i \in Open' /\ records'[i] = records[i]
    BY <1>0, <2>1, <2>2, RecordForms DEF Open
  <2>4. n \in Open' /\ records'[n].pkg = cmd.pkg
    BY <1>0, <2>1, <2>2, RecordForms DEF Open
  <2>5. installed' = installed /\ orphans' = orphans \ {cmd.pkg} /\ pc = "write"
    BY <1>2w DEF WriteRecord
  <2> HIDE DEF n
  <2> QED
    BY <1>0, <2>3, <2>4, <2>5 DEF Recorded
<1>3. CASE RemovePackage
  BY <1>0, <1>3 DEF RemovePackage, Recorded, Open
<1>4. CASE OpenMark
  <2>1. cmd.pkg \notin installed /\ cmd.rec \in DOMAIN records /\ records[cmd.rec].pkg = cmd.pkg
    BY <1>0, <1>4 DEF OpenMark, PlanInv, Open
  <2>2. records' = [records EXCEPT ![cmd.rec] = TornRecord] \/ UNCHANGED records
    BY <1>4 DEF OpenMark
  <2>3. \A i \in Open : i # cmd.rec => i \in Open' /\ records'[i] = records[i]
    BY <1>0, <2>1, <2>2, RecordForms, Replaced DEF Open
  <2>4. installed' = installed /\ orphans' = orphans /\ pc = "mark"
    BY <1>4 DEF OpenMark
  <2> QED
    BY <1>0, <2>1, <2>3, <2>4 DEF Recorded
<1>4m. CASE MarkRolledBack
  <2>1. cmd.rec \in DOMAIN records /\ records[cmd.rec] = TornRecord
    BY <1>0, <1>4m DEF MarkRolledBack, PlanInv
  <2>2. records' = [records EXCEPT ![cmd.rec] = Written(TRUE)] \/ UNCHANGED records
    BY <1>4m DEF MarkRolledBack
  <2>3. \A i \in Open : i \in Open' /\ records'[i] = records[i]
    BY <1>0, <2>1, <2>2, RecordForms, Replaced DEF Open
  <2>4. installed' = installed /\ orphans' = orphans /\ pc = "rewrite"
    BY <1>4m DEF MarkRolledBack
  <2> QED
    BY <1>0, <2>3, <2>4 DEF Recorded
<1>5. CASE GoDown \/ Interrupt
  <2>1. installed' = installed /\ Open' = Open /\ records' = records
    BY <1>5 DEF GoDown, Interrupt, Abandon, Open
  <2>2. orphans \subseteq orphans'
    BY <1>5 DEF GoDown, Interrupt, Abandon
  <2>3. pc \in Unrecorded => {cmd.pkg} \cap installed \subseteq orphans'
    BY <1>5 DEF GoDown, Interrupt, Abandon
  <2> QED
    BY <1>0, <2>1, <2>2, <2>3 DEF Recorded
<1>6. CASE CaptureGrubState \/ RegenerateBootloader \/ ArmOneShotBoot
  <2>1. pc \in Unrecorded => pc' \in Unrecorded /\ cmd'.pkg = cmd.pkg
    BY <1>0, <1>6, FailureKeepsPackage DEF CaptureGrubState, RegenerateBootloader, ArmOneShotBoot
  <2>2. UNCHANGED <<installed, records, orphans>>
    BY <1>6 DEF CaptureGrubState, RegenerateBootloader, ArmOneShotBoot
  <2> QED
    BY <1>0, <2>1, <2>2 DEF Recorded, Open
<1>7. CASE (\E p \in Builds : BeginInstall(p)) \/ BeginCommit \/ BeginRollback \/ CommitDefault
  BY <1>0, <1>7 DEF BeginInstall, BeginCommit, BeginRollback, CommitDefault, Recorded, Open
<1>8. CASE CleanMenu \/ Boot \/ UNCHANGED vars
  BY <1>0, <1>8 DEF CleanMenu, Boot, vars, Recorded, Open
<1> QED
  BY <1>1, <1>2, <1>2w, <1>3, <1>4, <1>4m, <1>5, <1>6, <1>7, <1>8 DEF Next

LEMMA NextGone == IInv /\ [Next]_vars => Gone'
<1> SUFFICES ASSUME IInv, [Next]_vars PROVE Gone'
  OBVIOUS
<1> USE DEF Unrecorded, Unwritten, boot, hist
<1>0. TypeOK /\ PlanInv /\ Gone
  BY DEF IInv
<1>1. CASE InstallPackage
  <2>1. pc = "package" /\ pc' \in Unrecorded /\ cmd'.pkg = cmd.pkg
    BY <1>0, <1>1, FailureKeepsPackage DEF InstallPackage
  <2>2. installed' \subseteq installed \cup {cmd.pkg} /\ UNCHANGED <<records, orphans>>
    BY <1>1 DEF InstallPackage
  <2> QED
    BY <1>0, <2>1, <2>2 DEF Gone
<1>2. CASE OpenRecord
  <2>1. /\ DOMAIN records' = 1 .. Len(records) + 1
        /\ \A i \in DOMAIN records : i \in DOMAIN records' /\ records'[i] = records[i]
        /\ \A i \in DOMAIN records' : i \in DOMAIN records \/ records'[i] = TornRecord
    BY <1>0, <1>2, RecordsType DEF OpenRecord
  <2>2. pc' = "write" /\ pc = "record" /\ UNCHANGED <<installed, orphans, cmd>>
    BY <1>2 DEF OpenRecord
  <2>3. ~TornRecord.rolledBack
    BY DEF TornRecord
  <2>4. \A i \in DOMAIN records' : records'[i].rolledBack =>
          i \in DOMAIN records /\ records'[i] = records[i]
    BY <2>1, <2>3
  <2> QED
    BY <1>0, <2>1, <2>2, <2>4 DEF Gone
<1>2w. CASE WriteRecord
  <2> DEFINE n == Len(records)
  <2>1. n \in DOMAIN records /\ records[n] = TornRecord /\ records' = [records EXCEPT ![n] = Written(FALSE)]
    BY <1>0, <1>2w, RecordsType DEF WriteRecord, PlanInv
  <2>2. /\ DOMAIN records' = DOMAIN records /\ records'[n] = Written(FALSE)
        /\ \A i \in DOMAIN records : i # n => i < n /\ records'[i] = records[i]
    <3>1. Written(FALSE) \in Record
      BY <1>0, RecordForms
    <3>2. \A i \in DOMAIN records : i # n => i < n
      BY <1>0, RecordsType
    <3> QED
      BY <1>0, <2>1, <3>1, <3>2, Replaced
  <2>3. installed' = installed /\ orphans' = orphans \ {cmd.pkg} /\ pc = "write"
    BY <1>2w DEF WriteRecord
  <2>4. records'[n].pkg = cmd.pkg /\ ~records'[n].rolledBack
    BY <1>0, <2>2, RecordForms
  <2>5. NoPackage \notin installed /\ records[n].pkg = NoPackage
    BY <1>0, <2>1, RecordForms, ProbationKernels DEF TypeOK
  <2> HIDE DEF n
  <2> SUFFICES ASSUME NEW i \in DOMAIN records', records'[i].rolledBack
               PROVE  \/ records'[i].pkg \notin installed'
                      \/ records'[i].pkg \in orphans'
                      \/ \E j \in DOMAIN records' : j > i /\ records'[j].pkg = records'[i].pkg
    BY DEF Gone
  <2>6. i \in DOMAIN records /\ i # n /\ i < n /\ records'[i] = records[i]
    BY <2>2, <2>4
  <2>7. CASE records[i].pkg = cmd.pkg
    BY <2>1, <2>2, <2>4, <2>6, <2>7
  <2>8. CASE records[i].pkg # cmd.pkg
    <3>1. \/ records[i].pkg \notin installed
          \/ records[i].pkg \in orphans
          \/ \E j \in DOMAIN records : j > i /\ records[j].pkg = records[i].pkg
      BY <1>0, <2>6, <2>8 DEF Gone
    <3> QED
      BY <2>2, <2>3, <2>5, <2>6, <2>8, <3>1
  <2> QED
    BY <2>7, <2>8
<1>3. CASE RemovePackage
  BY <1>0, <1>3 DEF RemovePackage, Gone
<1>4. CASE OpenMark
  <2>1. cmd.pkg \notin installed /\ cmd.rec \in DOMAIN records /\ records[cmd.rec].pkg = cmd.pkg
    BY <1>0, <1>4 DEF OpenMark, PlanInv, Open
  <2>2. records' = [records EXCEPT ![cmd.rec] = TornRecord] \/ UNCHANGED records
    BY <1>4 DEF OpenMark
  <2>3. /\ DOMAIN records' = DOMAIN records
        /\ \A i \in DOMAIN records : \/ records'[i] = records[i]
                                     \/ i = cmd.rec /\ records'[i] = TornRecord
    <3>1. TornRecord \in Record
      BY <1>0, RecordForms
    <3>2. CASE records' = [records EXCEPT ![cmd.rec] = TornRecord]
      BY <1>0, <2>1, <3>1, <3>2, Replaced
    <3> QED
      BY <2>2, <3>2
  <2>4. installed' = installed /\ orphans' = orphans /\ pc = "mark"
    BY <1>4 DEF OpenMark
  <2>5. ~TornRecord.rolledBack
    BY DEF TornRecord
  <2> SUFFICES ASSUME NEW i \in DOMAIN records', records'[i].rolledBack,
                      records'[i].pkg \in installed, records'[i].pkg \notin orphans
               PROVE  \E j \in DOMAIN records' : j > i /\ records'[j].pkg = records'[i].pkg
    BY <2>4 DEF Gone
  <2>6. i \in DOMAIN records /\ records'[i] = records[i]
    BY <2>3, <2>5
  <2>7. PICK j \in DOMAIN records : j > i /\ records[j].pkg = records[i].pkg
    BY <1>0, <2>4, <2>6 DEF Gone
  <2>8. j # cmd.rec
    BY <2>1, <2>6, <2>7
  <2> QED
    BY <2>3, <2>6, <2>7, <2>8
<1>4m. CASE MarkRolledBack
  <2>1. cmd.pkg \notin installed /\ cmd.rec \in DOMAIN records /\ records[cmd.rec] = TornRecord
    BY <1>0, <1>4m DEF MarkRolledBack, PlanInv
  <2>2. records' = [records EXCEPT ![cmd.rec] = Written(TRUE)] \/ UNCHANGED records
    BY <1>4m DEF MarkRolledBack
  <2>3. /\ DOMAIN records' = DOMAIN records
        /\ \A i \in DOMAIN records : \/ records'[i] = records[i]
                                     \/ i = cmd.rec /\ records'[i].pkg = cmd.pkg
    BY <1>0, <2>1, <2>2, RecordForms, Replaced
  <2>4. installed' = installed /\ orphans' = orphans /\ pc = "rewrite"
    BY <1>4m DEF MarkRolledBack
  <2>5. NoPackage \notin installed /\ records[cmd.rec].pkg = NoPackage
    BY <1>0, <2>1, RecordForms, ProbationKernels DEF TypeOK
  <2> SUFFICES ASSUME NEW i \in DOMAIN records', records'[i].rolledBack,
                      records'[i].pkg \in installed, records'[i].pkg \notin orphans
               PROVE  \E j \in DOMAIN records' : j > i /\ records'[j].pkg = records'[i].pkg
    BY <2>4 DEF Gone
  <2>6. records'[i] = records[i]
    BY <2>1, <2>3
  <2>7. PICK j \in DOMAIN records : j > i /\ records[j].pkg = records[i].pkg
    BY <1>0, <2>3, <2>4, <2>6 DEF Gone
  <2>8. j # cmd.rec
    BY <2>5, <2>6, <2>7
  <2> QED
    BY <2>3, <2>6, <2>7, <2>8
<1>5. CASE GoDown \/ Interrupt
  <2>1. installed' = installed /\ records' = records
    BY <1>5 DEF GoDown, Interrupt, Abandon
  <2>2. orphans \subseteq orphans'
    BY <1>5 DEF GoDown, Interrupt, Abandon
  <2>3. pc \in Unrecorded => {cmd.pkg} \cap installed \subseteq orphans'
    BY <1>5 DEF GoDown, Interrupt, Abandon
  <2> QED
    BY <1>0, <2>1, <2>2, <2>3 DEF Gone
<1>6. CASE CaptureGrubState \/ RegenerateBootloader \/ ArmOneShotBoot
  <2>1. pc \in Unrecorded => pc' \in Unrecorded /\ cmd'.pkg = cmd.pkg
    BY <1>0, <1>6, FailureKeepsPackage DEF CaptureGrubState, RegenerateBootloader, ArmOneShotBoot
  <2>2. UNCHANGED <<installed, records, orphans>>
    BY <1>6 DEF CaptureGrubState, RegenerateBootloader, ArmOneShotBoot
  <2> QED
    BY <1>0, <2>1, <2>2 DEF Gone
<1>7. CASE (\E p \in Builds : BeginInstall(p)) \/ BeginCommit \/ BeginRollback \/ CommitDefault
  BY <1>0, <1>7 DEF BeginInstall, BeginCommit, BeginRollback, CommitDefault, Gone
<1>8. CASE CleanMenu \/ Boot \/ UNCHANGED vars
  BY <1>0, <1>8 DEF CleanMenu, Boot, vars, Gone
<1> QED
  BY <1>1, <1>2, <1>2w, <1>3, <1>4, <1>4m, <1>5, <1>6, <1>7, <1>8 DEF Next

-----------------------------------------------------------------------------
\* What probation keeps is inductive: see above, part by part.
THEOREM ProbationInv == Spec => []IInv
<1>1. Init => IInv
  BY InitInv
<1>2. IInv /\ [Next]_vars => IInv'
  BY NextType, NextBoot, NextPlan, NextRecorded, NextGone DEF IInv
<1> QED
  BY <1>1, <1>2, PTL DEF Spec

\* Commands, records and GRUB's environment stay of their types.
THEOREM TypeCorrect == Spec => []TypeOK
<1>1. IInv => TypeOK
  BY DEF IInv
<1> QED
  BY <1>1, ProbationInv, PTL

\* The entry GRUB saved is the distribution's kernel, or one that came up
\* and was committed; what the menu's first entry is, it does not say.
THEOREM BootsVetted == Spec => []SavedIsVetted
<1>1. IInv => SavedIsVetted
  BY DEF IInv, BootInv, SavedIsVetted
<1> QED
  BY <1>1, ProbationInv, PTL

\* Rollback finds whatever an install left in /boot.
THEOREM FindsInstalls == Spec => []InstalledIsRecorded
<1>1. IInv => InstalledIsRecorded
  BY DEF IInv, Recorded, Unrecorded, Unwritten, InstalledIsRecorded
<1> QED
  BY <1>1, ProbationInv, PTL

\* A record that is rolled back stands for nothing in /boot.
THEOREM RollsBack == Spec => []RolledBackIsGone
<1>1. IInv => RolledBackIsGone
  BY DEF IInv, Gone, Unrecorded, Unwritten, RolledBackIsGone
<1> QED
  BY <1>1, ProbationInv, PTL

-----------------------------------------------------------------------------
(***************************************************************************)
(* Why the machine comes up again (FallsBack): a kernel on probation that  *)
(* does not come up costs one boot, and what is booted next comes up: the  *)
(* saved entry is vetted, and a default that is not must be bootable.      *)
(***************************************************************************)
DownIsIdle == running = Down => pc = "idle"

LEMMA NextIdle == IInv /\ DownIsIdle /\ [Next]_vars => DownIsIdle'
<1> SUFFICES ASSUME IInv, DownIsIdle, [Next]_vars, running' = Down PROVE pc' = "idle"
  BY DEF DownIsIdle
<1>1. CASE running = Down
  <2>1. Down \notin menu
    BY ProbationKernels DEF IInv, TypeOK
  <2> QED
    BY <1>1, <2>1 DEF DownIsIdle, Next, vars, boot, BeginInstall, CaptureGrubState, InstallPackage,
       RegenerateBootloader, ArmOneShotBoot, BeginCommit, CommitDefault, OpenRecord, WriteRecord,
       BeginRollback, RemovePackage, CleanMenu, OpenMark, MarkRolledBack, Interrupt, GoDown, Boot
<1>2. CASE running # Down
  <2>1. GoDown
    BY <1>2 DEF Next, vars, boot, BeginInstall, CaptureGrubState, InstallPackage,
       RegenerateBootloader, ArmOneShotBoot, BeginCommit, CommitDefault, OpenRecord, WriteRecord,
       BeginRollback, RemovePackage, CleanMenu, OpenMark, MarkRolledBack, Interrupt, Boot
  <2> QED
    BY <2>1 DEF GoDown, Abandon
<1> QED
  BY <1>1, <1>2

\* How often the machine may have to be switched on.
PowerOns == IF running # Down THEN 0 ELSE IF oneshot = NoEntry THEN 1 ELSE 2

ComesCloser == PowerOns' < PowerOns /\ UNCHANGED <<installed, menu, grub, saved>>

Stranded == running = Down /\ CanFallBack

LEMMA BootStep == ASSUME IInv, Stranded, Boot PROVE ComesCloser
<1>1. DefaultEntry \in Bootable \cap installed
  <2>1. CASE grub = "saved" /\ saved \in menu \cap installed
    <3>1. DefaultEntry = saved
      BY <2>1 DEF DefaultEntry
    <3>2. saved \in Bootable
      BY <2>1, ProbationKernels, ProbationBootable DEF IInv, TypeOK, BootInv
    <3> QED
      BY <2>1, <3>1, <3>2
  <2> QED
    BY <2>1 DEF Stranded, CanFallBack
<1>3. Down \notin Bootable
  BY ProbationKernels, ProbationBootable
<1>4. oneshot' = NoEntry /\ running = Down /\ UNCHANGED <<installed, menu, grub, saved>>
  BY DEF Boot
<1>5. CASE oneshot = NoEntry
  <2>1. running' = DefaultEntry
    BY <1>1, <1>5 DEF Boot
  <2> QED
    BY <1>1, <1>3, <1>4, <1>5, <2>1 DEF ComesCloser, PowerOns
<1>6. CASE oneshot # NoEntry
  BY <1>4, <1>6 DEF ComesCloser, PowerOns
<1> QED
  BY <1>5, <1>6

LEMMA CloserStep ==
  IInv /\ DownIsIdle /\ [Next]_vars => [Stranded => ComesCloser]_vars
<1> SUFFICES ASSUME IInv, DownIsIdle, Next, Stranded PROVE ComesCloser
  OBVIOUS
<1>1. Down \notin menu
  BY ProbationKernels DEF IInv, TypeOK
<1>2. Boot
  BY <1>1 DEF Stranded, DownIsIdle, Next, BeginInstall, CaptureGrubState, InstallPackage,
     RegenerateBootloader, ArmOneShotBoot, BeginCommit, CommitDefault, OpenRecord, WriteRecord,
     BeginRollback, RemovePackage, CleanMenu, OpenMark, MarkRolledBack, Interrupt, GoDown
<1> QED
  BY <1>2, BootStep

\* While its saved entry is there, or the default comes up anyway, a machine
\* that is down is up after it was switched on twice at most, whatever kernel
\* was armed and whatever step of whatever command lost its power.
THEOREM SecondBootComesUp == Spec => [][Stranded => ComesCloser]_vars
<1>1. Init => DownIsIdle
  BY DEF Init, DownIsIdle
<1> QED
  BY <1>1, NextIdle, CloserStep, ProbationInv, PTL DEF Spec

-----------------------------------------------------------------------------
(***************************************************************************)
(* The scripts that build, boot-test and install a kernel in one go, up to *)
(* the probation above: HardwareSmoke, whose variables are its own.        *)
(***************************************************************************)
\* Where a script builds; its boot test and its report follow at once.
BuildAt == IF run.driver = "candidate" THEN 7 ELSE 8

Runs == [driver : Drivers, version : Versions, deps : BOOLEAN, install : BOOLEAN,
         stamp : BOOLEAN, target : {"auto", "kernel-only"}, method : {"qemu", "virtme"},
         marker : Nat, packages : SUBSET Nat, source : Versions \cup {NoVersion}]

TreeStates == [files : {"none", "partial", "whole"}, config : {"none", "virtio", "bare"},
               linked : 0 .. MaxBuilds]

Linked == [version : Versions, localversion : Nat, packaged : BOOLEAN, guest : Guests]

(***************************************************************************)
(* The inductive invariant.  HostInv: the kernels linked, in order, and    *)
(* trees that hold none newer.  RunInv: what a script knows, and that it   *)
(* links one kernel only.  BuiltInv: past the build, its tree and, past    *)
(* the boot test, the record are about that kernel; past the report, the   *)
(* packages are at most that kernel's or, the Python script's, those of    *)
(* its release.                                                            *)
(***************************************************************************)
HostInv ==
  /\ builds \in Seq(Linked) /\ Len(builds) <= MaxBuilds
  /\ final # NoFile => final \in Nat /\ final <= Len(builds) + 1
  /\ \A v \in Versions : trees[v].linked <= Len(builds)

RunInv ==
  at # 0 =>
    /\ run \in Runs
    /\ run.driver = "candidate" \/ at > 6 => run.source \in Versions
    /\ run.packages \subseteq DOMAIN builds
    /\ at > (IF run.driver = "candidate" THEN 3 ELSE 6) => final # NoFile
    /\ at <= BuildAt => run.marker = Len(builds)

BuiltInv ==
  /\ at > BuildAt => /\ Len(builds) = run.marker + 1
                     /\ trees[run.source].linked = Len(builds)
  /\ at > BuildAt + 1 => record = [build |-> Len(builds), ok |-> TRUE]
  /\ at > BuildAt + 2 => \/ run.packages \subseteq {Len(builds)}
                         \/ /\ run.driver = "smoke.py"
                            /\ \A i \in run.packages : Release(i) = Release(Len(builds))

SmokeInv == SmokeTypeOK /\ HostInv /\ RunInv /\ BuiltInv

\* The steps of the three scripts, by their place.
LEMMA ScriptPositions ==
  ASSUME at \in 0 .. 11, at # 0, run.driver \in Drivers
  PROVE  /\ At("configure") => at = 6 /\ run.driver # "candidate"
         /\ At("find_config") => at = 3 /\ run.driver = "candidate"
         /\ At("stamp") => at = BuildAt - 1
         /\ At("build") => at = BuildAt
         /\ At("boot_test") => at = BuildAt + 1
         /\ At("report") => at = BuildAt + 2
         /\ At("install") => at = 11
         /\ At("deps") \/ At("scan") => at <= 3 /\ (run.driver = "candidate" => at <= 2)
         /\ At("fetch") => at = 5 /\ run.driver # "candidate"
         /\ At("preflight") => at = 1 /\ run.driver # "candidate"
         /\ At("preflight_snapshot") => at = 4 /\ run.driver # "candidate"
         /\ At("preflight_build") => at = 4 /\ run.driver = "candidate"
         /\ At("preflight_boot_test") => at = 5 /\ run.driver = "candidate"
         /\ At("preflight_install") => at = 10 /\ run.driver = "candidate"
<1>1. CASE run.driver = "candidate"
  BY <1>1 DEF At, Script, Candidate, BuildAt
<1>2. CASE run.driver # "candidate"
  BY <1>2 DEF At, Script, Smoke, BuildAt
<1> QED
  BY <1>1, <1>2

-----------------------------------------------------------------------------
LEMMA ScriptLength == Len(Smoke) = 11
BY DEF Smoke

\* A tree of which only a part was unpacked is otherwise as it was.
LEMMA Unpacked ==
  ASSUME trees \in [Versions -> TreeStates], NEW v \in Versions,
         trees' = [trees EXCEPT ![v].files = "partial"]
  PROVE  /\ trees' \in [Versions -> TreeStates]
         /\ \A w \in Versions : trees'[w].linked = trees[w].linked
<1> DEFINE t == [trees[v] EXCEPT !.files = "partial"]
<1>1. t \in TreeStates /\ t.linked = trees[v].linked
  BY DEF TreeStates
<1>2. trees' = [trees EXCEPT ![v] = t]
  OBVIOUS
<1> QED
  BY <1>1, <1>2

LEMMA SmokeStarts == SmokeInit => SmokeInv
<1> SUFFICES ASSUME SmokeInit PROVE SmokeInv
  OBVIOUS
<1> USE SmokeAssumption DEF SmokeInit
<1>1. SmokeTypeOK
  <2>1. at \in 0 .. Len(Smoke) /\ deps \subseteq Deps /\ blocked \subseteq Settings
    BY ScriptLength
  <2>2. trees \in [Versions -> TreeStates]
    BY DEF TreeStates
  <2>3. record \in [build : 0 .. Len(builds), ok : BOOLEAN]
    OBVIOUS
  <2>4. scanned \in BOOLEAN /\ final = NoFile /\ armed = {} /\ recent = NoVersion
    OBVIOUS
  <2>5. faults \in 0 .. MaxFaults
    OBVIOUS
  <2> HIDE DEF SmokeInit
  <2> QED
    BY <2>1, <2>2, <2>3, <2>4, <2>5 DEF SmokeTypeOK, TreeStates
<1>2. HostInv /\ RunInv /\ BuiltInv
  BY DEF HostInv, RunInv, BuiltInv, BuildAt, Idle
<1> QED
  BY <1>1, <1>2 DEF SmokeInv

\* Whichever tree is located, it is that of some version.
LEMMA SourceIsVersion ==
  ASSUME NEW v \in Versions
  PROVE  /\ find_kernel_source(v) \subseteq Versions
         /\ resolve_source_dir(v) \subseteq Versions
BY SmokeAssumption DEF find_kernel_source, resolve_source_dir

\* A script that ends leaves nothing to keep.
LEMMA SmokeStops ==
  ASSUME at' = 0
  PROVE  RunInv' /\ BuiltInv'
BY DEF RunInv, BuiltInv, BuildAt

\* A step that neither configures, builds, tests nor reports keeps what is known.
LEMMA SmokeGoesOn ==
  ASSUME SmokeInv, at # 0, Advance, UNCHANGED <<final, builds, record>>,
         \A v \in Versions : trees'[v].linked = trees[v].linked,
         at \notin {BuildAt - 1, BuildAt, BuildAt + 1, BuildAt + 2, 11},
         at # (IF run.driver = "candidate" THEN 3 ELSE 6)
  PROVE  HostInv' /\ RunInv' /\ BuiltInv'
<1>1. at \in Nat /\ at' = at + 1 /\ UNCHANGED <<run, final, builds, record>> /\ at # 0 /\ at <= 11
  BY ScriptLength DEF Advance, SmokeInv, SmokeTypeOK
<1>2. HostInv'
  BY <1>1 DEF SmokeInv, HostInv
<1>3. RunInv'
  BY <1>1 DEF SmokeInv, RunInv, BuildAt
<1>4. BuiltInv'
  <2>1. at' > BuildAt' => at > BuildAt /\ run.source \in Versions
    BY <1>1 DEF SmokeInv, RunInv, BuildAt
  <2> QED
    BY <1>1, <2>1 DEF SmokeInv, BuiltInv, BuildAt
<1> QED
  BY <1>2, <1>3, <1>4

\* A kernel that is linked is the newest, and its tree says so.
LEMMA SmokeLinks ==
  ASSUME SmokeInv, at = BuildAt, at # 0, UNCHANGED final,
         NEW packaged \in BOOLEAN, NEW guest \in Guests, NEW config \in {"virtio", "bare"},
         Link(packaged, guest, config)
  PROVE  /\ HostInv' /\ run.source \in Versions /\ recent' = run.source
         /\ Len(builds') = Len(builds) + 1
         /\ DOMAIN builds \subseteq DOMAIN builds'
         /\ trees'[run.source].linked = Len(builds')
         /\ trees' \in [Versions -> TreeStates]
<1> DEFINE built == [version |-> run.source, localversion |-> final,
                     packaged |-> packaged, guest |-> guest]
<1>1. /\ builds' = Append(builds, built) /\ builds \in Seq(Linked)
      /\ Len(builds) \in Nat /\ Len(builds) < MaxBuilds /\ MaxBuilds \in Nat
  BY SmokeAssumption DEF Link, SmokeInv, HostInv
<1>2. run.source \in Versions /\ final # NoFile /\ final \in Nat /\ final <= Len(builds) + 1
  BY DEF SmokeInv, RunInv, HostInv, BuildAt
<1>3. built \in Linked
  BY <1>2 DEF Linked
<1>4. /\ builds' \in Seq(Linked) /\ Len(builds') = Len(builds) + 1
      /\ builds'[Len(builds) + 1] = built
      /\ \A i \in 1 .. Len(builds) : builds'[i] = builds[i]
  BY <1>1, <1>3
<1>5. trees' \in [Versions -> TreeStates]
  <2> DEFINE t == [trees[run.source] EXCEPT !.linked = Len(builds) + 1, !.config = config]
  <2>1. trees \in [Versions -> TreeStates]
    BY DEF SmokeInv, SmokeTypeOK, TreeStates
  <2>2. t \in TreeStates
    <3>1. Len(builds) + 1 \in 0 .. MaxBuilds
      BY <1>1
    <3>2. trees[run.source] \in TreeStates
      BY <1>2, <2>1
    <3>3. [trees[run.source] EXCEPT !.linked = Len(builds) + 1] \in TreeStates
      BY <3>1, <3>2 DEF TreeStates
    <3> QED
      BY <3>3 DEF TreeStates
  <2>3. trees' = [trees EXCEPT ![run.source] = t]
    BY <1>2, <2>1 DEF Link
  <2> QED
    BY <1>2, <2>1, <2>2, <2>3
<1>6. /\ trees'[run.source].linked = Len(builds) + 1
      /\ \A v \in Versions : trees'[v].linked \in {trees[v].linked, Len(builds) + 1}
  BY <1>2 DEF Link, SmokeInv, SmokeTypeOK
<1>7. HostInv'
  <2>2. \A v \in Versions : trees'[v].linked <= Len(builds')
    <3> TAKE v \in Versions
    <3>1. trees[v].linked \in Nat /\ trees[v].linked <= Len(builds)
      BY DEF SmokeInv, HostInv, SmokeTypeOK
    <3> QED
      BY <1>1, <1>4, <1>6, <3>1
  <2>3. Len(builds') <= MaxBuilds
    BY <1>1, <1>4
  <2>4. final' # NoFile => final' \in Nat /\ final' <= Len(builds') + 1
    BY <1>1, <1>2, <1>4
  <2> QED
    BY <1>4, <2>2, <2>3, <2>4 DEF HostInv
<1> QED
  BY <1>1, <1>2, <1>4, <1>5, <1>6, <1>7 DEF Link

-----------------------------------------------------------------------------
(* Types of the scripts.                                                   *)

LEMMA SmokeTypeStep == SmokeInv /\ [SmokeNext]_smokeVars => SmokeTypeOK'
<1> SUFFICES ASSUME SmokeInv, [SmokeNext]_smokeVars PROVE SmokeTypeOK'
  OBVIOUS
<1> USE DEF SmokeInv, SmokeTypeOK, TreeStates
<1>0. at \in 0 .. 11 /\ (at # 0 => run \in Runs /\ run.driver \in Drivers)
  BY ScriptLength DEF RunInv, Runs
<1>1. ASSUME NEW o \in Options, Start(o) PROVE SmokeTypeOK'
  BY <1>1, ScriptLength DEF Start
<1>2. ASSUME NEW step, NEW for, NEW snapshot, NEW source,
             Preflight(step, for, snapshot, source),
             step # "install"
      PROVE  SmokeTypeOK'
  <2>1. at \in 1 .. 10
    BY <1>0, <1>2 DEF Preflight, At, Script, Smoke, Candidate
  <2>2. at' \in 0 .. 11
    BY <1>2, <2>1 DEF Preflight, Advance, Stop
  <2> QED
    BY <1>2, <2>2, ScriptLength DEF Preflight
<1>3. CASE Preflights
  BY <1>2, <1>3 DEF Preflights
<1>4. CASE InstallDeps \/ Scan \/ FindConfig
  <2>1. at \in 1 .. 3
    BY <1>0, <1>4, ScriptPositions DEF InstallDeps, Scan, FindConfig, At
  <2>2. at' \in 0 .. 11
    BY <1>4, <2>1 DEF InstallDeps, Scan, FindConfig, Advance, Stop
  <2>3. deps' \subseteq Deps
    BY <1>4 DEF InstallDeps, Scan, FindConfig, Deps
  <2> QED
    BY <1>4, <2>2, <2>3, ScriptLength DEF InstallDeps, Scan, FindConfig
<1>5. CASE Fetch
  <2>1. at = 5 /\ at' = 6
    BY <1>0, <1>5, ScriptPositions DEF Fetch, At, Advance
  <2>2. run.version \in Versions
    BY <1>0, <2>1 DEF Runs
  <2>3. trees' \in [Versions -> TreeStates]
    BY <1>5, <2>2 DEF Fetch
  <2> QED
    BY <1>5, <2>1, <2>3, ScriptLength DEF Fetch
<1>6. CASE Configure
  <2>1. at = 6 /\ at' = 7
    BY <1>0, <1>6, ScriptPositions DEF Configure, At
  <2> QED
    BY <1>6, <2>1, ScriptLength, SmokeAssumption DEF Configure
<1>7. CASE SetConfigString
  <2>1. at \in 6 .. 7 /\ at' = at + 1
    BY <1>0, <1>7, ScriptPositions DEF SetConfigString, At, Advance, BuildAt
  <2>2. final' # NoFile => final' \in 0 .. (MaxBuilds + 1)
    BY <1>7, SmokeAssumption DEF SetConfigString, HostInv
  <2> QED
    BY <1>7, <2>1, <2>2, ScriptLength DEF SetConfigString
<1>8. CASE Build
  <2>1. at = BuildAt /\ at # 0 /\ at' \in 0 .. 11
    BY <1>0, <1>8, ScriptPositions DEF Build, At, Advance, BuildAt
  <2>2. PICK packaged \in BOOLEAN, guest \in Guests, config \in {"virtio", "bare"} :
          Link(packaged, guest, config)
    BY <1>8 DEF Build, Link
  <2>3. UNCHANGED final
    BY <1>8 DEF Build
  <2>4. /\ run.source \in Versions /\ recent' = run.source
        /\ Len(builds') = Len(builds) + 1
        /\ DOMAIN builds \subseteq DOMAIN builds'
        /\ trees' \in [Versions -> TreeStates]
    BY <2>1, <2>2, <2>3, SmokeLinks
  <2> QED
    BY <1>8, <2>1, <2>4, ScriptLength DEF Build, HostInv
<1>9. CASE BuildCannot
  <2>1. run.source \in Versions /\ at' = 0
    BY <1>0, <1>9, ScriptPositions DEF BuildCannot, At, RunInv, BuildAt, Stop
  <2> QED
    BY <1>9, <2>1, ScriptLength DEF BuildCannot
<1>10. CASE BuildFails /\ faults < MaxFaults
  <2>1. at = BuildAt /\ at # 0
    BY <1>0, <1>10, ScriptPositions DEF BuildFails, At
  <2>2. PICK packaged \in BOOLEAN, guest \in Guests, config \in {"virtio", "bare"} :
          Link(packaged, guest, config)
    BY <1>10 DEF BuildFails, Link
  <2>3. UNCHANGED final
    BY <1>10 DEF BuildFails
  <2>4. /\ run.source \in Versions /\ recent' = run.source
        /\ Len(builds') = Len(builds) + 1
        /\ DOMAIN builds \subseteq DOMAIN builds'
        /\ trees' \in [Versions -> TreeStates]
    BY <2>1, <2>2, <2>3, SmokeLinks
  <2>5. faults' \in 0 .. MaxFaults
    BY <1>10, SmokeAssumption DEF BuildFails
  <2> QED
    BY <1>10, <2>4, <2>5, ScriptLength DEF BuildFails, HostInv, Stop
<1>11. CASE BootTest
  <2>1. at = BuildAt + 1 /\ at' \in 0 .. 11
    BY <1>0, <1>11, ScriptPositions DEF BootTest, At, Advance, Stop, BuildAt
  <2>2. trees[run.source].linked \in 0 .. Len(builds)
    BY <1>0, <2>1, <1>11 DEF BuiltInv, RunInv, BuildAt, BootTest, At, HostInv
  <2>3. analyze_serial(builds[trees[run.source].linked].guest) \in BOOLEAN
    BY DEF analyze_serial
  <2>4. record' \in [build : 0 .. Len(builds), ok : BOOLEAN]
    BY <1>11, <2>2, <2>3 DEF BootTest
  <2> QED
    BY <1>11, <2>1, <2>4, ScriptLength DEF BootTest
<1>12. CASE Report
  <2>1. at' \in 0 .. 11
    BY <1>0, <1>12, ScriptPositions DEF Report, At, Stop, BuildAt
  <2> QED
    BY <1>12, <2>1, ScriptLength DEF Report
<1>13. CASE Install
  <2>1. run.packages \subseteq DOMAIN builds /\ at' = 0
    BY <1>13 DEF Install, At, RunInv, Stop
  <2> QED
    BY <1>13, <2>1, ScriptLength DEF Install
<1>14. CASE (InstallDepsFails \/ FetchFails \/ CommandFails) /\ faults < MaxFaults
  <2>1. faults' \in 0 .. MaxFaults
    BY <1>14, SmokeAssumption DEF InstallDepsFails, FetchFails, CommandFails
  <2>2. at' = 0
    BY <1>14 DEF InstallDepsFails, FetchFails, CommandFails, Stop
  <2>3. deps' \subseteq Deps
    BY <1>14 DEF InstallDepsFails, FetchFails, CommandFails, Deps
  <2>4. /\ trees' \in [Versions -> TreeStates]
        /\ recent' \in Versions \cup {NoVersion}
    <3>1. CASE FetchFails
      <4>1. run.version \in Versions
        BY <1>0, <3>1 DEF FetchFails, At, Runs
      <4>2. \/ trees' = [trees EXCEPT ![run.version].files = "partial"] /\ recent' = run.version
            \/ UNCHANGED <<trees, recent>>
        BY <3>1 DEF FetchFails
      <4>3. trees \in [Versions -> TreeStates]
        OBVIOUS
      <4>4. trees' \in [Versions -> TreeStates] /\ recent' \in Versions \cup {NoVersion}
        <5> HIDE DEF SmokeTypeOK, TreeStates
        <5>1. recent \in Versions \cup {NoVersion}
          BY DEF SmokeTypeOK
        <5> QED
          BY <4>1, <4>2, <4>3, <5>1, Unpacked
      <4> QED
        BY <4>4
    <3>2. CASE InstallDepsFails \/ CommandFails
      BY <3>2 DEF InstallDepsFails, CommandFails
    <3> QED
      BY <1>14, <3>1, <3>2
  <2> QED
    BY <1>14, <2>1, <2>2, <2>3, <2>4, ScriptLength
       DEF InstallDepsFails, FetchFails, CommandFails
<1>15. ASSUME NEW c \in Settings, Settle(c) PROVE SmokeTypeOK'
  BY <1>15 DEF Settle
<1>16. CASE UNCHANGED smokeVars
  BY <1>16 DEF smokeVars
<1> QED
  BY <1>1, <1>3, <1>4, <1>5, <1>6, <1>7, <1>8, <1>9, <1>10, <1>11, <1>12, <1>13, <1>14,
     <1>15, <1>16 DEF SmokeNext, Step, Fault

-----------------------------------------------------------------------------
(* How far a script is.                                                    *)

LEMMA SmokePhaseStep == SmokeInv /\ [SmokeNext]_smokeVars => HostInv' /\ RunInv' /\ BuiltInv'
<1> SUFFICES ASSUME SmokeInv, [SmokeNext]_smokeVars PROVE HostInv' /\ RunInv' /\ BuiltInv'
  OBVIOUS
<1>0. at \in 0 .. 11 /\ (at # 0 => run \in Runs /\ run.driver \in Drivers)
  BY ScriptLength DEF SmokeInv, SmokeTypeOK, RunInv, Runs
<1>1. ASSUME at' = 0, HostInv' PROVE HostInv' /\ RunInv' /\ BuiltInv'
  BY <1>1, SmokeStops
<1>2. ASSUME UNCHANGED <<builds, final, trees>> PROVE HostInv'
  BY <1>2 DEF SmokeInv, HostInv
<1>3. ASSUME NEW o \in Options, Start(o) PROVE HostInv' /\ RunInv' /\ BuiltInv'
  <2>1. HostInv'
    BY <1>2, <1>3 DEF Start
  <2>2. at' = 1 /\ run' \in Runs /\ run'.marker = Len(builds) /\ run'.packages = {}
    BY <1>3, SmokeAssumption DEF Start, Runs, SmokeInv, HostInv
  <2>3. run'.driver = "candidate" => run'.source \in Versions
    BY <1>3, SmokeAssumption DEF Start
  <2>4. UNCHANGED builds
    BY <1>3 DEF Start
  <2> QED
    BY <2>1, <2>2, <2>3, <2>4 DEF RunInv, BuiltInv, BuildAt
<1>4. CASE Preflights
  <2>1. CASE at' = 0
    BY <1>1, <1>2, <1>4, <2>1 DEF Preflights, Preflight
  <2>2. CASE at' # 0
    <3>1. Advance /\ at # 0 /\ UNCHANGED <<final, builds, record, trees>>
      BY <1>4, <2>2 DEF Preflights, Preflight, Stop, At
    <3>2. /\ at \notin {BuildAt - 1, BuildAt, BuildAt + 1, BuildAt + 2, 11}
          /\ at # (IF run.driver = "candidate" THEN 3 ELSE 6)
      <4>1. \/ At("preflight") \/ At("preflight_snapshot") \/ At("preflight_build")
            \/ At("preflight_boot_test") \/ At("preflight_install")
        BY <1>4 DEF Preflights, Preflight
      <4>2. \/ run.driver # "candidate" /\ at \in {1, 4}
            \/ run.driver = "candidate" /\ at \in {4, 5, 10}
        BY <1>0, <3>1, <4>1, ScriptPositions
      <4> QED
        BY <4>2 DEF BuildAt
    <3> QED
      BY <3>1, <3>2, SmokeGoesOn
  <2> QED
    BY <2>1, <2>2
<1>5. CASE InstallDeps \/ Scan
  <2>1. Advance /\ at # 0 /\ UNCHANGED <<final, builds, record, trees>>
    BY <1>5 DEF InstallDeps, Scan, At
  <2>2. /\ at \notin {BuildAt - 1, BuildAt, BuildAt + 1, BuildAt + 2, 11}
        /\ at # (IF run.driver = "candidate" THEN 3 ELSE 6)
    BY <1>0, <1>5, <2>1, ScriptPositions DEF InstallDeps, Scan, BuildAt
  <2> QED
    BY <2>1, <2>2, SmokeGoesOn
<1>6. CASE FindConfig
  <2>1. at = 3 /\ run.driver = "candidate" /\ HostInv' /\ UNCHANGED builds
    BY <1>0, <1>2, <1>6, ScriptPositions DEF FindConfig, At
  <2>2. CASE at' = 0
    BY <1>1, <2>1, <2>2
  <2>3. CASE at' # 0
    BY <1>6, <2>1, <2>3
       DEF FindConfig, Advance, Stop, SmokeInv, RunInv, BuiltInv, BuildAt
  <2> QED
    BY <2>2, <2>3
<1>7. CASE Fetch
  <2>1. at = 5 /\ run.driver # "candidate" /\ Advance /\ UNCHANGED <<final, builds, record>>
    BY <1>0, <1>7, ScriptPositions DEF Fetch, At
  <2>2. \A v \in Versions : trees'[v].linked = trees[v].linked
    BY <1>7 DEF Fetch, SmokeInv, SmokeTypeOK
  <2> QED
    BY <2>1, <2>2, SmokeGoesOn DEF BuildAt
<1>8. CASE Configure
  <2>1. at = 6 /\ run.driver # "candidate" /\ at' = 7 /\ run \in Runs
    BY <1>0, <1>8, ScriptPositions DEF Configure, At
  <2>2. PICK source \in Versions : run' = [run EXCEPT !.source = source]
    <3>1. /\ find_kernel_source(run.version) \subseteq Versions
          /\ resolve_source_dir(run.version) \subseteq Versions
      BY <2>1, SourceIsVersion DEF Runs
    <3> QED
      BY <1>8, <3>1 DEF Configure
  <2>3. run' \in Runs /\ run'.source \in Versions /\ run'.driver = run.driver
    BY <2>1, <2>2 DEF Runs
  <2>4. run'.marker = run.marker /\ run'.packages = run.packages /\ run'.stamp = run.stamp
    BY <2>1, <2>2 DEF Runs
  <2>5. final' = 0 /\ UNCHANGED <<builds, trees>>
    BY <1>8 DEF Configure
  <2>6. HostInv'
    BY <2>5 DEF SmokeInv, HostInv
  <2> QED
    BY <2>1, <2>3, <2>4, <2>5, <2>6, SmokeAssumption DEF SmokeInv, RunInv, BuiltInv, BuildAt
<1>9. CASE SetConfigString
  <2>1. at = BuildAt - 1 /\ at # 0 /\ at' = at + 1 /\ UNCHANGED <<run, builds, trees>>
    BY <1>0, <1>9, ScriptPositions DEF SetConfigString, Advance, At
  <2>2. final' \in 1 .. (Len(builds) + 1) \/ final' = final
    BY <1>9 DEF SetConfigString
  <2>3. HostInv'
    BY <2>1, <2>2 DEF SmokeInv, HostInv
  <2>4. final' # NoFile
    BY <2>1, <2>2, SmokeAssumption DEF SmokeInv, RunInv, BuildAt, HostInv
  <2> QED
    BY <2>1, <2>2, <2>3, <2>4 DEF SmokeInv, RunInv, BuiltInv, BuildAt
<1>10. CASE Build
  <2>1. at = BuildAt /\ at # 0 /\ at' = at + 1 /\ UNCHANGED <<run, final>>
    BY <1>0, <1>10, ScriptPositions DEF Build, At, Advance
  <2>2. PICK packaged \in BOOLEAN, guest \in Guests, config \in {"virtio", "bare"} :
          Link(packaged, guest, config)
    BY <1>10 DEF Build
  <2>3. /\ HostInv' /\ run.source \in Versions
        /\ Len(builds') = Len(builds) + 1
        /\ DOMAIN builds \subseteq DOMAIN builds'
        /\ trees'[run.source].linked = Len(builds')
    BY <2>1, <2>2, SmokeLinks
  <2>4. RunInv'
    BY <2>1, <2>3 DEF SmokeInv, RunInv, BuildAt
  <2>5. BuiltInv'
    BY <2>1, <2>3 DEF SmokeInv, RunInv, HostInv, BuiltInv, BuildAt
  <2> QED
    BY <2>3, <2>4, <2>5
<1>11. CASE BuildCannot
  BY <1>1, <1>2, <1>11 DEF BuildCannot, Stop
<1>12. CASE BuildFails
  <2>1. at = BuildAt /\ at # 0 /\ at' = 0 /\ UNCHANGED final
    BY <1>0, <1>12, ScriptPositions DEF BuildFails, At, Stop
  <2>2. PICK guest \in Guests, config \in {"virtio", "bare"} : Link(FALSE, guest, config)
    BY <1>12 DEF BuildFails
  <2> QED
    BY <1>1, <2>1, <2>2, SmokeLinks
<1>13. CASE BootTest
  <2>1. at = BuildAt + 1 /\ at # 0 /\ UNCHANGED <<builds, final, trees>>
    BY <1>0, <1>13, ScriptPositions DEF BootTest, At
  <2>2. CASE at' = 0
    BY <1>1, <1>2, <2>1, <2>2
  <2>3. CASE at' # 0
    <3>1. Advance /\ record' = [build |-> trees[run.source].linked, ok |-> TRUE]
      BY <1>13, <2>3 DEF BootTest, Stop, Advance
    <3>2. at' = at + 1 /\ UNCHANGED run /\ HostInv'
      BY <1>2, <2>1, <3>1 DEF Advance
    <3> QED
      <4>1. trees[run.source].linked = Len(builds) /\ Len(builds) = run.marker + 1
        BY <1>0, <2>1 DEF SmokeInv, BuiltInv, BuildAt
      <4>2. RunInv'
        BY <1>0, <2>1, <3>2 DEF SmokeInv, RunInv, BuildAt
      <4>3. BuiltInv'
        BY <1>0, <2>1, <3>1, <3>2, <4>1 DEF SmokeInv, BuiltInv, BuildAt
      <4> QED
        BY <3>2, <4>2, <4>3
  <2> QED
    BY <2>2, <2>3
<1>14. CASE Report
  <2>1. at = BuildAt + 2 /\ at # 0 /\ at \in Nat /\ UNCHANGED <<builds, final, trees, record>>
    BY <1>0, <1>14, ScriptPositions DEF Report, At
  <2>2. CASE at' = 0
    BY <1>1, <1>2, <2>1, <2>2
  <2>3. CASE at' # 0
    <3> DEFINE n == Len(builds)
    <3>1. /\ n = run.marker + 1 /\ n \in Nat /\ trees[run.source].linked = n
          /\ DOMAIN builds = 1 .. n /\ run \in Runs
      <4>1. at > BuildAt
        BY <1>0, <2>1 DEF BuildAt
      <4>2. builds \in Seq(Linked)
        BY DEF SmokeInv, HostInv
      <4> QED
        BY <1>0, <2>1, <4>1, <4>2 DEF SmokeInv, BuiltInv
    <3>2. find_built_packages(run.marker) \subseteq {n}
      BY <3>1 DEF find_built_packages, Runs
    <3>3. run.driver = "smoke.py" =>
            /\ find_packages(n) \subseteq DOMAIN builds
            /\ \A i \in find_packages(n) : Release(i) = Release(n)
      BY DEF find_packages
    <3>4. PICK packages \in SUBSET (DOMAIN builds) :
            /\ run' = [run EXCEPT !.packages = packages]
            /\ \/ packages \subseteq {n}
               \/ run.driver = "smoke.py" /\ \A i \in packages : Release(i) = Release(n)
      <4> DEFINE p == IF run.driver = "smoke.py" THEN find_packages(n)
                      ELSE find_built_packages(run.marker)
      <4>1. run' = [run EXCEPT !.packages = p]
        BY <1>14, <2>3, <3>1 DEF Report, Stop
      <4>2. p \in SUBSET (DOMAIN builds)
        BY <3>3 DEF find_built_packages
      <4>3. CASE run.driver = "smoke.py"
        BY <3>3, <4>1, <4>2, <4>3
      <4>4. CASE run.driver # "smoke.py"
        BY <3>2, <4>1, <4>2, <4>4
      <4> QED
        BY <4>3, <4>4
    <3>5. /\ run' \in Runs /\ run'.driver = run.driver
          /\ run'.source = run.source /\ run'.marker = run.marker /\ run'.packages = packages
      <4>1. DOMAIN builds \subseteq Nat
        BY <3>1
      <4>2. packages \in SUBSET Nat
        BY <4>1
      <4> QED
        BY <3>1, <3>4, <4>2 DEF Runs
    <3>6. at' = at + 1 /\ HostInv' /\ packages \subseteq DOMAIN builds
      <4>1. at' = at + 1
        BY <1>14, <2>3 DEF Report, Stop
      <4> QED
        BY <1>2, <2>1, <4>1
    <3>7. RunInv'
      BY <2>1, <3>5, <3>6 DEF SmokeInv, RunInv, BuildAt
    <3>8. BuiltInv'
      <4>1. \A i : Release(i)' = Release(i)
        BY <2>1 DEF Release
      <4> QED
        BY <2>1, <3>4, <3>5, <3>6, <4>1 DEF SmokeInv, BuiltInv, BuildAt
    <3> QED
      BY <3>6, <3>7, <3>8
  <2> QED
    BY <2>2, <2>3
<1>15. CASE Install
  BY <1>1, <1>2, <1>15 DEF Install, Stop
<1>16. CASE InstallDepsFails \/ FetchFails \/ CommandFails
  <2>1. at' = 0 /\ UNCHANGED <<builds, final>>
    BY <1>16 DEF InstallDepsFails, FetchFails, CommandFails, Stop
  <2>2. \A v \in Versions : trees'[v].linked = trees[v].linked
    <3>1. \/ trees' = [trees EXCEPT ![run.version].files = "partial"] /\ run.version \in Versions
          \/ UNCHANGED trees
      BY <1>0, <1>16 DEF InstallDepsFails, FetchFails, CommandFails, At, Runs
    <3>2. trees \in [Versions -> TreeStates]
      BY DEF SmokeInv, SmokeTypeOK, TreeStates
    <3> QED
      BY <3>1, <3>2, Unpacked
  <2>3. HostInv'
    BY <2>1, <2>2 DEF SmokeInv, HostInv
  <2> QED
    BY <1>1, <2>1, <2>3
<1>17. ASSUME NEW c \in Settings, Settle(c) PROVE HostInv' /\ RunInv' /\ BuiltInv'
  <2>1. UNCHANGED <<at, run, final, trees, builds, record>>
    BY <1>17 DEF Settle
  <2> QED
    BY <1>2, <2>1 DEF SmokeInv, RunInv, BuiltInv, BuildAt, Release
<1>18. CASE UNCHANGED smokeVars
  <2>1. UNCHANGED <<at, run, final, trees, builds, record>>
    BY <1>18 DEF smokeVars
  <2> QED
    BY <1>2, <2>1 DEF SmokeInv, RunInv, BuiltInv, BuildAt, Release
<1> QED
  BY <1>3, <1>4, <1>5, <1>6, <1>7, <1>8, <1>9, <1>10, <1>11, <1>12, <1>13, <1>14, <1>15,
     <1>16, <1>17, <1>18 DEF SmokeNext, Step, Fault

-----------------------------------------------------------------------------
LEMMA SmokeSpecInv == SmokeSpec => []SmokeInv
<1>1. SmokeInv /\ [SmokeNext]_smokeVars => SmokeInv'
  BY SmokeTypeStep, SmokePhaseStep DEF SmokeInv
<1> QED
  BY SmokeStarts, <1>1, PTL DEF SmokeSpec

Tested ==
  armed' # armed =>
    LET built == trees[run.source].linked
    IN  /\ built > run.marker
        /\ record = [build |-> built, ok |-> TRUE]
        /\ \A i \in armed' : Release(i) = Release(built)
        /\ \/ armed' = {built}
           \/ /\ run.driver = "smoke.py"
              /\ \E i \in 1..run.marker : Release(i) = Release(built)

\* Only the last step arms anything, and all phases are behind it.
LEMMA SmokeInstallStep == SmokeInv /\ [SmokeNext]_smokeVars => Tested
<1> SUFFICES ASSUME SmokeInv, [SmokeNext]_smokeVars, armed' # armed PROVE Tested
  BY DEF Tested
<1>1. Install
  BY DEF SmokeNext, Step, Fault, Start, Preflights, Preflight, InstallDeps,
         Scan, FindConfig, Fetch, Configure, SetConfigString, Build,
         BuildCannot, BootTest, Report, InstallDepsFails, FetchFails,
         BuildFails, CommandFails, Settle, smokeVars
<1>2. at = 11 /\ run \in Runs /\ run.packages # {} /\ armed' = run.packages
  <2>1. at \in 0 .. 11 /\ at # 0 /\ run \in Runs
    BY <1>1, ScriptLength DEF Install, At, SmokeInv, SmokeTypeOK, RunInv
  <2> QED
    BY <1>1, <2>1, ScriptPositions DEF Install, Runs
<1> DEFINE n == Len(builds)
<1>3. /\ n = run.marker + 1 /\ n \in Nat /\ run.marker \in Nat
      /\ trees[run.source].linked = n /\ record = [build |-> n, ok |-> TRUE]
      /\ run.packages \subseteq 1 .. n
  BY <1>2 DEF SmokeInv, HostInv, RunInv, BuiltInv, BuildAt, Runs
<1>4. \/ run.packages \subseteq {n}
      \/ run.driver = "smoke.py" /\ \A i \in run.packages : Release(i) = Release(n)
  BY <1>2 DEF SmokeInv, BuiltInv, BuildAt
<1>5. CASE run.packages \subseteq {n}
  BY <1>2, <1>3, <1>5 DEF Tested
<1>6. CASE ~(run.packages \subseteq {n})
  <2>1. PICK i \in run.packages : i # n
    BY <1>6
  <2>2. i \in 1 .. run.marker /\ Release(i) = Release(n)
    BY <1>3, <1>4, <1>6, <2>1
  <2> QED
    BY <1>2, <1>3, <1>4, <1>6, <2>2 DEF Tested
<1> QED
  BY <1>5, <1>6

\* What the scripts keep, and what they find of earlier runs, stays of its type.
THEOREM ScriptTypes == SmokeSpec => []SmokeTypeOK
<1>1. SmokeInv => SmokeTypeOK
  BY DEF SmokeInv
<1> QED
  BY <1>1, SmokeSpecInv, PTL

(* What a script arms is of the release it linked itself and that passed  *)
(* the boot test, and is that kernel's own package alone unless the Python *)
(* script repeats a localversion, for every host, cache of trees and       *)
(* packages, set of command lines and number of runs, interrupted or not.  *)
THEOREM InstallsTested == SmokeSpec => InstallsWhatItTested
<1>1. SmokeInv /\ [SmokeNext]_smokeVars => [Tested]_smokeVars
  BY SmokeInstallStep
<1>2. SmokeSpec => [][Tested]_smokeVars
  BY <1>1, SmokeSpecInv, PTL DEF SmokeSpec
<1> QED
  BY <1>2 DEF InstallsWhatItTested, Tested
=============================================================================
