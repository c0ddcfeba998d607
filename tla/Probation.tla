----------------------------- MODULE Probation -----------------------------
(***************************************************************************)
(* Installing a built kernel on probation, committing it, rolling it back, *)
(* and the reboots in between (install.py, rollback.py, the install and    *)
(* rollback verbs of cli.py).                                              *)
(*                                                                         *)
(* An install plan runs its steps until one fails and then writes          *)
(* install/<timestamp>/record.json, whatever came of them; rollback works  *)
(* from these records.  Probation is GRUB's one-shot entry: the new kernel *)
(* is booted once, and grub-set-default makes it permanent only on         *)
(* `install --commit`, issued from the running kernel.                     *)
(*                                                                         *)
(* GRUB and the package manager are external: of them only what the code   *)
(* relies on is modelled.  A command can be interrupted, and the machine   *)
(* can lose power, between any two steps.  The files in /boot, grubenv and *)
(* the records survive, a record as far as it was written: write_text      *)
(* empties the file first, and rollback skips what does not parse.         *)
(***************************************************************************)
EXTENDS Naturals, Sequences, FiniteSets

CONSTANTS
  Builds,    \* the kernel packages built with autokernel
  Distro,    \* the distribution's kernel
  Version,   \* Kernels -> Nat: the order grub-mkconfig lists entries in
  Bootable,  \* the kernels that come up on this machine
  MaxRecords \* bound: install records ever written

Kernels == Builds \cup {Distro}

NoEntry   == "NoEntry"    \* grubenv names nothing
NoPackage == "NoPackage" \* what a commit record lists
Down      == "down"

ASSUME ProbationKernels  == Distro \notin Builds
                            /\ {NoEntry, NoPackage, Down} \cap Kernels = {}
ASSUME ProbationVersion  == Version \in [Kernels -> Nat]
                            /\ \A a, b \in Kernels : Version[a] = Version[b] => a = b
ASSUME ProbationBootable == Bootable \subseteq Kernels /\ Distro \in Bootable
ASSUME ProbationRecords  == MaxRecords \in Nat

VARIABLES
  installed, \* the kernels in /boot
  menu,      \* the kernels grub.cfg has an entry for
  grub,      \* GRUB_DEFAULT: "saved", or "0" for the first entry
  saved,     \* grubenv saved_entry
  oneshot,   \* grubenv next_entry
  running,   \* the kernel that is up, or Down
  records,   \* install/*/record.json in the order of their timestamps
  pc,        \* the step the command in progress is at
  cmd,       \* what the command in progress is about
  committed, \* history: the distribution's kernel, and those a commit made the default
  orphans    \* history: packages of /boot whose last install died before its record

boot == <<installed, menu, grub, saved, oneshot, running>>
hist == <<committed, orphans>>
vars == <<installed, menu, grub, saved, oneshot, running, records, pc, cmd,
          committed, orphans>>

Record == [pkg : Builds \cup {NoPackage}, ok : BOOLEAN, rolledBack : BOOLEAN,
           whole : BOOLEAN]

(* A record.json that is empty or cut off, and one that is written.        *)
TornRecord == [pkg |-> NoPackage, ok |-> FALSE, rolledBack |-> FALSE, whole |-> FALSE]
Written(rolledBack) ==
  [pkg |-> cmd.pkg, ok |-> cmd.ok, rolledBack |-> rolledBack, whole |-> TRUE]

NoCommand == [pkg |-> NoPackage, arm |-> FALSE, ok |-> TRUE, rec |-> 0]

(* The first menu entry: the newest kernel that has one.                   *)
First(entries) == CHOOSE k \in entries : \A j \in entries : Version[j] <= Version[k]

(* The entry GRUB boots when no one-shot entry is set.  A saved entry that *)
(* is unset or no longer in the menu falls back to the first.              *)
DefaultEntry == IF grub = "saved" /\ saved \in menu THEN saved ELSE First(menu)

Init ==
  /\ installed = {Distro}
  /\ menu = {Distro}
  /\ grub \in {"saved", "0"}
  /\ saved \in {Distro, NoEntry}
  /\ oneshot = NoEntry
  /\ running = Distro
  /\ records = <<>>
  /\ pc = "idle"
  /\ cmd = NoCommand
  /\ committed = {Distro}
  /\ orphans = {}

(***************************************************************************)
(* The install verb up to the start of its plan.  --skip-preflight gets    *)
(* past check_grub_default_saved, whatever GRUB_DEFAULT is; without a      *)
(* kernel entry, or with --no-probation, there is no arm step.             *)
(***************************************************************************)
BeginInstall(p) ==
  /\ pc = "idle"
  /\ running # Down
  /\ Len(records) < MaxRecords
  /\ pc' = "capture"
  /\ \E arm \in BOOLEAN : cmd' = [NoCommand EXCEPT !.pkg = p, !.arm = arm]
  /\ UNCHANGED <<boot, records, hist>>

(* A step that failed: the steps after it are skipped, the record is not.  *)
StepFails == pc' = "record" /\ cmd' = [cmd EXCEPT !.ok = FALSE]

(* grub-editenv list; only reads.                                          *)
CaptureGrubState ==
  /\ pc = "capture"
  /\ \/ pc' = "package" /\ UNCHANGED cmd
     \/ StepFails
  /\ UNCHANGED <<boot, records, hist>>

(* The hooks of a kernel package may or may not regenerate the menu.       *)
Hooks == menu' \in {menu, installed'}

(* apt install (and the NVIDIA steps after it); a failing one may have     *)
(* left the kernel in /boot.                                               *)
InstallPackage ==
  /\ pc = "package"
  /\ \/ /\ installed' = installed \cup {cmd.pkg}
        /\ \/ pc' = "regenerate" /\ UNCHANGED cmd
           \/ StepFails
     \/ UNCHANGED installed /\ StepFails
  /\ Hooks
  /\ UNCHANGED <<grub, saved, oneshot, running, records, hist>>

(* update-grub or grub-mkconfig                                            *)
RegenerateBootloader ==
  /\ pc = "regenerate"
  /\ \/ /\ menu' = installed
        /\ pc' = IF cmd.arm THEN "arm" ELSE "record"
        /\ UNCHANGED cmd
     \/ UNCHANGED menu /\ StepFails
  /\ UNCHANGED <<installed, grub, saved, oneshot, running, records, hist>>

(* bug: the new kernel is made the default instead of the one-shot entry *)
ArmAsDefault ==
  /\ pc = "arm"
  /\ saved' = cmd.pkg
  /\ pc' = "record"
  /\ UNCHANGED <<installed, menu, grub, oneshot, running, records, cmd, hist>>

(* bug: the entry of the running kernel's release is armed *)
ArmRunning ==
  /\ pc = "arm"
  /\ oneshot' = running
  /\ pc' = "record"
  /\ UNCHANGED <<installed, menu, grub, saved, running, records, cmd, hist>>

(* grub-reboot                                                             *)
ArmOneShotBoot ==
  /\ pc = "arm"
  /\ \/ oneshot' = cmd.pkg /\ pc' = "record" /\ UNCHANGED cmd
     \/ UNCHANGED oneshot /\ StepFails
  /\ UNCHANGED <<installed, menu, grub, saved, running, records, hist>>

(* `install --commit`: the entry of the running kernel becomes the default.*)
BeginCommit ==
  /\ pc = "idle"
  /\ running \in menu
  /\ Len(records) < MaxRecords
  /\ pc' = "commit"
  /\ cmd' = NoCommand
  /\ UNCHANGED <<boot, records, hist>>

(* bug: commit promotes the kernel of the newest install record *)
CommitNewest ==
  /\ pc = "commit"
  /\ saved' = IF records # <<>> /\ records[Len(records)].pkg # NoPackage
                THEN records[Len(records)].pkg ELSE running
  /\ committed' = committed \cup {saved'}
  /\ pc' = "record"
  /\ UNCHANGED <<installed, menu, grub, oneshot, running, records, cmd, orphans>>

(* grub-set-default                                                        *)
CommitDefault ==
  /\ pc = "commit"
  /\ \/ /\ saved' = running
        /\ committed' = committed \cup {running}
        /\ pc' = "record"
        /\ UNCHANGED cmd
     \/ UNCHANGED <<saved, committed>> /\ StepFails
  /\ UNCHANGED <<installed, menu, grub, oneshot, running, records, orphans>>

(* bug: only a plan that went through is recorded *)
OpenRecordIfOk ==
  /\ pc = "record"
  /\ IF cmd.ok
       THEN /\ records' = Append(records, TornRecord)
            /\ pc' = "write" /\ UNCHANGED cmd
       ELSE UNCHANGED records /\ pc' = "idle" /\ cmd' = NoCommand
  /\ UNCHANGED <<boot, hist>>

(* record.json: the packages of the plan and how far it came.  The file is *)
(* there before its text is.                                               *)
OpenRecord ==
  /\ pc = "record"
  /\ records' = Append(records, TornRecord)
  /\ pc' = "write"
  /\ UNCHANGED <<boot, cmd, hist>>

WriteRecord ==
  /\ pc = "write"
  /\ records' = [records EXCEPT ![Len(records)] = Written(FALSE)]
  /\ pc' = "idle"
  /\ cmd' = NoCommand
  /\ orphans' = orphans \ {cmd.pkg}
  /\ UNCHANGED <<boot, committed>>

Open == {i \in DOMAIN records : records[i].whole /\ ~records[i].rolledBack}

(* find_latest_install_record: the newest that parses and is not rolled    *)
(* back, 0 if none.                                                        *)
Latest == IF Open = {} THEN 0 ELSE CHOOSE i \in Open : \A j \in Open : j <= i

(* rollback.build_plan has a plan: the record lists a package to remove.   *)
CanRollBack == Latest # 0 /\ records[Latest].pkg # NoPackage

BeginRollback ==
  /\ pc = "idle"
  /\ running # Down
  /\ CanRollBack
  /\ cmd' = [NoCommand EXCEPT !.pkg = records[Latest].pkg, !.rec = Latest]
  /\ pc' = "remove"
  /\ UNCHANGED <<boot, records, hist>>

(* apt remove; a step that fails ends the rollback, the record stays open. *)
RemovePackage ==
  /\ pc = "remove"
  /\ \/ /\ installed' = installed \ {cmd.pkg}
        /\ orphans' = orphans \ {cmd.pkg}
        /\ pc' = "clean"
        /\ UNCHANGED cmd
     \/ /\ UNCHANGED <<installed, orphans>>
        /\ pc' = "idle"
        /\ cmd' = NoCommand
  /\ Hooks
  /\ UNCHANGED <<grub, saved, oneshot, running, records, committed>>

(* update-grub without the kernel that is gone.                            *)
CleanMenu ==
  /\ pc = "clean"
  /\ \/ menu' = installed /\ pc' = "mark" /\ UNCHANGED cmd
     \/ UNCHANGED menu /\ pc' = "idle" /\ cmd' = NoCommand
  /\ UNCHANGED <<installed, grub, saved, oneshot, running, records, hist>>

(* bug: the oldest record is marked *)
OpenMarkOldest ==
  /\ pc = "mark"
  /\ records' = [records EXCEPT ![1] = TornRecord]
  /\ pc' = "rewrite"
  /\ cmd' = [cmd EXCEPT !.rec = 1, !.pkg = records[1].pkg, !.ok = records[1].ok]
  /\ UNCHANGED <<boot, hist>>

(* The record is read and its file emptied for the mark, or that fails:    *)
(* marking is best effort.                                                 *)
OpenMark ==
  /\ pc = "mark"
  /\ \/ /\ records' = [records EXCEPT ![cmd.rec] = TornRecord]
        /\ pc' = "rewrite"
        /\ cmd' = [cmd EXCEPT !.ok = records[cmd.rec].ok]
     \/ UNCHANGED records /\ pc' = "idle" /\ cmd' = NoCommand
  /\ UNCHANGED <<boot, hist>>

(* The marked record is in place, or what was written of it stays.         *)
MarkRolledBack ==
  /\ pc = "rewrite"
  /\ \/ records' = [records EXCEPT ![cmd.rec] = Written(TRUE)]
     \/ UNCHANGED records
  /\ pc' = "idle"
  /\ cmd' = NoCommand
  /\ UNCHANGED <<boot, hist>>

(* The command in progress ends where it is.                               *)
Abandon ==
  /\ pc' = "idle"
  /\ cmd' = NoCommand
  /\ orphans' = IF pc \in {"package", "regenerate", "arm", "record", "write"}
                  THEN orphans \cup ({cmd.pkg} \cap installed) ELSE orphans
  /\ UNCHANGED <<installed, menu, grub, saved, oneshot, records, committed>>

(* The verb is killed, or its record cannot be written.                    *)
Interrupt == pc # "idle" /\ Abandon /\ UNCHANGED running

(* A reboot, or power lost in the middle of a command.                     *)
GoDown == running # Down /\ running' = Down /\ Abandon

(***************************************************************************)
(* GRUB boots the one-shot entry if there is one (the first entry if it is *)
(* no longer in the menu) and clears it, else the default.  A kernel that  *)
(* does not come up leaves the machine down, to be switched on again.      *)
(***************************************************************************)
Boot ==
  /\ running = Down
  /\ LET entry == IF oneshot = NoEntry THEN DefaultEntry
                  ELSE IF oneshot \in menu THEN oneshot ELSE First(menu)
     IN  running' = IF entry \in Bootable \cap installed THEN entry ELSE Down
  /\ oneshot' = NoEntry
  /\ UNCHANGED <<installed, menu, grub, saved, records, pc, cmd, hist>>

Next ==
  \/ \E p \in Builds : BeginInstall(p)
  \/ CaptureGrubState
  \/ InstallPackage
  \/ RegenerateBootloader
  \/ ArmOneShotBoot
  \/ BeginCommit
  \/ CommitDefault
  \/ OpenRecord
  \/ WriteRecord
  \/ BeginRollback
  \/ RemovePackage
  \/ CleanMenu
  \/ OpenMark
  \/ MarkRolledBack
  \/ Interrupt
  \/ GoDown
  \/ Boot

Spec == Init /\ [][Next]_vars

(* A machine that is down is switched on.                                  *)
FairSpec == Spec /\ WF_vars(Boot)

-----------------------------------------------------------------------------
TypeOK ==
  /\ installed \subseteq Kernels
  /\ menu \subseteq Kernels
  /\ grub \in {"saved", "0"}
  /\ saved \in Kernels \cup {NoEntry}
  /\ oneshot \in Builds \cup {NoEntry}
  /\ running \in Kernels \cup {Down}
  /\ records \in Seq(Record)
  /\ Len(records) <= MaxRecords
  /\ pc \in {"idle", "capture", "package", "regenerate", "arm", "commit",
             "record", "write", "remove", "clean", "mark", "rewrite"}
  /\ cmd \in [pkg : Builds \cup {NoPackage}, arm : BOOLEAN, ok : BOOLEAN,
              rec : 0 .. MaxRecords]
  /\ committed \subseteq Kernels
  /\ orphans \subseteq Builds

(* The entry GRUB saved as the default is never a kernel on probation:    *)
(* whatever is installed, armed, rolled back, interrupted or booted, it is *)
(* the distribution's kernel or one that came up and was committed.        *)
SavedIsVetted == saved # NoEntry => saved \in Bootable \cap committed

(* Probation's promise that the default stays a vetted kernel until        *)
(* `install --commit`.  It does not hold: without a saved_entry, which     *)
(* check_grub_default_saved passes, or once its kernel is removed, GRUB's  *)
(* default is the first entry of the menu, the newest kernel: README.      *)
DefaultIsVetted ==
  grub = "saved" => DefaultEntry \in Bootable \cap committed

(* rollback can find whatever an install left in /boot, also one that      *)
(* failed half-way, unless the install died before its record was whole.   *)
InstalledIsRecorded ==
  \A p \in installed \cap Builds :
    \/ p \in orphans
    \/ pc # "idle" /\ cmd.pkg = p
    \/ \E i \in Open : records[i].pkg = p

(* A record that is marked as rolled back stands for nothing in /boot: its *)
(* package is gone, or was installed again by a later plan.                *)
RolledBackIsGone ==
  \A i \in DOMAIN records :
    records[i].rolledBack =>
      \/ records[i].pkg \notin installed
      \/ records[i].pkg \in orphans
      \/ pc # "idle" /\ cmd.pkg = records[i].pkg
      \/ \E j \in DOMAIN records : j > i /\ records[j].pkg = records[i].pkg

(* The saved entry can be booted, or the default entry happens to come up. *)
CanFallBack ==
  \/ grub = "saved" /\ saved \in menu \cap installed
  \/ DefaultEntry \in Bootable \cap installed

(* The point of probation: a machine that does not come up again comes up  *)
(* after some more power cycles, if its saved entry is there.  Where it is *)
(* not, an unvetted default may stay down for good (DefaultIsVetted), and  *)
(* only one that comes up is promised.                                     *)
FallsBack == running = Down /\ CanFallBack ~> running # Down

(* The rollback verb is to "undo the most recent autokernel install": as   *)
(* long as a completed install is not undone, there is a plan for it.      *)
(* It does not hold after a commit: README.                                *)
RollbackFindsInstall ==
  pc = "idle" /\ (\E i \in Open : records[i].ok /\ records[i].pkg # NoPackage)
    => CanRollBack
=============================================================================
