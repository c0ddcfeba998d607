---------------------------- MODULE WorldBuild ----------------------------
(***************************************************************************)
(* One `autokernel world build` after another over the same world          *)
(* directory (world/builder.py, world/repo.py).                            *)
(*                                                                         *)
(* A run filters the planned units by their persisted build records, then  *)
(* builds the pending ones wave by wave; the units of a wave are built by  *)
(* a pool of Parallel worker threads.  Each worker fetches and prepares    *)
(* its source, lists the repository's .debs under publish_lock, runs       *)
(* sbuild outside the lock, audits the log, publishes under publish_lock   *)
(* (copy every .deb, rewrite Packages, rewrite and sign the Release files) *)
(* and finally overwrites the unit's record.json.                          *)
(*                                                                         *)
(* The files survive a kill; the threads, the lock and the run's queue do  *)
(* not.  A key stands for flags_hash: the digest of the flags, override,   *)
(* patches and PGO profile a unit is built with.  A run may use other keys *)
(* than the run before it (an edited manifest, `--pgo`, a new exception).  *)
(***************************************************************************)
EXTENDS Naturals, FiniteSets

CONSTANTS
  Units,      \* source packages of the plan
  Stock,      \* the units whose plan entry says use_stock
  NDebs,      \* how many .deb files one source builds
  Keys,       \* possible values of flags_hash
  Configs,    \* the flags_hash of every unit under each manifest in use
  Selections, \* what --only and --limit may select in a run
  Wave,       \* Units -> Nat, the plan's build waves
  Parallel,   \* --parallel: worker threads per wave
  MaxRuns     \* bound: how many times `world build --execute` is started

NoUnit == "no unit"

ASSUME UnitsAssumption    == IsFiniteSet(Units) /\ NoUnit \notin Units
ASSUME StockAssumption    == Stock \subseteq Units
ASSUME NDebsAssumption    == NDebs \in Nat \ {0}
ASSUME ConfigsAssumption  == Configs \subseteq [Units -> Keys]
ASSUME SelectAssumption   == Selections \subseteq SUBSET Units
ASSUME WaveAssumption     == Wave \in [Units -> Nat]
ASSUME ParallelAssumption == Parallel \in Nat \ {0}
ASSUME MaxRunsAssumption  == MaxRuns \in Nat

Debs == 1 .. NDebs   \* in file-name order, as publish copies them

Absent == "absent"   \* no such file in the repository
Torn   == "torn"     \* a file shutil.copy2 has truncated and not yet filled
NoKey  == "no key"

ASSUME KeysAssumption == {Absent, Torn, NoKey} \cap Keys = {}

VARIABLES
  record,     \* builds/<source>/<version>/record.json of every unit
  pool,       \* what each .deb of the repository directory holds
  packages,   \* the directory as the Packages file lists it
  inrelease,  \* the Packages contents that InRelease attests
  run,        \* "idle", or "building" while build_world is running
  runs,       \* runs started so far
  key,        \* this run's flags_hash of every unit
  pc,         \* where the worker of each unit stands
  out,        \* the outcome a worker is about to record
  extra,      \* the .debs a worker passed to sbuild as --extra-package
  lock,       \* publish_lock: the unit publishing, or NoUnit
  copied,     \* how many .debs the publishing unit has copied
  dirty,      \* history: units whose last publish was never recorded
  stale       \* history: a publish was cut short and none completed since

disk == <<record, pool, packages, inrelease>>
work == <<run, runs, key, pc, out, extra, lock, copied>>
vars == <<record, pool, packages, inrelease, run, runs, key, pc, out, extra,
          lock, copied, dirty, stale>>

Outcomes == {"ok", "ftbfs", "fetch-failed"}
NoRecord == [outcome |-> "none", key |-> NoKey]
Records  == {NoRecord} \cup [outcome : Outcomes, key : Keys]

Contents == Keys \cup {Absent, Torn}
Pools    == [Units -> [Debs -> Contents]]

Publishing == {"copy", "sign"}
Saving     == {"save", "write"}
Running    == {"list", "sbuild", "publish"} \cup Publishing \cup Saving
Steps      == {"idle", "queued", "raised"} \cup Running

(***************************************************************************)
(* load_record(u) is usable for key k: the record parses, is ok and its    *)
(* flags_hash is the one this run would build with.                        *)
(***************************************************************************)
Done(u, k) == record[u].outcome = "ok" /\ record[u].key = k

(* bug: the resume filter does not look at the record *)
NeedsBuildAlways(u, k) == u \notin Stock

NeedsBuild(u, k) == u \notin Stock /\ ~Done(u, k)

Init ==
  /\ record = [u \in Units |-> NoRecord]
  /\ pool = [u \in Units |-> [d \in Debs |-> Absent]]
  /\ packages = pool
  /\ inrelease = pool
  /\ run = "idle"
  /\ runs = 0
  /\ key = [u \in Units |-> NoKey]
  /\ pc = [u \in Units |-> "idle"]
  /\ out = [u \in Units |-> "none"]
  /\ extra = [u \in Units |-> {}]
  /\ lock = NoUnit
  /\ copied = 0
  /\ dirty = {}
  /\ stale = FALSE

(***************************************************************************)
(* build_world: pending_units filters by record, --only (and --limit) by   *)
(* name.  Nothing pending: the command returns without touching the world. *)
(***************************************************************************)
BeginRun ==
  /\ run = "idle"
  /\ runs < MaxRuns
  /\ \E k \in Configs, only \in Selections :
       LET toBuild == {u \in only : NeedsBuild(u, k[u])}
       IN  /\ toBuild # {}
           /\ key' = k
           /\ pc' = [u \in Units |-> IF u \in toBuild THEN "queued" ELSE "idle"]
  /\ run' = "building"
  /\ runs' = runs + 1
  /\ UNCHANGED <<disk, out, extra, lock, copied, dirty, stale>>

Goto(u, step) == pc' = [pc EXCEPT ![u] = step]

Finish(u, outcome) == Goto(u, "save") /\ out' = [out EXCEPT ![u] = outcome]

Busy == {u \in Units : pc[u] \in Running}

(* bug: all pending units in one pool, the waves never joined *)
StartWithoutJoin(u) ==
  /\ pc[u] = "queued"
  /\ Cardinality(Busy) < Parallel
  /\ Goto(u, "list")
  /\ UNCHANGED <<disk, run, runs, key, out, extra, lock, copied, dirty, stale>>

(***************************************************************************)
(* A pool thread takes the unit.  The pool of a wave is joined before the  *)
(* next wave's is created, and a unit whose worker raised ends the run, so *)
(* every unit of an earlier wave must be through.  The thread then works   *)
(* in the unit's own directory: apt-get source (exact version, then the    *)
(* candidate), override patches, dch, dpkg-source.                         *)
(***************************************************************************)
Start(u) ==
  /\ pc[u] = "queued"
  /\ Cardinality(Busy) < Parallel
  /\ \A v \in Units : Wave[v] < Wave[u] => pc[v] = "idle"
  /\ \/ Goto(u, "list") /\ UNCHANGED out
     \/ Finish(u, "fetch-failed")
     \/ Finish(u, "ftbfs")
  /\ UNCHANGED <<disk, run, runs, key, extra, lock, copied, dirty, stale>>

(***************************************************************************)
(* with publish_lock: extra_package_args - the names of the repository's   *)
(* .debs, whatever they hold.  The lock is released before sbuild starts.  *)
(***************************************************************************)
List(u) ==
  /\ pc[u] = "list"
  /\ lock = NoUnit
  /\ extra' = [extra EXCEPT ![u] =
                 {vd \in Units \X Debs : pool[vd[1]][vd[2]] # Absent}]
  /\ Goto(u, "sbuild")
  /\ UNCHANGED <<disk, run, runs, key, out, lock, copied, dirty, stale>>

(* bug: a successful build is recorded and not published *)
SbuildUnpublished(u) ==
  /\ pc[u] = "sbuild"
  /\ Finish(u, "ok")
  /\ UNCHANGED <<disk, run, runs, key, extra, lock, copied, dirty, stale>>

(***************************************************************************)
(* sbuild and the two audits: flags present, right compiler.  A failed     *)
(* build or audit is an FTBFS; only a build that passed all is published.  *)
(***************************************************************************)
Sbuild(u) ==
  /\ pc[u] = "sbuild"
  /\ extra' = [extra EXCEPT ![u] = {}]
  /\ \/ Goto(u, "publish") /\ UNCHANGED out
     \/ Finish(u, "ftbfs")
  /\ UNCHANGED <<disk, run, runs, key, lock, copied, dirty, stale>>

(* bug: publish without publish_lock *)
AcquireUnlocked(u) ==
  /\ pc[u] = "publish"
  /\ lock' = u
  /\ copied' = 0
  /\ Goto(u, "copy")
  /\ UNCHANGED <<disk, run, runs, key, out, extra, dirty, stale>>

Acquire(u) ==
  /\ pc[u] = "publish"
  /\ lock = NoUnit
  /\ lock' = u
  /\ copied' = 0
  /\ Goto(u, "copy")
  /\ UNCHANGED <<disk, run, runs, key, out, extra, dirty, stale>>

(* bug: a .deb that is already there is not copied again *)
CopyOpenIfAbsent(u) ==
  /\ pc[u] = "copy"
  /\ copied < NDebs
  /\ IF pool[u][copied + 1] \in Keys
       THEN copied' = copied + 1 /\ UNCHANGED pool
       ELSE /\ pool' = [pool EXCEPT ![u][copied + 1] = Torn]
            /\ UNCHANGED copied
  /\ UNCHANGED <<record, packages, inrelease, run, runs, key, pc, out, extra,
                 lock, dirty, stale>>

(* repo.publish: shutil.copy2 opens the next target for writing; all       *)
(* builds of a unit are taken to make files of the same names ...          *)
CopyOpen(u) ==
  /\ pc[u] = "copy"
  /\ copied < NDebs
  /\ pool[u][copied + 1] # Torn
  /\ pool' = [pool EXCEPT ![u][copied + 1] = Torn]
  /\ UNCHANGED <<record, packages, inrelease, work, dirty, stale>>

(* ... and fills it: the latest build of a +ak version wins.               *)
CopyFill(u) ==
  /\ pc[u] = "copy"
  /\ copied < NDebs
  /\ pool[u][copied + 1] = Torn
  /\ pool' = [pool EXCEPT ![u][copied + 1] = key[u]]
  /\ copied' = copied + 1
  /\ UNCHANGED <<record, packages, inrelease, run, runs, key, pc, out, extra,
                 lock, dirty, stale>>

(* reindex: apt-ftparchive packages over the whole directory.              *)
WritePackages(u) ==
  /\ pc[u] = "copy"
  /\ copied = NDebs
  /\ packages' = pool
  /\ Goto(u, "sign")
  /\ UNCHANGED <<record, pool, inrelease, run, runs, key, out, extra, lock,
                 copied, dirty, stale>>

(* reindex: Release over Packages, Release.gpg, InRelease; lock released.  *)
Sign(u) ==
  /\ pc[u] = "sign"
  /\ inrelease' = packages
  /\ lock' = NoUnit
  /\ stale' = FALSE
  /\ copied' = 0
  /\ Finish(u, "ok")
  /\ UNCHANGED <<record, pool, packages, run, runs, key, extra, dirty>>

(* _save_record: write_text truncates record.json ...                      *)
SaveOpen(u) ==
  /\ pc[u] = "save"
  /\ record' = [record EXCEPT ![u] = NoRecord]
  /\ Goto(u, "write")
  /\ UNCHANGED <<pool, packages, inrelease, run, runs, key, out, extra, lock,
                 copied, dirty, stale>>

(* bug: the outcome is read after it has been reset *)
SaveWriteReset(u) ==
  /\ pc[u] = "write"
  /\ record' = [record EXCEPT ![u] = [outcome |-> "none", key |-> key[u]]]
  /\ out' = [out EXCEPT ![u] = "none"]
  /\ Goto(u, "idle")
  /\ UNCHANGED <<pool, packages, inrelease, run, runs, key, extra, lock, copied,
                 dirty, stale>>

(* ... and writes the attempt's outcome over whatever was there.           *)
SaveWrite(u) ==
  /\ pc[u] = "write"
  /\ record' = [record EXCEPT ![u] = [outcome |-> out[u], key |-> key[u]]]
  /\ out' = [out EXCEPT ![u] = "none"]
  /\ dirty' = IF out[u] = "ok" THEN dirty \ {u} ELSE dirty
  /\ Goto(u, "idle")
  /\ UNCHANGED <<pool, packages, inrelease, run, runs, key, extra, lock, copied,
                 stale>>

(* The units whose .debs have changed since their record was written.      *)
Unrecorded == {u \in Units : pc[u] \in Publishing \/ (pc[u] \in Saving /\ out[u] = "ok")}

(* bug: the lock is not released when publish raises *)
RaiseHoldingLock(u) ==
  /\ pc[u] \in Running
  /\ Goto(u, "raised")
  /\ UNCHANGED <<disk, run, runs, key, out, extra, lock, copied, dirty, stale>>

(***************************************************************************)
(* A full disk, a missing tool, or apt-ftparchive, gzip or gpg failing     *)
(* (check=True): the exception leaves build_unit without a record and      *)
(* releases the lock.  A .deb or a record being written stays truncated.   *)
(***************************************************************************)
Raise(u) ==
  /\ pc[u] \in Running
  /\ Goto(u, "raised")
  /\ out' = [out EXCEPT ![u] = "none"]
  /\ extra' = [extra EXCEPT ![u] = {}]
  /\ lock' = IF lock = u THEN NoUnit ELSE lock
  /\ copied' = IF lock = u THEN 0 ELSE copied
  /\ dirty' = IF u \in Unrecorded THEN dirty \cup {u} ELSE dirty
  /\ stale' = (stale \/ lock = u)
  /\ UNCHANGED <<disk, run, runs, key>>

(* pool.map re-raises a worker's exception and cancels what has not begun. *)
Cancel ==
  /\ \E u \in Units : pc[u] = "raised"
  /\ \E u \in Units : pc[u] = "queued"
  /\ pc' = [u \in Units |-> IF pc[u] = "queued" THEN "idle" ELSE pc[u]]
  /\ UNCHANGED <<disk, run, runs, key, out, extra, lock, copied, dirty, stale>>

EndRun ==
  /\ run = "building"
  /\ \A u \in Units : pc[u] \in {"idle", "raised"}
  /\ run' = "idle"
  /\ key' = [u \in Units |-> NoKey]
  /\ pc' = [u \in Units |-> "idle"]
  /\ UNCHANGED <<disk, runs, out, extra, lock, copied, dirty, stale>>

(* SIGKILL, reboot: the files stay as they are, the process is gone.       *)
Kill ==
  /\ run = "building"
  /\ run' = "idle"
  /\ key' = [u \in Units |-> NoKey]
  /\ pc' = [u \in Units |-> "idle"]
  /\ out' = [u \in Units |-> "none"]
  /\ extra' = [u \in Units |-> {}]
  /\ lock' = NoUnit
  /\ copied' = 0
  /\ dirty' = dirty \cup Unrecorded
  /\ stale' = (stale \/ lock # NoUnit)
  /\ UNCHANGED <<disk, runs>>

Worker(u) ==
  \/ Start(u)
  \/ List(u)
  \/ Sbuild(u)
  \/ Acquire(u)
  \/ CopyOpen(u)
  \/ CopyFill(u)
  \/ WritePackages(u)
  \/ Sign(u)
  \/ SaveOpen(u)
  \/ SaveWrite(u)

Next ==
  \/ BeginRun
  \/ \E u \in Units : Worker(u)
  \/ \E u \in Units : Raise(u)
  \/ Cancel
  \/ EndRun
  \/ Kill

Spec == Init /\ [][Next]_vars

(***************************************************************************)
(* The worker threads and the main thread keep running while the process   *)
(* lives; starting a run, failures and kills are never forced.  Weak       *)
(* fairness is enough for the lock: a run takes it twice per unit at most. *)
(***************************************************************************)
Fairness ==
  /\ \A u \in Units : WF_vars(Worker(u))
  /\ WF_vars(Cancel)
  /\ WF_vars(EndRun)

FairSpec == Spec /\ Fairness

-----------------------------------------------------------------------------
TypeOK ==
  /\ record \in [Units -> Records]
  /\ pool \in Pools
  /\ packages \in Pools
  /\ inrelease \in Pools
  /\ run \in {"idle", "building"}
  /\ runs \in 0 .. MaxRuns
  /\ key \in [Units -> Keys \cup {NoKey}]
  /\ pc \in [Units -> Steps]
  /\ out \in [Units -> Outcomes \cup {"none"}]
  /\ extra \in [Units -> SUBSET (Units \X Debs)]
  /\ lock \in Units \cup {NoUnit}
  /\ copied \in 0 .. NDebs
  /\ dirty \subseteq Units
  /\ stale \in BOOLEAN

(* What a skipped unit offers: every .deb of it was built with key k.      *)
Serves(files, u, k) == \A d \in Debs : files[u][d] = k

(* A unit the next run would skip as already built has, in the repository, *)
(* exactly the .debs of the key its record names - unless a publish of it  *)
(* is under way or died before its record was written.                     *)
DoneIsServed ==
  \A u \in Units, k \in Keys :
    Done(u, k) /\ u \notin dirty \cup Unrecorded => Serves(pool, u, k)

(* publish_lock: while nobody publishes, and since the last completed      *)
(* publish nobody died publishing, the signed index describes the .debs.   *)
SignedIndexMatchesPool ==
  lock = NoUnit /\ ~stale => packages = pool /\ inrelease = packages

(* The join between waves: from the moment they are listed until sbuild is *)
(* through, the .debs a unit was handed from earlier waves stay as they    *)
(* were.  (What they were is another matter: EveryInputWhole.)             *)
EarlierWaveInputsStay ==
  [][\A u, v \in Units, d \in Debs :
       pc[u] = "sbuild" /\ <<v, d>> \in extra[u] /\ Wave[v] < Wave[u]
         => pool'[v][d] = pool[v][d]]_vars

(* Resume: once a unit has an ok record for the key of the current run,    *)
(* the run neither rebuilds it nor loses the record.                       *)
PaidOnce ==
  [][\A u \in Units : Done(u, key[u]) => record'[u] = record[u]]_vars

(* Every run comes to an end, whatever raises and whoever waits for the    *)
(* lock: no worker is left waiting on one that died.                       *)
RunEnds == run = "building" ~> run = "idle"

(***************************************************************************)
(* The world directory implements the ledger of BuildLedger.tla.           *)
(***************************************************************************)
Claims == [u \in Units |-> IF record[u].outcome = "ok" THEN record[u].key ELSE NoKey]

OpenUnits == dirty \cup Unrecorded

Ledger == INSTANCE BuildLedger WITH claim <- Claims, served <- pool, open <- OpenUnits

(* A unit is claimed as built only by an attempt that published it.        *)
ImplementsLedger == Ledger!Spec

(* builder.py's "Resumability: every attempt persists a PackageBuildRecord *)
(* ... Re-running skips records that are ok with an unchanged key": what a *)
(* re-run skips is in the repository, even after a kill.  It does not hold:*)
(* README.                                                                 *)
SkippedIsServed ==
  \A u \in Units, k \in Keys :
    run = "idle" /\ Done(u, k) => Serves(pool, u, k)

(* What publish_lock and the waves might be thought to give: that whatever *)
(* sbuild reads is whole.  It does not hold, in two ways: a kill leaves a  *)
(* truncated .deb, which a later run lists and hands over; and the lock is *)
(* released before sbuild starts, after which another worker of the same   *)
(* wave may publish over what was listed.                                  *)
EveryInputWhole ==
  \A u, v \in Units, d \in Debs :
    pc[u] = "sbuild" /\ <<v, d>> \in extra[u] => pool[v][d] \in Keys

(* What is left of it: an input of an earlier wave is torn only if the     *)
(* latest publish of its unit was cut short, by a kill or an exception.    *)
TornOnlyIfCutShort ==
  \A u, v \in Units, d \in Debs :
    pc[u] = "sbuild" /\ <<v, d>> \in extra[u] /\ Wave[v] < Wave[u]
      => pool[v][d] \in Keys \/ v \in dirty

-----------------------------------------------------------------------------
(***************************************************************************)
(* The inductive invariant.  TypeOK and the properties above hold because  *)
(* of these facts about who may be where; WorldBuild_proofs shows that     *)
(* together they are preserved by every step.                              *)
(***************************************************************************)

(* The publishing unit is the one that holds publish_lock.                 *)
LockInv == \A u \in Units : pc[u] \in Publishing <=> lock = u

(* No worker outlives its run, and while a run lasts every unit has a key. *)
RunInv ==
  /\ run = "idle" => \A u \in Units : pc[u] = "idle"
  /\ run = "building" => key \in [Units -> Keys]

(* A worker has an outcome exactly while it has to record it.              *)
OutInv == \A u \in Units : pc[u] \in Saving <=> out[u] # "none"

(* What is queued or in progress has no ok record for this run's key.      *)
PendingInv ==
  \A u \in Units : pc[u] \in {"queued"} \cup Running => ~Done(u, key[u])

(* How far a publish has come, and what an ok outcome means.               *)
PublishInv ==
  \A u \in Units :
    /\ pc[u] = "copy" => \A d \in 1 .. copied : pool[u][d] = key[u]
    /\ pc[u] = "sign" => Serves(pool, u, key[u])
    /\ pc[u] \in Saving /\ out[u] = "ok" => Serves(pool, u, key[u])

(* Between writing Packages and releasing the lock the index is current.   *)
IndexInv == \A u \in Units : pc[u] = "sign" => packages = pool

(* Only the .deb being copied is torn, or one of a unit that was cut short.*)
TornInv ==
  \A u \in Units, d \in Debs :
    pool[u][d] = Torn => u \in dirty \/ (pc[u] = "copy" /\ d = copied + 1)

(* What was listed for sbuild never leaves the repository.                 *)
ExtraInv ==
  \A u, v \in Units, d \in Debs : <<v, d>> \in extra[u] => pool[v][d] # Absent

(* No unit of an earlier wave is pending while a later one is in progress. *)
WaveInv ==
  \A u, v \in Units :
    pc[u] \in Running /\ Wave[v] < Wave[u] => pc[v] = "idle"

IInv ==
  /\ TypeOK
  /\ LockInv
  /\ RunInv
  /\ OutInv
  /\ PendingInv
  /\ PublishInv
  /\ IndexInv
  /\ TornInv
  /\ ExtraInv
  /\ WaveInv
  /\ DoneIsServed
  /\ SignedIndexMatchesPool
=============================================================================
