------------------------- MODULE WorldBuild_proofs -------------------------
(***************************************************************************)
(* What WorldBuild guarantees for any set of units, waves, workers and     *)
(* .debs and any number of runs: its invariants, that a run never pays for *)
(* a unit twice, and that it implements BuildLedger.                       *)
(*                                                                         *)
(* The argument is one inductive invariant, IInv.  Each of its conjuncts   *)
(* has a lemma that shows it preserved by every step, one case per action. *)
(***************************************************************************)
EXTENDS WorldBuild, TLAPS

USE DEF disk, work, vars, Goto, Finish

(***************************************************************************)
(* Type correctness needs more than itself: that a worker with something to*)
(* save has an outcome, and that this run gave its unit a key.             *)
(***************************************************************************)
LEMMA TypeStep == IInv /\ [Next]_vars => TypeOK'
<1> SUFFICES ASSUME IInv, [Next]_vars PROVE TypeOK'
  OBVIOUS
<1> USE NDebsAssumption
        DEF IInv, TypeOK, OutInv, RunInv, LockInv, Debs, Publishing,
            Saving, Running, Steps, Contents, Pools, Records, NoRecord,
            Outcomes, Unrecorded
<1>1. CASE BeginRun
  <2>1. runs' \in 0 .. MaxRuns
    BY <1>1, MaxRunsAssumption DEF BeginRun
  <2>2. key' \in [Units -> Keys \cup {NoKey}]
    BY <1>1, ConfigsAssumption DEF BeginRun
  <2>3. pc' \in [Units -> Steps]
    BY <1>1 DEF BeginRun
  <2> QED
    BY <1>1, <2>1, <2>2, <2>3 DEF BeginRun
<1>2. CASE Cancel
  BY <1>2 DEF Cancel
<1>3. CASE EndRun
  BY <1>3 DEF EndRun
<1>4. CASE Kill
  BY <1>4 DEF Kill
<1>5. ASSUME NEW u \in Units, Start(u) PROVE TypeOK'
  BY <1>5 DEF Start
<1>6. ASSUME NEW u \in Units, List(u) PROVE TypeOK'
  BY <1>6 DEF List
<1>7. ASSUME NEW u \in Units, Sbuild(u) PROVE TypeOK'
  BY <1>7 DEF Sbuild
<1>8. ASSUME NEW u \in Units, Acquire(u) PROVE TypeOK'
  BY <1>8 DEF Acquire
<1>9. ASSUME NEW u \in Units, CopyOpen(u) PROVE TypeOK'
  BY <1>9 DEF CopyOpen
<1>10. ASSUME NEW u \in Units, CopyFill(u) PROVE TypeOK'
  BY <1>10 DEF CopyFill
<1>11. ASSUME NEW u \in Units, WritePackages(u) PROVE TypeOK'
  BY <1>11 DEF WritePackages
<1>12. ASSUME NEW u \in Units, Sign(u) PROVE TypeOK'
  <2>1. copied' \in 0 .. NDebs
    BY <1>12, NDebsAssumption DEF Sign
  <2>2. out' \in [Units -> Outcomes \cup {"none"}]
    BY <1>12 DEF Sign, Outcomes
  <2>3. pc' \in [Units -> Steps]
    BY <1>12 DEF Sign
  <2> QED
    BY <1>12, <2>1, <2>2, <2>3 DEF Sign
<1>13. ASSUME NEW u \in Units, SaveOpen(u) PROVE TypeOK'
  BY <1>13 DEF SaveOpen
<1>14. ASSUME NEW u \in Units, SaveWrite(u) PROVE TypeOK'
  BY <1>14 DEF SaveWrite
<1>15. ASSUME NEW u \in Units, Raise(u) PROVE TypeOK'
  BY <1>15 DEF Raise
<1>16. CASE UNCHANGED vars
  BY <1>16
<1> QED
  BY <1>1, <1>2, <1>3, <1>4, <1>5, <1>6, <1>7, <1>8, <1>9,
     <1>10, <1>11, <1>12, <1>13, <1>14, <1>15, <1>16 DEF Next, Worker

(***************************************************************************)
(* Two units are never between Acquire and Sign at once.                   *)
(***************************************************************************)
LEMMA LockStep == IInv /\ [Next]_vars => LockInv'
<1> SUFFICES ASSUME IInv, [Next]_vars PROVE LockInv'
  OBVIOUS
<1> USE UnitsAssumption
        DEF IInv, TypeOK, RunInv, LockInv, Publishing, Saving, Running
<1>1. CASE BeginRun
  BY <1>1 DEF BeginRun
<1>2. CASE Cancel
  BY <1>2 DEF Cancel
<1>3. CASE EndRun
  BY <1>3 DEF EndRun
<1>4. CASE Kill
  BY <1>4 DEF Kill
<1>5. ASSUME NEW u \in Units, Start(u) PROVE LockInv'
  BY <1>5 DEF Start
<1>6. ASSUME NEW u \in Units, List(u) PROVE LockInv'
  BY <1>6 DEF List
<1>7. ASSUME NEW u \in Units, Sbuild(u) PROVE LockInv'
  BY <1>7 DEF Sbuild
<1>8. ASSUME NEW u \in Units, Acquire(u) PROVE LockInv'
  BY <1>8 DEF Acquire
<1>9. ASSUME NEW u \in Units, CopyOpen(u) PROVE LockInv'
  BY <1>9 DEF CopyOpen
<1>10. ASSUME NEW u \in Units, CopyFill(u) PROVE LockInv'
  BY <1>10 DEF CopyFill
<1>11. ASSUME NEW u \in Units, WritePackages(u) PROVE LockInv'
  BY <1>11 DEF WritePackages
<1>12. ASSUME NEW u \in Units, Sign(u) PROVE LockInv'
  BY <1>12 DEF Sign
<1>13. ASSUME NEW u \in Units, SaveOpen(u) PROVE LockInv'
  BY <1>13 DEF SaveOpen
<1>14. ASSUME NEW u \in Units, SaveWrite(u) PROVE LockInv'
  BY <1>14 DEF SaveWrite
<1>15. ASSUME NEW u \in Units, Raise(u) PROVE LockInv'
  BY <1>15 DEF Raise
<1>16. CASE UNCHANGED vars
  BY <1>16
<1> QED
  BY <1>1, <1>2, <1>3, <1>4, <1>5, <1>6, <1>7, <1>8, <1>9,
     <1>10, <1>11, <1>12, <1>13, <1>14, <1>15, <1>16 DEF Next, Worker

(***************************************************************************)
(* Workers belong to a run: BeginRun starts from none and leaves every unit*)
(* a key of the manifest.                                                  *)
(***************************************************************************)
LEMMA RunStep == IInv /\ [Next]_vars => RunInv'
<1> SUFFICES ASSUME IInv, [Next]_vars PROVE RunInv'
  OBVIOUS
<1> USE ConfigsAssumption
        DEF IInv, TypeOK, RunInv, Running, Publishing, Saving
<1>1. CASE BeginRun
  BY <1>1 DEF BeginRun
<1>2. CASE Cancel
  BY <1>2 DEF Cancel
<1>3. CASE EndRun
  BY <1>3 DEF EndRun
<1>4. CASE Kill
  BY <1>4 DEF Kill
<1>5. ASSUME NEW u \in Units, Start(u) PROVE RunInv'
  BY <1>5 DEF Start
<1>6. ASSUME NEW u \in Units, List(u) PROVE RunInv'
  BY <1>6 DEF List
<1>7. ASSUME NEW u \in Units, Sbuild(u) PROVE RunInv'
  BY <1>7 DEF Sbuild
<1>8. ASSUME NEW u \in Units, Acquire(u) PROVE RunInv'
  BY <1>8 DEF Acquire
<1>9. ASSUME NEW u \in Units, CopyOpen(u) PROVE RunInv'
  BY <1>9 DEF CopyOpen
<1>10. ASSUME NEW u \in Units, CopyFill(u) PROVE RunInv'
  BY <1>10 DEF CopyFill
<1>11. ASSUME NEW u \in Units, WritePackages(u) PROVE RunInv'
  BY <1>11 DEF WritePackages
<1>12. ASSUME NEW u \in Units, Sign(u) PROVE RunInv'
  BY <1>12 DEF Sign
<1>13. ASSUME NEW u \in Units, SaveOpen(u) PROVE RunInv'
  BY <1>13 DEF SaveOpen
<1>14. ASSUME NEW u \in Units, SaveWrite(u) PROVE RunInv'
  BY <1>14 DEF SaveWrite
<1>15. ASSUME NEW u \in Units, Raise(u) PROVE RunInv'
  BY <1>15 DEF Raise
<1>16. CASE UNCHANGED vars
  BY <1>16
<1> QED
  BY <1>1, <1>2, <1>3, <1>4, <1>5, <1>6, <1>7, <1>8, <1>9,
     <1>10, <1>11, <1>12, <1>13, <1>14, <1>15, <1>16 DEF Next, Worker

(***************************************************************************)
(* Every way into a save brings an outcome, every way out drops it.        *)
(***************************************************************************)
LEMMA OutStep == IInv /\ [Next]_vars => OutInv'
<1> SUFFICES ASSUME IInv, [Next]_vars PROVE OutInv'
  OBVIOUS
<1> USE DEF IInv, TypeOK, RunInv, OutInv, Outcomes, Publishing, Saving,
            Running
<1>1. CASE BeginRun
  BY <1>1 DEF BeginRun
<1>2. CASE Cancel
  BY <1>2 DEF Cancel
<1>3. CASE EndRun
  BY <1>3 DEF EndRun
<1>4. CASE Kill
  BY <1>4 DEF Kill
<1>5. ASSUME NEW u \in Units, Start(u) PROVE OutInv'
  BY <1>5 DEF Start
<1>6. ASSUME NEW u \in Units, List(u) PROVE OutInv'
  BY <1>6 DEF List
<1>7. ASSUME NEW u \in Units, Sbuild(u) PROVE OutInv'
  BY <1>7 DEF Sbuild
<1>8. ASSUME NEW u \in Units, Acquire(u) PROVE OutInv'
  BY <1>8 DEF Acquire
<1>9. ASSUME NEW u \in Units, CopyOpen(u) PROVE OutInv'
  BY <1>9 DEF CopyOpen
<1>10. ASSUME NEW u \in Units, CopyFill(u) PROVE OutInv'
  BY <1>10 DEF CopyFill
<1>11. ASSUME NEW u \in Units, WritePackages(u) PROVE OutInv'
  BY <1>11 DEF WritePackages
<1>12. ASSUME NEW u \in Units, Sign(u) PROVE OutInv'
  BY <1>12 DEF Sign
<1>13. ASSUME NEW u \in Units, SaveOpen(u) PROVE OutInv'
  BY <1>13 DEF SaveOpen
<1>14. ASSUME NEW u \in Units, SaveWrite(u) PROVE OutInv'
  BY <1>14 DEF SaveWrite
<1>15. ASSUME NEW u \in Units, Raise(u) PROVE OutInv'
  BY <1>15 DEF Raise
<1>16. CASE UNCHANGED vars
  BY <1>16
<1> QED
  BY <1>1, <1>2, <1>3, <1>4, <1>5, <1>6, <1>7, <1>8, <1>9,
     <1>10, <1>11, <1>12, <1>13, <1>14, <1>15, <1>16 DEF Next, Worker

(***************************************************************************)
(* The resume filter lets only units without an ok record in, and a record *)
(* changes only when its unit leaves the run.                              *)
(***************************************************************************)
LEMMA PendingStep == IInv /\ [Next]_vars => PendingInv'
<1> SUFFICES ASSUME IInv, [Next]_vars PROVE PendingInv'
  OBVIOUS
<1> USE KeysAssumption
        DEF IInv, TypeOK, RunInv, PendingInv, Done, NeedsBuild, NoRecord,
            Publishing, Saving, Running
<1>1. CASE BeginRun
  BY <1>1 DEF BeginRun
<1>2. CASE Cancel
  BY <1>2 DEF Cancel
<1>3. CASE EndRun
  BY <1>3 DEF EndRun
<1>4. CASE Kill
  BY <1>4 DEF Kill
<1>5. ASSUME NEW u \in Units, Start(u) PROVE PendingInv'
  BY <1>5 DEF Start
<1>6. ASSUME NEW u \in Units, List(u) PROVE PendingInv'
  BY <1>6 DEF List
<1>7. ASSUME NEW u \in Units, Sbuild(u) PROVE PendingInv'
  BY <1>7 DEF Sbuild
<1>8. ASSUME NEW u \in Units, Acquire(u) PROVE PendingInv'
  BY <1>8 DEF Acquire
<1>9. ASSUME NEW u \in Units, CopyOpen(u) PROVE PendingInv'
  BY <1>9 DEF CopyOpen
<1>10. ASSUME NEW u \in Units, CopyFill(u) PROVE PendingInv'
  BY <1>10 DEF CopyFill
<1>11. ASSUME NEW u \in Units, WritePackages(u) PROVE PendingInv'
  BY <1>11 DEF WritePackages
<1>12. ASSUME NEW u \in Units, Sign(u) PROVE PendingInv'
  BY <1>12 DEF Sign
<1>13. ASSUME NEW u \in Units, SaveOpen(u) PROVE PendingInv'
  BY <1>13 DEF SaveOpen
<1>14. ASSUME NEW u \in Units, SaveWrite(u) PROVE PendingInv'
  BY <1>14 DEF SaveWrite
<1>15. ASSUME NEW u \in Units, Raise(u) PROVE PendingInv'
  BY <1>15 DEF Raise
<1>16. CASE UNCHANGED vars
  BY <1>16
<1> QED
  BY <1>1, <1>2, <1>3, <1>4, <1>5, <1>6, <1>7, <1>8, <1>9,
     <1>10, <1>11, <1>12, <1>13, <1>14, <1>15, <1>16 DEF Next, Worker

(***************************************************************************)
(* The lock keeps everybody else out of the count of copied .debs.         *)
(***************************************************************************)
LEMMA PublishStep == IInv /\ [Next]_vars => PublishInv'
<1> SUFFICES ASSUME IInv, [Next]_vars PROVE PublishInv'
  OBVIOUS
<1> USE DEF IInv, TypeOK, OutInv, PublishInv, Serves, Saving
<1>1. CASE BeginRun
  BY <1>1 DEF BeginRun, RunInv
<1>2. CASE Cancel
  BY <1>2 DEF Cancel
<1>3. CASE EndRun
  BY <1>3 DEF EndRun
<1>4. CASE Kill
  BY <1>4 DEF Kill
<1>5. ASSUME NEW u \in Units, Start(u) PROVE PublishInv'
  BY <1>5 DEF Start
<1>6. ASSUME NEW u \in Units, List(u) PROVE PublishInv'
  BY <1>6 DEF List
<1>7. ASSUME NEW u \in Units, Sbuild(u) PROVE PublishInv'
  BY <1>7 DEF Sbuild
<1>8. ASSUME NEW u \in Units, Acquire(u) PROVE PublishInv'
  BY <1>8, NDebsAssumption DEF Acquire
<1>9. ASSUME NEW u \in Units, CopyOpen(u) PROVE PublishInv'
  BY <1>9, NDebsAssumption DEF CopyOpen, LockInv, Publishing, Pools, Debs
<1>10. ASSUME NEW u \in Units, CopyFill(u) PROVE PublishInv'
  BY <1>10, NDebsAssumption DEF CopyFill, LockInv, Publishing, Pools, Debs
<1>11. ASSUME NEW u \in Units, WritePackages(u) PROVE PublishInv'
  BY <1>11 DEF WritePackages, Debs
<1>12. ASSUME NEW u \in Units, Sign(u) PROVE PublishInv'
  BY <1>12 DEF Sign
<1>13. ASSUME NEW u \in Units, SaveOpen(u) PROVE PublishInv'
  BY <1>13 DEF SaveOpen
<1>14. ASSUME NEW u \in Units, SaveWrite(u) PROVE PublishInv'
  BY <1>14 DEF SaveWrite
<1>15. ASSUME NEW u \in Units, Raise(u) PROVE PublishInv'
  BY <1>15 DEF Raise
<1>16. CASE UNCHANGED vars
  BY <1>16
<1> QED
  BY <1>1, <1>2, <1>3, <1>4, <1>5, <1>6, <1>7, <1>8, <1>9,
     <1>10, <1>11, <1>12, <1>13, <1>14, <1>15, <1>16 DEF Next, Worker

(***************************************************************************)
(* Nobody copies a .deb while another unit signs.                          *)
(***************************************************************************)
LEMMA IndexStep == IInv /\ [Next]_vars => IndexInv'
<1> SUFFICES ASSUME IInv, [Next]_vars PROVE IndexInv'
  OBVIOUS
<1> USE UnitsAssumption
        DEF IInv, TypeOK, LockInv, RunInv, IndexInv, Pools, Publishing,
            Saving, Running
<1>1. CASE BeginRun
  BY <1>1 DEF BeginRun
<1>2. CASE Cancel
  BY <1>2 DEF Cancel
<1>3. CASE EndRun
  BY <1>3 DEF EndRun
<1>4. CASE Kill
  BY <1>4 DEF Kill
<1>5. ASSUME NEW u \in Units, Start(u) PROVE IndexInv'
  BY <1>5 DEF Start
<1>6. ASSUME NEW u \in Units, List(u) PROVE IndexInv'
  BY <1>6 DEF List
<1>7. ASSUME NEW u \in Units, Sbuild(u) PROVE IndexInv'
  BY <1>7 DEF Sbuild
<1>8. ASSUME NEW u \in Units, Acquire(u) PROVE IndexInv'
  BY <1>8 DEF Acquire
<1>9. ASSUME NEW u \in Units, CopyOpen(u) PROVE IndexInv'
  BY <1>9 DEF CopyOpen
<1>10. ASSUME NEW u \in Units, CopyFill(u) PROVE IndexInv'
  BY <1>10 DEF CopyFill
<1>11. ASSUME NEW u \in Units, WritePackages(u) PROVE IndexInv'
  BY <1>11 DEF WritePackages
<1>12. ASSUME NEW u \in Units, Sign(u) PROVE IndexInv'
  BY <1>12 DEF Sign
<1>13. ASSUME NEW u \in Units, SaveOpen(u) PROVE IndexInv'
  BY <1>13 DEF SaveOpen
<1>14. ASSUME NEW u \in Units, SaveWrite(u) PROVE IndexInv'
  BY <1>14 DEF SaveWrite
<1>15. ASSUME NEW u \in Units, Raise(u) PROVE IndexInv'
  BY <1>15 DEF Raise
<1>16. CASE UNCHANGED vars
  BY <1>16
<1> QED
  BY <1>1, <1>2, <1>3, <1>4, <1>5, <1>6, <1>7, <1>8, <1>9,
     <1>10, <1>11, <1>12, <1>13, <1>14, <1>15, <1>16 DEF Next, Worker

(***************************************************************************)
(* A torn .deb is being copied now, or its unit joined dirty when the worker*)
(* raised or was killed, and leaves it only after a whole publish.         *)
(***************************************************************************)
LEMMA TornStep == IInv /\ [Next]_vars => TornInv'
<1> SUFFICES ASSUME IInv, [Next]_vars PROVE TornInv'
  OBVIOUS
<1> USE NDebsAssumption, KeysAssumption, UnitsAssumption
        DEF IInv, TypeOK, LockInv, RunInv, PublishInv, TornInv, Serves,
            Unrecorded, Pools, Debs, Publishing, Saving, Running
<1>1. CASE BeginRun
  BY <1>1 DEF BeginRun
<1>2. CASE Cancel
  BY <1>2 DEF Cancel
<1>3. CASE EndRun
  BY <1>3 DEF EndRun
<1>4. CASE Kill
  BY <1>4 DEF Kill
<1>5. ASSUME NEW u \in Units, Start(u) PROVE TornInv'
  BY <1>5 DEF Start
<1>6. ASSUME NEW u \in Units, List(u) PROVE TornInv'
  BY <1>6 DEF List
<1>7. ASSUME NEW u \in Units, Sbuild(u) PROVE TornInv'
  BY <1>7 DEF Sbuild
<1>8. ASSUME NEW u \in Units, Acquire(u) PROVE TornInv'
  BY <1>8 DEF Acquire
<1>9. ASSUME NEW u \in Units, CopyOpen(u) PROVE TornInv'
  BY <1>9 DEF CopyOpen
<1>10. ASSUME NEW u \in Units, CopyFill(u) PROVE TornInv'
  BY <1>10 DEF CopyFill
<1>11. ASSUME NEW u \in Units, WritePackages(u) PROVE TornInv'
  BY <1>11 DEF WritePackages
<1>12. ASSUME NEW u \in Units, Sign(u) PROVE TornInv'
  BY <1>12 DEF Sign
<1>13. ASSUME NEW u \in Units, SaveOpen(u) PROVE TornInv'
  BY <1>13 DEF SaveOpen
<1>14. ASSUME NEW u \in Units, SaveWrite(u) PROVE TornInv'
  BY <1>14 DEF SaveWrite
<1>15. ASSUME NEW u \in Units, Raise(u) PROVE TornInv'
  BY <1>15 DEF Raise
<1>16. CASE UNCHANGED vars
  BY <1>16
<1> QED
  BY <1>1, <1>2, <1>3, <1>4, <1>5, <1>6, <1>7, <1>8, <1>9,
     <1>10, <1>11, <1>12, <1>13, <1>14, <1>15, <1>16 DEF Next, Worker

(***************************************************************************)
(* Copying replaces .debs, it never removes one.                           *)
(***************************************************************************)
LEMMA ExtraStep == IInv /\ [Next]_vars => ExtraInv'
<1> SUFFICES ASSUME IInv, [Next]_vars PROVE ExtraInv'
  OBVIOUS
<1> USE DEF IInv, TypeOK, RunInv, ExtraInv, Pools, Publishing, Saving,
            Running
<1>1. CASE BeginRun
  BY <1>1 DEF BeginRun
<1>2. CASE Cancel
  BY <1>2 DEF Cancel
<1>3. CASE EndRun
  BY <1>3 DEF EndRun
<1>4. CASE Kill
  BY <1>4 DEF Kill
<1>5. ASSUME NEW u \in Units, Start(u) PROVE ExtraInv'
  BY <1>5 DEF Start
<1>6. ASSUME NEW u \in Units, List(u) PROVE ExtraInv'
  BY <1>6 DEF List
<1>7. ASSUME NEW u \in Units, Sbuild(u) PROVE ExtraInv'
  BY <1>7 DEF Sbuild
<1>8. ASSUME NEW u \in Units, Acquire(u) PROVE ExtraInv'
  BY <1>8 DEF Acquire
<1>9. ASSUME NEW u \in Units, CopyOpen(u) PROVE ExtraInv'
  <2> SUFFICES ASSUME NEW w \in Units, NEW v \in Units, NEW d \in Debs,
                      <<v, d>> \in extra[w]
               PROVE  pool'[v][d] # Absent
    BY <1>9 DEF CopyOpen
  <2>1. pool'[v][d] \in {pool[v][d], Torn}
    BY <1>9 DEF CopyOpen
  <2> QED
    BY <2>1 DEF Absent, Torn
<1>10. ASSUME NEW u \in Units, CopyFill(u) PROVE ExtraInv'
  <2> SUFFICES ASSUME NEW w \in Units, NEW v \in Units, NEW d \in Debs,
                      <<v, d>> \in extra[w]
               PROVE  pool'[v][d] # Absent
    BY <1>10 DEF CopyFill
  <2>1. key[u] \in Keys
    BY <1>10 DEF CopyFill
  <2>2. pool'[v][d] \in {pool[v][d]} \cup Keys
    BY <1>10, <2>1 DEF CopyFill
  <2> QED
    BY <2>2, KeysAssumption
<1>11. ASSUME NEW u \in Units, WritePackages(u) PROVE ExtraInv'
  BY <1>11 DEF WritePackages
<1>12. ASSUME NEW u \in Units, Sign(u) PROVE ExtraInv'
  BY <1>12 DEF Sign
<1>13. ASSUME NEW u \in Units, SaveOpen(u) PROVE ExtraInv'
  BY <1>13 DEF SaveOpen
<1>14. ASSUME NEW u \in Units, SaveWrite(u) PROVE ExtraInv'
  BY <1>14 DEF SaveWrite
<1>15. ASSUME NEW u \in Units, Raise(u) PROVE ExtraInv'
  BY <1>15 DEF Raise
<1>16. CASE UNCHANGED vars
  BY <1>16
<1> QED
  BY <1>1, <1>2, <1>3, <1>4, <1>5, <1>6, <1>7, <1>8, <1>9,
     <1>10, <1>11, <1>12, <1>13, <1>14, <1>15, <1>16 DEF Next, Worker

(***************************************************************************)
(* A unit starts only when the waves before its own are through, and what is*)
(* through does not start again in this run.                               *)
(***************************************************************************)
LEMMA WaveStep == IInv /\ [Next]_vars => WaveInv'
<1> SUFFICES ASSUME IInv, [Next]_vars PROVE WaveInv'
  OBVIOUS
<1> USE WaveAssumption
        DEF IInv, TypeOK, RunInv, WaveInv, Publishing, Saving, Running
<1>1. CASE BeginRun
  BY <1>1 DEF BeginRun
<1>2. CASE Cancel
  BY <1>2 DEF Cancel
<1>3. CASE EndRun
  BY <1>3 DEF EndRun
<1>4. CASE Kill
  BY <1>4 DEF Kill
<1>5. ASSUME NEW u \in Units, Start(u) PROVE WaveInv'
  BY <1>5 DEF Start
<1>6. ASSUME NEW u \in Units, List(u) PROVE WaveInv'
  BY <1>6 DEF List
<1>7. ASSUME NEW u \in Units, Sbuild(u) PROVE WaveInv'
  BY <1>7 DEF Sbuild
<1>8. ASSUME NEW u \in Units, Acquire(u) PROVE WaveInv'
  BY <1>8 DEF Acquire
<1>9. ASSUME NEW u \in Units, CopyOpen(u) PROVE WaveInv'
  BY <1>9 DEF CopyOpen
<1>10. ASSUME NEW u \in Units, CopyFill(u) PROVE WaveInv'
  BY <1>10 DEF CopyFill
<1>11. ASSUME NEW u \in Units, WritePackages(u) PROVE WaveInv'
  BY <1>11 DEF WritePackages
<1>12. ASSUME NEW u \in Units, Sign(u) PROVE WaveInv'
  BY <1>12 DEF Sign
<1>13. ASSUME NEW u \in Units, SaveOpen(u) PROVE WaveInv'
  BY <1>13 DEF SaveOpen
<1>14. ASSUME NEW u \in Units, SaveWrite(u) PROVE WaveInv'
  BY <1>14 DEF SaveWrite
<1>15. ASSUME NEW u \in Units, Raise(u) PROVE WaveInv'
  BY <1>15 DEF Raise
<1>16. CASE UNCHANGED vars
  BY <1>16
<1> QED
  BY <1>1, <1>2, <1>3, <1>4, <1>5, <1>6, <1>7, <1>8, <1>9,
     <1>10, <1>11, <1>12, <1>13, <1>14, <1>15, <1>16 DEF Next, Worker

(***************************************************************************)
(* Whoever holds the lock either completes the index or leaves stale set.  *)
(***************************************************************************)
LEMMA IndexServedStep == IInv /\ [Next]_vars => SignedIndexMatchesPool'
<1> SUFFICES ASSUME IInv, [Next]_vars PROVE SignedIndexMatchesPool'
  OBVIOUS
<1> USE UnitsAssumption
        DEF IInv, TypeOK, LockInv, RunInv, IndexInv,
            SignedIndexMatchesPool, Publishing, Saving, Running
<1>1. CASE BeginRun
  BY <1>1 DEF BeginRun
<1>2. CASE Cancel
  BY <1>2 DEF Cancel
<1>3. CASE EndRun
  BY <1>3 DEF EndRun
<1>4. CASE Kill
  BY <1>4 DEF Kill
<1>5. ASSUME NEW u \in Units, Start(u) PROVE SignedIndexMatchesPool'
  BY <1>5 DEF Start
<1>6. ASSUME NEW u \in Units, List(u) PROVE SignedIndexMatchesPool'
  BY <1>6 DEF List
<1>7. ASSUME NEW u \in Units, Sbuild(u) PROVE SignedIndexMatchesPool'
  BY <1>7 DEF Sbuild
<1>8. ASSUME NEW u \in Units, Acquire(u) PROVE SignedIndexMatchesPool'
  BY <1>8 DEF Acquire
<1>9. ASSUME NEW u \in Units, CopyOpen(u) PROVE SignedIndexMatchesPool'
  BY <1>9 DEF CopyOpen
<1>10. ASSUME NEW u \in Units, CopyFill(u) PROVE SignedIndexMatchesPool'
  BY <1>10 DEF CopyFill
<1>11. ASSUME NEW u \in Units, WritePackages(u) PROVE SignedIndexMatchesPool'
  BY <1>11 DEF WritePackages
<1>12. ASSUME NEW u \in Units, Sign(u) PROVE SignedIndexMatchesPool'
  BY <1>12 DEF Sign
<1>13. ASSUME NEW u \in Units, SaveOpen(u) PROVE SignedIndexMatchesPool'
  BY <1>13 DEF SaveOpen
<1>14. ASSUME NEW u \in Units, SaveWrite(u) PROVE SignedIndexMatchesPool'
  BY <1>14 DEF SaveWrite
<1>15. ASSUME NEW u \in Units, Raise(u) PROVE SignedIndexMatchesPool'
  BY <1>15 DEF Raise
<1>16. CASE UNCHANGED vars
  BY <1>16
<1> QED
  BY <1>1, <1>2, <1>3, <1>4, <1>5, <1>6, <1>7, <1>8, <1>9,
     <1>10, <1>11, <1>12, <1>13, <1>14, <1>15, <1>16 DEF Next, Worker

(***************************************************************************)
(* A record says ok only after its worker published the whole set of .debs,*)
(* and whoever disturbs that set later is publishing or has become dirty.  *)
(***************************************************************************)
LEMMA DoneStep == IInv /\ [Next]_vars => DoneIsServed'
<1> SUFFICES ASSUME IInv, [Next]_vars,
                    NEW v \in Units, NEW k \in Keys,
                    Done(v, k)', v \notin (dirty \cup Unrecorded)'
             PROVE  Serves(pool, v, k)'
  BY DEF DoneIsServed
<1> USE DEF IInv, Done, Unrecorded, Saving, Publishing
<1>0. Done(v, k) /\ v \notin dirty \cup Unrecorded => Serves(pool, v, k)
  BY DEF DoneIsServed
<1>1. CASE BeginRun
  BY <1>0, <1>1 DEF BeginRun, RunInv, Serves
<1>2. CASE Cancel
  BY <1>0, <1>2 DEF Cancel, TypeOK, Serves
<1>3. CASE EndRun
  BY <1>0, <1>3 DEF EndRun, Serves
<1>4. CASE Kill
  BY <1>0, <1>4 DEF Kill, Serves
<1>5. ASSUME NEW u \in Units, Start(u) PROVE Serves(pool, v, k)'
  BY <1>0, <1>5 DEF Start, TypeOK, Serves
<1>6. ASSUME NEW u \in Units, List(u) PROVE Serves(pool, v, k)'
  BY <1>0, <1>6 DEF List, TypeOK, Serves
<1>7. ASSUME NEW u \in Units, Sbuild(u) PROVE Serves(pool, v, k)'
  BY <1>0, <1>7 DEF Sbuild, TypeOK, Serves
<1>8. ASSUME NEW u \in Units, Acquire(u) PROVE Serves(pool, v, k)'
  BY <1>0, <1>8 DEF Acquire, TypeOK, Serves
<1>9. ASSUME NEW u \in Units, CopyOpen(u) PROVE Serves(pool, v, k)'
  BY <1>0, <1>9 DEF CopyOpen, TypeOK, Pools, Serves
<1>10. ASSUME NEW u \in Units, CopyFill(u) PROVE Serves(pool, v, k)'
  BY <1>0, <1>10 DEF CopyFill, TypeOK, Pools, Serves
<1>11. ASSUME NEW u \in Units, WritePackages(u) PROVE Serves(pool, v, k)'
  BY <1>0, <1>11 DEF WritePackages, TypeOK, Serves
<1>12. ASSUME NEW u \in Units, Sign(u) PROVE Serves(pool, v, k)'
  BY <1>0, <1>12 DEF Sign, TypeOK, Serves
<1>13. ASSUME NEW u \in Units, SaveOpen(u) PROVE Serves(pool, v, k)'
  BY <1>0, <1>13 DEF SaveOpen, TypeOK, NoRecord, Serves
<1>14. ASSUME NEW u \in Units, SaveWrite(u) PROVE Serves(pool, v, k)'
  <2>1. CASE v = u
    BY <1>14, <2>1 DEF SaveWrite, TypeOK, PublishInv, Serves
  <2>2. CASE v # u
    BY <1>0, <1>14, <2>2 DEF SaveWrite, TypeOK, Serves
  <2> QED
    BY <2>1, <2>2
<1>15. ASSUME NEW u \in Units, Raise(u) PROVE Serves(pool, v, k)'
  BY <1>0, <1>15 DEF Raise, TypeOK, Serves
<1>16. CASE UNCHANGED vars
  BY <1>0, <1>16 DEF Serves
<1> QED
  BY <1>1, <1>2, <1>3, <1>4, <1>5, <1>6, <1>7, <1>8, <1>9,
     <1>10, <1>11, <1>12, <1>13, <1>14, <1>15, <1>16 DEF Next, Worker

(***************************************************************************)
(* No run has been started.                                                *)
(***************************************************************************)
LEMMA InitType == Init => TypeOK
<1> SUFFICES ASSUME Init PROVE TypeOK
  OBVIOUS
<1>1. pool \in Pools
  BY DEF Init, Pools, Contents
<1>2. runs \in 0 .. MaxRuns /\ copied \in 0 .. NDebs
  BY NDebsAssumption, MaxRunsAssumption DEF Init
<1>3. record \in [Units -> Records]
  BY DEF Init, Records
<1>4. pc \in [Units -> Steps]
  BY DEF Init, Steps
<1> QED
  BY <1>1, <1>2, <1>3, <1>4 DEF Init, TypeOK

(***************************************************************************)
(* Before the first run nothing is recorded, served, queued or locked.     *)
(***************************************************************************)
LEMMA InitInv == Init => IInv
<1> SUFFICES ASSUME Init PROVE IInv
  OBVIOUS
<1>1. TypeOK
  BY InitType
<1>2. LockInv /\ RunInv /\ OutInv /\ PendingInv /\ PublishInv /\ IndexInv
  BY UnitsAssumption
     DEF Init, LockInv, RunInv, OutInv, PendingInv, PublishInv, IndexInv,
         Publishing, Saving, Running
<1>3. TornInv /\ ExtraInv /\ WaveInv
  BY DEF Init, TornInv, ExtraInv, WaveInv, Absent, Torn, Publishing, Saving,
         Running
<1>4. DoneIsServed /\ SignedIndexMatchesPool
  BY DEF Init, DoneIsServed, SignedIndexMatchesPool, Done, NoRecord
<1> QED
  BY <1>1, <1>2, <1>3, <1>4 DEF IInv

(***************************************************************************)
(* The conjunction of all of the above is an invariant.                    *)
(***************************************************************************)
THEOREM Inductive == Spec => []IInv
<1>1. IInv /\ [Next]_vars => IInv'
  BY TypeStep, LockStep, RunStep, OutStep, PendingStep, PublishStep, IndexStep,
     TornStep, ExtraStep, WaveStep, DoneStep, IndexServedStep DEF IInv
<1> QED
  BY InitInv, <1>1, PTL DEF Spec

(***************************************************************************)
(* Every variable keeps its type, for any plan and any number of runs.     *)
(***************************************************************************)
THEOREM TypeCorrect == Spec => []TypeOK
<1>1. IInv => TypeOK
  BY DEF IInv
<1> QED
  BY <1>1, Inductive, PTL

(***************************************************************************)
(* pending_units skips a unit by its record alone: unless its last publish *)
(* was never recorded, the repository holds exactly the .debs of that key. *)
(***************************************************************************)
THEOREM ServesWhatItSkips == Spec => []DoneIsServed
<1>1. IInv => DoneIsServed
  BY DEF IInv
<1> QED
  BY <1>1, Inductive, PTL

(***************************************************************************)
(* With publish_lock free and no publish cut short since the last complete *)
(* one, the signed index describes the .debs of the repository.            *)
(***************************************************************************)
THEOREM IndexIsSound == Spec => []SignedIndexMatchesPool
<1>1. IInv => SignedIndexMatchesPool
  BY DEF IInv
<1> QED
  BY <1>1, Inductive, PTL

(***************************************************************************)
(* The join between waves: while sbuild runs no step touches what it was   *)
(* handed from an earlier wave, whoever else publishes meanwhile.          *)
(***************************************************************************)
THEOREM WaveInputs == Spec => EarlierWaveInputsStay
<1>1. ASSUME IInv, [Next]_vars,
             NEW u \in Units, pc[u] = "sbuild",
             NEW v \in Units, NEW d \in Debs, Wave[v] < Wave[u]
      PROVE  pool'[v][d] = pool[v][d]
  <2>1. pc[v] = "idle"
    BY <1>1 DEF IInv, WaveInv, Running
  <2>2. CASE UNCHANGED vars
    BY <2>2 DEF vars
  <2>3. ASSUME NEW w \in Units, CopyOpen(w) \/ CopyFill(w)
        PROVE  pool'[v][d] = pool[v][d]
    <3>1. w # v
      BY <2>1, <2>3 DEF CopyOpen, CopyFill
    <3> QED
      BY <1>1, <2>3, <3>1 DEF CopyOpen, CopyFill, IInv, TypeOK, Pools
  <2>4. ASSUME Next, \A w \in Units : ~CopyOpen(w) /\ ~CopyFill(w)
        PROVE  pool' = pool
    BY <2>4 DEF Next, Worker, BeginRun, Start, List, Sbuild, Acquire, WritePackages, Sign,
                SaveOpen, SaveWrite, Raise, Cancel, EndRun, Kill, disk
  <2> QED
    BY <1>1, <2>2, <2>3, <2>4
<1>2. IInv /\ [Next]_vars =>
        [\A u, v \in Units, d \in Debs :
           pc[u] = "sbuild" /\ <<v, d>> \in extra[u] /\ Wave[v] < Wave[u]
             => pool'[v][d] = pool[v][d]]_vars
  BY <1>1
<1> QED
  BY <1>2, Inductive, PTL DEF Spec, EarlierWaveInputsStay

(***************************************************************************)
(* Of what sbuild is handed from earlier waves, a .deb is torn only if the *)
(* latest publish of its unit was cut short, by a kill or an exception.    *)
(***************************************************************************)
THEOREM TornInputsAreOld == Spec => []TornOnlyIfCutShort
<1>1. IInv => TornOnlyIfCutShort
  <2> SUFFICES ASSUME IInv, NEW u \in Units, pc[u] = "sbuild",
                      NEW v \in Units, NEW d \in Debs,
                      <<v, d>> \in extra[u], Wave[v] < Wave[u], v \notin dirty
               PROVE  pool[v][d] \in Keys
    BY DEF TornOnlyIfCutShort
  <2>1. pc[v] = "idle"
    BY DEF IInv, WaveInv, Running
  <2>2. pool[v][d] # Torn /\ pool[v][d] # Absent
    BY <2>1 DEF IInv, TornInv, ExtraInv
  <2> QED
    BY <2>2 DEF IInv, TypeOK, Pools, Contents
<1> QED
  BY <1>1, Inductive, PTL

(***************************************************************************)
(* Resume within a run: an ok record for the key the run builds with is not*)
(* replaced, and so not paid for, while the run lasts.                     *)
(***************************************************************************)
THEOREM PaysOnce == Spec => PaidOnce
<1>1. ASSUME IInv, [Next]_vars, NEW v \in Units, Done(v, key[v])
      PROVE  record'[v] = record[v]
  <2>1. pc[v] \notin Running
    BY <1>1 DEF IInv, PendingInv
  <2>2. ASSUME NEW u \in Units, SaveOpen(u) \/ SaveWrite(u)
        PROVE  record'[v] = record[v]
    BY <1>1, <2>1, <2>2 DEF SaveOpen, SaveWrite, Running, Saving, IInv, TypeOK
  <2> QED
    BY <1>1, <2>2
       DEF Next, Worker, BeginRun, Cancel, EndRun, Kill, Start, List, Sbuild,
           Acquire, CopyOpen, CopyFill, WritePackages, Sign, Raise
<1>2. IInv /\ [Next]_vars =>
        [\A u \in Units : Done(u, key[u]) => record'[u] = record[u]]_vars
  BY <1>1
<1> QED
  BY <1>2, Inductive, PTL DEF Spec, PaidOnce

(***************************************************************************)
(* The ledger starts empty.                                                *)
(***************************************************************************)
LEMMA RefInit == Init => Ledger!Init
<1> SUFFICES ASSUME Init PROVE Ledger!Init
  OBVIOUS
<1>1. Claims = [u \in Units |-> NoKey]
  BY DEF Init, Claims, NoRecord
<1>2. pool \in [Units -> [Debs -> {Absent}]]
  BY DEF Init
<1>3. OpenUnits = {}
  BY DEF Init, OpenUnits, Unrecorded, Publishing, Saving
<1> QED
  BY <1>1, <1>2, <1>3 DEF Ledger!Init

(***************************************************************************)
(* Acquire opens a unit, copying disturbs it, rewriting its record forgets the*)
(* claim or, after a publish, makes it; every other step is a stutter.     *)
(***************************************************************************)
LEMMA RefStep ==
  IInv /\ [Next]_vars => [Ledger!Next]_<<Claims, pool, OpenUnits>>
<1> SUFFICES ASSUME IInv, [Next]_vars
             PROVE  Ledger!Next \/ UNCHANGED <<Claims, pool, OpenUnits>>
  OBVIOUS
<1> USE DEF IInv, OpenUnits, Unrecorded, Publishing, Saving
<1>1. CASE BeginRun
  BY <1>1 DEF BeginRun, RunInv, Claims
<1>2. CASE Cancel \/ EndRun \/ Kill
  BY <1>2 DEF Cancel, EndRun, Kill, TypeOK, Claims
<1>3. ASSUME NEW u \in Units, Start(u) \/ List(u) \/ Sbuild(u)
      PROVE  UNCHANGED <<Claims, pool, OpenUnits>>
  BY <1>3 DEF Start, List, Sbuild, TypeOK, Claims
<1>4. ASSUME NEW u \in Units, Acquire(u)
      PROVE  Ledger!Open(u)
  BY <1>4 DEF Acquire, Ledger!Open, TypeOK, Claims
<1>5. ASSUME NEW u \in Units, CopyOpen(u)
      PROVE  Ledger!Next
  <2>1. Ledger!Disturb(u, copied + 1)
    BY <1>5 DEF CopyOpen, Ledger!Disturb, Claims, TypeOK
  <2>2. copied + 1 \in Debs
    BY <1>5, NDebsAssumption DEF CopyOpen, Debs, TypeOK
  <2> QED
    BY <2>1, <2>2 DEF Ledger!Next
<1>6. ASSUME NEW u \in Units, CopyFill(u)
      PROVE  Ledger!Next
  <2>1. key[u] \in Keys
    BY <1>6 DEF CopyFill, RunInv, TypeOK
  <2>2. Ledger!Disturb(u, copied + 1)
    BY <1>6, <2>1 DEF CopyFill, Ledger!Disturb, Claims
  <2>3. copied + 1 \in Debs
    BY <1>6, NDebsAssumption DEF CopyFill, Debs, TypeOK
  <2> QED
    BY <2>2, <2>3 DEF Ledger!Next
<1>7. ASSUME NEW u \in Units, WritePackages(u) \/ Sign(u) \/ Raise(u)
      PROVE  UNCHANGED <<Claims, pool, OpenUnits>>
  BY <1>7 DEF WritePackages, Sign, Raise, TypeOK, OutInv, Running, Claims
<1>8. ASSUME NEW u \in Units, SaveOpen(u)
      PROVE  Ledger!Forget(u)
  <2>1. Claims' = [Claims EXCEPT ![u] = NoKey]
    BY <1>8 DEF SaveOpen, Claims, NoRecord, TypeOK
  <2>2. OpenUnits' = OpenUnits
    BY <1>8 DEF SaveOpen, TypeOK
  <2> QED
    BY <1>8, <2>1, <2>2 DEF SaveOpen, Ledger!Forget
<1>9. ASSUME NEW u \in Units, SaveWrite(u)
      PROVE  Ledger!Next
  <2>1. CASE out[u] = "ok"
    <3>1. PICK k \in Keys : k = key[u]
      BY <1>9 DEF SaveWrite, RunInv, TypeOK
    <3>2. \A d \in Debs : pool[u][d] = k
      BY <1>9, <2>1, <3>1 DEF SaveWrite, PublishInv, Serves
    <3>3. Claims' = [Claims EXCEPT ![u] = k]
      BY <1>9, <2>1, <3>1 DEF SaveWrite, Claims, TypeOK
    <3>4. OpenUnits' = OpenUnits \ {u} /\ u \in OpenUnits
      BY <1>9, <2>1 DEF SaveWrite, TypeOK
    <3>5. Ledger!Claim(u, k)
      BY <1>9, <3>2, <3>3, <3>4 DEF SaveWrite, Ledger!Claim
    <3> QED
      BY <3>5 DEF Ledger!Next
  <2>2. CASE out[u] # "ok"
    <3>1. Claims' = [Claims EXCEPT ![u] = NoKey]
      BY <1>9, <2>2 DEF SaveWrite, Claims, TypeOK
    <3>2. OpenUnits' = OpenUnits
      BY <1>9, <2>2 DEF SaveWrite, TypeOK
    <3> QED
      BY <1>9, <3>1, <3>2 DEF SaveWrite, Ledger!Forget, Ledger!Next
  <2> QED
    BY <2>1, <2>2
<1>10. CASE UNCHANGED vars
  BY <1>10 DEF Claims
<1> QED
  BY <1>1, <1>2, <1>3, <1>4, <1>5, <1>6, <1>7, <1>8, <1>9, <1>10
     DEF Next, Worker, Ledger!Next

(***************************************************************************)
(* The world directory implements the ledger: whatever is killed or raises,*)
(* a unit becomes claimed only by an attempt that has published all of it. *)
(***************************************************************************)
THEOREM Implements == Spec => ImplementsLedger
<1> QED
  BY RefInit, RefStep, Inductive, PTL DEF Spec, ImplementsLedger, Ledger!Spec

-----------------------------------------------------------------------------
(* What the ledger's discipline is for.                                    *)

LedgerTypeOK == /\ Claims \in [Units -> Keys \cup {NoKey}]
                /\ pool \in [Units -> [Debs -> Keys \cup {Absent, Torn}]]

(***************************************************************************)
(* Whatever order attempts open, disturb, forget and claim in, a unit that *)
(* is closed is served with the key it is claimed for.                     *)
(***************************************************************************)
THEOREM ClaimsBind == Ledger!Spec => []Ledger!ClaimBinds
<1>1. Ledger!Init => LedgerTypeOK /\ Ledger!ClaimBinds
  BY DEF Ledger!Init, LedgerTypeOK, Ledger!ClaimBinds
<1>2. LedgerTypeOK /\ Ledger!ClaimBinds /\ [Ledger!Next]_<<Claims, pool, OpenUnits>>
        => LedgerTypeOK' /\ Ledger!ClaimBinds'
  <2> SUFFICES ASSUME LedgerTypeOK, Ledger!ClaimBinds, Ledger!Next
               PROVE  LedgerTypeOK' /\ Ledger!ClaimBinds'
    BY DEF LedgerTypeOK, Ledger!ClaimBinds
  <2>1. ASSUME NEW u \in Units, Ledger!Open(u)
        PROVE  LedgerTypeOK' /\ Ledger!ClaimBinds'
    BY <2>1 DEF Ledger!Open, LedgerTypeOK, Ledger!ClaimBinds
  <2>2. ASSUME NEW u \in Units, NEW d \in Debs, Ledger!Disturb(u, d)
        PROVE  LedgerTypeOK' /\ Ledger!ClaimBinds'
    BY <2>2 DEF Ledger!Disturb, LedgerTypeOK, Ledger!ClaimBinds
  <2>3. ASSUME NEW u \in Units, Ledger!Forget(u)
        PROVE  LedgerTypeOK' /\ Ledger!ClaimBinds'
    BY <2>3 DEF Ledger!Forget, LedgerTypeOK, Ledger!ClaimBinds
  <2>4. ASSUME NEW u \in Units, NEW k \in Keys, Ledger!Claim(u, k)
        PROVE  LedgerTypeOK' /\ Ledger!ClaimBinds'
    BY <2>4 DEF Ledger!Claim, LedgerTypeOK, Ledger!ClaimBinds
  <2> QED
    BY <2>1, <2>2, <2>3, <2>4 DEF Ledger!Next
<1> QED
  BY <1>1, <1>2, PTL DEF Ledger!Spec

(* So the world directory serves every closed unit as its record claims,   *)
(* by the refinement alone: nothing of WorldBuild but its steps is used.   *)
THEOREM ServesAsClaimed == Spec => []Ledger!ClaimBinds
<1> QED
  BY Implements, ClaimsBind, PTL DEF ImplementsLedger

-----------------------------------------------------------------------------
(***************************************************************************)
(* Why a run ends (RunEnds): what is ahead of a unit's worker never gets   *)
(* more, and whichever step is taken, that of some unit gets less.  A .deb *)
(* counts twice, to be opened and to be filled.                            *)
(***************************************************************************)
Ahead(u) ==
  CASE pc[u] = "queued"  -> 2 * NDebs + 9
    [] pc[u] = "list"    -> 2 * NDebs + 8
    [] pc[u] = "sbuild"  -> 2 * NDebs + 7
    [] pc[u] = "publish" -> 2 * NDebs + 6
    [] pc[u] = "copy"    -> 2 * (NDebs - copied) + 4
                              + (IF copied < NDebs /\ pool[u][copied + 1] # Torn THEN 1 ELSE 0)
    [] pc[u] = "sign"    -> 3
    [] pc[u] = "save"    -> 2
    [] pc[u] = "write"   -> 1
    [] OTHER             -> 0

LEMMA AheadType == ASSUME TypeOK, NEW u \in Units PROVE Ahead(u) \in Nat
BY NDebsAssumption DEF TypeOK, Ahead

\* A worker that is not publishing is where it is, whatever is published.
LEMMA AheadElsewhere ==
  ASSUME NEW v \in Units, pc'[v] = pc[v], pc[v] = "copy" => UNCHANGED <<copied, pool>>
  PROVE  Ahead(v)' = Ahead(v)
BY DEF Ahead

\* At most one worker publishes.
LEMMA OnePublishes ==
  ASSUME LockInv, NEW u \in Units, NEW v \in Units \ {u}, pc[u] \in Publishing \/ lock = NoUnit
  PROVE  pc[v] \notin Publishing
BY UnitsAssumption DEF LockInv

LEMMA AheadWorker ==
  ASSUME IInv, NEW u \in Units, Worker(u) \/ Raise(u)
  PROVE  Ahead(u)' < Ahead(u) /\ \A v \in Units \ {u} : Ahead(v)' = Ahead(v)
<1>0. TypeOK /\ LockInv
  BY DEF IInv
<1> USE NDebsAssumption
<1>n. copied \in 0 .. NDebs /\ NDebs \in Nat
  BY <1>0 DEF TypeOK
\* The others: who does not hold the lock touches neither pool nor copied.
<1>o. \A v \in Units \ {u} : pc'[v] = pc[v]
  BY <1>0 DEF Worker, Start, List, Sbuild, Acquire, CopyOpen, CopyFill, WritePackages, Sign,
     SaveOpen, SaveWrite, Raise, TypeOK
<1>p. \A v \in Units \ {u} : pc[v] = "copy" => UNCHANGED <<copied, pool>>
  <2> SUFFICES ASSUME NEW v \in Units \ {u}, pc[v] = "copy" PROVE UNCHANGED <<copied, pool>>
    OBVIOUS
  <2>1. lock = v /\ pc[u] \notin Publishing
    BY <1>0, UnitsAssumption DEF LockInv, Publishing
  <2> QED
    BY <2>1, UnitsAssumption DEF Publishing, Worker, Start, List, Sbuild, Acquire, CopyOpen,
       CopyFill, WritePackages, Sign, SaveOpen, SaveWrite, Raise
<1>q. \A v \in Units \ {u} : Ahead(v)' = Ahead(v)
  BY <1>o, <1>p, AheadElsewhere
<1>1. CASE Start(u)
  <2>1. pc[u] = "queued" /\ pc'[u] \in {"list", "save"}
    BY <1>0, <1>1 DEF Start, TypeOK
  <2> QED
    BY <1>n, <1>q, <2>1 DEF Ahead
<1>2. CASE List(u)
  <2>1. pc[u] = "list" /\ pc'[u] = "sbuild"
    BY <1>0, <1>2 DEF List, TypeOK
  <2> QED
    BY <1>n, <1>q, <2>1 DEF Ahead
<1>3. CASE Sbuild(u)
  <2>1. pc[u] = "sbuild" /\ pc'[u] \in {"publish", "save"}
    BY <1>0, <1>3 DEF Sbuild, TypeOK
  <2> QED
    BY <1>n, <1>q, <2>1 DEF Ahead
<1>4. CASE Acquire(u)
  <2>1. pc[u] = "publish" /\ pc'[u] = "copy" /\ copied' = 0
    BY <1>0, <1>4 DEF Acquire, TypeOK
  <2> QED
    BY <1>n, <1>q, <2>1 DEF Ahead
<1>5. CASE CopyOpen(u)
  <2>1. /\ pc[u] = "copy" /\ pc'[u] = "copy" /\ copied' = copied /\ copied < NDebs
        /\ pool[u][copied + 1] # Torn
    BY <1>0, <1>5 DEF CopyOpen, TypeOK
  <2>2. pool'[u][copied + 1] = Torn
    BY <1>0, <1>5, <1>n DEF CopyOpen, TypeOK, Pools, Debs
  <2>3. Ahead(u) = 2 * (NDebs - copied) + 5
    BY <1>n, <2>1 DEF Ahead
  <2>4. Ahead(u)' = 2 * (NDebs - copied) + 4
    BY <1>n, <2>1, <2>2 DEF Ahead
  <2> QED
    BY <1>n, <1>q, <2>3, <2>4
<1>6. CASE CopyFill(u)
  <2>1. /\ pc[u] = "copy" /\ pc'[u] = "copy" /\ copied' = copied + 1 /\ copied < NDebs
        /\ pool[u][copied + 1] = Torn
    BY <1>0, <1>6 DEF CopyFill, TypeOK
  <2>3. Ahead(u) = 2 * (NDebs - copied) + 4
    BY <1>n, <2>1 DEF Ahead
  <2>4. Ahead(u)' \in {2 * (NDebs - (copied + 1)) + 4, 2 * (NDebs - (copied + 1)) + 5}
    BY <1>n, <2>1 DEF Ahead
  <2> QED
    BY <1>n, <1>q, <2>3, <2>4
<1>7. CASE WritePackages(u)
  <2>1. pc[u] = "copy" /\ pc'[u] = "sign" /\ copied = NDebs
    BY <1>0, <1>7 DEF WritePackages, TypeOK
  <2> QED
    BY <1>n, <1>q, <2>1 DEF Ahead
<1>8. CASE Sign(u)
  <2>1. pc[u] = "sign" /\ pc'[u] = "save"
    BY <1>0, <1>8 DEF Sign, TypeOK
  <2> QED
    BY <1>n, <1>q, <2>1 DEF Ahead
<1>9. CASE SaveOpen(u)
  <2>1. pc[u] = "save" /\ pc'[u] = "write"
    BY <1>0, <1>9 DEF SaveOpen, TypeOK
  <2> QED
    BY <1>n, <1>q, <2>1 DEF Ahead
<1>10. CASE SaveWrite(u)
  <2>1. pc[u] = "write" /\ pc'[u] = "idle"
    BY <1>0, <1>10 DEF SaveWrite, TypeOK
  <2> QED
    BY <1>n, <1>q, <2>1 DEF Ahead
<1>11. CASE Raise(u)
  <2>1. pc[u] \in Running /\ pc'[u] = "raised"
    BY <1>0, <1>11 DEF Raise, TypeOK
  <2>2. Ahead(u)' = 0
    BY <2>1 DEF Ahead
  <2>3. Ahead(u) > 0
    BY <1>n, <2>1 DEF Ahead, Running, Publishing, Saving
  <2> QED
    BY <1>q, <2>2, <2>3
<1> QED
  BY <1>1, <1>2, <1>3, <1>4, <1>5, <1>6, <1>7, <1>8, <1>9, <1>10, <1>11 DEF Worker

\* All units weakly, one of them strictly.
GetsLess ==
  /\ \A u \in Units : Ahead(u)' <= Ahead(u)
  /\ \E u \in Units : Ahead(u)' < Ahead(u)

LEMMA AheadStep ==
  IInv /\ [Next]_vars => [BeginRun \/ (run = "building" /\ run' = "idle") \/ GetsLess]_vars
<1> SUFFICES ASSUME IInv, Next, ~BeginRun, ~(run = "building" /\ run' = "idle") PROVE GetsLess
  OBVIOUS
<1>0. TypeOK
  BY DEF IInv
<1>1. ASSUME NEW u \in Units, Worker(u) \/ Raise(u) PROVE GetsLess
  <2>1. Ahead(u)' < Ahead(u) /\ \A v \in Units \ {u} : Ahead(v)' = Ahead(v)
    BY <1>1, AheadWorker
  <2>2. \A v \in Units : Ahead(v) \in Nat
    BY <1>0, AheadType
  <2>3. TypeOK'
    BY TypeStep
  <2>4. Ahead(u)' \in Nat
    BY <1>0, <2>3, NDebsAssumption DEF Ahead, TypeOK
  <2> QED
    BY <2>1, <2>2, <2>4 DEF GetsLess
<1>2. CASE Cancel
  <2>1. PICK u \in Units : pc[u] = "queued"
    BY <1>2 DEF Cancel
  <2>2. \A v \in Units : pc'[v] = IF pc[v] = "queued" THEN "idle" ELSE pc[v]
    BY <1>2 DEF Cancel
  <2>3. UNCHANGED <<copied, pool>>
    BY <1>2 DEF Cancel
  <2>4. \A v \in Units : pc[v] # "queued" => Ahead(v)' = Ahead(v)
    BY <2>2, <2>3, AheadElsewhere
  <2>5. \A v \in Units : pc[v] = "queued" => Ahead(v)' = 0 /\ Ahead(v) = 2 * NDebs + 9
    BY <2>2 DEF Ahead
  <2>6. \A v \in Units : Ahead(v) \in Nat
    BY <1>0, AheadType
  <2> QED
    BY <2>1, <2>4, <2>5, <2>6, NDebsAssumption DEF GetsLess
<1>3. ~EndRun /\ ~Kill
  BY DEF EndRun, Kill
<1> QED
  BY <1>1, <1>2, <1>3 DEF Next

\* No run goes on for ever, however its workers interleave, fail and wait: it
\* ends, or with every step something of it is over.
THEOREM RunsAreBounded ==
  Spec => /\ [](\A u \in Units : Ahead(u) \in Nat)
          /\ [][BeginRun \/ (run = "building" /\ run' = "idle") \/ GetsLess]_vars
<1>1. IInv => \A u \in Units : Ahead(u) \in Nat
  BY AheadType DEF IInv
<1>2. IInv /\ [Next]_vars => [BeginRun \/ (run = "building" /\ run' = "idle") \/ GetsLess]_vars
  BY AheadStep
<1> QED
  BY <1>1, <1>2, Inductive, PTL DEF Spec
=============================================================================
