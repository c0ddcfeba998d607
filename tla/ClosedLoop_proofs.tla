------------------------- MODULE ClosedLoop_proofs -------------------------
(***************************************************************************)
(* For all symbols, proposals, answers, command lines and numbers of       *)
(* rounds, loops and verbs: no final.config loses a load-bearing symbol,   *)
(* the history on disk has no holes and is never rewritten, the sizes in   *)
(* it are those of its kernels, and a loop that says it converged did.     *)
(***************************************************************************)
EXTENDS ClosedLoop, TLAPS

(***************************************************************************)
(* The inductive invariant.  HistoryInv: the records that parse are those  *)
(* of the rounds 1..n, and a loop works on round n + 1; Last is that n,    *)
(* and no induction is needed to say so.  RoundInv: what a step finds of   *)
(* its round.  SizeInv: the kernel a record's size is about is the one     *)
(* kept beside it, for the record about to be saved too.  EndedInv: a      *)
(* loop's end is announced only while none runs, so what it was about      *)
(* stays on disk.                                                          *)
(***************************************************************************)
UpTo(n) == \A i \in Rounds : Saved(i) <=> i <= n

HistoryInv ==
  \E n \in 0 .. MaxRounds : UpTo(n) /\ (pc # "idle" => round = n + 1)

RoundInv ==
  /\ pc # "idle" => opts \in Options /\ round \in Rounds /\ round <= last
  /\ pc = "apply" => kfrag \in Fragments
  /\ pc = "keep" => image \in Configs
  /\ pc \in {"boot-test", "measure"} /\ ~failed => image \in Configs /\ posts[round] = image
  /\ pc \in {"save", "write"} => rec \in Records
  /\ failed => pc \in {"measure", "save", "write"}

SizeInv ==
  /\ SizesAreOfTheRound
  /\ pc \in {"save", "write"} /\ rec.size # None
       => posts[round] # None /\ rec.size = Size[posts[round]]

EndedInv == ended # "none" => pc = "idle"

IInv ==
  /\ TypeOK /\ HistoryInv /\ RoundInv /\ LoadBearingKept /\ SizeInv /\ EndedInv
  /\ ConvergedIsStable

USE DEF dirs, snap, user, loop, Goto

-----------------------------------------------------------------------------
\* The greatest number of 0..n.
LEMMA MaxUpTo ==
  ASSUME NEW n \in Nat, NEW S, S = 0 .. n
  PROVE  Max(S) = n
<1>1. n \in S /\ \A y \in S : n >= y
  OBVIOUS
<1>2. \A x \in S : (\A y \in S : x >= y) => x = n
  BY <1>1
<1> QED
  BY <1>1, <1>2 DEF Max

\* If the records that parse are those of 1..n, the last one is n.
LEMMA LastIs ==
  ASSUME NEW n \in 0 .. MaxRounds, UpTo(n)
  PROVE  Last = n
<1>1. MaxRounds \in Nat
  BY BoundsAssumption
<1>2. {0} \cup {i \in Rounds : Saved(i)} = 0 .. n
  BY <1>1 DEF UpTo, Rounds
<1>3. n \in Nat
  BY <1>1
<1>4. Max({0} \cup {i \in Rounds : Saved(i)}) = n
  BY <1>2, <1>3, MaxUpTo
<1> QED
  BY <1>4 DEF Last

LEMMA HistoryIsLast ==
  ASSUME HistoryInv
  PROVE  /\ Last \in 0 .. MaxRounds /\ UpTo(Last)
         /\ pc # "idle" => round = Last + 1
BY LastIs DEF HistoryInv

\* olddefconfig and localmodconfig make a configuration of a configuration.
LEMMA SettleType ==
  ASSUME NEW c \in Configs, NEW localmod \in BOOLEAN
  PROVE  Settle(c, localmod) \in Configs
BY KconfigAssumption DEF Settle, Configs

LEMMA FragmentType ==
  ASSUME NEW accepted \in SUBSET Proposals
  PROVE  Fragment(accepted) \in Fragments
<1>1. \A p \in accepted : p.config \in Symbols /\ p.previous \in Symbols \cup {None}
  BY ProposalsAssumption
<1>2. {p.config : p \in {q \in accepted : q.value = "y"}} \in Configs
  BY <1>1 DEF Configs
<1>3. {p.config : p \in {q \in accepted : q.value = "n"}} \cup ({p.previous : p \in accepted} \ {None})
        \in Configs
  BY <1>1 DEF Configs
<1> QED
  BY <1>2, <1>3 DEF Fragment, Fragments

LEMMA MergeType ==
  ASSUME NEW f \in Fragments
  PROVE  Merge(Running, f) \in Configs
BY RunningAssumption DEF Merge, Fragments, Configs

LEMMA SizeType == \A c \in Configs : Size[c] \in Sizes /\ Size[c] \in Nat
BY SizeAssumption DEF Sizes

\* What apply writes has the load-bearing symbols of the running kernel.
LEMMA ApplyKeeps ==
  ASSUME NEW c, Downgrades(c) = {}
  PROVE  LoadBearing \cap Running \subseteq c
BY DEF Downgrades

-----------------------------------------------------------------------------
LEMMA InitInv == Init => IInv
<1> SUFFICES ASSUME Init PROVE IInv
  OBVIOUS
<1> USE BoundsAssumption, MarkersAssumption DEF Init
<1>1. TypeOK
  <2>1. 0 \in 0 .. MaxRounds /\ 0 \in 0 .. MaxStarts /\ 0 \in 0 .. MaxVerbs
    OBVIOUS
  <2> QED
    BY <2>1 DEF TypeOK
<1>2. HistoryInv
  BY DEF HistoryInv, UpTo, Saved, Rounds
<1>3. RoundInv /\ LoadBearingKept /\ SizeInv /\ EndedInv /\ ConvergedIsStable
  BY DEF RoundInv, LoadBearingKept, SizeInv, SizesAreOfTheRound, Saved, EndedInv,
         ConvergedIsStable
<1> QED
  BY <1>1, <1>2, <1>3 DEF IInv

-----------------------------------------------------------------------------
(* Types.                                                                  *)

LEMMA TypeStep == IInv /\ [Next]_vars => TypeOK'
<1> SUFFICES ASSUME IInv, [Next]_vars PROVE TypeOK'
  OBVIOUS
<1> USE DEF IInv, TypeOK, RoundInv, RoundSteps
<1>1. CASE Begin
  <2>1. PICK o \in Options :
          opts' = o /\ last' = Min({FirstRound + o.rounds - 1, MaxRounds})
    BY <1>1 DEF Begin
  <2>2. FirstRound \in 1 .. MaxRounds /\ MaxRounds \in Nat /\ o.rounds \in Nat \ {0}
    BY <1>1, OptionsAssumption, BoundsAssumption DEF Begin, Rounds
  <2>3. last' \in {FirstRound + o.rounds - 1, MaxRounds} /\ last' <= MaxRounds
    <3>1. PICK m \in {FirstRound + o.rounds - 1, MaxRounds} :
            \A y \in {FirstRound + o.rounds - 1, MaxRounds} : m <= y
      BY <2>2
    <3> QED
      BY <2>1, <3>1 DEF Min
  <2>4. last' \in 0 .. MaxRounds /\ round' \in 0 .. MaxRounds
    BY <1>1, <2>2, <2>3 DEF Begin
  <2>5. starts' \in 0 .. MaxStarts
    BY <1>1, BoundsAssumption DEF Begin
  <2> QED
    BY <1>1, <2>1, <2>4, <2>5 DEF Begin
<1>2. CASE Propose
  <2>1. PICK offered \in Answers :
          \E accepted \in SUBSET {p \in offered : PassesPolicy(p)} : kfrag' = Fragment(accepted)
    BY <1>2 DEF Propose
  <2>2. kfrag' \in Fragments
    BY <2>1, AnswersAssumption, FragmentType
  <2>3. nothing' \in BOOLEAN
    BY <1>2 DEF Propose
  <2> QED
    BY <1>2, <2>2, <2>3 DEF Propose
<1>3. CASE ProposeFails
  BY <1>3 DEF ProposeFails, Records
<1>4. CASE Apply
  <2>1. Merge(Running, kfrag) \in Configs
    BY <1>4, MergeType DEF Apply
  <2> QED
    BY <1>4, <2>1 DEF Apply
<1>5. CASE Chain
  <2>1. finals' \in [Rounds -> Configs \cup {None}]
    BY <1>5 DEF Chain
  <2>2. rec' \in Records \cup {None} /\ pc' \in RoundSteps
    <3>1. [nothing |-> nothing, size |-> None, boot |-> None, regressed |-> FALSE] \in Records
      BY DEF Records
    <3> QED
      BY <1>5, <3>1 DEF Chain
  <2> QED
    BY <1>5, <2>1, <2>2 DEF Chain
<1>6. CASE BuildFails
  <2>1. image' \in Configs \cup {None}
    <3>1. final # None => Settle(final, TRUE) \in Configs
      BY SettleType
    <3> QED
      BY <1>6, <3>1 DEF BuildFails
  <2> QED
    BY <1>6, <2>1 DEF BuildFails
<1>7. CASE BuildSucceeds
  BY <1>7, SettleType DEF BuildSucceeds
<1>8. CASE KeepPostBuild
  BY <1>8 DEF KeepPostBuild
<1>9. CASE BootTest
  <2>1. image \in Configs
    BY <1>9 DEF BootTest
  <2>2. boot' \in Verdicts \cup {None} /\ tested' \in BOOLEAN
    <3>1. CASE \E ok \in BOOLEAN : Verdict(ok) /\ tested' = TRUE
      BY <2>1, <3>1 DEF Verdict, Verdicts
    <3>2. CASE UNCHANGED <<boot, tested>>
      BY <3>2
    <3> QED
      BY <1>9, <3>1, <3>2 DEF BootTest
  <2> QED
    BY <1>9, <2>2 DEF BootTest
<1>10. CASE Measure
  <2>1. MeasuredSize \in Sizes \cup {None}
    BY <1>10, SizeType DEF Measure, MeasuredSize
  <2>2. MeasuredBoot \in BOOLEAN \cup {None}
    BY DEF MeasuredBoot, Verdicts
  <2>3. rec' \in Records
    BY <1>10, <2>1, <2>2 DEF Measure, Records
  <2>4. Last \in 0 .. MaxRounds
    BY HistoryIsLast
  <2>5. Last # 0 => finals[Last] \in Configs \cup {None}
    BY <2>4, BoundsAssumption DEF Rounds
  <2>6. final' \in Configs \cup {None}
    BY <1>10, <2>5 DEF Measure
  <2> QED
    BY <1>10, <2>3, <2>6 DEF Measure
<1>11. CASE SaveOpen
  BY <1>11 DEF SaveOpen
<1>12. CASE SaveWrite
  <2>1. ended' \in {"none", "stable", "nothing-new", "max"}
    BY <1>12 DEF SaveWrite, Ending
  <2>2. ended' = "none" => round # last
    BY <1>12 DEF SaveWrite, Ending
  <2>3. round' \in 0 .. MaxRounds
    BY <1>12, <2>2, BoundsAssumption DEF SaveWrite, ForgetLoop, Rounds
  <2>4. records' \in [Rounds -> Records \cup {None, Torn}]
    BY <1>12 DEF SaveWrite
  <2> QED
    BY <1>12, <2>1, <2>3, <2>4, BoundsAssumption DEF SaveWrite, ForgetRound, ForgetLoop
<1>13. CASE Kill
  <2>1. 0 \in 0 .. MaxRounds
    BY BoundsAssumption
  <2> QED
    BY <1>13, <2>1 DEF Kill, ForgetRound, ForgetLoop
<1>14. CASE BuildPackage
  <2>1. verbs' \in 0 .. MaxVerbs
    BY <1>14, BoundsAssumption DEF BuildPackage, Verb
  <2>2. image' \in Configs \cup {None} /\ package' \in Configs \cup {None}
    BY <1>14, SettleType DEF BuildPackage, Verb
  <2> QED
    BY <1>14, <2>1, <2>2 DEF BuildPackage, Verb
<1>15. CASE TestByHand
  <2>1. verbs' \in 0 .. MaxVerbs
    BY <1>15, BoundsAssumption DEF TestByHand, Verb
  <2> QED
    BY <1>15, <2>1 DEF TestByHand, Verb, Verdict, Verdicts
<1>16. CASE Install
  <2>1. verbs' \in 0 .. MaxVerbs
    BY <1>16, BoundsAssumption DEF Install, Verb
  <2> QED
    BY <1>16, <2>1 DEF Install, Verb
<1>17. CASE UNCHANGED vars
  BY <1>17 DEF vars
<1> QED
  BY <1>1, <1>2, <1>3, <1>4, <1>5, <1>6, <1>7, <1>8, <1>9, <1>10, <1>11, <1>12, <1>13,
     <1>14, <1>15, <1>16, <1>17 DEF Next, Step

-----------------------------------------------------------------------------
(* The history.                                                            *)

\* A record that is written joins the history as its next round.
LEMMA SaveAdds ==
  ASSUME IInv, SaveWrite
  PROVE  /\ round \in Rounds /\ \A i \in Rounds : Saved(i)' <=> i <= round
         /\ records' = [records EXCEPT ![round] = rec]
<1>1. UpTo(Last) /\ round = Last + 1 /\ Last \in Nat
  BY HistoryIsLast, BoundsAssumption DEF IInv, SaveWrite
<1>2. round \in Rounds /\ rec \in Records /\ records' = [records EXCEPT ![round] = rec]
  BY DEF SaveWrite, IInv, RoundInv
<1>3. ASSUME NEW i \in Rounds PROVE Saved(i)' <=> i <= round
  <2>1. CASE i = round
    BY <1>1, <1>2, <2>1, MarkersAssumption DEF Saved, IInv, TypeOK
  <2>2. CASE i # round
    <3>1. Saved(i)' <=> Saved(i)
      BY <1>2, <2>2 DEF Saved, IInv, TypeOK
    <3>2. i \in Nat
      BY BoundsAssumption DEF Rounds
    <3>3. i <= round <=> i <= Last
      BY <1>1, <2>2, <3>2
    <3> QED
      BY <1>1, <3>1, <3>3 DEF UpTo
  <2> QED
    BY <2>1, <2>2
<1> QED
  BY <1>2, <1>3

LEMMA HistoryStep == IInv /\ [Next]_vars => HistoryInv'
<1> SUFFICES ASSUME IInv, [Next]_vars PROVE HistoryInv'
  OBVIOUS
<1>1. PICK n \in 0 .. MaxRounds : UpTo(n) /\ (pc # "idle" => round = n + 1)
  BY DEF IInv, HistoryInv
<1>2. MaxRounds \in Nat /\ n \in Nat /\ Last = n
  BY <1>1, BoundsAssumption, LastIs
<1>3. ASSUME UNCHANGED records, pc' # "idle" => round' = n + 1
      PROVE  HistoryInv'
  <2>1. UpTo(n)'
    BY <1>1, <1>3 DEF UpTo, Saved
  <2> QED
    BY <1>1, <1>3, <2>1 DEF HistoryInv
<1>4. CASE Begin
  BY <1>2, <1>3, <1>4 DEF Begin, FirstRound
<1>5. CASE SaveOpen
  <2>1. round \in Rounds /\ round = n + 1 /\ records' = [records EXCEPT ![round] = Torn]
    BY <1>1, <1>5 DEF SaveOpen, IInv, RoundInv
  <2>2. UpTo(n)'
    <3> SUFFICES ASSUME NEW i \in Rounds PROVE Saved(i)' <=> i <= n
      BY DEF UpTo
    <3>1. CASE i = round
      BY <1>2, <2>1, <3>1 DEF Saved, IInv, TypeOK
    <3>2. CASE i # round
      BY <1>1, <2>1, <3>2 DEF Saved, IInv, TypeOK, UpTo
    <3> QED
      BY <3>1, <3>2
  <2> QED
    BY <1>5, <2>1, <2>2 DEF SaveOpen, HistoryInv
<1>6. CASE SaveWrite
  <2>1. PICK m \in 0 .. MaxRounds : m = round
    BY <1>2, <1>6, SaveAdds DEF Rounds
  <2>2. UpTo(m)'
    BY <1>6, <2>1, SaveAdds DEF UpTo
  <2>3. pc' # "idle" => round' = m + 1
    BY <1>6, <2>1 DEF SaveWrite
  <2> QED
    BY <2>2, <2>3 DEF HistoryInv
<1>7. CASE Kill
  BY <1>3, <1>7 DEF Kill
<1>8. CASE Propose \/ ProposeFails \/ Apply \/ Chain \/ BuildFails \/ BuildSucceeds
  BY <1>1, <1>3, <1>8 DEF Propose, ProposeFails, Apply, Chain, BuildFails, BuildSucceeds
<1>9. CASE KeepPostBuild \/ BootTest \/ Measure
  BY <1>1, <1>3, <1>9 DEF KeepPostBuild, BootTest, Measure
<1>10. CASE BuildPackage \/ TestByHand \/ Install \/ UNCHANGED vars
  BY <1>1, <1>3, <1>10 DEF BuildPackage, TestByHand, Install, Verb, vars
<1> QED
  BY <1>4, <1>5, <1>6, <1>7, <1>8, <1>9, <1>10 DEF Next, Step

-----------------------------------------------------------------------------
(* What a step finds of its round.                                         *)

LEMMA RoundStep == IInv /\ [Next]_vars => RoundInv'
<1> SUFFICES ASSUME IInv, [Next]_vars PROVE RoundInv'
  OBVIOUS
<1> USE DEF IInv, RoundInv
<1>1. CASE Begin
  <2>1. PICK o \in Options :
          opts' = o /\ last' = Min({FirstRound + o.rounds - 1, MaxRounds})
    BY <1>1 DEF Begin
  <2>2. FirstRound \in 1 .. MaxRounds /\ MaxRounds \in Nat /\ o.rounds \in Nat \ {0}
    BY <1>1, OptionsAssumption, BoundsAssumption DEF Begin, Rounds
  <2>3. last' \in {FirstRound + o.rounds - 1, MaxRounds}
    BY <2>1, <2>2 DEF Min
  <2>4. FirstRound <= last'
    BY <2>2, <2>3
  <2>5. ~failed'
    BY <1>1 DEF Begin
  <2> QED
    BY <1>1, <2>1, <2>2, <2>4, <2>5 DEF Begin, Rounds
<1>2. CASE Propose
  <2>1. PICK offered \in Answers :
          \E accepted \in SUBSET {p \in offered : PassesPolicy(p)} : kfrag' = Fragment(accepted)
    BY <1>2 DEF Propose
  <2>2. kfrag' \in Fragments
    BY <2>1, AnswersAssumption, FragmentType
  <2> QED
    BY <1>2, <2>2 DEF Propose
<1>3. CASE ProposeFails
  BY <1>3 DEF ProposeFails, Records
<1>4. CASE Apply
  BY <1>4 DEF Apply
<1>5. CASE Chain
  <2>1. [nothing |-> nothing, size |-> None, boot |-> None, regressed |-> FALSE] \in Records
    BY DEF Records, TypeOK
  <2> QED
    BY <1>5, <2>1 DEF Chain
<1>6. CASE BuildFails
  BY <1>6 DEF BuildFails
<1>7. CASE BuildSucceeds
  BY <1>7, SettleType DEF BuildSucceeds, TypeOK
<1>8. CASE KeepPostBuild
  BY <1>8 DEF KeepPostBuild, TypeOK
<1>9. CASE BootTest
  BY <1>9 DEF BootTest, Verdict
<1>10. CASE Measure
  <2>1. rec' \in Records
    <3>1. MeasuredSize \in Sizes \cup {None}
      BY <1>10, SizeType DEF Measure, MeasuredSize
    <3>2. MeasuredBoot \in BOOLEAN \cup {None}
      BY DEF MeasuredBoot, Verdicts, TypeOK
    <3> QED
      BY <1>10, <3>1, <3>2 DEF Measure, Records, TypeOK
  <2> QED
    BY <1>10, <2>1 DEF Measure
<1>11. CASE SaveOpen
  BY <1>11 DEF SaveOpen
<1>12. CASE SaveWrite
  <2>1. CASE ended' = "none"
    <3>1. round # last
      BY <1>12, <2>1 DEF SaveWrite, Ending
    <3>2. round \in 1 .. MaxRounds /\ last \in 0 .. MaxRounds /\ round <= last
      BY <1>12 DEF SaveWrite, Rounds, TypeOK
    <3>3. round + 1 \in Rounds /\ round + 1 <= last
      BY <3>1, <3>2, BoundsAssumption DEF Rounds
    <3>4. round' = round + 1 /\ UNCHANGED <<opts, last>> /\ pc' = "propose" /\ ~failed'
      BY <1>12, <2>1 DEF SaveWrite, ForgetRound
    <3> QED
      BY <1>12, <3>3, <3>4 DEF SaveWrite
  <2>2. CASE ended' # "none"
    BY <1>12, <2>2 DEF SaveWrite, ForgetLoop, ForgetRound
  <2> QED
    BY <2>1, <2>2
<1>13. CASE Kill
  BY <1>13 DEF Kill, ForgetRound
<1>14. CASE BuildPackage \/ TestByHand \/ Install
  <2>1. pc = "idle" /\ UNCHANGED <<pc, failed>>
    BY <1>14 DEF BuildPackage, TestByHand, Install, Verb
  <2> QED
    BY <2>1
<1>15. CASE UNCHANGED vars
  BY <1>15 DEF vars
<1> QED
  BY <1>1, <1>2, <1>3, <1>4, <1>5, <1>6, <1>7, <1>8, <1>9, <1>10, <1>11, <1>12, <1>13,
     <1>14, <1>15 DEF Next, Step

-----------------------------------------------------------------------------
(* Load-bearing symbols: apply validates, everything else copies.          *)

Keeps(c) == c # None => LoadBearing \cap Running \subseteq c

LEMMA KeptStep == IInv /\ [Next]_vars => LoadBearingKept'
<1> SUFFICES ASSUME IInv, [Next]_vars PROVE LoadBearingKept'
  OBVIOUS
<1>1. Keeps(final) /\ \A i \in Rounds : Keeps(finals[i])
  BY DEF IInv, LoadBearingKept, Keeps
<1>2. ASSUME Keeps(final'), UNCHANGED finals
      PROVE  LoadBearingKept'
  BY <1>1, <1>2 DEF LoadBearingKept, Keeps
<1>3. CASE Apply
  <2>1. Keeps(final')
    BY <1>1, <1>3, ApplyKeeps DEF Apply, Keeps
  <2> QED
    BY <1>2, <1>3, <2>1 DEF Apply
<1>4. CASE Chain
  <2>1. \A i \in Rounds : finals'[i] \in {finals[i], final}
    BY <1>4 DEF Chain, IInv, TypeOK
  <2>2. UNCHANGED final
    BY <1>4 DEF Chain
  <2> QED
    BY <1>1, <2>1, <2>2 DEF LoadBearingKept, Keeps
<1>5. CASE Measure
  <2>1. Last # 0 => Last \in Rounds
    BY HistoryIsLast, BoundsAssumption DEF IInv, Rounds
  <2>2. Keeps(final')
    BY <1>1, <1>5, <2>1 DEF Measure, Keeps
  <2> QED
    BY <1>2, <1>5, <2>2 DEF Measure
<1>6. CASE UNCHANGED <<final, finals>>
  BY <1>1, <1>2, <1>6
<1>7. CASE Begin \/ Kill \/ SaveOpen \/ SaveWrite \/ UNCHANGED vars
  BY <1>6, <1>7 DEF Begin, Kill, SaveOpen, SaveWrite, vars
<1>8. CASE Propose \/ ProposeFails \/ BuildFails \/ BuildSucceeds \/ KeepPostBuild \/ BootTest
  BY <1>6, <1>8 DEF Propose, ProposeFails, BuildFails, BuildSucceeds, KeepPostBuild, BootTest
<1>9. CASE BuildPackage \/ TestByHand \/ Install
  BY <1>6, <1>9 DEF BuildPackage, TestByHand, Install, Verb
<1> QED
  BY <1>3, <1>4, <1>5, <1>7, <1>8, <1>9 DEF Next, Step

-----------------------------------------------------------------------------
(* A round on record: nothing in its directory changes.                    *)

\* The round a loop works on is not on record.
LEMMA WorksOnNew ==
  ASSUME IInv, pc # "idle"
  PROVE  round \in Rounds /\ ~Saved(round)
<1>1. UpTo(Last) /\ round = Last + 1 /\ Last \in Nat
  BY HistoryIsLast, BoundsAssumption DEF IInv
<1> QED
  BY <1>1 DEF UpTo, IInv, RoundInv

Frozen == \A i \in Rounds :
            Saved(i) => /\ records'[i] = records[i]
                        /\ finals'[i] = finals[i]
                        /\ posts'[i] = posts[i]

LEMMA FrozenStep == IInv /\ [Next]_vars => Frozen
<1> SUFFICES ASSUME IInv, [Next]_vars, NEW i \in Rounds, Saved(i)
             PROVE  /\ records'[i] = records[i]
                    /\ finals'[i] = finals[i]
                    /\ posts'[i] = posts[i]
  BY DEF Frozen
<1>1. pc # "idle" => i # round
  BY WorksOnNew
<1>2. CASE UNCHANGED dirs
  BY <1>2
<1>3. CASE Chain
  BY <1>1, <1>3 DEF Chain, IInv, TypeOK
<1>4. CASE KeepPostBuild
  BY <1>1, <1>4 DEF KeepPostBuild, IInv, TypeOK
<1>5. CASE SaveOpen
  BY <1>1, <1>5 DEF SaveOpen, IInv, TypeOK
<1>6. CASE SaveWrite
  BY <1>1, <1>6 DEF SaveWrite, IInv, TypeOK
<1>7. CASE Begin \/ Kill \/ UNCHANGED vars
  BY <1>2, <1>7 DEF Begin, Kill, vars
<1>8. CASE Propose \/ ProposeFails \/ Apply \/ BuildFails \/ BuildSucceeds \/ BootTest \/ Measure
  BY <1>2, <1>8 DEF Propose, ProposeFails, Apply, BuildFails, BuildSucceeds, BootTest, Measure
<1>9. CASE BuildPackage \/ TestByHand \/ Install
  BY <1>2, <1>9 DEF BuildPackage, TestByHand, Install, Verb
<1> QED
  BY <1>3, <1>4, <1>5, <1>6, <1>7, <1>8, <1>9 DEF Next, Step

-----------------------------------------------------------------------------
(* The sizes on record.                                                    *)

LEMMA SizeStep == IInv /\ [Next]_vars => SizeInv'
<1> SUFFICES ASSUME IInv, [Next]_vars PROVE SizeInv'
  OBVIOUS
<1>1. SizesAreOfTheRound'
  <2> SUFFICES ASSUME NEW i \in Rounds, Saved(i)', records'[i].size # None
               PROVE  posts'[i] # None /\ records'[i].size = Size[posts'[i]]
    BY DEF SizesAreOfTheRound
  <2>1. CASE Saved(i)
    <3>1. records'[i] = records[i] /\ posts'[i] = posts[i]
      BY <2>1, FrozenStep DEF Frozen
    <3> QED
      BY <2>1, <3>1 DEF IInv, SizeInv, SizesAreOfTheRound
  <2>2. CASE ~Saved(i) /\ SaveWrite
    <3>1. i = round /\ records'[i] = rec /\ UNCHANGED posts
      BY <2>2 DEF SaveWrite, Saved, IInv, TypeOK
    <3> QED
      BY <2>2, <3>1 DEF SaveWrite, IInv, SizeInv
  <2>3. CASE ~Saved(i) /\ SaveOpen
    BY <2>3 DEF SaveOpen, Saved, IInv, TypeOK
  <2>4. CASE ~Saved(i) /\ UNCHANGED records
    BY <2>4 DEF Saved
  <2>5. CASE Begin \/ Kill \/ UNCHANGED vars
    BY <2>1, <2>4, <2>5 DEF Begin, Kill, vars
  <2>6. CASE Propose \/ ProposeFails \/ Apply \/ Chain \/ BuildFails \/ BuildSucceeds
    BY <2>1, <2>4, <2>6
       DEF Propose, ProposeFails, Apply, Chain, BuildFails, BuildSucceeds
  <2>7. CASE KeepPostBuild \/ BootTest \/ Measure
    BY <2>1, <2>4, <2>7 DEF KeepPostBuild, BootTest, Measure
  <2>8. CASE BuildPackage \/ TestByHand \/ Install
    BY <2>1, <2>4, <2>8 DEF BuildPackage, TestByHand, Install, Verb
  <2> QED
    BY <2>1, <2>2, <2>3, <2>5, <2>6, <2>7, <2>8 DEF Next, Step
<1>2. ASSUME pc' \in {"save", "write"}, rec'.size # None
      PROVE  posts'[round'] # None /\ rec'.size = Size[posts'[round']]
  <2>1. CASE Measure
    <3>1. rec'.size = MeasuredSize /\ UNCHANGED <<posts, round>>
      BY <2>1 DEF Measure
    <3>2. ~failed /\ image \in Configs /\ posts[round] = image
      BY <1>2, <2>1, <3>1 DEF Measure, MeasuredSize, IInv, RoundInv
    <3> QED
      BY <3>1, <3>2, MarkersAssumption DEF MeasuredSize
  <2>2. CASE SaveOpen
    BY <1>2, <2>2 DEF SaveOpen, IInv, SizeInv
  <2>3. CASE ProposeFails \/ Chain
    BY <1>2, <2>3 DEF ProposeFails, Chain
  <2>4. CASE SaveWrite \/ Begin \/ Kill
    BY <1>2, <2>4 DEF SaveWrite, Begin, Kill
  <2>5. CASE Propose \/ Apply \/ BuildFails \/ BuildSucceeds \/ KeepPostBuild \/ BootTest
    BY <1>2, <2>5 DEF Propose, Apply, BuildFails, BuildSucceeds, KeepPostBuild, BootTest
  <2>6. CASE BuildPackage \/ TestByHand \/ Install
    BY <1>2, <2>6 DEF BuildPackage, TestByHand, Install, Verb
  <2>7. CASE UNCHANGED vars
    BY <1>2, <2>7 DEF vars, IInv, SizeInv
  <2> QED
    BY <2>1, <2>2, <2>3, <2>4, <2>5, <2>6, <2>7 DEF Next, Step
<1> QED
  BY <1>1, <1>2 DEF SizeInv

-----------------------------------------------------------------------------
(* The end of a loop.                                                      *)

LEMMA EndedStep == IInv /\ [Next]_vars => EndedInv'
<1> SUFFICES ASSUME IInv, [Next]_vars PROVE EndedInv'
  OBVIOUS
<1> USE DEF IInv, EndedInv
<1>1. CASE SaveWrite \/ Begin \/ Kill
  BY <1>1 DEF SaveWrite, Begin, Kill
<1>2. CASE Propose \/ ProposeFails \/ Apply \/ Chain \/ BuildFails \/ BuildSucceeds
  BY <1>2 DEF Propose, ProposeFails, Apply, Chain, BuildFails, BuildSucceeds
<1>3. CASE KeepPostBuild \/ BootTest \/ Measure \/ SaveOpen
  BY <1>3 DEF KeepPostBuild, BootTest, Measure, SaveOpen
<1>4. CASE BuildPackage \/ TestByHand \/ Install \/ UNCHANGED vars
  BY <1>4 DEF BuildPackage, TestByHand, Install, Verb, vars
<1> QED
  BY <1>1, <1>2, <1>3, <1>4 DEF Next, Step

\* While no loop runs, the rounds' directories stay as they are.
LEMMA IdleKeepsDirs ==
  ASSUME [Next]_vars, pc = "idle"
  PROVE  UNCHANGED dirs /\ ended' \in {ended, "none"}
<1>1. CASE Begin \/ BuildPackage \/ TestByHand \/ Install \/ UNCHANGED vars
  BY <1>1 DEF Begin, BuildPackage, TestByHand, Install, Verb, vars
<1>2. ~Step /\ ~Kill
  BY DEF Step, Kill, Propose, ProposeFails, Apply, Chain, BuildFails, BuildSucceeds,
         KeepPostBuild, BootTest, Measure, SaveOpen, SaveWrite
<1> QED
  BY <1>1, <1>2 DEF Next

(***************************************************************************)
(* The step that announces convergence has just put round n on record, so  *)
(* n is the last of the history, the three rounds has_converged looks at   *)
(* are in it, and their sizes are those of their kernels.                  *)
(***************************************************************************)
LEMMA ConvergedStep == IInv /\ [Next]_vars => ConvergedIsStable'
<1> SUFFICES ASSUME IInv, [Next]_vars, ended' = "stable"
             PROVE  ConvergedIsStable'
  BY DEF ConvergedIsStable
<1>1. CASE SaveWrite
  <2>1. PICK n \in Rounds : n = round /\ \A i \in Rounds : Saved(i)' <=> i <= n
    BY <1>1, SaveAdds
  <2>2. HasConverged(records', n)
    BY <1>1, <2>1 DEF SaveWrite, Ending
  <2>3. n >= 3 /\ n \in Nat /\ n <= MaxRounds /\ MaxRounds \in Nat
    BY <2>2, BoundsAssumption DEF HasConverged, Rounds
  <2>4. Last' = n
    <3>1. {0} \cup {i \in Rounds : Saved(i)'} = 0 .. n
      BY <2>1, <2>3 DEF Rounds
    <3>2. Max({0} \cup {i \in Rounds : Saved(i)'}) = n
      BY <2>3, <3>1, MaxUpTo
    <3> QED
      BY <3>2 DEF Last
  <2>5. PICK k \in Rounds : n = k + 2 /\ n - 2 = k /\ n - 1 = k + 1
    BY <2>3 DEF Rounds
  <2>6. k + 1 \in Rounds /\ k + 2 \in Rounds
    BY <2>3, <2>5 DEF Rounds
  <2>7. \A j \in {k, k + 1, k + 2} : Saved(j)' /\ records'[j].size # None
    <3>1. \A j \in {k, k + 1, k + 2} : j \in Rounds /\ j <= n
      BY <2>3, <2>5, <2>6 DEF Rounds
    <3>2. \A j \in {k, k + 1, k + 2} : records'[j].size # None
      BY <2>2, <2>5 DEF HasConverged
    <3> QED
      BY <2>1, <3>1, <3>2
  <2>8. \A j \in {k, k + 1, k + 2} :
          posts'[j] # None /\ records'[j].size = Size[posts'[j]]
    <3>1. SizesAreOfTheRound'
      BY SizeStep DEF SizeInv
    <3> QED
      BY <2>6, <2>7, <3>1 DEF SizesAreOfTheRound
  <2>9. \A j \in {k, k + 1} :
          /\ 100 * records'[j + 1].size <= 101 * records'[j].size
          /\ 100 * records'[j + 1].size >= 99 * records'[j].size
    BY <2>2, <2>5 DEF HasConverged
  <2>10. \A j \in {k, k + 1} :
           /\ 100 * Size[posts'[j + 1]] <= 101 * Size[posts'[j]]
           /\ 100 * Size[posts'[j + 1]] >= 99 * Size[posts'[j]]
    <3>1. (k + 1) + 1 = k + 2
      BY <2>3, <2>5
    <3> QED
      BY <2>8, <2>9, <3>1
  <2> QED
    BY <2>4, <2>5, <2>8, <2>10 DEF ConvergedIsStable
<1>2. CASE pc = "idle"
  <2>1. ConvergedIsStable /\ ended = "stable"
    BY <1>2, IdleKeepsDirs DEF IInv
  <2>2. UNCHANGED <<posts, records>> /\ Last' = Last
    BY <1>2, IdleKeepsDirs DEF Last, Saved
  <2> QED
    BY <2>1, <2>2 DEF ConvergedIsStable
<1>3. CASE pc # "idle" /\ ~SaveWrite
  <2>1. ended = "none"
    BY <1>3 DEF IInv, EndedInv
  <2>2. UNCHANGED ended
    <3>1. CASE Begin \/ BuildPackage \/ TestByHand \/ Install \/ Kill \/ UNCHANGED vars
      BY <1>3, <3>1 DEF Begin, BuildPackage, TestByHand, Install, Verb, Kill, vars
    <3>2. CASE Propose \/ ProposeFails \/ Apply \/ Chain \/ BuildFails \/ BuildSucceeds
      BY <3>2 DEF Propose, ProposeFails, Apply, Chain, BuildFails, BuildSucceeds
    <3>3. CASE KeepPostBuild \/ BootTest \/ Measure \/ SaveOpen
      BY <3>3 DEF KeepPostBuild, BootTest, Measure, SaveOpen
    <3> QED
      BY <1>3, <3>1, <3>2, <3>3 DEF Next, Step
  <2> QED
    BY <2>1, <2>2
<1> QED
  BY <1>1, <1>2, <1>3

-----------------------------------------------------------------------------
LEMMA StepInv == IInv /\ [Next]_vars => IInv'
BY TypeStep, HistoryStep, RoundStep, KeptStep, SizeStep, EndedStep, ConvergedStep DEF IInv

LEMMA SpecInv == Spec => []IInv
<1>1. Init => IInv
  BY InitInv
<1>2. IInv /\ [Next]_vars => IInv'
  BY StepInv
<1> QED
  BY <1>1, <1>2, PTL DEF Spec

(* Type correctness of the loop's files and of what it knows of its round. *)
THEOREM TypeCorrect == Spec => []TypeOK
<1>1. IInv => TypeOK
  BY DEF IInv
<1> QED
  BY <1>1, SpecInv, PTL

(* apply validates what it merges, and auto-revert takes back what apply   *)
(* once validated: no final.config turns off a load-bearing symbol that is *)
(* on in the running kernel.                                               *)
THEOREM KeepsLoadBearing == Spec => []LoadBearingKept
<1>1. IInv => LoadBearingKept
  BY DEF IInv
<1> QED
  BY <1>1, SpecInv, PTL

(* Killed or not, torn records or not, every loop goes on where the last   *)
(* one stopped: the rounds on record are 1..n and the next one is n + 1.   *)
THEOREM HistoryIsWhole == Spec => []HistoryHasNoHoles
<1>1. IInv => HistoryHasNoHoles
  <2> SUFFICES ASSUME IInv PROVE HistoryHasNoHoles
    OBVIOUS
  <2>1. UpTo(Last) /\ Last \in 0 .. MaxRounds /\ (pc # "idle" => round = Last + 1)
    BY HistoryIsLast DEF IInv
  <2>2. ASSUME NEW i \in Rounds, Saved(i), NEW j \in 1 .. i PROVE Saved(j)
    <3>1. i <= Last /\ j \in Rounds /\ j <= i /\ j \in Nat /\ i \in Nat /\ Last \in Nat
      BY <2>1, <2>2, BoundsAssumption DEF UpTo, Rounds
    <3>2. j <= Last
      BY <3>1
    <3> QED
      BY <2>1, <3>1, <3>2 DEF UpTo
  <2> QED
    BY <2>1, <2>2 DEF HistoryHasNoHoles
<1> QED
  BY <1>1, SpecInv, PTL

(* No step of a loop, and no later loop, writes in the directory of a      *)
(* round that is on record.                                                *)
THEOREM NeverRewritten == Spec => RecordedOnce
<1>1. IInv /\ [Next]_vars => [Frozen]_vars
  BY FrozenStep
<1>2. Spec => [][Frozen]_vars
  BY <1>1, SpecInv, PTL DEF Spec
<1> QED
  BY <1>2 DEF RecordedOnce, Frozen

(* A size on record is that of the kernel whose configuration was kept in  *)
(* the same round; a failed build leaves no size behind.                   *)
THEOREM SizesBelong == Spec => []SizesAreOfTheRound
<1>1. IInv => SizesAreOfTheRound
  BY DEF IInv, SizeInv
<1> QED
  BY <1>1, SpecInv, PTL

(* A loop that ends as stable has built the last three kernels on record,  *)
(* one percent apart each, whatever loops and kills lie between them.      *)
THEOREM ConvergedDid == Spec => []ConvergedIsStable
<1>1. IInv => ConvergedIsStable
  BY DEF IInv
<1> QED
  BY <1>1, SpecInv, PTL

-----------------------------------------------------------------------------
(***************************************************************************)
(* The refinement of RoundLog.  A round joins the list when its record is  *)
(* written; all other steps leave the list alone.                          *)
(***************************************************************************)
Entries == [record : Records, config : Configs \cup {None}, kernel : Configs \cup {None}]

Listed(n, recs, fins, psts) ==
  [i \in 1 .. n |-> [record |-> recs[i], config |-> fins[i], kernel |-> psts[i]]]

LEMMA ListedIs ==
  ASSUME NEW n \in Nat, NEW recs, NEW fins, NEW psts,
         \A i \in 1 .. n : /\ recs[i] \in Records
                           /\ fins[i] \in Configs \cup {None}
                           /\ psts[i] \in Configs \cup {None}
  PROVE  LET h == Listed(n, recs, fins, psts)
         IN  /\ h \in Seq(Entries) /\ Len(h) = n
             /\ \A i \in 1 .. n :
                  h[i] = [record |-> recs[i], config |-> fins[i], kernel |-> psts[i]]
<1> DEFINE e(i) == [record |-> recs[i], config |-> fins[i], kernel |-> psts[i]]
<1>1. \A i \in 1 .. n : e(i) \in Entries
  BY DEF Entries
<1>2. Listed(n, recs, fins, psts) = [i \in 1 .. n |-> e(i)]
  BY DEF Listed
<1>3. \A i \in 1 .. n : Listed(n, recs, fins, psts)[i] = e(i)
  BY <1>2
<1> HIDE DEF e
<1>4. [i \in 1 .. n |-> e(i)] \in Seq(Entries) /\ Len([i \in 1 .. n |-> e(i)]) = n
  BY <1>1
<1> QED
  BY <1>2, <1>3, <1>4 DEF e

\* A list that is one longer and otherwise the same has one entry appended.
LEMMA ListedAppend ==
  ASSUME NEW n \in Nat, NEW h \in Seq(Entries), NEW g \in Seq(Entries),
         Len(h) = n, Len(g) = n + 1, \A i \in 1 .. n : g[i] = h[i]
  PROVE  g = Append(h, g[n + 1])
<1>1. g[n + 1] \in Entries
  OBVIOUS
<1>2. /\ Append(h, g[n + 1]) \in Seq(Entries) /\ Len(Append(h, g[n + 1])) = n + 1
      /\ \A i \in 1 .. n + 1 : Append(h, g[n + 1])[i] = g[i]
  BY <1>1
<1> QED
  BY <1>2

LEMMA HistoryOnRecord ==
  ASSUME IInv
  PROVE  /\ Last \in Nat /\ Last <= MaxRounds /\ UpTo(Last)
         /\ \A i \in 1 .. Last : /\ i \in Rounds /\ records[i] \in Records
                                 /\ finals[i] \in Configs \cup {None}
                                 /\ posts[i] \in Configs \cup {None}
<1>1. Last \in 0 .. MaxRounds /\ UpTo(Last) /\ MaxRounds \in Nat
  BY HistoryIsLast, BoundsAssumption DEF IInv
<1>2. \A i \in 1 .. Last : i \in Rounds /\ i <= Last
  BY <1>1 DEF Rounds
<1>3. \A i \in 1 .. Last : Saved(i)
  BY <1>1, <1>2 DEF UpTo
<1> QED
  BY <1>1, <1>2, <1>3 DEF Saved, IInv, TypeOK

LEMMA HistoryIs ==
  ASSUME IInv
  PROVE  /\ History = Listed(Last, records, finals, posts)
         /\ History \in Seq(Entries) /\ Len(History) = Last
         /\ \A i \in 1 .. Last : History[i] = [record |-> records[i], config |-> finals[i],
                                               kernel |-> posts[i]]
<1>1. History = Listed(Last, records, finals, posts)
  BY DEF History, Listed
<1> QED
  BY <1>1, HistoryOnRecord, ListedIs

\* What is on record after a step, in terms of the variables' new values.
LEMMA HistoryAfter ==
  ASSUME IInv, [Next]_vars, NEW n \in Nat, n <= MaxRounds,
         \A i \in Rounds : Saved(i)' <=> i <= n
  PROVE  /\ Last' = n
         /\ History' \in Seq(Entries) /\ Len(History') = n
         /\ \A i \in 1 .. n : History'[i] = [record |-> records'[i], config |-> finals'[i],
                                             kernel |-> posts'[i]]
<1>1. Last' = n
  <2>1. {0} \cup {i \in Rounds : Saved(i)'} = 0 .. n
    BY BoundsAssumption DEF Rounds
  <2>2. Max({0} \cup {i \in Rounds : Saved(i)'}) = n
    BY <2>1, MaxUpTo
  <2> QED
    BY <2>2 DEF Last
<1>2. History' = Listed(n, records', finals', posts')
  BY <1>1 DEF History, Listed
<1>3. TypeOK'
  BY TypeStep
<1>4. \A i \in 1 .. n : i \in Rounds /\ Saved(i)'
  BY BoundsAssumption DEF Rounds
<1>5. \A i \in 1 .. n : /\ records'[i] \in Records
                        /\ finals'[i] \in Configs \cup {None}
                        /\ posts'[i] \in Configs \cup {None}
  BY <1>3, <1>4 DEF Saved, TypeOK
<1>6. LET h == Listed(n, records', finals', posts')
      IN  /\ h \in Seq(Entries) /\ Len(h) = n
          /\ \A i \in 1 .. n :
               h[i] = [record |-> records'[i], config |-> finals'[i], kernel |-> posts'[i]]
  BY <1>5, ListedIs
<1> QED
  BY <1>1, <1>2, <1>6

\* A step that puts nothing on record leaves the list alone.
LEMMA HistoryStays ==
  ASSUME IInv, [Next]_vars, \A i \in Rounds : Saved(i)' <=> Saved(i)
  PROVE  History' = History
<1>1. Last \in Nat /\ Last <= MaxRounds /\ \A i \in Rounds : Saved(i)' <=> i <= Last
  BY HistoryOnRecord DEF UpTo
<1>2. /\ History' \in Seq(Entries) /\ Len(History') = Last
      /\ \A i \in 1 .. Last : History'[i] = [record |-> records'[i], config |-> finals'[i],
                                             kernel |-> posts'[i]]
  BY <1>1, HistoryAfter
<1>3. \A i \in 1 .. Last : i \in Rounds /\ Saved(i)
  BY HistoryOnRecord DEF UpTo
<1>4. \A i \in 1 .. Last : /\ records'[i] = records[i] /\ finals'[i] = finals[i]
                           /\ posts'[i] = posts[i]
  BY <1>3, FrozenStep DEF Frozen
<1>5. /\ History \in Seq(Entries) /\ Len(History) = Last
      /\ \A i \in 1 .. Last : History[i] = [record |-> records[i], config |-> finals[i],
                                            kernel |-> posts[i]]
  BY HistoryIs
<1>6. \A i \in 1 .. Last : History'[i] = History[i]
  BY <1>2, <1>4, <1>5
<1> QED
  BY <1>1, <1>2, <1>5, <1>6

\* A record that is written puts one sound round at the end of the list.
LEMMA SaveGrows ==
  ASSUME IInv, SaveWrite
  PROVE  /\ Log!Grows /\ Len(History') = round /\ round \in Nat
         /\ History'[Len(History')].record = records'[round]
<1>1. [Next]_vars
  BY DEF Next, Step
<1>2. Last \in Nat /\ round = Last + 1 /\ round \in Rounds /\ round <= MaxRounds /\ round \in Nat
  BY HistoryIsLast, HistoryOnRecord, SaveAdds, BoundsAssumption DEF IInv, SaveWrite, Rounds
<1>3. \A i \in Rounds : Saved(i)' <=> i <= round
  BY SaveAdds
<1>4. /\ History' \in Seq(Entries) /\ Len(History') = round
      /\ \A i \in 1 .. round : History'[i] = [record |-> records'[i], config |-> finals'[i],
                                              kernel |-> posts'[i]]
  BY <1>1, <1>2, <1>3, HistoryAfter
<1>5. \A i \in 1 .. Last : /\ records'[i] = records[i] /\ finals'[i] = finals[i]
                           /\ posts'[i] = posts[i]
  <2>1. \A i \in 1 .. Last : i \in Rounds /\ Saved(i)
    BY HistoryOnRecord DEF UpTo
  <2> QED
    BY <1>1, <2>1, FrozenStep DEF Frozen
<1>6. History \in Seq(Entries) /\ Len(History) = Last /\ \A i \in 1 .. Last : History'[i] = History[i]
  <2>1. /\ History \in Seq(Entries) /\ Len(History) = Last
        /\ \A i \in 1 .. Last : History[i] = [record |-> records[i], config |-> finals[i],
                                              kernel |-> posts[i]]
    BY HistoryIs
  <2>2. \A i \in 1 .. Last : i \in 1 .. round
    BY <1>2
  <2> QED
    BY <1>4, <1>5, <2>1, <2>2
<1>7. History' = Append(History, History'[Len(History')])
  BY <1>2, <1>4, <1>6, ListedAppend
<1>8. PICK n \in Rounds : n = round /\ Saved(n)'
  <2>1. PICK n \in Rounds : n = round
    BY <1>2
  <2>2. Saved(n)'
    BY <1>2, <1>3, <2>1
  <2> QED
    BY <2>1, <2>2
<1>9. History'[n] = [record |-> records'[n], config |-> finals'[n], kernel |-> posts'[n]]
  BY <1>2, <1>4, <1>8
<1>10. Log!Sound(History'[n])
  <2>1. SizesAreOfTheRound' /\ LoadBearingKept'
    BY <1>1, SizeStep, KeptStep DEF SizeInv
  <2>2. finals'[n] # None => LoadBearing \cap Running \subseteq finals'[n]
    BY <2>1 DEF LoadBearingKept
  <2>3. records'[n].size # None
          => posts'[n] # None /\ records'[n].size = Size[posts'[n]]
    BY <1>8, <2>1 DEF SizesAreOfTheRound
  <2> QED
    BY <1>9, <2>2, <2>3 DEF Log!Sound
<1> QED
  BY <1>2, <1>4, <1>6, <1>7, <1>8, <1>9, <1>10 DEF Log!Grows

\* A loop that says it converged says so of the list.
LEMMA StableIsOfTheLog ==
  ASSUME IInv, SaveWrite, ended' = "stable"
  PROVE  Log!Stable(History')
<1>1. [Next]_vars
  BY DEF Next, Step
<1>2. round \in Nat /\ round <= MaxRounds /\ \A i \in Rounds : Saved(i)' <=> i <= round
  BY SaveAdds, BoundsAssumption DEF Rounds
<1>3. /\ Last' = round /\ Len(History') = round
      /\ \A i \in 1 .. round : History'[i].kernel = posts'[i]
  <2>1. /\ Last' = round /\ Len(History') = round
        /\ \A i \in 1 .. round : History'[i] = [record |-> records'[i], config |-> finals'[i],
                                                kernel |-> posts'[i]]
    BY <1>1, <1>2, HistoryAfter
  <2> QED
    BY <2>1
<1>4. ConvergedIsStable'
  BY <1>1, ConvergedStep
<1>5. PICK i \in Rounds :
        /\ i + 2 = round
        /\ \A j \in {i, i + 1, i + 2} : posts'[j] # None
        /\ \A j \in {i, i + 1} :
             /\ 100 * Size[posts'[j + 1]] <= 101 * Size[posts'[j]]
             /\ 100 * Size[posts'[j + 1]] >= 99 * Size[posts'[j]]
  BY <1>3, <1>4 DEF ConvergedIsStable
<1>6. /\ i \in Nat /\ i \in 1 .. round /\ i + 1 \in 1 .. round /\ i + 2 \in 1 .. round
      /\ (i + 1) + 1 = i + 2
  BY <1>2, <1>5, BoundsAssumption DEF Rounds
<1>7. /\ History'[i].kernel = posts'[i] /\ History'[i + 1].kernel = posts'[i + 1]
      /\ History'[i + 2].kernel = posts'[i + 2]
  BY <1>3, <1>6
<1>8. \A j \in {i, i + 1, i + 2} : History'[j].kernel # None
  BY <1>5, <1>7
<1>9. \A j \in {i, i + 1} :
        /\ 100 * Size[History'[j + 1].kernel] <= 101 * Size[History'[j].kernel]
        /\ 100 * Size[History'[j + 1].kernel] >= 99 * Size[History'[j].kernel]
  BY <1>5, <1>6, <1>7
<1> QED
  BY <1>3, <1>5, <1>6, <1>8, <1>9 DEF Log!Stable

LEMMA LogInit == Init => Log!Init
<1> SUFFICES ASSUME Init PROVE Log!Init
  OBVIOUS
<1>1. IInv
  BY InitInv
<1>2. UpTo(0)
  BY MarkersAssumption DEF Init, UpTo, Saved, Rounds
<1>3. Last = 0
  BY <1>2, BoundsAssumption, LastIs
<1>4. History = << >>
  BY <1>1, <1>3, HistoryIs
<1> QED
  BY <1>4 DEF Log!Init, Init, RoundsLeft

\* A step of a round that neither ends it nor writes its record.
Within ==
  /\ UNCHANGED <<round, last, ended>> /\ (pc = "idle" <=> pc' = "idle")
  /\ \A i \in Rounds : Saved(i)' <=> Saved(i)

LEMMA WithinStep ==
  ASSUME IInv, [Next]_vars, ~Begin, ~SaveWrite, ~Kill
  PROVE  Within
<1>1. CASE SaveOpen
  <2>1. round \in Rounds /\ ~Saved(round) /\ records' = [records EXCEPT ![round] = Torn]
    BY <1>1, WorksOnNew DEF SaveOpen
  <2>2. \A i \in Rounds : Saved(i)' <=> Saved(i)
    BY <2>1 DEF Saved, IInv, TypeOK
  <2> QED
    BY <1>1, <2>2 DEF SaveOpen, Within
<1>2. ASSUME UNCHANGED <<records, round, last, ended>>, pc = "idle" <=> pc' = "idle"
      PROVE  Within
  BY <1>2 DEF Within, Saved
<1>3. CASE Propose \/ ProposeFails \/ Apply \/ Chain \/ BuildFails \/ BuildSucceeds
  BY <1>2, <1>3 DEF Propose, ProposeFails, Apply, Chain, BuildFails, BuildSucceeds
<1>4. CASE KeepPostBuild \/ BootTest \/ Measure
  BY <1>2, <1>4 DEF KeepPostBuild, BootTest, Measure
<1>5. CASE BuildPackage \/ TestByHand \/ Install \/ UNCHANGED vars
  BY <1>2, <1>5 DEF BuildPackage, TestByHand, Install, Verb, vars
<1> QED
  BY <1>1, <1>3, <1>4, <1>5 DEF Next, Step

LEMMA LogStep == IInv /\ [Next]_vars => [Log!Next]_<<History, RoundsLeft, ended>>
<1> SUFFICES ASSUME IInv, [Next]_vars
             PROVE  Log!Next \/ UNCHANGED <<History, RoundsLeft, ended>>
  OBVIOUS
<1>1. CASE Begin
  <2>1. History' = History
    BY <1>1, HistoryStays DEF Begin, Saved
  <2>2. RoundInv' /\ TypeOK' /\ pc' = "propose"
    BY <1>1, RoundStep, TypeStep DEF Begin
  <2>3. /\ round' \in Nat /\ last' \in Nat /\ 1 <= round' /\ round' <= last' /\ last' <= MaxRounds
        /\ MaxRounds \in Nat
    BY <2>2, BoundsAssumption DEF RoundInv, TypeOK, Rounds
  <2>4. RoundsLeft = 0 /\ RoundsLeft' \in 1 .. MaxRounds /\ ended' = "none"
    BY <1>1, <2>2, <2>3 DEF Begin, RoundsLeft
  <2> QED
    BY <2>1, <2>4 DEF Log!Next, Log!Begin
<1>2. CASE SaveWrite
  <2>1. /\ Log!Grows /\ History'[Len(History')].record = records'[round]
    BY <1>2, SaveGrows
  <2>2. /\ round \in Nat /\ last \in Nat /\ round <= last
        /\ RoundsLeft = last + 1 - round /\ RoundsLeft > 0
    BY <1>2, BoundsAssumption DEF SaveWrite, RoundsLeft, IInv, RoundInv, TypeOK, Rounds
  <2>3. CASE ended' = "none"
    <3>1. round # last /\ UNCHANGED last /\ round' = round + 1 /\ pc' = "propose"
      BY <1>2, <2>3 DEF SaveWrite, Ending
    <3>2. RoundsLeft > 1 /\ RoundsLeft' = RoundsLeft - 1
      BY <2>2, <3>1 DEF RoundsLeft
    <3>3. UNCHANGED ended
      BY <1>2, <2>3 DEF IInv, EndedInv, SaveWrite
    <3> QED
      BY <2>1, <3>2, <3>3 DEF Log!Next, Log!GoOn
  <2>4. CASE ended' # "none"
    <3>1. ended' \in {"stable", "nothing-new", "max"} /\ RoundsLeft' = 0
      BY <1>2, <2>4 DEF SaveWrite, Ending, RoundsLeft
    <3>2. ended' = "stable" => Log!Stable(History')
      BY <1>2, StableIsOfTheLog
    <3>3. ended' = "nothing-new" => History'[Len(History')].record.nothing
      BY <1>2, <2>1 DEF SaveWrite, Ending
    <3>4. ended' = "max" => RoundsLeft = 1
      <4>1. ended' = "max" => round = last
        BY <1>2 DEF SaveWrite, Ending
      <4> QED
        BY <2>2, <4>1
    <3>5. Log!End(ended')
      BY <2>1, <2>2, <3>1, <3>2, <3>3, <3>4 DEF Log!End
    <3> QED
      BY <3>1, <3>5 DEF Log!Next
  <2> QED
    BY <2>3, <2>4
<1>3. CASE Kill
  <2>1. History' = History
    BY <1>3, HistoryStays DEF Kill, Saved
  <2>2. /\ round \in Nat /\ last \in Nat /\ round <= last /\ pc # "idle" /\ pc' = "idle"
        /\ UNCHANGED ended
    BY <1>3, BoundsAssumption DEF Kill, IInv, RoundInv, TypeOK, Rounds
  <2>3. RoundsLeft > 0 /\ RoundsLeft' = 0
    BY <2>2 DEF RoundsLeft
  <2> QED
    BY <2>1, <2>2, <2>3 DEF Log!Next, Log!Die
<1>4. CASE ~Begin /\ ~SaveWrite /\ ~Kill
  <2>1. Within
    BY <1>4, WithinStep
  <2>2. History' = History
    BY <2>1, HistoryStays DEF Within
  <2>3. UNCHANGED <<RoundsLeft, ended>>
    BY <2>1 DEF Within, RoundsLeft
  <2> QED
    BY <2>2, <2>3
<1> QED
  BY <1>1, <1>2, <1>3, <1>4

(* Whatever dies, and however many loops there are: what iterate leaves on *)
(* disk is a list of sound rounds that only grows at its end, by no more   *)
(* rounds than were asked for, and what a loop says at its end is true.    *)
THEOREM ImplementsLog == Spec => ImplementsRoundLog
<1>1. IInv /\ [Next]_vars => [Log!Next]_<<History, RoundsLeft, ended>>
  BY LogStep
<1> QED
  BY LogInit, <1>1, SpecInv, PTL DEF Spec, ImplementsRoundLog, Log!Spec
-----------------------------------------------------------------------------
(***************************************************************************)
(* Why a loop ends (LoopEnds): the rounds it may still record, and then    *)
(* what is left to do of this one, get less with every step it takes.      *)
(***************************************************************************)
StepsAhead ==
  CASE pc = "propose"   -> 10
    [] pc = "apply"     -> 9
    [] pc = "chain"     -> 8
    [] pc = "build"     -> 7
    [] pc = "keep"      -> 6
    [] pc = "boot-test" -> 5
    [] pc = "measure"   -> 4
    [] pc = "save"      -> 3
    [] pc = "write"     -> 2
    [] OTHER            -> 0

Ahead == <<RoundsLeft, StepsAhead>>

Less(p, q) == p[1] < q[1] \/ (p[1] = q[1] /\ p[2] < q[2])

LEMMA AheadType == IInv => Ahead \in Nat \X Nat
<1> SUFFICES ASSUME IInv PROVE Ahead \in Nat \X Nat
  OBVIOUS
<1>1. RoundsLeft \in Nat
  BY BoundsAssumption DEF IInv, RoundsLeft, TypeOK, RoundInv
<1>2. StepsAhead \in Nat
  BY DEF StepsAhead
<1> QED
  BY <1>1, <1>2 DEF Ahead

LEMMA AheadStep == IInv /\ [Next]_vars => [pc # "idle" => Less(Ahead', Ahead)]_vars
<1> SUFFICES ASSUME IInv, Next, pc # "idle" PROVE Less(Ahead', Ahead)
  OBVIOUS
<1>0. /\ TypeOK /\ round \in 0 .. MaxRounds /\ last \in 0 .. MaxRounds /\ round <= last
      /\ MaxRounds \in Nat
  BY BoundsAssumption DEF IInv, TypeOK, RoundInv
\* A verb hands over to a later one of the same round ...
<1>1. CASE Propose \/ ProposeFails \/ Apply \/ Chain \/ BuildFails \/ BuildSucceeds
           \/ KeepPostBuild \/ BootTest \/ Measure \/ SaveOpen
  <2>1. UNCHANGED <<round, last>> /\ pc' # "idle"
    BY <1>1 DEF Propose, ProposeFails, Apply, Chain, BuildFails, BuildSucceeds, KeepPostBuild,
       BootTest, Measure, SaveOpen
  <2>2. RoundsLeft' = RoundsLeft
    BY <2>1 DEF RoundsLeft
  <2>3. \/ pc = "propose" /\ pc' \in {"apply", "save"}
        \/ pc = "apply" /\ pc' = "chain"
        \/ pc = "chain" /\ pc' \in {"build", "save"}
        \/ pc = "build" /\ pc' \in {"keep", "measure"}
        \/ pc = "keep" /\ pc' = "boot-test"
        \/ pc = "boot-test" /\ pc' = "measure"
        \/ pc = "measure" /\ pc' = "save"
        \/ pc = "save" /\ pc' = "write"
    BY <1>1 DEF Propose, ProposeFails, Apply, Chain, BuildFails, BuildSucceeds, KeepPostBuild,
       BootTest, Measure, SaveOpen
  <2>4. StepsAhead' < StepsAhead
    BY <2>3 DEF StepsAhead
  <2> QED
    BY <2>2, <2>4 DEF Ahead, Less
\* ... and what a round leaves is one round less, or none.
<1>2. CASE SaveWrite \/ Kill
  <2>1. \/ pc' = "idle"
        \/ pc' = "propose" /\ round' = round + 1 /\ last' = last
    BY <1>2 DEF SaveWrite, Kill
  <2>2. RoundsLeft' < RoundsLeft
    BY <1>0, <2>1 DEF RoundsLeft
  <2> QED
    BY <2>2 DEF Ahead, Less
<1>3. ~Begin /\ ~BuildPackage /\ ~TestByHand /\ ~Install
  BY DEF Begin, BuildPackage, TestByHand, Install, Verb
<1> QED
  BY <1>1, <1>2, <1>3 DEF Next, Step

\* No loop goes on for ever, whatever is proposed and whatever fails.
THEOREM LoopsAreBounded ==
  Spec => [](Ahead \in Nat \X Nat) /\ [][pc # "idle" => Less(Ahead', Ahead)]_vars
<1>1. IInv => Ahead \in Nat \X Nat
  BY AheadType
<1>2. IInv /\ [Next]_vars => [pc # "idle" => Less(Ahead', Ahead)]_vars
  BY AheadStep
<1> QED
  BY <1>1, <1>2, SpecInv, PTL DEF Spec
=============================================================================
