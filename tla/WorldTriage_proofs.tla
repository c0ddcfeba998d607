------------------------ MODULE WorldTriage_proofs ------------------------
(***************************************************************************)
(* For any packages, remedies, patches, flags and number of rounds and     *)
(* runs: the exceptions table holds confirmed work and loses none of it,   *)
(* and what a run gave up or fixed is left alone.                          *)
(***************************************************************************)
EXTENDS WorldTriage, TLAPS, FiniteSetTheorems

(***************************************************************************)
(* The inductive invariant.  RunInv: which package is where in a round,    *)
(* and that nothing is accumulated before the rounds.  ConfirmedInv: what  *)
(* the table has, or the one being written, is confirmed thing by thing,   *)
(* and the override about to be saved as a whole.  KeptInv: so long as no  *)
(* kill tore the table, it or the one being written has all that was       *)
(* saved.                                                                  *)
(***************************************************************************)
RunInv ==
  /\ phase = "idle" => \A u \in Units : out[u] = "none"
  /\ phase = "waves" => \A u \in todo : out[u] = "none"
  /\ phase \in {"triage", "rebuild", "save", "write"} => \A u \in todo : out[u] = "ftbfs"
  /\ phase \in {"idle", "waves"} => acc = NoTable
  /\ phase \in {"rebuild", "save", "write"} =>
       cur \in Units /\ cur \notin todo /\ acc[cur] # None
  /\ phase = "rebuild" => Stock \notin acc[cur] /\ out[cur] = "ftbfs"
  /\ phase = "write" => table = Torn

IsConfirmed(u, o) ==
  o # None /\ Stock \notin o => \A t \in o : \E c \in confirmed[u] : t \in c[1]

BuiltWith(u, o) == o # {} /\ (Stock \in o \/ \E c \in confirmed[u] : c[1] = o)

ConfirmedInv ==
  /\ \A u \in Units : IsConfirmed(u, Load(table)[u]) /\ IsConfirmed(u, draft[u])
  /\ phase = "save" => BuiltWith(cur, acc[cur])

Holds(t, u) == IF t[u] = None THEN {} ELSE t[u]

KeptInv ==
  ~lost =>
    /\ table = Torn => phase = "write"
    /\ table # Torn => \A u \in Units : saved[u] \subseteq Holds(table, u)
    /\ phase = "write" =>
         /\ \A u \in Units : saved[u] \subseteq Holds(draft, u)
         /\ acc[cur] \subseteq Holds(draft, cur)

IInv == TypeOK /\ RunInv /\ ConfirmedInv /\ KeptInv

-----------------------------------------------------------------------------
LEMMA EmptyTable == NoTable \in Tables /\ NoTable # Torn /\ \A u \in Units : NoTable[u] = None
BY TriageTorn DEF NoTable, Tables

LEMMA LoadType == ASSUME TypeOK PROVE Load(table) \in Tables
BY EmptyTable DEF TypeOK, Load

\* Two remedies make a remedy with all that either changes.
LEMMA MergeType ==
  ASSUME NEW a \in {None} \cup Overrides, NEW b \in Overrides
  PROVE  /\ Merge(a, b) \in Overrides /\ Merge(a, b) # None
         /\ b \subseteq Merge(a, b)
         /\ a # None => Merge(a, b) = a \cup b
         /\ a = None => Merge(a, b) = b
BY TriageNone DEF Merge, Overrides

LEMMA ChangesType ==
  ASSUME NEW o \in {None} \cup Overrides
  PROVE  Changes(o) \in SUBSET (Tokens \ {Stock})
BY DEF Changes, Overrides

LEMMA RemedyType ==
  /\ \A r \in Remedies \cup {Stock} : {r} \in Overrides
  /\ {} \in Overrides /\ {Patch} \in Overrides
BY DEF Overrides, Tokens

-----------------------------------------------------------------------------
\* What a build changes: the record and outcome of its package, and what is
\* confirmed if it succeeds.
LEMMA BuildType ==
  ASSUME TypeOK, NEW u \in Units, NEW o \in {None} \cup Overrides,
         NEW result \in Results, BuildUnit(u, o, result)
  PROVE  /\ record' \in [Units -> {NoRecord} \cup [outcome : Results, hash : Hashes]]
         /\ out' \in [Units -> Results \cup {"none"}] /\ out'[u] = result
         /\ \A v \in Units \ {u} : out'[v] = out[v] /\ record'[v] = record[v]
         /\ confirmed' \in [Units -> SUBSET Contents]
         /\ \A v \in Units : confirmed[v] \subseteq confirmed'[v]
         /\ result = "ok" => Built(u, o) \in confirmed'[u]
<1>1. Changes(o) \in SUBSET (Tokens \ {Stock})
  BY ChangesType
<1>2. Hash(flags, o) \in Hashes
  BY <1>1 DEF Hash, Hashes, TypeOK
<1>3. Built(u, o) \in Contents
  BY <1>1 DEF Built, Contents, TypeOK
<1>4. [outcome |-> result, hash |-> Hash(flags, o)] \in [outcome : Results, hash : Hashes]
  BY <1>2
<1>5. record' = [record EXCEPT ![u] = [outcome |-> result, hash |-> Hash(flags, o)]]
  BY DEF BuildUnit
<1>6. record' \in [Units -> {NoRecord} \cup [outcome : Results, hash : Hashes]]
  BY <1>4, <1>5 DEF TypeOK
<1>7. \A v \in Units \ {u} : record'[v] = record[v]
  BY <1>5 DEF TypeOK
<1>8. /\ out' \in [Units -> Results \cup {"none"}] /\ out'[u] = result
      /\ \A v \in Units \ {u} : out'[v] = out[v]
  BY DEF BuildUnit, TypeOK
<1>9. /\ confirmed' \in [Units -> SUBSET Contents]
      /\ \A v \in Units : confirmed[v] \subseteq confirmed'[v]
      /\ result = "ok" => Built(u, o) \in confirmed'[u]
  BY <1>3 DEF BuildUnit, TypeOK
<1> QED
  BY <1>6, <1>7, <1>8, <1>9

\* What the accumulated override becomes when a remedy is applied.
LEMMA ApplyType ==
  ASSUME TypeOK, NEW u \in Units, NEW remedy \in Overrides, Apply(u, remedy)
  PROVE  /\ acc' \in Tables /\ acc'[u] # None /\ acc'[u] \in Overrides /\ cur' = u
         /\ phase' = IF Stock \in acc'[u] THEN "save" ELSE "rebuild"
         /\ \A v \in Units : acc[v] # None => acc'[v] # None /\ acc[v] \subseteq acc'[v]
<1>1. acc[u] \in {None} \cup Overrides
  BY DEF TypeOK, Tables
<1>2. /\ Merge(acc[u], remedy) \in Overrides /\ Merge(acc[u], remedy) # None
      /\ acc[u] # None => acc[u] \subseteq Merge(acc[u], remedy)
  BY <1>1, MergeType
<1>3. acc' = [acc EXCEPT ![u] = Merge(acc[u], remedy)] /\ acc \in Tables
  BY DEF Apply, TypeOK
<1>4. acc' \in Tables /\ acc'[u] = Merge(acc[u], remedy)
  BY <1>2, <1>3 DEF Tables
<1>5. \A v \in Units : acc[v] # None => acc'[v] # None /\ acc[v] \subseteq acc'[v]
  BY <1>2, <1>3 DEF Tables
<1> QED
  BY <1>2, <1>4, <1>5 DEF Apply

\* A verdict, or a patch that is tried, applies a remedy to a failing package.
LEMMA Applies ==
  ASSUME NEW u \in Units, Verdict(u) \/ (AgenticPatch(u) /\ phase' # phase)
  PROVE  \E remedy \in Overrides : Apply(u, remedy)
BY RemedyType DEF Verdict, AgenticPatch

-----------------------------------------------------------------------------
LEMMA InitInv == Init => IInv
<1> SUFFICES ASSUME Init PROVE IInv
  OBVIOUS
<1>m. runs \in 0 .. MaxRuns /\ round \in 0 .. MaxRounds
  BY TriageMaxRuns, TriageMaxRounds DEF Init
<1>1. TypeOK
  BY <1>m, EmptyTable DEF Init, TypeOK, Overrides
<1>2. RunInv /\ ConfirmedInv /\ KeptInv
  BY EmptyTable DEF Init, RunInv, ConfirmedInv, IsConfirmed, KeptInv, Load
<1> QED
  BY <1>1, <1>2 DEF IInv

\* Step by step, the types.
LEMMA NextType == IInv /\ [Next]_vars => TypeOK'
<1> SUFFICES ASSUME IInv, [Next]_vars PROVE TypeOK'
  OBVIOUS
<1>0. TypeOK /\ RunInv
  BY DEF IInv
<1> USE DEF files, mem, hist
<1>f. ASSUME Forgotten, phase' = "idle", UNCHANGED <<files, runs, flags, confirmed, saved>>,
             lost' \in BOOLEAN
      PROVE  TypeOK'
  <2>1. round' \in 0 .. MaxRounds
    BY <1>f, TriageMaxRounds DEF Forgotten
  <2> QED
    BY <1>0, <1>f, <2>1, EmptyTable DEF Forgotten, TypeOK
<1>1. CASE BeginRun
  <2>1. Load(table) \in Tables
    BY <1>0, LoadType
  <2>2. eff' \in Tables
    BY <1>1, <2>1, TriageManifest DEF BeginRun, Override, Tables
  <2>3. runs' \in 0 .. MaxRuns
    BY <1>0, <1>1, TriageMaxRuns DEF BeginRun, TypeOK
  <2> QED
    BY <1>0, <1>1, <2>2, <2>3 DEF BeginRun, TypeOK
<1>2. ASSUME NEW u \in Units, Build(u)
      PROVE  TypeOK'
  <2>1. eff[u] \in {None} \cup Overrides
    BY <1>0 DEF TypeOK, Tables
  <2>2. PICK result \in Results : BuildUnit(u, eff[u], result)
    BY <1>2 DEF Build
  <2>3. /\ record' \in [Units -> {NoRecord} \cup [outcome : Results, hash : Hashes]]
        /\ out' \in [Units -> Results \cup {"none"}]
        /\ confirmed' \in [Units -> SUBSET Contents]
    BY <1>0, <2>1, <2>2, BuildType
  <2> QED
    BY <1>0, <1>2, <2>3 DEF Build, TypeOK
<1>3. CASE StartTriage
  <2>1. round' \in 0 .. MaxRounds
    BY <1>3, TriageMaxRounds DEF StartTriage
  <2> QED
    BY <1>0, <1>3, <2>1 DEF StartTriage, TypeOK, Failing
<1>4. ASSUME NEW u \in Units, Defer(u)
      PROVE  TypeOK'
  BY <1>0, <1>4 DEF Defer, TypeOK
<1>5. ASSUME NEW u \in Units, Verdict(u)
      PROVE  TypeOK'
  <2>1. PICK remedy \in Overrides : Apply(u, remedy)
    BY <1>5, Applies
  <2>2. acc' \in Tables /\ cur' = u /\ phase' \in {"save", "rebuild"}
    BY <1>0, <2>1, ApplyType
  <2> QED
    BY <1>0, <1>5, <2>2 DEF Verdict, TypeOK
<1>6. ASSUME NEW u \in Units, AgenticPatch(u)
      PROVE  TypeOK'
  <2>1. patchfile' \in [Units -> Patches \cup {NoFile}]
    BY <1>0, <1>6 DEF AgenticPatch, TypeOK
  <2>2. \/ acc' \in Tables /\ cur' \in Units /\ phase' \in {"save", "rebuild"}
        \/ UNCHANGED <<acc, phase, cur>>
    <3>1. CASE Apply(u, {Patch})
      BY <1>0, <3>1, RemedyType, ApplyType
    <3>2. CASE UNCHANGED <<acc, phase, cur>>
      BY <3>2
    <3> QED
      BY <1>6, <3>1, <3>2 DEF AgenticPatch
  <2> QED
    BY <1>0, <1>6, <2>1, <2>2 DEF AgenticPatch, TypeOK
<1>7. CASE Rebuild
  <2>1. cur \in Units /\ acc[cur] \in {None} \cup Overrides
    BY <1>0, <1>7 DEF Rebuild, RunInv, TypeOK, Tables
  <2>2. PICK result \in Results : BuildUnit(cur, acc[cur], result)
    BY <1>7 DEF Rebuild
  <2>3. /\ record' \in [Units -> {NoRecord} \cup [outcome : Results, hash : Hashes]]
        /\ out' \in [Units -> Results \cup {"none"}]
        /\ confirmed' \in [Units -> SUBSET Contents]
    BY <1>0, <2>1, <2>2, BuildType
  <2>4. phase' \in {"save", "triage"} /\ cur' \in {cur, Nothing}
    BY <1>7 DEF Rebuild
  <2> QED
    BY <1>0, <1>7, <2>1, <2>3, <2>4 DEF Rebuild, TypeOK
<1>8. CASE SaveOpen
  <2>1. cur \in Units /\ acc[cur] \in Overrides
    BY <1>0, <1>8 DEF SaveOpen, RunInv, TypeOK, Tables
  <2>2. Load(table) \in Tables
    BY <1>0, LoadType
  <2>3. Merge(Load(table)[cur], acc[cur]) \in Overrides
    BY <2>1, <2>2, MergeType DEF Tables
  <2>4. draft' \in Tables
    BY <1>8, <2>2, <2>3 DEF SaveOpen, Tables
  <2> QED
    BY <1>0, <1>8, <2>4 DEF SaveOpen, TypeOK
<1>9. CASE SaveWrite
  <2>1. cur \in Units /\ acc[cur] \in Overrides
    BY <1>0, <1>9 DEF SaveWrite, RunInv, TypeOK, Tables
  <2>2. saved' \in [Units -> Overrides]
    BY <1>0, <1>9, <2>1 DEF SaveWrite, TypeOK, Overrides
  <2> QED
    BY <1>0, <1>9, <2>2, EmptyTable DEF SaveWrite, TypeOK
<1>10. CASE NextRound
  <2>1. round' \in 0 .. MaxRounds
    BY <1>0, <1>10, TriageMaxRounds DEF NextRound, TypeOK
  <2> QED
    BY <1>0, <1>10, <2>1 DEF NextRound, TypeOK, Failing
<1>11. CASE EndRun
  BY <1>0, <1>11, <1>f DEF EndRun, TypeOK
<1>12. CASE Kill
  BY <1>0, <1>12, <1>f DEF Kill, TypeOK
<1>13. CASE UNCHANGED vars
  BY <1>0, <1>13 DEF vars, TypeOK
<1> QED
  BY <1>1, <1>2, <1>3, <1>4, <1>5, <1>6, <1>7, <1>8, <1>9, <1>10, <1>11, <1>12, <1>13
  DEF Next, Step

\* Which package is where in a round.
LEMMA NextRun == IInv /\ [Next]_vars => RunInv'
<1> SUFFICES ASSUME IInv, [Next]_vars PROVE RunInv'
  OBVIOUS
<1>0. TypeOK /\ RunInv
  BY DEF IInv
<1> USE DEF files, mem, hist
<1>f. ASSUME Forgotten, phase' = "idle"
      PROVE  RunInv'
  BY <1>f DEF Forgotten, RunInv
<1>1. CASE BeginRun
  BY <1>0, <1>1 DEF BeginRun, RunInv
<1>2. ASSUME NEW u \in Units, Build(u)
      PROVE  RunInv'
  <2>1. eff[u] \in {None} \cup Overrides
    BY <1>0 DEF TypeOK, Tables
  <2>2. PICK result \in Results : BuildUnit(u, eff[u], result)
    BY <1>2 DEF Build
  <2>3. \A v \in Units \ {u} : out'[v] = out[v]
    BY <1>0, <2>1, <2>2, BuildType
  <2> QED
    BY <1>0, <1>2, <2>3 DEF Build, RunInv, TypeOK
<1>3. CASE StartTriage
  BY <1>0, <1>3 DEF StartTriage, RunInv, Failing
<1>4. ASSUME NEW u \in Units, Defer(u)
      PROVE  RunInv'
  BY <1>0, <1>4 DEF Defer, RunInv
<1>5. ASSUME NEW u \in Units, Verdict(u)
      PROVE  RunInv'
  <2>1. PICK remedy \in Overrides : Apply(u, remedy)
    BY <1>5, Applies
  <2>2. acc'[u] # None /\ cur' = u /\ phase' = IF Stock \in acc'[u] THEN "save" ELSE "rebuild"
    BY <1>0, <2>1, ApplyType
  <2> QED
    BY <1>0, <1>5, <2>2 DEF Verdict, RunInv
<1>6. ASSUME NEW u \in Units, AgenticPatch(u)
      PROVE  RunInv'
  <2>1. CASE Apply(u, {Patch})
    <3>1. acc'[u] # None /\ cur' = u /\ phase' = IF Stock \in acc'[u] THEN "save" ELSE "rebuild"
      BY <1>0, <2>1, ApplyType, RemedyType
    <3> QED
      BY <1>0, <1>6, <3>1 DEF AgenticPatch, RunInv
  <2>2. CASE UNCHANGED <<acc, phase, cur>>
    BY <1>0, <1>6, <2>2 DEF AgenticPatch, RunInv
  <2> QED
    BY <1>6, <2>1, <2>2 DEF AgenticPatch
<1>7. CASE Rebuild
  <2>1. cur \in Units /\ acc[cur] \in {None} \cup Overrides /\ acc[cur] # None /\ cur \notin todo
    BY <1>0, <1>7 DEF Rebuild, RunInv, TypeOK, Tables
  <2>2. PICK result \in Results : BuildUnit(cur, acc[cur], result)
    BY <1>7 DEF Rebuild
  <2>3. \A v \in Units \ {cur} : out'[v] = out[v]
    BY <1>0, <2>1, <2>2, BuildType
  <2>4. \/ phase' = "save" /\ cur' = cur
        \/ phase' = "triage"
    BY <1>7 DEF Rebuild
  <2>5. \A v \in todo : out[v] = "ftbfs" /\ v \in Units
    BY <1>0, <1>7 DEF Rebuild, RunInv, TypeOK
  <2>6. UNCHANGED <<todo, acc>>
    BY <1>7 DEF Rebuild
  <2> QED
    BY <2>1, <2>3, <2>4, <2>5, <2>6 DEF RunInv
<1>8. CASE SaveOpen
  BY <1>0, <1>8 DEF SaveOpen, RunInv
<1>9. CASE SaveWrite
  BY <1>0, <1>9 DEF SaveWrite, RunInv
<1>10. CASE NextRound
  BY <1>0, <1>10 DEF NextRound, RunInv, Failing
<1>11. CASE EndRun
  BY <1>11, <1>f DEF EndRun
<1>12. CASE Kill
  BY <1>12, <1>f DEF Kill
<1>13. CASE UNCHANGED vars
  BY <1>0, <1>13 DEF vars, RunInv
<1> QED
  BY <1>1, <1>2, <1>3, <1>4, <1>5, <1>6, <1>7, <1>8, <1>9, <1>10, <1>11, <1>12, <1>13
  DEF Next, Step

\* What is confirmed stays confirmed.
LEMMA StaysConfirmed ==
  ASSUME NEW u, NEW o, confirmed[u] \subseteq confirmed'[u], IsConfirmed(u, o)
  PROVE  IsConfirmed(u, o)'
BY DEF IsConfirmed

LEMMA NothingToConfirm == ASSUME NEW u \in Units PROVE IsConfirmed(u, NoTable[u])
BY EmptyTable DEF IsConfirmed

\* The table, and what is on its way there, was built.
LEMMA NextConfirmed == IInv /\ [Next]_vars => ConfirmedInv'
<1> SUFFICES ASSUME IInv, [Next]_vars PROVE ConfirmedInv'
  OBVIOUS
<1>0. TypeOK /\ RunInv /\ ConfirmedInv
  BY DEF IInv
<1> USE DEF files, mem, hist
<1>f. ASSUME Forgotten, phase' = "idle", UNCHANGED <<table, confirmed>>
      PROVE  ConfirmedInv'
  <2>1. draft' = NoTable /\ table' = table
    BY <1>f DEF Forgotten
  <2>2. \A u \in Units : IsConfirmed(u, Load(table)[u])' /\ IsConfirmed(u, draft[u])'
    BY <1>0, <1>f, <2>1, NothingToConfirm DEF ConfirmedInv, IsConfirmed, Load
  <2> QED
    BY <1>f, <2>2 DEF ConfirmedInv
\* A build, which leaves the tables as they are.
<1>b. ASSUME NEW u \in Units, NEW o \in {None} \cup Overrides, NEW result \in Results,
             BuildUnit(u, o, result), UNCHANGED <<table, draft>>
      PROVE  \A v \in Units : IsConfirmed(v, Load(table)[v])' /\ IsConfirmed(v, draft[v])'
  <2> TAKE v \in Units
  <2>1. confirmed[v] \subseteq confirmed'[v]
    BY <1>0, <1>b, BuildType
  <2>2. IsConfirmed(v, Load(table)[v]) /\ IsConfirmed(v, draft[v])
    BY <1>0 DEF ConfirmedInv
  <2> QED
    BY <1>b, <2>1, <2>2 DEF IsConfirmed, Load
\* A step that touches neither the tables nor what is confirmed.
<1>u. ASSUME UNCHANGED <<table, draft, confirmed>>, phase' # "save"
      PROVE  ConfirmedInv'
  BY <1>0, <1>u DEF ConfirmedInv, IsConfirmed, Load
\* Giving up needs no build.
<1>a. ASSUME NEW u \in Units, NEW remedy \in Overrides, Apply(u, remedy),
             UNCHANGED <<table, draft, confirmed>>
      PROVE  ConfirmedInv'
  <2>1. cur' = u /\ (phase' = "save" => Stock \in acc'[u])
    BY <1>0, <1>a, ApplyType
  <2> QED
    BY <1>0, <1>a, <2>1 DEF ConfirmedInv, IsConfirmed, BuiltWith, Load
<1>1. ASSUME NEW u \in Units, Build(u)
      PROVE  ConfirmedInv'
  <2>1. eff[u] \in {None} \cup Overrides
    BY <1>0 DEF TypeOK, Tables
  <2>2. PICK result \in Results : BuildUnit(u, eff[u], result)
    BY <1>1 DEF Build
  <2>3. phase' # "save" /\ UNCHANGED <<table, draft>>
    BY <1>1 DEF Build
  <2> QED
    BY <1>b, <2>1, <2>2, <2>3 DEF ConfirmedInv
<1>2. ASSUME NEW u \in Units, Verdict(u)
      PROVE  ConfirmedInv'
  <2>1. PICK remedy \in Overrides : Apply(u, remedy)
    BY <1>2, Applies
  <2> QED
    BY <1>2, <2>1, <1>a DEF Verdict
<1>3. ASSUME NEW u \in Units, AgenticPatch(u)
      PROVE  ConfirmedInv'
  <2>1. UNCHANGED <<table, draft, confirmed>> /\ phase # "save"
    BY <1>3 DEF AgenticPatch
  <2>2. CASE Apply(u, {Patch})
    BY <2>1, <2>2, <1>a, RemedyType
  <2>3. CASE UNCHANGED <<acc, phase, cur>>
    BY <2>1, <2>3, <1>u
  <2> QED
    BY <1>3, <2>2, <2>3 DEF AgenticPatch
<1>4. CASE Rebuild
  <2>1. cur \in Units /\ acc[cur] \in {None} \cup Overrides
    BY <1>0, <1>4 DEF Rebuild, RunInv, TypeOK, Tables
  <2>2. PICK result \in Results :
          /\ BuildUnit(cur, acc[cur], result)
          /\ IF result = "ok" /\ acc[cur] # {}
               THEN phase' = "save" /\ UNCHANGED cur
               ELSE phase' = "triage" /\ cur' = Nothing
    BY <1>4 DEF Rebuild
  <2>3. UNCHANGED <<table, draft, acc>>
    BY <1>4 DEF Rebuild
  <2>4. result = "ok" => Built(cur, acc[cur]) \in confirmed'[cur]
    BY <1>0, <2>1, <2>2, BuildType
  <2>5. Stock \notin acc[cur] /\ acc[cur] # None
    BY <1>0, <1>4 DEF Rebuild, RunInv
  <2>6. Built(cur, acc[cur])[1] = acc[cur]
    BY <2>5 DEF Built, Changes
  <2>7. phase' = "save" => BuiltWith(cur, acc[cur])'
    BY <2>2, <2>3, <2>4, <2>6 DEF BuiltWith
  <2> QED
    BY <1>b, <2>1, <2>2, <2>3, <2>7 DEF ConfirmedInv
<1>5. CASE SaveOpen
  <2>1. cur \in Units /\ acc[cur] \in Overrides
    BY <1>0, <1>5 DEF SaveOpen, RunInv, TypeOK, Tables
  <2>2. Load(table) \in Tables
    BY <1>0, LoadType
  <2>3. /\ draft' = [Load(table) EXCEPT ![cur] = Merge(Load(table)[cur], acc[cur])]
        /\ table' = Torn /\ confirmed' = confirmed /\ phase' = "write"
    BY <1>5 DEF SaveOpen
  <2>4. IsConfirmed(cur, Merge(Load(table)[cur], acc[cur]))
    <3>1. /\ Load(table)[cur] # None => Merge(Load(table)[cur], acc[cur]) = Load(table)[cur] \cup acc[cur]
          /\ Load(table)[cur] = None => Merge(Load(table)[cur], acc[cur]) = acc[cur]
      BY <2>1, <2>2, MergeType DEF Tables
    <3>2. IsConfirmed(cur, Load(table)[cur]) /\ IsConfirmed(cur, acc[cur]) /\ acc[cur] # None
      BY <1>0, <1>5, <2>1 DEF ConfirmedInv, RunInv, SaveOpen, IsConfirmed, BuiltWith
    <3> QED
      BY <3>1, <3>2 DEF IsConfirmed
  <2>5. \A v \in Units : IsConfirmed(v, draft'[v])
    <3> TAKE v \in Units
    <3>1. draft'[v] = IF v = cur THEN Merge(Load(table)[cur], acc[cur]) ELSE Load(table)[v]
      BY <2>2, <2>3 DEF Tables
    <3>2. IsConfirmed(v, Load(table)[v])
      BY <1>0 DEF ConfirmedInv
    <3> QED
      BY <2>4, <3>1, <3>2
  <2>6. Load(table)' = NoTable
    BY <2>3 DEF Load
  <2>7. \A v \in Units : IsConfirmed(v, Load(table)[v])' /\ IsConfirmed(v, draft[v])'
    BY <2>3, <2>5, <2>6, NothingToConfirm DEF IsConfirmed
  <2> QED
    BY <2>3, <2>7 DEF ConfirmedInv
<1>6. CASE SaveWrite
  <2>1. table' = draft /\ draft' = NoTable /\ confirmed' = confirmed /\ phase' = "triage"
    BY <1>6 DEF SaveWrite
  <2>2. Load(table)' = draft
    BY <1>0, <2>1, TriageTorn DEF Load, TypeOK, Tables
  <2>3. \A v \in Units : IsConfirmed(v, Load(table)[v])' /\ IsConfirmed(v, draft[v])'
    BY <1>0, <2>1, <2>2, NothingToConfirm DEF ConfirmedInv, IsConfirmed
  <2> QED
    BY <2>1, <2>3 DEF ConfirmedInv
<1>7. CASE BeginRun \/ StartTriage \/ NextRound \/ \E u \in Units : Defer(u)
  BY <1>7, <1>u DEF BeginRun, StartTriage, NextRound, Defer
<1>8. CASE EndRun
  BY <1>8, <1>f DEF EndRun
<1>9. CASE Kill
  BY <1>9, <1>f DEF Kill
<1>10. CASE UNCHANGED vars
  BY <1>0, <1>10 DEF vars, ConfirmedInv, IsConfirmed, BuiltWith, Load
<1> QED
  BY <1>1, <1>2, <1>3, <1>4, <1>5, <1>6, <1>7, <1>8, <1>9, <1>10 DEF Next, Step

\* The table, or the one being written, has all that was saved.
LEMMA NextKept == IInv /\ [Next]_vars => KeptInv'
<1> SUFFICES ASSUME IInv, [Next]_vars, ~lost' PROVE KeptInv'
  BY DEF KeptInv
<1>0. TypeOK /\ RunInv /\ KeptInv
  BY DEF IInv
<1> USE DEF files, mem, hist
<1>1. CASE SaveOpen
  <2>1. cur \in Units /\ acc[cur] \in Overrides
    BY <1>0, <1>1 DEF SaveOpen, RunInv, TypeOK, Tables
  <2>2. ~lost /\ table # Torn /\ \A u \in Units : saved[u] \subseteq Holds(table, u)
    BY <1>0, <1>1 DEF SaveOpen, KeptInv
  <2>3. Load(table) = table /\ table \in Tables
    BY <1>0, <2>2 DEF Load, TypeOK
  <2>4. /\ draft' = [table EXCEPT ![cur] = Merge(table[cur], acc[cur])]
        /\ table' = Torn /\ phase' = "write" /\ UNCHANGED <<saved, acc, cur>>
    BY <1>1, <2>3 DEF SaveOpen
  <2>5. /\ acc[cur] \subseteq Merge(table[cur], acc[cur]) /\ Merge(table[cur], acc[cur]) # None
        /\ Holds(table, cur) \subseteq Merge(table[cur], acc[cur])
    BY <2>1, <2>3, MergeType DEF Holds, Tables
  <2>6. /\ Holds(draft', cur) = Merge(table[cur], acc[cur])
        /\ \A u \in Units \ {cur} : Holds(draft', u) = Holds(table, u)
    BY <2>1, <2>3, <2>4, <2>5 DEF Holds, Tables
  <2>7. \A u \in Units : Holds(table, u) \subseteq Holds(draft', u)
    BY <2>5, <2>6
  <2>8. /\ \A u \in Units : saved'[u] \subseteq Holds(draft', u)
        /\ acc'[cur'] \subseteq Holds(draft', cur')
    BY <2>2, <2>4, <2>5, <2>6, <2>7
  <2> QED
    BY <2>4, <2>8 DEF KeptInv, Holds
<1>2. CASE SaveWrite
  <2>1. cur \in Units /\ ~lost /\ phase = "write"
    BY <1>0, <1>2 DEF SaveWrite, RunInv
  <2>2. /\ \A u \in Units : saved[u] \subseteq Holds(draft, u)
        /\ acc[cur] \subseteq Holds(draft, cur)
    BY <1>0, <2>1 DEF KeptInv
  <2>3. /\ table' = draft /\ phase' = "triage"
        /\ saved' = [saved EXCEPT ![cur] = saved[cur] \cup acc[cur]]
    BY <1>2 DEF SaveWrite
  <2>4. \A u \in Units : saved'[u] \subseteq Holds(draft, u)
    BY <1>0, <2>1, <2>2, <2>3 DEF TypeOK
  <2>5. draft # Torn
    BY <1>0, TriageTorn DEF TypeOK, Tables
  <2> QED
    BY <2>3, <2>4, <2>5 DEF KeptInv, Holds
<1>3. CASE Kill
  <2>1. ~lost /\ table # Torn /\ UNCHANGED <<table, saved>> /\ phase' = "idle"
    BY <1>3 DEF Kill
  <2> QED
    BY <1>0, <2>1 DEF KeptInv, Holds
\* All other steps leave both tables and what was saved alone.
<1>4. ASSUME UNCHANGED <<table, saved, lost>>, phase # "write", phase' # "write"
      PROVE  KeptInv'
  BY <1>0, <1>4 DEF KeptInv, Holds
<1>5. CASE BeginRun \/ StartTriage \/ NextRound \/ EndRun
  BY <1>4, <1>5 DEF BeginRun, StartTriage, NextRound, EndRun
<1>6. CASE Rebuild
  BY <1>4, <1>6 DEF Rebuild
<1>7. ASSUME NEW u \in Units, Build(u) \/ Defer(u)
      PROVE  KeptInv'
  BY <1>4, <1>7 DEF Build, Defer
<1>8. ASSUME NEW u \in Units, Verdict(u) \/ AgenticPatch(u)
      PROVE  KeptInv'
  <2>1. phase = "triage" /\ UNCHANGED <<table, saved, lost>>
    BY <1>8 DEF Verdict, AgenticPatch
  <2>2. phase' # "write"
    BY <1>8 DEF Verdict, AgenticPatch, Apply
  <2> QED
    BY <1>4, <2>1, <2>2
<1>9. CASE UNCHANGED vars
  BY <1>0, <1>9 DEF vars, KeptInv, Holds
<1> QED
  BY <1>1, <1>2, <1>3, <1>5, <1>6, <1>7, <1>8, <1>9 DEF Next, Step

-----------------------------------------------------------------------------
\* What triage keeps is inductive: see above, part by part.
THEOREM TriageInv == Spec => []IInv
<1>1. Init => IInv
  BY InitInv
<1>2. IInv /\ [Next]_vars => IInv'
  BY NextType, NextRun, NextConfirmed, NextKept DEF IInv
<1> QED
  BY <1>1, <1>2, PTL DEF Spec

\* Tables, records and what a run keeps in memory stay of their types.
THEOREM TypeCorrect == Spec => []TypeOK
<1>1. IInv => TypeOK
  BY DEF IInv
<1> QED
  BY <1>1, TriageInv, PTL

\* What a persisted exception changes was part of a build that succeeded,
\* unless it gives the package up.
THEOREM PersistsConfirmed == Spec => []RemediesConfirmed
<1>1. IInv => RemediesConfirmed
  BY DEF IInv, ConfirmedInv, IsConfirmed, RemediesConfirmed, Entry
<1> QED
  BY <1>1, TriageInv, PTL

\* No save loses what another one saved.
THEOREM KeepsWhatIsSaved == Spec => []NothingSavedIsLost
<1>1. IInv => NothingSavedIsLost
  BY DEF IInv, KeptInv, Holds, NothingSavedIsLost, Entry, Load
<1> QED
  BY <1>1, TriageInv, PTL

\* A package given up is not built in later rounds of the run.
THEOREM StaysGivenUp == Spec => GivenUpForThisRun
<1>1. ASSUME IInv, Next, NEW u \in Units, GivenUp(u)
      PROVE  record'[u] = record[u] /\ (GivenUp(u)' \/ phase' = "idle")
  <2>0. TypeOK /\ RunInv
    BY <1>1 DEF IInv
  <2>1. phase \notin {"idle", "waves"}
    BY <1>1, <2>0, EmptyTable DEF RunInv, GivenUp
  <2>2. CASE Rebuild
    <3>1. cur \in Units /\ cur # u /\ acc[cur] \in {None} \cup Overrides /\ acc' = acc
      BY <1>1, <2>0, <2>2 DEF Rebuild, RunInv, GivenUp, TypeOK, Tables
    <3>2. PICK result \in Results : BuildUnit(cur, acc[cur], result)
      BY <2>2 DEF Rebuild
    <3>3. record'[u] = record[u]
      BY <2>0, <3>1, <3>2, BuildType
    <3> QED
      BY <1>1, <3>1, <3>3 DEF GivenUp
  <2>3. ASSUME NEW v \in Units, Verdict(v) \/ AgenticPatch(v)
        PROVE  record'[u] = record[u] /\ GivenUp(u)'
    <3>1. record' = record
      BY <2>3 DEF Verdict, AgenticPatch, files, hist
    <3>2. acc' = acc \/ \E remedy \in Overrides : Apply(v, remedy)
      BY <2>3, RemedyType DEF Verdict, AgenticPatch
    <3>3. acc[u] # None => acc'[u] # None /\ acc[u] \subseteq acc'[u]
      BY <2>0, <3>2, ApplyType
    <3> QED
      BY <1>1, <3>1, <3>3 DEF GivenUp
  <2>4. CASE SaveOpen \/ SaveWrite \/ NextRound \/ \E v \in Units : Defer(v)
    BY <1>1, <2>4 DEF SaveOpen, SaveWrite, NextRound, Defer, GivenUp, files, hist
  <2>5. CASE EndRun \/ Kill
    BY <2>5 DEF EndRun, Kill, files
  <2>6. ~BeginRun /\ ~StartTriage /\ \A v \in Units : ~Build(v)
    BY <2>1 DEF BeginRun, StartTriage, Build
  <2> QED
    BY <1>1, <2>2, <2>3, <2>4, <2>5, <2>6 DEF Next, Step
<1>2. IInv /\ [Next]_vars =>
        [\A u \in Units : GivenUp(u)
           => record'[u] = record[u] /\ (GivenUp(u)' \/ phase' = "idle")]_vars
  BY <1>1
<1> QED
  BY <1>2, TriageInv, PTL DEF Spec, GivenUpForThisRun

\* A package a round has fixed is not built again.
THEOREM StaysFixed == Spec => FixedStaysFixed
<1>1. ASSUME IInv, Next, NEW u \in Units, out[u] = "ok"
      PROVE  record'[u] = record[u]
  <2>0. TypeOK /\ RunInv
    BY <1>1 DEF IInv
  <2>1. ASSUME NEW v \in Units, Build(v)
        PROVE  record'[u] = record[u]
    <3>1. v # u /\ eff[v] \in {None} \cup Overrides
      BY <1>1, <2>0, <2>1 DEF Build, RunInv, TypeOK, Tables
    <3>2. PICK result \in Results : BuildUnit(v, eff[v], result)
      BY <2>1 DEF Build
    <3> QED
      BY <2>0, <3>1, <3>2, BuildType
  <2>2. CASE Rebuild
    <3>1. cur \in Units /\ cur # u /\ acc[cur] \in {None} \cup Overrides
      BY <1>1, <2>0, <2>2 DEF Rebuild, RunInv, TypeOK, Tables
    <3>2. PICK result \in Results : BuildUnit(cur, acc[cur], result)
      BY <2>2 DEF Rebuild
    <3> QED
      BY <2>0, <3>1, <3>2, BuildType
  <2>3. CASE ~Rebuild /\ \A v \in Units : ~Build(v)
    <3>1. record' = record
      BY <1>1, <2>3 DEF Next, Step, BeginRun, StartTriage, Defer, Verdict, AgenticPatch, SaveOpen,
         SaveWrite, NextRound, EndRun, Kill, files, hist
    <3> QED
      BY <3>1
  <2> QED
    BY <2>1, <2>2, <2>3
<1>2. IInv /\ [Next]_vars => [\A u \in Units : out[u] = "ok" => record'[u] = record[u]]_vars
  BY <1>1
<1> QED
  BY <1>2, TriageInv, PTL DEF Spec, FixedStaysFixed
-----------------------------------------------------------------------------
\* What is on file, by phase.
LEMMA OnFileIs ==
  ASSUME TypeOK, RunInv
  PROVE  /\ OnFile \in Tables
         /\ phase = "write" => OnFile = draft /\ Load(table) = NoTable
         /\ phase # "write" => OnFile = Load(table)
BY LoadType DEF OnFile, RunInv, TypeOK, Load

\* A save's two ways to put two overrides together are the same.
LEMMA JoinedIsMerge ==
  ASSUME NEW a, NEW b PROVE Table!Joined(a, b) = Merge(a, b)
BY DEF Table!Joined, Merge

LEMMA TableInit == Init => Table!Init
<1> SUFFICES ASSUME Init PROVE Table!Init
  OBVIOUS
<1>1. OnFile = NoTable
  BY EmptyTable DEF Init, OnFile, Load
<1>2. Green = [u \in Units |-> {}]
  BY DEF Init, Green
<1> QED
  BY <1>1, <1>2 DEF Init, Table!Init, Table!Empty, NoTable

\* A step that leaves alone what is on file and what is confirmed, and is
\* not one of save_exception's, is no step of the table.
LEMMA TableStutters ==
  ASSUME UNCHANGED <<table, confirmed>>, phase # "write", phase' # "write"
  PROVE  UNCHANGED <<OnFile, Green, phase = "write">>
BY DEF OnFile, Green, Load

\* A build confirms, or changes nothing.
LEMMA TableBuild ==
  ASSUME TypeOK, NEW u \in Units, NEW o \in {None} \cup Overrides,
         NEW result \in Results, BuildUnit(u, o, result),
         UNCHANGED table, phase # "write", phase' # "write"
  PROVE  \/ \E b \in SUBSET Tokens : Table!Confirm(u, b)
         \/ UNCHANGED <<OnFile, Green, phase = "write">>
<1>1. UNCHANGED <<OnFile, phase = "write">>
  BY DEF OnFile, Load
<1>2. CASE result # "ok"
  <2>1. confirmed' = confirmed
    BY <1>2 DEF BuildUnit, TypeOK
  <2> QED
    BY <2>1, TableStutters
<1>3. CASE result = "ok"
  <2>1. confirmed' = [confirmed EXCEPT ![u] = confirmed[u] \cup {Built(u, o)}]
    BY <1>3 DEF BuildUnit
  <2>2. Built(u, o)[1] = Changes(o)
    BY DEF Built
  <2>3. \A v \in Units : Green'[v] = IF v = u THEN Green[v] \cup {Changes(o)} ELSE Green[v]
    BY <2>1, <2>2 DEF Green, TypeOK
  <2>4. Green' = [Green EXCEPT ![u] = Green[u] \cup {Changes(o)}]
    BY <2>3 DEF Green
  <2>5. Changes(o) \in SUBSET Tokens /\ Stock \notin Changes(o)
    BY ChangesType
  <2>6. Table!Confirm(u, Changes(o))
    BY <1>1, <2>4, <2>5 DEF Table!Confirm
  <2> QED
    BY <2>5, <2>6
<1> QED
  BY <1>2, <1>3

\* save_exception up to the truncation is the save.
LEMMA TableSave ==
  ASSUME IInv, SaveOpen
  PROVE  \E u \in Units, o \in SUBSET Tokens : Table!Save(u, o)
<1>0. TypeOK /\ RunInv /\ ConfirmedInv
  BY DEF IInv
<1>1. cur \in Units /\ acc[cur] \in Overrides
  BY <1>0 DEF SaveOpen, RunInv, TypeOK, Tables
<1>2. phase = "save" /\ phase' = "write" /\ confirmed' = confirmed
  BY DEF SaveOpen, hist
<1>3. acc[cur] # {} /\ (Stock \in acc[cur] \/ acc[cur] \in Green[cur])
  BY <1>0, <1>1, <1>2 DEF ConfirmedInv, BuiltWith, Green
<1>4. OnFile = Load(table) /\ OnFile' = draft'
  BY <1>2 DEF OnFile
<1>5. OnFile' = [OnFile EXCEPT ![cur] = Table!Joined(OnFile[cur], acc[cur])]
  BY <1>4, JoinedIsMerge DEF SaveOpen
<1>6. Green' = Green
  BY <1>2 DEF Green
<1>7. Table!Save(cur, acc[cur])
  BY <1>2, <1>3, <1>5, <1>6 DEF Table!Save
<1> QED
  BY <1>1, <1>7 DEF Overrides

\* The write that follows changes nothing that is on file.
LEMMA TableWritten == ASSUME IInv, SaveWrite PROVE Table!Written
<1>0. TypeOK
  BY DEF IInv
<1>1. /\ phase = "write" /\ phase' = "triage" /\ table' = draft
      /\ confirmed' = confirmed
  BY DEF SaveWrite
<1>2. draft # Torn
  BY <1>0, TriageTorn DEF TypeOK, Tables
<1>3. OnFile = draft /\ OnFile' = draft
  BY <1>1, <1>2 DEF OnFile, Load
<1>4. Green' = Green
  BY <1>1 DEF Green
<1> QED
  BY <1>1, <1>3, <1>4 DEF Table!Written

\* A kill loses the table only if it hits the write.
LEMMA TableKill ==
  ASSUME IInv, Kill
  PROVE  Table!Tear \/ UNCHANGED <<OnFile, Green, phase = "write">>
<1>1. phase' = "idle" /\ UNCHANGED <<table, confirmed>>
  BY DEF Kill, files
<1>2. CASE phase = "write"
  <2>1. table = Torn
    BY <1>2 DEF IInv, RunInv
  <2>2. OnFile' = NoTable
    BY <1>1, <2>1 DEF OnFile, Load
  <2>3. Green' = Green
    BY <1>1 DEF Green
  <2> QED
    BY <1>1, <1>2, <2>2, <2>3 DEF Table!Tear, Table!Empty, NoTable
<1>3. CASE phase # "write"
  BY <1>1, <1>3, TableStutters
<1> QED
  BY <1>2, <1>3

LEMMA TableStep ==
  IInv /\ [Next]_vars => [Table!Next]_<<OnFile, Green, phase = "write">>
<1> SUFFICES ASSUME IInv, [Next]_vars
             PROVE  Table!Next \/ UNCHANGED <<OnFile, Green, phase = "write">>
  OBVIOUS
<1>0. TypeOK /\ RunInv
  BY DEF IInv
<1>1. ASSUME NEW u \in Units, Build(u)
      PROVE  Table!Next \/ UNCHANGED <<OnFile, Green, phase = "write">>
  <2>1. eff[u] \in {None} \cup Overrides
    BY <1>0 DEF TypeOK, Tables
  <2>2. PICK result \in Results : BuildUnit(u, eff[u], result)
    BY <1>1 DEF Build
  <2>3. UNCHANGED table /\ phase # "write" /\ phase' # "write"
    BY <1>1 DEF Build
  <2> QED
    BY <1>0, <2>1, <2>2, <2>3, TableBuild DEF Table!Next
<1>2. CASE Rebuild
  <2>1. cur \in Units /\ acc[cur] \in {None} \cup Overrides
    BY <1>0, <1>2 DEF Rebuild, RunInv, TypeOK, Tables
  <2>2. PICK result \in Results : BuildUnit(cur, acc[cur], result)
    BY <1>2 DEF Rebuild
  <2>3. UNCHANGED table /\ phase # "write" /\ phase' # "write"
    BY <1>2 DEF Rebuild
  <2> QED
    BY <1>0, <2>1, <2>2, <2>3, TableBuild DEF Table!Next
<1>3. ASSUME NEW u \in Units, Verdict(u) \/ AgenticPatch(u)
      PROVE  UNCHANGED <<OnFile, Green, phase = "write">>
  <2>1. phase = "triage" /\ UNCHANGED <<table, confirmed>>
    BY <1>3 DEF Verdict, AgenticPatch, files, hist
  <2>2. phase' # "write"
    BY <1>3, <2>1 DEF Verdict, AgenticPatch, Apply
  <2> QED
    BY <2>1, <2>2, TableStutters
<1>4. CASE BeginRun \/ StartTriage \/ NextRound \/ EndRun \/ \E u \in Units : Defer(u)
  <2>1. phase # "write" /\ phase' # "write" /\ UNCHANGED <<table, confirmed>>
    BY <1>4 DEF BeginRun, StartTriage, NextRound, EndRun, Defer, files, hist
  <2> QED
    BY <2>1, TableStutters
<1>5. CASE SaveOpen
  BY <1>5, TableSave DEF Table!Next
<1>6. CASE SaveWrite
  BY <1>6, TableWritten DEF Table!Next
<1>7. CASE Kill
  BY <1>7, TableKill DEF Table!Next
<1>8. CASE UNCHANGED vars
  BY <1>8 DEF vars, OnFile, Green, Load
<1> QED
  BY <1>1, <1>2, <1>3, <1>4, <1>5, <1>6, <1>7, <1>8 DEF Next, Step

\* exceptions.json goes through the steps of ExceptionsTable, and no others,
\* whatever runs, rounds and kills there are.
THEOREM ImplementsExceptions == Spec => ImplementsTable
<1>1. Init => Table!Init
  BY TableInit
<1>2. IInv /\ [Next]_vars => [Table!Next]_<<OnFile, Green, phase = "write">>
  BY TableStep
<1> QED
  BY <1>1, <1>2, TriageInv, PTL DEF Spec, ImplementsTable, Table!Spec
-----------------------------------------------------------------------------
(***************************************************************************)
(* Why the rounds end (TriageEnds): what is ahead of a run, the rounds     *)
(* first and then the packages of this one, gets less with every step that *)
(* is not the start of another run, whatever the verdicts and builds say.  *)
(***************************************************************************)
RoundsAhead ==
  CASE phase = "idle"  -> 0
    [] phase = "waves" -> MaxRounds + 1
    [] OTHER           -> MaxRounds + 1 - round

StepsAhead ==
  CASE phase = "rebuild" -> 3
    [] phase = "save"    -> 2
    [] phase = "write"   -> 1
    [] OTHER             -> 0

Ahead == <<RoundsAhead, 4 * Cardinality(todo) + StepsAhead>>

Less(p, q) == p[1] < q[1] \/ (p[1] = q[1] /\ p[2] < q[2])

LEMMA TodoCount ==
  ASSUME TypeOK
  PROVE  /\ Cardinality(todo) \in Nat
         /\ \A u \in todo : Cardinality(todo \ {u}) = Cardinality(todo) - 1
<1>1. IsFiniteSet(todo)
  BY TriageUnits, FS_Subset DEF TypeOK
<1> QED
  BY <1>1, FS_CardinalityType, FS_RemoveElement

LEMMA AheadType == TypeOK => Ahead \in Nat \X Nat
<1> SUFFICES ASSUME TypeOK PROVE Ahead \in Nat \X Nat
  OBVIOUS
<1>1. RoundsAhead \in Nat
  BY TriageMaxRounds DEF RoundsAhead, TypeOK
<1>2. StepsAhead \in Nat
  BY DEF StepsAhead
<1>3. 4 * Cardinality(todo) + StepsAhead \in Nat
  BY <1>2, TodoCount
<1> QED
  BY <1>1, <1>3 DEF Ahead

\* A package less to do in this round, and at most a rebuild and a save of it.
LEMMA OneLess ==
  ASSUME TypeOK, NEW u \in todo, todo' = todo \ {u}, RoundsAhead' = RoundsAhead,
         StepsAhead = 0, StepsAhead' \in 0 .. 3
  PROVE  Less(Ahead', Ahead)
<1>1. Cardinality(todo') = Cardinality(todo) - 1 /\ Cardinality(todo) \in Nat
  BY TodoCount
<1>2. 4 * Cardinality(todo') + StepsAhead' < 4 * Cardinality(todo) + StepsAhead
  BY <1>1
<1> QED
  BY <1>2 DEF Ahead, Less

LEMMA AheadStep == IInv /\ [Next]_vars => [BeginRun \/ Less(Ahead', Ahead)]_vars
<1> SUFFICES ASSUME IInv, Next, ~BeginRun PROVE Less(Ahead', Ahead)
  OBVIOUS
<1>0. TypeOK /\ RunInv
  BY DEF IInv
<1>r. round \in 0 .. MaxRounds /\ MaxRounds \in Nat /\ Cardinality(todo) \in Nat
  BY <1>0, TriageMaxRounds, TodoCount DEF TypeOK
<1>1. ASSUME NEW u \in Units, Build(u) \/ Defer(u)
      PROVE  Less(Ahead', Ahead)
  <2>1. u \in todo /\ todo' = todo \ {u} /\ phase \in {"waves", "triage"} /\ UNCHANGED <<phase, round>>
    BY <1>1 DEF Build, Defer
  <2>2. RoundsAhead' = RoundsAhead /\ StepsAhead = 0 /\ StepsAhead' = 0
    BY <2>1 DEF RoundsAhead, StepsAhead
  <2> QED
    BY <1>0, <2>1, <2>2, OneLess
<1>2. ASSUME NEW u \in Units, Verdict(u) \/ AgenticPatch(u)
      PROVE  Less(Ahead', Ahead)
  <2>1. u \in todo /\ todo' = todo \ {u} /\ phase = "triage" /\ UNCHANGED round
    BY <1>2 DEF Verdict, AgenticPatch
  <2>2. phase' \in {"triage", "save", "rebuild"}
    BY <1>2 DEF Verdict, AgenticPatch, Apply
  <2>3. RoundsAhead' = RoundsAhead /\ StepsAhead = 0 /\ StepsAhead' \in 0 .. 3
    BY <2>1, <2>2 DEF RoundsAhead, StepsAhead
  <2> QED
    BY <1>0, <2>1, <2>3, OneLess
<1>3. CASE Rebuild \/ SaveOpen \/ SaveWrite
  <2>1. /\ UNCHANGED <<todo, round>>
        /\ \/ phase = "rebuild" /\ phase' \in {"save", "triage"}
           \/ phase = "save" /\ phase' = "write"
           \/ phase = "write" /\ phase' = "triage"
    BY <1>3 DEF Rebuild, SaveOpen, SaveWrite
  <2>2. RoundsAhead' = RoundsAhead
    BY <2>1 DEF RoundsAhead
  <2>3. StepsAhead' < StepsAhead /\ StepsAhead \in Nat /\ StepsAhead' \in Nat
    BY <2>1 DEF StepsAhead
  <2> QED
    BY <1>r, <2>1, <2>2, <2>3 DEF Ahead, Less
\* Where a round is left behind, what is to be done next does not count.
<1>4. CASE StartTriage \/ NextRound
  <2>1. RoundsAhead' < RoundsAhead
    BY <1>4, <1>r DEF StartTriage, NextRound, RoundsAhead
  <2> QED
    BY <2>1 DEF Ahead, Less
<1>5. CASE EndRun \/ Kill
  <2>1. phase # "idle" /\ phase' = "idle"
    BY <1>5 DEF EndRun, Kill
  <2>2. RoundsAhead' < RoundsAhead
    BY <1>r, <2>1 DEF RoundsAhead
  <2> QED
    BY <2>2 DEF Ahead, Less
<1> QED
  BY <1>1, <1>2, <1>3, <1>4, <1>5 DEF Next, Step

\* No run goes on for ever: until the next one begins, what is ahead is a pair
\* of numbers that gets less with every step.
THEOREM RunsAreBounded ==
  Spec => [](Ahead \in Nat \X Nat) /\ [][BeginRun \/ Less(Ahead', Ahead)]_vars
<1>1. IInv => Ahead \in Nat \X Nat
  BY AheadType DEF IInv
<1>2. IInv /\ [Next]_vars => [BeginRun \/ Less(Ahead', Ahead)]_vars
  BY AheadStep
<1> QED
  BY <1>1, <1>2, TriageInv, PTL DEF Spec
=============================================================================
