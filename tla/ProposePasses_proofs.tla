------------------------ MODULE ProposePasses_proofs ------------------------
(***************************************************************************)
(* For all command lines, answers of the model, batch sizes and numbers of *)
(* runs: an answer that is replayed fits the run that replays it, a        *)
(* command line that is run again over a tree with the symbols it had      *)
(* gives what it gave before, and unless the disk is full the user's       *)
(* Kconfig text survives the rewriting.  And, for the inventory that       *)
(* propose reads: enrich does not ask again about what has a row, and one  *)
(* that says it is done has left nothing out.                              *)
(***************************************************************************)
EXTENDS ProposePasses, Enrichment, TLAPS, FiniteSetTheorems, SequenceTheorems

\* The key of batch i, and what is kept of the batches I of a pass.
KeyOf(o, g, pass, i) == Key(o, pass, Batches(o, g, pass)[i])
Contents(o, g, pass, I) == UNION {cache[KeyOf(o, g, pass, i)].proposals : i \in I}

\* n is the number of batches, said without the type of a sequence's length:
\* where a run stops asking.
IsCount(o, g, pass, n) ==
  /\ n \in Nat
  /\ \A i \in 1..n : i <= Len(Batches(o, g, pass))
  /\ ~(n + 1 <= Len(Batches(o, g, pass)))
Numbers(o, g, pass) == {i \in Nat \ {0} : \E n \in Nat : IsCount(o, g, pass, n) /\ i <= n}

\* All batches of the pass are in the cache.
Complete(o, g, pass) ==
  /\ \E n \in Nat : IsCount(o, g, pass, n)
  /\ \A i \in Numbers(o, g, pass) : Cached(KeyOf(o, g, pass, i))

\* The passes a finished run has made, and those this run is through with.
Made(p) == IF p THEN Passes ELSE {"modules"}
Through ==
  IF pc \in {"idle", "modules"} THEN {}
  ELSE IF pc = "toggles" THEN {"modules", "choices"}
  ELSE IF pc = "tunables" THEN {"modules", "choices", "toggles"}
  ELSE IF pc = "write" THEN Made(parsed)
  ELSE {"modules"}

\* Fits, with what is gone as an argument.
FitsAsked(o, g, p) ==
  /\ p.sym \in ToSet(Questions(o, g, p.pass))
  /\ p.from = Shown(o, p.pass, p.sym)
  /\ p.to # p.from
  /\ p.pass # "modules" => p.sure >= o.context.floor
  /\ p.pass = "modules" => p.sym \notin Handled(o)

Current == IF pc \in Passes THEN Contents(run, gone, pc, 1..(batch - 1)) ELSE {}

\* p is an answer to the question of key: all of it but the run's options
\* that a key tells.
Replies(key, p) ==
  /\ p.pass = key.pass
  /\ key.pass # "choices" => <<p.sym, p.from>> \in key.asked
  /\ p.to # p.from
  /\ key.pass # "modules" => \A o \in Options : o.context.name = key.context => p.sure >= o.context.floor

(***************************************************************************)
(* The inductive invariant.  PassInv: where a run is, and that the batches *)
(* it has passed are in the cache, while the one it is at is not if an     *)
(* answer is being written.  OutInv and FinishedInv: what a run has        *)
(* collected, and what a finished one has written, is in the cache, which  *)
(* only grows.  FitInv: what a file of the cache has are answers to the    *)
(* question it is named for, and so they fit every run that asks it; what  *)
(* has been collected fits.  WalkInv: a run adds one level of backups at   *)
(* most, and what it is to rewrite or has rewritten is there.  TreeInv: a  *)
(* file the walk has not edited is as the run came upon it, and of one it  *)
(* has, the backup is, and is none that the run came upon.                 *)
(***************************************************************************)
PassInv ==
  /\ pc # "idle" => run \in Options
  /\ pc \notin Passes => batch = 1 /\ answer = Nothing
  /\ pc \in Surfaced => parsed
  /\ pc \in {"idle", "modules", "walk", "rewrite", "restore", "give_up"} => ~parsed
  /\ pc \in Passes => \A i \in 1..(batch - 1) :
                        i <= Len(Batches(run, gone, pc)) /\ Cached(KeyOf(run, gone, pc, i))
  /\ answer # Nothing => batch <= Len(Batches(run, gone, pc)) /\ ~Cached(KeyOf(run, gone, pc, batch))
  /\ \A pass \in Through : Complete(run, gone, pass)

OutInv ==
  pc # "idle" =>
    out = Deterministic(run)
          \cup (UNION {Contents(run, gone, pass, Numbers(run, gone, pass)) : pass \in Through})
          \cup Current

FinishedInv ==
  \A f \in finished :
    /\ \A pass \in Made(f.parsed) : Complete(f.run, f.gone, pass)
    /\ f.proposals =
         Deterministic(f.run)
         \cup UNION {Contents(f.run, f.gone, pass, Numbers(f.run, f.gone, pass)) : pass \in Made(f.parsed)}

FitInv ==
  /\ \A k \in DOMAIN cache : \A p \in cache[k].proposals : Replies(k, p)
  /\ answer # Nothing => \A p \in answer : Replies(KeyOf(run, gone, pc, batch), p)
  /\ AnswersFit

WalkInv ==
  /\ \A f \in KconfigFiles : text[<<f, 0>>] # Nothing
  /\ \A x \in Paths : text[x] # Nothing => x[2] <= runs
  /\ pc # "idle" => \A x \in Paths : found[x] # Nothing => x[2] < runs
  /\ pc \in {"modules", "walk"} => found = text
  /\ pc \notin {"rewrite", "restore", "give_up"} => edited = {}
  /\ pc # "rewrite" => todo = {}
  /\ todo \cap edited = {}
  /\ \A x \in todo : found[x] # Nothing /\ text[x] # Nothing
  /\ \A x \in edited : found[x] # Nothing /\ text[Backup(x)] # Nothing

TreeInv ==
  /\ \A f \in KconfigFiles : \E i \in 0..MaxRuns : text[<<f, i>>] = Original
  /\ pc # "idle" => \A x \in Paths :
       /\ x \notin edited /\ found[x] # Nothing => text[x] = found[x]
       /\ x \in edited => /\ text[x] \notin {Original, Nothing}
                          /\ text[Backup(x)] = found[x] /\ found[Backup(x)] = Nothing

IInv == TypeOK /\ PassInv /\ OutInv /\ FinishedInv /\ FitInv /\ WalkInv /\ (~FullDisk => TreeInv)

-----------------------------------------------------------------------------
\* A pass has one number of batches.
LEMMA OneCount ==
  ASSUME NEW o, NEW g, NEW pass, NEW n \in Nat, IsCount(o, g, pass, n)
  PROVE  Numbers(o, g, pass) = 1..n
<1>1. \A m \in Nat : IsCount(o, g, pass, m) => m = n
  <2> SUFFICES ASSUME NEW m \in Nat, IsCount(o, g, pass, m), m # n PROVE FALSE
    OBVIOUS
  <2> DEFINE L == Len(Batches(o, g, pass))
  <2>1. /\ \A i \in 1..n : i <= L
        /\ \A i \in 1..m : i <= L
        /\ ~(n + 1 <= L) /\ ~(m + 1 <= L)
    BY DEF IsCount
  <2> HIDE DEF L
  <2>2. CASE m < n
    <3>1. m + 1 \in 1..n
      BY <2>2
    <3> QED
      BY <2>1, <3>1
  <2>3. CASE n < m
    <3>1. n + 1 \in 1..m
      BY <2>3
    <3> QED
      BY <2>1, <3>1
  <2> QED
    BY <2>2, <2>3
<1> QED
  BY <1>1 DEF Numbers

\* The batches a run has passed when it stops asking are all there are.
LEMMA PassEnds ==
  ASSUME NEW o, NEW g, NEW pass, NEW b \in Nat \ {0},
         \A i \in 1..(b - 1) : i <= Len(Batches(o, g, pass)) /\ Cached(KeyOf(o, g, pass, i)),
         ~(b <= Len(Batches(o, g, pass)))
  PROVE  Complete(o, g, pass) /\ Numbers(o, g, pass) = 1..(b - 1)
<1>1. b - 1 \in Nat /\ (b - 1) + 1 = b
  OBVIOUS
<1>2. IsCount(o, g, pass, b - 1)
  BY <1>1 DEF IsCount
<1>3. Numbers(o, g, pass) = 1..(b - 1)
  BY <1>1, <1>2, OneCount
<1> QED
  BY <1>1, <1>2, <1>3 DEF Complete

\* A kept answer stays as it is.
Grows == \A k : Cached(k) => Cached(k)' /\ cache'[k] = cache[k]

LEMMA SameContents ==
  ASSUME Grows, NEW o, NEW g, NEW pass, NEW I, \A i \in I : Cached(KeyOf(o, g, pass, i))
  PROVE  /\ Contents(o, g, pass, I)' = Contents(o, g, pass, I)
         /\ \A i \in I : Cached(KeyOf(o, g, pass, i))'
<1>1. \A i \in I : Cached(KeyOf(o, g, pass, i))' /\ cache'[KeyOf(o, g, pass, i)] = cache[KeyOf(o, g, pass, i)]
  BY DEF Grows
<1> QED
  BY <1>1 DEF Contents

\* The module pass asks the same whatever the walk will find.
LEMMA ModulesSame ==
  ASSUME NEW o, NEW g, NEW g2
  PROVE  /\ Batches(o, g, "modules") = Batches(o, g2, "modules")
         /\ \A i : KeyOf(o, g, "modules", i) = KeyOf(o, g2, "modules", i)
         /\ Numbers(o, g, "modules") = Numbers(o, g2, "modules")
         /\ Complete(o, g, "modules") <=> Complete(o, g2, "modules")
<1>1. Batches(o, g, "modules") = Batches(o, g2, "modules")
  BY DEF Batches, Questions
<1>2. \A i : KeyOf(o, g, "modules", i) = KeyOf(o, g2, "modules", i)
  BY <1>1 DEF KeyOf
<1>3. \A n : IsCount(o, g, "modules", n) <=> IsCount(o, g2, "modules", n)
  BY <1>1 DEF IsCount
<1>4. Numbers(o, g, "modules") = Numbers(o, g2, "modules")
  BY <1>3 DEF Numbers
<1> QED
  BY <1>1, <1>2, <1>3, <1>4 DEF Complete

LEMMA KeepType ==
  ASSUME NEW key, NEW whole \in BOOLEAN, NEW proposals, Keep(key, whole, proposals)
  PROVE  /\ DOMAIN cache' = DOMAIN cache \cup {key}
         /\ cache'[key] = [whole |-> whole, proposals |-> proposals]
         /\ \A k \in DOMAIN cache \ {key} : cache'[k] = cache[k]
BY DEF Keep

\* Keeping an answer that was not there adds to the cache.
LEMMA KeepGrows ==
  ASSUME NEW key, NEW whole \in BOOLEAN, NEW proposals, Keep(key, whole, proposals), ~Cached(key)
  PROVE  Grows /\ (whole => Cached(key)' /\ cache'[key].proposals = proposals)
<1>1. /\ DOMAIN cache' = DOMAIN cache \cup {key}
      /\ cache'[key] = [whole |-> whole, proposals |-> proposals]
      /\ \A k \in DOMAIN cache \ {key} : cache'[k] = cache[k]
  BY KeepType
<1>2. \A k : Cached(k) => Cached(k)' /\ cache'[k] = cache[k]
  <2> SUFFICES ASSUME NEW k, Cached(k) PROVE Cached(k)' /\ cache'[k] = cache[k]
    OBVIOUS
  <2>1. k \in DOMAIN cache \ {key} /\ cache[k].whole
    BY DEF Cached
  <2> QED
    BY <1>1, <2>1 DEF Cached
<1>3. whole => Cached(key)' /\ cache'[key].proposals = proposals
  BY <1>1 DEF Cached
<1> QED
  BY <1>2, <1>3 DEF Grows

LEMMA SameGrows == cache' = cache => Grows
BY DEF Grows, Cached

\* A configuration has a value, or none, for every symbol.
LEMMA ShownType ==
  ASSUME NEW o \in Options, NEW pass, NEW s \in Symbols
  PROVE  Shown(o, pass, s) \in Values \cup {"absent"}
<1>1. Config(o) \in Configs
  BY ProposeAssumption DEF Config
<1> QED
  BY <1>1, ProposeAssumption DEF Shown, Configs

LEMMA DeterministicType ==
  ASSUME NEW o \in Options
  PROVE  Deterministic(o) \subseteq Proposals /\ \A p \in Deterministic(o) : p.pass = "rules"
<1>1. ASSUME NEW s \in o.host.handled
      PROVE  [pass |-> "rules", sym |-> s, from |-> Shown(o, "modules", s), to |-> "n",
              sure |-> 3] \in Proposals
  <2>1. s \in Symbols
    BY ProposeAssumption
  <2>2. Shown(o, "modules", s) \in Values \cup {"absent"}
    BY <2>1, ShownType
  <2>3. "n" \in Values /\ 3 \in Confidence
    BY ProposeAssumption DEF Confidence
  <2> QED
    BY <2>1, <2>2, <2>3 DEF Proposals
<1>2. o.tune \subseteq Proposals /\ \A p \in o.tune : p.pass = "rules"
  BY ProposeAssumption
<1>3. Deterministic(o) =
        {[pass |-> "rules", sym |-> s, from |-> Shown(o, "modules", s), to |-> "n", sure |-> 3] :
           s \in o.host.handled} \cup o.tune
  BY DEF Deterministic
<1> QED
  BY <1>1, <1>2, <1>3

LEMMA FilteredType ==
  ASSUME NEW o \in Options, NEW pass \in Passes, NEW b, NEW decisions \in SUBSET Decisions[pass]
  PROVE  Filtered(o, pass, b, decisions) \subseteq Proposals
<1> SUFFICES ASSUME NEW d \in decisions
             PROVE  [pass |-> pass, sym |-> d.sym, from |-> Shown(o, pass, d.sym), to |-> d.value,
                     sure |-> d.sure] \in Proposals
  BY DEF Filtered
<1>1. d.sym \in Symbols /\ d.value \in Values /\ d.sure \in Confidence
  BY ProposeAssumption
<1>2. Shown(o, pass, d.sym) \in Values \cup {"absent"}
  BY <1>1, ShownType
<1> QED
  BY <1>1, <1>2 DEF Proposals

\* The positions of a set of numbers in order are a bijection, and increase.
LEMMA InOrderIs ==
  ASSUME NEW K \in SUBSET Nat, IsFiniteSet(K), NEW at, at = InOrder(K)
  PROVE  /\ Cardinality(K) \in Nat /\ at \in [1..Cardinality(K) -> K]
         /\ \A k \in K : \E n \in 1..Cardinality(K) : at[n] = k
         /\ \A n, m \in 1..Cardinality(K) : n < m => at[n] < at[m]
<1> DEFINE upTo(i) == {j \in K : j <= i}
           c == [i \in K |-> Cardinality(upTo(i))]
           N == Cardinality(K)
<1>0. \A k \in K : k \in Nat
  OBVIOUS
<1>1. N \in Nat
  BY FS_CardinalityType
<1>2. ASSUME NEW i \in K
      PROVE  IsFiniteSet(upTo(i)) /\ i \in upTo(i) /\ Cardinality(upTo(i)) \in 1..N
  <2>1. upTo(i) \in SUBSET K /\ i \in upTo(i)
    OBVIOUS
  <2>2. IsFiniteSet(upTo(i)) /\ Cardinality(upTo(i)) <= N
    BY <2>1, FS_Subset
  <2>3. Cardinality(upTo(i)) \in Nat /\ Cardinality(upTo(i)) # 0
    BY <2>1, <2>2, FS_CardinalityType, FS_EmptySet
  <2> HIDE DEF upTo, N
  <2> QED
    BY <1>1, <2>1, <2>2, <2>3
<1>3. ASSUME NEW i \in K, NEW k \in K, i < k
      PROVE  c[i] < c[k]
  <2>0. i \in Nat /\ k \in Nat
    BY <1>0
  <2>a. \A j \in K : j <= i => j <= k
    BY <1>0, <1>3, <2>0
  <2>b. k <= k /\ ~(k <= i)
    BY <1>3, <2>0
  <2>1. upTo(i) \in SUBSET upTo(k) /\ k \in upTo(k) /\ k \notin upTo(i)
    BY <2>a, <2>b, Zenon
  <2>2. Cardinality(upTo(k)) # Cardinality(upTo(i)) /\ Cardinality(upTo(i)) <= Cardinality(upTo(k))
    BY <1>2, <2>1, FS_Subset
  <2>3. Cardinality(upTo(k)) \in Nat /\ Cardinality(upTo(i)) \in Nat
    BY <1>1, <1>2
  <2> HIDE DEF upTo
  <2> QED
    BY <2>2, <2>3
<1>4. c \in [K -> 1..N]
  BY <1>2
<1>5. \A i, k \in K : c[i] = c[k] => i = k
  <2> SUFFICES ASSUME NEW i \in K, NEW k \in K, i # k PROVE c[i] # c[k]
    OBVIOUS
  <2>1. c[i] \in Nat /\ c[k] \in Nat /\ (i < k \/ k < i)
    BY <1>1, <1>4
  <2> HIDE DEF c
  <2> QED
    BY <1>3, <2>1
<1>6. c \in Surjection(K, 1..N)
  <2>1. IsFiniteSet(1..N) /\ Cardinality(1..N) = N
    BY <1>1, FS_Interval
  <2> HIDE DEF c
  <2>2. c \in Injection(K, 1..N)
    BY <1>4, <1>5 DEF Injection, IsInjective
  <2> QED
    BY <2>1, <2>2, FS_Injection
<1>7. at = [n \in 1..N |-> CHOOSE k \in K : Cardinality(upTo(k)) = n]
  BY DEF InOrder
<1>8. \A n \in 1..N : at[n] \in K /\ c[at[n]] = n
  <2> SUFFICES ASSUME NEW n \in 1..N PROVE at[n] \in K /\ c[at[n]] = n
    OBVIOUS
  <2>1. \E k \in K : Cardinality(upTo(k)) = n
    BY <1>6 DEF Surjection
  <2>2. at[n] = CHOOSE k \in K : Cardinality(upTo(k)) = n
    BY <1>7
  <2>3. at[n] \in K /\ Cardinality(upTo(at[n])) = n
    BY <2>1, <2>2
  <2> QED
    BY <2>3
<1> HIDE DEF c, N, upTo
<1>9. \A k \in K : c[k] \in 1..N /\ at[c[k]] = k
  BY <1>4, <1>5, <1>8
<1>10. ASSUME NEW n \in 1..N, NEW m \in 1..N, n < m
       PROVE  at[n] < at[m]
  <2>1. at[n] \in K /\ at[m] \in K /\ c[at[n]] = n /\ c[at[m]] = m
    BY <1>8
  <2>2. at[n] \in Nat /\ at[m] \in Nat
    BY <1>0, <2>1, Zenon
  <2>3. at[m] < at[n] => m < n
    BY <1>3, <2>1
  <2> QED
    BY <1>1, <1>8, <1>10, <2>2, <2>3
<1>11. at \in [1..N -> K]
  BY <1>7, <1>8
<1> QED
  BY <1>1, <1>9, <1>10, <1>11 DEF N

\* What is selected of a sequence is all that is to be kept, and from other
\* positions of it.
LEMMA SelectKeeps ==
  ASSUME NEW S, NEW s \in Seq(S), NEW keep
  PROVE  /\ Select(s, keep) \in Seq(S \cap keep)
         /\ \A i \in DOMAIN s : s[i] \in keep => \E k \in DOMAIN Select(s, keep) : Select(s, keep)[k] = s[i]
         /\ \A k, m \in DOMAIN Select(s, keep) : k # m =>
              \E i, j \in DOMAIN s : i # j /\ Select(s, keep)[k] = s[i] /\ Select(s, keep)[m] = s[j]
<1> DEFINE kept == {i \in DOMAIN s : s[i] \in keep}
           N == Cardinality(kept)
<1>1. kept \in SUBSET Nat /\ \A i \in kept : i \in DOMAIN s /\ s[i] \in S \cap keep
  BY LenProperties
<1>2. IsFiniteSet(kept)
  <2>1. Len(s) \in Nat /\ kept \in SUBSET (1..Len(s))
    BY LenProperties
  <2> QED
    BY <2>1, FS_Interval, FS_Subset
<1>3. PICK at : at = InOrder(kept)
  OBVIOUS
<1>4. /\ N \in Nat /\ at \in [1..N -> kept]
      /\ \A k \in kept : \E m \in 1..N : at[m] = k
      /\ \A k, m \in 1..N : k < m => at[k] < at[m]
  <2> HIDE DEF kept
  <2> QED
    BY <1>1, <1>2, <1>3, InOrderIs
<1>5. PICK sel : sel = Select(s, keep) /\ sel = [k \in 1..N |-> s[at[k]]]
  <2>1. Select(s, keep) = [k \in DOMAIN at |-> s[at[k]]]
    BY <1>3 DEF Select
  <2> QED
    BY <1>4, <2>1
<1>6. \A k \in 1..N : sel[k] = s[at[k]] /\ at[k] \in kept /\ sel[k] \in S \cap keep
  BY <1>1, <1>4, <1>5
<1>7. DOMAIN sel = 1..N
  BY <1>5
<1>8. \A i \in DOMAIN s : s[i] \in keep => i \in kept
  OBVIOUS
<1> HIDE DEF N, kept
<1>9. sel \in Seq(S \cap keep)
  <2> DEFINE e(k) == s[at[k]]
  <2>1. \A k \in 1..N : e(k) \in S \cap keep
    BY <1>6
  <2>2. sel = [k \in 1..N |-> e(k)]
    BY <1>5
  <2> HIDE DEF e
  <2>3. [k \in 1..N |-> e(k)] \in Seq(S \cap keep)
    BY <1>4, <2>1, IsASeq
  <2> QED
    BY <2>2, <2>3
<1>10. ASSUME NEW i \in DOMAIN s, s[i] \in keep
       PROVE  \E k \in DOMAIN sel : sel[k] = s[i]
  <2>1. PICK k \in 1..N : at[k] = i
    BY <1>4, <1>8, <1>10
  <2> QED
    BY <1>6, <1>7, <2>1
<1>11. ASSUME NEW k \in DOMAIN sel, NEW m \in DOMAIN sel, k # m
       PROVE  \E i, j \in DOMAIN s : i # j /\ sel[k] = s[i] /\ sel[m] = s[j]
  <2>1. k \in 1..N /\ m \in 1..N /\ (k < m \/ m < k)
    BY <1>4, <1>7, <1>11
  <2>2. at[k] \in kept /\ at[m] \in kept /\ sel[k] = s[at[k]] /\ sel[m] = s[at[m]]
    BY <1>6, <2>1
  <2>3. at[k] \in Nat /\ at[m] \in Nat /\ at[k] \in DOMAIN s /\ at[m] \in DOMAIN s
    BY <1>1, <2>2
  <2>4. at[k] # at[m]
    BY <1>4, <2>1, <2>3
  <2> QED
    BY <2>2, <2>3, <2>4
<1> QED
  BY <1>5, <1>9, <1>10, <1>11

\* A pass asks about symbols of its own: the module pass about no symbol that
\* the rules have handled.
LEMMA QuestionsType ==
  ASSUME NEW o \in Options, NEW g, NEW pass \in Passes
  PROVE  /\ Questions(o, g, pass) \in Seq(Symbols)
         /\ pass = "modules" =>
              ToSet(Questions(o, g, pass)) \cap Handled(o) = {}
<1>1. CASE pass # "modules"
  <2>1. Order[pass] \in Seq(Symbols)
    BY <1>1, ProposeAssumption DEF Passes
  <2> DEFINE keep == (Allowed[pass] \cup IF pass = "tunables" THEN {} ELSE o.context.recipes) \ g
  <2>2. Questions(o, g, pass) = Select(Order[pass], keep)
    BY <1>1 DEF Questions, Eligible
  <2>3. Select(Order[pass], keep) \in Seq(Symbols \cap keep)
    BY <2>1, SelectKeeps
  <2> QED
    BY <1>1, <2>2, <2>3, SeqMonotonic
<1>2. CASE pass = "modules"
  <2> DEFINE T == Symbols \cap (Symbols \ Handled(o))
             left == Select(o.host.candidates, Symbols \ Handled(o))
  <2>1. o.host.candidates \in Seq(Symbols) /\ o.max_candidates \in Nat
    BY ProposeAssumption
  <2>2. left \in Seq(T)
    BY <2>1, SelectKeeps
  <2>3. Pool(o) = IF o.max_candidates \in 1..Len(left)
                  THEN SubSeq(left, 1, o.max_candidates) ELSE left
    BY DEF Pool
  <2>4. T \subseteq Symbols /\ T \cap Handled(o) = {}
    OBVIOUS
  <2> HIDE DEF left, T
  <2>5. Len(left) \in Nat
    BY <2>2, LenProperties
  <2>6. Pool(o) \in Seq(T)
    BY <2>1, <2>2, <2>3, <2>5, SubSeqProperties
  <2>7. Pool(o) \in Seq(Symbols)
    BY <2>4, <2>6, SeqMonotonic
  <2>8. ToSet(Pool(o)) \subseteq T
    BY <2>6, LenProperties DEF ToSet
  <2> QED
    BY <1>2, <2>4, <2>7, <2>8 DEF Questions
<1> QED
  BY <1>1, <1>2

\* A batch has nothing but questions of its pass.
LEMMA BatchAsks ==
  ASSUME NEW o \in Options, NEW g, NEW pass \in Passes, NEW i \in Nat \ {0},
         i <= Len(Batches(o, g, pass))
  PROVE  Batches(o, g, pass)[i] \subseteq ToSet(Questions(o, g, pass))
<1> DEFINE q == Questions(o, g, pass)
           size == BatchSize[pass]
           upto(k) == IF k * size < Len(q) THEN k * size ELSE Len(q)
           B(k) == ToSet(SubSeq(q, (k - 1) * size + 1, upto(k)))
           n == (Len(q) + size - 1) \div size
<1>1. q \in Seq(Symbols) /\ Len(q) \in Nat
  BY QuestionsType, LenProperties
<1>2. size \in Nat \ {0}
  BY ProposeAssumption
<1>3. n \in Nat
  <2> HIDE DEF q, size
  <2>1. Len(q) + size - 1 \in Nat
    BY <1>1, <1>2
  <2> QED
    BY <1>2, <2>1
<1>4. Batches(o, g, pass) = IF pass \notin o.passes \/ o.skip_llm THEN << >> ELSE [k \in 1..n |-> B(k)]
  BY DEF Batches
<1> HIDE DEF n, B
<1>5. Batches(o, g, pass) = [k \in 1..n |-> B(k)] /\ i \in 1..n
  <2>1. Len([k \in 1..n |-> B(k)]) = n
    <3> DEFINE R == {B(k) : k \in 1..n}
    <3>1. \A k \in 1..n : B(k) \in R
      OBVIOUS
    <3> HIDE DEF R
    <3>2. [k \in 1..n |-> B(k)] \in Seq(R)
      BY <1>3, <3>1, IsASeq
    <3> QED
      BY <1>3, <3>2, LenProperties
  <2>2. Batches(o, g, pass) # << >>
    BY EmptySeq
  <2>3. ~(pass \notin o.passes \/ o.skip_llm)
    BY <1>4, <2>2
  <2>4. Batches(o, g, pass) = [k \in 1..n |-> B(k)]
    BY <1>4, <2>3
  <2>5. i <= n
    BY <2>1, <2>4
  <2> QED
    BY <1>3, <2>4, <2>5
<1>6. /\ (i - 1) * size + 1 \in Nat \ {0} /\ upto(i) \in Int
      /\ upto(i) <= Len(q)
  <2> HIDE DEF q, size
  <2>1. (i - 1) * size \in Nat /\ i * size \in Nat
    BY <1>2
  <2> QED
    BY <1>1, <2>1
<1>7. \A k \in DOMAIN SubSeq(q, (i - 1) * size + 1, upto(i)) :
        /\ k + ((i - 1) * size + 1) - 1 \in DOMAIN q
        /\ SubSeq(q, (i - 1) * size + 1, upto(i))[k] = q[k + ((i - 1) * size + 1) - 1]
  <2> DEFINE a == (i - 1) * size + 1
             z == upto(i)
  <2>1. a \in Nat \ {0} /\ z \in Int /\ z <= Len(q) /\ DOMAIN q = 1..Len(q)
    BY <1>1, <1>6, LenProperties
  <2> HIDE DEF a, z, q
  <2>2. \A k \in DOMAIN SubSeq(q, a, z) :
          k + a - 1 \in DOMAIN q /\ SubSeq(q, a, z)[k] = q[k + a - 1]
    BY <1>1, <2>1
  <2> QED
    BY <2>2 DEF a, z
<1>8. B(i) \subseteq ToSet(q)
  <2> HIDE DEF q, upto
  <2> QED
    BY <1>7 DEF B, ToSet
<1> QED
  BY <1>5, <1>8

\* What is made of a model's decisions answers what was asked.
LEMMA FilteredAnswers ==
  ASSUME NEW o \in Options, NEW pass \in Passes, NEW b, NEW decisions,
         NEW p \in Filtered(o, pass, b, decisions)
  PROVE  Replies(Key(o, pass, b), p)
<1> DEFINE key == Key(o, pass, b)
<1>1. PICK d \in decisions :
        /\ p = [pass |-> pass, sym |-> d.sym, from |-> Shown(o, pass, d.sym), to |-> d.value,
                sure |-> d.sure]
        /\ d.sym \in b /\ d.value # Shown(o, pass, d.sym)
        /\ pass = "modules" \/ d.sure >= o.context.floor
  BY DEF Filtered
<1>2. p.pass = pass /\ p.sym = d.sym /\ p.from = Shown(o, pass, d.sym) /\ p.to = d.value
      /\ p.sure = d.sure
  BY <1>1
<1>3. key.pass = pass /\ key.asked = Signature(o, pass, b)
      /\ (pass # "modules" => key.context = o.context.name)
  BY DEF Key
<1>4. pass # "choices" => <<d.sym, Shown(o, pass, d.sym)>> \in Signature(o, pass, b)
  BY <1>1 DEF Signature
<1>5. ASSUME pass # "modules", NEW o2 \in Options, o2.context.name = o.context.name
      PROVE  p.sure >= o2.context.floor
  BY <1>1, <1>2, <1>5, ProposeAssumption
<1> HIDE DEF key
<1>6. Replies(key, p)
  BY <1>1, <1>2, <1>3, <1>4, <1>5 DEF Replies
<1> QED
  BY <1>6 DEF key

\* An answer to a question fits every run that asks it, whichever run it was
\* given to.
LEMMA AnswerFits ==
  ASSUME NEW o \in Options, NEW g, NEW pass \in Passes \ {"choices"}, NEW i \in Nat \ {0},
         i <= Len(Batches(o, g, pass)), NEW p, Replies(KeyOf(o, g, pass, i), p)
  PROVE  FitsAsked(o, g, p)
<1> DEFINE key == KeyOf(o, g, pass, i)
<1>1. /\ key.pass = pass /\ key.asked = Signature(o, pass, Batches(o, g, pass)[i])
      /\ pass # "modules" => key.context = o.context.name
  BY DEF KeyOf, Key
<1>2. /\ p.pass = pass /\ <<p.sym, p.from>> \in key.asked /\ p.to # p.from
      /\ pass # "modules" => p.sure >= o.context.floor
  BY <1>1 DEF Replies
<1>3. p.sym \in Batches(o, g, pass)[i] /\ p.from = Shown(o, pass, p.sym)
  BY <1>1, <1>2 DEF Signature
<1>4. p.sym \in ToSet(Questions(o, g, pass))
  BY <1>3, BatchAsks
<1>5. pass = "modules" => p.sym \notin Handled(o)
  BY <1>4, QuestionsType
<1> QED
  BY <1>2, <1>3, <1>4, <1>5 DEF FitsAsked

-----------------------------------------------------------------------------
\* Paths are files with the level of a backup, 0 for the file itself.
LEMMA PathsAre ==
  /\ MaxRuns \in Nat /\ 0 \in 0..MaxRuns
  /\ \A f \in KconfigFiles : \A i \in 0..MaxRuns :
       <<f, i>> \in Paths /\ <<f, i>>[1] = f /\ <<f, i>>[2] = i
  /\ \A x \in Paths : x[1] \in KconfigFiles /\ x[2] \in 0..MaxRuns /\ x = <<x[1], x[2]>>
<1>1. MaxRuns \in Nat
  BY ProposeAssumption
<1>2. 0 \in 0..MaxRuns
  BY <1>1
<1> QED
  BY <1>1, <1>2 DEF Paths

\* A backup is another path than its file, has one file, and is at its level.
LEMMA BackupsAre ==
  /\ \A x \in Paths : Backup(x)[2] = x[2] + 1 /\ Backup(x)[1] = x[1] /\ Backup(x) # x
                      /\ (x[2] < MaxRuns => Backup(x) \in Paths)
                      /\ \A f : Backup(x) # <<f, 0>>
  /\ \A x, y \in Paths : Backup(x) = Backup(y) => x = y
<1>1. ASSUME NEW x \in Paths
      PROVE  /\ Backup(x)[2] = x[2] + 1 /\ Backup(x)[1] = x[1] /\ Backup(x) # x
             /\ x[2] < MaxRuns => Backup(x) \in Paths
             /\ \A f : Backup(x) # <<f, 0>>
  <2>1. x[1] \in KconfigFiles /\ x[2] \in 0..MaxRuns /\ MaxRuns \in Nat
    BY PathsAre
  <2>2. Backup(x) = <<x[1], x[2] + 1>>
    BY DEF Backup
  <2>3. Backup(x)[2] = x[2] + 1 /\ Backup(x)[1] = x[1]
    BY <2>2
  <2>4. x[2] + 1 # x[2] /\ x[2] + 1 # 0 /\ (x[2] < MaxRuns => x[2] + 1 \in 0..MaxRuns)
    BY <2>1
  <2>5. Backup(x) # x
    BY <2>3, <2>4
  <2>6. x[2] < MaxRuns => Backup(x) \in Paths
    BY <2>1, <2>2, <2>4, PathsAre
  <2>7. \A f : Backup(x) # <<f, 0>>
    BY <2>2, <2>4
  <2> QED
    BY <2>3, <2>5, <2>6, <2>7
<1>2. ASSUME NEW x \in Paths, NEW y \in Paths, Backup(x) = Backup(y)
      PROVE  x = y
  <2>1. x[1] = y[1] /\ x[2] + 1 = y[2] + 1
    BY <1>1, <1>2
  <2>2. x[2] \in Nat /\ y[2] \in Nat
    BY PathsAre
  <2>3. x[2] = y[2]
    BY <2>1, <2>2
  <2> QED
    BY <2>1, <2>3, PathsAre
<1> QED
  BY <1>1, <1>2

\* The backup of a file that the run came upon is a path as well.
LEMMA BackupPath ==
  ASSUME TypeOK, WalkInv, pc # "idle", NEW x \in Paths, found[x] # Nothing
  PROVE  Backup(x) \in Paths /\ Backup(x)[2] <= runs
<1>1. x[2] < runs /\ runs \in 0..MaxRuns
  BY DEF TypeOK, WalkInv
<1>2. x[2] \in Nat /\ MaxRuns \in Nat
  BY PathsAre
<1>3. x[2] < MaxRuns /\ x[2] + 1 <= runs
  BY <1>1, <1>2
<1> QED
  BY <1>3, BackupsAre

LEMMA Texts ==
  /\ Original \in FileTexts /\ Original # Nothing /\ Nothing \notin FileTexts
  /\ \A c \in FileTexts : Stripped(c) \in FileTexts /\ Stripped(c) # Original
  /\ \A h \in Halves : h \in FileTexts /\ h # Original
<1>1. Original \in FileTexts /\ Original.whole /\ Original.hit
  BY DEF Original, FileTexts
<1>2. Nothing \notin FileTexts /\ \A h \in Halves : h \in FileTexts /\ ~h.whole
  BY ProposeAssumption
<1>3. ASSUME NEW c \in FileTexts
      PROVE  Stripped(c) \in FileTexts /\ ~Stripped(c).hit
  BY DEF Stripped, FileTexts
<1> QED
  BY <1>1, <1>2, <1>3

LEMMA InitInv == Init => IInv
<1> SUFFICES ASSUME Init PROVE IInv
  OBVIOUS
<1>1. runs \in 0..MaxRuns
  BY PathsAre DEF Init
<1>2. /\ text = [x \in Paths |-> IF x[2] = 0 THEN Original ELSE Nothing] /\ found = text
      /\ \A f \in KconfigFiles : text[<<f, 0>>] = Original
  <2>1. text = [x \in Paths |-> IF x[2] = 0 THEN Original ELSE Nothing] /\ found = text
    BY DEF Init
  <2> QED
    BY <2>1, PathsAre
<1>3. TypeOK
  <2>1. DOMAIN cache = {}
    BY DEF Init
  <2>2. {text, found} \subseteq [Paths -> FileTexts \cup {Nothing}]
    BY <1>2, Texts
  <2>3. /\ pc = "idle" /\ run = Nothing /\ batch = 1 /\ out = {} /\ answer = Nothing
        /\ todo = {} /\ edited = {} /\ parsed \in BOOLEAN /\ gone = {}
    BY DEF Init
  <2> QED
    BY <1>1, <2>1, <2>2, <2>3 DEF TypeOK
<1>4. PassInv /\ OutInv /\ FinishedInv /\ FitInv
  BY DEF Init, PassInv, OutInv, FinishedInv, FitInv, AnswersFit, Through, Passes, Surfaced
<1>5. WalkInv
  <2>1. pc = "idle" /\ todo = {} /\ edited = {} /\ runs = 0
    BY DEF Init
  <2>2. \A x \in Paths : text[x] # Nothing => x[2] <= runs
    BY <1>2, <2>1
  <2>3. \A f \in KconfigFiles : text[<<f, 0>>] # Nothing
    BY <1>2, Texts
  <2> QED
    BY <2>1, <2>2, <2>3 DEF WalkInv
<1>6. TreeInv
  BY <1>2, PathsAre DEF Init, TreeInv
<1> QED
  BY <1>3, <1>4, <1>5, <1>6 DEF IInv

\* Step by step, the types.
LEMMA NextType == IInv /\ [Next]_vars => TypeOK'
<1> SUFFICES ASSUME IInv, [Next]_vars PROVE TypeOK'
  OBVIOUS
<1>0. TypeOK /\ PassInv /\ WalkInv
  BY DEF IInv
<1> USE DEF walk
\* What the commands leave on disk, and what a run has in memory.
<1> DEFINE DiskOK == text \in [Paths -> FileTexts \cup {Nothing}]
                     /\ found \in [Paths -> FileTexts \cup {Nothing}]
           CacheOK == \A k \in DOMAIN cache :
                        cache[k] \in [whole : BOOLEAN, proposals : SUBSET Proposals]
           RunOK == /\ pc \in {"idle", "walk", "rewrite", "restore", "give_up", "write"} \cup Passes
                    /\ pc = "idle" <=> run = Nothing
                    /\ batch \in Nat \ {0}
                    /\ out \subseteq Proposals /\ (answer = Nothing \/ answer \subseteq Proposals)
                    /\ parsed \in BOOLEAN
           SetsOK == todo \subseteq Paths /\ edited \subseteq Paths /\ gone \subseteq Symbols
<1>s. /\ DiskOK /\ CacheOK /\ RunOK /\ SetsOK /\ runs \in 0..MaxRuns
      /\ DiskOK' /\ CacheOK' /\ RunOK' /\ SetsOK' /\ runs' \in 0..MaxRuns => TypeOK'
  BY <1>0 DEF TypeOK
<1>c. UNCHANGED cache => CacheOK'
  BY <1>s
<1>d. UNCHANGED <<text, found>> => DiskOK'
  BY <1>s
<1>r. UNCHANGED runs => runs' \in 0..MaxRuns
  BY <1>s
<1>i. ASSUME Idle PROVE RunOK' /\ SetsOK'
  <2>1. pc' = "idle" /\ run' = Nothing /\ batch' = 1 /\ answer' = Nothing /\ out' = {}
    BY <1>i DEF Idle
  <2>2. todo' = {} /\ edited' = {} /\ parsed' \in BOOLEAN /\ gone' = {}
    BY <1>i DEF Idle
  <2> QED
    BY <2>1, <2>2
<1>n. Nothing \notin Options /\ (pc \in Passes => pc # "idle")
  BY ProposeAssumption DEF Passes, Surfaced
<1>x. /\ \A x \in todo : x \in Paths /\ text[x] \in FileTexts
      /\ pc # "idle" => \A x \in edited :
           x \in Paths /\ Backup(x) \in Paths /\ text[Backup(x)] \in FileTexts
  <2>1. \A x \in todo : x \in Paths /\ text[x] # Nothing
    BY <1>0, <1>s DEF WalkInv
  <2>2. \A x \in edited : x \in Paths /\ found[x] # Nothing /\ text[Backup(x)] # Nothing
    BY <1>0, <1>s DEF WalkInv
  <2>3. pc # "idle" => \A x \in edited : Backup(x) \in Paths
    BY <1>0, <2>2, BackupPath
  <2> QED
    BY <1>s, <2>1, <2>2, <2>3
\* One file of the tree is written, or two.
<1>u. \A x, y : \A c, d \in FileTexts \cup {Nothing} :
        /\ [text EXCEPT ![x] = c] \in [Paths -> FileTexts \cup {Nothing}]
        /\ [text EXCEPT ![x] = c, ![y] = d] \in [Paths -> FileTexts \cup {Nothing}]
  BY <1>s
<1>k. ASSUME NEW key, NEW whole \in BOOLEAN, NEW proposals \in SUBSET Proposals,
             Keep(key, whole, proposals)
      PROVE  CacheOK'
  <2> SUFFICES ASSUME NEW k \in DOMAIN cache'
               PROVE  cache'[k] \in [whole : BOOLEAN, proposals : SUBSET Proposals]
    OBVIOUS
  <2>0. [whole |-> whole, proposals |-> proposals] \in [whole : BOOLEAN, proposals : SUBSET Proposals]
    OBVIOUS
  <2>k. /\ DOMAIN cache' = DOMAIN cache \cup {key}
        /\ cache'[key] = [whole |-> whole, proposals |-> proposals]
        /\ \A j \in DOMAIN cache \ {key} : cache'[j] = cache[j]
    BY <1>k, KeepType
  <2>1. CASE k = key
    BY <2>0, <2>1, <2>k
  <2>2. CASE k # key
    BY <1>s, <2>2, <2>k
  <2> QED
    BY <2>1, <2>2
<1> HIDE DEF CacheOK
<1>1. ASSUME NEW o \in Options, Start(o)
      PROVE  TypeOK'
  <2>1. Deterministic(o) \subseteq Proposals
    BY DeterministicType
  <2>2. RunOK' /\ SetsOK'
    BY <1>1, <1>s, <1>n, <2>1 DEF Start, Passes
  <2>3. runs' \in 0..MaxRuns
    BY <1>1, <1>s, ProposeAssumption DEF Start
  <2>4. UNCHANGED cache /\ text' = text /\ found' = text
    BY <1>1 DEF Start
  <2>5. DiskOK'
    BY <1>s, <2>4
  <2> QED
    BY <1>s, <1>c, <2>2, <2>3, <2>4, <2>5
<1>2. CASE Replay
  <2>1. cache[Question].proposals \subseteq Proposals
    BY <1>2, <1>s DEF Replay, Cached, CacheOK
  <2>2. RunOK' /\ SetsOK'
    BY <1>2, <1>s, <2>1 DEF Replay
  <2>3. UNCHANGED <<cache, text, found, runs>>
    BY <1>2 DEF Replay
  <2> QED
    BY <1>s, <1>c, <1>d, <1>r, <2>2, <2>3
<1>3. ASSUME pc \in Passes, NEW decisions \in SUBSET Decisions[pc], Ask(decisions)
      PROVE  TypeOK'
  <2>1. Keep(Question, FALSE, {}) /\ UNCHANGED <<text, found, runs>>
    BY <1>3 DEF Ask
  <2>2. answer' \subseteq Proposals
    BY <1>0, <1>3, <1>n, FilteredType DEF Ask, PassInv
  <2>3. RunOK' /\ SetsOK'
    BY <1>3, <1>s, <2>2 DEF Ask
  <2>4. CacheOK'
    BY <1>k, <2>1
  <2> QED
    BY <1>s, <1>d, <1>r, <2>1, <2>3, <2>4
<1>4. CASE Save
  <2>1. Keep(Question, TRUE, answer) /\ answer \subseteq Proposals
        /\ UNCHANGED <<text, found, runs>>
    BY <1>4, <1>s DEF Save
  <2>2. RunOK' /\ SetsOK'
    BY <1>4, <1>s, <2>1 DEF Save
  <2>3. CacheOK'
    BY <1>k, <2>1
  <2> QED
    BY <1>s, <1>d, <1>r, <2>1, <2>2, <2>3
<1>5. CASE AskFails \/ NoSource
  BY <1>5, <1>s, <1>c, <1>d, <1>r, <1>i DEF AskFails, NoSource
<1>6. CASE EndPass
  <2>1. pc' \in {"write", "walk", "toggles", "tunables"}
    BY <1>6 DEF EndPass, After, Passes, Surfaced
  <2>2. RunOK' /\ SetsOK'
    BY <1>6, <1>s, <1>n, <2>1 DEF EndPass, Passes, Surfaced
  <2>3. UNCHANGED <<cache, text, found, runs>>
    BY <1>6 DEF EndPass
  <2> QED
    BY <1>s, <1>c, <1>d, <1>r, <2>2, <2>3
<1>7. CASE FindUnsupported
  <2>1. todo' \subseteq Paths
    BY <1>7 DEF FindUnsupported
  <2>2. RunOK' /\ SetsOK'
    BY <1>7, <1>s, <2>1 DEF FindUnsupported
  <2>3. UNCHANGED <<cache, text, found, runs>>
    BY <1>7 DEF FindUnsupported
  <2> QED
    BY <1>s, <1>c, <1>d, <1>r, <2>2, <2>3
<1>8. CASE Parse \/ EndWalk
  <2>1. gone' \subseteq Symbols
    <3>1. \A f \in KconfigFiles : text[<<f, 0>>] \in FileTexts
      <4>1. \A f \in KconfigFiles : <<f, 0>> \in Paths /\ text[<<f, 0>>] # Nothing
        BY <1>0, PathsAre DEF WalkInv
      <4>2. \A x \in Paths : text[x] \in FileTexts \cup {Nothing}
        BY <1>s
      <4> QED
        BY <4>1, <4>2
    <3>2. \A c \in FileTexts : c.lost \subseteq Symbols
      BY DEF FileTexts
    <3>3. UNION {text[<<f, 0>>].lost : f \in KconfigFiles} \subseteq Symbols
      BY <3>1, <3>2
    <3> QED
      BY <1>8, <1>s, <3>3 DEF Parse, EndWalk
  <2>2. RunOK' /\ todo' \subseteq Paths /\ edited' \subseteq Paths
    BY <1>8, <1>s DEF Parse, EndWalk, Passes, Surfaced
  <2>3. UNCHANGED <<cache, text, found, runs>>
    BY <1>8 DEF Parse, EndWalk
  <2> QED
    BY <1>s, <1>c, <1>d, <1>r, <2>1, <2>2, <2>3
<1>9. ASSUME NEW x \in Paths, Rewrite(x)
      PROVE  TypeOK'
  <2>1. RunOK' /\ SetsOK' /\ UNCHANGED <<cache, found, runs>>
    BY <1>9, <1>s DEF Rewrite
  <2>2. text[x] \in FileTexts /\ Stripped(text[x]) \in FileTexts
    BY <1>9, <1>x, Texts DEF Rewrite
  <2>3. \/ text' = text
        \/ text' = [text EXCEPT ![Backup(x)] = text[x], ![x] = Stripped(text[x])]
    BY <1>9 DEF Rewrite
  <2>4. DiskOK'
    BY <1>s, <1>u, <2>1, <2>2, <2>3
  <2> QED
    BY <1>s, <1>c, <1>r, <2>1, <2>4
<1>10. ASSUME NEW x \in Paths, RewriteFails(x)
       PROVE  TypeOK'
  <2>1. RunOK' /\ SetsOK' /\ UNCHANGED <<cache, found, runs>>
    BY <1>10, <1>s DEF RewriteFails
  <2>2. text[x] \in FileTexts /\ \A h \in Halves : h \in FileTexts
    BY <1>10, <1>x, Texts DEF RewriteFails
  <2>3. \/ text' = text
        \/ text' = [text EXCEPT ![Backup(x)] = text[x]]
        \/ \E h \in Halves : \/ text' = [text EXCEPT ![Backup(x)] = text[x], ![x] = h]
                             \/ text' = [text EXCEPT ![Backup(x)] = h, ![x] = h]
                             \/ text' = [text EXCEPT ![x] = h]
    BY <1>10 DEF RewriteFails
  <2>4. DiskOK'
    BY <1>s, <1>u, <2>1, <2>2, <2>3
  <2> QED
    BY <1>s, <1>c, <1>r, <2>1, <2>4
<1>11. ASSUME NEW x \in Paths, Restore(x)
       PROVE  TypeOK'
  <2>1. RunOK' /\ SetsOK' /\ UNCHANGED <<cache, found, runs>> /\ pc # "idle"
    BY <1>11, <1>s DEF Restore
  <2>2. text[Backup(x)] \in FileTexts /\ \A h \in Halves : h \in FileTexts
    BY <1>11, <1>x, <2>1, Texts DEF Restore
  <2>3. \/ text' = [text EXCEPT ![x] = text[Backup(x)], ![Backup(x)] = Nothing]
        \/ \E h \in Halves : text' = [text EXCEPT ![x] = h]
    BY <1>11 DEF Restore
  <2>4. DiskOK'
    BY <1>s, <1>u, <2>1, <2>2, <2>3
  <2> QED
    BY <1>s, <1>c, <1>r, <2>1, <2>4
<1>12. CASE Write
  BY <1>12, <1>s, <1>c, <1>d, <1>r, <1>i DEF Write
<1>13. CASE Kill
  <2>1. RunOK' /\ SetsOK' /\ UNCHANGED <<cache, found, runs>> /\ pc # "idle"
    BY <1>13, <1>i DEF Kill
  <2>2. \A h \in Halves : h \in FileTexts
    BY Texts
  <2>3. ASSUME NEW x \in todo, NEW h \in Halves,
               \/ text' = [text EXCEPT ![Backup(x)] = h]
               \/ text' = [text EXCEPT ![Backup(x)] = text[x]]
               \/ text' = [text EXCEPT ![Backup(x)] = text[x], ![x] = h]
        PROVE  DiskOK'
    BY <1>s, <1>u, <1>x, <2>1, <2>2, <2>3
  <2>4. ASSUME NEW x \in edited, NEW h \in Halves,
               \/ text' = [text EXCEPT ![x] = h]
               \/ text' = [text EXCEPT ![x] = text[Backup(x)]]
        PROVE  DiskOK'
    BY <1>s, <1>u, <1>x, <2>1, <2>2, <2>4
  <2>5. DiskOK'
    BY <1>13, <1>d, <2>1, <2>3, <2>4 DEF Kill
  <2> QED
    BY <1>s, <1>c, <1>r, <2>1, <2>5
<1>14. CASE UNCHANGED vars
  BY <1>14, <1>s, <1>c, <1>d, <1>r DEF vars
<1> QED
  BY <1>1, <1>2, <1>3, <1>4, <1>5, <1>6, <1>7, <1>8, <1>9, <1>10, <1>11, <1>12, <1>13, <1>14 DEF Next

\* No step changes an answer that is kept.
LEMMA CacheGrows == IInv /\ [Next]_vars => Grows
<1> SUFFICES ASSUME IInv, [Next]_vars PROVE Grows
  OBVIOUS
<1>1. ASSUME NEW decisions, Ask(decisions)
      PROVE  Grows
  <2>1. Keep(Question, FALSE, {}) /\ ~Cached(Question)
    BY <1>1 DEF Ask
  <2> QED
    BY <2>1, KeepGrows
<1>2. CASE Save
  <2>1. Keep(Question, TRUE, answer) /\ ~Cached(Question)
    BY <1>2 DEF Save, IInv, PassInv, Question, KeyOf
  <2> QED
    BY <2>1, KeepGrows
<1>3. CASE ~Save /\ \A decisions : ~Ask(decisions)
  <2>1. cache' = cache
    BY <1>3 DEF Next, Start, Replay, AskFails, EndPass, NoSource, FindUnsupported, Parse, EndWalk,
       Rewrite, RewriteFails, Restore, Write, Kill, vars
  <2> QED
    BY <2>1, SameGrows
<1> QED
  BY <1>1, <1>2, <1>3

LEMMA StaysComplete ==
  ASSUME Grows, NEW o, NEW g, NEW pass, Complete(o, g, pass)
  PROVE  /\ Complete(o, g, pass)'
         /\ Contents(o, g, pass, Numbers(o, g, pass))' = Contents(o, g, pass, Numbers(o, g, pass))
BY SameContents DEF Complete

\* Where a run is.
LEMMA NextPass == IInv /\ [Next]_vars => PassInv'
<1> SUFFICES ASSUME IInv, [Next]_vars PROVE PassInv'
  OBVIOUS
<1>0. TypeOK /\ PassInv /\ Grows
  BY CacheGrows DEF IInv
<1> USE DEF walk
<1> DEFINE PassedOK == pc \in Passes => \A i \in 1..(batch - 1) :
                         i <= Len(Batches(run, gone, pc)) /\ Cached(KeyOf(run, gone, pc, i))
<1>b. batch \in Nat \ {0}
  BY <1>0 DEF TypeOK
<1>t. ASSUME UNCHANGED <<run, gone>> PROVE \A pass \in Through : Complete(run, gone, pass)'
  BY <1>0, <1>t, StaysComplete DEF PassInv
<1>p. ASSUME UNCHANGED <<run, gone, pc, batch>> PROVE PassedOK'
  BY <1>0, <1>p DEF PassInv, Grows
<1>i. ASSUME Idle PROVE PassInv'
  BY <1>i DEF Idle, PassInv, Through, Passes, Surfaced
\* A batch is added to those passed.
<1>q. ASSUME pc \in Passes, batch <= Len(Batches(run, gone, pc)),
             NEW key, key = KeyOf(run, gone, pc, batch), Cached(key)', batch' = batch + 1,
             answer' = Nothing, UNCHANGED <<run, gone, pc, parsed>>
      PROVE  PassInv'
  <2>1. 1..(batch' - 1) = 1..(batch - 1) \cup {batch}
    BY <1>b, <1>q
  <2>2. \A i \in 1..(batch - 1) : i <= Len(Batches(run, gone, pc)) /\ Cached(KeyOf(run, gone, pc, i))'
    BY <1>0, <1>q DEF PassInv, Grows
  <2>3. PassedOK'
    <3> SUFFICES ASSUME NEW i \in 1..(batch' - 1)
                 PROVE  (i <= Len(Batches(run, gone, pc)))' /\ Cached(KeyOf(run, gone, pc, i))'
      OBVIOUS
    <3>1. CASE i = batch
      BY <1>q, <3>1
    <3>2. CASE i # batch
      BY <1>q, <2>1, <2>2, <3>2
    <3> QED
      BY <3>1, <3>2
  <2>4. Through' = Through
    BY <1>q DEF Through
  <2> HIDE DEF PassedOK
  <2> QED
    BY <1>0, <1>q, <1>t, <2>3, <2>4 DEF PassInv, PassedOK
\* A step of the walk that leads to another.
<1>w. ASSUME pc \in {"walk", "rewrite", "restore", "give_up"},
             pc' \in {"walk", "rewrite", "restore", "give_up"},
             UNCHANGED <<run, gone, batch, answer, parsed>>
      PROVE  PassInv'
  <2>1. Through' = Through
    BY <1>w DEF Through
  <2> QED
    BY <1>0, <1>w, <1>t, <2>1 DEF PassInv, Passes, Surfaced
<1> HIDE DEF PassedOK
<1>1. ASSUME NEW o \in Options, Start(o)
      PROVE  PassInv'
  <2>1. pc = "idle" /\ batch = 1 /\ answer = Nothing /\ ~parsed
    BY <1>0, <1>1 DEF Start, PassInv, Passes, Surfaced
  <2>2. /\ pc' = "modules" /\ run' = o /\ batch' = 1 /\ answer' = Nothing /\ parsed' = parsed
    BY <1>1, <2>1 DEF Start
  <2>4. Through' = {} /\ 1..(batch' - 1) = {}
    BY <2>2 DEF Through
  <2> QED
    BY <2>1, <2>2, <2>4 DEF PassInv, Surfaced
<1>2. CASE Replay
  <2>1. pc \in Passes /\ batch <= Len(Batches(run, gone, pc)) /\ answer = Nothing
    BY <1>2 DEF Replay, Asking
  <2>2. PICK key : key = KeyOf(run, gone, pc, batch) /\ Cached(key)'
    BY <1>0, <1>2 DEF Replay, Question, KeyOf, Grows
  <2>3. batch' = batch + 1 /\ answer' = Nothing /\ UNCHANGED <<run, gone, pc, parsed>>
    BY <1>2, <2>1 DEF Replay
  <2> QED
    BY <1>q, <2>1, <2>2, <2>3
<1>3. ASSUME NEW decisions, Ask(decisions)
      PROVE  PassInv'
  <2>1. PICK key : /\ key = KeyOf(run, gone, pc, batch) /\ Keep(key, FALSE, {})
                    /\ pc \in Passes /\ batch <= Len(Batches(run, gone, pc))
    BY <1>3 DEF Ask, Asking, Question, KeyOf
  <2>2. UNCHANGED <<pc, run, gone, batch, parsed>>
    BY <1>3 DEF Ask
  <2>3. ~Cached(KeyOf(run, gone, pc, batch))'
    <3>1. Keep(key, FALSE, {})
      BY <2>1
    <3>2. cache'[key] = [whole |-> FALSE, proposals |-> {}]
      BY <3>1, KeepType
    <3>3. ~Cached(key)'
      BY <3>2 DEF Cached
    <3> QED
      BY <2>1, <2>2, <3>3
  <2>4. PassedOK'
    BY <1>p, <2>2
  <2>5. Through' = Through
    BY <2>2 DEF Through
  <2> QED
    BY <1>0, <1>t, <2>1, <2>2, <2>3, <2>4, <2>5 DEF PassInv, PassedOK
<1>4. CASE Save
  <2>1. pc \in Passes /\ batch <= Len(Batches(run, gone, pc))
    BY <1>0, <1>4 DEF Save, PassInv
  <2>2. PICK key : key = KeyOf(run, gone, pc, batch) /\ Keep(key, TRUE, answer) /\ ~Cached(key)
    BY <1>0, <1>4 DEF Save, PassInv, Question, KeyOf
  <2>3. Cached(key)'
    BY <2>2, KeepGrows
  <2>4. batch' = batch + 1 /\ answer' = Nothing /\ UNCHANGED <<run, gone, pc, parsed>>
    BY <1>4 DEF Save
  <2> QED
    BY <1>q, <2>1, <2>2, <2>3, <2>4
<1>5. CASE AskFails \/ NoSource \/ Write \/ Kill
  BY <1>5, <1>i DEF AskFails, NoSource, Write, Kill
<1>6. CASE EndPass
  <2>1. /\ pc \in Passes /\ answer = Nothing /\ ~(batch <= Len(Batches(run, gone, pc)))
        /\ pc' = After(pc) /\ batch' = 1 /\ UNCHANGED <<run, gone, answer, parsed>>
    BY <1>6 DEF EndPass, Asking
  <2>2. Complete(run, gone, pc)
    BY <1>0, <1>b, <2>1, PassEnds DEF PassInv
  <2>3. \A pass \in Through \cup {pc} : Complete(run, gone, pass)'
    BY <1>0, <1>t, <2>1, <2>2, StaysComplete
  <2>4. /\ pc = "modules" => ~parsed /\ pc' \in {"walk", "write"}
        /\ pc = "choices" => pc' = "toggles"
        /\ pc = "toggles" => pc' = "tunables"
        /\ pc = "tunables" => pc' = "write"
        /\ pc \in Surfaced => parsed
    BY <1>0, <2>1 DEF After, PassInv
  <2>5. Through' = Through \cup {pc}
    BY <2>1, <2>4 DEF Through, Passes, Surfaced, Made
  <2>6. 1..(batch' - 1) = {}
    BY <2>1
  <2>8. pc' # "idle" /\ pc # "idle"
    BY <2>1, <2>4 DEF Passes, Surfaced
  <2> QED
    BY <1>0, <2>1, <2>3, <2>4, <2>5, <2>6, <2>8 DEF PassInv, Passes, Surfaced
<1>7. CASE FindUnsupported
  BY <1>7, <1>w DEF FindUnsupported
<1>11. CASE Parse
  <2>1. /\ pc = "rewrite" /\ pc' \in {"restore", "give_up"}
        /\ UNCHANGED <<run, batch, answer, parsed, cache>>
    BY <1>11 DEF Parse
  <2>2. Through = {"modules"} /\ Through' = {"modules"}
    BY <2>1 DEF Through
  <2>3. Complete(run, gone, "modules")
    BY <1>0, <2>2 DEF PassInv
  <2>4. Complete(run, gone', "modules")
    BY <2>3, ModulesSame
  <2>5. Complete(run, gone, "modules")'
    BY <2>1, <2>4 DEF Complete, Cached
  <2> QED
    BY <1>0, <2>1, <2>2, <2>5 DEF PassInv, Passes, Surfaced
<1>8. ASSUME NEW x \in Paths, Rewrite(x) \/ RewriteFails(x) \/ Restore(x)
      PROVE  PassInv'
  BY <1>8, <1>w DEF Rewrite, RewriteFails, Restore
<1>9. CASE EndWalk
  <2>1. /\ pc \in {"restore", "give_up"} /\ UNCHANGED <<run, gone, batch, answer>>
        /\ \/ pc' = "choices" /\ parsed'
           \/ pc' = "write" /\ ~parsed'
    BY <1>9 DEF EndWalk
  <2>2. batch' = 1 /\ answer' = Nothing /\ run' \in Options
    BY <1>0, <2>1 DEF PassInv, Passes, Surfaced
  <2>3. Through' = Through
    BY <2>1 DEF Through, Made
  <2>5. 1..(batch' - 1) = {}
    BY <2>2
  <2> QED
    BY <1>t, <2>1, <2>2, <2>3, <2>5 DEF PassInv, Surfaced
<1>10. CASE UNCHANGED vars
  BY <1>0, <1>10 DEF vars, PassInv, Through, Complete, Cached
<1> QED
  BY <1>1, <1>2, <1>3, <1>4, <1>5, <1>6, <1>7, <1>8, <1>9, <1>10, <1>11 DEF Next

\* A run has collected what is kept of the batches it has passed.
LEMMA NextOut == IInv /\ [Next]_vars => OutInv'
<1> SUFFICES ASSUME IInv, [Next]_vars PROVE OutInv'
  OBVIOUS
<1>0. TypeOK /\ PassInv /\ OutInv /\ Grows
  BY CacheGrows DEF IInv
<1> USE DEF walk
<1> DEFINE Past(o, ps) == UNION {Contents(o, gone, pass, Numbers(o, gone, pass)) : pass \in ps}
<1>b. batch \in Nat \ {0}
  BY <1>0 DEF TypeOK
<1>o. OutInv <=> (pc # "idle" => out = Deterministic(run) \cup Past(run, Through) \cup Current)
  BY DEF OutInv
<1>n. OutInv' <=> (pc' # "idle" =>
                     out' = Deterministic(run') \cup Past(run, Through)' \cup Current')
  BY DEF OutInv
<1>t. ASSUME UNCHANGED <<run, gone, Through>> PROVE Past(run, Through)' = Past(run, Through)
  <2>1. \A pass \in Through :
          Contents(run, gone, pass, Numbers(run, gone, pass))' = Contents(run, gone, pass, Numbers(run, gone, pass))
    BY <1>0, <1>t, StaysComplete DEF PassInv
  <2> QED
    BY <1>t, <2>1
<1>c. ASSUME UNCHANGED <<run, gone, pc, batch>> PROVE Current' = Current
  <2>1. CASE pc \in Passes
    <3>1. \A i \in 1..(batch - 1) : Cached(KeyOf(run, gone, pc, i))
      BY <1>0, <2>1 DEF PassInv
    <3>2. Contents(run, gone, pc, 1..(batch - 1))' = Contents(run, gone, pc, 1..(batch - 1))
      BY <1>0, <1>c, <3>1, SameContents
    <3> QED
      BY <1>c, <2>1, <3>2 DEF Current
  <2>2. CASE pc \notin Passes
    BY <1>c, <2>2 DEF Current
  <2> QED
    BY <2>1, <2>2
<1> HIDE DEF Past
\* A step of which the run keeps its place or moves within the walk.
<1>s. ASSUME UNCHANGED <<run, gone, out, Through>>, Current' = Current, pc # "idle"
      PROVE  OutInv'
  BY <1>0, <1>o, <1>n, <1>s, <1>t
<1>w. ASSUME UNCHANGED <<run, gone, out, Through>>, pc \notin Passes, pc # "idle",
             pc' \notin Passes \/ batch' = 1
      PROVE  OutInv'
  <2>1. batch' = 1 => 1..(batch' - 1) = {}
    OBVIOUS
  <2>2. Current = {} /\ Current' = {}
    BY <1>w, <2>1 DEF Current, Contents
  <2> QED
    BY <1>s, <1>w, <2>2
<1>q. ASSUME pc \in Passes, NEW key, key = KeyOf(run, gone, pc, batch),
             out' = out \cup cache'[key].proposals, batch' = batch + 1, UNCHANGED <<run, gone, pc, parsed>>
      PROVE  OutInv'
  <2>1. Through' = Through /\ pc # "idle"
    BY <1>q DEF Through, Passes, Surfaced
  <2>2. 1..(batch' - 1) = 1..(batch - 1) \cup {batch}
    BY <1>b, <1>q
  <2>3. Current = Contents(run, gone, pc, 1..(batch - 1))
    BY <1>q DEF Current
  <2>4. \A i \in 1..(batch - 1) :
          cache'[KeyOf(run, gone, pc, i)].proposals = cache[KeyOf(run, gone, pc, i)].proposals
    BY <1>0, <1>q DEF PassInv, Grows
  <2>5. Current' = UNION {cache'[KeyOf(run, gone, pc, i)].proposals : i \in 1..(batch' - 1)}
    BY <1>q DEF Current, Contents
  <2>6. Current = UNION {cache[KeyOf(run, gone, pc, i)].proposals : i \in 1..(batch - 1)}
    BY <2>3 DEF Contents
  <2>7. Current' = Current \cup cache'[key].proposals
    BY <1>q, <2>2, <2>4, <2>5, <2>6
  <2>8. Past(run, Through)' = Past(run, Through)
    BY <1>q, <1>t, <2>1
  <2>9. out = Deterministic(run) \cup Past(run, Through) \cup Current
    BY <1>0, <1>o, <2>1
  <2> QED
    BY <1>n, <1>q, <2>7, <2>8, <2>9
<1>i. ASSUME Idle PROVE OutInv'
  BY <1>i DEF Idle, OutInv
<1>1. ASSUME NEW o \in Options, Start(o)
      PROVE  OutInv'
  <2>1. pc = "idle" /\ batch = 1
    BY <1>0, <1>1 DEF Start, PassInv, Passes, Surfaced
  <2>2. pc' = "modules" /\ run' = o /\ batch' = 1 /\ out' = Deterministic(run')
    BY <1>1, <2>1 DEF Start
  <2>3. Through' = {} /\ 1..(batch' - 1) = {}
    BY <2>2 DEF Through
  <2>4. Current' = {} /\ Past(run, Through)' = {}
    BY <2>3 DEF Current, Contents, Past
  <2> QED
    BY <1>n, <2>2, <2>4
<1>2. CASE Replay
  <2>1. PICK key : key = KeyOf(run, gone, pc, batch) /\ Cached(key) /\ out' = out \cup cache[key].proposals
    BY <1>2 DEF Replay, Question, KeyOf
  <2>2. cache'[key] = cache[key]
    BY <1>0, <2>1 DEF Grows
  <2>3. pc \in Passes /\ batch' = batch + 1 /\ UNCHANGED <<run, gone, pc, parsed>>
    BY <1>2 DEF Replay, Asking
  <2> QED
    BY <1>q, <2>1, <2>2, <2>3
<1>3. ASSUME NEW decisions, Ask(decisions)
      PROVE  OutInv'
  <2>1. UNCHANGED <<run, gone, pc, batch, out, parsed>> /\ pc # "idle"
    BY <1>3 DEF Ask, Asking, Passes, Surfaced
  <2>2. Through' = Through
    BY <2>1 DEF Through
  <2> QED
    BY <1>c, <1>s, <2>1, <2>2
<1>4. CASE Save
  <2>1. PICK key : key = KeyOf(run, gone, pc, batch) /\ Keep(key, TRUE, answer) /\ ~Cached(key)
    BY <1>0, <1>4 DEF Save, PassInv, Question, KeyOf
  <2>2. cache'[key].proposals = answer
    BY <2>1, KeepGrows
  <2>3. /\ pc \in Passes /\ batch' = batch + 1 /\ out' = out \cup answer
        /\ UNCHANGED <<run, gone, pc, parsed>>
    BY <1>0, <1>4 DEF Save, PassInv
  <2> QED
    BY <1>q, <2>1, <2>2, <2>3
<1>5. CASE AskFails \/ NoSource \/ Write \/ Kill
  BY <1>5, <1>i DEF AskFails, NoSource, Write, Kill
<1>6. CASE EndPass
  <2>1. /\ pc \in Passes /\ answer = Nothing /\ ~(batch <= Len(Batches(run, gone, pc)))
        /\ pc' = After(pc) /\ batch' = 1 /\ UNCHANGED <<run, gone, out, parsed, cache>>
    BY <1>6 DEF EndPass, Asking
  <2>2. Complete(run, gone, pc) /\ Numbers(run, gone, pc) = 1..(batch - 1)
    BY <1>0, <1>b, <2>1, PassEnds DEF PassInv
  <2>3. /\ pc = "modules" => ~parsed /\ pc' \in {"walk", "write"}
        /\ pc = "choices" => pc' = "toggles"
        /\ pc = "toggles" => pc' = "tunables"
        /\ pc = "tunables" => pc' = "write"
        /\ pc \in Surfaced => parsed
    BY <1>0, <2>1 DEF After, PassInv
  <2>4. Through' = Through \cup {pc}
    BY <2>1, <2>3 DEF Through, Passes, Surfaced, Made
  <2>5. 1..(batch' - 1) = {}
    BY <2>1
  <2>6. Current' = {}
    BY <2>5 DEF Current, Contents
  <2>7. Current = Contents(run, gone, pc, Numbers(run, gone, pc))
    BY <2>1, <2>2 DEF Current
  <2>8. Past(run, Through)' = Past(run, Through) \cup Contents(run, gone, pc, Numbers(run, gone, pc))
    <3>1. Past(run, Through)' = UNION {Contents(run, gone, pass, Numbers(run, gone, pass)) : pass \in Through'}
      BY <2>1 DEF Past, Contents
    <3>2. Past(run, Through) = UNION {Contents(run, gone, pass, Numbers(run, gone, pass)) : pass \in Through}
      BY DEF Past
    <3> QED
      BY <2>4, <3>1, <3>2
  <2>9. out = Deterministic(run) \cup Past(run, Through) \cup Current
    BY <1>0, <1>o, <2>1 DEF Passes, Surfaced
  <2> QED
    BY <1>n, <2>1, <2>6, <2>7, <2>8, <2>9
<1>7. CASE FindUnsupported
  <2>1. pc = "walk" /\ pc' = "rewrite" /\ UNCHANGED <<run, gone, out, parsed>>
    BY <1>7 DEF FindUnsupported
  <2>2. Through' = Through
    BY <2>1 DEF Through
  <2> QED
    BY <1>w, <2>1, <2>2 DEF Passes, Surfaced
<1>11. CASE Parse
  <2>1. pc = "rewrite" /\ pc' \in {"restore", "give_up"} /\ UNCHANGED <<run, out, cache>>
    BY <1>11 DEF Parse
  <2>2. Through = {"modules"} /\ Through' = {"modules"} /\ Current = {} /\ Current' = {}
    BY <2>1 DEF Through, Current, Passes, Surfaced
  <2>3. Past(run, Through) = UNION {cache[KeyOf(run, gone, "modules", i)].proposals :
                                      i \in Numbers(run, gone, "modules")}
    BY <2>2 DEF Past, Contents
  <2>4. Past(run, Through)' = UNION {cache[KeyOf(run, gone', "modules", i)].proposals :
                                       i \in Numbers(run, gone', "modules")}
    BY <2>1, <2>2 DEF Past, Contents
  <2>5. Past(run, Through)' = Past(run, Through)
    BY <2>3, <2>4, ModulesSame
  <2> QED
    BY <1>0, <1>o, <1>n, <2>1, <2>2, <2>5
<1>8. ASSUME NEW x \in Paths, Rewrite(x) \/ RewriteFails(x) \/ Restore(x)
      PROVE  OutInv'
  <2>1. pc \in {"rewrite", "restore", "give_up"} /\ UNCHANGED <<run, gone, pc, out, parsed>>
    BY <1>8 DEF Rewrite, RewriteFails, Restore
  <2>2. Through' = Through
    BY <2>1 DEF Through
  <2> QED
    BY <1>w, <2>1, <2>2 DEF Passes, Surfaced
<1>9. CASE EndWalk
  <2>1. /\ pc \in {"restore", "give_up"} /\ UNCHANGED <<run, gone, batch, out>>
        /\ \/ pc' = "choices" /\ parsed'
           \/ pc' = "write" /\ ~parsed'
    BY <1>9 DEF EndWalk
  <2>2. Through' = Through
    BY <2>1 DEF Through, Made
  <2>3. batch' = 1
    BY <1>0, <2>1 DEF PassInv, Passes, Surfaced
  <2> QED
    BY <1>w, <2>1, <2>2, <2>3 DEF Passes, Surfaced
<1>10. CASE UNCHANGED vars
  BY <1>0, <1>10 DEF vars, OutInv, Through, Current, Contents
<1> QED
  BY <1>1, <1>2, <1>3, <1>4, <1>5, <1>6, <1>7, <1>8, <1>9, <1>10, <1>11 DEF Next

\* What a finished run has written stays what the cache has for it.
LEMMA NextFinished == IInv /\ [Next]_vars => FinishedInv'
<1> SUFFICES ASSUME IInv, [Next]_vars PROVE FinishedInv'
  OBVIOUS
<1>0. PassInv /\ OutInv /\ FinishedInv /\ Grows
  BY CacheGrows DEF IInv
<1> DEFINE Written(o, g, p, proposals) ==
             /\ \A pass \in Made(p) : Complete(o, g, pass)
             /\ proposals =
                  Deterministic(o)
                  \cup UNION {Contents(o, g, pass, Numbers(o, g, pass)) : pass \in Made(p)}
<1>1. ASSUME NEW o, NEW g, NEW p, NEW proposals, Written(o, g, p, proposals)
      PROVE  Written(o, g, p, proposals)'
  <2>1. \A pass \in Made(p) :
          /\ Complete(o, g, pass)'
          /\ Contents(o, g, pass, Numbers(o, g, pass))' = Contents(o, g, pass, Numbers(o, g, pass))
    BY <1>0, <1>1, StaysComplete
  <2> QED
    BY <1>1, <2>1
<1>2. \A f \in finished : Written(f.run, f.gone, f.parsed, f.proposals)
  BY <1>0 DEF FinishedInv
<1>3. \A o, g, p, proposals : Written(o, g, p, proposals) => Written(o, g, p, proposals)'
  BY <1>1
<1>4. CASE Write
  <2>1. pc = "write" /\ cache' = cache
        /\ finished' = finished \cup {[run |-> run, parsed |-> parsed, gone |-> gone, proposals |-> out]}
    BY <1>4 DEF Write
  <2>2. Through = Made(parsed) /\ Current = {}
    BY <2>1 DEF Through, Current, Passes, Surfaced
  <2>3. Written(run, gone, parsed, out)
    BY <1>0, <2>1, <2>2 DEF PassInv, OutInv
  <2>4. \A f \in finished' : Written(f.run, f.gone, f.parsed, f.proposals)
    BY <1>2, <2>1, <2>3
  <2>5. \A o, g, p, proposals : Written(o, g, p, proposals) =>
          /\ \A pass \in Made(p) : Complete(o, g, pass)'
          /\ proposals =
               Deterministic(o)
               \cup UNION {Contents(o, g, pass, Numbers(o, g, pass))' : pass \in Made(p)}
    BY <1>3
  <2> HIDE DEF Written
  <2> QED
    BY <2>4, <2>5 DEF FinishedInv
<1>5. CASE ~Write
  <2>1. finished' = finished
    BY <1>5 DEF Next, Start, Replay, Ask, Save, AskFails, EndPass, NoSource, FindUnsupported, Parse,
       EndWalk, Rewrite, RewriteFails, Restore, Kill, vars
  <2>2. \A o, g, p, proposals : Written(o, g, p, proposals) =>
          /\ \A pass \in Made(p) : Complete(o, g, pass)'
          /\ proposals =
               Deterministic(o)
               \cup UNION {Contents(o, g, pass, Numbers(o, g, pass))' : pass \in Made(p)}
    BY <1>3
  <2> HIDE DEF Written
  <2> QED
    BY <1>2, <2>1, <2>2 DEF FinishedInv
<1> QED
  BY <1>4, <1>5

\* Answers fit the questions they are kept for, and the run that has them.
LEMMA NextFit == IInv /\ [Next]_vars => FitInv'
<1> SUFFICES ASSUME IInv, [Next]_vars PROVE FitInv'
  OBVIOUS
<1>0. TypeOK /\ PassInv /\ OutInv /\ FitInv
  BY DEF IInv
<1> USE DEF walk
<1> DEFINE CacheFits == \A k \in DOMAIN cache : \A p \in cache[k].proposals : Replies(k, p)
           AnswerOK == answer # Nothing => \A p \in answer : Replies(KeyOf(run, gone, pc, batch), p)
           Kinds == {"modules", "toggles", "tunables"}
<1>s. CacheFits /\ AnswerOK /\ AnswersFit /\ (CacheFits' /\ AnswerOK' /\ AnswersFit' => FitInv')
  BY <1>0 DEF FitInv
<1>b. batch \in Nat \ {0}
  BY <1>0 DEF TypeOK
<1>r. pc # "idle" => run \in Options /\ run # Nothing
  BY <1>0 DEF PassInv, TypeOK
<1>c. UNCHANGED cache => CacheFits'
  BY <1>s
<1>o. UNCHANGED <<run, gone, out>> => AnswersFit'
  BY <1>s DEF AnswersFit, Fits
<1>i. ASSUME Idle PROVE AnswerOK' /\ AnswersFit'
  BY <1>i DEF Idle, AnswersFit
<1>k. ASSUME NEW key, NEW whole \in BOOLEAN, NEW proposals, Keep(key, whole, proposals),
             \A p \in proposals : Replies(key, p)
      PROVE  CacheFits'
  <2>1. /\ DOMAIN cache' = DOMAIN cache \cup {key}
        /\ cache'[key] = [whole |-> whole, proposals |-> proposals]
        /\ \A k \in DOMAIN cache \ {key} : cache'[k] = cache[k]
    BY <1>k, KeepType
  <2>2. cache'[key].proposals = proposals
    BY <2>1
  <2> QED
    BY <1>k, <1>s, <2>1, <2>2
\* The proposals of an answer to the question the run is at are collected.
<1>q. ASSUME pc \in Passes, batch <= Len(Batches(run, gone, pc)), NEW proposals,
             \A p \in proposals : Replies(KeyOf(run, gone, pc, batch), p),
             out' = out \cup proposals, UNCHANGED <<run, gone>>
      PROVE  AnswersFit'
  <2>1. run \in Options /\ run # Nothing
    BY <1>q, <1>r DEF Passes, Surfaced
  <2>2. ASSUME NEW p \in proposals, p.pass \in Kinds PROVE Fits(run, p)'
    <3>1. p.pass = pc
      BY <1>q, <2>2 DEF Replies, KeyOf, Key
    <3>2. pc \in Passes \ {"choices"}
      BY <1>q, <2>2, <3>1
    <3> QED
      <4>1. FitsAsked(run, gone, p)
        BY <1>b, <1>q, <2>1, <2>2, <3>2, AnswerFits
      <4> QED
        BY <1>q, <4>1 DEF FitsAsked, Fits
  <2>3. ASSUME NEW p \in out, p.pass \in Kinds PROVE Fits(run, p)'
    BY <1>q, <1>s, <2>1, <2>3 DEF AnswersFit, Fits
  <2> QED
    BY <1>q, <2>2, <2>3 DEF AnswersFit
\* A step of which the question and the answer stay, or there is no answer.
<1>w. ASSUME UNCHANGED <<run, gone, out, cache, answer>>, UNCHANGED <<pc, batch>> \/ answer = Nothing
      PROVE  FitInv'
  <2>1. AnswerOK'
    BY <1>s, <1>w DEF KeyOf
  <2> QED
    BY <1>c, <1>o, <1>s, <1>w, <2>1
<1> HIDE DEF CacheFits, AnswerOK
<1>1. ASSUME NEW o \in Options, Start(o)
      PROVE  FitInv'
  <2>1. answer' = Nothing /\ run' = o /\ out' = Deterministic(o) /\ UNCHANGED cache
    BY <1>0, <1>1 DEF Start, PassInv, Passes, Surfaced
  <2>2. \A p \in out' : p.pass = "rules"
    BY <2>1, DeterministicType
  <2> QED
    BY <1>c, <1>s, <2>1, <2>2 DEF AnswersFit, AnswerOK
<1>2. CASE Replay
  <2>1. /\ pc \in Passes /\ batch <= Len(Batches(run, gone, pc)) /\ answer = Nothing
        /\ UNCHANGED <<run, gone, answer, cache>>
    BY <1>2 DEF Replay, Asking
  <2>2. PICK key : key = KeyOf(run, gone, pc, batch) /\ key \in DOMAIN cache
                   /\ out' = out \cup cache[key].proposals
    BY <1>2 DEF Replay, Question, KeyOf, Cached
  <2>3. \A p \in cache[key].proposals : Replies(KeyOf(run, gone, pc, batch), p)
    BY <1>s, <2>2 DEF CacheFits
  <2>4. AnswersFit'
    BY <1>q, <2>1, <2>2, <2>3
  <2> QED
    BY <1>c, <1>s, <2>1, <2>4 DEF AnswerOK
<1>3. ASSUME pc \in Passes, NEW decisions \in SUBSET Decisions[pc], Ask(decisions)
      PROVE  FitInv'
  <2>1. /\ answer' = Filtered(run, pc, Batches(run, gone, pc)[batch], decisions)
        /\ Keep(KeyOf(run, gone, pc, batch), FALSE, {}) /\ UNCHANGED <<pc, run, gone, batch, out>>
    BY <1>3 DEF Ask, Question, KeyOf
  <2>2. run \in Options
    BY <1>3, <1>r DEF Passes, Surfaced
  <2>3. \A p \in answer' : Replies(KeyOf(run, gone, pc, batch), p)
    BY <1>3, <2>1, <2>2, FilteredAnswers DEF KeyOf
  <2>4. PICK key, none : none = {} /\ key = KeyOf(run, gone, pc, batch) /\ Keep(key, FALSE, none)
    BY <2>1
  <2>5. \A p \in none : Replies(key, p)
    BY <2>4
  <2>6. CacheFits'
    BY <1>k, <2>4, <2>5
  <2>7. AnswerOK'
    BY <2>1, <2>3 DEF AnswerOK, KeyOf
  <2> QED
    BY <1>o, <1>s, <2>1, <2>6, <2>7
<1>4. CASE Save
  <2>1. /\ answer # Nothing /\ pc \in Passes /\ batch <= Len(Batches(run, gone, pc))
        /\ answer' = Nothing /\ out' = out \cup answer /\ UNCHANGED <<run, gone>>
    BY <1>0, <1>4 DEF Save, PassInv
  <2>2. PICK key : key = KeyOf(run, gone, pc, batch) /\ Keep(key, TRUE, answer)
    BY <1>4 DEF Save, Question, KeyOf
  <2>3. \A p \in answer : Replies(KeyOf(run, gone, pc, batch), p)
    BY <1>s, <2>1 DEF AnswerOK
  <2>4. CacheFits'
    BY <1>k, <2>2, <2>3
  <2>5. AnswersFit'
    BY <1>q, <2>1, <2>3
  <2> QED
    BY <1>s, <2>1, <2>4, <2>5 DEF AnswerOK
<1>5. CASE AskFails \/ NoSource \/ Write \/ Kill
  BY <1>5, <1>c, <1>i, <1>s DEF AskFails, NoSource, Write, Kill
<1>6. CASE EndPass
  BY <1>6, <1>w DEF EndPass
<1>7. CASE FindUnsupported \/ EndWalk
  <2>1. pc \in {"walk", "restore", "give_up"} /\ UNCHANGED <<run, gone, out, cache, answer>>
    BY <1>7 DEF FindUnsupported, EndWalk
  <2>2. answer = Nothing
    BY <1>0, <2>1 DEF PassInv, Passes, Surfaced
  <2> QED
    BY <1>w, <2>1, <2>2
\* What there is before the walk is of the rules and the module pass, to which
\* it does not matter what is gone.
<1>10. CASE Parse
  <2>1. pc = "rewrite" /\ UNCHANGED <<run, out, cache, answer>>
    BY <1>10 DEF Parse
  <2>2. answer' = Nothing
    BY <1>0, <2>1 DEF PassInv, Passes, Surfaced
  <2>3. Through = {"modules"} /\ Current = {} /\ run \in Options
    BY <1>r, <2>1 DEF Through, Current, Passes, Surfaced
  <2>4. out = Deterministic(run) \cup Contents(run, gone, "modules", Numbers(run, gone, "modules"))
    <3>1. out = Deterministic(run)
                \cup (UNION {Contents(run, gone, pass, Numbers(run, gone, pass)) : pass \in {"modules"}})
      BY <1>0, <2>1, <2>3 DEF OutInv
    <3> QED
      BY <3>1
  <2>5. Complete(run, gone, "modules")
    BY <1>0, <2>3 DEF PassInv
  <2>6. ASSUME NEW p \in out PROVE p.pass \in {"rules", "modules"}
    <3>1. CASE p \in Deterministic(run)
      BY <2>3, <3>1, DeterministicType
    <3>2. CASE p \notin Deterministic(run)
      <4>1. PICK i \in Numbers(run, gone, "modules") :
              p \in cache[KeyOf(run, gone, "modules", i)].proposals
        BY <2>4, <2>6, <3>2 DEF Contents
      <4>2. KeyOf(run, gone, "modules", i) \in DOMAIN cache
        BY <2>5 DEF Complete, Cached
      <4>3. Replies(KeyOf(run, gone, "modules", i), p)
        BY <1>s, <4>1, <4>2 DEF CacheFits
      <4> QED
        BY <4>3 DEF Replies, KeyOf, Key
    <3> QED
      BY <3>1, <3>2
  <2>7. ASSUME NEW p \in out, p.pass = "modules", Fits(run, p) PROVE Fits(run, p)'
    <3>1. Questions(run, gone, "modules")' = Questions(run, gone, "modules")
      BY <2>1 DEF Questions
    <3> QED
      BY <2>1, <2>7, <3>1 DEF Fits
  <2>8. AnswersFit'
    BY <1>s, <2>1, <2>6, <2>7 DEF AnswersFit
  <2> QED
    BY <1>c, <1>s, <2>1, <2>2, <2>8 DEF AnswerOK
<1>8. ASSUME NEW x \in Paths, Rewrite(x) \/ RewriteFails(x) \/ Restore(x)
      PROVE  FitInv'
  BY <1>8, <1>w DEF Rewrite, RewriteFails, Restore
<1>9. CASE UNCHANGED vars
  BY <1>9, <1>w DEF vars
<1> QED
  BY <1>1, <1>2, <1>3, <1>4, <1>5, <1>6, <1>7, <1>8, <1>9, <1>10 DEF Next

\* A walk writes to files it came upon and to backups that were not there, and
\* what it is to rewrite, or has rewritten, is there.
LEMMA NextWalk == IInv /\ [Next]_vars => WalkInv'
<1> SUFFICES ASSUME IInv, [Next]_vars PROVE WalkInv'
  OBVIOUS
<1>0. TypeOK /\ WalkInv /\ runs \in Nat /\ runs <= MaxRuns /\ MaxRuns \in Nat
  BY PathsAre DEF IInv, TypeOK
<1>t. /\ text \in [Paths -> FileTexts \cup {Nothing}] /\ found \in [Paths -> FileTexts \cup {Nothing}]
      /\ todo \subseteq Paths /\ edited \subseteq Paths
  BY <1>0 DEF TypeOK
<1>f. \A f \in KconfigFiles : <<f, 0>> \in Paths
  BY PathsAre
<1>x. ASSUME NEW x \in todo \cup edited
      PROVE  /\ x \in Paths /\ found[x] # Nothing /\ pc # "idle"
             /\ Backup(x) \in Paths /\ Backup(x)[2] <= runs /\ Backup(x) # x
  <2>1. x \in Paths /\ found[x] # Nothing /\ pc # "idle"
    BY <1>0, <1>t DEF WalkInv
  <2> QED
    BY <1>0, <2>1, BackupPath, BackupsAre
<1> USE DEF walk
\* What is on disk: no file goes away, and no backup is of a level to come.
<1> DEFINE Levels == /\ \A f \in KconfigFiles : text[<<f, 0>>] # Nothing
                     /\ \A x \in Paths : text[x] # Nothing => x[2] <= runs
<1>l. Levels
  BY <1>0 DEF WalkInv
<1>d. UNCHANGED <<text, runs>> => Levels'
  BY <1>l
\* A file or its backup is written.
<1>w. ASSUME NEW x \in todo \cup edited, UNCHANGED runs,
             \/ text' = text
             \/ \E c \in FileTexts : text' = [text EXCEPT ![x] = c]
             \/ \E c \in FileTexts : text' = [text EXCEPT ![Backup(x)] = c]
             \/ \E c, d \in FileTexts : text' = [text EXCEPT ![Backup(x)] = c, ![x] = d]
      PROVE  Levels' /\ \A y \in Paths : text[y] # Nothing => text'[y] # Nothing
  <2>1. x \in Paths /\ Backup(x) \in Paths /\ Backup(x)[2] <= runs /\ x[2] <= runs
    <3>1. found[x] # Nothing /\ x \in Paths /\ pc # "idle" /\ Backup(x) \in Paths /\ Backup(x)[2] <= runs
      BY <1>x
    <3>2. x[2] < runs /\ x[2] \in 0..MaxRuns
      BY <1>0, <3>1, PathsAre DEF WalkInv
    <3> QED
      BY <1>0, <3>1, <3>2
  <2>2. Nothing \notin FileTexts
    BY Texts
  <2>3. \A y \in Paths : (text'[y] = text[y] \/ text'[y] \in FileTexts)
                         /\ (y # x /\ y # Backup(x) => text'[y] = text[y])
    BY <1>t, <1>w, <2>1
  <2>4. \A y \in Paths : text[y] # Nothing => text'[y] # Nothing
    BY <2>2, <2>3
  <2>5. \A y \in Paths : text'[y] # Nothing => y[2] <= runs
    BY <1>l, <2>1, <2>3
  <2> QED
    BY <1>f, <1>l, <1>w, <2>4, <2>5
<1> HIDE DEF Levels
<1>i. ASSUME Idle, Levels', UNCHANGED found PROVE WalkInv'
  BY <1>i DEF Idle, WalkInv, Levels
\* A step that writes no file, and adds to neither set.
<1>s. ASSUME UNCHANGED <<text, found, runs, todo, edited>>,
             pc # "idle", pc' = pc \/ (pc \notin {"rewrite"} /\ edited = {} /\ pc' \notin {"modules", "walk"})
      PROVE  WalkInv'
  BY <1>0, <1>s DEF WalkInv
<1>1. ASSUME NEW o \in Options, Start(o)
      PROVE  WalkInv'
  <2>1. /\ pc = "idle" /\ runs' = runs + 1 /\ pc' = "modules" /\ found' = text
        /\ UNCHANGED <<text, todo, edited>>
    BY <1>1 DEF Start
  <2>2. todo = {} /\ edited = {}
    BY <1>0, <2>1 DEF WalkInv
  <2>3. \A x \in Paths : text[x] # Nothing => x[2] < runs' /\ x[2] <= runs'
    <3> SUFFICES ASSUME NEW x \in Paths, text[x] # Nothing PROVE x[2] < runs' /\ x[2] <= runs'
      OBVIOUS
    <3>1. x[2] <= runs /\ x[2] \in 0..MaxRuns
      BY <1>0, PathsAre DEF WalkInv
    <3> QED
      BY <1>0, <2>1, <3>1
  <2> QED
    BY <1>0, <2>1, <2>2, <2>3 DEF WalkInv
<1>2. CASE Replay \/ Save
  <2>1. pc' = pc /\ UNCHANGED <<text, found, runs, todo, edited>>
    BY <1>2 DEF Replay, Save
  <2> QED
    BY <1>0, <2>1 DEF WalkInv
<1>3. ASSUME NEW decisions, Ask(decisions)
      PROVE  WalkInv'
  <2>1. pc' = pc /\ UNCHANGED <<text, found, runs, todo, edited>>
    BY <1>3 DEF Ask
  <2> QED
    BY <1>0, <2>1 DEF WalkInv
<1>4. CASE AskFails \/ NoSource \/ Write
  BY <1>4, <1>d, <1>i DEF AskFails, NoSource, Write
<1>5. CASE EndPass
  <2>1. pc \in Passes /\ pc' = After(pc) /\ UNCHANGED <<text, found, runs, todo, edited>>
    BY <1>5 DEF EndPass
  <2>2. \/ pc = "modules" /\ pc' \in {"walk", "write"}
        \/ pc \in Surfaced /\ pc' \in {"toggles", "tunables", "write"}
    BY <2>1 DEF After, Passes, Surfaced
  <2> QED
    BY <1>0, <2>1, <2>2 DEF WalkInv, Surfaced
<1>6. CASE FindUnsupported
  <2>1. /\ pc = "walk" /\ pc' = "rewrite" /\ UNCHANGED <<text, found, runs, edited>>
        /\ todo' = {x \in Paths : text[x] # Nothing /\ text[x].hit}
    BY <1>6 DEF FindUnsupported
  <2>2. edited = {} /\ found = text
    BY <1>0, <2>1 DEF WalkInv
  <2> QED
    BY <1>0, <2>1, <2>2 DEF WalkInv
<1>7. CASE Parse
  <2>1. /\ pc = "rewrite" /\ todo = {} /\ pc' \in {"restore", "give_up"}
        /\ UNCHANGED <<text, found, runs, todo, edited>>
    BY <1>7 DEF Parse
  <2> QED
    BY <1>0, <2>1 DEF WalkInv
<1>8. ASSUME NEW x \in Paths, Rewrite(x) \/ RewriteFails(x)
      PROVE  WalkInv'
  <2>1. /\ pc = "rewrite" /\ x \in todo /\ todo' = todo \ {x}
        /\ \/ edited' = edited
           \/ edited' = edited \cup {x} /\ text'[Backup(x)] # Nothing
        /\ UNCHANGED <<pc, found, runs>>
    <3>1. CASE RewriteFails(x)
      BY <3>1 DEF RewriteFails
    <3>2. CASE Rewrite(x) /\ ~Free(x)
      BY <3>2 DEF Rewrite
    <3>3. CASE Rewrite(x) /\ Free(x)
      <4>1. /\ text' = [text EXCEPT ![Backup(x)] = text[x], ![x] = Stripped(text[x])] /\ x \in todo
            /\ edited' = edited \cup {x}
        BY <3>3 DEF Rewrite
      <4>2. text[x] # Nothing /\ Backup(x) \in Paths /\ Backup(x) # x
        BY <1>0, <1>x, <4>1 DEF WalkInv
      <4>3. text'[Backup(x)] = text[x]
        BY <1>t, <4>1, <4>2
      <4> QED
        BY <3>3, <4>1, <4>2, <4>3 DEF Rewrite
    <3> QED
      BY <1>8, <3>1, <3>2, <3>3
  <2>2. text[x] \in FileTexts /\ Stripped(text[x]) \in FileTexts /\ \A h \in Halves : h \in FileTexts
    BY <1>0, <1>t, <2>1, Texts DEF WalkInv
  <2>3. \/ text' = text
        \/ \E c \in FileTexts : text' = [text EXCEPT ![x] = c]
        \/ \E c \in FileTexts : text' = [text EXCEPT ![Backup(x)] = c]
        \/ \E c, d \in FileTexts : text' = [text EXCEPT ![Backup(x)] = c, ![x] = d]
    <3>1. CASE Rewrite(x)
      BY <2>2, <3>1 DEF Rewrite
    <3>2. CASE RewriteFails(x)
      BY <2>2, <3>2 DEF RewriteFails
    <3> QED
      BY <1>8, <3>1, <3>2
  <2>4. Levels' /\ \A y \in Paths : text[y] # Nothing => text'[y] # Nothing
    BY <1>w, <2>1, <2>3
  <2>5. \A y \in edited : Backup(y) \in Paths
    BY <1>x
  <2>6. found[x] # Nothing
    BY <1>x, <2>1
  <2> QED
    BY <1>0, <1>t, <2>1, <2>4, <2>5, <2>6 DEF WalkInv, Levels
<1>9. ASSUME NEW x \in Paths, Restore(x)
      PROVE  WalkInv'
  <2>1. /\ pc \in {"restore", "give_up"} /\ x \in edited /\ edited' = edited \ {x}
        /\ UNCHANGED <<pc, found, runs, todo>>
    BY <1>9 DEF Restore
  <2>2. /\ Backup(x) \in Paths /\ Backup(x) # x /\ text[Backup(x)] \in FileTexts
        /\ \A h \in Halves : h \in FileTexts
    BY <1>0, <1>t, <1>x, <2>1, Texts DEF WalkInv
  <2>3. CASE \E h \in Halves : text' = [text EXCEPT ![x] = h]
    <3>1. Levels' /\ \A y \in Paths : text[y] # Nothing => text'[y] # Nothing
      BY <1>w, <2>1, <2>2, <2>3
    <3>2. \A y \in edited : Backup(y) \in Paths
      BY <1>x
    <3> QED
      BY <1>0, <1>t, <2>1, <3>1, <3>2 DEF WalkInv, Levels
  <2>4. CASE text' = [text EXCEPT ![x] = text[Backup(x)], ![Backup(x)] = Nothing]
    <3>1. /\ text'[x] = text[Backup(x)] /\ text'[Backup(x)] = Nothing
          /\ \A y \in Paths \ {x, Backup(x)} : text'[y] = text[y]
      BY <1>t, <2>1, <2>2, <2>4
    <3>2. text'[x] # Nothing /\ x[2] <= runs
      <4>1. x[2] < runs /\ x[2] \in 0..MaxRuns
        BY <1>0, <1>x, <2>1, PathsAre DEF WalkInv
      <4> QED
        BY <1>0, <2>2, <3>1, <4>1, Texts
    <3>3. \A f \in KconfigFiles : text'[<<f, 0>>] # Nothing
      BY <1>f, <1>l, <3>1, <3>2, BackupsAre DEF Levels
    <3>4. \A y \in Paths : text'[y] # Nothing => y[2] <= runs
      BY <1>l, <3>1, <3>2 DEF Levels
    <3>5. \A y \in edited \ {x} : Backup(y) \in Paths /\ Backup(y) # Backup(x)
      BY <1>x, <2>1, BackupsAre
    <3>6. \A y \in edited \ {x} : text'[Backup(y)] # Nothing
      BY <1>0, <3>1, <3>2, <3>5 DEF WalkInv
    <3>7. todo' = {}
      BY <1>0, <2>1 DEF WalkInv
    <3> QED
      BY <1>0, <2>1, <3>3, <3>4, <3>6, <3>7 DEF WalkInv
  <2> QED
    BY <1>9, <2>3, <2>4 DEF Restore
<1>10. CASE EndWalk
  <2>1. /\ pc \in {"restore", "give_up"} /\ edited = {} /\ pc' \in {"choices", "write"}
        /\ UNCHANGED <<text, found, runs, todo, edited>>
    BY <1>10 DEF EndWalk
  <2> QED
    BY <1>0, <2>1 DEF WalkInv
<1>11. CASE Kill
  <2>1. Idle /\ UNCHANGED <<found, runs>>
    BY <1>11 DEF Kill
  <2>2. CASE UNCHANGED text
    BY <1>d, <1>i, <2>1, <2>2
  <2>3. ASSUME NEW x \in todo, NEW h \in Halves,
               \/ text' = [text EXCEPT ![Backup(x)] = h]
               \/ text' = [text EXCEPT ![Backup(x)] = text[x]]
               \/ text' = [text EXCEPT ![Backup(x)] = text[x], ![x] = h]
        PROVE  WalkInv'
    <3>1. text[x] \in FileTexts /\ h \in FileTexts
      BY <1>0, <1>t, Texts DEF WalkInv
    <3>2. Levels'
      BY <1>w, <2>1, <2>3, <3>1
    <3> QED
      BY <1>i, <2>1, <3>2
  <2>4. ASSUME NEW x \in edited, NEW h \in Halves,
               \/ text' = [text EXCEPT ![x] = h]
               \/ text' = [text EXCEPT ![x] = text[Backup(x)]]
        PROVE  WalkInv'
    <3>1. text[Backup(x)] \in FileTexts /\ h \in FileTexts
      BY <1>0, <1>t, <1>x, Texts DEF WalkInv
    <3>2. Levels'
      BY <1>w, <2>1, <2>4, <3>1
    <3> QED
      BY <1>i, <2>1, <3>2
  <2> QED
    BY <1>11, <2>2, <2>3, <2>4 DEF Kill
<1>12. CASE UNCHANGED vars
  <2>1. UNCHANGED <<pc, text, found, runs, todo, edited>>
    BY <1>12 DEF vars
  <2> QED
    BY <1>0, <2>1 DEF WalkInv
<1> QED
  BY <1>1, <1>2, <1>3, <1>4, <1>5, <1>6, <1>7, <1>8, <1>9, <1>10, <1>11, <1>12 DEF Next

\* The original text is somewhere, and the walk restores what it edits.
LEMMA NextTree == IInv /\ [Next]_vars /\ ~FullDisk => TreeInv'
<1> SUFFICES ASSUME IInv, [Next]_vars, ~FullDisk PROVE TreeInv'
  OBVIOUS
<1>0. TypeOK /\ WalkInv /\ TreeInv
  BY DEF IInv
<1>t. /\ text \in [Paths -> FileTexts \cup {Nothing}] /\ found \in [Paths -> FileTexts \cup {Nothing}]
      /\ todo \subseteq Paths /\ edited \subseteq Paths
  BY <1>0 DEF TypeOK
<1>x. ASSUME NEW x \in todo \cup edited
      PROVE  /\ x \in Paths /\ found[x] # Nothing /\ pc # "idle"
             /\ Backup(x) \in Paths /\ Backup(x) # x
  <2>1. x \in Paths /\ found[x] # Nothing /\ pc # "idle"
    BY <1>0, <1>t DEF WalkInv
  <2> QED
    BY <1>0, <2>1, BackupPath, BackupsAre
<1> USE DEF walk
<1> DEFINE Somewhere(f) == \E i \in 0..MaxRuns : text[<<f, i>>] = Original
           Kept == \A f \in KconfigFiles : Somewhere(f)
           Walked == \A x \in Paths :
                       /\ x \notin edited /\ found[x] # Nothing => text[x] = found[x]
                       /\ x \in edited => /\ text[x] \notin {Original, Nothing}
                                          /\ text[Backup(x)] = found[x] /\ found[Backup(x)] = Nothing
<1>k. Kept /\ (pc # "idle" => Walked)
  BY <1>0 DEF TreeInv
<1>q. Kept' /\ (pc' # "idle" => Walked') => TreeInv'
  BY DEF TreeInv
\* Original stays where it is, or is copied to another path.
<1>p. ASSUME \A x \in Paths : text[x] = Original =>
               \E y \in Paths : y[1] = x[1] /\ text'[y] = Original
      PROVE  Kept'
  <2> SUFFICES ASSUME NEW f \in KconfigFiles PROVE \E i \in 0..MaxRuns : text'[<<f, i>>] = Original
    OBVIOUS
  <2>1. PICK i \in 0..MaxRuns : text[<<f, i>>] = Original
    BY <1>k
  <2>2. <<f, i>> \in Paths /\ <<f, i>>[1] = f
    BY PathsAre
  <2>3. PICK y \in Paths : y[1] = f /\ text'[y] = Original
    BY <1>p, <2>1, <2>2
  <2>4. y = <<f, y[2]>> /\ y[2] \in 0..MaxRuns
    BY <2>3, PathsAre
  <2> QED
    BY <2>3, <2>4
<1> HIDE DEF Kept, Walked
<1>u. ASSUME UNCHANGED text PROVE Kept'
  BY <1>p, <1>u
<1>i. ASSUME Idle, Kept' PROVE TreeInv'
  BY <1>i, <1>q DEF Idle
<1>s. ASSUME UNCHANGED <<text, found, edited>>, pc # "idle" PROVE TreeInv'
  BY <1>k, <1>q, <1>s, <1>u DEF Walked
\* The backup of a file the walk is about to edit is neither there nor was.
<1>f. ASSUME NEW x \in todo, Free(x)
      PROVE  /\ x \notin edited /\ text[x] = found[x] /\ text[x] \in FileTexts
             /\ text[Backup(x)] = Nothing /\ found[Backup(x)] = Nothing /\ Backup(x) \notin edited
  <2>1. x \in Paths /\ found[x] # Nothing /\ x \notin edited /\ pc # "idle" /\ Backup(x) \in Paths
    BY <1>0, <1>x DEF WalkInv
  <2>2. text[x] = found[x] /\ text[x] \in FileTexts
    BY <1>k, <1>t, <2>1 DEF Walked
  <2>3. text[Backup(x)] = Nothing
    BY <1>f DEF Free
  <2>4. Backup(x) \notin edited /\ found[Backup(x)] = Nothing
    BY <1>k, <2>1, <2>3 DEF Walked
  <2> QED
    BY <2>1, <2>2, <2>3, <2>4
\* Of a file that is edited, text is no original, so that it can be lost.
<1>e. ASSUME NEW x \in edited
      PROVE  /\ text[x] # Original /\ text[Backup(x)] = found[x] /\ found[Backup(x)] = Nothing
  BY <1>k, <1>x DEF Walked
\* The text is copied to the backup, and another put in the file.
<1>c. ASSUME NEW x \in todo, Free(x), NEW c, c \in FileTexts,
             \/ text' = [text EXCEPT ![Backup(x)] = c]
             \/ text' = [text EXCEPT ![Backup(x)] = text[x], ![x] = c]
      PROVE  Kept'
  <2>0. x \in Paths /\ Backup(x) \in Paths /\ Backup(x) # x /\ Backup(x)[1] = x[1]
    BY <1>x, BackupsAre
  <2>1. \A y \in Paths : y # x /\ y # Backup(x) => text'[y] = text[y]
    BY <1>c, <1>t
  <2>2. text'[x] = text[x] \/ text'[Backup(x)] = text[x]
    BY <1>c, <1>t, <2>0
  <2>3. text[Backup(x)] # Original
    BY <1>c, <1>f, Texts
  <2> QED
    BY <1>p, <2>0, <2>1, <2>2, <2>3
<1>1. ASSUME NEW o \in Options, Start(o)
      PROVE  TreeInv'
  <2>1. pc = "idle" /\ found' = text /\ UNCHANGED <<text, edited>>
    BY <1>1 DEF Start
  <2>2. edited' = {}
    BY <1>0, <2>1 DEF WalkInv
  <2>3. Walked'
    BY <2>1, <2>2 DEF Walked
  <2> QED
    BY <1>q, <1>u, <2>1, <2>3
<1>2. CASE Replay \/ Save \/ EndPass \/ FindUnsupported \/ Parse \/ EndWalk
  <2>1. UNCHANGED <<text, found, edited>>
    BY <1>2 DEF Replay, Save, EndPass, FindUnsupported, Parse, EndWalk
  <2>2. CASE pc = "idle"
    BY <1>2, <2>1, <2>2, <1>u, <1>q DEF Replay, Asking, Save, EndPass, FindUnsupported, Parse, EndWalk,
       Passes, Surfaced
  <2>3. CASE pc # "idle"
    BY <1>s, <2>1, <2>3
  <2> QED
    BY <2>2, <2>3
<1>3. ASSUME NEW decisions, Ask(decisions)
      PROVE  TreeInv'
  BY <1>3, <1>s DEF Ask, Asking, Passes, Surfaced
<1>4. CASE AskFails \/ NoSource \/ Write
  BY <1>4, <1>i, <1>u DEF AskFails, NoSource, Write
<1>5. ASSUME NEW x \in Paths, Rewrite(x)
      PROVE  TreeInv'
  <2>1. pc = "rewrite" /\ x \in todo /\ UNCHANGED <<pc, found>>
    BY <1>5 DEF Rewrite
  <2>2. CASE ~Free(x)
    <3>1. UNCHANGED <<text, edited>>
      BY <1>5, <2>2 DEF Rewrite
    <3> QED
      BY <1>s, <2>1, <3>1
  <2>3. CASE Free(x)
    <3>1. /\ text' = [text EXCEPT ![Backup(x)] = text[x], ![x] = Stripped(text[x])]
          /\ edited' = edited \cup {x}
      BY <1>5, <2>3 DEF Rewrite
    <3>2. /\ x \notin edited /\ text[x] = found[x] /\ text[x] \in FileTexts
          /\ found[Backup(x)] = Nothing /\ Backup(x) \notin edited
      BY <1>f, <2>1, <2>3
    <3>3. /\ Backup(x) \in Paths /\ Backup(x) # x /\ found[x] # Nothing
          /\ Stripped(text[x]) \notin {Original, Nothing} /\ Stripped(text[x]) \in FileTexts
      BY <1>x, <2>1, <3>2, Texts
    <3>4. /\ text'[x] = Stripped(text[x]) /\ text'[Backup(x)] = found[x]
          /\ \A y \in Paths : y # x /\ y # Backup(x) => text'[y] = text[y]
      BY <1>t, <3>1, <3>2, <3>3
    <3>5. Kept'
      BY <1>c, <2>1, <2>3, <3>1, <3>3
    <3>6. \A y \in Paths : y \notin edited' /\ found[y] # Nothing => text'[y] = found[y]
      BY <1>k, <2>1, <3>1, <3>2, <3>4 DEF Walked
    <3>7. ASSUME NEW y \in edited, y # x
          PROVE  /\ text'[y] \notin {Original, Nothing}
                 /\ text'[Backup(y)] = found[y] /\ found[Backup(y)] = Nothing
      <4>1. y \in Paths /\ Backup(y) \in Paths /\ Backup(y) # Backup(x)
        BY <1>x, <3>7, BackupsAre
      <4>2. /\ text[y] \notin {Original, Nothing} /\ text[Backup(y)] = found[y]
            /\ found[Backup(y)] = Nothing
        BY <1>k, <2>1, <4>1 DEF Walked
      <4>3. Backup(y) # x /\ y # Backup(x)
        BY <3>2, <3>3, <4>2
      <4> QED
        BY <3>4, <3>7, <4>1, <4>2, <4>3
    <3>8. Walked'
      BY <2>1, <3>1, <3>2, <3>3, <3>4, <3>6, <3>7 DEF Walked
    <3> QED
      BY <1>q, <3>5, <3>8
  <2> QED
    BY <2>2, <2>3
<1>6. ASSUME NEW x \in Paths, RewriteFails(x)
      PROVE  TreeInv'
  <2>1. /\ pc = "rewrite" /\ x \in todo /\ Free(x) /\ UNCHANGED <<pc, found, edited>>
        /\ text' = text \/ text' = [text EXCEPT ![Backup(x)] = text[x]]
    BY <1>6 DEF RewriteFails
  <2>2. CASE text' = text
    BY <1>s, <2>1, <2>2
  <2>3. CASE text' = [text EXCEPT ![Backup(x)] = text[x]]
    <3>1. found[Backup(x)] = Nothing /\ Backup(x) \notin edited /\ text[x] \in FileTexts /\ x \notin edited
      BY <1>f, <2>1
    <3>2. \A y \in Paths : y # Backup(x) => text'[y] = text[y]
      BY <1>t, <2>3
    <3>3. Kept'
      BY <1>c, <2>1, <2>3, <3>1
    <3>4. \A y \in edited : y \in Paths /\ Backup(y) \in Paths /\ Backup(y) # Backup(x)
      BY <1>x, <2>1, <3>1, BackupsAre
    <3>5. Walked'
      BY <1>k, <2>1, <3>1, <3>2, <3>4 DEF Walked
    <3> QED
      BY <1>q, <3>3, <3>5
  <2> QED
    BY <2>1, <2>2, <2>3
<1>7. ASSUME NEW x \in Paths, Restore(x)
      PROVE  TreeInv'
  <2>1. /\ pc \in {"restore", "give_up"} /\ x \in edited /\ edited' = edited \ {x}
        /\ text' = [text EXCEPT ![x] = text[Backup(x)], ![Backup(x)] = Nothing]
        /\ UNCHANGED <<pc, found>>
    BY <1>7 DEF Restore
  <2>2. /\ x \in Paths /\ Backup(x) \in Paths /\ Backup(x) # x /\ Backup(x)[1] = x[1]
        /\ text[x] # Original /\ text[Backup(x)] = found[x] /\ found[Backup(x)] = Nothing
        /\ found[x] # Nothing
    BY <1>e, <1>x, <2>1, BackupsAre
  <2>3. /\ text'[x] = found[x] /\ text'[Backup(x)] = Nothing
        /\ \A y \in Paths : y # x /\ y # Backup(x) => text'[y] = text[y]
    BY <1>t, <2>1, <2>2
  <2>4. Kept'
    BY <1>p, <2>2, <2>3
  <2>5. \A y \in Paths : y \notin edited' /\ found[y] # Nothing => text'[y] = found[y]
    BY <1>k, <2>1, <2>2, <2>3 DEF Walked
  <2>6. ASSUME NEW y \in edited, y # x
        PROVE  /\ text'[y] \notin {Original, Nothing}
               /\ text'[Backup(y)] = found[y] /\ found[Backup(y)] = Nothing
    <3>1. y \in Paths /\ Backup(y) \in Paths /\ Backup(y) # Backup(x) /\ found[y] # Nothing
      BY <1>x, <2>1, <2>6, BackupsAre
    <3>2. /\ text[y] \notin {Original, Nothing} /\ text[Backup(y)] = found[y]
          /\ found[Backup(y)] = Nothing
      BY <1>k, <2>1, <3>1 DEF Walked
    <3>3. Backup(y) # x /\ y # Backup(x)
      BY <2>2, <3>1, <3>2
    <3> QED
      BY <2>3, <2>6, <3>1, <3>2, <3>3
  <2>7. Walked'
    BY <2>1, <2>5, <2>6 DEF Walked
  <2> QED
    BY <1>q, <2>4, <2>7
<1>8. CASE Kill
  <2>1. Idle
    BY <1>8 DEF Kill
  <2>2. CASE UNCHANGED text
    BY <1>i, <1>u, <2>1, <2>2
  <2>3. ASSUME NEW x \in todo, NEW h \in Halves, Free(x),
               \/ text' = [text EXCEPT ![Backup(x)] = h]
               \/ text' = [text EXCEPT ![Backup(x)] = text[x]]
               \/ text' = [text EXCEPT ![Backup(x)] = text[x], ![x] = h]
        PROVE  TreeInv'
    <3>1. h \in FileTexts /\ text[x] \in FileTexts
      BY <1>f, <2>3, Texts
    <3>2. Kept'
      BY <1>c, <2>3, <3>1
    <3> QED
      BY <1>i, <2>1, <3>2
  <2>4. ASSUME NEW x \in edited, NEW c, text' = [text EXCEPT ![x] = c]
        PROVE  TreeInv'
    <3>1. text[x] # Original
      BY <1>e
    <3>2. \A y \in Paths : y # x => text'[y] = text[y]
      BY <1>t, <2>4
    <3>3. Kept'
      BY <1>p, <3>1, <3>2
    <3> QED
      BY <1>i, <2>1, <3>3
  <2> QED
    BY <1>8, <2>2, <2>3, <2>4 DEF Kill
<1>9. CASE UNCHANGED vars
  BY <1>0, <1>9 DEF vars, TreeInv
<1> QED
  BY <1>1, <1>2, <1>3, <1>4, <1>5, <1>6, <1>7, <1>8, <1>9 DEF Next

-----------------------------------------------------------------------------
\* What propose keeps is inductive: see above, part by part.
THEOREM ProposeInv == Spec => []IInv
<1>1. Init => IInv
  BY InitInv
<1>2. IInv /\ [Next]_vars => IInv'
  BY NextType, NextPass, NextOut, NextFinished, NextFit, NextWalk, NextTree DEF IInv
<1> QED
  BY <1>1, <1>2, PTL DEF Spec

\* The passes, the cache and the tree stay of their types.
THEOREM TypeCorrect == Spec => []TypeOK
<1>1. IInv => TypeOK
  BY DEF IInv
<1> QED
  BY <1>1, ProposeInv, PTL

\* A proposal that a pass makes, or has from the cache, is about something
\* this run asks, is a change of the value this run's config has, and is as
\* sure as this run demands, whichever run the model gave it to.
THEOREM RepliesFit == Spec => []AnswersFit
<1>1. IInv => AnswersFit
  BY DEF IInv, FitInv
<1> QED
  BY <1>1, ProposeInv, PTL

\* A command line that is run again, over the same snapshot and with a tree
\* that can be read as before and has the symbols it had, has the result it had,
\* whatever the model would say now and whatever was run or died in between.
THEOREM RepeatsItself == Spec => []SameQuestionSameAnswer
<1>1. IInv => SameQuestionSameAnswer
  <2> SUFFICES ASSUME FinishedInv, NEW a \in finished, NEW b \in finished,
                      a.run = b.run, a.parsed = b.parsed, a.gone = b.gone
               PROVE  a.proposals = b.proposals
    BY DEF IInv, SameQuestionSameAnswer
  <2>1. a.proposals =
          Deterministic(a.run)
          \cup UNION {Contents(a.run, a.gone, pass, Numbers(a.run, a.gone, pass)) : pass \in Made(a.parsed)}
    BY DEF FinishedInv
  <2>2. b.proposals =
          Deterministic(b.run)
          \cup UNION {Contents(b.run, b.gone, pass, Numbers(b.run, b.gone, pass)) : pass \in Made(b.parsed)}
    BY DEF FinishedInv
  <2> QED
    BY <2>1, <2>2
<1> QED
  BY <1>1, ProposeInv, PTL

\* As long as no copy is cut short by a full disk, the user's text of every
\* Kconfig file is somewhere in the file or the backups made of it and of one
\* another, however many runs died in them, and a run that ends leaves each of
\* these with the text it had.
THEOREM KeepsTheText == Spec => [](~FullDisk => OriginalTextSafe)
<1>1. IInv => (~FullDisk => OriginalTextSafe)
  <2> SUFFICES ASSUME TypeOK, WalkInv, TreeInv PROVE OriginalTextSafe
    BY DEF IInv
  <2>1. ASSUME pc \in Passes \cup {"write"}, NEW x \in Paths, found[x] # Nothing
        PROVE  text[x] = found[x]
    <3>1. pc # "idle" /\ edited = {}
      BY <2>1 DEF WalkInv, Passes, Surfaced
    <3> QED
      BY <2>1, <3>1 DEF TreeInv
  <2> QED
    BY <2>1 DEF TreeInv, OriginalTextSafe
<1> QED
  BY <1>1, ProposeInv, PTL

-----------------------------------------------------------------------------
(***************************************************************************)
(* The inventory and its enrichment: Enrichment, whose constants and       *)
(* variables are its own.                                                  *)
(***************************************************************************)

\* No symbol is in a sequence of records twice.
EachOnce(s) == \A i, j \in DOMAIN s : s[i].sym = s[j].sym => i = j

\* Batches that have still to be collected.
Pending == DOMAIN futures \cup next_chunk..Len(chunks)

(***************************************************************************)
(* The inductive invariant.  InventoryInv: no scan gives a symbol two      *)
(* records.  FileInv: the file has no facts twice.  JobInv: no symbol is   *)
(* in two batches, nor twice in one, and while batches are left to be      *)
(* submitted some are in the pool.  FreshInv: the file knows nothing of a  *)
(* batch that is pending, or collecting it would write those rows again.   *)
(* CoverInv: what is asked has a row or is pending, unless a line is not   *)
(* JSON.                                                                   *)
(***************************************************************************)
InventoryInv ==
  inventory.rows \in Seq(Records) /\ inventory.whole \in BOOLEAN /\ EachOnce(inventory.rows)

FileInv ==
  /\ file \in Seq(Rows \cup {TornRow}) /\ ended \in BOOLEAN /\ (~ended => file # << >>)
  /\ NoSecondRow

JobInv ==
  /\ asked \in Seq(Records) /\ chunks \in Seq(Seq(Records))
  /\ next_chunk \in 1..(Len(chunks) + 1) /\ DOMAIN futures \subseteq 1..(next_chunk - 1)
  /\ DOMAIN futures = {} => next_chunk = Len(chunks) + 1
  /\ \/ enrich = {} /\ asked = << >> /\ chunks = << >>
     \/ \E o \in Commands : enrich = {o}
  /\ \A c, d \in DOMAIN chunks : \A i \in DOMAIN chunks[c], j \in DOMAIN chunks[d] :
       chunks[c][i].sym = chunks[d][j].sym => c = d /\ i = j

FreshInv ==
  \A o \in enrich : ~o.force =>
    \A c \in Pending : \A i \in DOMAIN chunks[c] : ~HasRow(chunks[c][i])

CoverInv ==
  \/ TornRow \in Lines
  \/ \A r \in ToSet(asked) : HasRow(r) \/ \E c \in Pending : r \in ToSet(chunks[c])

EnrichInv == InventoryInv /\ FileInv /\ JobInv /\ FreshInv /\ CoverInv

-----------------------------------------------------------------------------
LEMMA PrefixIs ==
  ASSUME NEW S, NEW s \in Seq(S), NEW n \in Nat, n <= Len(s)
  PROVE  /\ SubSeq(s, 1, n) \in Seq(S) /\ Len(SubSeq(s, 1, n)) = n
         /\ DOMAIN SubSeq(s, 1, n) = 1..n
         /\ \A i \in 1..n : i \in DOMAIN s /\ SubSeq(s, 1, n)[i] = s[i]
<1>1. Len(s) \in Nat /\ DOMAIN s = 1..Len(s) /\ \A i \in DOMAIN s : s[i] \in S
  BY LenProperties
<1>2. 1..n \subseteq DOMAIN s
  BY <1>1
<1>3. SubSeq(s, 1, n) \in Seq(S) /\ Len(SubSeq(s, 1, n)) = n
      /\ \A i \in 1..n : SubSeq(s, 1, n)[i] = s[i]
  BY <1>1, <1>2, SubSeqProperties
<1> QED
  BY <1>2, <1>3, LenProperties

\* A beginning of records without repetition is one.
LEMMA PrefixOnce ==
  ASSUME NEW s \in Seq(Records), EachOnce(s), NEW n \in Nat, n <= Len(s)
  PROVE  SubSeq(s, 1, n) \in Seq(Records) /\ EachOnce(SubSeq(s, 1, n))
BY PrefixIs DEF EachOnce

LEMMA FirstOnce ==
  ASSUME NEW s \in Seq(Records), EachOnce(s), NEW limit
  PROVE  First(s, limit) \in Seq(Records) /\ EachOnce(First(s, limit))
<1>1. Len(s) \in Nat
  BY LenProperties
<1> QED
  BY <1>1, PrefixOnce DEF First

\* A scan lists the symbols of the tree once each.
LEMMA InventoryOnce ==
  ASSUME NEW tree \in Trees, NEW limit
  PROVE  BuildInventory(tree, limit) \in Seq(Records) /\ EachOnce(BuildInventory(tree, limit))
<1>1. PICK first \in Seq(Records) : first = IF limit \in 1..Len(tree) THEN SubSeq(tree, 1, limit) ELSE tree
  <2>1. tree \in Seq(Records) /\ Len(tree) \in Nat
    BY LenProperties, EnrichmentAssumption
  <2>2. limit \in 1..Len(tree) => limit \in Nat /\ limit <= Len(tree)
    BY <2>1
  <2> QED
    BY <2>1, <2>2, PrefixIs
<1> DEFINE rows == ToSet(first)
           K == {r.sym : r \in rows}
<1>2. Len(first) \in Nat /\ DOMAIN first = 1..Len(first) /\ \A i \in DOMAIN first : first[i] \in Records
  BY LenProperties
<1>3. rows \subseteq Records /\ K \subseteq Names
  BY <1>2 DEF ToSet, Records
<1>4. K \in SUBSET Nat
  BY <1>3, EnrichmentAssumption
<1>5. IsFiniteSet(K)
  <2> DEFINE f == [i \in 1..Len(first) |-> first[i].sym]
  <2>1. K = {first[i].sym : i \in 1..Len(first)}
    BY <1>2 DEF ToSet
  <2>2. f \in Surjection(1..Len(first), K)
    BY <2>1 DEF Surjection
  <2>3. IsFiniteSet(1..Len(first))
    BY <1>2, FS_Interval
  <2> HIDE DEF f, K
  <2> QED
    BY <2>2, <2>3, FS_Surjection
<1>6. PICK syms : syms = InOrder(K)
  OBVIOUS
<1>7. /\ Cardinality(K) \in Nat /\ syms \in [1..Cardinality(K) -> K]
      /\ \A n, m \in 1..Cardinality(K) : n < m => syms[n] < syms[m]
  <2> HIDE DEF K
  <2> QED
    BY <1>4, <1>5, <1>6, InOrderIs
<1> DEFINE e(n) == CHOOSE r \in rows : r.sym = syms[n]
           N == Cardinality(K)
<1>8. BuildInventory(tree, limit) = [n \in 1..N |-> e(n)]
  <2>1. BuildInventory(tree, limit) = [n \in DOMAIN syms |-> CHOOSE r \in rows : r.sym = syms[n]]
    BY <1>1, <1>6 DEF BuildInventory
  <2> QED
    BY <1>7, <2>1
<1>9. \A n \in 1..N : e(n) \in Records /\ e(n).sym = syms[n]
  <2> SUFFICES ASSUME NEW n \in 1..N PROVE e(n) \in Records /\ e(n).sym = syms[n]
    OBVIOUS
  <2>1. \E r \in rows : r.sym = syms[n]
    BY <1>7
  <2>2. e(n) \in rows /\ e(n).sym = syms[n]
    BY <2>1
  <2> QED
    BY <1>3, <2>2
<1>10. \A n, m \in 1..N : syms[n] = syms[m] => n = m
  <2> SUFFICES ASSUME NEW n \in 1..N, NEW m \in 1..N, n # m PROVE syms[n] # syms[m]
    OBVIOUS
  <2>1. syms[n] \in Nat /\ syms[m] \in Nat
    BY <1>4, <1>7
  <2>2. n < m \/ m < n
    BY <1>7
  <2> HIDE DEF K, N
  <2> QED
    BY <1>7, <2>1, <2>2 DEF N
<1> HIDE DEF e, N
<1>11. [n \in 1..N |-> e(n)] \in Seq(Records)
  <2>1. N \in Nat /\ \A n \in 1..N : e(n) \in Records
    BY <1>7, <1>9 DEF N
  <2> QED
    BY <2>1, IsASeq
<1>12. EachOnce([n \in 1..N |-> e(n)])
  BY <1>9, <1>10 DEF EachOnce
<1> QED
  BY <1>8, <1>11, <1>12

\* The batches cs have all of the records rs, each in one place of one batch.
Partition(rs, cs) ==
  /\ cs \in Seq(Seq(Records))
  /\ \A c, d \in DOMAIN cs : \A i \in DOMAIN cs[c], j \in DOMAIN cs[d] :
       cs[c][i].sym = cs[d][j].sym => c = d /\ i = j
  /\ \A c \in DOMAIN cs : \A i \in DOMAIN cs[c] : cs[c][i] \in ToSet(rs)
  /\ \A r \in ToSet(rs) : \E c \in DOMAIN cs : r \in ToSet(cs[c])

LEMMA ChunksAre ==
  ASSUME NEW rs \in Seq(Records), EachOnce(rs), NEW size \in Nat \ {0}
  PROVE  Partition(rs, Chunks(rs, size))
<1> SUFFICES ASSUME NEW cs, cs = Chunks(rs, size) PROVE Partition(rs, cs)
  OBVIOUS
<1> DEFINE L == Len(rs)
           n == (L + size - 1) \div size
           upto(c) == IF c * size < L THEN c * size ELSE L
           e(c) == SubSeq(rs, (c - 1) * size + 1, upto(c))
<1>1. L \in Nat /\ DOMAIN rs = 1..L /\ \A i \in 1..L : rs[i] \in Records
  BY LenProperties
<1>2. L + size - 1 \in Nat
  BY <1>1
<1>3. n \in Nat /\ size * n <= L + size - 1 /\ L + size - 1 < size * n + size
  <2> HIDE DEF L
  <2>1. \A a \in Nat : a \div size \in Nat /\ size * (a \div size) <= a /\ a < size * (a \div size) + size
    OBVIOUS
  <2> QED
    BY <1>2, <2>1
<1>4. cs = [c \in 1..n |-> e(c)]
  BY DEF Chunks
<1> HIDE DEF n, L
\* The record i of batch c is in rs at (c - 1) * size + i.
<1>5. ASSUME NEW c \in 1..n
      PROVE  /\ (c - 1) * size \in Nat /\ upto(c) \in Nat
             /\ upto(c) <= L /\ upto(c) <= (c - 1) * size + size
  <2>1. c \in Nat \ {0} /\ c - 1 \in Nat
    BY <1>3
  <2>2. (c - 1) * size \in Nat /\ c * size \in Nat /\ c * size = (c - 1) * size + size
    BY <2>1
  <2> QED
    BY <1>1, <2>2
<1>6. ASSUME NEW c \in 1..n
      PROVE  /\ e(c) \in Seq(Records)
             /\ \A i \in DOMAIN e(c) :
                  /\ i \in 1..size /\ (c - 1) * size + i \in 1..L
                  /\ e(c)[i] = rs[(c - 1) * size + i]
             /\ \A i \in Nat \ {0} : (c - 1) * size + i <= upto(c) => i \in DOMAIN e(c)
  <2> DEFINE b == (c - 1) * size
             z == upto(c)
             sub == SubSeq(rs, b + 1, z)
  <2>1. b \in Nat /\ z \in Nat /\ z <= L /\ z <= b + size
    BY <1>5
  <2> HIDE DEF b, z
  <2>2. \A i \in (b + 1)..z : rs[i] \in Records
    BY <1>1, <2>1
  <2>3. /\ sub \in Seq(Records)
        /\ Len(sub) = IF b + 1 <= z THEN z - (b + 1) + 1 ELSE 0
        /\ \A i \in 1..(z - (b + 1) + 1) : sub[i] = rs[(b + 1) + i - 1]
    BY <2>1, <2>2, SubSeqProperties
  <2>4. DOMAIN sub = 1..Len(sub)
    BY <2>3, LenProperties
  <2>5. \A i \in DOMAIN sub : i \in 1..size /\ b + i \in 1..L /\ sub[i] = rs[b + i]
    <3> SUFFICES ASSUME NEW i \in DOMAIN sub
                 PROVE  i \in 1..size /\ b + i \in 1..L /\ sub[i] = rs[b + i]
      OBVIOUS
    <3> HIDE DEF sub
    <3>1. i \in 1..(z - (b + 1) + 1) /\ (b + 1) + i - 1 = b + i
      BY <2>1, <2>3, <2>4
    <3> QED
      BY <1>1, <2>1, <2>3, <3>1
  <2>6. \A i \in Nat \ {0} : b + i <= z => i \in DOMAIN sub
    <3> HIDE DEF sub
    <3> QED
      BY <2>1, <2>3, <2>4
  <2> QED
    BY <2>3, <2>5, <2>6 DEF b, z
<1>7. DOMAIN cs = 1..n /\ \A c \in 1..n : cs[c] = e(c)
  BY <1>4
<1> HIDE DEF e
<1>8. cs \in Seq(Seq(Records))
  <2> DEFINE S == Seq(Records)
  <2>1. n \in Nat /\ \A c \in 1..n : e(c) \in S
    BY <1>3, <1>6
  <2> HIDE DEF S
  <2>2. [c \in 1..n |-> e(c)] \in Seq(S)
    BY <2>1, IsASeq
  <2> QED
    BY <1>4, <2>2 DEF S
<1>m. \A a, b \in Nat \ {0} : a < b => (a - 1) * size + size <= (b - 1) * size
  <2> SUFFICES ASSUME NEW a \in Nat \ {0}, NEW b \in Nat \ {0}, a < b
               PROVE  (a - 1) * size + size <= (b - 1) * size
    OBVIOUS
  <2>1. PICK k \in Nat : b = a + k + 1
    <3>1. b - a - 1 \in Nat /\ b = a + (b - a - 1) + 1
      OBVIOUS
    <3> QED
      BY <3>1
  <2>2. (b - 1) * size = (a - 1) * size + size + k * size /\ k * size \in Nat
    BY <2>1
  <2>3. (a - 1) * size \in Nat
    OBVIOUS
  <2> QED
    BY <2>2, <2>3
<1>9. ASSUME NEW c \in DOMAIN cs, NEW d \in DOMAIN cs, NEW i \in DOMAIN cs[c], NEW j \in DOMAIN cs[d],
             cs[c][i].sym = cs[d][j].sym
      PROVE  c = d /\ i = j
  <2> DEFINE x == (c - 1) * size
             y == (d - 1) * size
  <2>1. c \in 1..n /\ d \in 1..n /\ cs[c] = e(c) /\ cs[d] = e(d)
    BY <1>7
  <2>2. /\ i \in 1..size /\ x + i \in 1..L /\ cs[c][i] = rs[x + i]
        /\ j \in 1..size /\ y + j \in 1..L /\ cs[d][j] = rs[y + j]
    BY <1>6, <2>1
  <2>3. x + i = y + j
    <3> HIDE DEF x, y
    <3> QED
      BY <1>1, <1>9, <2>2 DEF EachOnce
  <2>4. x \in Nat /\ y \in Nat
    BY <1>5, <2>1
  <2>5. c \in Nat \ {0} /\ d \in Nat \ {0}
    BY <1>3, <2>1
  <2>6. (c < d => x + size <= y) /\ (d < c => y + size <= x)
    BY <1>m, <2>5
  <2>7. c = d
    <3> HIDE DEF x, y
    <3> QED
      BY <2>2, <2>3, <2>4, <2>5, <2>6
  <2>8. x = y
    BY <2>7
  <2> HIDE DEF x, y
  <2> QED
    BY <2>2, <2>3, <2>4, <2>7, <2>8
<1>10. ASSUME NEW c \in DOMAIN cs, NEW i \in DOMAIN cs[c]
       PROVE  cs[c][i] \in ToSet(rs)
  <2>1. c \in 1..n /\ cs[c] = e(c)
    BY <1>7
  <2>2. (c - 1) * size + i \in 1..L /\ cs[c][i] = rs[(c - 1) * size + i]
    BY <1>6, <2>1
  <2> QED
    BY <1>1, <2>2 DEF ToSet
<1>11. ASSUME NEW r \in ToSet(rs)
       PROVE  \E c \in DOMAIN cs : r \in ToSet(cs[c])
  <2>1. PICK k \in 1..L : r = rs[k]
    BY <1>1 DEF ToSet
  <2>2. PICK q \in Nat : size * q <= k - 1 /\ k - 1 < size * q + size
    <3>1. \A a \in Nat : a \div size \in Nat /\ size * (a \div size) <= a /\ a < size * (a \div size) + size
      OBVIOUS
    <3>2. k - 1 \in Nat
      BY <1>1
    <3> QED
      BY <3>1, <3>2
  <2>3. size * q \in Nat
    OBVIOUS
  <2>4. q < n
    <3> SUFFICES ASSUME n <= q PROVE FALSE
      BY <1>3
    <3>1. PICK m \in Nat : q = n + m
      <4>1. q - n \in Nat /\ q = n + (q - n)
        BY <1>3
      <4> QED
        BY <4>1
    <3>2. size * q = size * n + size * m /\ size * m \in Nat /\ size * n \in Nat
      BY <1>3, <3>1
    <3> QED
      BY <1>1, <1>3, <2>2, <3>2
  <2>5. q + 1 \in 1..n /\ ((q + 1) - 1) * size = size * q /\ (q + 1) * size = size * q + size
    BY <1>3, <2>4
  <2>6. PICK c \in 1..n : (c - 1) * size = size * q /\ c * size = size * q + size
    BY <2>5
  <2>7. PICK i \in Nat \ {0} : size * q + i = k
    <3>1. k - size * q \in Nat \ {0} /\ size * q + (k - size * q) = k
      BY <1>1, <2>2, <2>3
    <3> QED
      BY <3>1
  <2>8. (c - 1) * size + i <= upto(c)
    BY <1>1, <2>1, <2>2, <2>3, <2>6, <2>7
  <2>9. i \in DOMAIN cs[c] /\ cs[c][i] = r
    BY <1>6, <1>7, <2>1, <2>6, <2>7, <2>8
  <2> QED
    BY <1>7, <2>9 DEF ToSet
<1> QED
  BY <1>8, <1>9, <1>10, <1>11 DEF Partition

-----------------------------------------------------------------------------
\* Line i, once the rows have been appended, is where it was, or comes from
\* the row off lines before it.
IsKept(rows, off, i) ==
  \/ i <= Len(file) /\ Appended(rows)[i] \in {file[i], TornRow}
  \/ i > Len(file) /\ i - off \in 1..Len(rows) /\ Appended(rows)[i] = rows[i - off]

\* No line and none of the rows is missing, or else a line is not JSON.
NothingLost(new, rows) ==
  \/ \E i \in 1..Len(new) : new[i] = TornRow
  \/ /\ \A i \in 1..Len(file) : \E j \in 1..Len(new) : new[j] = file[i]
     /\ \A i \in 1..Len(rows) : \E j \in 1..Len(new) : new[j] = rows[i]

\* Appending leaves the lines of the file where they are, but that a line
\* without newline becomes no JSON, and adds the rows behind them; nothing is
\* lost, or else a line is not JSON.
LEMMA AppendedIs ==
  ASSUME file \in Seq(Rows \cup {TornRow}), ended \in BOOLEAN, ~ended => file # << >>,
         NEW rows \in Seq(Rows \cup {TornRow}), NEW new, new = Appended(rows)
  PROVE  /\ new \in Seq(Rows \cup {TornRow}) /\ (rows # << >> => new # << >>)
         /\ \E off \in Int : \A i \in 1..Len(new) : IsKept(rows, off, i)
         /\ NothingLost(new, rows)
<1> DEFINE T == Rows \cup {TornRow}
           n == Len(file)
           m == Len(rows)
<1>1. n \in Nat /\ m \in Nat /\ DOMAIN file = 1..n /\ DOMAIN rows = 1..m
  BY LenProperties
<1>2. CASE ended \/ rows = << >>
  <2>1. new = file \o rows
    BY <1>2 DEF Appended
  <2>2. /\ new \in Seq(T) /\ Len(new) = n + m
        /\ \A i \in 1..(n + m) : new[i] = IF i <= n THEN file[i] ELSE rows[i - n]
    BY <2>1, ConcatProperties
  <2>3. \A i \in 1..Len(new) :
          \/ i <= n /\ new[i] \in {file[i], TornRow}
          \/ i > n /\ i - n \in 1..m /\ new[i] = rows[i - n]
    <3> HIDE DEF n, m
    <3> QED
      BY <1>1, <2>2
  <2>4. \A i \in 1..n : new[i] = file[i] /\ i \in 1..Len(new)
    <3> HIDE DEF n, m
    <3> QED
      BY <1>1, <2>2
  <2>5. \A i \in 1..m : new[n + i] = rows[i] /\ n + i \in 1..Len(new)
    <3> HIDE DEF n, m
    <3> QED
      BY <1>1, <2>2
  <2>6. rows # << >> => new # << >>
    <3>1. rows # << >> => m > 0
      BY EmptySeq
    <3>2. Len(<< >>) = 0
      BY EmptySeq
    <3> HIDE DEF n, m
    <3> QED
      BY <1>1, <2>2, <3>1, <3>2
  <2>7. n \in Int
    BY <1>1
  <2> QED
    BY <2>2, <2>3, <2>4, <2>5, <2>6, <2>7 DEF IsKept, NothingLost
<1>3. CASE ~(ended \/ rows = << >>)
  <2>1. n \in Nat \ {0} /\ m \in Nat \ {0}
    BY <1>3, EmptySeq
  <2> DEFINE old == SubSeq(file, 1, n - 1)
             more == Tail(rows)
             first == old \o <<TornRow>>
  <2>2. new = (old \o <<TornRow>>) \o more
    BY <1>3 DEF Appended
  <2>3. /\ old \in Seq(T) /\ Len(old) = n - 1
        /\ \A i \in 1..(n - 1) : old[i] = file[i]
    <3>1. PICK k \in Nat : k = n - 1 /\ k <= Len(file)
      <4>1. n - 1 \in Nat /\ n - 1 <= n
        BY <2>1
      <4> QED
        BY <4>1
    <3>2. file \in Seq(T)
      OBVIOUS
    <3> HIDE DEF T
    <3>3. /\ SubSeq(file, 1, k) \in Seq(T) /\ Len(SubSeq(file, 1, k)) = k
          /\ \A i \in 1..k : SubSeq(file, 1, k)[i] = file[i]
      BY <3>1, <3>2, PrefixIs
    <3> QED
      BY <3>1, <3>3
  <2>4. /\ more \in Seq(T) /\ Len(more) = m - 1
        /\ \A i \in 1..(m - 1) : more[i] = rows[i + 1]
    BY <1>3, HeadTailProperties
  <2>5. <<TornRow>> \in Seq(T) /\ Len(<<TornRow>>) = 1 /\ <<TornRow>>[1] = TornRow
    OBVIOUS
  <2>6. /\ first \in Seq(T) /\ Len(first) = n
        /\ \A i \in 1..(n - 1) : first[i] = file[i]
        /\ first[n] = TornRow
    <3>1. /\ first \in Seq(T) /\ Len(first) = Len(old) + Len(<<TornRow>>)
          /\ \A i \in 1..(Len(old) + Len(<<TornRow>>)) :
               first[i] = IF i <= Len(old) THEN old[i] ELSE <<TornRow>>[i - Len(old)]
      BY <2>3, <2>5, ConcatProperties
    <3> DEFINE one == <<TornRow>>
    <3> HIDE DEF n, old, first, one
    <3>2. /\ first \in Seq(T) /\ Len(first) = n
          /\ \A i \in 1..n : first[i] = IF i <= n - 1 THEN old[i] ELSE one[i - (n - 1)]
      BY <2>1, <2>3, <2>5, <3>1 DEF one
    <3>3. n - (n - 1) = 1 /\ n \in 1..n /\ ~(n <= n - 1)
      BY <2>1
    <3>4. first[n] = TornRow
      BY <2>5, <3>2, <3>3 DEF one
    <3> QED
      BY <2>1, <2>3, <3>2, <3>4
  <2>7. /\ new \in Seq(T) /\ Len(new) = n + (m - 1)
        /\ \A i \in 1..(n + (m - 1)) : new[i] = IF i <= n THEN first[i] ELSE more[i - n]
    <3>1. new = first \o more
      BY <2>2
    <3> HIDE DEF n, m, old, more, first, T
    <3>2. /\ first \o more \in Seq(T) /\ Len(first \o more) = Len(first) + Len(more)
          /\ \A i \in 1..(Len(first) + Len(more)) :
               (first \o more)[i] = IF i <= Len(first) THEN first[i] ELSE more[i - Len(first)]
      BY <2>4, <2>6, ConcatProperties
    <3>3. Len(first) = n /\ Len(more) = m - 1
      BY <2>4, <2>6
    <3> QED
      BY <3>1, <3>2, <3>3
  <2> HIDE DEF n, m, old, more, first, T
  <2>8. \A i \in 1..Len(new) :
          \/ i <= n /\ new[i] \in {file[i], TornRow}
          \/ i > n /\ i - (n - 1) \in 1..m /\ new[i] = rows[i - (n - 1)]
    <3> SUFFICES ASSUME NEW i \in 1..Len(new)
                 PROVE  \/ i <= n /\ new[i] \in {file[i], TornRow}
                        \/ i > n /\ i - (n - 1) \in 1..m /\ new[i] = rows[i - (n - 1)]
      OBVIOUS
    <3>1. CASE i <= n
      <4>1. i = n \/ i \in 1..(n - 1)
        BY <2>1, <2>7, <3>1
      <4> QED
        BY <2>1, <2>6, <2>7, <3>1, <4>1
    <3>2. CASE i > n
      <4>1. i - n \in 1..(m - 1) /\ (i - n) + 1 = i - (n - 1)
        BY <2>1, <2>7, <3>2
      <4> QED
        BY <2>1, <2>4, <2>7, <3>2, <4>1
    <3> QED
      BY <2>1, <2>7, <3>1, <3>2
  <2>9. n \in 1..Len(new) /\ new[n] = TornRow
    BY <2>1, <2>6, <2>7
  <2>10. new # << >>
    <3>1. Len(<< >>) = 0
      BY EmptySeq
    <3> QED
      BY <2>1, <2>7, <3>1
  <2>11. n - 1 \in Int
    BY <2>1
  <2> QED
    <3>1. \A i \in 1..Len(new) : IsKept(rows, n - 1, i)
      BY <2>8 DEF IsKept, n, m
    <3> QED
      BY <2>7, <2>9, <2>10, <2>11, <3>1 DEF T, NothingLost
<1> QED
  BY <1>2, <1>3

-----------------------------------------------------------------------------
LEMMA SameRecord ==
  ASSUME NEW r \in Records, NEW sym, NEW hash
  PROVE  [sym |-> sym, hash |-> hash] = r <=> sym = r.sym /\ hash = r.hash
BY DEF Records

LEMMA ExistingRow ==
  ASSUME file \in Seq(Rows \cup {TornRow}), NEW r \in Records
  PROVE  Existing(r) <=> HasRow(r)
<1>1. Len(file) \in Nat /\ DOMAIN file = 1..Len(file)
  BY LenProperties
<1>2. HasRow(r) <=> \E i \in 1..Len(file) : file[i] # TornRow /\ file[i].sym = r.sym /\ file[i].hash = r.hash
  BY SameRecord DEF HasRow
<1> QED
  BY <1>1, <1>2 DEF Existing, Lines, ToSet

\* What a run is asked for, no record twice.
LEMMA AskedOnce ==
  ASSUME InventoryInv, NEW o \in Commands,
         \A i \in 1..Len(o.symbols) : \E r \in ToSet(inventory.rows) : r.sym = o.symbols[i]
  PROVE  Asked(o) \in Seq(Records) /\ EachOnce(Asked(o))
<1> DEFINE record(s) == CHOOSE r \in ToSet(inventory.rows) : r.sym = s
           e(i) == record(o.symbols[i])
           n == Len(o.symbols)
           named == [i \in 1..n |-> e(i)]
<1>1. /\ o.symbols \in Seq(Names) /\ n \in Nat
      /\ \A i, j \in 1..n : o.symbols[i] = o.symbols[j] => i = j
  BY LenProperties, EnrichmentAssumption
<1>2. ToSet(inventory.rows) \subseteq Records
  BY LenProperties DEF InventoryInv, ToSet
<1>3. \A i \in 1..n : e(i) \in Records /\ e(i).sym = o.symbols[i]
  <2> SUFFICES ASSUME NEW i \in 1..n PROVE e(i) \in Records /\ e(i).sym = o.symbols[i]
    OBVIOUS
  <2>1. \E r \in ToSet(inventory.rows) : r.sym = o.symbols[i]
    OBVIOUS
  <2>2. e(i) \in ToSet(inventory.rows) /\ e(i).sym = o.symbols[i]
    BY <2>1
  <2> QED
    BY <1>2, <2>2
<1>4. Asked(o) = First(IF o.symbols = << >> THEN inventory.rows ELSE named, o.limit)
  BY DEF Asked
<1> HIDE DEF e
<1>5. named \in Seq(Records)
  BY <1>1, <1>3, IsASeq
<1>6. EachOnce(named)
  BY <1>1, <1>3 DEF EachOnce
<1>7. inventory.rows \in Seq(Records) /\ EachOnce(inventory.rows)
  BY DEF InventoryInv
<1> HIDE DEF named
<1> QED
  BY <1>4, <1>5, <1>6, <1>7, FirstOnce

\* What a run does not skip: all it is asked for and the file has no row of.
LEMMA LeftOnce ==
  ASSUME file \in Seq(Rows \cup {TornRow}), NEW o,
         Asked(o) \in Seq(Records), EachOnce(Asked(o)), o.force \in BOOLEAN
  PROVE  /\ Left(o) \in Seq(Records) /\ EachOnce(Left(o))
         /\ \A r \in ToSet(Left(o)) : r \in Records /\ (o.force \/ ~HasRow(r))
         /\ \A r \in ToSet(Asked(o)) : HasRow(r) \/ r \in ToSet(Left(o))
<1> DEFINE keep == {r \in Records : o.force \/ ~Existing(r)}
<1>1. PICK s \in Seq(Records) : s = Asked(o) /\ EachOnce(s)
  OBVIOUS
<1>2. PICK left : left = Left(o) /\ left = Select(s, keep)
  BY <1>1 DEF Left
<1> HIDE DEF keep
<1>3. /\ left \in Seq(Records \cap keep)
      /\ \A i \in DOMAIN s : s[i] \in keep => \E n \in DOMAIN left : left[n] = s[i]
      /\ \A n, m \in DOMAIN left : n # m =>
           \E i, j \in DOMAIN s : i # j /\ left[n] = s[i] /\ left[m] = s[j]
  <2> DEFINE sel == Select(s, keep)
  <2>1. sel \in Seq(Records \cap keep)
    BY SelectKeeps
  <2>2. \A i \in DOMAIN s : s[i] \in keep => \E k \in DOMAIN sel : sel[k] = s[i]
    BY <2>1, SelectKeeps
  <2>3. \A k, m \in DOMAIN sel : k # m =>
          \E i, j \in DOMAIN s : i # j /\ sel[k] = s[i] /\ sel[m] = s[j]
    BY <2>1, SelectKeeps
  <2> QED
    BY <1>2, <2>1, <2>2, <2>3
<1>4. left \in Seq(Records)
  BY <1>3, SeqMonotonic
<1>5. EachOnce(left)
  BY <1>1, <1>3 DEF EachOnce
<1>6. \A r \in ToSet(left) : r \in Records /\ r \in keep
  BY <1>3, LenProperties DEF ToSet
<1>7. \A r \in ToSet(s) : r \in Records
  BY LenProperties DEF ToSet
<1>8. \A r \in ToSet(s) : r \in keep => r \in ToSet(left)
  BY <1>3 DEF ToSet
<1>9. \A r \in Records : (r \in keep <=> o.force \/ ~HasRow(r))
  BY ExistingRow DEF keep
<1> QED
  BY <1>1, <1>4, <1>5, <1>2, <1>6, <1>7, <1>8, <1>9

LEMMA ChunkRowsAre ==
  ASSUME JobInv, NEW c \in DOMAIN chunks, NEW force \in BOOLEAN, force = \A o \in enrich : o.force
  PROVE  /\ chunks[c] \in Seq(Records) /\ Len(chunks[c]) \in Nat /\ DOMAIN chunks[c] = 1..Len(chunks[c])
         /\ ChunkRows(c) \in Seq(Rows \cup {TornRow}) /\ Len(ChunkRows(c)) = Len(chunks[c])
         /\ \A k \in 1..Len(chunks[c]) :
              /\ ChunkRows(c)[k] = [sym |-> chunks[c][k].sym, hash |-> chunks[c][k].hash, forced |-> force]
              /\ ChunkRows(c)[k] \in Rows
<1>1. chunks[c] \in Seq(Records)
  <2> DEFINE S == Seq(Records)
  <2>1. chunks \in Seq(S)
    BY DEF JobInv
  <2> HIDE DEF S
  <2>2. c \in 1..Len(chunks)
    BY <2>1, LenProperties
  <2>3. chunks[c] \in S
    BY <2>1, <2>2, ElementOfSeq
  <2> QED
    BY <2>3 DEF S
<1> DEFINE n == Len(chunks[c])
           e(k) == [sym |-> chunks[c][k].sym, hash |-> chunks[c][k].hash, forced |-> force]
<1>2. n \in Nat /\ DOMAIN chunks[c] = 1..n /\ \A k \in 1..n : chunks[c][k] \in Records
  BY <1>1, LenProperties
<1>3. ChunkRows(c) = [k \in 1..n |-> e(k)]
  BY DEF ChunkRows
<1>4. \A k \in 1..n : e(k) \in Rows
  BY <1>2 DEF Records, Rows
<1>5. \A k \in 1..n : ChunkRows(c)[k] = e(k)
  BY <1>3
<1>6. ChunkRows(c) \in Seq(Rows \cup {TornRow}) /\ DOMAIN ChunkRows(c) = 1..n
  <2> HIDE DEF e, n
  <2>1. \A k \in 1..n : e(k) \in Rows \cup {TornRow}
    BY <1>4
  <2>2. [k \in 1..n |-> e(k)] \in Seq(Rows \cup {TornRow})
    BY <1>2, <2>1, IsASeq DEF n
  <2> QED
    BY <1>3, <2>2
<1>7. Len(ChunkRows(c)) = n
  BY <1>2, <1>6, LenProperties
<1> QED
  BY <1>1, <1>2, <1>4, <1>5, <1>6, <1>7

-----------------------------------------------------------------------------
\* Rows of a batch that is pending, written as far as they may get, give no
\* facts a second row.
LEMMA FileStep ==
  ASSUME FileInv, JobInv, FreshInv,
         NEW o \in Commands, enrich = {o}, NEW c \in Pending,
         c \in DOMAIN chunks, DOMAIN chunks[c] = 1..Len(chunks[c]),
         NEW rows \in Seq(Rows \cup {TornRow}), Len(rows) <= Len(chunks[c]), Len(chunks[c]) \in Nat,
         \A k \in 1..Len(rows) : rows[k] = TornRow \/ (/\ rows[k].sym = chunks[c][k].sym
                                                    /\ rows[k].hash = chunks[c][k].hash
                                                    /\ rows[k].forced = o.force),
         \A k \in 1..Len(chunks[c]) : chunks[c][k] \in Records,
         file' = Appended(rows)
  PROVE  /\ file' \in Seq(Rows \cup {TornRow}) /\ (rows # << >> => file' # << >>)
         /\ NoSecondRow'
<1> DEFINE n == Len(file)
           m == Len(rows)
           L == Len(chunks[c])
<1>1. PICK new : new = file'
  OBVIOUS
<1>2. file \in Seq(Rows \cup {TornRow}) /\ n \in Nat /\ m \in Nat /\ DOMAIN file = 1..n
  BY LenProperties DEF FileInv
<1>3. /\ new \in Seq(Rows \cup {TornRow}) /\ (rows # << >> => new # << >>)
      /\ \E off \in Int : \A i \in 1..Len(new) :
           \/ i <= Len(file) /\ new[i] \in {file[i], TornRow}
           \/ i > Len(file) /\ i - off \in 1..Len(rows) /\ new[i] = rows[i - off]
  <2>1. file \in Seq(Rows \cup {TornRow}) /\ ended \in BOOLEAN /\ (~ended => file # << >>)
    BY DEF FileInv
  <2>2. new = Appended(rows)
    BY <1>1
  <2>3. new \in Seq(Rows \cup {TornRow}) /\ (rows # << >> => new # << >>)
    BY <2>1, <2>2, AppendedIs
  <2>4. \E off \in Int : \A i \in 1..Len(new) :
          \/ i <= Len(file) /\ new[i] \in {file[i], TornRow}
          \/ i > Len(file) /\ i - off \in 1..Len(rows) /\ new[i] = rows[i - off]
    <3>1. PICK off : /\ off \in Int
                     /\ \A i \in 1..Len(Appended(rows)) : IsKept(rows, off, i)
      BY <2>1, <2>2, <2>3, AppendedIs
    <3>2. \A i \in 1..Len(new) :
            \/ i <= Len(file) /\ new[i] \in {file[i], TornRow}
            \/ i > Len(file) /\ i - off \in 1..Len(rows) /\ new[i] = rows[i - off]
      BY <2>2, <3>1 DEF IsKept
    <3> QED
      BY <3>1, <3>2
  <2> QED
    BY <2>3, <2>4
<1>4. PICK off \in Int : \A i \in 1..Len(new) :
        \/ i <= n /\ new[i] \in {file[i], TornRow}
        \/ i > n /\ i - off \in 1..m /\ new[i] = rows[i - off]
  BY <1>3
<1>5. Len(new) \in Nat
  BY <1>3, LenProperties
<1>6. o.force \in BOOLEAN
  BY EnrichmentAssumption
<1>7. \A i, j \in DOMAIN chunks[c] : chunks[c][i].sym = chunks[c][j].sym => i = j
  <2>1. \A d, e \in DOMAIN chunks : \A i \in DOMAIN chunks[d], j \in DOMAIN chunks[e] :
          chunks[d][i].sym = chunks[e][j].sym => d = e /\ i = j
    BY DEF JobInv
  <2> QED
    BY <2>1
<1>m. m <= L /\ L \in Nat /\ \A k \in 1..L : chunks[c][k] \in Records
  OBVIOUS
<1>r. \A k \in 1..m : rows[k] = TornRow \/ (/\ rows[k].sym = chunks[c][k].sym
                                       /\ rows[k].hash = chunks[c][k].hash
                                       /\ rows[k].forced = o.force)
  OBVIOUS
<1>d. DOMAIN chunks[c] = 1..L
  OBVIOUS
<1> DEFINE Twice(s, i, j) == /\ i < j /\ TornRow \notin {s[i], s[j]}
                             /\ s[i].sym = s[j].sym /\ s[i].hash = s[j].hash
<1>8. ASSUME NEW i \in 1..Len(new), NEW j \in 1..Len(new), Twice(new, i, j)
      PROVE  new[j].forced
  <2> HIDE DEF n, m, L
  <2>1. new[i] # TornRow /\ new[j] # TornRow /\ i < j /\ new[i].sym = new[j].sym /\ new[i].hash = new[j].hash
    BY <1>8
  <2>2. i \in Nat /\ j \in Nat /\ i >= 1
    BY <1>5
  <2>3. CASE j <= n
    <3>1. i <= n /\ i \in 1..n /\ j \in 1..n
      BY <1>2, <2>1, <2>2, <2>3
    <3>2. new[i] = file[i] /\ new[j] = file[j]
      BY <1>2, <1>4, <2>1, <2>2, <2>3, <3>1
    <3>3. Twice(file, i, j)
      BY <2>1, <3>2
    <3>4. file[j].forced
      BY <3>1, <3>3 DEF FileInv, NoSecondRow, n
    <3> QED
      BY <3>2, <3>4
  <2>4. CASE j > n
    <3>1. j - off \in 1..m /\ new[j] = rows[j - off]
      BY <1>2, <1>4, <2>2, <2>4
    <3>2. PICK k \in 1..m : k = j - off /\ new[j] = rows[k]
      BY <3>1
    <3>3. k \in 1..L /\ k \in DOMAIN chunks[c]
      BY <1>2, <1>d, <1>m
    <3>4. new[j].sym = chunks[c][k].sym /\ new[j].hash = chunks[c][k].hash /\ new[j].forced = o.force
      BY <1>r, <2>1, <3>2
    <3>5. CASE o.force
      BY <3>4, <3>5
    <3>6. CASE ~o.force /\ i <= n
      <4>1. new[i] = file[i] /\ i \in 1..n
        BY <1>2, <1>4, <2>1, <2>2, <3>6
      <4>2. chunks[c][k] \in Records
        BY <1>m, <3>3
      <4>3. [sym |-> file[i].sym, hash |-> file[i].hash] = chunks[c][k]
        <5>1. PICK r \in Records : r = chunks[c][k]
          BY <4>2
        <5>2. file[i].sym = r.sym /\ file[i].hash = r.hash
          BY <2>1, <3>4, <4>1, <5>1
        <5>3. [sym |-> file[i].sym, hash |-> file[i].hash] = r
          BY <5>2 DEF Records
        <5> QED
          BY <5>1, <5>3
      <4>4. HasRow(chunks[c][k])
        BY <2>1, <4>1, <4>3 DEF HasRow, n
      <4>5. ~HasRow(chunks[c][k])
        BY <3>3, <3>6 DEF FreshInv
      <4> QED
        BY <4>4, <4>5
    <3>7. CASE i > n
      <4>1. i - off \in 1..m /\ new[i] = rows[i - off]
        BY <1>2, <1>4, <2>2, <3>7
      <4>2. PICK h \in 1..m : h = i - off /\ new[i] = rows[h]
        BY <4>1
      <4>3. h \in 1..L /\ h \in DOMAIN chunks[c]
        BY <1>2, <1>d, <1>m
      <4>4. new[i].sym = chunks[c][h].sym
        BY <1>r, <2>1, <4>2
      <4>5. h = k
        BY <1>7, <2>1, <3>3, <3>4, <4>3, <4>4
      <4>6. i = j
        BY <2>2, <3>2, <4>2, <4>5
      <4> QED
        BY <2>1, <2>2, <4>6
    <3> QED
      BY <1>2, <1>6, <2>2, <3>5, <3>6, <3>7
  <2> QED
    BY <1>2, <2>2, <2>3, <2>4
<1>9. \A i, j \in 1..Len(new) : Twice(new, i, j) => new[j].forced
  BY <1>8
<1> QED
  BY <1>1, <1>3, <1>9 DEF NoSecondRow

-----------------------------------------------------------------------------
LEMMA IdleStep == EnrichEnds => JobInv' /\ FreshInv' /\ CoverInv'
<1> SUFFICES ASSUME EnrichEnds PROVE JobInv' /\ FreshInv' /\ CoverInv'
  OBVIOUS
<1>1. enrich' = {} /\ asked' = << >> /\ chunks' = << >> /\ next_chunk' = 1 /\ DOMAIN futures' = {}
  BY DEF EnrichEnds
<1>2. << >> \in Seq(Records) /\ << >> \in Seq(Seq(Records)) /\ Len(<< >>) = 0 /\ DOMAIN << >> = {}
  BY EmptySeq
<1>3. JobInv'
  BY <1>1, <1>2 DEF JobInv
<1>4. FreshInv'
  BY <1>1 DEF FreshInv
<1>5. CoverInv'
  BY <1>1, <1>2 DEF CoverInv, ToSet
<1> QED
  BY <1>3, <1>4, <1>5

\* A step that leaves the file and what the run has still to collect.
LEMMA SameRun ==
  ASSUME EnrichInv, UNCHANGED <<file, ended, enrich, asked, chunks, next_chunk>>,
         DOMAIN futures' = DOMAIN futures
  PROVE  FileInv' /\ JobInv' /\ FreshInv' /\ CoverInv'
<1>1. FileInv'
  BY DEF EnrichInv, FileInv, NoSecondRow
<1>2. JobInv'
  BY DEF EnrichInv, JobInv
<1>3. Pending' = Pending
  BY DEF Pending
<1>4. FreshInv'
  BY <1>3 DEF EnrichInv, FreshInv, HasRow
<1>5. CoverInv'
  BY <1>3 DEF EnrichInv, CoverInv, HasRow, Lines
<1> QED
  BY <1>1, <1>2, <1>4, <1>5

LEMMA StartStep ==
  ASSUME EnrichInv, NEW o \in Commands, StartEnrich(o)
  PROVE  JobInv' /\ FreshInv' /\ CoverInv'
<1>1. o.force \in BOOLEAN /\ o.batch_size \in Nat \ {0} /\ o.jobs \in Nat \ {0}
  BY EnrichmentAssumption
<1>2. file \in Seq(Rows \cup {TornRow}) /\ file' = file
  BY DEF EnrichInv, FileInv, StartEnrich
<1>3. PICK a : a = Asked(o) /\ a \in Seq(Records) /\ EachOnce(a)
  BY AskedOnce DEF EnrichInv, StartEnrich
<1>4. PICK left : left = Left(o)
  OBVIOUS
<1>5. /\ left \in Seq(Records) /\ EachOnce(left)
      /\ \A r \in ToSet(left) : r \in Records /\ (o.force \/ ~HasRow(r))
      /\ \A r \in ToSet(a) : HasRow(r) \/ r \in ToSet(left)
  BY <1>1, <1>2, <1>3, <1>4, LeftOnce
<1>6. PICK cs : cs = Chunks(left, o.batch_size)
  OBVIOUS
<1>7. /\ cs \in Seq(Seq(Records))
      /\ \A c, d \in DOMAIN cs : \A i \in DOMAIN cs[c], j \in DOMAIN cs[d] :
           cs[c][i].sym = cs[d][j].sym => c = d /\ i = j
      /\ \A c \in DOMAIN cs : \A i \in DOMAIN cs[c] : cs[c][i] \in ToSet(left)
      /\ \A r \in ToSet(left) : \E c \in DOMAIN cs : r \in ToSet(cs[c])
  <2>1. Partition(left, cs)
    BY <1>1, <1>5, <1>6, ChunksAre
  <2> QED
    BY <2>1 DEF Partition
<1> DEFINE n == Len(cs)
<1>8. n \in Nat /\ DOMAIN cs = 1..n
  BY <1>7, LenProperties
<1>9. PICK first \in 0..n : /\ first = 0 => n = 0
                            /\ enrich' = {o} /\ asked' = a /\ chunks' = cs
                            /\ DOMAIN futures' = 1..first /\ next_chunk' = first + 1
  <2>1. PICK first : /\ first = IF o.jobs < n THEN o.jobs ELSE n
                     /\ enrich' = {o} /\ asked' = a /\ chunks' = cs
                     /\ DOMAIN futures' = 1..first /\ next_chunk' = first + 1
    BY <1>3, <1>4, <1>6 DEF StartEnrich
  <2>2. first \in 0..n /\ (first = 0 => n = 0)
    BY <1>1, <1>8, <2>1
  <2> QED
    BY <2>1, <2>2
<1>10. Pending' = 1..n
  <2>1. Pending' = 1..first \cup (first + 1)..n
    BY <1>9 DEF Pending
  <2> QED
    BY <1>8, <2>1
<1>11. JobInv'
  <2>1. DOMAIN futures' \subseteq 1..(next_chunk' - 1) /\ next_chunk' \in 1..(n + 1)
    BY <1>8, <1>9
  <2>2. DOMAIN futures' = {} => next_chunk' = n + 1
    <3>1. first # 0 => 1 \in 1..first
      BY <1>8, <1>9
    <3> QED
      BY <1>8, <1>9, <3>1
  <2>3. asked' \in Seq(Records) /\ chunks' \in Seq(Seq(Records)) /\ Len(chunks') = n /\ enrich' = {o}
    BY <1>3, <1>7, <1>9
  <2>4. \A c, d \in DOMAIN chunks' : \A i \in DOMAIN chunks'[c], j \in DOMAIN chunks'[d] :
          chunks'[c][i].sym = chunks'[d][j].sym => c = d /\ i = j
    BY <1>7, <1>9
  <2> QED
    BY <2>1, <2>2, <2>3, <2>4 DEF JobInv
<1>12. \A r : HasRow(r)' = HasRow(r)
  BY <1>2 DEF HasRow
<1>13. FreshInv'
  <2>1. \A c \in 1..n : \A i \in DOMAIN cs[c] : o.force \/ ~HasRow(cs[c][i])
    BY <1>5, <1>7, <1>8
  <2>2. ~o.force => \A c \in Pending' : \A i \in DOMAIN chunks'[c] : ~HasRow(chunks[c][i])'
    BY <1>2, <1>9, <1>10, <2>1 DEF HasRow
  <2> QED
    BY <1>9, <2>2 DEF FreshInv
<1>14. CoverInv'
  <2>1. \A r \in ToSet(a) : HasRow(r) \/ \E c \in 1..n : r \in ToSet(cs[c])
    BY <1>5, <1>7, <1>8
  <2>2. \A r \in ToSet(asked') : HasRow(r)' \/ \E c \in Pending' : r \in ToSet(chunks'[c])
    BY <1>9, <1>10, <1>12, <2>1
  <2>3. ToSet(asked)' = ToSet(asked') /\ \A c : ToSet(chunks[c])' = ToSet(chunks'[c])
    BY DEF ToSet
  <2> QED
    BY <2>2, <2>3 DEF CoverInv
<1> QED
  BY <1>11, <1>13, <1>14

\* What is the case of a batch that is pending, and of its rows.
LEMMA PendingIs ==
  ASSUME EnrichInv, NEW c \in DOMAIN futures
  PROVE  /\ c \in Pending /\ c \in DOMAIN chunks
         /\ \E o \in Commands : enrich = {o} /\ o.force \in BOOLEAN
<1>1. c \in 1..(next_chunk - 1) /\ next_chunk \in 1..(Len(chunks) + 1)
  BY DEF EnrichInv, JobInv
<1>2. chunks \in Seq(Seq(Records))
  BY DEF EnrichInv, JobInv
<1>3. Len(chunks) \in Nat /\ DOMAIN chunks = 1..Len(chunks)
  BY <1>2, LenProperties
<1>4. c \in DOMAIN chunks
  BY <1>1, <1>3
<1>5. c \in Pending
  BY DEF Pending
<1>6. chunks # << >>
  BY <1>4
<1>7. enrich # {}
  BY <1>6 DEF EnrichInv, JobInv
<1>8. PICK o \in Commands : enrich = {o}
  BY <1>7 DEF EnrichInv, JobInv
<1>9. o.force \in BOOLEAN
  BY EnrichmentAssumption
<1> QED
  BY <1>4, <1>5, <1>8, <1>9

LEMMA CollectStep ==
  ASSUME EnrichInv, NEW c \in DOMAIN futures, Collect(c)
  PROVE  FileInv' /\ JobInv' /\ FreshInv' /\ CoverInv'
<1>1. PICK o \in Commands : enrich = {o} /\ o.force \in BOOLEAN
  BY PendingIs
<1>2. c \in Pending /\ c \in DOMAIN chunks
  BY PendingIs
<1>3. FileInv /\ JobInv /\ FreshInv /\ CoverInv
  BY DEF EnrichInv
<1>4. PICK rows : rows = ChunkRows(c)
  OBVIOUS
<1>5. /\ chunks[c] \in Seq(Records) /\ Len(chunks[c]) \in Nat /\ DOMAIN chunks[c] = 1..Len(chunks[c])
      /\ rows \in Seq(Rows \cup {TornRow}) /\ Len(rows) = Len(chunks[c])
      /\ \A k \in 1..Len(chunks[c]) :
           /\ rows[k] = [sym |-> chunks[c][k].sym, hash |-> chunks[c][k].hash, forced |-> o.force]
           /\ rows[k] \in Rows
  <2>1. o.force = \A p \in enrich : p.force
    BY <1>1
  <2> QED
    BY <1>1, <1>2, <1>3, <1>4, <2>1, ChunkRowsAre
<1>6. \A k \in 1..Len(chunks[c]) : chunks[c][k] \in Records
  BY <1>5, LenProperties
<1>7. /\ \A k \in 1..Len(rows) : /\ rows[k].sym = chunks[c][k].sym
                                 /\ rows[k].hash = chunks[c][k].hash
                                 /\ rows[k].forced = o.force
      /\ \A k \in 1..Len(rows) : rows[k] # TornRow
  <2>1. TornRow \notin Rows
    BY EnrichmentAssumption
  <2>2. ASSUME NEW k \in 1..Len(rows)
        PROVE  /\ rows[k].sym = chunks[c][k].sym /\ rows[k].hash = chunks[c][k].hash
               /\ rows[k].forced = o.force /\ rows[k] # TornRow
    <3>1. rows[k] \in Rows /\ rows[k] = [sym |-> chunks[c][k].sym, hash |-> chunks[c][k].hash, forced |-> o.force]
      BY <1>5
    <3> QED
      BY <2>1, <3>1
  <2> QED
    BY <2>2
<1>8. file' = Appended(rows) /\ ended' = TRUE /\ UNCHANGED <<enrich, asked, chunks>> /\ SubmitNext(c)
  BY <1>4 DEF Collect
<1>9. file' \in Seq(Rows \cup {TornRow}) /\ NoSecondRow'
  <2>1. /\ rows \in Seq(Rows \cup {TornRow}) /\ Len(chunks[c]) \in Nat /\ Len(rows) <= Len(chunks[c])
        /\ DOMAIN chunks[c] = 1..Len(chunks[c])
    BY <1>5
  <2>2. \A k \in 1..Len(rows) : rows[k] = TornRow \/ (/\ rows[k].sym = chunks[c][k].sym
                                                  /\ rows[k].hash = chunks[c][k].hash
                                                  /\ rows[k].forced = o.force)
    BY <1>7
  <2>3. file' = Appended(rows)
    BY <1>8
  <2> QED
    BY <1>1, <1>2, <1>3, <1>6, <2>1, <2>2, <2>3, FileStep
<1>10. FileInv'
  BY <1>8, <1>9 DEF FileInv
<1> DEFINE n == Len(chunks)
<1>11. /\ n \in Nat /\ DOMAIN chunks = 1..n /\ next_chunk \in 1..(n + 1)
       /\ DOMAIN futures \subseteq 1..(next_chunk - 1)
  BY <1>3, LenProperties DEF JobInv
<1>12. IF next_chunk <= n
       THEN DOMAIN futures' = (DOMAIN futures \ {c}) \cup {next_chunk} /\ next_chunk' = next_chunk + 1
       ELSE DOMAIN futures' = DOMAIN futures \ {c} /\ next_chunk' = next_chunk
  BY <1>8 DEF SubmitNext
<1>13. Pending' = Pending \ {c}
  <2>1. c < next_chunk /\ c \in Nat
    BY <1>11
  <2>2. Pending' = DOMAIN futures' \cup next_chunk'..n
    BY <1>8 DEF Pending
  <2>3. Pending = DOMAIN futures \cup next_chunk..n
    BY DEF Pending
  <2> HIDE DEF n
  <2>4. CASE next_chunk <= n
    <3>1. next_chunk..n = {next_chunk} \cup (next_chunk + 1)..n /\ c \notin next_chunk..n
      BY <1>11, <2>1, <2>4
    <3> QED
      BY <1>12, <2>2, <2>3, <2>4, <3>1
  <2>5. CASE ~(next_chunk <= n)
    <3>1. next_chunk..n = {}
      BY <1>11, <2>5
    <3> QED
      BY <1>12, <2>2, <2>3, <2>5, <3>1
  <2> QED
    BY <2>4, <2>5
<1>14. JobInv'
  <2>1. next_chunk' \in 1..(n + 1) /\ DOMAIN futures' \subseteq 1..(next_chunk' - 1)
    <3> HIDE DEF n
    <3> QED
      BY <1>11, <1>12
  <2>2. DOMAIN futures' = {} => next_chunk' = n + 1
    <3> HIDE DEF n
    <3> QED
      BY <1>11, <1>12
  <2>3. chunks' = chunks /\ asked' = asked /\ enrich' = enrich
    BY <1>8
  <2> QED
    BY <1>3, <2>1, <2>2, <2>3 DEF JobInv
<1>15. PICK new : new = file' /\ new = Appended(rows) /\ new \in Seq(Rows \cup {TornRow})
  BY <1>8, <1>9
<1>16. NothingLost(new, rows) /\ \E off \in Int : \A i \in 1..Len(new) : IsKept(rows, off, i)
  <2>1. file \in Seq(Rows \cup {TornRow}) /\ ended \in BOOLEAN /\ (~ended => file # << >>)
    BY <1>3 DEF FileInv
  <2>2. rows \in Seq(Rows \cup {TornRow}) /\ new = Appended(rows)
    BY <1>5, <1>15
  <2> QED
    BY <2>1, <2>2, AppendedIs
<1>17. Len(new) \in Nat /\ DOMAIN new = 1..Len(new) /\ Len(file) \in Nat /\ DOMAIN file = 1..Len(file)
  BY <1>3, <1>15, LenProperties DEF FileInv
\* What has a row now had one, or is of the batch.
<1>18. ASSUME NEW r, HasRow(r)'
       PROVE  HasRow(r) \/ \E k \in DOMAIN chunks[c] : r.sym = chunks[c][k].sym
  <2>1. PICK i \in 1..Len(new) : new[i] # TornRow /\ [sym |-> new[i].sym, hash |-> new[i].hash] = r
    BY <1>15, <1>18 DEF HasRow
  <2>2. PICK off \in Int : IsKept(rows, off, i)
    BY <1>16
  <2>3. CASE i <= Len(file)
    <3>1. new[i] = file[i] /\ i \in 1..Len(file)
      BY <1>15, <1>17, <2>1, <2>2, <2>3 DEF IsKept
    <3> QED
      BY <2>1, <3>1 DEF HasRow
  <2>4. CASE i > Len(file)
    <3>1. i - off \in 1..Len(rows) /\ new[i] = rows[i - off]
      BY <1>15, <1>17, <2>1, <2>2, <2>4 DEF IsKept
    <3>2. PICK k \in 1..Len(rows) : new[i] = rows[k]
      BY <3>1
    <3>3. r.sym = new[i].sym
      BY <2>1
    <3>4. r.sym = chunks[c][k].sym /\ k \in DOMAIN chunks[c]
      BY <1>5, <1>7, <3>2, <3>3
    <3> QED
      BY <3>4
  <2> QED
    BY <1>17, <2>3, <2>4
<1>20. \A k \in DOMAIN chunks : \A i \in DOMAIN chunks[k], j \in DOMAIN chunks[c] :
         chunks[k][i].sym = chunks[c][j].sym => k = c
  BY <1>2, <1>3 DEF JobInv
<1>21. FreshInv'
  <2> SUFFICES ASSUME ~o.force, NEW d \in Pending \ {c}, NEW i \in DOMAIN chunks[d], HasRow(chunks[d][i])'
               PROVE  FALSE
    BY <1>1, <1>8, <1>13 DEF FreshInv
  <2>1. ~HasRow(chunks[d][i])
    BY <1>1, <1>3 DEF FreshInv
  <2>2. PICK r : r = chunks[d][i]
    OBVIOUS
  <2>3. HasRow(r)'
    BY <1>8, <2>2 DEF HasRow
  <2>4. PICK k \in DOMAIN chunks[c] : r.sym = chunks[c][k].sym
    BY <1>18, <2>1, <2>2, <2>3
  <2>5. d \in DOMAIN chunks
    BY <1>11 DEF Pending
  <2> QED
    BY <1>20, <2>2, <2>4, <2>5
<1>22. CoverInv'
  <2>1. CASE \A i \in 1..Len(new) : new[i] # TornRow
    <3>1. /\ \A i \in 1..Len(file) : \E j \in 1..Len(new) : new[j] = file[i]
          /\ \A i \in 1..Len(rows) : \E j \in 1..Len(new) : new[j] = rows[i]
      BY <1>16, <2>1 DEF NothingLost
    <3>2. TornRow \notin Lines
      BY <1>17, <2>1, <3>1 DEF Lines, ToSet
    <3>3. ASSUME NEW r \in ToSet(asked)
          PROVE  HasRow(r)' \/ \E d \in Pending' : r \in ToSet(chunks[d])
      <4>1. CASE HasRow(r)
        <5>1. PICK i \in 1..Len(file) : file[i] # TornRow /\ [sym |-> file[i].sym, hash |-> file[i].hash] = r
          BY <4>1 DEF HasRow
        <5>2. PICK j \in 1..Len(new) : new[j] = file[i]
          BY <3>1
        <5> QED
          BY <1>15, <5>1, <5>2 DEF HasRow
      <4>2. CASE r \in ToSet(chunks[c])
        <5>1. PICK k \in 1..Len(chunks[c]) : chunks[c][k] = r
          BY <1>5, <4>2 DEF ToSet
        <5>2. k \in 1..Len(rows) /\ r \in Records
          BY <1>5, <1>6, <5>1
        <5>3. PICK j \in 1..Len(new) : new[j] = rows[k]
          BY <3>1, <5>2
        <5>4. new[j] # TornRow /\ new[j].sym = r.sym /\ new[j].hash = r.hash
          <6>1. rows[k] # TornRow /\ rows[k].sym = r.sym /\ rows[k].hash = r.hash
            BY <1>7, <5>1, <5>2
          <6> QED
            BY <5>3, <6>1, Zenon
        <5>5. [sym |-> new[j].sym, hash |-> new[j].hash] = r
          BY <5>2, <5>4 DEF Records
        <5> QED
          BY <1>15, <5>4, <5>5 DEF HasRow
      <4>3. CASE \E d \in Pending \ {c} : r \in ToSet(chunks[d])
        BY <1>13, <4>3
      <4> QED
        BY <1>3, <3>2, <4>1, <4>2, <4>3 DEF CoverInv
    <3>4. asked' = asked /\ \A d : ToSet(chunks[d])' = ToSet(chunks[d])
      BY <1>8 DEF ToSet
    <3>5. ToSet(asked)' = ToSet(asked)
      BY <1>8 DEF ToSet
    <3> QED
      BY <3>3, <3>4, <3>5 DEF CoverInv
  <2>2. CASE \E i \in 1..Len(new) : new[i] = TornRow
    BY <1>15, <1>17, <2>2 DEF CoverInv, Lines, ToSet
  <2> QED
    BY <2>1, <2>2
<1> QED
  BY <1>10, <1>14, <1>21, <1>22

LEMMA WriteCutStep ==
  ASSUME EnrichInv, NEW c \in DOMAIN futures, WriteCut(c)
  PROVE  FileInv'
<1>1. PICK o \in Commands : enrich = {o} /\ o.force \in BOOLEAN
  BY PendingIs
<1>2. c \in Pending /\ c \in DOMAIN chunks
  BY PendingIs
<1>3. FileInv /\ JobInv /\ FreshInv
  BY DEF EnrichInv
<1>4. PICK rows : rows = ChunkRows(c)
  OBVIOUS
<1>5. /\ chunks[c] \in Seq(Records) /\ Len(chunks[c]) \in Nat /\ DOMAIN chunks[c] = 1..Len(chunks[c])
      /\ rows \in Seq(Rows \cup {TornRow}) /\ Len(rows) = Len(chunks[c])
      /\ \A k \in 1..Len(chunks[c]) :
           /\ rows[k] = [sym |-> chunks[c][k].sym, hash |-> chunks[c][k].hash, forced |-> o.force]
           /\ rows[k] \in Rows
  <2>1. o.force = \A p \in enrich : p.force
    BY <1>1
  <2> QED
    BY <1>1, <1>2, <1>3, <1>4, <2>1, ChunkRowsAre
<1>6. \A k \in 1..Len(chunks[c]) : chunks[c][k] \in Records
  BY <1>5, LenProperties
<1>7. \A k \in 1..Len(chunks[c]) : /\ rows[k].sym = chunks[c][k].sym
                                   /\ rows[k].hash = chunks[c][k].hash
                                   /\ rows[k].forced = o.force
  <2> SUFFICES ASSUME NEW k \in 1..Len(chunks[c])
               PROVE  /\ rows[k].sym = chunks[c][k].sym
                      /\ rows[k].hash = chunks[c][k].hash
                      /\ rows[k].forced = o.force
    OBVIOUS
  <2>1. rows[k] = [sym |-> chunks[c][k].sym, hash |-> chunks[c][k].hash, forced |-> o.force]
    BY <1>5
  <2> QED
    BY <2>1
<1>8. PICK m \in 1..Len(chunks[c]), last \in {"whole", "part", "bare"} :
        /\ file' = Appended(IF last = "part" THEN [SubSeq(rows, 1, m) EXCEPT ![m] = TornRow]
                            ELSE SubSeq(rows, 1, m))
        /\ ended' = (last = "whole")
  BY <1>4 DEF WriteCut
<1>9. PICK head : head = SubSeq(rows, 1, m)
  OBVIOUS
<1>10. /\ m \in Nat /\ head \in Seq(Rows \cup {TornRow}) /\ Len(head) = m /\ DOMAIN head = 1..m
       /\ \A k \in 1..m : head[k] = rows[k]
  <2>1. m \in Nat /\ m <= Len(rows)
    BY <1>5
  <2> QED
    BY <1>5, <1>9, <2>1, PrefixIs
<1>11. PICK written : written = (IF last = "part" THEN [head EXCEPT ![m] = TornRow] ELSE head)
  OBVIOUS
<1>12. /\ written \in Seq(Rows \cup {TornRow}) /\ Len(written) = m
       /\ \A k \in 1..m : written[k] = TornRow \/ written[k] = rows[k]
  <2>1. CASE last # "part"
    BY <1>10, <1>11, <2>1
  <2>2. CASE last = "part"
    <3>1. written = [head EXCEPT ![m] = TornRow]
      BY <1>11, <2>2
    <3>2. written \in Seq(Rows \cup {TornRow}) /\ Len(written) = Len(head)
      <4>1. m \in 1..Len(head) /\ TornRow \in Rows \cup {TornRow}
        BY <1>8, <1>10
      <4> QED
        BY <1>10, <3>1, <4>1, ExceptSeq
    <3>3. \A k \in 1..m : written[k] = TornRow \/ written[k] = head[k]
      BY <1>10, <3>1
    <3> QED
      BY <1>10, <3>2, <3>3
  <2> QED
    BY <2>1, <2>2
<1>13. \A k \in 1..Len(written) : written[k] = TornRow \/ (/\ written[k].sym = chunks[c][k].sym
                                                       /\ written[k].hash = chunks[c][k].hash
                                                       /\ written[k].forced = o.force)
  <2> SUFFICES ASSUME NEW k \in 1..Len(written), written[k] # TornRow
               PROVE  /\ written[k].sym = chunks[c][k].sym
                      /\ written[k].hash = chunks[c][k].hash
                      /\ written[k].forced = o.force
    OBVIOUS
  <2>1. k \in 1..m /\ k \in 1..Len(chunks[c])
    BY <1>5, <1>10, <1>12
  <2>2. written[k] = rows[k]
    BY <1>12, <2>1
  <2> QED
    BY <1>7, <2>1, <2>2
<1>14. file' = Appended(written)
  BY <1>8, <1>9, <1>11
<1>15. /\ file' \in Seq(Rows \cup {TornRow}) /\ (written # << >> => file' # << >>)
       /\ NoSecondRow'
  <2>1. Len(written) <= Len(chunks[c]) /\ DOMAIN chunks[c] = 1..Len(chunks[c]) /\ Len(chunks[c]) \in Nat
    BY <1>5, <1>12
  <2>2. written \in Seq(Rows \cup {TornRow})
    BY <1>12
  <2> QED
    BY <1>1, <1>2, <1>3, <1>6, <1>13, <1>14, <2>1, <2>2, FileStep
<1>16. written # << >>
  <2>1. Len(<< >>) = 0
    BY EmptySeq
  <2> QED
    BY <1>10, <1>12, <2>1
<1>17. ended' \in BOOLEAN
  BY <1>8
<1> QED
  BY <1>15, <1>16, <1>17 DEF FileInv

\* A scan writes the symbols of a tree, or the first of them.
LEMMA ScanStep ==
  ASSUME EnrichInv, NEW tree \in Trees, NEW limit, Scan(tree, limit)
  PROVE  EnrichInv'
<1>1. PICK rows : rows = BuildInventory(tree, limit)
  OBVIOUS
<1>2. rows \in Seq(Records) /\ EachOnce(rows)
  BY <1>1, InventoryOnce
<1>3. \/ inventory'.rows = rows
      \/ \E n \in 0..(Len(rows) - 1) : inventory'.rows = SubSeq(rows, 1, n)
  BY <1>1 DEF Scan
<1>4. ASSUME NEW n \in 0..(Len(rows) - 1)
      PROVE  SubSeq(rows, 1, n) \in Seq(Records) /\ EachOnce(SubSeq(rows, 1, n))
  <2>1. Len(rows) \in Nat
    BY <1>2, LenProperties
  <2>2. n \in Nat /\ n <= Len(rows)
    BY <2>1
  <2> QED
    BY <1>2, <2>2, PrefixOnce
<1>5. inventory'.rows \in Seq(Records) /\ EachOnce(inventory'.rows)
  BY <1>2, <1>3, <1>4
<1>6. inventory'.whole \in BOOLEAN
  <2>1. \E part : \E whole \in BOOLEAN : inventory' = [rows |-> part, whole |-> whole]
    BY Zenon DEF Scan
  <2> QED
    BY <2>1
<1>7. InventoryInv'
  BY <1>5, <1>6 DEF InventoryInv, EachOnce
<1>8. UNCHANGED <<file, ended, enrich, asked, chunks, next_chunk, futures>>
  BY DEF Scan, job
<1>9. FileInv' /\ JobInv' /\ FreshInv' /\ CoverInv'
  BY <1>8, SameRun
<1> QED
  BY <1>7, <1>9 DEF EnrichInv

LEMMA EnrichStarts == EnrichInit => EnrichInv
<1> SUFFICES ASSUME EnrichInit PROVE EnrichInv
  OBVIOUS
<1>1. /\ inventory.rows = << >> /\ inventory.whole = TRUE /\ file = << >> /\ ended = TRUE
      /\ enrich = {} /\ asked = << >> /\ chunks = << >> /\ next_chunk = 1 /\ DOMAIN futures = {}
  BY DEF EnrichInit
<1>2. Len(<< >>) = 0 /\ DOMAIN << >> = {} /\ \A S : << >> \in Seq(S)
  BY EmptySeq
<1>3. InventoryInv
  BY <1>1, <1>2 DEF InventoryInv, EachOnce
<1>4. FileInv
  BY <1>1, <1>2 DEF FileInv, NoSecondRow
<1>5. JobInv
  BY <1>1, <1>2 DEF JobInv
<1>6. FreshInv
  BY <1>1 DEF FreshInv
<1>7. CoverInv
  BY <1>1, <1>2 DEF CoverInv, ToSet
<1> QED
  BY <1>3, <1>4, <1>5, <1>6, <1>7 DEF EnrichInv

LEMMA EnrichStep == EnrichInv /\ [EnrichNext]_enrichVars => EnrichInv'
<1> SUFFICES ASSUME EnrichInv, [EnrichNext]_enrichVars PROVE EnrichInv'
  OBVIOUS
<1>0. ASSUME UNCHANGED inventory PROVE InventoryInv'
  BY <1>0 DEF EnrichInv, InventoryInv, EachOnce
<1>1. ASSUME NEW tree \in Trees, NEW limit \in ScanLimits, Scan(tree, limit) PROVE EnrichInv'
  BY <1>1, ScanStep
<1>2. ASSUME NEW o \in Commands, StartEnrich(o) PROVE EnrichInv'
  <2>1. UNCHANGED <<inventory, file, ended>>
    BY <1>2 DEF StartEnrich
  <2>2. FileInv'
    BY <2>1 DEF EnrichInv, FileInv, NoSecondRow
  <2> QED
    BY <1>0, <1>2, <2>1, <2>2, StartStep DEF EnrichInv
<1>3. CASE Refused
  <2>1. /\ UNCHANGED <<inventory, asked, chunks, next_chunk, futures>> /\ file' = << >> /\ ended' = TRUE
        /\ enrich = {} /\ enrich' = {}
    BY <1>3 DEF Refused, job
  <2>2. Len(<< >>) = 0 /\ \A S : << >> \in Seq(S)
    BY EmptySeq
  <2>3. FileInv'
    BY <2>1, <2>2 DEF FileInv, NoSecondRow
  <2>4. asked = << >> /\ JobInv'
    BY <2>1 DEF EnrichInv, JobInv
  <2>5. FreshInv'
    BY <2>1 DEF FreshInv
  <2>6. CoverInv'
    BY <2>1, <2>2, <2>4 DEF CoverInv, ToSet
  <2> QED
    BY <1>0, <2>1, <2>3, <2>4, <2>5, <2>6 DEF EnrichInv
<1>4. ASSUME NEW c \in DOMAIN futures, NEW said \in Answers, Attempt(c, said) PROVE EnrichInv'
  <2>1. UNCHANGED <<inventory, file, ended, enrich, asked, chunks, next_chunk>> /\ DOMAIN futures' = DOMAIN futures
    BY <1>4 DEF Attempt
  <2> QED
    BY <1>0, <2>1, SameRun DEF EnrichInv
<1>5. ASSUME NEW c \in DOMAIN futures, AttemptFails(c) PROVE EnrichInv'
  <2>1. UNCHANGED <<inventory, file, ended, enrich, asked, chunks, next_chunk>> /\ DOMAIN futures' = DOMAIN futures
    BY <1>5 DEF AttemptFails
  <2> QED
    BY <1>0, <2>1, SameRun DEF EnrichInv
<1>6. ASSUME NEW c \in DOMAIN futures, Collect(c) PROVE EnrichInv'
  <2>1. UNCHANGED inventory
    BY <1>6 DEF Collect
  <2> QED
    BY <1>0, <1>6, <2>1, CollectStep DEF EnrichInv
<1>7. ASSUME NEW c \in DOMAIN futures, WriteCut(c) PROVE EnrichInv'
  <2>1. UNCHANGED inventory /\ EnrichEnds
    BY <1>7 DEF WriteCut
  <2> QED
    BY <1>0, <1>7, <2>1, WriteCutStep, IdleStep DEF EnrichInv
<1>8. ASSUME EnrichEnds, UNCHANGED <<inventory, file, ended>> PROVE EnrichInv'
  <2>1. FileInv'
    BY <1>8 DEF EnrichInv, FileInv, NoSecondRow
  <2> QED
    BY <1>0, <1>8, <2>1, IdleStep DEF EnrichInv
<1>9. ASSUME NEW c \in DOMAIN futures, CollectFails(c) PROVE EnrichInv'
  BY <1>8, <1>9 DEF CollectFails
<1>10. CASE KillEnrich \/ Finish
  BY <1>8, <1>10 DEF KillEnrich, Finish
<1>11. CASE UNCHANGED enrichVars
  BY <1>0, <1>11, SameRun DEF EnrichInv, enrichVars
<1> QED
  BY <1>1, <1>2, <1>3, <1>4, <1>5, <1>6, <1>7, <1>9, <1>10, <1>11 DEF EnrichNext

-----------------------------------------------------------------------------
LEMMA DoneHas == EnrichInv => DoneIsComplete
<1> SUFFICES ASSUME EnrichInv, Done, TornRow \notin Lines, NEW r \in ToSet(asked) PROVE HasRow(r)
  BY DEF DoneIsComplete
<1>1. chunks \in Seq(Seq(Records)) /\ DOMAIN futures = {} /\ next_chunk = Len(chunks) + 1
  BY DEF EnrichInv, JobInv, Done
<1>2. Len(chunks) \in Nat
  BY <1>1, LenProperties
<1>3. Pending = {}
  BY <1>1, <1>2 DEF Pending
<1> QED
  BY <1>3 DEF EnrichInv, CoverInv

THEOREM EnrichmentInv == EnrichSpec => []EnrichInv
<1>1. EnrichInv /\ [EnrichNext]_enrichVars => EnrichInv'
  BY EnrichStep
<1> QED
  BY EnrichStarts, <1>1, PTL DEF EnrichSpec

\* What the commands keep is of the kind their steps read.
THEOREM EnrichmentTypes == EnrichSpec => []EnrichTypeOK
<1>1. EnrichInv => EnrichTypeOK
  <2> SUFFICES ASSUME EnrichInv PROVE EnrichTypeOK
    OBVIOUS
  <2>1. chunks \in Seq(Seq(Records))
    BY DEF EnrichInv, JobInv
  <2>2. Len(chunks) \in Nat
    BY <2>1, LenProperties
  <2>3. DOMAIN futures \subseteq 1..Len(chunks)
    BY <2>2 DEF EnrichInv, JobInv
  <2> QED
    BY <2>3 DEF EnrichTypeOK, EnrichInv, InventoryInv, FileInv, JobInv
<1> QED
  BY <1>1, EnrichmentInv, PTL

\* Without --force no batch at the model, or waiting to be collected, has facts
\* with a row in the file, and no facts get a second row, however often scan and
\* enrich are run and wherever they die.
THEOREM KeptIsNotAsked == EnrichSpec => []NotAskedAgain
<1>1. EnrichInv => NotAskedAgain
  <2> SUFFICES ASSUME EnrichInv, NEW c \in DOMAIN futures, NEW r \in ToSet(chunks[c]),
                      \A o \in enrich : ~o.force
               PROVE  ~HasRow(r)
    BY DEF EnrichInv, FileInv, NotAskedAgain
  <2>1. PICK o \in Commands : enrich = {o}
    BY PendingIs
  <2>2. c \in Pending
    BY PendingIs
  <2>3. PICK i \in DOMAIN chunks[c] : chunks[c][i] = r
    BY DEF ToSet
  <2> QED
    BY <2>1, <2>2, <2>3 DEF EnrichInv, FreshInv
<1> QED
  BY <1>1, EnrichmentInv, PTL

\* A run that says it is done has left nothing it was asked for without a row.
THEOREM DoneLeavesNothing == EnrichSpec => []DoneIsComplete
<1>1. EnrichInv => DoneIsComplete
  BY DoneHas
<1> QED
  BY <1>1, EnrichmentInv, PTL
-----------------------------------------------------------------------------
(***************************************************************************)
(* Why an enrich ends: of every batch, what is ahead of it - to be         *)
(* submitted, asked MaxAttempts times at most, and collected - never gets  *)
(* more, and every step of the pool makes that of some batch less.  A scan *)
(* meanwhile is no step of it.                                             *)
(***************************************************************************)
Futures == [attempt : 1..MaxAttempts, accepted : SUBSET Names, end : {"asking", "done", "failed"}]

FuturesInv == futures \in [DOMAIN futures -> Futures]

Ahead(c) ==
  CASE c >= next_chunk -> MaxAttempts + 2
    [] c < next_chunk /\ c \in DOMAIN futures ->
         IF futures[c].end = "asking" THEN MaxAttempts + 2 - futures[c].attempt ELSE 1
    [] OTHER -> 0

GetsLess ==
  /\ UNCHANGED chunks
  /\ \A c \in 1..Len(chunks) : Ahead(c)' <= Ahead(c)
  /\ \E c \in 1..Len(chunks) : Ahead(c)' < Ahead(c)

PoolMoves == enrich # {} => enrich' = {} \/ UNCHANGED job \/ GetsLess

LEMMA SymsAreNames ==
  ASSUME NEW s \in Seq(Records) PROVE {r.sym : r \in ToSet(s)} \in SUBSET Names
<1>1. \A r \in ToSet(s) : r \in Records
  BY ElementOfSeq DEF ToSet
<1> QED
  BY <1>1 DEF Records

LEMMA SubmittedType ==
  ASSUME NEW o \in Commands, NEW chunk \in Seq(Records)
  PROVE  Submitted(o, chunk) \in Futures /\ Submitted(o, chunk).attempt = 1
<1>1. 1 \in 1..MaxAttempts
  BY EnrichmentAssumption
<1> QED
  BY <1>1, SymsAreNames DEF Submitted, Futures

LEMMA ChunkType ==
  ASSUME EnrichInv, NEW c \in 1..Len(chunks) PROVE chunks[c] \in Seq(Records)
<1>1. chunks \in Seq(Seq(Records))
  BY DEF EnrichInv, JobInv
<1> QED
  BY <1>1, ElementOfSeq

\* One answer, right or wrong, or none.
LEMMA AttemptType ==
  ASSUME EnrichInv, FuturesInv, NEW c \in DOMAIN futures, futures[c].end = "asking",
         (\E said \in Answers : Attempt(c, said)) \/ AttemptFails(c)
  PROVE  /\ DOMAIN futures' = DOMAIN futures /\ futures'[c] \in Futures
         /\ \A d \in DOMAIN futures \ {c} : futures'[d] = futures[d]
         /\ futures'[c].end = "asking" => futures'[c].attempt = futures[c].attempt + 1
         /\ FuturesInv'
<1>1. futures[c] \in Futures /\ MaxAttempts \in Nat \ {0}
  BY EnrichmentAssumption DEF FuturesInv
<1>2. c \in 1..Len(chunks)
  <2>1. chunks \in Seq(Seq(Records)) /\ c \in DOMAIN chunks
    BY PendingIs DEF EnrichInv, JobInv
  <2> QED
    BY <2>1, LenProperties
<1>3. {r.sym : r \in ToSet(chunks[c])} \in SUBSET Names
  BY <1>2, ChunkType, SymsAreNames
<1>4. \E f \in Futures : /\ futures' = [futures EXCEPT ![c] = f]
                         /\ f.end = "asking" => f.attempt = futures[c].attempt + 1
  <2>1. CASE AttemptFails(c)
    <3>1. futures' = [futures EXCEPT ![c] = [futures[c] EXCEPT !.end = "failed"]]
      BY <2>1 DEF AttemptFails
    <3>2. [futures[c] EXCEPT !.end = "failed"] \in Futures
      BY <1>1 DEF Futures
    <3>3. [futures[c] EXCEPT !.end = "failed"].end # "asking"
      BY <1>1 DEF Futures
    <3> QED
      BY <3>1, <3>2, <3>3
  <2>2. ASSUME NEW said \in Answers, Attempt(c, said)
        PROVE  \E f \in Futures : /\ futures' = [futures EXCEPT ![c] = f]
                                  /\ f.end = "asking" => f.attempt = futures[c].attempt + 1
    <3> DEFINE new == futures[c].accepted \cup
                        {r.sym : r \in {q \in ToSet(chunks[c]) : \E e \in said : Valid(e, q)}}
               whole == new = {r.sym : r \in ToSet(chunks[c])}
               try == IF futures[c].attempt < MaxAttempts THEN futures[c].attempt + 1
                      ELSE futures[c].attempt
               end == IF whole THEN "done"
                      ELSE IF futures[c].attempt < MaxAttempts THEN "asking" ELSE "failed"
    <3>1. futures' = [futures EXCEPT ![c] = [attempt |-> try, accepted |-> new, end |-> end]]
      BY <2>2 DEF Attempt
    <3>2. new \in SUBSET Names
      BY <1>1, <1>3 DEF Futures
    <3>3. try \in 1..MaxAttempts /\ end \in {"asking", "done", "failed"}
      BY <1>1 DEF Futures
    <3>4. end = "asking" => try = futures[c].attempt + 1
      OBVIOUS
    <3> HIDE DEF new, try, end
    <3>5. [attempt |-> try, accepted |-> new, end |-> end] \in Futures
      BY <3>2, <3>3 DEF Futures
    <3> QED
      BY <3>1, <3>4, <3>5
  <2> QED
    BY <2>1, <2>2
<1>5. PICK f \in Futures : /\ futures' = [futures EXCEPT ![c] = f]
                           /\ f.end = "asking" => f.attempt = futures[c].attempt + 1
  BY <1>4
<1>6. futures \in [DOMAIN futures -> Futures]
  BY DEF FuturesInv
<1> QED
  BY <1>5, <1>6 DEF FuturesInv

\* The batch whose rows are appended leaves the pool, the next one enters it.
LEMMA CollectType ==
  ASSUME EnrichInv, FuturesInv, NEW c \in DOMAIN futures, Collect(c)
  PROVE  /\ \A d \in DOMAIN futures' : futures'[d] \in Futures
         /\ FuturesInv'
         /\ c \notin DOMAIN futures'
         /\ \A d \in DOMAIN futures \ {c} : d \in DOMAIN futures' /\ futures'[d] = futures[d]
         /\ \/ /\ next_chunk' = next_chunk
               /\ DOMAIN futures' = DOMAIN futures \ {c}
            \/ /\ next_chunk <= Len(chunks) /\ next_chunk' = next_chunk + 1
               /\ DOMAIN futures' = (DOMAIN futures \ {c}) \cup {next_chunk}
               /\ futures'[next_chunk].attempt = 1
<1>1. PICK o \in Commands : enrich = {o}
  BY PendingIs
<1>2. (CHOOSE p \in enrich : TRUE) = o
  BY <1>1
<1>3. /\ next_chunk \in 1..(Len(chunks) + 1) /\ DOMAIN futures \subseteq 1..(next_chunk - 1)
      /\ Len(chunks) \in Nat
  <2>1. chunks \in Seq(Seq(Records))
    BY DEF EnrichInv, JobInv
  <2> QED
    BY <2>1, LenProperties DEF EnrichInv, JobInv
<1>4. next_chunk \notin DOMAIN futures
  BY <1>3
<1>5. \A d \in DOMAIN futures : futures[d] \in Futures
  BY DEF FuturesInv
<1>6. CASE next_chunk <= Len(chunks)
  <2>1. next_chunk \in 1..Len(chunks)
    BY <1>3, <1>6
  <2>2. Submitted(o, chunks[next_chunk]) \in Futures /\ Submitted(o, chunks[next_chunk]).attempt = 1
    BY <2>1, ChunkType, SubmittedType
  <2>3. /\ futures' = [d \in (DOMAIN futures \ {c}) \cup {next_chunk} |->
                        IF d = next_chunk THEN Submitted(o, chunks[d]) ELSE futures[d]]
        /\ next_chunk' = next_chunk + 1
    BY <1>2, <1>6 DEF Collect, SubmitNext
  <2> QED
    BY <1>3, <1>4, <1>5, <1>6, <2>2, <2>3 DEF FuturesInv
<1>7. CASE ~(next_chunk <= Len(chunks))
  <2>1. futures' = [d \in DOMAIN futures \ {c} |-> futures[d]] /\ next_chunk' = next_chunk
    BY <1>7 DEF Collect, SubmitNext
  <2> QED
    BY <1>5, <2>1 DEF FuturesInv
<1> QED
  BY <1>6, <1>7
LEMMA FuturesStep == EnrichInv /\ FuturesInv /\ [EnrichNext]_enrichVars => FuturesInv'
<1> SUFFICES ASSUME EnrichInv, FuturesInv, [EnrichNext]_enrichVars PROVE FuturesInv'
  OBVIOUS
<1>0. EnrichInv'
  BY EnrichStep
<1>1. ASSUME NEW o \in Commands, StartEnrich(o) PROVE FuturesInv'
  <2> DEFINE cs    == Chunks(Left(o), o.batch_size)
             first == IF o.jobs < Len(cs) THEN o.jobs ELSE Len(cs)
  <2>1. futures' = [c \in 1..first |-> Submitted(o, cs[c])] /\ chunks' = cs
    BY <1>1 DEF StartEnrich
  <2> HIDE DEF cs
  <2>2. cs \in Seq(Seq(Records))
    BY <1>0, <2>1 DEF EnrichInv, JobInv
  <2>3. first \in Nat /\ first <= Len(cs)
    BY <2>2, LenProperties, EnrichmentAssumption
  <2> HIDE DEF first
  <2>4. \A c \in 1..first : Submitted(o, cs[c]) \in Futures
    BY <2>2, <2>3, ElementOfSeq, LenProperties, SubmittedType
  <2> QED
    BY <2>1, <2>4 DEF FuturesInv
<1>2. ASSUME NEW c \in DOMAIN futures,
             (\E said \in Answers : Attempt(c, said)) \/ AttemptFails(c)
      PROVE  FuturesInv'
  BY <1>2, AttemptType DEF Attempt, AttemptFails
<1>3. ASSUME NEW c \in DOMAIN futures, Collect(c) PROVE FuturesInv'
  BY <1>3, CollectType
<1>4. CASE EnrichEnds
  BY <1>4 DEF EnrichEnds, FuturesInv
<1>5. CASE UNCHANGED futures
  BY <1>5 DEF FuturesInv
<1>6. ASSUME NEW tree \in Trees, NEW limit \in ScanLimits, Scan(tree, limit) PROVE UNCHANGED futures
  BY <1>6 DEF Scan, job
<1>7. Refused \/ UNCHANGED enrichVars => UNCHANGED futures
  BY DEF Refused, job, enrichVars
<1> QED
  BY <1>1, <1>2, <1>3, <1>4, <1>5, <1>6, <1>7
  DEF EnrichNext, CollectFails, WriteCut, KillEnrich, Finish

\* A batch in the pool, and one that is not submitted yet.
LEMMA AheadIs ==
  ASSUME EnrichInv, FuturesInv, NEW c \in 1..Len(chunks)
  PROVE  /\ Ahead(c) \in Nat
         /\ c \in DOMAIN futures => /\ c < next_chunk /\ Ahead(c) >= 1
                                    /\ futures[c].end = "asking" => Ahead(c) >= 2
<1>1. MaxAttempts \in Nat \ {0}
  BY EnrichmentAssumption
<1>2. /\ next_chunk \in Nat /\ c \in Nat
      /\ DOMAIN futures \subseteq 1..(next_chunk - 1)
  <2>1. chunks \in Seq(Seq(Records))
    BY DEF EnrichInv, JobInv
  <2>2. Len(chunks) \in Nat
    BY <2>1, LenProperties
  <2> QED
    BY <2>2 DEF EnrichInv, JobInv
<1>3. c \in DOMAIN futures => c < next_chunk
  BY <1>2
<1>4. c \in DOMAIN futures => futures[c].attempt \in 1..MaxAttempts
  BY DEF FuturesInv, Futures
<1> QED
  BY <1>1, <1>2, <1>3, <1>4 DEF Ahead

LEMMA AttemptLess ==
  ASSUME EnrichInv, FuturesInv, NEW c \in DOMAIN futures, futures[c].end = "asking",
         UNCHANGED <<chunks, next_chunk>>,
         (\E said \in Answers : Attempt(c, said)) \/ AttemptFails(c)
  PROVE  GetsLess
<1>1. c \in 1..Len(chunks)
  <2>1. chunks \in Seq(Seq(Records)) /\ c \in DOMAIN chunks
    BY PendingIs DEF EnrichInv, JobInv
  <2> QED
    BY <2>1, LenProperties
<1>2. /\ DOMAIN futures' = DOMAIN futures /\ futures'[c] \in Futures
      /\ \A d \in DOMAIN futures \ {c} : futures'[d] = futures[d]
      /\ futures'[c].end = "asking" => futures'[c].attempt = futures[c].attempt + 1
  BY AttemptType
<1>3. \A d \in 1..Len(chunks) : d # c => Ahead(d)' = Ahead(d)
  BY <1>2 DEF Ahead
<1>4. c < next_chunk /\ Ahead(c) >= 2 /\ futures[c].attempt \in 1..MaxAttempts /\ MaxAttempts \in Nat
  BY <1>1, AheadIs, EnrichmentAssumption DEF FuturesInv, Futures
<1>5. next_chunk \in Nat /\ c \in Nat
  BY <1>1 DEF EnrichInv, JobInv
<1>6. Ahead(c) = MaxAttempts + 2 - futures[c].attempt
  BY <1>4, <1>5 DEF Ahead
<1>7. Ahead(c)' = IF futures'[c].end = "asking" THEN MaxAttempts + 2 - futures'[c].attempt ELSE 1
  BY <1>2, <1>4, <1>5 DEF Ahead
<1>8. Ahead(c)' < Ahead(c)
  BY <1>2, <1>4, <1>6, <1>7
<1>9. \A d \in 1..Len(chunks) : Ahead(d) \in Nat
  BY AheadIs
<1>10. Ahead(c)' \in Nat
  BY <1>2, <1>4, <1>7 DEF Futures
<1>11. \A d \in 1..Len(chunks) : Ahead(d)' <= Ahead(d)
  <2> TAKE d \in 1..Len(chunks)
  <2>1. CASE d = c
    BY <1>1, <1>8, <1>9, <1>10, <2>1
  <2>2. CASE d # c
    BY <1>3, <1>9, <2>2
  <2> QED
    BY <2>1, <2>2
<1> QED
  BY <1>1, <1>8, <1>11 DEF GetsLess

LEMMA CollectLess ==
  ASSUME EnrichInv, FuturesInv, NEW c \in DOMAIN futures, Collect(c)
  PROVE  GetsLess
<1>1. c \in 1..Len(chunks)
  <2>1. chunks \in Seq(Seq(Records)) /\ c \in DOMAIN chunks
    BY PendingIs DEF EnrichInv, JobInv
  <2> QED
    BY <2>1, LenProperties
<1>2. UNCHANGED chunks
  BY DEF Collect
<1>3. /\ \A d \in DOMAIN futures' : futures'[d] \in Futures
      /\ c \notin DOMAIN futures'
      /\ \A d \in DOMAIN futures \ {c} : d \in DOMAIN futures' /\ futures'[d] = futures[d]
      /\ \/ /\ next_chunk' = next_chunk
            /\ DOMAIN futures' = DOMAIN futures \ {c}
         \/ /\ next_chunk <= Len(chunks) /\ next_chunk' = next_chunk + 1
            /\ DOMAIN futures' = (DOMAIN futures \ {c}) \cup {next_chunk}
            /\ futures'[next_chunk].attempt = 1
  BY CollectType
<1>4. next_chunk \in Nat /\ MaxAttempts \in Nat \ {0} /\ \A d \in 1..Len(chunks) : d \in Nat
  BY EnrichmentAssumption DEF EnrichInv, JobInv
<1>5. \A d \in DOMAIN futures : d < next_chunk
  <2>1. chunks \in Seq(Seq(Records))
    BY DEF EnrichInv, JobInv
  <2>2. DOMAIN futures \subseteq 1..(next_chunk - 1)
    BY DEF EnrichInv, JobInv
  <2> QED
    BY <1>4, <2>2
<1>6. \A d \in 1..Len(chunks) : Ahead(d) \in Nat
  BY AheadIs
<1>7. Ahead(c)' = 0 /\ Ahead(c) >= 1
  <2>1. Ahead(c) >= 1
    BY <1>1, AheadIs
  <2>2. c < next_chunk' /\ c \notin DOMAIN futures' /\ next_chunk' \in Nat /\ c \in Nat
    BY <1>1, <1>3, <1>4, <1>5
  <2> QED
    BY <2>1, <2>2 DEF Ahead
<1>8. ASSUME NEW d \in 1..Len(chunks), d # c PROVE Ahead(d)' <= Ahead(d)
  <2>1. CASE d = next_chunk /\ next_chunk' = next_chunk + 1
    <3>1. Ahead(d) = MaxAttempts + 2
      BY <1>4, <2>1 DEF Ahead
    <3>2. d < next_chunk' /\ d \in DOMAIN futures' /\ futures'[d].attempt = 1
      BY <1>3, <1>4, <2>1
    <3>3. Ahead(d)' \in {MaxAttempts + 1, 1}
      BY <1>4, <2>1, <3>2 DEF Ahead
    <3> QED
      BY <1>4, <3>1, <3>3
  <2>2. CASE ~(d = next_chunk /\ next_chunk' = next_chunk + 1)
    <3>1. (d \in DOMAIN futures') <=> (d \in DOMAIN futures)
      BY <1>3, <1>8, <2>2
    <3>2. (d >= next_chunk') <=> (d >= next_chunk)
      BY <1>3, <1>4, <2>2
    <3>3. (d < next_chunk') <=> (d < next_chunk)
      BY <1>3, <1>4, <2>2
    <3>4. d \in DOMAIN futures => futures'[d] = futures[d]
      BY <1>3, <1>8
    <3>5. Ahead(d)' = Ahead(d)
      BY <3>1, <3>2, <3>3, <3>4 DEF Ahead
    <3> QED
      BY <1>6, <3>5
  <2> QED
    BY <2>1, <2>2
<1>9. \A d \in 1..Len(chunks) : Ahead(d)' <= Ahead(d)
  BY <1>1, <1>6, <1>7, <1>8
<1>10. Ahead(c)' < Ahead(c)
  BY <1>1, <1>6, <1>7
<1> QED
  BY <1>1, <1>2, <1>9, <1>10 DEF GetsLess

LEMMA PoolStep == EnrichInv /\ FuturesInv /\ [EnrichNext]_enrichVars => [PoolMoves]_enrichVars
<1> SUFFICES ASSUME EnrichInv, FuturesInv, EnrichNext, enrich # {}
             PROVE  enrich' = {} \/ UNCHANGED job \/ GetsLess
  BY DEF PoolMoves
<1>1. ASSUME NEW c \in DOMAIN futures,
             (\E said \in Answers : Attempt(c, said)) \/ AttemptFails(c)
      PROVE  GetsLess
  BY <1>1, AttemptLess DEF Attempt, AttemptFails
<1>2. ASSUME NEW c \in DOMAIN futures, Collect(c) PROVE GetsLess
  BY <1>2, CollectLess
<1>3. ASSUME NEW tree \in Trees, NEW limit \in ScanLimits, Scan(tree, limit) PROVE UNCHANGED job
  BY <1>3 DEF Scan
<1>4. EnrichEnds => enrich' = {}
  BY DEF EnrichEnds
<1>5. ~Refused /\ \A o \in Commands : ~StartEnrich(o)
  BY DEF Refused, StartEnrich
<1> QED
  BY <1>1, <1>2, <1>3, <1>4, <1>5 DEF EnrichNext, CollectFails, WriteCut, KillEnrich, Finish

\* No enrich goes on for ever, nor asks about a batch more than MaxAttempts
\* times: with every step of the pool something of a batch is over.
THEOREM EnrichIsBounded ==
  EnrichSpec => /\ [](\A c \in 1..Len(chunks) : Ahead(c) \in Nat)
                /\ [](\A c \in DOMAIN futures : futures[c].attempt <= MaxAttempts)
                /\ [][PoolMoves]_enrichVars
<1>1. EnrichInit => FuturesInv
  BY DEF EnrichInit, FuturesInv
<1>2. EnrichInv /\ FuturesInv => \A c \in 1..Len(chunks) : Ahead(c) \in Nat
  BY AheadIs
<1>3. FuturesInv => \A c \in DOMAIN futures : futures[c].attempt <= MaxAttempts
  BY EnrichmentAssumption DEF FuturesInv, Futures
<1> QED
  BY <1>1, <1>2, <1>3, FuturesStep, PoolStep, EnrichmentInv, PTL DEF EnrichSpec
=============================================================================
