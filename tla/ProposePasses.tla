---------------------------- MODULE ProposePasses ----------------------------
(***************************************************************************)
(* autokernel propose: the deterministic rules, the module pass, the walk  *)
(* over the Kconfig of the kernel tree, and the choice, toggle and tunable *)
(* passes.  A pass asks the model about one batch of questions after the   *)
(* other and keeps each answer in a file named for the question, so that a *)
(* later run of any kind over the same snapshot directory replays it.  The *)
(* walk edits Kconfig files of the tree that its parser cannot read, and   *)
(* puts them back.  A run can be killed, or fail, between any two steps.   *)
(***************************************************************************)
EXTENDS Naturals, Sequences, SequencesExt, Ordered

CONSTANTS
  Symbols,       \* what questions are about: symbols, and choice groups
  Values,        \* of a symbol, or the option of a choice group
  Order,         \* [Surfaced -> Seq(Symbols)]: what the walk finds in the whole tree, in order
  Allowed,       \* [Surfaced -> SUBSET Symbols]: the allowlists
  BatchSize,     \* [Passes -> Nat \ {0}]
  Options,       \* command lines of propose, with the snapshot they run over
  Decisions,     \* [Passes -> set of decisions]: what a model may say
  KconfigFiles,  \* files of the tree that need rewriting before they can be parsed
  Halves,        \* what a file can hold that was being written when its writer died
  Nothing,       \* no history, no base config, no file, no run, no answer
  FullDisk,      \* whether copying a Kconfig file can fail half-way
  MaxRuns        \* bound: runs of propose

Surfaced == {"choices", "toggles", "tunables"}
Passes == {"modules"} \cup Surfaced
Confidence == 1..3

Configs == [Symbols -> Values \cup {"absent"}]

Proposals ==
  [pass : Passes \cup {"rules"}, sym : Symbols, from : Values \cup {"absent"}, to : Values,
   sure : Confidence]

\* What a Kconfig file or a backup holds: hit says whether the walk's search
\* finds syntax in it that the parser does not know, parses whether the rest can
\* be parsed, and lost is what of its symbols and choices it has no more.
Original == [whole |-> TRUE, hit |-> TRUE, parses |-> TRUE, lost |-> {}]
Stripped(c) == [c EXCEPT !.hit = FALSE]
FileTexts == [whole : BOOLEAN, hit : BOOLEAN, parses : BOOLEAN, lost : SUBSET Symbols]

\* <<f, 0>> is the file f, <<f, i + 1>> the .autokernel.bak of <<f, i>>: the name
\* of a backup begins like that of its file, and so the walk finds it too.
Paths == KconfigFiles \X (0..MaxRuns)
Backup(x) == <<x[1], x[2] + 1>>

\* base is the config given with --base-config, host.running that of the
\* snapshot; a symbol can be absent from either.  The name of a context stands
\* for the text that renders it, which has all of it.
ASSUME ProposeAssumption ==
  /\ Order \in [Surfaced -> Seq(Symbols)]
  /\ Allowed \in [Surfaced -> SUBSET Symbols]
  /\ BatchSize \in [Passes -> Nat \ {0}]
  /\ \A o \in Options :
       /\ o.passes \subseteq Passes
       /\ {o.skip_llm, o.kernel_source} \subseteq BOOLEAN
       /\ o.context.floor \in Confidence /\ o.context.recipes \subseteq Symbols
       /\ o.host.running \in Configs /\ (o.base = Nothing \/ o.base \in Configs)
       /\ o.host.candidates \in Seq(Symbols) /\ o.host.handled \subseteq Symbols
       /\ o.tune \subseteq Proposals /\ \A p \in o.tune : p.pass = "rules"
       /\ o.max_candidates \in Nat
  /\ \A o, o2 \in Options : o.context.name = o2.context.name => o.context = o2.context
  /\ \A p \in Passes : \A d \in Decisions[p] :
       d.sym \in Symbols /\ d.value \in Values /\ d.sure \in Confidence
  /\ {"y", "n"} \subseteq Values /\ "absent" \notin Values
  /\ \A h \in Halves : h \in FileTexts /\ ~h.whole
  /\ Nothing \notin Options \cup FileTexts
  /\ FullDisk \in BOOLEAN /\ MaxRuns \in Nat

VARIABLES
  pc,        \* where the running command is
  run,       \* its options
  batch,     \* the batch its pass is at
  answer,    \* the proposals the model made of it, before they are kept
  out,       \* proposals so far
  cache,     \* the batches directory: by the question's key, [whole |-> the
             \* file can be parsed, proposals |-> what is in it]
  text,      \* [Paths -> what the file holds, or Nothing]
  todo,      \* files the walk has found and not yet rewritten
  edited,    \* files it has rewritten and not yet restored
  parsed,    \* whether the walk of this run could read the tree
  gone,      \* what it did not find in it, for files cut short
  found,     \* history: the texts the run came upon
  finished,  \* history: the runs that wrote a proposal.json, and what they wrote
  runs       \* runs so far

vars == <<pc, run, batch, answer, out, cache, text, todo, edited, parsed, gone, found, finished,
          runs>>
walk == <<text, todo, edited, parsed, gone, found>>

-----------------------------------------------------------------------------
(* What a run asks                                                         *)

Config(o) == IF o.base = Nothing THEN o.host.running ELSE o.base

\* The value a question shows.  The candidates come from the snapshot, their
\* values from the base config, and one it does not know is shown as y.
Shown(o, pass, s) ==
  IF pass = "modules" /\ Config(o)[s] = "absent" THEN "y" ELSE Config(o)[s]

\* Rules without a model: symbols of hardware that is not there go, and those
\* of the CPU's microarchitecture are swapped, but for --no-cpu-tune.
Deterministic(o) ==
  {[pass |-> "rules", sym |-> s, from |-> Shown(o, "modules", s), to |-> "n", sure |-> 3] :
     s \in o.host.handled} \cup o.tune

Handled(o) == o.host.handled \cup {p.sym : p \in o.tune}

Pool(o) ==
  LET left == Select(o.host.candidates, Symbols \ Handled(o))
  IN  IF o.max_candidates \in 1..Len(left) THEN SubSeq(left, 1, o.max_candidates) ELSE left

\* Recipes of the workload and the threat model widen what is asked about,
\* but for tunables.  lacking is what the walk does not find.
Eligible(o, lacking, pass) ==
  Select(Order[pass],
         (Allowed[pass] \cup IF pass = "tunables" THEN {} ELSE o.context.recipes) \ lacking)

Questions(o, lacking, pass) == IF pass = "modules" THEN Pool(o) ELSE Eligible(o, lacking, pass)

Batches(o, lacking, pass) ==
  LET questions == Questions(o, lacking, pass)
      size      == BatchSize[pass]
  IN  IF pass \notin o.passes \/ o.skip_llm THEN << >>
      ELSE [i \in 1..((Len(questions) + size - 1) \div size) |->
              ToSet(SubSeq(questions, (i - 1) * size + 1,
                           IF i * size < Len(questions) THEN i * size ELSE Len(questions)))]

-----------------------------------------------------------------------------
(* The cache of answers                                                    *)

\* Mutant: a question is known by its symbols.
SignatureNames(o, pass, b) == {<<s, "any">> : s \in b}

\* The signature of a batch has the values it shows, except that of a choice
\* group has its options and not which one is selected.
Signature(o, pass, b) ==
  {<<s, IF pass = "choices" THEN "any" ELSE Shown(o, pass, s)>> : s \in b}

\* The file name is a hash of all this; the module pass knows of no context
\* and no history.
Key(o, pass, b) ==
  [pass |-> pass, model |-> o.model, host |-> o.host.name, asked |-> Signature(o, pass, b),
   context |-> IF pass = "modules" THEN Nothing ELSE o.context.name,
   history |-> IF pass = "modules" THEN Nothing ELSE o.history]

Keep(key, whole, proposals) ==
  cache' = [k \in DOMAIN cache \cup {key} |->
              IF k = key THEN [whole |-> whole, proposals |-> proposals] ELSE cache[k]]

\* A file that cannot be parsed counts as not there.
Cached(key) == key \in DOMAIN cache /\ cache[key].whole

\* The decisions that become proposals: about what was asked, a change, and
\* as sure as the context's aggression demands.  The module pass has no floor.
Filtered(o, pass, b, decisions) ==
  {[pass |-> pass, sym |-> d.sym, from |-> Shown(o, pass, d.sym), to |-> d.value, sure |-> d.sure] :
     d \in {e \in decisions : /\ e.sym \in b
                              /\ e.value # Shown(o, pass, e.sym)
                              /\ pass = "modules" \/ e.sure >= o.context.floor}}

-----------------------------------------------------------------------------
Idle ==
  /\ pc' = "idle" /\ run' = Nothing /\ batch' = 1 /\ answer' = Nothing /\ out' = {}
  /\ todo' = {} /\ edited' = {} /\ parsed' = FALSE /\ gone' = {}

Init ==
  /\ pc = "idle" /\ run = Nothing /\ batch = 1 /\ answer = Nothing /\ out = {}
  /\ cache = << >>
  /\ text = [x \in Paths |-> IF x[2] = 0 THEN Original ELSE Nothing] /\ found = text
  /\ todo = {} /\ edited = {} /\ parsed = FALSE /\ gone = {}
  /\ finished = {} /\ runs = 0

Start(o) ==
  /\ pc = "idle" /\ runs < MaxRuns
  /\ runs' = runs + 1
  /\ run' = o /\ pc' = "modules" /\ out' = Deterministic(o)
  /\ found' = text
  /\ UNCHANGED <<batch, answer, cache, text, todo, edited, parsed, gone, finished>>

\* The pass pc names, at one of its batches.
Asking == pc \in Passes /\ answer = Nothing /\ batch <= Len(Batches(run, gone, pc))
Question == Key(run, pc, Batches(run, gone, pc)[batch])

Replay ==
  /\ Asking /\ Cached(Question)
  /\ out' = out \cup cache[Question].proposals
  /\ batch' = batch + 1
  /\ UNCHANGED <<pc, run, answer, cache, walk, finished, runs>>

\* The answer is taken, and its file opened for writing.
Ask(decisions) ==
  /\ Asking /\ ~Cached(Question)
  /\ answer' = Filtered(run, pc, Batches(run, gone, pc)[batch], decisions)
  /\ Keep(Question, FALSE, {})
  /\ UNCHANGED <<pc, run, batch, out, walk, finished, runs>>

\* Mutant: an answer without proposals is not worth a file.
SaveUnlessEmpty ==
  /\ answer # Nothing
  /\ IF answer # {} THEN Keep(Question, TRUE, answer) ELSE UNCHANGED cache
  /\ out' = out \cup answer
  /\ batch' = batch + 1 /\ answer' = Nothing
  /\ UNCHANGED <<pc, run, walk, finished, runs>>

Save ==
  /\ answer # Nothing
  /\ Keep(Question, TRUE, answer)
  /\ out' = out \cup answer
  /\ batch' = batch + 1 /\ answer' = Nothing
  /\ UNCHANGED <<pc, run, walk, finished, runs>>

\* The model cannot be reached, the key is wrong, the user interrupts: no
\* proposal.json is written, and what was answered so far is kept.
AskFails ==
  /\ Asking /\ ~Cached(Question)
  /\ Idle
  /\ UNCHANGED <<cache, text, found, finished, runs>>

After(pass) ==
  CASE pass = "modules"  -> IF run.passes \cap Surfaced = {} \/ run.skip_llm THEN "write" ELSE "walk"
    [] pass = "choices"  -> "toggles"
    [] pass = "toggles"  -> "tunables"
    [] pass = "tunables" -> "write"

EndPass ==
  /\ pc \in Passes /\ answer = Nothing /\ ~Asking
  /\ pc' = After(pc) /\ batch' = 1
  /\ UNCHANGED <<run, answer, out, cache, walk, finished, runs>>

-----------------------------------------------------------------------------
(* The walk over the kernel tree's Kconfig                                 *)

\* Without --kernel-source, or when there is no Kconfig, the command ends,
\* after the module pass.
NoSource ==
  /\ pc = "walk" /\ ~run.kernel_source
  /\ Idle
  /\ UNCHANGED <<cache, text, found, finished, runs>>

\* The files whose name begins with Kconfig, backups among them, and that have
\* syntax the parser does not know.
FindUnsupported ==
  /\ pc = "walk" /\ run.kernel_source
  /\ todo' = {x \in Paths : text[x] # Nothing /\ text[x].hit}
  /\ pc' = "rewrite"
  /\ UNCHANGED <<run, batch, answer, out, cache, text, edited, parsed, gone, found, finished, runs>>

\* Mutant: a backup is made, whatever is there.
Untaken(x) == TRUE

\* A backup is that of a run that died: it stays, and the file as it is.
Free(x) == text[Backup(x)] = Nothing

\* copy2 to the backup, write_text of the cleaned text.
Rewrite(x) ==
  /\ pc = "rewrite" /\ x \in todo
  /\ todo' = todo \ {x}
  /\ IF Free(x)
     THEN /\ text' = [text EXCEPT ![Backup(x)] = text[x], ![x] = Stripped(text[x])]
          /\ edited' = edited \cup {x}
     ELSE UNCHANGED <<text, edited>>
  /\ UNCHANGED <<pc, run, batch, answer, out, cache, parsed, gone, found, finished, runs>>

\* copy2 or write_text fails, as in a tree the user may not write: the file is
\* passed over, and a backup stays if the handler may not write the file either.
\* On a full disk it is cut short and the handler fails too; or it is the backup
\* that is cut short, and the handler copies it over the file and deletes it.
RewriteFails(x) ==
  /\ pc = "rewrite" /\ x \in todo /\ Free(x)
  /\ todo' = todo \ {x}
  /\ \/ UNCHANGED text
     \/ text' = [text EXCEPT ![Backup(x)] = text[x]]
     \/ FullDisk /\ \E h \in Halves : text' \in {[text EXCEPT ![Backup(x)] = text[x], ![x] = h],
                                                 [text EXCEPT ![Backup(x)] = h, ![x] = h],
                                                 [text EXCEPT ![x] = h]}
  /\ UNCHANGED <<pc, run, batch, answer, out, cache, edited, parsed, gone, found, finished, runs>>

\* The parser reads all files of the tree, and no backup.
Parse ==
  /\ pc = "rewrite" /\ todo = {}
  /\ IF \A f \in KconfigFiles : text[<<f, 0>>].parses /\ ~text[<<f, 0>>].hit
     THEN pc' = "restore" /\ gone' = UNION {text[<<f, 0>>].lost : f \in KconfigFiles}
     ELSE pc' = "give_up" /\ UNCHANGED gone
  /\ UNCHANGED <<run, batch, answer, out, cache, text, todo, edited, parsed, found, finished, runs>>

\* On the way out, with or without an error: copy2 of the backup, unlink.  On
\* a full disk the copy is cut short, and nobody is told.
Restore(x) ==
  /\ pc \in {"restore", "give_up"} /\ x \in edited
  /\ \/ text' = [text EXCEPT ![x] = text[Backup(x)], ![Backup(x)] = Nothing]
     \/ FullDisk /\ \E h \in Halves : text' = [text EXCEPT ![x] = h]
  /\ edited' = edited \ {x}
  /\ UNCHANGED <<pc, run, batch, answer, out, cache, todo, parsed, gone, found, finished, runs>>

\* A KconfigError drops the three passes and keeps the proposals there are.
EndWalk ==
  /\ pc \in {"restore", "give_up"} /\ edited = {}
  /\ pc' = IF pc = "restore" THEN "choices" ELSE "write"
  /\ parsed' = (pc = "restore")
  /\ UNCHANGED <<run, batch, answer, out, cache, text, todo, edited, gone, found, finished, runs>>

-----------------------------------------------------------------------------
(* The end of a run                                                        *)

\* proposal.json is written over what is there; policy has its part in
\* ConfigPipeline.
Write ==
  /\ pc = "write"
  /\ finished' = finished \cup {[run |-> run, parsed |-> parsed, gone |-> gone, proposals |-> out]}
  /\ Idle
  /\ UNCHANGED <<cache, text, found, runs>>

\* The process dies: whatever it was writing is left as far as it got.
Kill ==
  /\ pc # "idle"
  /\ \/ UNCHANGED text
     \/ /\ pc = "rewrite"
        /\ \E x \in todo, h \in Halves :
             /\ Free(x)
             /\ text' \in {[text EXCEPT ![Backup(x)] = h],
                           [text EXCEPT ![Backup(x)] = text[x]],
                           [text EXCEPT ![Backup(x)] = text[x], ![x] = h]}
     \/ /\ pc \in {"restore", "give_up"}
        /\ \E x \in edited, h \in Halves :
             text' \in {[text EXCEPT ![x] = h], [text EXCEPT ![x] = text[Backup(x)]]}
  /\ Idle
  /\ UNCHANGED <<cache, found, finished, runs>>

Next ==
  \/ \E o \in Options : Start(o)
  \/ Replay
  \/ pc \in Passes /\ \E decisions \in SUBSET Decisions[pc] : Ask(decisions)
  \/ Save \/ AskFails \/ EndPass
  \/ NoSource \/ FindUnsupported \/ Parse \/ EndWalk
  \/ \E x \in Paths : Rewrite(x) \/ RewriteFails(x) \/ Restore(x)
  \/ Write \/ Kill

Spec == Init /\ [][Next]_vars

-----------------------------------------------------------------------------
(* Properties                                                              *)

\* What propose keeps of its passes, its cache and the tree is of the kind
\* its steps read.
TypeOK ==
  /\ pc \in {"idle", "walk", "rewrite", "restore", "give_up", "write"} \cup Passes
  /\ pc = "idle" <=> run = Nothing
  /\ batch \in Nat \ {0}
  /\ out \subseteq Proposals /\ (answer = Nothing \/ answer \subseteq Proposals)
  /\ \A k \in DOMAIN cache : cache[k] \in [whole : BOOLEAN, proposals : SUBSET Proposals]
  /\ {text, found} \subseteq [Paths -> FileTexts \cup {Nothing}]
  /\ todo \subseteq Paths /\ edited \subseteq Paths
  /\ parsed \in BOOLEAN /\ gone \subseteq Symbols /\ runs \in 0..MaxRuns

\* A proposal of the module, toggle or tunable pass, replayed from whatever
\* run of whatever command line, fits the run that makes it: it is about
\* something this run asks, changes the value this run's config has, and is as
\* sure as this run's aggression demands; and no pass but the rules trims what
\* the rules do (agent.py:236-254, agent_dims.py:333-393, cli.py:640-660).
Fits(o, p) ==
  LET questions == ToSet(Questions(o, gone, p.pass))
  IN  /\ p.sym \in questions
      /\ p.from = Shown(o, p.pass, p.sym)
      /\ p.to # p.from
      /\ p.pass # "modules" => p.sure >= o.context.floor
      /\ p.pass = "modules" => p.sym \notin Handled(o)

AnswersFit ==
  run # Nothing => \A p \in out : p.pass \in {"modules", "toggles", "tunables"} => Fits(run, p)

\* The same for choices.  The docstring of _prompt_cache_signature says "The
\* raw batch signature captures the Kconfig surface/current values"
\* (agent_dims.py:388).
ChoicesFit == run # Nothing => \A p \in out : p.pass = "choices" => Fits(run, p)

\* One command line over one snapshot and one tree has one result, however often
\* it is run, killed and run again and whatever was asked in between: a model
\* that would answer differently is not asked twice (agent.py:296-302).  It is
\* another tree to the walk when its Kconfig cannot be read, or when a run that
\* was killed has left a file of it cut short.
SameQuestionSameAnswer ==
  \A a, b \in finished :
    a.run = b.run /\ a.parsed = b.parsed /\ a.gone = b.gone => a.proposals = b.proposals

\* The same whatever died in the tree before.  It does not hold: a file cut
\* short in write_text (kconfig_walk.py:317) may parse with fewer symbols, and
\* later runs leave it alone because its backup exists (:311): README.
SameCommandSameAnswer ==
  \A a, b \in finished : a.run = b.run /\ a.parsed = b.parsed => a.proposals = b.proposals

\* The user's text of a Kconfig file is somewhere in the file or the backups
\* made of it, of its backup and so on, however many runs died on them ("keep
\* the user's original text safe", kconfig_walk.py:309-310); and a run that ends
\* leaves every file it came upon, whole, cut short or a backup, with the text
\* it had.
OriginalTextSafe ==
  /\ \A f \in KconfigFiles : \E i \in 0..MaxRuns : text[<<f, i>>] = Original
  /\ pc \in Passes \cup {"write"} => \A x \in Paths : found[x] # Nothing => text[x] = found[x]

\* It is in the file or in its own backup, where a user would look for it.  It
\* does not hold: rglob("Kconfig*") (kconfig_walk.py:280) finds the backup of a
\* run that was killed, and the next run strips that in place (:308-317): README.
OriginalBesideFile ==
  \A f \in KconfigFiles : Original \in {text[<<f, 0>>], text[Backup(<<f, 0>>)]}
=============================================================================
