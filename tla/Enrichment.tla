------------------------------ MODULE Enrichment ------------------------------
(***************************************************************************)
(* autokernel inventory: scan writes the facts of a kernel tree's symbols, *)
(* enrich asks a model about them, in batches and by a pool of threads,    *)
(* and appends its answers to enrichments.jsonl.  A symbol whose facts the *)
(* file already knows is not asked about again.  A run can fail or be      *)
(* killed anywhere, a file be cut short in the middle of a row, and the    *)
(* tree be scanned again at any time.                                      *)
(***************************************************************************)
EXTENDS Naturals, Sequences, SequencesExt, Ordered

CONSTANTS
  Names,        \* of symbols, in their order
  Hashes,       \* of a symbol's facts
  Trees,        \* states of the source: its symbols, in the order of its Kconfig
  ScanLimits,   \* --limit of scan, 0 without
  Commands,     \* command lines of enrich
  Answers,      \* what the model may say: sets of [sym, hash, cites]
  MaxAttempts,  \* 3: times the model is asked about a batch
  TornRow,      \* a line that is not JSON
  MaxFaults,    \* bound: kills, cuts and refusals of the model's answers
  MaxScans,     \* bound: scans
  MaxForced     \* bound: runs with --force

Records == [sym : Names, hash : Hashes]
Rows == [sym : Names, hash : Hashes, forced : BOOLEAN]

\* No tree defines a symbol twice, and no command line names one twice: with
\* the same --symbol twice, enrich fails or writes two rows.
ASSUME EnrichmentAssumption ==
  /\ Names \subseteq Nat
  /\ Trees \subseteq Seq(Records)
  /\ \A t \in Trees : \A i, j \in 1..Len(t) : t[i].sym = t[j].sym => i = j
  /\ ScanLimits \subseteq Nat
  /\ \A o \in Commands :
       /\ {o.batch_size, o.jobs} \subseteq Nat \ {0}
       /\ o.limit \in Nat
       /\ o.symbols \in Seq(Names)
       /\ \A i, j \in 1..Len(o.symbols) : o.symbols[i] = o.symbols[j] => i = j
       /\ {o.offline, o.force} \subseteq BOOLEAN
  /\ \A a \in Answers : a \subseteq [sym : Names, hash : Hashes, cites : BOOLEAN]
  /\ MaxAttempts \in Nat \ {0}
  /\ TornRow \notin Rows
  /\ {MaxFaults, MaxScans, MaxForced} \subseteq Nat

VARIABLES
  inventory,  \* symbols.jsonl: [rows |-> records, whole |-> no line is cut]
  file,       \* lines of enrichments.jsonl
  ended,      \* whether its last line has its newline
  enrich,     \* options of the enrich that runs, {} if none does
  asked,      \* its records
  chunks,     \* those it does not skip, in batches
  next_chunk, \* the next one to submit
  futures,    \* [chunks submitted and not collected -> how far they are]
  faults, scans, forced

enrichVars ==
  <<inventory, file, ended, enrich, asked, chunks, next_chunk, futures, faults, scans, forced>>
job == <<enrich, asked, chunks, next_chunk, futures>>

-----------------------------------------------------------------------------
(* Scan                                                                    *)

\* The first symbols the Kconfig defines, by name.
BuildInventory(tree, limit) ==
  LET rows == ToSet(IF limit \in 1..Len(tree) THEN SubSeq(tree, 1, limit) ELSE tree)
      syms == InOrder({r.sym : r \in rows})
  IN  [n \in DOMAIN syms |-> CHOOSE r \in rows : r.sym = syms[n]]

\* Cut short, symbols.jsonl has a part of the rows; manifest.json, with their
\* number, is not looked at.  That it rewrites Kconfig files, as propose does,
\* has its part in ProposePasses.
Scan(tree, limit) ==
  LET rows == BuildInventory(tree, limit)
  IN  /\ scans < MaxScans /\ scans' = scans + 1
      /\ \/ inventory' = [rows |-> rows, whole |-> TRUE] /\ UNCHANGED faults
         \/ /\ faults < MaxFaults /\ faults' = faults + 1
            /\ \E n \in 0..(Len(rows) - 1), whole \in BOOLEAN :
                 inventory' = [rows |-> SubSeq(rows, 1, n), whole |-> whole]
      /\ UNCHANGED <<file, ended, job, forced>>

-----------------------------------------------------------------------------
(* What an enrich asks                                                     *)

First(seq, limit) == IF limit \in 1..Len(seq) THEN SubSeq(seq, 1, limit) ELSE seq

\* --symbol in its order, or all; --limit counts those to skip, too.
Asked(o) ==
  LET record(s) == CHOOSE r \in ToSet(inventory.rows) : r.sym = s
  IN  First(IF o.symbols = << >> THEN inventory.rows
            ELSE [i \in 1..Len(o.symbols) |-> record(o.symbols[i])], o.limit)

Lines == ToSet(file)

\* Mutant: a row counts, whatever facts it is about.
ExistingSymbol(r) == \E row \in Lines \ {TornRow} : row.sym = r.sym

Existing(r) == \E row \in Lines \ {TornRow} : row.sym = r.sym /\ row.hash = r.hash

Left(o) == Select(Asked(o), {r \in Records : o.force \/ ~Existing(r)})

\* Mutant: batches share their last and first records.
OverlappingChunks(records, size) ==
  [i \in 1..((Len(records) + size - 1) \div size) |->
     SubSeq(records, (i - 1) * size + 1, IF i * size < Len(records) THEN i * size + 1 ELSE Len(records))]

Chunks(records, size) ==
  [i \in 1..((Len(records) + size - 1) \div size) |->
     SubSeq(records, (i - 1) * size + 1, IF i * size < Len(records) THEN i * size ELSE Len(records))]

-----------------------------------------------------------------------------
(* The pool                                                                *)

\* A chunk of an offline run needs no model.
Submitted(o, chunk) ==
  IF o.offline THEN [attempt |-> 1, accepted |-> {r.sym : r \in ToSet(chunk)}, end |-> "done"]
  ELSE [attempt |-> 1, accepted |-> {}, end |-> "asking"]

EnrichEnds ==
  /\ enrich' = {} /\ asked' = << >> /\ chunks' = << >> /\ next_chunk' = 1 /\ futures' = << >>

EnrichInit ==
  /\ inventory = [rows |-> << >>, whole |-> TRUE]
  /\ file = << >> /\ ended = TRUE
  /\ enrich = {} /\ asked = << >> /\ chunks = << >> /\ next_chunk = 1 /\ futures = << >>
  /\ faults = 0 /\ scans = 0 /\ forced = 0

\* As many batches as there are jobs are submitted at once; one job or one
\* batch is the same without threads.
StartEnrich(o) ==
  LET cs    == Chunks(Left(o), o.batch_size)
      first == IF o.jobs < Len(cs) THEN o.jobs ELSE Len(cs)
  IN  /\ enrich = {}
      /\ inventory.whole /\ inventory.rows # << >>
      /\ \A i \in 1..Len(o.symbols) : \E r \in ToSet(inventory.rows) : r.sym = o.symbols[i]
      /\ o.force \/ TornRow \notin Lines
      /\ IF o.force THEN forced < MaxForced /\ forced' = forced + 1 ELSE UNCHANGED forced
      /\ enrich' = {o} /\ asked' = Asked(o) /\ chunks' = cs
      /\ futures' = [c \in 1..first |-> Submitted(o, cs[c])]
      /\ next_chunk' = first + 1
      /\ UNCHANGED <<inventory, file, ended, faults, scans>>

\* Without --force a line that is not JSON is the end of the run, and of all
\* later ones: the message says to delete the file.
Refused ==
  /\ enrich = {} /\ TornRow \in Lines
  /\ file' = << >> /\ ended' = TRUE
  /\ UNCHANGED <<inventory, job, faults, scans, forced>>

Valid(e, r) == e.sym = r.sym /\ e.hash = r.hash /\ e.cites

\* One call of the model, and the check of its answer.  What is missing is
\* asked for again; what is outside the batch or not valid is dropped.
Attempt(c, said) ==
  LET f        == futures[c]
      accepted == f.accepted \cup {r.sym : r \in {q \in ToSet(chunks[c]) : \E e \in said : Valid(e, q)}}
      complete == accepted = {r.sym : r \in ToSet(chunks[c])}
  IN  /\ f.end = "asking"
      /\ futures' = [futures EXCEPT ![c] =
           [attempt  |-> IF f.attempt < MaxAttempts THEN f.attempt + 1 ELSE f.attempt,
            accepted |-> accepted,
            end      |-> IF complete THEN "done"
                         ELSE IF f.attempt < MaxAttempts THEN "asking" ELSE "failed"]]
      /\ complete \/ faults < MaxFaults
      /\ faults' = IF complete THEN faults ELSE faults + 1
      /\ UNCHANGED <<inventory, file, ended, enrich, asked, chunks, next_chunk, scans, forced>>

\* The model cannot be reached: no attempt is left.
AttemptFails(c) ==
  /\ futures[c].end = "asking"
  /\ faults < MaxFaults /\ faults' = faults + 1
  /\ futures' = [futures EXCEPT ![c].end = "failed"]
  /\ UNCHANGED <<inventory, file, ended, enrich, asked, chunks, next_chunk, scans, forced>>

\* Rows of a chunk, in the order of its records.
ChunkRows(c) ==
  [i \in 1..Len(chunks[c]) |-> [sym |-> chunks[c][i].sym, hash |-> chunks[c][i].hash,
                                forced |-> \A o \in enrich : o.force]]

\* A line without newline takes the first row on.
Appended(rows) ==
  IF ended \/ rows = << >> THEN file \o rows
  ELSE SubSeq(file, 1, Len(file) - 1) \o <<TornRow>> \o Tail(rows)

\* Mutant: a batch that ends leaves its thread without work.
NoSubmitNext(c) ==
  /\ futures' = [d \in DOMAIN futures \ {c} |-> futures[d]]
  /\ UNCHANGED next_chunk

SubmitNext(c) ==
  LET left == DOMAIN futures \ {c}
  IN  IF next_chunk <= Len(chunks)
      THEN /\ futures' = [d \in left \cup {next_chunk} |->
                            IF d = next_chunk THEN Submitted(CHOOSE o \in enrich : TRUE, chunks[d])
                            ELSE futures[d]]
           /\ next_chunk' = next_chunk + 1
      ELSE /\ futures' = [d \in left |-> futures[d]]
           /\ UNCHANGED next_chunk

\* Any batch that has ended may be the next the main thread sees: it appends
\* the rows and submits another batch.
Collect(c) ==
  /\ futures[c].end = "done"
  /\ file' = Appended(ChunkRows(c)) /\ ended' = TRUE
  /\ SubmitNext(c)
  /\ UNCHANGED <<inventory, enrich, asked, chunks, faults, scans, forced>>

\* An exception of a batch is that of the run.  The other threads finish, and
\* nobody takes their answers.
CollectFails(c) ==
  /\ futures[c].end = "failed"
  /\ EnrichEnds
  /\ UNCHANGED <<inventory, file, ended, faults, scans, forced>>

\* Killed, or the disk full, while the rows are being written: some of them
\* are there, the last whole, or in part, or without its newline.
WriteCut(c) ==
  /\ futures[c].end = "done" /\ chunks[c] # << >>
  /\ faults < MaxFaults /\ faults' = faults + 1
  /\ \E n \in 1..Len(chunks[c]), last \in {"whole", "part", "bare"} :
       LET rows == SubSeq(ChunkRows(c), 1, n)
       IN  /\ file' = Appended(IF last = "part" THEN [rows EXCEPT ![n] = TornRow] ELSE rows)
           /\ ended' = (last = "whole")
  /\ EnrichEnds
  /\ UNCHANGED <<inventory, scans, forced>>

KillEnrich ==
  /\ enrich # {}
  /\ faults < MaxFaults /\ faults' = faults + 1
  /\ EnrichEnds
  /\ UNCHANGED <<inventory, file, ended, scans, forced>>

\* The run has collected all it has submitted, and says so.
Done == enrich # {} /\ DOMAIN futures = {}

Finish ==
  /\ Done
  /\ EnrichEnds
  /\ UNCHANGED <<inventory, file, ended, faults, scans, forced>>

EnrichNext ==
  \/ \E tree \in Trees, limit \in ScanLimits : Scan(tree, limit)
  \/ \E o \in Commands : StartEnrich(o)
  \/ Refused
  \/ \E c \in DOMAIN futures :
       \/ \E said \in Answers : Attempt(c, said)
       \/ AttemptFails(c) \/ Collect(c) \/ CollectFails(c) \/ WriteCut(c)
  \/ KillEnrich \/ Finish

\* The user runs enrich again until nothing is left, and deletes a file it
\* refuses; a command that runs goes on.
Fairness ==
  /\ \A o \in Commands :
       ~o.force /\ ~o.offline /\ o.symbols = << >> /\ o.limit = 0 => SF_enrichVars(StartEnrich(o))
  /\ WF_enrichVars(Refused)
  /\ WF_enrichVars(Finish)
  /\ WF_enrichVars(\E c \in DOMAIN futures :
               (\E said \in Answers : Attempt(c, said)) \/ Collect(c) \/ CollectFails(c))

EnrichSpec == EnrichInit /\ [][EnrichNext]_enrichVars /\ Fairness

-----------------------------------------------------------------------------
(* Properties                                                              *)

\* What the commands keep is of the kind their steps read.
EnrichTypeOK ==
  /\ inventory.rows \in Seq(Records) /\ inventory.whole \in BOOLEAN
  /\ file \in Seq(Rows \cup {TornRow}) /\ ended \in BOOLEAN
  /\ enrich \subseteq Commands
  /\ asked \in Seq(Records) /\ chunks \in Seq(Seq(Records))
  /\ DOMAIN futures \subseteq 1..Len(chunks) /\ next_chunk \in 1..(Len(chunks) + 1)

HasRow(r) == \E i \in 1..Len(file) : file[i] # TornRow /\ [sym |-> file[i].sym, hash |-> file[i].hash] = r

\* When enrich says it is done, every record it was asked for has a row about
\* the facts it has, whatever was skipped, by however many threads it worked
\* and wherever earlier runs were cut short; or else a line of the file is not
\* JSON, and the next run says so (cli.py:2306-2395).
DoneIsComplete ==
  Done => TornRow \in Lines \/ \A r \in ToSet(asked) : HasRow(r)

NoSecondRow ==
  \A i, j \in 1..Len(file) :
    /\ i < j /\ TornRow \notin {file[i], file[j]}
    /\ file[i].sym = file[j].sym /\ file[i].hash = file[j].hash
    => file[j].forced

\* Without --force the model is not asked about facts the file has a row for,
\* neither when a run starts, after runs that failed or died and a new scan, nor
\* while its other threads write, and no facts get a second row (cli.py:2325-2350,
\* docs/KCONFIG_INVENTORY.md:88-90).  What has no row yet is asked about again:
\* answers of a batch that stayed incomplete (inventory_agent.py:283-288), of
\* batches nobody collected after another failed (cli.py:2385-2393), or of one
\* that had not been appended when the run was killed.
NotAskedAgain ==
  /\ NoSecondRow
  /\ \A c \in DOMAIN futures : \A r \in ToSet(chunks[c]) :
       (\A o \in enrich : ~o.force) => ~HasRow(r)

\* Run often enough, enrich comes to have a row for every record of the
\* inventory, though answers are wrong and runs die, as long as they do not
\* for ever, and though its user must sometimes start over.
Enriched ==
  <>[](inventory.rows # << >> /\ inventory.whole =>
         TornRow \notin Lines /\ \A r \in ToSet(inventory.rows) : HasRow(r))
=============================================================================
