---------------------------- MODULE MCClosedLoop ----------------------------
(***************************************************************************)
(* Two load-bearing symbols: a proposal to turn fs off is what the policy  *)
(* is there for, one to choose lto instead of btf what the validation of   *)
(* the merge is there for.  snd is a plain trim; wifi is a module that is  *)
(* not loaded.  Trimming snd is more than one percent of the kernel.       *)
(***************************************************************************)
EXTENDS ClosedLoop

CONSTANTS fs, btf, snd, wifi, lto

MCProposals ==
  {[config |-> fs,  value |-> "n", previous |-> None],
   [config |-> snd, value |-> "n", previous |-> None],
   [config |-> lto, value |-> "y", previous |-> btf]}

MCAnswers == {{p \in Proposals : p.config # lto}, {p \in Proposals : p.config = lto}}

MCSize == [c \in SUBSET Symbols |-> 100 * Cardinality(c)]

MCOptions ==
  {[execute |-> TRUE,  converge |-> "stable-size",      revert |-> TRUE,  rounds |-> 2],
   [execute |-> FALSE, converge |-> "no-new-proposals", revert |-> FALSE, rounds |-> 1]}

MCExecute == {o \in MCOptions : o.execute}
=============================================================================
