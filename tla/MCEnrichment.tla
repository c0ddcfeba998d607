----------------------------- MODULE MCEnrichment -----------------------------
(* A tree of three symbols and its successor, in which one has other facts. *)
EXTENDS Enrichment

MCNames == 1..3
R(s, h) == [sym |-> s, hash |-> h]
MCTrees == {<<R(2, "a"), R(1, "a"), R(3, "a")>>, <<R(1, "b"), R(3, "a")>>}

MCCommands ==
  {[symbols |-> << >>, limit |-> 0, batch_size |-> 1, jobs |-> 2, offline |-> FALSE, force |-> FALSE],
   [symbols |-> << >>, limit |-> 1, batch_size |-> 2, jobs |-> 1, offline |-> TRUE, force |-> FALSE],
   [symbols |-> <<3, 1>>, limit |-> 0, batch_size |-> 2, jobs |-> 1, offline |-> FALSE, force |-> TRUE]}

Says(s, h) == [sym |-> s, hash |-> h, cites |-> TRUE]
MCAnswers ==
  {{Says(1, "a"), Says(2, "a"), Says(3, "a")},
   {Says(1, "b"), Says(2, "b"), Says(3, "a")},
   {Says(1, "a"), [sym |-> 3, hash |-> "a", cites |-> FALSE]}}
=============================================================================
