--------------------------- MODULE MCProposePasses ---------------------------
(* Command lines over a snapshot directory: two contexts, a base config in *)
(* which the toggle and the choice have other values, and a second scan.   *)
EXTENDS ProposePasses

CONSTANT f1

MCSymbols == {"NIC", "TV", "GPU", "HZ", "ZSWAP", "KSPP", "NR", "GENERIC", "MZEN"}
MCOrder == [choices |-> <<"HZ">>, toggles |-> <<"ZSWAP", "KSPP">>, tunables |-> <<"NR">>]
MCAllowed == [choices |-> {"HZ"}, toggles |-> {"ZSWAP"}, tunables |-> {"NR"}]
MCBatchSize == [p \in Passes |-> 1]

Running == [s \in MCSymbols |-> CASE s \in {"NIC", "GPU"} -> "m" [] s \in {"TV", "GENERIC"} -> "y"
                                  [] s = "HZ" -> "250" [] s = "NR" -> "8" [] OTHER -> "n"]
Round1 == [Running EXCEPT !["NIC"] = "n", !["TV"] = "absent", !["HZ"] = "1000", !["ZSWAP"] = "y"]

\* Cut short before its first line, or within one.
MCHalves == {[whole |-> FALSE, hit |-> FALSE, parses |-> TRUE, lost |-> {"ZSWAP", "NR"}],
             [whole |-> FALSE, hit |-> TRUE, parses |-> FALSE, lost |-> {"NR"}]}

Host == [name |-> "host", running |-> Running, candidates |-> <<"NIC", "GPU", "TV">>,
         handled |-> {"GPU"}]

Rescanned == [Host EXCEPT !.name = "new", !.handled = {}, !.running = Round1]

Tune ==
  {[pass |-> "rules", sym |-> "GENERIC", from |-> "y", to |-> "n", sure |-> 3],
   [pass |-> "rules", sym |-> "MZEN", from |-> "n", to |-> "y", sure |-> 3]}

Careful == [name |-> "careful", floor |-> 3, recipes |-> {"KSPP"}]
Bold == [name |-> "bold", floor |-> 1, recipes |-> {}]

Line(passes, context, base) ==
  [passes |-> passes, context |-> context, base |-> base, host |-> Host, model |-> "m",
   history |-> Nothing, tune |-> {}, skip_llm |-> FALSE, kernel_source |-> TRUE, max_candidates |-> 0]

MCOptions ==
  {Line(Passes, Bold, Nothing),
   Line({"modules", "toggles"}, Careful, Nothing),
   Line(Passes, Bold, Round1),
   [Line({"modules", "choices"}, Careful, Nothing) EXCEPT !.kernel_source = FALSE,
                                                         !.max_candidates = 1],
   [Line(Passes, Careful, Nothing) EXCEPT !.skip_llm = TRUE],
   [Line({"modules"}, Careful, Nothing) EXCEPT !.host = Rescanned, !.tune = Tune]}

Says(s, v, c) == [sym |-> s, value |-> v, sure |-> c]
MCDecisions ==
  [modules  |-> {Says("NIC", "n", 1), Says("TV", "m", 2)},
   choices  |-> {Says("HZ", "1000", 2)},
   toggles  |-> {Says("ZSWAP", "y", 2), Says("KSPP", "y", 3)},
   tunables |-> {Says("NR", "16", 1)}]
=============================================================================
