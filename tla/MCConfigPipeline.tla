-------------------------- MODULE MCConfigPipeline --------------------------
(***************************************************************************)
(* Two scans of one machine: while the command line still blacklists the   *)
(* driver of its network card, and after that, on the same running kernel. *)
(***************************************************************************)
EXTENDS ConfigPipeline

MCSymbols == {"NET_NIC", "NIC", "X", "DMX", "VOL", "PRE", "LTO_NONE", "LTO_THIN",
              "LTO_FULL", "LTO", "WERROR", "BBR", "REL"}
MCModules == {"nic", "dm-x", "dm_x"}
MCCanonical == [m \in MCModules |-> IF m = "dm-x" THEN "dm_x" ELSE m]

\* The guess at dm_x's symbol is not the one its Makefile names.
MCCandidates == [m \in MCModules |-> IF m = "nic" THEN <<"NET_NIC", "NIC">> ELSE <<"X">>]
MCBuiltBy == [m \in MCModules |-> CASE m = "nic" -> {"NIC"}
                                    [] m = "dm_x" -> {"DMX"}
                                    [] m = "dm-x" -> {}]

Running ==
  [s \in MCSymbols |-> CASE s = "DMX" -> "m"
                         [] s \in {"NIC", "VOL", "LTO_NONE", "WERROR"} -> "y"
                         [] s = "REL" -> "stock"
                         [] OTHER -> "n"]

Bare == [e \in Evidence \cup {"inUse", "protected", "running", "dkms"} |->
           CASE e \in Evidence \cup {"inUse", "protected"} -> {}
             [] e = "running" -> Running
             [] e = "dkms" -> FALSE]

MCHosts == {[Bare EXCEPT !.alias = {"nic"}, !.blacklisted = {"nic"}],
            [Bare EXCEPT !.bound = {"nic"}, !.initramfs = {"dm-x"}, !.protected = {"VOL"}]}

\* A model may give two answers for one symbol in a batch: remove and demote.
MCAdvice ==
  {[sym |-> "NIC", value |-> "n", prev |-> NoFile, source |-> "llm",
    risk |-> "medium", sure |-> "likely"],
   [sym |-> "NIC", value |-> "m", prev |-> NoFile, source |-> "llm",
    risk |-> "medium", sure |-> "likely"],
   [sym |-> "PRE", value |-> "PRE", prev |-> "VOL", source |-> "choice",
    risk |-> "medium", sure |-> "likely"]}

NoPins == [s \in {} |-> "y"]
Pins == [s \in {"BBR"} |-> "y"]
MCCommands ==
  {[lto |-> "thin", overrides |-> Pins, localmodconfig |-> TRUE, execute |-> TRUE,
    target |-> "bindeb-pkg"],
   [lto |-> "none", overrides |-> NoPins, localmodconfig |-> FALSE, execute |-> FALSE,
    target |-> "bindeb-pkg"]}
=============================================================================
