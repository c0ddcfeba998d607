---------------------------- MODULE MCPatchSets ----------------------------
(***************************************************************************)
(* Three sets.  "userns" has two patches, the second changing what the     *)
(* first wrote (the shape of ubuntu-apparmor-userns).  "fix" is one patch  *)
(* next to the lines of userns; release 2 has moved away from it.  "old"   *)
(* is declared for release 1 only and wants another value of the symbol    *)
(* userns requires.  Release 2 has merged the first patch of userns.       *)
(***************************************************************************)
EXTENDS PatchSets

CONSTANTS u1, u2, f, o, userns, fix, old

MCPatches == {u1, u2, f, o}
MCRewrites == [p \in MCPatches |-> IF p = u2 THEN {u1} ELSE {}]
MCBrushes == [p \in MCPatches |-> IF p = f THEN {u1, u2} ELSE {}]
MCStuck == [p \in MCPatches |-> IF p = f THEN {2} ELSE {}]

MCSets == {userns, fix, old}
MCSeries ==
  [s \in MCSets |-> CASE s = userns -> <<u1, u2>> [] s = fix -> <<f>> [] s = old -> <<o>>]
MCDeclares == [s \in MCSets |-> IF s = old THEN {1} ELSE {1, 2}]
MCWants ==
  [s \in MCSets |-> [sym \in IF s = fix THEN {} ELSE {"RESTRICT_USERNS"}
                       |-> IF s = old THEN "y" ELSE "n"]]
MCUpstream == [r \in {1, 2} |-> IF r = 2 THEN {u1} ELSE {}]
=============================================================================
