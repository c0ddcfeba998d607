---------------------------- MODULE MCWorldBuild ----------------------------
(***************************************************************************)
(* Two libraries in the first wave and an application in the second, two   *)
(* .debs each; two workers; two flag sets.                                 *)
(***************************************************************************)
EXTENDS WorldBuild

CONSTANTS libA, libB, app

(* The manifest's flags, and the same world under another flag set.        *)
MCConfigs == {[u \in Units |-> k] : k \in Keys}

(* No filter, or `--only` the application.                                 *)
MCSelections == {Units, {app}}

MCAll == {Units}

MCWave == [u \in Units |-> IF u = app THEN 1 ELSE 0]
=============================================================================
