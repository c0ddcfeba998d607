---------------------------- MODULE MCWorldTriage ----------------------------
(***************************************************************************)
(* Packages that share one exceptions table; the first of them has an      *)
(* override of its own in the manifest.                                    *)
(***************************************************************************)
EXTENDS WorldTriage

CONSTANTS bash, nodoc

MCManifest == [u \in Units |-> IF u = bash THEN {nodoc} ELSE None]

MCNoManifest == [u \in Units |-> None]
=============================================================================
