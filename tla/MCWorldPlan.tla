---------------------------- MODULE MCWorldPlan ----------------------------
(***************************************************************************)
(* Four sources.  a, b and c depend on each other in every way, a on its   *)
(* own binary too; c may depend on d, and d on nothing, a or b, so that    *)
(* there are chains of four, cycles of two to four, and sources that only  *)
(* wait for a cycle.  b builds a second binary, which dpkg still records   *)
(* under a; c's may be built by d, too; b's and d's first ones may not be  *)
(* installed, so that d is not in the closure; one comes from nowhere.     *)
(***************************************************************************)
EXTENDS WorldPlan, TLC

CONSTANTS a, b, c, d, gone, ba, bb, bx, bc, bd, by

MCSources == {a, b, c, d}
MCBinaries == {ba, bb, bx, bc, bd, by}
MCIndices ==
  {(a :> [binaries |-> {ba}, depends |-> da]) @@
   (b :> [binaries |-> {bb, bx}, depends |-> db]) @@
   (c :> [binaries |-> {bc}, depends |-> dc]) @@
   (d :> [binaries |-> xd, depends |-> dd]) :
     da \in SUBSET {ba, bx, bc}, db \in SUBSET {ba, bc},
     dc \in SUBSET {ba, bx, bd}, dd \in {{}, {ba}, {bx}},
     xd \in {{bd}, {bc, bd}}}
MCInstalled == (ba :> a) @@ (bb :> b) @@ (bx :> a) @@ (bc :> c) @@ (bd :> d) @@ (by :> gone)
MCWorlds == {MCInstalled, [x \in MCBinaries \ {bb, bd} |-> MCInstalled[x]]}
=============================================================================
