------------------------------- MODULE MCRofs -------------------------------
(* A small instance of Rofs for TLC: a name whose file a reload replaces   *)
(* and another one takes away, and a name that the first reload adds.      *)
EXTENDS Rofs, TLC

CONSTANTS t1, moved, added, f0, f1, f2

ContentOf ==
  0 :> (moved :> f0 @@ added :> None) @@ 1 :> (moved :> f1 @@ added :> f2) @@
  2 :> (moved :> None @@ added :> f2)
=============================================================================
