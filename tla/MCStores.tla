------------------------------ MODULE MCStores ------------------------------
(* A small instance of Stores for TLC: flists that have something in       *)
(* their root, over paths d, x in d and z in x.                            *)
EXTENDS Stores, TLC

CONSTANTS root, d, x, z, fileD, fileX, dirX, fileZ

ChildrenOf == root :> {d} @@ d :> {x} @@ x :> {z} @@ z :> {}

(* A flist whose directories are ds and that has one file, or none.        *)
Tree(ds, file) ==
  [p \in Paths |->
     IF p \in ds THEN "dir" ELSE IF p = file THEN "file" ELSE Absent]

KindOf ==
  fileD :> Tree({root}, d) @@
  fileX :> Tree({root, d}, x) @@ dirX :> Tree({root, d, x}, Absent) @@
  fileZ :> Tree({root, d, x}, z)
=============================================================================
