-------------------------------- MODULE Layers --------------------------------
(***************************************************************************)
(* meta/layer.go: the meta stores of several flists seen as one.  The last *)
(* store is on top; a directory is merged with those below it, a file      *)
(* hides them.  Stores layers what is already layered, as reload does.     *)
(*                                                                         *)
(* A store gives every path a node: its kind, the flist it comes from and  *)
(* what its Children lists.                                                *)
(***************************************************************************)
EXTENDS Integers, Sequences, SequencesExt, FiniteSets

CONSTANTS
  Paths, Children,  (* the paths, and those directly under each of them    *)
  Flists, Kind,     (* the flists, and the kind each gives to each path    *)
  Absent,           (* the kind of a path that is not there                *)
  NoName            (* an empty line                                       *)

ASSUME LayersAssumption ==
  /\ NoName \notin Flists /\ Absent \notin {"dir", "file"}
  /\ Children \in [Paths -> SUBSET Paths]
  /\ Kind \in [Flists -> [Paths -> {"dir", "file", Absent}]]
  /\ \A f \in Flists, p \in Paths : \A c \in Children[p] :
       Kind[f][c] # Absent => Kind[f][p] = "dir"

-----------------------------------------------------------------------------
(* One flist.                                                              *)

Entry(p, node) == [path |-> p, kind |-> node.kind, from |-> node.from]

Nothing == [kind |-> Absent, from |-> NoName, list |-> {}]

SqlStore(f) ==
  [p \in Paths |->
     IF Kind[f][p] = Absent THEN Nothing
     ELSE [kind |-> Kind[f][p], from |-> f,
           list |-> {[path |-> c, kind |-> Kind[f][c], from |-> f] :
                       c \in {d \in Children[p] : Kind[f][d] # Absent}}]]

-----------------------------------------------------------------------------
(* Several flists, from the top down.                                      *)

Has(s, i, p) == s[i][p].kind # Absent

LastThatHas(s, i, p) ==          (* slip: the lowest layer wins             *)
  Has(s, i, p) /\ \A j \in i + 1 .. Len(s) : ~Has(s, j, p)

(* Get answers from the first layer that has the path.                     *)
Answers(s, i, p) ==
  Has(s, i, p) /\ \A j \in 1 .. i - 1 : ~Has(s, j, p)

NextOnly(s, i, p) == {j \in {i, i + 1} \cap DOMAIN s : Has(s, j, p)}
                                 (* slip: merged with one layer only        *)

(* The layers whose children are merged: the answering one and all below.  *)
MergedLayers(s, i, p) == {j \in i .. Len(s) : Has(s, j, p)}

(* A name is listed as the first of these layers lists it.                 *)
MergedChildren(s, i, p) ==
  LET layers == MergedLayers(s, i, p)
      Lists(j, c) == \E e \in s[j][p].list : e.path = c
  IN  UNION {{e \in s[j][p].list :
                \A k \in layers : k < j => ~Lists(k, e.path)} : j \in layers}

MergedNode(s, p) ==
  IF ~\E i \in DOMAIN s : Has(s, i, p) THEN Nothing
  ELSE LET i == CHOOSE n \in DOMAIN s : Answers(s, n, p)
       IN  IF s[i][p].kind = "file" THEN s[i][p]
           ELSE [s[i][p] EXCEPT !.list = MergedChildren(s, i, p)]

(* Layered gives a single store back as it is.                             *)
Layered(s) ==
  IF Len(s) = 1 THEN s[1]
  ELSE [p \in Paths |-> MergedNode(Reverse(s), p)]

(* getMetaStore skips empty names.                                         *)
Named(lines) ==
  LET kept == {i \in DOMAIN lines : lines[i] # NoName}
      Nth(n) == CHOOSE i \in kept : Cardinality({j \in kept : j <= i}) = n
  IN  [n \in 1 .. Cardinality(kept) |-> lines[Nth(n)]]

MetaStore(lines) ==
  LET names == Named(lines)
  IN  Layered([i \in 1 .. Len(names) |-> SqlStore(names[i])])
=============================================================================
