-------------------------------- MODULE Flist --------------------------------
(***************************************************************************)
(* The tree of one flist, and sqlStore.Walk over it (meta/store.go).  A    *)
(* path is the sequence of its names; a directory lists its inodes in an   *)
(* order that readers see.                                                 *)
(***************************************************************************)
EXTENDS Integers, Sequences, FiniteSets, SequencesExt

CONSTANTS
  Contents,      (* the inodes of each directory: sequences of paths       *)
  Kind,          (* the kind of each path but the root                     *)
  Asked          (* the paths that are looked up                           *)

Dirs == DOMAIN Contents
Paths == {<<>>} \cup DOMAIN Kind

Names == UNION {ToSet(p) : p \in DOMAIN Kind \cup Asked}

ASSUME FlistAssumption ==
  /\ DOMAIN Kind \cup Asked \subseteq Seq(Names) /\ <<>> \notin DOMAIN Kind
  /\ Kind \in [DOMAIN Kind -> {"dir", "file", "link", "special"}]
  /\ Dirs = {<<>>} \cup {p \in DOMAIN Kind : Kind[p] = "dir"}
  /\ \A q \in DOMAIN Kind : Front(q) \in Dirs
  /\ \A p \in Dirs :
       /\ Contents[p] \in Seq(DOMAIN Kind)
       /\ ToSet(Contents[p]) = {q \in DOMAIN Kind : Front(q) = p}

(* A tree ends somewhere, and a name is one inode of its directory.        *)
ASSUME TreeAssumption ==
  /\ IsFiniteSet(DOMAIN Kind)
  /\ \A p \in Dirs : \A i, j \in DOMAIN Contents[p] :
       Contents[p][i] = Contents[p][j] => i = j

KindOf(p) ==
  CASE p = <<>> -> "dir" [] p \in DOMAIN Kind -> Kind[p] [] OTHER -> "none"

(* getChildren passes over special files.                                  *)
Plain(p) == {q \in ToSet(Contents[p]) : Kind[q] \in {"file", "link"}}
SubDirs(p) == {q \in ToSet(Contents[p]) : Kind[q] = "dir"}

(* The children that are compared with a name: up to the one that has it.  *)
UpTo(p, q) ==
  LET all == Contents[p]
      Seen(i) == /\ Kind[all[i]] # "special"
                 /\ \A j \in 1 .. i - 1 : all[j] = q => Kind[q] = "special"
  IN  {all[i] : i \in {j \in DOMAIN all : Seen(j)}}

-----------------------------------------------------------------------------
(* sqlStore.Walk and walkDir.  What fn answers for each path: go on, an    *)
(* ErrSkipDir, or another error.                                           *)

Answers == [Paths -> {"go", "skip", "stop"}]

SkipOne(sub, acc, c) ==       (* slip: a skipped file skips no sibling *)
  IF acc.end = "stop" \/ Kind[c] = "special" THEN acc
  ELSE [seen |-> acc.seen \o sub.seen,
        end |-> IF sub.end = "skip" THEN "go" ELSE sub.end]

(* One child: the walk of a directory only ends with an error; a file that *)
(* is skipped ends the directory it is in.                                 *)
WalkChild(sub, acc, c) ==
  IF acc.end # "go" \/ Kind[c] = "special" THEN acc
  ELSE [seen |-> acc.seen \o sub.seen,
        end  |-> IF c \in Dirs /\ sub.end = "skip" THEN "go" ELSE sub.end]

WalkDir(fn) ==
  LET walk[p \in Paths] ==
        IF p \notin Dirs \/ fn[p] # "go" THEN [seen |-> <<p>>, end |-> fn[p]]
        ELSE LET upTo[i \in 0 .. Len(Contents[p])] ==
                   IF i = 0 THEN [seen |-> <<p>>, end |-> "go"]
                   ELSE WalkChild(walk[Contents[p][i]], upTo[i - 1], Contents[p][i])
             IN  upTo[Len(Contents[p])]
  IN  walk

(* A walk that starts at a file hands on what fn says, ErrSkipDir too.     *)
Walk(root, fn) ==
  IF KindOf(root) \in {"none", "special"} THEN [seen |-> <<>>, err |-> "not found"]
  ELSE LET w == WalkDir(fn)[root]
       IN  [seen |-> w.seen,
            err |-> IF w.end = "stop" \/ (w.end = "skip" /\ root \notin Dirs)
                    THEN w.end ELSE "none"]

-----------------------------------------------------------------------------
(* What a walk should visit, without recursion.                            *)

Place(p) == CHOOSE i \in DOMAIN Contents[Front(p)] : Contents[Front(p)][i] = p
Places(p) == [i \in DOMAIN p |-> Place(SubSeq(p, 1, i))]

(* p comes before q: it is above q, or at the fork in the earlier branch.  *)
Before(p, q) ==
  \/ IsStrictPrefix(p, q)
  \/ \E i \in DOMAIN p \cap DOMAIN q :
       /\ \A j \in 1 .. i - 1 : p[j] = q[j]
       /\ Places(p)[i] < Places(q)[i]

Shown(root) ==
  {p \in Paths : IsPrefix(root, p) /\ KindOf(p) # "special"}

(* No directory above p is skipped, and no file before p or before a       *)
(* directory above it in the same directory.                               *)
Open(root, fn, p) ==
  \A q \in Shown(root) : fn[q] = "skip" =>
    /\ ~(q \in Dirs /\ IsStrictPrefix(q, p))
    /\ ~(q \notin Dirs /\ q # root /\ IsStrictPrefix(Front(q), p) /\ Before(q, p))

WalkRight(root, fn) ==
  LET w == Walk(root, fn)
      open == {p \in Shown(root) : Open(root, fn, p)}
      stops == {p \in open : fn[p] = "stop"}
  IN /\ ToSet(w.seen) = {p \in open : \A q \in stops : ~Before(q, p)}
     /\ \A i \in 1 .. Len(w.seen) - 1 : Before(w.seen[i], w.seen[i + 1])
     /\ w.err = "stop" <=> stops # {}
=============================================================================
