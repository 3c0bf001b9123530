---------------------------- MODULE StoresProofs ----------------------------
(***************************************************************************)
(* Theorems about the layers of a mount and its reloads, for every tree of *)
(* paths, every set of flists and every length of the command line and of  *)
(* .layered.                                                               *)
(*                                                                         *)
(* The state needs little: once the process is up every entry of its       *)
(* command line names a directory (Known).  The rest is about stores.  A   *)
(* flist lists what it has, and has what it lists (Truthful, Complete), and *)
(* what is under a path makes it a directory (Rooted).  Layering keeps the *)
(* first two, but a file above a directory breaks the third: what is left  *)
(* of it (Held) is enough to layer two stores once more, for Truthful.     *)
(***************************************************************************)
EXTENDS Stores, TLAPS, FiniteSetTheorems, WellFoundedInduction

Lines == BoundedSeq(Flists \cup {NoName}, MaxLines)

(* stores.go:49: getMetaStore writes the directories back into cmd.Meta.   *)
Known ==
  /\ cmd \in BoundedSeq(Flists, MaxFlists)
  /\ shown \in Lines \cup {NoFile}
  /\ dirs \subseteq DOMAIN cmd
  /\ phase = "up" => dirs = DOMAIN cmd

-----------------------------------------------------------------------------
(* What a pass over a list does.                                           *)

LEMMA BoundedIsSeq ==
  ASSUME NEW S, NEW n \in Nat, NEW s \in BoundedSeq(S, n)
  PROVE  s \in Seq(S) /\ Len(s) \in Nat /\ DOMAIN s = 1 .. Len(s)
<1>1. PICK m \in 0 .. n : s \in [1 .. m -> S]
  BY DEF BoundedSeq, SeqOf
<1> QED
  BY <1>1

(* It knows more directories afterwards, and all of them when it went to   *)
(* the end.                                                                *)
LEMMA PassKnows ==
  ASSUME NEW S, NEW n \in Nat, NEW list \in BoundedSeq(S, n),
         NEW known \in SUBSET (DOMAIN list), NEW damaged,
         NEW r \in Results(list, known, damaged)
  PROVE  /\ r.known \subseteq DOMAIN list /\ known \subseteq r.known
         /\ r.ok => r.known = DOMAIN list
<1>1. Len(list) \in Nat /\ DOMAIN list = 1 .. Len(list)
  BY BoundedIsSeq
<1>2. PICK stop \in {i \in DOMAIN list : list[i] # NoName} \cup {Len(list) + 1},
           why \in {"open", "unpack", "store"} :
        r = GetMetaStore(list, known, damaged, stop, why)
  BY DEF Results
<1> DEFINE done == {i \in DOMAIN list : i < stop \/ (i = stop /\ why = "store")}
<1>3. r.known = known \cup done /\ r.ok = (stop > Len(list))
  BY <1>2 DEF GetMetaStore, Renamed
<1>4. ASSUME stop > Len(list) PROVE done = DOMAIN list
  BY <1>1, <1>4
<1>5. done \subseteq DOMAIN list
  OBVIOUS
<1> HIDE DEF done
<1> QED
  BY <1>3, <1>4, <1>5

(* It writes only what is an archive, and was not known to be a directory. *)
LEMMA PassWrites ==
  ASSUME NEW S, NEW n \in Nat, NEW list \in BoundedSeq(S, n), NEW known, NEW damaged,
         NEW r \in Results(list, known, damaged)
  PROVE  r.wrote \subseteq {list[i] : i \in DOMAIN list \ known}
<1>2. PICK stop \in {i \in DOMAIN list : list[i] # NoName} \cup {Len(list) + 1},
           why \in {"open", "unpack", "store"} :
        r = GetMetaStore(list, known, damaged, stop, why)
  BY DEF Results
<1> DEFINE done == {i \in DOMAIN list : i < stop \/ (i = stop /\ why = "store")}
           new == [i \in done \ known |-> list[i]]
<1>3. r.wrote = Names(new) \cup Half(list, known, stop, why)
  BY <1>2 DEF GetMetaStore
<1>4. Names(new) \subseteq {list[i] : i \in done \ known}
  BY DEF Names
<1>5. Half(list, known, stop, why) \subseteq {list[i] : i \in DOMAIN list \ known}
  BY DEF Half
<1> QED
  BY <1>3, <1>4, <1>5

-----------------------------------------------------------------------------
LEMMA InitKnown == Init => Known
<1> SUFFICES ASSUME Init PROVE Known
  OBVIOUS
<1> QED
  BY DEF Init, Known, ArgDirs

LEMMA StepKnown == Known /\ [Next]_vars => Known'
<1> SUFFICES ASSUME Known, [Next]_vars PROVE Known'
  OBVIOUS
<1>1. MaxFlists \in Nat /\ MaxLines \in Nat
  BY StoresAssumption
<1>2. CASE Start
  <2>1. PICK r \in Results(cmd, dirs, torn), routed \in BOOLEAN :
          /\ phase' = IF r.ok /\ routed THEN "up" ELSE "over"
          /\ dirs' = r.known
    BY <1>2 DEF Start
  <2>2. r.known \subseteq DOMAIN cmd /\ (r.ok => r.known = DOMAIN cmd)
    BY <1>1, PassKnows DEF Known
  <2> QED
    BY <1>2, <2>1, <2>2 DEF Start, Known
<1>3. CASE Restart
  BY <1>3 DEF Restart, Known, ArgDirs
<1>4. ASSUME NEW lines \in Lines, Reload(lines) PROVE Known'
  <2>1. PICK e \in Results(lines, ArgDirs(lines), torn) :
          \/ UNCHANGED <<dirs, shown>>
          \/ \E r \in Results(cmd, dirs, e.torn), routed \in BOOLEAN :
               dirs' = r.known /\ shown' = IF r.ok /\ routed THEN lines ELSE shown
    BY <1>4 DEF Reload
  <2>2. CASE UNCHANGED <<dirs, shown>>
    BY <1>4, <2>2 DEF Reload, Known
  <2>3. ASSUME NEW r \in Results(cmd, dirs, e.torn), NEW routed \in BOOLEAN,
               dirs' = r.known, shown' = IF r.ok /\ routed THEN lines ELSE shown
        PROVE  Known'
    <3>1. r.known \subseteq DOMAIN cmd /\ dirs \subseteq r.known
      BY <1>1, PassKnows DEF Known
    <3>2. dirs' = DOMAIN cmd
      BY <1>4, <2>3, <3>1 DEF Reload, Known
    <3>3. shown' \in Lines \cup {NoFile}
      BY <2>3 DEF Known
    <3> QED
      BY <1>4, <3>2, <3>3 DEF Reload, Known
  <2> QED
    BY <2>1, <2>2, <2>3
<1>5. CASE UNCHANGED vars
  BY <1>5 DEF vars, Known
<1> QED
  BY <1>2, <1>3, <1>4, <1>5 DEF Next, Lines

(* The entries of the command line are directories while it is mounted.    *)
THEOREM Invariant == Spec => []Known
BY InitKnown, StepKnown, PTL DEF Spec

(* stores.go:49 and reload of mount.go: a reload, also one that fails half *)
(* way and those after it, writes into no database that is in use unless   *)
(* .layered names its archive.                                             *)
THEOREM MountedIsKept == Spec => MountedKept
<1>1. ASSUME Known, Next, phase = "up" PROVE wrote' \cap InUse \subseteq extra'
  <2>1. CASE Start
    BY <1>1, <2>1 DEF Start
  <2>2. CASE Restart
    BY <2>2 DEF Restart
  <2>3. ASSUME NEW lines \in Lines, Reload(lines) PROVE wrote' \subseteq extra'
    <3>1. MaxFlists \in Nat /\ MaxLines \in Nat /\ NoFile \notin Lines
      BY StoresAssumption DEF Lines
    <3>2. extra' = Names(lines) \cap Archives
      BY <2>3 DEF Reload
    <3>3. Archives \subseteq Flists /\ NoName \notin Flists
      BY StoresAssumption, LayersAssumption
    <3>4. ASSUME NEW e \in Results(lines, ArgDirs(lines), torn)
          PROVE  e.wrote \subseteq extra'
      <4>1. e.wrote \subseteq {lines[i] : i \in DOMAIN lines \ ArgDirs(lines)}
        BY <3>1, PassWrites DEF Lines
      <4>2. {lines[i] : i \in DOMAIN lines \ ArgDirs(lines)} \subseteq Archives
        BY DEF ArgDirs
      <4>3. Names(lines) = {lines[i] : i \in DOMAIN lines} \ {NoName}
        BY <3>1 DEF Names
      <4> QED
        BY <3>2, <3>3, <4>1, <4>2, <4>3
    <3>5. ASSUME NEW damaged, NEW r \in Results(cmd, dirs, damaged)
          PROVE  r.wrote = {}
      <4>1. r.wrote \subseteq {cmd[i] : i \in DOMAIN cmd \ dirs}
        BY <1>1, <3>1, PassWrites DEF Known
      <4> QED
        BY <1>1, <4>1 DEF Known
    <3> QED
      BY <2>3, <3>4, <3>5 DEF Reload
  <2> QED
    BY <1>1, <2>1, <2>2, <2>3 DEF Next, Lines
<1>2. Known /\ [Next]_vars => [phase = "up" => wrote' \cap InUse \subseteq extra']_vars
  BY <1>1
<1> QED
  BY <1>2, Invariant, PTL DEF Spec, MountedKept

-----------------------------------------------------------------------------
(* Stores: what the node of each path may be, and how nodes fit together.  *)

Kinds   == {"dir", "file", Absent}
Origins == Flists \cup {NoName}
Entries == [path : Paths, kind : Kinds, from : Origins]
Nodes   == [kind : Kinds, from : Origins, list : SUBSET Entries]
StoreSet == [Paths -> Nodes]

(* What is listed is found, and is what it was listed as.                  *)
Truthful(st) ==
  \A p \in Paths : \A e \in st[p].list :
    e.path \in Children[p] /\ st[e.path].kind # Absent /\ e = Entry(e.path, st[e.path])

(* What is found is listed.                                                *)
Complete(st) ==
  \A p \in Paths : st[p].kind = "dir" =>
    \A c \in Children[p] : st[c].kind # Absent => Entry(c, st[c]) \in st[p].list

(* What is found is under something, or even under a directory.            *)
Held(st) ==
  \A p \in Paths : \A c \in Children[p] :
    st[c].kind # Absent => st[p].kind # Absent
Rooted(st) ==
  \A p \in Paths : \A c \in Children[p] :
    st[c].kind # Absent => st[p].kind = "dir"

Barren(st) == \A p \in Paths : st[p].kind # "dir" => st[p].list = {}

Good(st) == st \in StoreSet /\ Truthful(st) /\ Complete(st) /\ Held(st) /\ Barren(st)

LEMMA NothingIsNode == Nothing \in Nodes
BY DEF Nothing, Nodes, Kinds, Origins

LEMMA EntryFields ==
  ASSUME NEW p, NEW node
  PROVE  /\ Entry(p, node).path = p /\ Entry(p, node).kind = node.kind
         /\ Entry(p, node).from = node.from
BY DEF Entry

(* One flist.                                                              *)
LEMMA SqlStoreNode ==
  ASSUME NEW f \in Flists, NEW p \in Paths
  PROVE  /\ SqlStore(f)[p] \in Nodes /\ SqlStore(f)[p].kind = Kind[f][p]
         /\ Kind[f][p] # Absent => SqlStore(f)[p].from = f
         /\ Kind[f][p] = Absent => SqlStore(f)[p] = Nothing
         /\ Kind[f][p] # Absent =>
              SqlStore(f)[p].list =
                {[path |-> c, kind |-> Kind[f][c], from |-> f] :
                   c \in {d \in Children[p] : Kind[f][d] # Absent}}
<1>1. Children[p] \subseteq Paths /\ \A c \in Paths : Kind[f][c] \in Kinds
  BY LayersAssumption DEF Kinds
<1> DEFINE list == {[path |-> c, kind |-> Kind[f][c], from |-> f] :
                      c \in {d \in Children[p] : Kind[f][d] # Absent}}
<1>2. list \in SUBSET Entries
  BY <1>1 DEF Entries, Origins
<1>3. SqlStore(f)[p] = IF Kind[f][p] = Absent THEN Nothing
                       ELSE [kind |-> Kind[f][p], from |-> f, list |-> list]
  BY DEF SqlStore
<1> HIDE DEF list
<1>4. CASE Kind[f][p] = Absent
  BY <1>3, <1>4, NothingIsNode DEF Nothing
<1>5. CASE Kind[f][p] # Absent
  <2>1. SqlStore(f)[p] = [kind |-> Kind[f][p], from |-> f, list |-> list]
    BY <1>3, <1>5
  <2>2. SqlStore(f)[p] \in Nodes
    BY <1>1, <1>2, <2>1 DEF Nodes, Origins
  <2>3. /\ SqlStore(f)[p].kind = Kind[f][p] /\ SqlStore(f)[p].from = f
        /\ SqlStore(f)[p].list = list
    BY <2>1
  <2> QED
    BY <1>5, <2>2, <2>3 DEF list
<1> QED
  BY <1>4, <1>5

LEMMA SqlStoreGood ==
  ASSUME NEW f \in Flists
  PROVE  Good(SqlStore(f)) /\ Rooted(SqlStore(f))
<1> DEFINE st == SqlStore(f)
<1>0. st \in StoreSet
  <2>1. DOMAIN st = Paths /\ st = [p \in Paths |-> st[p]]
    BY DEF SqlStore
  <2> QED
    BY <2>1, SqlStoreNode DEF StoreSet
<1>1. ASSUME NEW p \in Paths
      PROVE  /\ st[p].kind = Kind[f][p] /\ Children[p] \subseteq Paths
             /\ Kind[f][p] # Absent => st[p].from = f
             /\ Kind[f][p] = Absent => st[p].list = {}
             /\ Kind[f][p] # Absent =>
                  st[p].list = {[path |-> c, kind |-> Kind[f][c], from |-> f] :
                                  c \in {d \in Children[p] : Kind[f][d] # Absent}}
  BY SqlStoreNode, LayersAssumption DEF Nothing
<1> HIDE DEF st
<1>2. Rooted(st)
  BY <1>1, LayersAssumption DEF Rooted
<1>3. ASSUME NEW p \in Paths, NEW c \in Children[p], st[c].kind # Absent
      PROVE  Entry(c, st[c]) = [path |-> c, kind |-> Kind[f][c], from |-> f]
  BY <1>1, <1>3 DEF Entry
<1>4. Truthful(st)
  <2> SUFFICES ASSUME NEW p \in Paths, NEW e \in st[p].list
               PROVE  /\ e.path \in Children[p] /\ st[e.path].kind # Absent
                      /\ e = Entry(e.path, st[e.path])
    BY DEF Truthful
  <2>1. PICK c \in Children[p] : /\ Kind[f][c] # Absent
                                 /\ e = [path |-> c, kind |-> Kind[f][c], from |-> f]
    BY <1>1
  <2>2. e.path = c
    BY <2>1
  <2>3. st[c].kind # Absent
    BY <1>1, <2>1
  <2> QED
    BY <1>3, <2>1, <2>2, <2>3
<1>5. Complete(st)
  <2> SUFFICES ASSUME NEW p \in Paths, st[p].kind = "dir",
                      NEW c \in Children[p], st[c].kind # Absent
               PROVE  Entry(c, st[c]) \in st[p].list
    BY DEF Complete
  <2>1. Kind[f][c] # Absent /\ Kind[f][p] # Absent
    BY <1>1, LayersAssumption
  <2> QED
    BY <1>1, <1>3, <2>1
<1>6. Held(st)
  BY <1>2, LayersAssumption DEF Rooted, Held
<1>7. Barren(st)
  BY <1>1, LayersAssumption DEF Barren
<1> QED
  BY <1>0, <1>2, <1>4, <1>5, <1>6, <1>7 DEF Good, st

-----------------------------------------------------------------------------
(* Layers from the top down.                                               *)

Less == {ss \in Nat \X Nat : ss[1] < ss[2]}

LEMMA LeastNat ==
  ASSUME NEW T, T \subseteq Nat, T # {}
  PROVE  \E m \in T : \A n \in T : m <= n
<1>1. IsWellFoundedOn(Less, Nat)
  BY NatLessThanWellFounded, Zenon DEF OpToRel, Less
<1>2. \E m \in T : \A n \in T : ~(<<n, m>> \in Less)
  BY <1>1, WFMin
<1>3. ASSUME NEW m \in T, NEW n \in T, ~(<<n, m>> \in Less)
      PROVE  m <= n
  BY <1>3 DEF Less
<1> QED
  BY <1>2, <1>3

LEMMA SomeAnswers ==
  ASSUME NEW s \in Seq(StoreSet), NEW p \in Paths, \E i \in DOMAIN s : Has(s, i, p)
  PROVE  \E i \in DOMAIN s : Answers(s, i, p)
<1> DEFINE T == {i \in DOMAIN s : Has(s, i, p)}
<1>1. T \subseteq Nat /\ T # {}
  OBVIOUS
<1>2. PICK m \in T : \A n \in T : m <= n
  <2> HIDE DEF T
  <2> QED BY <1>1, LeastNat
<1> QED
  BY <1>2 DEF Answers

(* Has is all that Answers knows of the layers.                            *)
LEMMA OneAnswers ==
  ASSUME NEW s \in Seq(StoreSet), NEW p \in Paths,
         NEW i \in DOMAIN s, NEW j \in DOMAIN s, Answers(s, i, p), Answers(s, j, p)
  PROVE  i = j
<1>1. i \in Nat /\ j \in Nat /\ i > 0 /\ j > 0
  OBVIOUS
<1>2. ~(i < j) /\ ~(j < i)
  BY <1>1 DEF Answers
<1> QED
  BY <1>1, <1>2

LEMMA MergedChildrenType ==
  ASSUME NEW s \in Seq(StoreSet), NEW p \in Paths, NEW i \in DOMAIN s
  PROVE  MergedChildren(s, i, p) \in SUBSET Entries
<1>1. ASSUME NEW j \in DOMAIN s PROVE s[j][p].list \in SUBSET Entries
  BY DEF StoreSet, Nodes
<1>2. \A j \in MergedLayers(s, i, p) : j \in DOMAIN s
  BY DEF MergedLayers
<1> QED
  BY <1>1, <1>2 DEF MergedChildren

LEMMA MergedNodeIs ==
  ASSUME NEW s \in Seq(StoreSet), NEW p \in Paths, NEW i \in DOMAIN s, Answers(s, i, p)
  PROVE  /\ MergedNode(s, p) \in Nodes
         /\ MergedNode(s, p).kind = s[i][p].kind /\ s[i][p].kind # Absent
         /\ MergedNode(s, p).from = s[i][p].from
         /\ MergedNode(s, p).list = IF s[i][p].kind = "file" THEN s[i][p].list
                                    ELSE MergedChildren(s, i, p)
<1>1. Has(s, i, p)
  BY DEF Answers
<1> DEFINE n == CHOOSE n \in DOMAIN s : Answers(s, n, p)
<1>2. n \in DOMAIN s /\ Answers(s, n, p)
  OBVIOUS
<1>3. n = i
  BY <1>2, OneAnswers
<1>4. MergedNode(s, p) = IF s[n][p].kind = "file" THEN s[n][p]
                         ELSE [s[n][p] EXCEPT !.list = MergedChildren(s, n, p)]
  BY <1>1 DEF MergedNode
<1> HIDE DEF n
<1>5. s[i][p] \in Nodes /\ s[i][p].kind # Absent
  BY <1>1 DEF StoreSet, Has
<1>6. MergedChildren(s, i, p) \in SUBSET Entries
  BY MergedChildrenType
<1> QED
  BY <1>3, <1>4, <1>5, <1>6 DEF Nodes

LEMMA NoneAnswers ==
  ASSUME NEW s, NEW p, \A i \in DOMAIN s : ~Has(s, i, p)
  PROVE  MergedNode(s, p) = Nothing
BY DEF MergedNode

(* The stores of one path, from the top down.                              *)
Merged(s) == [p \in Paths |-> MergedNode(s, p)]

LEMMA MergedType ==
  ASSUME NEW s \in Seq(StoreSet)
  PROVE  Merged(s) \in StoreSet
<1> SUFFICES ASSUME NEW p \in Paths PROVE MergedNode(s, p) \in Nodes
  BY DEF Merged, StoreSet
<1>1. CASE \E i \in DOMAIN s : Has(s, i, p)
  BY <1>1, SomeAnswers, MergedNodeIs
<1>2. CASE \A i \in DOMAIN s : ~Has(s, i, p)
  BY <1>2, NoneAnswers, NothingIsNode
<1> QED
  BY <1>1, <1>2

(* A path is in the merged store when it is in one of the layers, and then *)
(* it is what the first of these says.                                     *)
LEMMA FoundInLayers ==
  ASSUME NEW s \in Seq(StoreSet), NEW p \in Paths, Merged(s)[p].kind # Absent
  PROVE  \E i \in DOMAIN s : Answers(s, i, p)
<1>1. CASE \A i \in DOMAIN s : ~Has(s, i, p)
  BY <1>1, NoneAnswers DEF Merged, Nothing
<1> QED
  BY <1>1, SomeAnswers

LEMMA MergedEntry ==
  ASSUME NEW s \in Seq(StoreSet), NEW p \in Paths, NEW i \in DOMAIN s, Answers(s, i, p)
  PROVE  Entry(p, Merged(s)[p]) = Entry(p, s[i][p])
<1>1. Merged(s)[p] = MergedNode(s, p)
  BY DEF Merged
<1> QED
  BY <1>1, MergedNodeIs DEF Entry

LEMMA MergedHeld ==
  ASSUME NEW s \in Seq(StoreSet), \A i \in DOMAIN s : Good(s[i])
  PROVE  Held(Merged(s))
<1> SUFFICES ASSUME NEW p \in Paths, NEW c \in Children[p], Merged(s)[c].kind # Absent
             PROVE  Merged(s)[p].kind # Absent
  BY DEF Held
<1>1. c \in Paths
  BY LayersAssumption
<1>2. PICK j \in DOMAIN s : Answers(s, j, c)
  BY <1>1, FoundInLayers
<1>3. Has(s, j, p)
  BY <1>2 DEF Answers, Has, Good, Held
<1>4. PICK i \in DOMAIN s : Answers(s, i, p)
  BY <1>3, SomeAnswers
<1>5. Merged(s)[p] = MergedNode(s, p)
  BY DEF Merged
<1> QED
  BY <1>4, <1>5, MergedNodeIs

LEMMA MergedBarren ==
  ASSUME NEW s \in Seq(StoreSet), \A i \in DOMAIN s : Good(s[i])
  PROVE  Barren(Merged(s))
<1> SUFFICES ASSUME NEW p \in Paths, Merged(s)[p].kind # "dir"
             PROVE  Merged(s)[p].list = {}
  BY DEF Barren
<1>0. Merged(s)[p] = MergedNode(s, p)
  BY DEF Merged
<1>1. CASE \A i \in DOMAIN s : ~Has(s, i, p)
  BY <1>0, <1>1, NoneAnswers DEF Nothing
<1>2. ASSUME NEW i \in DOMAIN s, Answers(s, i, p) PROVE Merged(s)[p].list = {}
  <2>1. s[i][p].kind \in Kinds /\ s[i][p].kind # Absent /\ s[i][p].kind # "dir"
    BY <1>0, <1>2, MergedNodeIs DEF StoreSet, Nodes
  <2>2. s[i][p].kind = "file" /\ s[i][p].list = {}
    BY <2>1 DEF Kinds, Good, Barren
  <2> QED
    BY <1>0, <1>2, <2>2, MergedNodeIs
<1> QED
  BY <1>1, <1>2, SomeAnswers

(* What a directory lists comes from the first layer that has the name, if *)
(* no layer between the first and the last hides a directory.              *)
LEMMA MergedTruthful ==
  ASSUME NEW s \in Seq(StoreSet), \A i \in DOMAIN s : Good(s[i]),
         \A i \in DOMAIN s : 1 < i /\ i < Len(s) => Rooted(s[i])
  PROVE  Truthful(Merged(s))
<1> SUFFICES ASSUME NEW p \in Paths, NEW e \in Merged(s)[p].list
             PROVE  /\ e.path \in Children[p] /\ Merged(s)[e.path].kind # Absent
                    /\ e = Entry(e.path, Merged(s)[e.path])
  BY DEF Truthful
<1>0. Merged(s)[p] = MergedNode(s, p)
  BY DEF Merged
<1>1. PICK i \in DOMAIN s : Answers(s, i, p)
  BY <1>0, NoneAnswers, SomeAnswers DEF Nothing
<1>2. s[i][p].kind = "dir"
  <2>1. Merged(s)[p].kind = "dir"
    BY MergedBarren DEF Barren
  <2> QED
    BY <1>0, <1>1, <2>1, MergedNodeIs
<1>3. Merged(s)[p].list = MergedChildren(s, i, p)
  BY <1>0, <1>1, <1>2, MergedNodeIs
<1>4. PICK j \in MergedLayers(s, i, p) :
        /\ e \in s[j][p].list
        /\ \A k \in MergedLayers(s, i, p) :
             k < j => ~\E f \in s[k][p].list : f.path = e.path
  BY <1>3 DEF MergedChildren
<1>5. /\ i \in 1 .. Len(s) /\ j \in DOMAIN s /\ j \in i .. Len(s)
  BY DEF MergedLayers
<1> DEFINE c == e.path
<1>6. c \in Children[p] /\ c \in Paths /\ s[j][c].kind # Absent /\ e = Entry(c, s[j][c])
  BY <1>4, <1>5, LayersAssumption DEF Good, Truthful
<1> HIDE DEF c
<1>7. ASSUME NEW k \in 1 .. j - 1, Has(s, k, c) PROVE FALSE
  <2>1. k \in DOMAIN s /\ k < j
    BY <1>5
  <2>2. Has(s, k, p)
    BY <1>6, <1>7, <2>1 DEF Good, Held, Has
  <2>3. k \in MergedLayers(s, i, p)
    BY <1>1, <1>5, <2>1, <2>2 DEF Answers, MergedLayers
  <2>4. s[k][p].kind = "dir"
    <3>1. CASE k = i
      BY <1>2, <3>1
    <3>2. CASE k # i
      <4>1. 1 < k /\ k < Len(s)
        BY <1>5, <2>1, <2>3, <3>2 DEF MergedLayers
      <4> QED
        BY <1>6, <1>7, <2>1, <4>1 DEF Rooted, Has
    <3> QED
      BY <3>1, <3>2
  <2>5. Entry(c, s[k][c]) \in s[k][p].list
    BY <1>6, <1>7, <2>1, <2>4 DEF Good, Complete, Has
  <2>6. Entry(c, s[k][c]).path = c
    BY EntryFields
  <2> QED
    BY <1>4, <2>1, <2>3, <2>5, <2>6 DEF c
<1>8. Answers(s, j, c)
  BY <1>6, <1>7 DEF Answers, Has
<1>9. Merged(s)[c] = MergedNode(s, c)
  BY <1>6 DEF Merged
<1>10. Merged(s)[c].kind # Absent
  BY <1>5, <1>6, <1>8, <1>9, MergedNodeIs
<1>11. e = Entry(c, Merged(s)[c])
  BY <1>5, <1>6, <1>8, MergedEntry
<1> QED
  BY <1>6, <1>10, <1>11 DEF c

(* A directory lists all that is found in it, if no layer below the first  *)
(* hides a directory.                                                      *)
LEMMA MergedComplete ==
  ASSUME NEW s \in Seq(StoreSet), \A i \in DOMAIN s : Good(s[i]),
         \A i \in DOMAIN s : 1 < i => Rooted(s[i])
  PROVE  Complete(Merged(s))
<1> SUFFICES ASSUME NEW p \in Paths, Merged(s)[p].kind = "dir",
                    NEW c \in Children[p], Merged(s)[c].kind # Absent
             PROVE  Entry(c, Merged(s)[c]) \in Merged(s)[p].list
  BY DEF Complete
<1>0. Merged(s)[p] = MergedNode(s, p) /\ c \in Paths
  BY LayersAssumption DEF Merged
<1>1. PICK i \in DOMAIN s : Answers(s, i, p)
  BY LayersAssumption, FoundInLayers
<1>2. s[i][p].kind = "dir"
  BY <1>0, <1>1, MergedNodeIs
<1>3. Merged(s)[p].list = MergedChildren(s, i, p)
  BY <1>0, <1>1, <1>2, MergedNodeIs
<1>4. PICK j \in DOMAIN s : Answers(s, j, c)
  BY <1>0, FoundInLayers
<1>5. Has(s, j, p) /\ s[j][c].kind # Absent
  BY <1>4 DEF Answers, Good, Held, Has
<1>6. j \in i .. Len(s) /\ j \in MergedLayers(s, i, p)
  BY <1>1, <1>5 DEF Answers, MergedLayers
<1>7. s[j][p].kind = "dir"
  <2>1. CASE j = i
    BY <1>2, <2>1
  <2>2. CASE j # i
    BY <1>5, <1>6, <2>2 DEF Rooted
  <2> QED
    BY <2>1, <2>2
<1>8. Entry(c, s[j][c]) \in s[j][p].list
  BY <1>5, <1>7 DEF Good, Complete
<1>9. ASSUME NEW k \in MergedLayers(s, i, p), k < j, NEW f \in s[k][p].list, f.path = c
      PROVE  FALSE
  <2>1. k \in DOMAIN s /\ k \in 1 .. j - 1
    BY <1>9 DEF MergedLayers
  <2>2. s[k][c].kind # Absent
    BY <1>9, <2>1 DEF Good, Truthful
  <2> QED
    BY <1>4, <2>1, <2>2 DEF Answers, Has
<1>10. Entry(c, s[j][c]) \in MergedChildren(s, i, p)
  BY <1>6, <1>8, <1>9, EntryFields DEF MergedChildren
<1>11. Entry(c, Merged(s)[c]) = Entry(c, s[j][c])
  BY <1>0, <1>4, MergedEntry
<1> QED
  BY <1>3, <1>10, <1>11

-----------------------------------------------------------------------------
(* Layered and the names it is given, the last on top.                     *)

LEMMA ReverseIs ==
  ASSUME NEW S, NEW s \in Seq(S)
  PROVE  /\ Reverse(s) \in Seq(S) /\ Len(Reverse(s)) = Len(s)
         /\ DOMAIN Reverse(s) = 1 .. Len(s)
         /\ \A i \in 1 .. Len(s) :
              Reverse(s)[i] = s[Len(s) - i + 1] /\ Len(s) - i + 1 \in DOMAIN s
BY DEF Reverse

LEMMA LayeredIs ==
  ASSUME NEW s \in Seq(StoreSet)
  PROVE  Layered(s) = IF Len(s) = 1 THEN s[1] ELSE Merged(Reverse(s))
BY DEF Layered, Merged

(* Each path is what the last store that has it says.                      *)
OnTop(s, st, p) ==
  \/ (\A i \in DOMAIN s : s[i][p].kind = Absent) /\ st[p].kind = Absent
  \/ \E i \in DOMAIN s :
       /\ s[i][p].kind # Absent /\ \A j \in DOMAIN s : s[j][p].kind # Absent => j <= i
       /\ st[p].kind = s[i][p].kind /\ st[p].from = s[i][p].from

LEMMA LayeredTop ==
  ASSUME NEW s \in Seq(StoreSet), NEW p \in Paths
  PROVE  OnTop(s, Layered(s), p)
<1>1. CASE Len(s) = 1
  <2>1. DOMAIN s = {1} /\ Layered(s) = s[1]
    BY <1>1, LayeredIs
  <2> QED
    BY <2>1 DEF OnTop
<1>2. CASE Len(s) # 1
  <2> DEFINE r == Reverse(s)
  <2>1. /\ r \in Seq(StoreSet) /\ DOMAIN r = 1 .. Len(s) /\ Layered(s) = Merged(r)
        /\ \A i \in 1 .. Len(s) : r[i] = s[Len(s) - i + 1]
    BY <1>2, ReverseIs, LayeredIs
  <2> HIDE DEF r
  <2>2. Merged(r)[p] = MergedNode(r, p)
    BY DEF Merged
  <2>3. Len(s) \in Nat /\ DOMAIN s = 1 .. Len(s)
    OBVIOUS
  <2>4. ASSUME NEW j \in DOMAIN s
        PROVE  Len(s) - j + 1 \in DOMAIN r /\ r[Len(s) - j + 1] = s[j]
    BY <2>1, <2>3
  <2>5. CASE \A i \in DOMAIN r : ~Has(r, i, p)
    <3>1. ASSUME NEW j \in DOMAIN s PROVE s[j][p].kind = Absent
      BY <2>4, <2>5 DEF Has
    <3>2. Layered(s)[p].kind = Absent
      BY <2>1, <2>2, <2>5, NoneAnswers DEF Nothing
    <3> QED
      BY <3>1, <3>2 DEF OnTop
  <2>6. ASSUME NEW n \in DOMAIN r, Answers(r, n, p) PROVE OnTop(s, Layered(s), p)
    <3> DEFINE i == Len(s) - n + 1
    <3>1. i \in DOMAIN s /\ r[n] = s[i]
      BY <2>1, <2>3
    <3>2. s[i][p].kind # Absent
      BY <2>6, <3>1 DEF Answers, Has
    <3>3. ASSUME NEW j \in DOMAIN s, s[j][p].kind # Absent PROVE j <= i
      <4>1. Has(r, Len(s) - j + 1, p)
        BY <2>4, <3>3 DEF Has
      <4>2. ~(Len(s) - j + 1 \in 1 .. n - 1)
        BY <2>6, <4>1 DEF Answers
      <4> QED
        BY <2>1, <2>3, <4>2
    <3>4. Layered(s)[p].kind = s[i][p].kind /\ Layered(s)[p].from = s[i][p].from
      BY <2>1, <2>2, <2>6, <3>1, MergedNodeIs
    <3> HIDE DEF i
    <3> QED
      BY <3>1, <3>2, <3>3, <3>4 DEF OnTop
  <2> QED
    BY <2>1, <2>5, <2>6, SomeAnswers
<1> QED
  BY <1>1, <1>2

(* Layers of which none hides a directory of its own.                      *)
LEMMA LayeredGood ==
  ASSUME NEW s \in Seq(StoreSet), \A i \in DOMAIN s : Good(s[i]) /\ Rooted(s[i])
  PROVE  Good(Layered(s))
<1>1. CASE Len(s) = 1
  BY <1>1, LayeredIs
<1>2. CASE Len(s) # 1
  <2> DEFINE r == Reverse(s)
  <2>1. r \in Seq(StoreSet) /\ Layered(s) = Merged(r)
    BY <1>2, ReverseIs, LayeredIs
  <2>2. \A i \in DOMAIN r : Good(r[i]) /\ Rooted(r[i])
    BY ReverseIs
  <2> HIDE DEF r
  <2> QED
    BY <2>1, <2>2, MergedType, MergedTruthful, MergedComplete, MergedHeld, MergedBarren
       DEF Good
<1> QED
  BY <1>1, <1>2

(* The name with the number n among those that are not empty.              *)
LEMMA NthExists ==
  ASSUME NEW N \in Nat, NEW K \in SUBSET (1 .. N), NEW n \in 1 .. Cardinality(K)
  PROVE  \E i \in K : Cardinality({j \in K : j <= i}) = n
<1> DEFINE R == [i \in 0 .. N |-> {j \in K : j <= i}]
           T == {i \in 0 .. N : Cardinality(R[i]) >= n}
<1>1. IsFiniteSet(K) /\ Cardinality(K) \in Nat
  <2>1. IsFiniteSet(1 .. N)
    BY FS_Interval
  <2> QED
    BY <2>1, FS_Subset, FS_CardinalityType
<1>2. \A i \in 0 .. N : R[i] = {j \in K : j <= i}
  OBVIOUS
<1> HIDE DEF R
<1>3. ASSUME NEW i \in 0 .. N PROVE IsFiniteSet(R[i]) /\ Cardinality(R[i]) \in Nat
  <2>1. R[i] \subseteq K
    BY <1>2
  <2> QED
    BY <1>1, <2>1, FS_Subset, FS_CardinalityType
<1>4. N \in T
  <2>1. \A j \in K : j <= N
    OBVIOUS
  <2>2. R[N] = K
    <3>1. R[N] = {j \in K : j <= N}
      BY <1>2
    <3> QED
      BY <2>1, <3>1
  <2>3. n <= Cardinality(K)
    BY <1>1
  <2> QED
    BY <2>2, <2>3, <1>1
<1>5. PICK m \in T : \A i \in T : m <= i
  <2>1. T \subseteq Nat /\ T # {}
    BY <1>4
  <2> HIDE DEF T
  <2> QED
    BY <2>1, LeastNat
<1>6. m \in 0 .. N /\ Cardinality(R[m]) >= n /\ n \in Nat /\ n > 0
  BY <1>1, <1>5
<1>7. m # 0
  <2>1. \A j \in K : ~(j <= 0)
    OBVIOUS
  <2>2. R[0] = {}
    <3>1. R[0] = {j \in K : j <= 0}
      BY <1>2
    <3> QED
      BY <2>1, <3>1
  <2>3. Cardinality(R[0]) = 0
    BY <2>2, FS_EmptySet
  <2> QED
    BY <1>6, <2>3
<1>8. m - 1 \in 0 .. N
  BY <1>6, <1>7
<1>9. Cardinality(R[m - 1]) < n
  <2>1. m - 1 \notin T
    BY <1>5, <1>6, <1>7
  <2>2. ~(Cardinality(R[m - 1]) >= n)
    BY <1>8, <2>1
  <2>3. Cardinality(R[m - 1]) \in Nat
    BY <1>3, <1>8
  <2> QED
    BY <1>6, <2>2, <2>3
<1> HIDE DEF T
<1>10. \A j \in K : j <= m <=> j <= m - 1 \/ j = m
  BY <1>6
<1>11. m \in K
  <2> SUFFICES ASSUME m \notin K PROVE FALSE
    OBVIOUS
  <2>1. R[m] = R[m - 1]
    BY <1>2, <1>6, <1>8, <1>10
  <2>2. Cardinality(R[m - 1]) \in Nat
    BY <1>3, <1>8
  <2> QED
    BY <1>6, <1>9, <2>1, <2>2
<1>12. R[m] = R[m - 1] \cup {m} /\ m \notin R[m - 1]
  <2>1. ~(m <= m - 1)
    BY <1>6
  <2> QED
    BY <1>2, <1>6, <1>8, <1>10, <1>11, <2>1
<1>13. Cardinality(R[m]) = Cardinality(R[m - 1]) + 1
  BY <1>3, <1>8, <1>12, FS_AddElement
<1>14. Cardinality(R[m]) = n
  <2>1. Cardinality(R[m - 1]) \in Nat
    BY <1>3, <1>8
  <2> QED
    BY <1>6, <1>9, <1>13, <2>1
<1> QED
  BY <1>2, <1>6, <1>11, <1>14

LEMMA NamedType ==
  ASSUME NEW s \in Seq(Flists \cup {NoName})
  PROVE  Named(s) \in Seq(Flists)
<1> DEFINE K == {i \in DOMAIN s : s[i] # NoName}
           Nth(n) == CHOOSE i \in K : Cardinality({j \in K : j <= i}) = n
<1>1. Len(s) \in Nat /\ K \in SUBSET (1 .. Len(s))
  OBVIOUS
<1>2. Cardinality(K) \in Nat
  <2>1. IsFiniteSet(1 .. Len(s))
    BY <1>1, FS_Interval
  <2> HIDE DEF K
  <2> QED
    BY <1>1, <2>1, FS_Subset, FS_CardinalityType
<1>3. Named(s) = [n \in 1 .. Cardinality(K) |-> s[Nth(n)]]
  BY DEF Named
<1>4. \A i \in K : s[i] \in Flists
  OBVIOUS
<1> HIDE DEF K
<1>5. ASSUME NEW n \in 1 .. Cardinality(K) PROVE Nth(n) \in K
  <2>1. \E i \in K : Cardinality({j \in K : j <= i}) = n
    BY <1>1, NthExists
  <2> QED
    BY <2>1
<1> HIDE DEF Nth
<1> QED
  BY <1>2, <1>3, <1>4, <1>5

LEMMA NamedAll ==
  ASSUME NEW s \in Seq(Flists)
  PROVE  Named(s) = s
<1> DEFINE K == {i \in DOMAIN s : s[i] # NoName}
           Nth(n) == CHOOSE i \in K : Cardinality({j \in K : j <= i}) = n
<1>1. Len(s) \in Nat /\ K = 1 .. Len(s)
  BY LayersAssumption
<1>2. ASSUME NEW i \in 1 .. Len(s) PROVE Cardinality({j \in K : j <= i}) = i
  <2>1. {j \in K : j <= i} = 1 .. i
    BY <1>1
  <2>2. Cardinality(1 .. i) = i
    BY FS_Interval
  <2> QED
    BY <2>1, <2>2
<1>3. Cardinality(K) = Len(s)
  <2> HIDE DEF K
  <2>1. Cardinality(1 .. Len(s)) = Len(s)
    BY <1>1, FS_Interval
  <2> QED
    BY <1>1, <2>1
<1>4. Named(s) = [n \in 1 .. Cardinality(K) |-> s[Nth(n)]]
  BY DEF Named
<1>5. ASSUME NEW n \in 1 .. Len(s) PROVE Nth(n) = n
  <2> HIDE DEF K
  <2>1. \E i \in K : Cardinality({j \in K : j <= i}) = n
    BY <1>1, <1>2
  <2>2. Nth(n) \in K /\ Cardinality({j \in K : j <= Nth(n)}) = n
    BY <2>1
  <2> HIDE DEF Nth
  <2> QED
    BY <1>1, <1>2, <2>2
<1> HIDE DEF K, Nth
<1> QED
  BY <1>1, <1>3, <1>4, <1>5

-----------------------------------------------------------------------------
(* The store of a list of flists.                                          *)

LEMMA FlistStores ==
  ASSUME NEW names \in Seq(Flists),
         NEW s, s = [i \in 1 .. Len(names) |-> SqlStore(names[i])]
  PROVE  /\ s \in Seq(StoreSet) /\ DOMAIN s = DOMAIN names
         /\ \A i \in DOMAIN s : Good(s[i]) /\ Rooted(s[i])
         /\ \A i \in DOMAIN s, p \in Paths :
              /\ s[i][p].kind = Kind[names[i]][p]
              /\ s[i][p].kind # Absent => s[i][p].from = names[i]
<1>1. DOMAIN names = 1 .. Len(names) /\ DOMAIN s = 1 .. Len(names) /\ Len(names) \in Nat
  OBVIOUS
<1>2. ASSUME NEW i \in DOMAIN s PROVE names[i] \in Flists /\ s[i] = SqlStore(names[i])
  BY <1>1
<1>3. \A i \in DOMAIN s : Good(s[i]) /\ Rooted(s[i])
  BY <1>2, SqlStoreGood
<1>4. s \in Seq(StoreSet)
  BY <1>1, <1>3 DEF Good
<1> QED
  BY <1>1, <1>2, <1>3, <1>4, SqlStoreNode

(* layer.go:83: the last flist that has a path gives its node.             *)
LastHas(names, st, p) ==
  \/ (\A i \in DOMAIN names : Kind[names[i]][p] = Absent) /\ st[p].kind = Absent
  \/ \E i \in DOMAIN names :
       /\ Kind[names[i]][p] # Absent
       /\ \A j \in DOMAIN names : Kind[names[j]][p] # Absent => j <= i
       /\ st[p].kind = Kind[names[i]][p] /\ st[p].from = names[i]

LEMMA MetaStoreIs ==
  ASSUME NEW lines \in Seq(Flists \cup {NoName})
  PROVE  /\ Good(MetaStore(lines))
         /\ \A p \in Paths : LastHas(Named(lines), MetaStore(lines), p)
<1> DEFINE names == Named(lines)
<1>0. PICK s : s = [i \in 1 .. Len(names) |-> SqlStore(names[i])]
  OBVIOUS
<1>1. names \in Seq(Flists)
  BY NamedType
<1>2. MetaStore(lines) = Layered(s)
  BY <1>0 DEF MetaStore
<1>3. /\ s \in Seq(StoreSet) /\ DOMAIN s = DOMAIN names
      /\ \A i \in DOMAIN s : Good(s[i]) /\ Rooted(s[i])
      /\ \A i \in DOMAIN s, p \in Paths :
           /\ s[i][p].kind = Kind[names[i]][p]
           /\ s[i][p].kind # Absent => s[i][p].from = names[i]
  <2> HIDE DEF names
  <2> QED
    BY <1>0, <1>1, FlistStores
<1> HIDE DEF names
<1>4. Good(Layered(s))
  BY <1>3, LayeredGood
<1>5. ASSUME NEW p \in Paths PROVE LastHas(names, Layered(s), p)
  <2>1. OnTop(s, Layered(s), p)
    BY <1>3, LayeredTop
  <2> QED
    BY <1>3, <2>1 DEF OnTop, LastHas
<1> QED
  BY <1>2, <1>4, <1>5 DEF names

(* Without a file above a directory the merged store is rooted too.        *)
LEMMA MetaStoreRooted ==
  ASSUME NEW names \in Seq(Flists),
         \A i, j \in DOMAIN names, p \in Paths :
           ~(i > j /\ Kind[names[i]][p] = "file" /\ Kind[names[j]][p] = "dir")
  PROVE  Rooted(MetaStore(names))
<1> DEFINE st == MetaStore(names)
<1>1. \A p \in Paths : LastHas(names, st, p)
  <2>1. names \in Seq(Flists \cup {NoName})
    OBVIOUS
  <2> QED
    BY <2>1, MetaStoreIs, NamedAll
<1> HIDE DEF st
<1> SUFFICES ASSUME NEW p \in Paths, NEW c \in Children[p], st[c].kind # Absent
             PROVE  st[p].kind = "dir"
  BY DEF Rooted, st
<1>2. c \in Paths
  BY LayersAssumption
<1>3. PICK j \in DOMAIN names : Kind[names[j]][c] # Absent
  BY <1>1, <1>2 DEF LastHas
<1>4. names[j] \in Flists /\ Kind[names[j]][p] = "dir"
  BY <1>3, LayersAssumption
<1>5. PICK i \in DOMAIN names :
        /\ Kind[names[i]][p] # Absent /\ j <= i /\ st[p].kind = Kind[names[i]][p]
  BY <1>1, <1>4, LayersAssumption DEF LastHas
<1>6. Kind[names[i]][p] \in {"dir", "file", Absent}
  BY LayersAssumption
<1>7. Kind[names[i]][p] # "file"
  <2>1. CASE i = j
    BY <1>4, <2>1
  <2>2. CASE i # j
    BY <1>4, <1>5, <2>2
  <2> QED
    BY <2>1, <2>2
<1> QED
  BY <1>5, <1>6, <1>7

(* What reload puts on top of the command line's store.                    *)
LEMMA TwoLevels ==
  ASSUME NEW a, NEW b, Good(a), Good(b)
  PROVE  /\ Truthful(Layered(<<a, b>>))
         /\ Rooted(a) => Complete(Layered(<<a, b>>))
         /\ \A p \in Paths : OnTop(<<a, b>>, Layered(<<a, b>>), p)
<1> DEFINE s == <<a, b>>
           r == Reverse(s)
<1>1. s \in Seq(StoreSet) /\ Len(s) = 2
  BY DEF Good
<1>a. s[1] = a /\ s[2] = b
  OBVIOUS
<1> HIDE DEF s
<1>2. /\ r \in Seq(StoreSet) /\ DOMAIN r = 1 .. 2 /\ Len(r) = 2 /\ r[1] = b /\ r[2] = a
  <2>1. /\ r \in Seq(StoreSet) /\ Len(r) = Len(s) /\ DOMAIN r = 1 .. Len(s)
        /\ \A i \in 1 .. Len(s) : r[i] = s[Len(s) - i + 1]
    BY <1>1, ReverseIs
  <2> HIDE DEF r
  <2> QED
    BY <1>1, <1>a, <2>1
<1>3. Layered(s) = Merged(r)
  BY <1>1, LayeredIs
<1>4. \A p \in Paths : OnTop(s, Layered(s), p)
  BY <1>1, LayeredTop
<1> HIDE DEF r
<1>5. \A i \in DOMAIN r : Good(r[i])
  BY <1>2
<1>6. Truthful(Merged(r))
  <2>1. \A i \in DOMAIN r : ~(1 < i /\ i < Len(r))
    BY <1>2
  <2> QED
    BY <1>2, <1>5, <2>1, MergedTruthful
<1>7. ASSUME Rooted(a) PROVE Complete(Merged(r))
  <2>1. \A i \in DOMAIN r : 1 < i => Rooted(r[i])
    BY <1>2, <1>7
  <2> QED
    BY <1>2, <1>5, <2>1, MergedComplete
<1> QED
  BY <1>3, <1>4, <1>6, <1>7 DEF s

-----------------------------------------------------------------------------
(* The mounted store.                                                      *)

LEMMA KnownLists ==
  ASSUME Known
  PROVE  /\ cmd \in Seq(Flists) /\ cmd \in Seq(Flists \cup {NoName})
         /\ shown # NoFile => shown \in Seq(Flists \cup {NoName})
<1>1. MaxFlists \in Nat /\ MaxLines \in Nat
  BY StoresAssumption
<1>2. cmd \in Seq(Flists) /\ (shown # NoFile => shown \in Seq(Flists \cup {NoName}))
  BY <1>1, BoundedIsSeq DEF Known, Lines
<1> QED
  BY <1>2

LEMMA StoreTruthful == Known => Truthful(store)
<1> SUFFICES ASSUME Known PROVE Truthful(store)
  OBVIOUS
<1>1. Good(MetaStore(cmd))
  BY KnownLists, MetaStoreIs
<1>2. CASE shown = NoFile
  BY <1>1, <1>2 DEF store, Good
<1>3. CASE shown # NoFile
  <2>1. Good(MetaStore(shown))
    BY <1>3, KnownLists, MetaStoreIs
  <2> QED
    BY <1>1, <1>3, <2>1, TwoLevels DEF store
<1> QED
  BY <1>2, <1>3

LEMMA StoreComplete ==
  ASSUME Known, shown = NoFile \/ ~\E i, j \in DOMAIN cmd, p \in Paths : Hides(i, j, p)
  PROVE  Complete(store)
<1>1. Good(MetaStore(cmd))
  BY KnownLists, MetaStoreIs
<1>2. CASE shown = NoFile
  BY <1>1, <1>2 DEF store, Good
<1>3. CASE shown # NoFile
  <2>1. Good(MetaStore(shown))
    BY <1>3, KnownLists, MetaStoreIs
  <2>2. Rooted(MetaStore(cmd))
    BY <1>3, KnownLists, MetaStoreRooted DEF Hides
  <2> QED
    BY <1>1, <1>3, <2>1, <2>2, TwoLevels DEF store
<1> QED
  BY <1>2, <1>3

(* dir.go:63 and mergedDir of layer.go: every name that a directory lists  *)
(* can be looked up and is what it was listed as, through two levels of    *)
(* merging; every name that can be looked up is listed, unless a store     *)
(* that is merged twice has a file above a directory.                      *)
THEOREM ListingsDoAgree == Spec => []ListingsAgree
<1>1. ASSUME Known PROVE ListingsAgree
  <2>1. ListedIsFound
    <3> SUFFICES ASSUME NEW p \in Paths, NEW e \in store[p].list
                 PROVE  \E c \in Found(p) : e = Entry(c, store[c])
      BY DEF ListedIsFound
    <3>1. /\ e.path \in Children[p] /\ store[e.path].kind # Absent
          /\ e = Entry(e.path, store[e.path])
      BY <1>1, StoreTruthful DEF Truthful
    <3> QED
      BY <3>1 DEF Found
  <2>2. ASSUME shown = NoFile \/ ~\E i, j \in DOMAIN cmd, p \in Paths : Hides(i, j, p)
        PROVE  FoundIsListed
    <3> SUFFICES ASSUME NEW p \in Paths, store[p].kind = "dir", NEW c \in Found(p)
                 PROVE  Entry(c, store[c]) \in store[p].list
      BY DEF FoundIsListed
    <3>1. Complete(store)
      BY <1>1, <2>2, StoreComplete
    <3> QED
      BY <3>1 DEF Complete, Found
  <2> QED
    BY <2>1, <2>2 DEF ListingsAgree
<1> QED
  BY <1>1, Invariant, PTL

(* layer.go:83 and the usage of -meta: a path is what the last flist that  *)
(* has it says, and the flists of .layered are after all of the command    *)
(* line.                                                                   *)
THEOREM LastIsOnTop == Spec => []LastOnTop
<1>1. ASSUME Known PROVE LastOnTop
  <2> DEFINE over == IF shown = NoFile THEN <<>> ELSE Named(shown)
             all  == cmd \o over
  <2>1. cmd \in Seq(Flists) /\ over \in Seq(Flists)
    BY <1>1, KnownLists, NamedType
  <2>2. \A p \in Paths : LastHas(cmd, MetaStore(cmd), p)
    BY <1>1, KnownLists, MetaStoreIs, NamedAll
  <2>3. ASSUME shown # NoFile
        PROVE  /\ \A p \in Paths : LastHas(over, MetaStore(shown), p)
               /\ \A p \in Paths : OnTop(<<MetaStore(cmd), MetaStore(shown)>>, store, p)
    <3>1. Good(MetaStore(shown)) /\ \A p \in Paths : LastHas(Named(shown), MetaStore(shown), p)
      BY <1>1, <2>3, KnownLists, MetaStoreIs
    <3>2. Good(MetaStore(cmd))
      BY <1>1, KnownLists, MetaStoreIs
    <3> QED
      BY <2>3, <3>1, <3>2, TwoLevels DEF store
  <2>4. ASSUME shown = NoFile PROVE store = MetaStore(cmd) /\ over = <<>>
    BY <2>4 DEF store
  <2> HIDE DEF over
  <2>5. /\ Len(cmd) \in Nat /\ Len(over) \in Nat
        /\ DOMAIN cmd = 1 .. Len(cmd) /\ DOMAIN over = 1 .. Len(over)
        /\ DOMAIN all = 1 .. Len(cmd) + Len(over)
        /\ \A i \in 1 .. Len(cmd) : all[i] = cmd[i]
        /\ \A i \in 1 .. Len(over) : all[Len(cmd) + i] = over[i]
    BY <2>1
  <2> HIDE DEF all
  <2>6. ASSUME NEW i \in DOMAIN all
        PROVE  \/ i \in DOMAIN cmd /\ all[i] = cmd[i]
               \/ i - Len(cmd) \in DOMAIN over /\ all[i] = over[i - Len(cmd)] /\ i > Len(cmd)
    BY <2>5
  <2>7. ASSUME NEW p \in Paths PROVE LastHas(all, store, p)
    <3>1. CASE shown = NoFile
      <4>1. all = cmd
        BY <2>1, <2>4, <3>1 DEF all
      <4> QED
        BY <2>2, <2>4, <3>1, <4>1
    <3>2. CASE shown # NoFile
      <4> DEFINE a == MetaStore(cmd)
                 b == MetaStore(shown)
      <4>1. LastHas(cmd, a, p) /\ LastHas(over, b, p) /\ OnTop(<<a, b>>, store, p)
        BY <2>2, <2>3, <3>2
      <4> HIDE DEF a, b
      <4>2. \/ a[p].kind = Absent /\ b[p].kind = Absent /\ store[p].kind = Absent
            \/ b[p].kind # Absent /\ store[p].kind = b[p].kind /\ store[p].from = b[p].from
            \/ /\ b[p].kind = Absent /\ a[p].kind # Absent
               /\ store[p].kind = a[p].kind /\ store[p].from = a[p].from
        <5>1. DOMAIN <<a, b>> = {1, 2} /\ <<a, b>>[1] = a /\ <<a, b>>[2] = b
          OBVIOUS
        <5> QED
          BY <4>1, <5>1 DEF OnTop
      <4>3. CASE b[p].kind # Absent
        <5>1. PICK i \in DOMAIN over :
                /\ Kind[over[i]][p] # Absent
                /\ \A j \in DOMAIN over : Kind[over[j]][p] # Absent => j <= i
                /\ b[p].kind = Kind[over[i]][p] /\ b[p].from = over[i]
          BY <4>1, <4>3 DEF LastHas
        <5>2. Len(cmd) + i \in DOMAIN all /\ all[Len(cmd) + i] = over[i]
          BY <2>5
        <5>3. ASSUME NEW j \in DOMAIN all, Kind[all[j]][p] # Absent PROVE j <= Len(cmd) + i
          BY <2>5, <2>6, <5>1, <5>3
        <5> QED
          BY <4>2, <4>3, <5>1, <5>2, <5>3 DEF LastHas
      <4>4. CASE b[p].kind = Absent
        <5>1. \A j \in DOMAIN over : Kind[over[j]][p] = Absent
          BY <4>1, <4>4 DEF LastHas
        <5>2. ASSUME NEW j \in DOMAIN all, Kind[all[j]][p] # Absent
              PROVE  j \in DOMAIN cmd /\ all[j] = cmd[j]
          BY <2>6, <5>1, <5>2
        <5>3. \A j \in DOMAIN cmd : j \in DOMAIN all /\ all[j] = cmd[j]
          BY <2>5
        <5>4. store[p].kind = a[p].kind /\ (a[p].kind # Absent => store[p].from = a[p].from)
          BY <4>2, <4>4
        <5> QED
          BY <4>1, <5>2, <5>3, <5>4 DEF LastHas
      <4> QED
        BY <4>3, <4>4
    <3> QED
      BY <3>1, <3>2
  <2> QED
    BY <2>7 DEF LastOnTop, LastHas, all, over
<1> QED
  BY <1>1, Invariant, PTL
=============================================================================
