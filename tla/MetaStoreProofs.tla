--------------------------- MODULE MetaStoreProofs ---------------------------
(***************************************************************************)
(* Theorems about lookups in one flist, for every tree, every number of    *)
(* threads and every size of the caches, with a database that may fail at  *)
(* any query.                                                              *)
(*                                                                         *)
(* A Dir tells the rights of its own row and of its children (Truthful).   *)
(* Where a Dir knows its children its subdirectories are there too         *)
(* (Grown), and a Dir below a cached one is there only because the Dir     *)
(* above knows its children (Linked): so nobody has a Dir that another     *)
(* thread makes anew.  A thread that outlives the Dir of the cache has its *)
(* own copy, and only then (Owned).                                        *)
(*                                                                         *)
(* The last part is about Walk: the order of the paths, what a walk is     *)
(* open to, one directory, and from there up the whole tree.               *)
(***************************************************************************)
EXTENDS MetaStore, TLAPS, SequenceTheorems, FiniteSetTheorems, WellFoundedInduction

IsDir(o) == o \notin {None, Nil}

(* o has the rights of the row of p, and its children theirs.  The rights  *)
(* of a child are the default ones where the database may have failed.     *)
RightDir(o, p, owner, may) ==
  /\ o.access = Access(p, owner)
  /\ o.kids # Unset =>
       /\ o.kids \in [Plain(p) -> Rights]
       /\ \A f \in Plain(p) :
            o.kids[f] = Access(f, owner) \/ (o.kids[f] = "default" /\ may)

Truthful ==
  \A c \in Chains : IsDir(obj[c]) => RightDir(obj[c], c[2], users, DbFaults)

Knows(c) == IsDir(obj[c]) /\ obj[c].kids # Unset

Grown ==
  \A c \in Chains : Knows(c) => \A q \in SubDirs(c[2]) : obj[<<c[1], q>>] # None

Linked ==
  \A c \in Chains :
    IF c[1] = c[2] THEN obj[c] # Nil
    ELSE c[1] \in Dirs /\ obj[c] # None => Knows(<<c[1], Front(c[2])>>)

Owned ==
  /\ \A t \in Threads :
       /\ pc[t] \in {"idle", "up", "read"} => held[t] = None
       /\ pc[t] = "have" => held[t] # None
       /\ held[t] # None => held[t][1] \in Dirs \cup {t}
  /\ \A c \in Chains : c[1] \in Threads /\ obj[c] # None =>
       held[c[1]] # None /\ held[c[1]][1] = c[1]

(* Without failures there is no nil Dir, and nothing is hidden.            *)
Faultless ==
  DbFaults \/ ((\A c \in Chains : obj[c] # Nil) /\
               (\A t \in Threads : pc[t] # "panic" /\ clean[t]))

(* get goes up from the path it is asked for, and down the same way.       *)
OnTheWay ==
  \A t \in Threads : pc[t] \in {"up", "read", "have"} =>
    Len(at[t]) <= Len(goal[t]) /\ at[t] = SubSeq(goal[t], 1, Len(at[t]))

(* What a thread was told is what the flist has; a path that it has is     *)
(* hidden only from those who met a failure.                               *)
ToldOf(t) ==
  /\ ret[t] = NotFound => ~clean[t] \/ KindOf(goal[t]) \in {"none", "special"}
  /\ ret[t] \notin {None, NotFound} =>
       /\ ret[t].kind = KindOf(goal[t]) /\ ret[t].kind # "none"
       /\ ret[t].list \subseteq Listed(goal[t])
       /\ op[t] = "list" => ret[t].list = Listed(goal[t])
       /\ ret[t].access \in Rights
       /\ \/ ret[t].access = Access(goal[t], users)
          \/ ret[t].access = "default" /\ DbFaults /\ goal[t] \notin Dirs

Told == \A t \in Threads : ToldOf(t)

Dirwise == Truthful /\ Grown /\ Linked

IInv == /\ TypeOK /\ IsFiniteSet(acl)
        /\ Dirwise /\ Owned /\ Faultless /\ OnTheWay /\ Told

-----------------------------------------------------------------------------
(* The tree.                                                               *)

LEMMA PathsAreSeqs ==
  /\ Dirs \subseteq Seq(Names) /\ Paths \subseteq Seq(Names) /\ Dirs \subseteq Paths
  /\ <<>> \in Dirs
<1>1. DOMAIN Kind \subseteq Seq(Names) /\ <<>> \in Seq(Names)
  BY FlistAssumption
<1>2. Dirs \subseteq {<<>>} \cup DOMAIN Kind /\ <<>> \in Dirs
  BY FlistAssumption
<1> QED
  BY <1>1, <1>2 DEF Paths

LEMMA FrontIs ==
  ASSUME NEW q \in Seq(Names), q # <<>>
  PROVE  /\ Len(q) \in Nat \ {0} /\ Front(q) \in Seq(Names) /\ Len(Front(q)) = Len(q) - 1
         /\ \A i \in 1 .. Len(q) - 1 : Front(q)[i] = q[i]
<1>1. Len(q) \in Nat \ {0} /\ Front(q) = SubSeq(q, 1, Len(q) - 1)
  BY DEF Front
<1>2. PICK n \in Nat : n = Len(q) - 1
  BY <1>1
<1>3. n <= Len(q)
  BY <1>1, <1>2
<1>4. /\ SubSeq(q, 1, n) \in Seq(Names) /\ Len(SubSeq(q, 1, n)) = n
      /\ \A i \in 1 .. n : SubSeq(q, 1, n)[i] = q[i]
  BY <1>3
<1> QED
  BY <1>1, <1>2, <1>4

LEMMA PrefixIs ==
  ASSUME NEW p \in Seq(Names), NEW q \in Seq(Names)
  PROVE  IsPrefix(p, q) <=>
           Len(p) <= Len(q) /\ \A i \in 1 .. Len(p) : p[i] = q[i]
<1>1. SubSeq(p, 1, Len(p)) \in Seq(Names) /\ Len(SubSeq(p, 1, Len(p))) = Len(p)
  OBVIOUS
<1>2. \A i \in 1 .. Len(p) : SubSeq(p, 1, Len(p))[i] = p[i]
  OBVIOUS
<1>3. ASSUME Len(p) <= Len(q)
      PROVE  /\ SubSeq(q, 1, Len(p)) \in Seq(Names) /\ Len(SubSeq(q, 1, Len(p))) = Len(p)
             /\ \A i \in 1 .. Len(p) : SubSeq(q, 1, Len(p))[i] = q[i]
  BY <1>3
<1>4. ASSUME IsPrefix(p, q) PROVE \A i \in 1 .. Len(p) : p[i] = q[i]
  BY <1>2, <1>3, <1>4 DEF IsPrefix
<1>5. ASSUME Len(p) <= Len(q), \A i \in 1 .. Len(p) : p[i] = q[i]
      PROVE  SubSeq(p, 1, Len(p)) = SubSeq(q, 1, Len(p))
  <2> DEFINE a == SubSeq(p, 1, Len(p))
             b == SubSeq(q, 1, Len(p))
  <2>1. a \in Seq(Names) /\ b \in Seq(Names) /\ Len(a) = Len(p) /\ Len(b) = Len(p)
    BY <1>1, <1>3, <1>5
  <2>2. \A i \in 1 .. Len(p) : a[i] = b[i]
    BY <1>2, <1>3, <1>5
  <2> HIDE DEF a, b
  <2>3. Len(a) = Len(b) /\ \A i \in 1 .. Len(a) : a[i] = b[i]
    BY <2>1, <2>2
  <2>4. a = b
    BY <2>1, <2>3, SeqEqual
  <2> QED
    BY <2>4 DEF a, b
<1> QED
  BY <1>4, <1>5 DEF IsPrefix

LEMMA SubDirIs ==
  ASSUME NEW p \in Dirs, NEW q \in SubDirs(p)
  PROVE  /\ q \in Dirs /\ q \in DOMAIN Kind /\ q # <<>> /\ Front(q) = p
         /\ Len(q) = Len(p) + 1 /\ IsPrefix(p, q)
<1>1. q \in DOMAIN Kind /\ Front(q) = p /\ Kind[q] = "dir"
  BY FlistAssumption DEF SubDirs
<1>2. q \in Dirs /\ q # <<>> /\ q \in Seq(Names) /\ p \in Seq(Names)
  BY <1>1, FlistAssumption, PathsAreSeqs
<1>3. Len(q) = Len(p) + 1 /\ \A i \in 1 .. Len(p) : p[i] = q[i]
  <2>1. /\ Len(q) \in Nat \ {0} /\ Len(p) = Len(q) - 1
        /\ \A i \in 1 .. Len(q) - 1 : p[i] = q[i]
    BY <1>1, <1>2, FrontIs
  <2> QED
    BY <2>1
<1> QED
  BY <1>1, <1>2, <1>3, PrefixIs

LEMMA PlainIs ==
  ASSUME NEW p \in Dirs, NEW q \in Plain(p)
  PROVE  /\ q \in DOMAIN Kind /\ q \in Paths /\ q \notin Dirs /\ Front(q) = p
         /\ KindOf(q) \in {"file", "link"}
<1>1. q \in DOMAIN Kind /\ Front(q) = p /\ Kind[q] \in {"file", "link"} /\ q # <<>>
  BY FlistAssumption DEF Plain
<1> QED
  BY <1>1, FlistAssumption DEF Paths, KindOf

LEMMA DirKind ==
  ASSUME NEW p \in Dirs
  PROVE  KindOf(p) = "dir"
BY FlistAssumption DEF KindOf

LEMMA ChainIs ==
  ASSUME NEW c \in Chains
  PROVE  /\ c = <<c[1], c[2]>> /\ c[1] \in Dirs \cup Threads /\ c[2] \in Dirs
         /\ c[1] \in Dirs => IsPrefix(c[1], c[2])
BY DEF Chains

LEMMA MakeChain ==
  ASSUME NEW r \in Dirs \cup Threads, NEW p \in Dirs, r \in Dirs => IsPrefix(r, p)
  PROVE  <<r, p>> \in Chains /\ <<r, p>>[1] = r /\ <<r, p>>[2] = p
BY DEF Chains

LEMMA PrefixTrans ==
  ASSUME NEW p \in Dirs, NEW q \in Dirs, NEW r \in Dirs, IsPrefix(p, q), IsPrefix(q, r)
  PROVE  IsPrefix(p, r)
<1>1. p \in Seq(Names) /\ q \in Seq(Names) /\ r \in Seq(Names)
  BY PathsAreSeqs
<1> QED
  BY <1>1, PrefixIs

(* The Dirs of one chain have each other's children and parents.           *)
LEMMA ChildChain ==
  ASSUME NEW c \in Chains, NEW q \in SubDirs(c[2])
  PROVE  /\ <<c[1], q>> \in Chains /\ q # c[1] /\ q # c[2] /\ Front(q) = c[2]
<1>1. /\ c[1] \in Dirs \cup Threads /\ c[2] \in Dirs
      /\ c[1] \in Dirs => IsPrefix(c[1], c[2])
  BY ChainIs
<1>2. q \in Dirs /\ Front(q) = c[2] /\ Len(q) = Len(c[2]) + 1 /\ IsPrefix(c[2], q)
  BY <1>1, SubDirIs
<1>3. c[2] \in Seq(Names) /\ q \in Seq(Names)
  BY <1>1, <1>2, PathsAreSeqs
<1>4. q # c[2]
  BY <1>2, <1>3
<1>5. q # c[1]
  <2>1. CASE c[1] \in Threads
    BY <1>2, <2>1, MetaStoreAssumption
  <2>2. CASE c[1] \in Dirs
    <3>1. c[1] \in Seq(Names) /\ Len(c[1]) <= Len(c[2])
      BY <1>1, <1>3, <2>2, PathsAreSeqs, PrefixIs
    <3> QED
      BY <1>2, <1>3, <3>1
  <2> QED
    BY <1>1, <2>1, <2>2
<1>6. c[1] \in Dirs => IsPrefix(c[1], q)
  BY <1>1, <1>2, PrefixTrans
<1> QED
  BY <1>1, <1>2, <1>4, <1>5, <1>6, MakeChain

LEMMA ParentChain ==
  ASSUME NEW c \in Chains, c[1] \in Dirs, c[1] # c[2]
  PROVE  <<c[1], Front(c[2])>> \in Chains /\ c[2] \in SubDirs(Front(c[2])) /\ c[2] # <<>>
<1>1. c[2] \in Dirs /\ IsPrefix(c[1], c[2]) /\ c[1] \in Seq(Names) /\ c[2] \in Seq(Names)
  BY ChainIs, PathsAreSeqs
<1>2. Len(c[1]) <= Len(c[2]) /\ \A i \in 1 .. Len(c[1]) : c[1][i] = c[2][i]
  BY <1>1, PrefixIs
<1>3. Len(c[1]) # Len(c[2])
  BY <1>1, <1>2
<1>4. c[2] # <<>>
  BY <1>1, <1>2, <1>3
<1>5. /\ Front(c[2]) \in Seq(Names) /\ Len(Front(c[2])) = Len(c[2]) - 1
      /\ \A i \in 1 .. Len(c[2]) - 1 : Front(c[2])[i] = c[2][i]
  BY <1>1, <1>4, FrontIs
<1>6. c[2] \in DOMAIN Kind /\ Kind[c[2]] = "dir"
  BY <1>1, <1>4, FlistAssumption
<1>7. Front(c[2]) \in Dirs /\ c[2] \in SubDirs(Front(c[2]))
  BY <1>6, FlistAssumption DEF SubDirs
<1>8. IsPrefix(c[1], Front(c[2]))
  <2>1. Len(c[1]) <= Len(Front(c[2]))
    BY <1>1, <1>2, <1>3, <1>5
  <2>2. \A i \in 1 .. Len(c[1]) : c[1][i] = Front(c[2])[i]
    BY <1>1, <1>2, <1>5, <2>1
  <2> QED
    BY <1>1, <1>5, <2>1, <2>2, PrefixIs
<1> QED
  BY <1>4, <1>7, <1>8, MakeChain

Less == {ss \in Nat \X Nat : ss[1] < ss[2]}

LEMMA LeastNat ==
  ASSUME NEW T, T \subseteq Nat, T # {}
  PROVE  \E m \in T : \A n \in T : m <= n
<1>1. IsWellFoundedOn(Less, Nat)
  BY NatLessThanWellFounded, Zenon DEF OpToRel, Less
<1>2. \E m \in T : \A n \in T : ~(<<n, m>> \in Less)
  BY <1>1, WFMin
<1>3. ASSUME NEW m \in T, NEW n \in T, ~(<<n, m>> \in Less)
      PROVE  m <= n
  BY <1>3 DEF Less
<1> QED
  BY <1>2, <1>3

(* A subdirectory is among the children that are compared with its name.   *)
LEMMA UpToHas ==
  ASSUME NEW p \in Dirs, NEW q \in SubDirs(p)
  PROVE  q \in UpTo(p, q)
<1> DEFINE all == Contents[p]
           T == {i \in DOMAIN all : all[i] = q}
<1>1. all \in Seq(DOMAIN Kind) /\ q \in ToSet(all) /\ Kind[q] = "dir"
  BY FlistAssumption DEF SubDirs
<1> HIDE DEF all
<1>2. T \subseteq Nat /\ T # {}
  BY <1>1 DEF ToSet
<1>3. PICK m \in T : \A n \in T : m <= n
  <2> HIDE DEF T
  <2> QED
    BY <1>2, LeastNat
<1>4. m \in DOMAIN all /\ all[m] = q /\ m \in Nat
  BY <1>2, <1>3
<1>5. \A j \in 1 .. m - 1 : all[j] # q
  BY <1>1, <1>3, <1>4
<1> QED
  BY <1>1, <1>4, <1>5 DEF UpTo, all

(* What is above a path of the flist is a directory of it.                 *)
LEMMA AboveIsDir ==
  ASSUME NEW q \in DOMAIN Kind, NEW n \in Nat, n < Len(q)
  PROVE  SubSeq(q, 1, n) \in Dirs
<1> DEFINE T == {i \in Nat : i < Len(q) /\ SubSeq(q, 1, Len(q) - 1 - i) \notin Dirs}
<1>1. q \in Seq(Names) /\ q # <<>> /\ Len(q) \in Nat
  BY FlistAssumption
<1>2. CASE T = {}
  <2>1. Len(q) - 1 - n \in Nat /\ Len(q) - 1 - n < Len(q) /\ Len(q) - 1 - (Len(q) - 1 - n) = n
    BY <1>1
  <2> QED
    BY <1>2, <2>1
<1>3. CASE T # {}
  <2>1. PICK m \in T : \A i \in T : m <= i
    <3>1. T \subseteq Nat
      OBVIOUS
    <3> HIDE DEF T
    <3> QED
      BY <1>3, <3>1, LeastNat
  <2>2. m \in Nat /\ m < Len(q) /\ SubSeq(q, 1, Len(q) - 1 - m) \notin Dirs
    BY <2>1
  <2>3. m # 0
    <3>1. SubSeq(q, 1, Len(q) - 1 - 0) = Front(q)
      BY <1>1 DEF Front
    <3> QED
      BY <2>2, <3>1, FlistAssumption
  <2>4. m - 1 \in Nat /\ m - 1 < Len(q) /\ m - 1 \notin T
    BY <1>1, <2>1, <2>2, <2>3
  <2> DEFINE k == Len(q) - 1 - (m - 1)
             d == SubSeq(q, 1, k)
  <2>5. d \in Dirs /\ k \in 1 .. Len(q) /\ k - 1 = Len(q) - 1 - m
    BY <1>1, <2>2, <2>3, <2>4
  <2>6. d \in Seq(Names) /\ Len(d) = k /\ d # <<>>
    BY <1>1, <2>5
  <2>7. Front(d) = SubSeq(q, 1, k - 1)
    <3>1. Front(d) = SubSeq(d, 1, k - 1)
      BY <2>6 DEF Front
    <3>2. k \in Nat /\ k - 1 \in Nat /\ k <= Len(q)
      BY <1>1, <2>5
    <3> HIDE DEF k
    <3>3. SubSeq(SubSeq(q, 1, k), 1, k - 1) = SubSeq(q, 1, k - 1)
      BY <1>1, <3>2
    <3> QED
      BY <3>1, <3>3
  <2>8. d \in DOMAIN Kind
    BY <2>5, <2>6, FlistAssumption
  <2>9. Front(d) \in Dirs
    BY <2>8, FlistAssumption
  <2> QED
    BY <2>2, <2>5, <2>7, <2>9
<1> QED
  BY <1>2, <1>3

-----------------------------------------------------------------------------
(* The caches and the rights.                                              *)

LEMMA MinIs ==
  ASSUME NEW a \in Nat, NEW b \in Nat
  PROVE  Min({a, b}) = IF a <= b THEN a ELSE b
<1> DEFINE m == IF a <= b THEN a ELSE b
<1>1. m \in {a, b} /\ \A y \in {a, b} : m <= y
  OBVIOUS
<1>2. \A x \in {a, b} : (\A y \in {a, b} : x <= y) => x = m
  OBVIOUS
<1> HIDE DEF m
<1>3. Min({a, b}) \in {a, b} /\ \A y \in {a, b} : Min({a, b}) <= y
  BY <1>1 DEF Min
<1> QED
  BY <1>2, <1>3 DEF m

(* To put p first in a sequence, from its place k or from behind the end.  *)
Moved(s, p, n, k, u) ==
  /\ s \in Seq(Dirs) /\ p \in Dirs /\ n \in Nat /\ k \in 1 .. n
  /\ n = Len(s) \/ (n = Len(s) + 1 /\ k = n)
  /\ \A i, j \in 1 .. Len(s) : s[i] = s[j] => i = j
  /\ \A i \in 1 .. Len(s) : s[i] = p <=> i = k
  /\ u \in [1 .. n -> Dirs] /\ u[1] = p
  /\ \A i \in 2 .. n : i <= k => u[i] = s[i - 1]
  /\ \A i \in 2 .. n : i > k => u[i] = s[i]

LEMMA MovedToFront ==
  ASSUME NEW s, NEW p, NEW n, NEW k, NEW u, Moved(s, p, n, k, u)
  PROVE  IsInjective(u) /\ ToSet(u) = ToSet(s) \cup {p}
<1> USE DEF Moved
<1>1. Len(s) \in Nat
  OBVIOUS
<1>2. ToSet(s) = {s[i] : i \in 1 .. Len(s)}
  BY DEF ToSet
<1>4. n > 0 /\ 1 \in 1 .. n /\ Len(s) <= n
  BY <1>1
<1>5. \A i \in 1 .. Len(s) : s[i] \in Dirs
  OBVIOUS
<1>6. DOMAIN u = 1 .. n /\ u[1] = p
  BY <1>4
<1>7. ASSUME NEW i \in 2 .. n, i <= k
      PROVE  u[i] = s[i - 1] /\ i - 1 \in 1 .. Len(s) /\ i - 1 < k
  BY <1>1, <1>4, <1>7
<1>8. ASSUME NEW i \in 2 .. n, i > k
      PROVE  u[i] = s[i] /\ i \in 1 .. Len(s)
  BY <1>1, <1>4, <1>8
<1>10. ASSUME NEW i \in 1 .. n, NEW j \in 1 .. n, u[i] = u[j], i < j PROVE FALSE
  <2>1. j \in 2 .. n
    BY <1>4, <1>10
  <2>2. CASE i = 1
    BY <1>1, <1>4, <1>5, <1>6, <1>7, <1>8, <1>10, <2>1, <2>2
  <2>3. CASE i # 1
    <3>1. i \in 2 .. n
      BY <1>4, <2>3
    <3>2. CASE j <= k
      BY <1>1, <1>4, <1>5, <1>6, <1>7, <1>8, <1>10, <2>1, <3>1, <3>2
    <3>3. CASE j > k /\ i <= k
      BY <1>1, <1>4, <1>5, <1>6, <1>7, <1>8, <1>10, <2>1, <3>1, <3>3
    <3>4. CASE j > k /\ i > k
      BY <1>1, <1>4, <1>5, <1>6, <1>7, <1>8, <1>10, <2>1, <3>1, <3>4
    <3> QED
      BY <1>4, <3>2, <3>3, <3>4
  <2> QED
    BY <2>2, <2>3
<1>11. IsInjective(u)
  <2>1. \A i, j \in 1 .. n : u[i] = u[j] => i = j
    <3> SUFFICES ASSUME NEW i \in 1 .. n, NEW j \in 1 .. n, u[i] = u[j], i # j
                 PROVE  FALSE
      OBVIOUS
    <3>1. i < j \/ j < i
      BY <1>4
    <3> QED
      BY <1>10, <3>1
  <2> QED
    BY <1>6, <2>1 DEF IsInjective
<1>12. ToSet(u) = ToSet(s) \cup {p}
  <2>1. ASSUME NEW i \in 1 .. n PROVE u[i] \in ToSet(s) \cup {p}
    <3>1. CASE i = 1
      BY <1>6, <3>1
    <3>2. CASE i # 1
      BY <1>2, <1>4, <1>7, <1>8, <3>2
    <3> QED
      BY <3>1, <3>2
  <2>2. ASSUME NEW i \in 1 .. Len(s) PROVE \E j \in 1 .. n : u[j] = s[i]
    <3>1. CASE i = k
      BY <1>4, <1>6, <3>1
    <3>2. CASE i < k
      <4>1. i + 1 \in 2 .. n /\ i + 1 <= k /\ i + 1 - 1 = i
        BY <1>1, <1>4, <3>2
      <4>2. u[i + 1] = s[i + 1 - 1]
        BY <1>7, <4>1
      <4>3. u[i + 1] = s[i] /\ i + 1 \in 1 .. n
        BY <1>4, <4>1, <4>2
      <4> QED
        BY <4>3
    <3>3. CASE i > k
      <4>1. i \in 2 .. n
        BY <1>1, <1>4, <3>3
      <4> QED
        BY <1>4, <1>8, <3>3, <4>1
    <3> QED
      BY <1>1, <1>4, <3>1, <3>2, <3>3
  <2>3. p \in ToSet(u)
    BY <1>4, <1>6 DEF ToSet
  <2>4. ToSet(u) = {u[i] : i \in 1 .. n}
    BY <1>6 DEF ToSet
  <2>5. ToSet(u) \subseteq ToSet(s) \cup {p}
    BY <2>1, <2>4
  <2>6. ToSet(s) \subseteq ToSet(u)
    BY <1>2, <2>2, <2>4
  <2> QED
    BY <2>3, <2>5, <2>6
<1> QED
  BY <1>11, <1>12

(* The directory that was used last comes first, and nothing else comes in. *)
LEMMA UsedIs ==
  ASSUME cache \in Seq(Dirs), IsInjective(cache), NEW p \in Dirs
  PROVE  /\ Used(p) \in Seq(Dirs) /\ IsInjective(Used(p)) /\ Used(p)[1] = p
         /\ ToSet(Used(p)) = ToSet(cache) \cup {p} /\ Len(Used(p)) \in Nat \ {0}
         /\ p \in ToSet(cache) => Len(Used(p)) = Len(cache)
<1>1. PICK s \in Seq(Dirs) : s = cache
  OBVIOUS
<1>2. /\ Len(s) \in Nat /\ DOMAIN s = 1 .. Len(s)
      /\ \A i, j \in 1 .. Len(s) : s[i] = s[j] => i = j
  BY <1>1 DEF IsInjective
<1>3. PICK u : u = Used(p)
  OBVIOUS
<1>4. CASE p \in ToSet(s)
  <2>1. \E i \in DOMAIN s : s[i] = p
    BY <1>4 DEF ToSet
  <2>2. PICK k : k = CHOOSE i \in DOMAIN s : s[i] = p
    OBVIOUS
  <2>3. k \in 1 .. Len(s) /\ s[k] = p
    BY <1>2, <2>1, <2>2
  <2>4. \A i \in 1 .. Len(s) : s[i] = p <=> i = k
    BY <1>2, <2>3
  <2>5. DOMAIN s \cup {k} = 1 .. Len(s) /\ Len(s) > 0
    BY <1>2, <2>3
  <2>6. u = [i \in 1 .. Len(s) |->
               IF i = 1 THEN p ELSE IF i <= k THEN s[i - 1] ELSE s[i]]
    BY <1>1, <1>3, <1>4, <2>2, <2>5 DEF Used
  <2>7. PICK n \in Nat : n = Len(s)
    BY <1>2
  <2>8. k \in 1 .. n /\ u = [i \in 1 .. n |->
               IF i = 1 THEN p ELSE IF i <= k THEN s[i - 1] ELSE s[i]]
    BY <2>3, <2>6, <2>7
  <2>9. /\ u \in [1 .. n -> Dirs] /\ u[1] = p
        /\ \A i \in 2 .. n : i <= k => u[i] = s[i - 1]
        /\ \A i \in 2 .. n : i > k => u[i] = s[i]
    <3>1. \A i \in 1 .. n : i # 1 => i - 1 \in 1 .. Len(s) /\ i \in 1 .. Len(s)
      BY <2>7
    <3>2. 1 \in 1 .. n
      BY <2>5, <2>7
    <3> QED
      BY <2>8, <3>1, <3>2
  <2>10. IsInjective(u) /\ ToSet(u) = ToSet(s) \cup {p}
    <3>1. n = Len(s) /\ k \in 1 .. n
      BY <2>7, <2>8
    <3>2. \A i, j \in 1 .. Len(s) : s[i] = s[j] => i = j
      BY <1>2
    <3>3. Moved(s, p, n, k, u)
      BY <2>4, <2>9, <3>1, <3>2 DEF Moved
    <3> QED
      BY <3>3, MovedToFront
  <2>11. u \in Seq(Dirs) /\ Len(u) = n
    BY <2>9
  <2> QED
    BY <1>1, <1>3, <2>5, <2>7, <2>9, <2>10, <2>11
<1>5. CASE p \notin ToSet(s)
  <2>1. \A i \in 1 .. Len(s) : s[i] # p
    BY <1>2, <1>5 DEF ToSet
  <2>2. PICK n \in Nat : n = Len(s) + 1
    BY <1>2
  <2>3. n \in 1 .. n /\ n \in Nat \ {0} /\ \A i \in 1 .. Len(s) : i # n
    BY <1>2, <2>2
  <2>4. \A i \in 1 .. Len(s) : s[i] = p <=> i = n
    BY <2>1, <2>3
  <2>5. DOMAIN s \cup {n} = 1 .. n
    BY <1>2, <2>2
  <2>6. u = [i \in 1 .. n |->
               IF i = 1 THEN p ELSE IF i <= n THEN s[i - 1] ELSE s[i]]
    BY <1>1, <1>3, <1>5, <2>2, <2>5 DEF Used
  <2>9. /\ u \in [1 .. n -> Dirs] /\ u[1] = p
        /\ \A i \in 2 .. n : i <= n => u[i] = s[i - 1]
        /\ \A i \in 2 .. n : i > n => u[i] = s[i]
    <3>1. \A i \in 1 .. n : i # 1 => i - 1 \in 1 .. Len(s) /\ i <= n
      BY <1>2, <2>2
    <3>2. 1 \in 1 .. n
      BY <2>3
    <3> QED
      BY <2>6, <3>1, <3>2
  <2>10. IsInjective(u) /\ ToSet(u) = ToSet(s) \cup {p}
    <3>1. \A i, j \in 1 .. Len(s) : s[i] = s[j] => i = j
      BY <1>2
    <3>2. Moved(s, p, n, n, u)
      BY <2>2, <2>3, <2>4, <2>9, <3>1 DEF Moved
    <3> QED
      BY <3>2, MovedToFront
  <2>11. u \in Seq(Dirs) /\ Len(u) = n
    BY <2>9
  <2> QED
    BY <1>1, <1>3, <1>5, <2>3, <2>9, <2>10, <2>11
<1> QED
  BY <1>4, <1>5

LEMMA LruIs ==
  ASSUME cache \in Seq(Dirs), Len(cache) <= DirCacheSize, IsInjective(cache), NEW p \in Dirs
  PROVE  /\ Lru(p) \in Seq(Dirs) /\ Len(Lru(p)) <= DirCacheSize /\ IsInjective(Lru(p))
         /\ p \in ToSet(Lru(p)) /\ ToSet(Lru(p)) \subseteq ToSet(cache) \cup {p}
         /\ p \in ToSet(cache) => ToSet(Lru(p)) = ToSet(cache)
<1> DEFINE u == Used(p)
<1>1. /\ u \in Seq(Dirs) /\ IsInjective(u) /\ u[1] = p
      /\ ToSet(u) = ToSet(cache) \cup {p} /\ Len(u) \in Nat \ {0}
      /\ p \in ToSet(cache) => Len(u) = Len(cache)
  BY UsedIs
<1>2. Lru(p) = SubSeq(u, 1, Min({Len(u), DirCacheSize}))
  BY DEF Lru
<1> HIDE DEF u
<1>3. PICK n \in Nat \ {0} : n = Len(u) /\ DOMAIN u = 1 .. n
  BY <1>1
<1>4. DirCacheSize \in Nat \ {0}
  BY MetaStoreAssumption
<1>5. PICK m : m = Min({n, DirCacheSize})
  OBVIOUS
<1>6. m \in 1 .. n /\ m <= DirCacheSize /\ (n <= DirCacheSize => m = n)
  <2>1. m = IF n <= DirCacheSize THEN n ELSE DirCacheSize
    BY <1>4, <1>5, MinIs
  <2> QED
    BY <1>4, <2>1
<1>7. PICK l : l = SubSeq(u, 1, m)
  OBVIOUS
<1>8. l \in Seq(Dirs) /\ Len(l) = m /\ DOMAIN l = 1 .. m /\ \A i \in 1 .. m : l[i] = u[i]
  <2>1. m \in Nat /\ m <= Len(u)
    BY <1>3, <1>6
  <2> QED
    BY <1>1, <1>7, <2>1
<1>9. IsInjective(l)
  BY <1>1, <1>3, <1>6, <1>8 DEF IsInjective
<1>10. p \in ToSet(l)
  BY <1>1, <1>6, <1>8 DEF ToSet
<1>11. ToSet(l) \subseteq ToSet(u)
  BY <1>3, <1>6, <1>8 DEF ToSet
<1>12. ASSUME p \in ToSet(cache) PROVE ToSet(l) = ToSet(cache)
  <2>1. m = n
    BY <1>1, <1>3, <1>6, <1>12
  <2>2. ToSet(l) = ToSet(u)
    BY <1>3, <1>8, <2>1 DEF ToSet
  <2> QED
    BY <1>1, <1>12, <2>2
<1>13. Lru(p) = l
  BY <1>2, <1>3, <1>5, <1>7
<1> QED
  BY <1>1, <1>6, <1>8, <1>9, <1>10, <1>11, <1>12, <1>13

(* Names are resolved once, and before a Dir has rights that need them.    *)
Owners == {Unset, "known", "1000"}

LEMMA LookUpIs ==
  ASSUME users \in Owners, NEW ps \in SUBSET Paths, LookUp(ps)
  PROVE  /\ users' \in Owners
         /\ users' = users \/ users = Unset
         /\ \A p \in ps : Access(p, users') \in Rights
<1>1. users' = users \/ (users = Unset /\ users' \in {"known", "1000"})
  BY DEF LookUp, Owners
<1>2. ASSUME NEW p \in ps PROVE Access(p, users') \in Rights
  <2>1. Acl[p] \in Keys /\ Aci[Acl[p]] \in {"norow", "id", "name"}
    BY MetaStoreAssumption
  <2>2. CASE Aci[Acl[p]] = "name"
    BY <2>2 DEF LookUp, Owners, Access, Rights
  <2>3. CASE Aci[Acl[p]] # "name"
    BY <2>1, <2>3 DEF Access, Rights
  <2> QED
    BY <2>2, <2>3
<1> QED
  BY <1>1, <1>2 DEF Owners

LEMMA AccessKept ==
  ASSUME NEW p \in Paths, NEW a, NEW b, Access(p, a) \in Rights, b = a \/ a = Unset
  PROVE  Access(p, b) = Access(p, a)
<1>1. Acl[p] \in Keys /\ Aci[Acl[p]] \in {"norow", "id", "name"} /\ Unset \notin Rights
  BY MetaStoreAssumption
<1> QED
  BY <1>1 DEF Access

LEMMA RightStays ==
  ASSUME NEW o \in DirSet, NEW p \in Dirs, NEW a, NEW b, NEW may,
         b = a \/ a = Unset, RightDir(o, p, a, may)
  PROVE  RightDir(o, p, b, may)
<1>1. o.access \in Rights /\ p \in Paths
  BY PathsAreSeqs DEF DirSet
<1>2. Access(p, b) = Access(p, a)
  BY <1>1, AccessKept DEF RightDir
<1>3. ASSUME o.kids # Unset, NEW f \in Plain(p), o.kids[f] = Access(f, a)
      PROVE  o.kids[f] = Access(f, b)
  <2>1. o.kids[f] \in Rights
    BY <1>3 DEF RightDir
  <2>2. f \in Paths
    BY PlainIs
  <2> QED
    BY <1>3, <2>1, <2>2, AccessKept
<1> QED
  BY <1>2, <1>3 DEF RightDir

(* The answer to one call does not change while names are resolved.        *)
LEMMA ToldStays ==
  ASSUME NEW t \in Threads, ToldOf(t),
         ret'[t] = ret[t], goal'[t] = goal[t], op'[t] = op[t], clean'[t] => clean[t],
         faults' = faults, users' = users \/ users = Unset
  PROVE  ToldOf(t)'
<1>1. CASE ret[t] \in {None, NotFound}
  BY <1>1 DEF ToldOf
<1>2. CASE ret[t] \notin {None, NotFound}
  <2>1. KindOf(goal[t]) # "none"
    BY <1>2 DEF ToldOf
  <2>2. goal[t] \in Paths
    BY <2>1 DEF KindOf, Paths
  <2>3. ret[t].access = Access(goal[t], users) => Access(goal[t], users') = Access(goal[t], users)
    BY <1>2, <2>2, AccessKept DEF ToldOf
  <2> QED
    BY <1>2, <2>3 DEF ToldOf, DbFaults
<1> QED
  BY <1>1, <1>2

LEMMA DirwiseKept == Dirwise /\ UNCHANGED <<faults, obj, users>> => Dirwise'
BY DEF Dirwise, Truthful, Grown, Linked, Knows, DbFaults

LEMMA RememberIs ==
  ASSUME acl \subseteq Keys, IsFiniteSet(acl), NEW ps \in SUBSET Paths, IsFiniteSet(ps),
         Remember(ps)
  PROVE  acl' \subseteq Keys /\ IsFiniteSet(acl') /\ Cardinality(acl') <= AccessCacheSize
<1> DEFINE new == {k \in {Acl[p] : p \in ps} : Aci[k] # "norow"}
           all == acl \cup new
<1>1. acl' \in kSubset(Min({AccessCacheSize, Cardinality(all)}), all)
  BY DEF Remember
<1>2. {Acl[p] : p \in ps} \subseteq Keys
  BY MetaStoreAssumption
<1>3. IsFiniteSet({Acl[p] : p \in ps})
  <2> DEFINE f == [p \in ps |-> Acl[p]]
             T == {Acl[p] : p \in ps}
  <2>2. f \in Surjection(ps, T)
    BY DEF Surjection
  <2> HIDE DEF f, T
  <2> QED
    BY <2>2, FS_Surjection DEF T
<1>4. new \subseteq {Acl[p] : p \in ps}
  OBVIOUS
<1>5. IsFiniteSet(all) /\ all \subseteq Keys
  <2>1. IsFiniteSet(new)
    <3> HIDE DEF new
    <3> QED
      BY <1>3, <1>4, FS_Subset
  <2> HIDE DEF new
  <2> QED
    BY <1>2, <1>4, <2>1, FS_Union
<1> HIDE DEF new, all
<1>6. Cardinality(all) \in Nat /\ AccessCacheSize \in Nat
  BY <1>5, FS_CardinalityType, MetaStoreAssumption
<1>7. acl' \subseteq all /\ Cardinality(acl') = Min({AccessCacheSize, Cardinality(all)})
  BY <1>1 DEF kSubset
<1>8. IsFiniteSet(acl')
  BY <1>5, <1>7, FS_Subset
<1> QED
  BY <1>5, <1>6, <1>7, <1>8, MinIs

LEMMA ContentsFinite ==
  ASSUME NEW p \in Dirs
  PROVE  /\ IsFiniteSet(Plain(p) \cup SubDirs(p)) /\ IsFiniteSet({p})
         /\ Plain(p) \cup SubDirs(p) \subseteq Paths /\ p \in Paths
<1>1. PICK s \in Seq(DOMAIN Kind) : s = Contents[p]
  BY FlistAssumption
<1>2. IsFiniteSet(1 .. Len(s))
  BY FS_Interval
<1>3. s \in Surjection(1 .. Len(s), ToSet(s))
  BY DEF Surjection, ToSet
<1>4. IsFiniteSet(ToSet(s))
  BY <1>2, <1>3, FS_Surjection
<1>5. Plain(p) \cup SubDirs(p) \subseteq ToSet(s)
  BY <1>1 DEF Plain, SubDirs
<1>6. ToSet(s) \subseteq Paths
  BY DEF ToSet, Paths
<1> QED
  BY <1>4, <1>5, <1>6, FS_Subset, FS_Singleton, PathsAreSeqs

-----------------------------------------------------------------------------
LEMMA InitIInv == Init => IInv
<1> SUFFICES ASSUME Init PROVE IInv
  OBVIOUS
<1> USE DEF Init
<1>1. \A p \in Dirs : p \notin ToSet(cache) /\ <<p, p>> \in Chains
  BY PathsAreSeqs, PrefixIs, MakeChain DEF ToSet
<1>2. TypeOK
  <2>1. cache \in Seq(Dirs) /\ Len(cache) <= DirCacheSize /\ IsInjective(cache)
    BY MetaStoreAssumption DEF IsInjective
  <2>2. acl \subseteq Keys /\ Cardinality(acl) <= AccessCacheSize
    BY MetaStoreAssumption, FS_EmptySet
  <2>3. <<>> \in Seq(Names)
    OBVIOUS
  <2>4. \A p \in Dirs : p \in ToSet(cache) <=> obj[<<p, p>>] # None
    BY <1>1
  <2> QED
    BY <2>1, <2>2, <2>3, <2>4 DEF TypeOK
<1>3. IsFiniteSet(acl)
  BY FS_EmptySet
<1>4. Dirwise
  BY MetaStoreAssumption DEF Dirwise, Truthful, Grown, Linked, Knows, IsDir
<1>5. Owned /\ Faultless /\ OnTheWay
  BY MetaStoreAssumption DEF Owned, Faultless, OnTheWay
<1>6. Told
  BY MetaStoreAssumption DEF Told, ToldOf, NotFound, Infos
<1> QED
  BY <1>2, <1>3, <1>4, <1>5, <1>6 DEF IInv

-----------------------------------------------------------------------------
(* The steps that make no Dir.                                             *)

LEMMA HeldIs ==
  ASSUME IInv, NEW t \in Threads, pc[t] = "have"
  PROVE  /\ held[t] \in Chains /\ held[t] = <<held[t][1], at[t]>> /\ at[t] \in Dirs
         /\ IsDir(obj[held[t]]) /\ obj[held[t]] \in DirSet
         /\ held[t][1] \in Dirs \cup {t}
         /\ RightDir(obj[held[t]], at[t], users, DbFaults)
<1>1. held[t] \in Chains /\ held[t][2] = at[t] /\ obj[held[t]] \notin {None, Nil}
  BY DEF IInv, TypeOK, Owned
<1>2. held[t] = <<held[t][1], held[t][2]>> /\ held[t][2] \in Dirs
  BY <1>1, ChainIs
<1>3. obj[held[t]] \in DirSet
  BY <1>1 DEF IInv, TypeOK
<1>4. held[t][1] \in Dirs \cup {t}
  BY <1>1, MetaStoreAssumption DEF IInv, Owned
<1>5. RightDir(obj[held[t]], held[t][2], users, DbFaults)
  BY <1>1 DEF IInv, Dirwise, Truthful, IsDir
<1> QED
  BY <1>1, <1>2, <1>3, <1>4, <1>5 DEF IsDir

LEMMA SelfChain ==
  ASSUME NEW p \in Dirs
  PROVE  <<p, p>> \in Chains
BY PathsAreSeqs, PrefixIs, MakeChain

LEMMA CallStep ==
  ASSUME IInv, NEW t \in Threads, NEW o \in {"get", "list"}, NEW p \in Asked, Call(t, o, p)
  PROVE  IInv'
<1>0. p \in Seq(Names)
  BY FlistAssumption
<1>1. TypeOK'
  BY <1>0 DEF IInv, TypeOK, Call, mem
<1>2. IsFiniteSet(acl') /\ Dirwise'
  BY DirwiseKept DEF IInv, Call, mem
<1>3. Owned'
  BY DEF IInv, Owned, TypeOK, Call, mem
<1>4. Faultless'
  BY DEF IInv, Faultless, TypeOK, DbFaults, Call, mem
<1>5. OnTheWay'
  <2>1. Len(p) <= Len(p) /\ p = SubSeq(p, 1, Len(p))
    BY <1>0
  <2> QED
    BY <2>1 DEF IInv, OnTheWay, TypeOK, Call
<1>6. Told'
  <2>1. ASSUME NEW u \in Threads, u # t PROVE ToldOf(u)'
    BY <2>1, ToldStays DEF IInv, Told, TypeOK, Call, mem
  <2>2. ToldOf(t)'
    BY MetaStoreAssumption DEF IInv, ToldOf, TypeOK, Call, NotFound, Infos
  <2> QED
    BY <2>1, <2>2 DEF Told
<1> QED
  BY <1>1, <1>2, <1>3, <1>4, <1>5, <1>6 DEF IInv

(* The answers of the others, when neither calls nor names change.         *)
LEMMA ToldKept ==
  ASSUME Told, UNCHANGED <<faults, op, goal, ret, clean>>,
         users' = users \/ users = Unset
  PROVE  Told'
BY ToldStays DEF Told

LEMMA MissStep ==
  ASSUME IInv, NEW t \in Threads, Miss(t)
  PROVE  IInv'
<1>1. TypeOK'
  BY DEF IInv, TypeOK, Miss, mem, call
<1>2. IsFiniteSet(acl') /\ Dirwise'
  BY DirwiseKept DEF IInv, Miss, mem
<1>3. Owned' /\ Faultless' /\ OnTheWay'
  BY DEF IInv, Owned, Faultless, OnTheWay, DbFaults, TypeOK, Miss, mem, call
<1>4. Told'
  BY ToldKept DEF IInv, Miss, mem, call
<1> QED
  BY <1>1, <1>2, <1>3, <1>4 DEF IInv

LEMMA PanicStep ==
  ASSUME IInv, NEW t \in Threads, pc[t] = "have", Panic(t), DbFaults
  PROVE  IInv'
<1>1. TypeOK'
  BY DEF IInv, TypeOK, Panic, mem, call
<1>2. IsFiniteSet(acl') /\ Dirwise'
  BY DirwiseKept DEF IInv, Panic, mem
<1>3. Owned' /\ Faultless' /\ OnTheWay'
  BY DEF IInv, Owned, Faultless, OnTheWay, DbFaults, TypeOK, Panic, mem, call
<1>4. Told'
  BY ToldKept DEF IInv, Panic, mem, call
<1> QED
  BY <1>1, <1>2, <1>3, <1>4 DEF IInv

LEMMA HitStep ==
  ASSUME IInv, NEW t \in Threads, Hit(t)
  PROVE  IInv'
<1> DEFINE p == at[t]
<1>1. p \in Dirs /\ p \in ToSet(cache) /\ pc[t] = "up" /\ held[t] = None
  BY DEF IInv, TypeOK, Owned, Hit, ToSet
<1>2. <<p, p>> \in Chains /\ obj[<<p, p>>] \notin {None, Nil}
  <2>1. <<p, p>> \in Chains /\ <<p, p>>[1] = <<p, p>>[2]
    BY <1>1, SelfChain
  <2>2. obj[<<p, p>>] # None
    BY <1>1 DEF IInv, TypeOK
  <2>3. obj[<<p, p>>] # Nil
    BY <2>1 DEF IInv, Dirwise, Linked
  <2> QED
    BY <2>1, <2>2, <2>3
<1>3. /\ cache' \in Seq(Dirs) /\ Len(cache') <= DirCacheSize /\ IsInjective(cache')
      /\ ToSet(cache') = ToSet(cache)
  BY <1>1, LruIs DEF IInv, TypeOK, Hit
<1>4. held' = [held EXCEPT ![t] = <<p, p>>] /\ pc' = [pc EXCEPT ![t] = "have"]
  BY DEF Hit
<1>5. UNCHANGED <<faults, obj, acl, users, op, goal, at, clean, ret>>
  BY DEF Hit, call
<1>6. TypeOK'
  <2>1. held' \in [Threads -> {None} \cup Chains]
    BY <1>2, <1>4 DEF IInv, TypeOK
  <2>2. ASSUME NEW u \in Threads, pc'[u] = "have"
        PROVE  held'[u][2] = at'[u] /\ obj'[held'[u]] \notin {None, Nil}
    <3>1. CASE u = t
      BY <1>2, <1>4, <1>5, <3>1 DEF IInv, TypeOK
    <3>2. CASE u # t
      BY <1>4, <1>5, <2>2, <3>2 DEF IInv, TypeOK
    <3> QED
      BY <3>1, <3>2
  <2>3. pc' \in [Threads -> {"idle", "up", "read", "have", "panic"}]
    BY <1>4 DEF IInv, TypeOK
  <2>4. \A q \in Dirs : q \in ToSet(cache') <=> obj'[<<q, q>>] # None
    BY <1>3, <1>5 DEF IInv, TypeOK
  <2> QED
    BY <1>3, <1>5, <2>1, <2>2, <2>3, <2>4 DEF IInv, TypeOK
<1>7. IsFiniteSet(acl') /\ Dirwise'
  BY <1>5, DirwiseKept DEF IInv
<1>8. Owned'
  <2>1. ASSUME NEW u \in Threads
        PROVE  /\ pc'[u] \in {"idle", "up", "read"} => held'[u] = None
               /\ pc'[u] = "have" => held'[u] # None
               /\ held'[u] # None => held'[u][1] \in Dirs \cup {u}
    <3>1. CASE u = t
      <4>1. held'[u] = <<p, p>> /\ pc'[u] = "have"
        BY <1>4, <3>1 DEF IInv, TypeOK
      <4>2. <<p, p>> # None /\ <<p, p>>[1] = p
        BY <1>2, MetaStoreAssumption
      <4> HIDE DEF p
      <4> QED
        BY <1>1, <4>1, <4>2
    <3>2. CASE u # t
      BY <1>4, <3>2 DEF IInv, TypeOK, Owned
    <3> QED
      BY <3>1, <3>2
  <2>2. ASSUME NEW c \in Chains, c[1] \in Threads, obj'[c] # None
        PROVE  held'[c[1]] # None /\ held'[c[1]][1] = c[1]
    <3>1. held[c[1]] # None /\ held[c[1]][1] = c[1]
      BY <1>5, <2>2 DEF IInv, Owned
    <3>2. c[1] # t
      BY <1>1, <3>1
    <3> QED
      BY <1>4, <2>2, <3>1, <3>2 DEF IInv, TypeOK
  <2> QED
    BY <2>1, <2>2 DEF Owned
<1>9. Faultless' /\ OnTheWay'
  BY <1>1, <1>4, <1>5 DEF IInv, Faultless, OnTheWay, DbFaults, TypeOK
<1>10. Told'
  BY <1>5, ToldKept DEF IInv
<1> QED
  BY <1>6, <1>7, <1>8, <1>9, <1>10 DEF IInv

(* The answer is given; the copy that the thread had is gone with it.      *)
LEMMA ReturnStep ==
  ASSUME IInv, NEW t \in Threads, NEW answer \in Infos, Return(t, answer),
         UNCHANGED <<faults, cache, acl, users, op, goal>>,
         clean' \in [Threads -> BOOLEAN], \A u \in Threads \ {t} : clean'[u] = clean[u],
         DbFaults \/ clean'[t], ToldOf(t)'
  PROVE  IInv'
<1>1. /\ ret' = [ret EXCEPT ![t] = answer] /\ pc' = [pc EXCEPT ![t] = "idle"]
      /\ held' = [held EXCEPT ![t] = None] /\ at' = [at EXCEPT ![t] = <<>>]
      /\ obj' = [c \in Chains |-> IF c[1] = t THEN None ELSE obj[c]]
  BY DEF Return
<1>2. t \notin Dirs
  BY MetaStoreAssumption
<1>3. ASSUME NEW c \in Chains
      PROVE  /\ c[1] = t => obj'[c] = None
             /\ c[1] # t => obj'[c] = obj[c]
  BY <1>1
<1>4. ASSUME NEW u \in Threads, u # t
      PROVE  /\ pc'[u] = pc[u] /\ held'[u] = held[u] /\ at'[u] = at[u] /\ ret'[u] = ret[u]
             /\ held[u] # None => held[u] \in Chains /\ held[u][1] # t
             /\ held[u] # None => obj'[held[u]] = obj[held[u]]
  <2>1. pc'[u] = pc[u] /\ held'[u] = held[u] /\ at'[u] = at[u] /\ ret'[u] = ret[u]
    BY <1>1, <1>4 DEF IInv, TypeOK
  <2>2. ASSUME held[u] # None PROVE held[u] \in Chains /\ held[u][1] # t
    BY <1>2, <1>4, <2>2 DEF IInv, TypeOK, Owned
  <2> QED
    BY <1>3, <2>1, <2>2
<1>5. pc'[t] = "idle" /\ held'[t] = None
  BY <1>1 DEF IInv, TypeOK
<1>6. TypeOK'
  <2>1. obj' \in [Chains -> {None, Nil} \cup DirSet]
    BY <1>1 DEF IInv, TypeOK
  <2>2. /\ pc' \in [Threads -> {"idle", "up", "read", "have", "panic"}]
        /\ held' \in [Threads -> {None} \cup Chains]
        /\ ret' \in [Threads -> {None} \cup Infos]
    BY <1>1 DEF IInv, TypeOK
  <2>3. at' \in [Threads -> Seq(Names)]
    <3>1. <<>> \in Seq(Names)
      OBVIOUS
    <3> QED
      BY <1>1, <3>1 DEF IInv, TypeOK
  <2>4. ASSUME NEW p \in Dirs PROVE p \in ToSet(cache') <=> obj'[<<p, p>>] # None
    <3>1. <<p, p>> \in Chains /\ <<p, p>>[1] # t
      BY <1>2, SelfChain
    <3> QED
      BY <1>3, <3>1 DEF IInv, TypeOK
  <2>5. ASSUME NEW u \in Threads, pc'[u] = "have"
        PROVE  held'[u][2] = at'[u] /\ obj'[held'[u]] \notin {None, Nil}
    <3>1. u # t
      BY <1>5, <2>5
    <3> QED
      BY <1>4, <2>5, <3>1 DEF IInv, TypeOK, Owned
  <2> QED
    BY <2>1, <2>2, <2>3, <2>4, <2>5 DEF IInv, TypeOK
<1>7. Dirwise'
  <2>1. Truthful'
    BY <1>3 DEF IInv, Dirwise, Truthful, IsDir, DbFaults
  <2>2. Grown'
    <3> SUFFICES ASSUME NEW c \in Chains, Knows(c)', NEW q \in SubDirs(c[2])
                 PROVE  obj'[<<c[1], q>>] # None
      BY DEF Grown
    <3>1. c[1] # t /\ obj'[c] = obj[c]
      BY <1>3 DEF Knows, IsDir
    <3>2. <<c[1], q>> \in Chains /\ obj'[<<c[1], q>>] = obj[<<c[1], q>>]
      BY <1>3, <3>1, ChildChain
    <3>3. Knows(c)
      BY <3>1 DEF Knows
    <3> QED
      BY <3>2, <3>3 DEF IInv, Dirwise, Grown
  <2>3. Linked'
    <3> SUFFICES ASSUME NEW c \in Chains
                 PROVE  IF c[1] = c[2] THEN obj'[c] # Nil
                        ELSE c[1] \in Dirs /\ obj'[c] # None => Knows(<<c[1], Front(c[2])>>)'
      BY DEF Linked
    <3>1. CASE c[1] = c[2]
      BY <1>3, <3>1, MetaStoreAssumption DEF IInv, Dirwise, Linked
    <3>2. ASSUME c[1] # c[2], c[1] \in Dirs, obj'[c] # None
          PROVE  Knows(<<c[1], Front(c[2])>>)'
      <4>1. <<c[1], Front(c[2])>> \in Chains /\ c[1] # t
        BY <1>2, <3>2, ParentChain
      <4>2. /\ obj'[<<c[1], Front(c[2])>>] = obj[<<c[1], Front(c[2])>>]
            /\ obj'[c] = obj[c]
        BY <1>3, <4>1
      <4>3. Knows(<<c[1], Front(c[2])>>)
        BY <3>2, <4>2 DEF IInv, Dirwise, Linked
      <4> QED
        BY <4>2, <4>3 DEF Knows
    <3> QED
      BY <3>1, <3>2
  <2> QED
    BY <2>1, <2>2, <2>3 DEF Dirwise
<1>8. Owned'
  <2>1. ASSUME NEW u \in Threads
        PROVE  /\ pc'[u] \in {"idle", "up", "read"} => held'[u] = None
               /\ pc'[u] = "have" => held'[u] # None
               /\ held'[u] # None => held'[u][1] \in Dirs \cup {u}
    BY <1>4, <1>5 DEF IInv, Owned
  <2>2. ASSUME NEW c \in Chains, c[1] \in Threads, obj'[c] # None
        PROVE  held'[c[1]] # None /\ held'[c[1]][1] = c[1]
    BY <1>3, <1>4, <2>2 DEF IInv, Owned
  <2> QED
    BY <2>1, <2>2 DEF Owned
<1>9. Faultless'
  <2>1. ASSUME ~DbFaults PROVE \A u \in Threads : pc'[u] # "panic" /\ clean'[u]
    BY <1>4, <1>5, <2>1 DEF IInv, Faultless
  <2>2. ASSUME ~DbFaults, NEW c \in Chains PROVE obj'[c] # Nil
    BY <1>3, <2>2, MetaStoreAssumption DEF IInv, Faultless
  <2>3. DbFaults' = DbFaults
    BY DEF DbFaults
  <2> QED
    BY <2>1, <2>2, <2>3 DEF Faultless
<1>10. OnTheWay'
  BY <1>4, <1>5 DEF IInv, OnTheWay
<1>11. Told'
  <2>1. ASSUME NEW u \in Threads, u # t PROVE ToldOf(u)'
    <3>1. ToldOf(u) /\ ret'[u] = ret[u] /\ clean'[u] = clean[u]
      BY <1>4, <2>1 DEF IInv, Told
    <3> QED
      BY <3>1, ToldStays
  <2> QED
    BY <2>1 DEF Told
<1> QED
  BY <1>6, <1>7, <1>8, <1>9, <1>10, <1>11 DEF IInv

LEMMA NotFoundIsInfo == NotFound \in Infos /\ NotFound # None
BY MetaStoreAssumption DEF NotFound, Infos

LEMMA NoDirStep ==
  ASSUME IInv, NEW t \in Threads, NoDir(t)
  PROVE  IInv'
<1>1. /\ pc[t] = "read" /\ (at[t] \notin Dirs \/ DbFaults)
      /\ clean' = [clean EXCEPT ![t] = @ /\ at[t] \notin Dirs]
      /\ UNCHANGED <<faults, cache, acl, users, op, goal>>
  BY DEF NoDir, call
<1>2. /\ clean' \in [Threads -> BOOLEAN] /\ clean'[t] = (clean[t] /\ at[t] \notin Dirs)
      /\ \A u \in Threads \ {t} : clean'[u] = clean[u]
  BY <1>1 DEF IInv, TypeOK
<1>3. DbFaults \/ clean'[t]
  BY <1>1, <1>2 DEF IInv, Faultless
<1>4. CASE at[t] = <<>>
  <2>1. Return(t, NotFound)
    BY <1>4 DEF NoDir
  <2>2. ret'[t] = NotFound /\ ~clean'[t]
    BY <1>2, <1>4, <2>1, PathsAreSeqs DEF Return, IInv, TypeOK
  <2>3. ToldOf(t)'
    BY <2>2 DEF ToldOf
  <2> QED
    BY <1>1, <1>2, <1>3, <2>1, <2>3, NotFoundIsInfo, ReturnStep
<1>5. CASE at[t] # <<>>
  <2>1. /\ at' = [at EXCEPT ![t] = Front(@)] /\ pc' = [pc EXCEPT ![t] = "up"]
        /\ UNCHANGED <<held, obj, ret>>
    BY <1>5 DEF NoDir
  <2>2. at[t] \in Seq(Names) /\ goal[t] \in Seq(Names)
    BY DEF IInv, TypeOK
  <2>3. /\ Len(at[t]) \in Nat \ {0} /\ Front(at[t]) \in Seq(Names)
        /\ Len(Front(at[t])) = Len(at[t]) - 1
        /\ \A i \in 1 .. Len(at[t]) - 1 : Front(at[t])[i] = at[t][i]
    BY <1>5, <2>2, FrontIs
  <2>4. TypeOK'
    BY <1>1, <1>2, <2>1, <2>3 DEF IInv, TypeOK
  <2>5. IsFiniteSet(acl') /\ Dirwise'
    BY <1>1, <2>1, DirwiseKept DEF IInv
  <2>6. Owned'
    BY <1>1, <2>1 DEF IInv, Owned, TypeOK
  <2>7. Faultless'
    BY <1>1, <1>2, <1>3, <2>1 DEF IInv, Faultless, DbFaults, TypeOK
  <2>8. OnTheWay'
    <3>1. Len(at[t]) <= Len(goal[t]) /\ at[t] = SubSeq(goal[t], 1, Len(at[t]))
      BY <1>1 DEF IInv, OnTheWay
    <3>2. PICK n \in Nat : n = Len(at[t]) - 1
      BY <2>3
    <3>3. n <= Len(goal[t]) /\ SubSeq(goal[t], 1, n) \in Seq(Names)
          /\ Len(SubSeq(goal[t], 1, n)) = n
      BY <2>2, <2>3, <3>1, <3>2
    <3>4. \A i \in 1 .. n : SubSeq(goal[t], 1, n)[i] = goal[t][i] /\ at[t][i] = goal[t][i]
      BY <2>2, <2>3, <3>1, <3>2, <3>3
    <3>5. Front(at[t]) = SubSeq(goal[t], 1, n)
      <4>1. PICK a \in Seq(Names), b \in Seq(Names) :
              a = Front(at[t]) /\ b = SubSeq(goal[t], 1, n)
        BY <2>3, <3>3
      <4>2. Len(a) = Len(b) /\ \A i \in 1 .. Len(a) : a[i] = b[i]
        BY <2>3, <3>2, <3>3, <3>4, <4>1
      <4> QED
        BY <4>1, <4>2, SeqEqual
    <3>6. at'[t] = Front(at[t]) /\ goal' = goal /\ Len(at'[t]) = n
      BY <1>1, <2>1, <2>3, <3>2 DEF IInv, TypeOK
    <3>7. Len(at'[t]) <= Len(goal'[t]) /\ at'[t] = SubSeq(goal'[t], 1, Len(at'[t]))
      BY <3>3, <3>5, <3>6
    <3> QED
      BY <1>1, <2>1, <3>7 DEF IInv, OnTheWay, TypeOK
  <2>9. Told'
    <3>1. ASSUME NEW u \in Threads PROVE ToldOf(u)'
      <4>1. clean'[u] => clean[u]
        BY <1>2
      <4> QED
        BY <1>1, <2>1, <4>1, ToldStays DEF IInv, Told
    <3> QED
      BY <3>1 DEF Told
  <2> QED
    BY <2>4, <2>5, <2>6, <2>7, <2>8, <2>9 DEF IInv
<1> QED
  BY <1>4, <1>5

-----------------------------------------------------------------------------
(* A directory that is read anew.                                          *)

LEMMA NewDirIs ==
  ASSUME NEW p \in Dirs, Access(p, users') \in Rights
  PROVE  /\ NewDir(p) \in DirSet /\ IsDir(NewDir(p)) /\ NewDir(p).kids = Unset
         /\ \A may : RightDir(NewDir(p), p, users', may)
<1>1. NewDir(p) = [access |-> Access(p, users'), kids |-> Unset]
  BY DEF NewDir
<1>2. NewDir(p) \in DirSet
  BY <1>1 DEF DirSet
<1> QED
  BY <1>1, <1>2, MetaStoreAssumption DEF IsDir, RightDir

(* What a thread u has of a Dir that leaves the cache.                     *)
Orphaned(G, u) == held[u] # None /\ held[u][1] \in G

(* The Dirs of G leave the cache, and p comes in as n.                     *)
MovedOut(G, p, n) ==
  \A c \in Chains :
    /\ c = <<p, p>> => obj'[c] = n
    /\ c # <<p, p>> /\ c[1] \in G => obj'[c] = None
    /\ c[1] \in Threads /\ Orphaned(G, c[1]) /\ IsPrefix(held[c[1]][2], c[2]) =>
         obj'[c] = obj[<<held[c[1]][1], c[2]>>]
    /\ c # <<p, p>> /\ c[1] \notin G /\
       ~(c[1] \in Threads /\ Orphaned(G, c[1]) /\ IsPrefix(held[c[1]][2], c[2])) =>
         obj'[c] = obj[c]

LEMMA AddMoves ==
  ASSUME NEW t \in Threads, NEW p \in Dirs, Add(t, p), NEW G, NEW n, n = NewDir(p),
         G = {p} \cup (ToSet(cache) \ ToSet(Lru(p))), G \subseteq Dirs, held \in [Threads -> {None} \cup Chains]
  PROVE  /\ MovedOut(G, p, n) /\ cache' = Lru(p)
         /\ held'[t] = <<p, p>>
         /\ \A u \in Threads \ {t} :
              /\ Orphaned(G, u) => held'[u] = <<u, held[u][2]>>
              /\ ~Orphaned(G, u) => held'[u] = held[u]
<1>1. cache' = Lru(p)
  BY DEF Add
<1>2. ASSUME NEW c \in Chains
      PROVE  obj'[c] =
           IF c = <<p, p>> THEN n
           ELSE IF c[1] \in G THEN None
           ELSE IF c[1] \in Threads /\ Orphaned(G, c[1]) /\ IsPrefix(held[c[1]][2], c[2])
             THEN obj[<<held[c[1]][1], c[2]>>] ELSE obj[c]
  BY DEF Add, Orphaned
<1>3. \A c \in Chains : c[1] \in Threads => c[1] \notin G /\ c # <<p, p>>
  BY MetaStoreAssumption
<1>4. MovedOut(G, p, n)
  BY <1>2, <1>3 DEF MovedOut
<1>5. ASSUME NEW u \in Threads
      PROVE  held'[u] = IF u = t THEN <<p, p>>
                        ELSE IF Orphaned(G, u) THEN <<u, held[u][2]>> ELSE held[u]
  BY DEF Add, Orphaned
<1> QED
  BY <1>1, <1>4, <1>5

(* The chain of a copy is that of the Dir it is a copy of.                 *)
LEMMA CopyChain ==
  ASSUME IInv, NEW c \in Chains, c[1] \in Threads, NEW G, G \subseteq Dirs,
         Orphaned(G, c[1]), IsPrefix(held[c[1]][2], c[2])
  PROVE  /\ <<held[c[1]][1], c[2]>> \in Chains /\ c[1] \notin G
         /\ held[c[1]] \in Chains /\ held[c[1]][1] \in Dirs /\ held[c[1]][2] \in Dirs
<1>1. held[c[1]] \in Chains /\ held[c[1]][1] \in G
  BY DEF Orphaned, IInv, TypeOK
<1>2. /\ held[c[1]][1] \in Dirs /\ held[c[1]][2] \in Dirs /\ c[2] \in Dirs
      /\ IsPrefix(held[c[1]][1], held[c[1]][2])
  BY <1>1, ChainIs
<1>3. IsPrefix(held[c[1]][1], c[2])
  BY <1>2, PrefixTrans
<1> QED
  BY <1>1, <1>2, <1>3, MakeChain, MetaStoreAssumption

LEMMA CopyOnly ==
  ASSUME IInv, NEW c \in Chains, c[1] \in Threads, NEW G, G \subseteq Dirs, Orphaned(G, c[1])
  PROVE  obj[c] = None
BY MetaStoreAssumption DEF Orphaned, IInv, Owned

LEMMA AddSource ==
  ASSUME IInv, NEW p \in Dirs, NEW G, NEW n, MovedOut(G, p, n), G \subseteq Dirs,
         NEW c \in Chains, c # <<p, p>>, obj'[c] # None
  PROVE  \E d \in Chains : d[2] = c[2] /\ obj'[c] = obj[d]
<1>1. CASE c[1] \in Threads /\ Orphaned(G, c[1]) /\ IsPrefix(held[c[1]][2], c[2])
  <2>1. <<held[c[1]][1], c[2]>> \in Chains
    BY <1>1, CopyChain
  <2> QED
    BY <1>1, <2>1 DEF MovedOut
<1>2. CASE ~(c[1] \in Threads /\ Orphaned(G, c[1]) /\ IsPrefix(held[c[1]][2], c[2]))
  BY <1>2 DEF MovedOut
<1> QED
  BY <1>1, <1>2

LEMMA AddDirwise ==
  ASSUME IInv, NEW p \in Dirs, NEW G, NEW n, MovedOut(G, p, n), G \subseteq Dirs, p \in G,
         IsDir(n), n.kids = Unset, RightDir(n, p, users', DbFaults),
         users' = users \/ users = Unset, faults' = faults
  PROVE  Dirwise'
<1>0. <<p, p>> \in Chains
  BY SelfChain
<1>1. Truthful'
  <2> SUFFICES ASSUME NEW c \in Chains, IsDir(obj'[c])
               PROVE  RightDir(obj'[c], c[2], users', DbFaults)
    BY DEF Truthful, DbFaults
  <2>1. CASE c = <<p, p>>
    BY <2>1 DEF MovedOut
  <2>2. CASE c # <<p, p>>
    <3>1. PICK d \in Chains : d[2] = c[2] /\ obj'[c] = obj[d]
      BY <2>2, AddSource DEF IsDir
    <3>2. /\ RightDir(obj[d], d[2], users, DbFaults) /\ obj[d] \in DirSet /\ d[2] \in Dirs
      BY <3>1, ChainIs DEF IInv, TypeOK, Dirwise, Truthful, IsDir
    <3>3. RightDir(obj[d], d[2], users', DbFaults)
      BY <3>2, RightStays
    <3> QED
      BY <3>1, <3>3
  <2> QED
    BY <2>1, <2>2
<1>2. Grown'
  <2> SUFFICES ASSUME NEW c \in Chains, Knows(c)', NEW q \in SubDirs(c[2])
               PROVE  obj'[<<c[1], q>>] # None
    BY DEF Grown
  <2>1. IsDir(obj'[c]) /\ obj'[c].kids # Unset
    BY DEF Knows
  <2>2. c # <<p, p>> /\ c[1] \notin G
    BY <2>1 DEF MovedOut, IsDir
  <2>3. /\ <<c[1], q>> \in Chains /\ <<c[1], q>>[1] = c[1] /\ <<c[1], q>>[2] = q
        /\ <<c[1], q>> # <<p, p>> /\ c[2] \in Dirs /\ q \in Dirs /\ IsPrefix(c[2], q)
    BY ChildChain, ChainIs, SubDirIs
  <2>4. CASE c[1] \in Threads /\ Orphaned(G, c[1]) /\ IsPrefix(held[c[1]][2], c[2])
    <3>1. /\ <<held[c[1]][1], c[2]>> \in Chains
          /\ held[c[1]][2] \in Dirs
      BY <2>4, CopyChain
    <3>2. IsPrefix(held[c[1]][2], q)
      BY <2>3, <2>4, <3>1, PrefixTrans
    <3>3. /\ obj'[c] = obj[<<held[c[1]][1], c[2]>>]
          /\ obj'[<<c[1], q>>] = obj[<<held[c[1]][1], q>>]
      BY <2>3, <2>4, <3>2 DEF MovedOut
    <3>4. Knows(<<held[c[1]][1], c[2]>>)
      BY <2>1, <3>3 DEF Knows
    <3>5. PICK d \in Chains : d = <<held[c[1]][1], c[2]>>
      BY <3>1
    <3>6. obj[<<d[1], q>>] # None
      BY <3>4, <3>5 DEF IInv, Dirwise, Grown
    <3> QED
      BY <3>3, <3>5, <3>6
  <2>5. CASE ~(c[1] \in Threads /\ Orphaned(G, c[1]) /\ IsPrefix(held[c[1]][2], c[2]))
    <3>1. obj'[c] = obj[c]
      BY <2>2, <2>5 DEF MovedOut
    <3>2. Knows(c)
      BY <2>1, <3>1 DEF Knows
    <3>3. ~(c[1] \in Threads /\ Orphaned(G, c[1]))
      BY <2>1, <3>1, CopyOnly DEF IsDir
    <3>4. obj'[<<c[1], q>>] = obj[<<c[1], q>>]
      BY <2>2, <2>3, <3>3 DEF MovedOut
    <3> QED
      BY <3>2, <3>4 DEF IInv, Dirwise, Grown
  <2> QED
    BY <2>4, <2>5
<1>3. Linked'
  <2> SUFFICES ASSUME NEW c \in Chains
               PROVE  IF c[1] = c[2] THEN obj'[c] # Nil
                      ELSE c[1] \in Dirs /\ obj'[c] # None => Knows(<<c[1], Front(c[2])>>)'
    BY DEF Linked
  <2>1. c = <<c[1], c[2]>> /\ c[2] \in Dirs
    BY ChainIs
  <2>2. ASSUME c[1] = c[2] PROVE obj'[c] # Nil
    <3>1. CASE c = <<p, p>>
      BY <3>1 DEF MovedOut, IsDir
    <3>2. CASE c # <<p, p>>
      <4>1. c[1] \notin Threads
        BY <2>1, <2>2, MetaStoreAssumption
      <4>2. obj'[c] = None \/ obj'[c] = obj[c]
        BY <3>2, <4>1 DEF MovedOut
      <4>3. obj[c] # Nil
        BY <2>2 DEF IInv, Dirwise, Linked
      <4> QED
        BY <4>2, <4>3, MetaStoreAssumption
    <3> QED
      BY <3>1, <3>2
  <2>3. ASSUME c[1] # c[2], c[1] \in Dirs, obj'[c] # None
        PROVE  Knows(<<c[1], Front(c[2])>>)'
    <3>0. c # <<p, p>> /\ c[1] \notin Threads
      BY <2>3, MetaStoreAssumption
    <3>1. c # <<p, p>> /\ c[1] \notin G /\ c[1] \notin Threads
      BY <2>3, <3>0 DEF MovedOut
    <3>2. <<c[1], Front(c[2])>> \in Chains /\ <<c[1], Front(c[2])>>[1] = c[1]
      BY <2>3, ParentChain
    <3>3. /\ obj'[c] = obj[c]
          /\ obj'[<<c[1], Front(c[2])>>] = obj[<<c[1], Front(c[2])>>]
      <4>1. <<c[1], Front(c[2])>> # <<p, p>>
        BY <3>1
      <4> QED
        BY <3>1, <3>2, <4>1 DEF MovedOut
    <3>4. Knows(<<c[1], Front(c[2])>>)
      BY <2>3, <3>3 DEF IInv, Dirwise, Linked
    <3> QED
      BY <3>3, <3>4 DEF Knows
  <2> QED
    BY <2>2, <2>3
<1> QED
  BY <1>1, <1>2, <1>3 DEF Dirwise

LEMMA GetDirStep ==
  ASSUME IInv, NEW t \in Threads, GetDir(t)
  PROVE  IInv'
<1>1. PICK p \in Dirs : p = at[t]
  BY DEF GetDir
<1>2. /\ pc[t] = "read" /\ held[t] = None
      /\ LookUp({p}) /\ Remember({p}) /\ Add(t, p)
      /\ pc' = [pc EXCEPT ![t] = "have"]
      /\ UNCHANGED <<faults, op, goal, at, clean, ret>>
  BY <1>1 DEF GetDir, call, IInv, Owned
<1>3. /\ users' \in Owners /\ (users' = users \/ users = Unset)
      /\ Access(p, users') \in Rights
  <2>1. {p} \in SUBSET Paths /\ users \in Owners
    BY ContentsFinite DEF IInv, TypeOK, Owners
  <2> QED
    BY <1>2, <2>1, LookUpIs
<1>4. /\ acl' \subseteq Keys /\ IsFiniteSet(acl') /\ Cardinality(acl') <= AccessCacheSize
  <2>1. {p} \in SUBSET Paths /\ IsFiniteSet({p})
    BY ContentsFinite
  <2> QED
    BY <1>2, <2>1, RememberIs DEF IInv, TypeOK
<1>5. /\ Lru(p) \in Seq(Dirs) /\ Len(Lru(p)) <= DirCacheSize /\ IsInjective(Lru(p))
      /\ p \in ToSet(Lru(p)) /\ ToSet(Lru(p)) \subseteq ToSet(cache) \cup {p}
  BY LruIs DEF IInv, TypeOK
<1>6. PICK n : n = NewDir(p)
  OBVIOUS
<1>7. /\ n \in DirSet /\ IsDir(n) /\ n.kids = Unset
      /\ RightDir(n, p, users', DbFaults)
  BY <1>3, <1>6, NewDirIs
<1>8. PICK G : G = {p} \cup (ToSet(cache) \ ToSet(Lru(p)))
  OBVIOUS
<1>9. G \subseteq Dirs /\ p \in G
  <2>1. ToSet(cache) \subseteq Dirs
    BY DEF IInv, TypeOK, ToSet
  <2> QED
    BY <1>8, <2>1
<1>10. /\ MovedOut(G, p, n) /\ cache' = Lru(p) /\ held'[t] = <<p, p>>
       /\ \A u \in Threads \ {t} :
            /\ Orphaned(G, u) => held'[u] = <<u, held[u][2]>>
            /\ ~Orphaned(G, u) => held'[u] = held[u]
  <2>1. held \in [Threads -> {None} \cup Chains]
    BY DEF IInv, TypeOK
  <2>2. Add(t, p)
    BY <1>2
  <2> QED
    BY <1>6, <1>8, <1>9, <2>1, <2>2, AddMoves
<1>11. <<p, p>> \in Chains /\ <<p, p>>[1] = p /\ <<p, p>>[2] = p /\ <<p, p>> # None
  BY SelfChain, MetaStoreAssumption
<1>12. pc'[t] = "have" /\ \A u \in Threads : u # t => pc'[u] = pc[u]
  BY <1>2 DEF IInv, TypeOK
<1>13. ASSUME NEW u \in Threads, u # t, Orphaned(G, u)
       PROVE  /\ <<u, held[u][2]>> \in Chains /\ held'[u] = <<u, held[u][2]>>
              /\ held'[u] # None /\ held'[u][1] = u /\ held'[u][2] = held[u][2]
              /\ obj'[held'[u]] = obj[held[u]]
  <2>1. held[u] \in Chains /\ held[u] = <<held[u][1], held[u][2]>> /\ held[u][2] \in Dirs
    BY <1>13, ChainIs DEF Orphaned, IInv, TypeOK
  <2>2. u \notin Dirs
    BY MetaStoreAssumption
  <2>3. <<u, held[u][2]>> \in Chains
    BY <2>1, <2>2, MakeChain
  <2>4. PICK c \in Chains : c = <<u, held[u][2]>>
    BY <2>3
  <2>5. IsPrefix(held[u][2], held[u][2])
    BY <2>1, PathsAreSeqs, PrefixIs
  <2>6. obj'[c] = obj[held[u]]
    BY <1>10, <1>13, <2>1, <2>4, <2>5 DEF MovedOut
  <2> QED
    BY <1>10, <1>13, <2>4, <2>6, MetaStoreAssumption
<1>14. ASSUME NEW u \in Threads, u # t, ~Orphaned(G, u), held[u] # None
       PROVE  /\ held'[u] = held[u] /\ held[u] \in Chains
              /\ obj'[held'[u]] = obj[held[u]]
  <2>1. held'[u] = held[u] /\ held[u] \in Chains /\ held[u][1] \notin G
    BY <1>10, <1>14 DEF Orphaned, IInv, TypeOK
  <2>2. held[u] # <<p, p>>
    BY <1>9, <2>1
  <2>3. ~(held[u][1] \in Threads /\ Orphaned(G, held[u][1]))
    <3>1. held[u][1] \in Dirs \cup {u}
      BY <1>14 DEF IInv, Owned
    <3> QED
      BY <1>14, <3>1, MetaStoreAssumption
  <2> QED
    BY <1>10, <2>1, <2>2, <2>3 DEF MovedOut
<1>15. TypeOK'
  <2>1. obj' \in [Chains -> {None, Nil} \cup DirSet]
    <3>1. ASSUME NEW c \in Chains PROVE obj'[c] \in {None, Nil} \cup DirSet
      <4>1. CASE c = <<p, p>>
        BY <1>7, <1>10, <4>1 DEF MovedOut
      <4>2. CASE c # <<p, p>> /\ obj'[c] # None
        <5>1. PICK d \in Chains : obj'[c] = obj[d]
          BY <1>9, <1>10, <4>2, AddSource
        <5> QED
          BY <5>1 DEF IInv, TypeOK
      <4> QED
        BY <4>1, <4>2
    <3>2. obj' = [c \in Chains |-> obj'[c]]
      BY <1>2 DEF Add
    <3> QED
      BY <3>1, <3>2
  <2>2. held' \in [Threads -> {None} \cup Chains]
    <3>1. ASSUME NEW u \in Threads PROVE held'[u] \in {None} \cup Chains
      BY <1>10, <1>11, <1>13, <1>14
    <3>2. held' = [u \in Threads |-> held'[u]]
      BY <1>2 DEF Add
    <3> QED
      BY <3>1, <3>2
  <2>3. ASSUME NEW q \in Dirs PROVE q \in ToSet(cache') <=> obj'[<<q, q>>] # None
    <3>1. PICK c \in Chains : c = <<q, q>>
      BY SelfChain
    <3>2. CASE q = p
      BY <1>5, <1>7, <1>10, <3>1, <3>2 DEF MovedOut, IsDir
    <3>3. CASE q # p /\ q \in G
      BY <1>8, <1>10, <3>1, <3>3 DEF MovedOut
    <3>4. CASE q \notin G
      <4>1. c # <<p, p>> /\ c[1] \notin G /\ c[1] \notin Threads
        BY <1>9, <3>1, <3>4, MetaStoreAssumption
      <4>2. obj'[c] = obj[c]
        BY <1>10, <4>1 DEF MovedOut
      <4>3. q \in ToSet(cache') <=> q \in ToSet(cache)
        BY <1>5, <1>8, <1>10, <3>4
      <4> QED
        BY <3>1, <4>2, <4>3 DEF IInv, TypeOK
    <3> QED
      BY <3>2, <3>3, <3>4
  <2>4. ASSUME NEW u \in Threads, pc'[u] = "have"
        PROVE  held'[u][2] = at'[u] /\ obj'[held'[u]] \notin {None, Nil}
    <3>1. CASE u = t
      <4>1. held'[u] = <<p, p>> /\ at'[u] = p
        BY <1>1, <1>2, <1>10, <3>1
      <4>2. obj'[<<p, p>>] = n
        BY <1>10, <1>11 DEF MovedOut
      <4> QED
        BY <1>7, <1>11, <4>1, <4>2 DEF IsDir
    <3>2. CASE u # t
      <4>1. held[u] # None /\ held[u][2] = at[u] /\ obj[held[u]] \notin {None, Nil}
        BY <1>12, <2>4, <3>2 DEF IInv, TypeOK, Owned
      <4>2. at'[u] = at[u]
        BY <1>2
      <4>3. CASE Orphaned(G, u)
        BY <1>13, <3>2, <4>1, <4>2, <4>3
      <4>4. CASE ~Orphaned(G, u)
        BY <1>14, <3>2, <4>1, <4>2, <4>4
      <4> QED
        BY <4>3, <4>4
    <3> QED
      BY <3>1, <3>2
  <2>5. pc' \in [Threads -> {"idle", "up", "read", "have", "panic"}]
    BY <1>2 DEF IInv, TypeOK
  <2> QED
    BY <1>2, <1>3, <1>4, <1>5, <1>10, <2>1, <2>2, <2>3, <2>4, <2>5 DEF IInv, TypeOK, Owners
<1>16. Dirwise'
  BY <1>2, <1>3, <1>7, <1>9, <1>10, AddDirwise
<1>17. Owned'
  <2>1. ASSUME NEW u \in Threads
        PROVE  /\ pc'[u] \in {"idle", "up", "read"} => held'[u] = None
               /\ pc'[u] = "have" => held'[u] # None
               /\ held'[u] # None => held'[u][1] \in Dirs \cup {u}
    <3>1. CASE u = t
      BY <1>10, <1>11, <1>12, <3>1
    <3>2. CASE u # t /\ Orphaned(G, u)
      BY <1>12, <1>13, <3>2 DEF IInv, Owned, Orphaned
    <3>3. CASE u # t /\ ~Orphaned(G, u)
      BY <1>10, <1>12, <3>3 DEF IInv, Owned
    <3> QED
      BY <3>1, <3>2, <3>3
  <2>2. ASSUME NEW c \in Chains, c[1] \in Threads, obj'[c] # None
        PROVE  held'[c[1]] # None /\ held'[c[1]][1] = c[1]
    <3>1. CASE Orphaned(G, c[1])
      BY <1>2, <1>13, <2>2, <3>1 DEF Orphaned
    <3>2. CASE ~Orphaned(G, c[1])
      <4>1. c # <<p, p>> /\ c[1] \notin G
        BY <1>9, <2>2, MetaStoreAssumption
      <4>2. obj'[c] = obj[c]
        BY <1>10, <3>2, <4>1 DEF MovedOut
      <4>3. held[c[1]] # None /\ held[c[1]][1] = c[1]
        BY <2>2, <4>2 DEF IInv, Owned
      <4> QED
        BY <1>2, <1>10, <2>2, <3>2, <4>3
    <3> QED
      BY <3>1, <3>2
  <2> QED
    BY <2>1, <2>2 DEF Owned
<1>18. Faultless'
  <2>1. ASSUME ~DbFaults, NEW c \in Chains PROVE obj'[c] # Nil
    <3>1. CASE c = <<p, p>>
      BY <1>7, <1>10, <3>1 DEF MovedOut, IsDir
    <3>2. CASE c # <<p, p>> /\ obj'[c] # None
      BY <1>9, <1>10, <2>1, <3>2, AddSource DEF IInv, Faultless
    <3> QED
      BY <3>1, <3>2, MetaStoreAssumption
  <2>2. ASSUME ~DbFaults, NEW u \in Threads PROVE pc'[u] # "panic" /\ clean'[u]
    BY <1>2, <1>12, <2>2 DEF IInv, Faultless
  <2> QED
    BY <1>2, <2>1, <2>2 DEF Faultless, DbFaults
<1>19. OnTheWay'
  BY <1>2, <1>12 DEF IInv, OnTheWay
<1>20. Told'
  BY <1>2, <1>3, ToldKept DEF IInv
<1> QED
  BY <1>4, <1>15, <1>16, <1>17, <1>18, <1>19, <1>20 DEF IInv

-----------------------------------------------------------------------------
(* The children of a Dir are read.                                         *)

Below(h, c) == c[1] = h[1] /\ c[2] \in SubDirs(h[2])

(* The Dir of h becomes n, and gets its subdirectories.                    *)
Spread(h, n, failed) ==
  \A c \in Chains :
    /\ c = h => obj'[c] = n
    /\ c # h /\ Below(h, c) => obj'[c] = SubDir(failed, c[2])
    /\ c # h /\ ~Below(h, c) => obj'[c] = obj[c]

LEMMA BelowIs ==
  ASSUME NEW h \in Chains, NEW c \in Chains, Below(h, c)
  PROVE  /\ c[1] # c[2] /\ c # h /\ <<c[1], Front(c[2])>> = h
         /\ c[2] \in Dirs
<1>1. h = <<h[1], h[2]>> /\ c = <<c[1], c[2]>> /\ c[2] \in Dirs
  BY ChainIs
<1>2. c[2] # h[1] /\ c[2] # h[2] /\ Front(c[2]) = h[2]
  BY ChildChain DEF Below
<1> QED
  BY <1>1, <1>2 DEF Below

(* A Dir below a cached one that does not know its children is not there.  *)
LEMMA NobodyBelow ==
  ASSUME Linked, NEW h \in Chains, h[1] \in Dirs, ~Knows(h), NEW c \in Chains, Below(h, c)
  PROVE  obj[c] = None
<1>1. c[1] # c[2] /\ <<c[1], Front(c[2])>> = h /\ c[1] \in Dirs
  BY BelowIs DEF Below
<1> QED
  BY <1>1 DEF Linked

LEMMA SpreadDirwise ==
  ASSUME IInv, NEW h \in Chains, IsDir(obj[h]), obj[h].kids = Unset,
         NEW n \in DirSet, NEW failed, Spread(h, n, failed),
         IsDir(n), n.kids # Unset, RightDir(n, h[2], users', DbFaults),
         \A q \in SubDirs(h[2]) \ failed : Access(q, users') \in Rights,
         users' = users \/ users = Unset, faults' = faults
  PROVE  Dirwise'
<1>0. ~Knows(h) /\ obj'[h] = n
  BY DEF Knows, Spread
<1>1. ASSUME NEW c \in Chains, Below(h, c)
      PROVE  /\ obj'[c] # None
             /\ IsDir(obj'[c]) => obj'[c].kids = Unset /\ RightDir(obj'[c], c[2], users', DbFaults)
  <2>1. c # h /\ c[2] \in Dirs
    BY <1>1, BelowIs
  <2>2. obj'[c] = SubDir(failed, c[2])
    BY <1>1, <2>1 DEF Spread
  <2>3. CASE c[2] \in failed
    BY <2>2, <2>3, MetaStoreAssumption DEF SubDir, IsDir
  <2>4. CASE c[2] \notin failed
    <3>1. Access(c[2], users') \in Rights
      BY <1>1, <2>4 DEF Below
    <3>2. obj'[c] = NewDir(c[2])
      BY <2>2, <2>4 DEF SubDir
    <3> QED
      BY <2>1, <3>1, <3>2, NewDirIs DEF IsDir
  <2> QED
    BY <2>3, <2>4
<1>2. Truthful'
  <2> SUFFICES ASSUME NEW c \in Chains, IsDir(obj'[c])
               PROVE  RightDir(obj'[c], c[2], users', DbFaults)
    BY DEF Truthful, DbFaults
  <2>1. CASE c = h
    BY <1>0, <2>1
  <2>2. CASE Below(h, c)
    BY <1>1, <2>2
  <2>3. CASE c # h /\ ~Below(h, c)
    <3>1. obj'[c] = obj[c]
      BY <2>3 DEF Spread
    <3>2. /\ RightDir(obj[c], c[2], users, DbFaults) /\ obj[c] \in DirSet /\ c[2] \in Dirs
      BY <3>1, ChainIs DEF IInv, TypeOK, Dirwise, Truthful, IsDir
    <3> QED
      BY <3>1, <3>2, RightStays
  <2> QED
    BY <2>1, <2>2, <2>3
<1>3. Grown'
  <2> SUFFICES ASSUME NEW c \in Chains, Knows(c)', NEW q \in SubDirs(c[2])
               PROVE  obj'[<<c[1], q>>] # None
    BY DEF Grown
  <2>1. PICK d \in Chains : d = <<c[1], q>>
    BY ChildChain
  <2>2. CASE c = h
    BY <1>1, <2>1, <2>2 DEF Below
  <2>3. CASE Below(h, c)
    BY <1>1, <2>3 DEF Knows
  <2>4. CASE c # h /\ ~Below(h, c)
    <3>1. Knows(c)
      BY <2>4 DEF Knows, Spread
    <3>2. obj[d] # None
      BY <2>1, <3>1 DEF IInv, Dirwise, Grown
    <3>3. CASE d = h
      BY <1>0, <2>1, <3>3 DEF IsDir
    <3>4. CASE Below(h, d)
      BY <1>1, <2>1, <3>4
    <3>5. CASE d # h /\ ~Below(h, d)
      BY <2>1, <3>2, <3>5 DEF Spread
    <3> QED
      BY <3>3, <3>4, <3>5
  <2> QED
    BY <2>2, <2>3, <2>4
<1>4. Linked'
  <2> SUFFICES ASSUME NEW c \in Chains
               PROVE  IF c[1] = c[2] THEN obj'[c] # Nil
                      ELSE c[1] \in Dirs /\ obj'[c] # None => Knows(<<c[1], Front(c[2])>>)'
    BY DEF Linked
  <2>1. ASSUME c[1] = c[2] PROVE obj'[c] # Nil
    <3>1. ~Below(h, c)
      BY <2>1, BelowIs
    <3>2. CASE c = h
      BY <1>0, <3>2 DEF IsDir
    <3>3. CASE c # h
      BY <2>1, <3>1, <3>3 DEF Spread, IInv, Dirwise, Linked
    <3> QED
      BY <3>2, <3>3
  <2>2. ASSUME c[1] # c[2], c[1] \in Dirs, obj'[c] # None
        PROVE  Knows(<<c[1], Front(c[2])>>)'
    <3>1. PICK d \in Chains : d = <<c[1], Front(c[2])>> /\ d[1] = c[1]
      BY <2>2, ParentChain
    <3>2. CASE d = h
      BY <1>0, <3>1, <3>2 DEF Knows
    <3>3. CASE d # h
      <4>1. ~Below(h, c)
        BY <3>1, <3>3, BelowIs
      <4>2. obj[c] # None
        <5>1. CASE c = h
          BY <5>1 DEF IsDir
        <5>2. CASE c # h
          BY <2>2, <4>1, <5>2 DEF Spread
        <5> QED
          BY <5>1, <5>2
      <4>3. Knows(d)
        BY <2>2, <3>1, <4>2 DEF IInv, Dirwise, Linked
      <4>4. ~Below(h, d)
        <5>1. ASSUME Below(h, d) PROVE h[1] \in Dirs
          BY <2>2, <3>1, <5>1 DEF Below
        <5> QED
          BY <1>0, <4>3, <5>1, NobodyBelow DEF Knows, IsDir, IInv, Dirwise
      <4>5. obj'[d] = obj[d]
        BY <3>3, <4>4 DEF Spread
      <4> QED
        BY <3>1, <4>3, <4>5 DEF Knows
    <3> QED
      BY <3>2, <3>3
  <2> QED
    BY <2>1, <2>2
<1> QED
  BY <1>2, <1>3, <1>4 DEF Dirwise

LEMMA GetChildrenStep ==
  ASSUME IInv, NEW t \in Threads, GetChildren(t)
  PROVE  IInv'
<1>1. PICK h \in Chains : h = held[t]
  BY HeldIs DEF GetChildren, Wanted
<1>2. PICK p \in Dirs : p = at[t]
  BY HeldIs DEF GetChildren, Wanted
<1>3. /\ pc[t] = "have" /\ h = <<h[1], p>> /\ h[2] = p /\ h[1] \in Dirs \cup {t}
      /\ IsDir(obj[h]) /\ obj[h] \in DirSet /\ RightDir(obj[h], p, users, DbFaults)
      /\ obj[h].kids = Unset
  BY <1>1, <1>2, HeldIs DEF GetChildren, Wanted
<1>4. PICK all : all = Plain(p) \cup SubDirs(p)
  OBVIOUS
<1>5. PICK failed :
        /\ failed \subseteq {c \in all : CanFail(c)}
        /\ LookUp(all \ failed) /\ Remember(all \ failed)
        /\ obj' = [c \in Chains |-> obj'[c]]
        /\ \A c \in Chains : obj'[c] =
             IF c = h
             THEN [obj[c] EXCEPT !.kids =
                     [f \in Plain(p) |->
                        IF f \in failed THEN "default" ELSE Access(f, users')]]
             ELSE IF c[1] = h[1] /\ c[2] \in SubDirs(p) THEN SubDir(failed, c[2])
             ELSE obj[c]
        /\ clean' = [clean EXCEPT ![t] = @ /\ failed = {}]
  <2>1. PICK failed \in SUBSET {c \in Plain(held[t][2]) \cup SubDirs(held[t][2]) : CanFail(c)} :
          /\ LookUp((Plain(held[t][2]) \cup SubDirs(held[t][2])) \ failed)
          /\ Remember((Plain(held[t][2]) \cup SubDirs(held[t][2])) \ failed)
          /\ obj' = [c \in Chains |->
               IF c = <<held[t][1], held[t][2]>>
               THEN [obj[c] EXCEPT !.kids =
                       [f \in Plain(held[t][2]) |->
                          IF f \in failed THEN "default" ELSE Access(f, users')]]
               ELSE IF c[1] = held[t][1] /\ c[2] \in SubDirs(held[t][2])
                    THEN SubDir(failed, c[2]) ELSE obj[c]]
          /\ clean' = [clean EXCEPT ![t] = @ /\ failed = {}]
    BY DEF GetChildren, Kept
  <2>2. held[t][2] = p /\ held[t][1] = h[1] /\ <<h[1], p>> = h
    BY <1>1, <1>3
  <2>3. Plain(held[t][2]) \cup SubDirs(held[t][2]) = all
    BY <1>4, <2>2
  <2>4. failed \subseteq {c \in all : CanFail(c)}
    BY <2>1, <2>3
  <2>5. LookUp(all \ failed) /\ Remember(all \ failed)
    BY <2>1, <2>3
  <2>6. obj' = [c \in Chains |-> obj'[c]]
    BY <2>1
  <2>7. ASSUME NEW c \in Chains
        PROVE  obj'[c] =
             IF c = h
             THEN [obj[c] EXCEPT !.kids =
                     [f \in Plain(p) |->
                        IF f \in failed THEN "default" ELSE Access(f, users')]]
             ELSE IF c[1] = h[1] /\ c[2] \in SubDirs(p) THEN SubDir(failed, c[2])
             ELSE obj[c]
    BY <2>1, <2>2
  <2> QED
    BY <2>1, <2>4, <2>5, <2>6, <2>7
<1>6. UNCHANGED <<faults, cache, pc, op, goal, at, held, ret>>
  BY DEF GetChildren, call
<1>7. failed \subseteq all /\ (DbFaults \/ failed = {})
  BY <1>5 DEF CanFail
<1>8. all \ failed \in SUBSET Paths /\ IsFiniteSet(all \ failed)
  <2>1. IsFiniteSet(all) /\ all \subseteq Paths
    BY <1>4, ContentsFinite
  <2> QED
    BY <2>1, FS_Subset
<1>9. /\ users' \in Owners /\ (users' = users \/ users = Unset)
      /\ \A q \in all \ failed : Access(q, users') \in Rights
  <2>1. users \in Owners
    BY DEF IInv, TypeOK, Owners
  <2>2. PICK ps : ps = all \ failed
    OBVIOUS
  <2> QED
    BY <1>5, <1>8, <2>1, <2>2, LookUpIs
<1>10. acl' \subseteq Keys /\ IsFiniteSet(acl') /\ Cardinality(acl') <= AccessCacheSize
  <2>1. PICK ps : ps = all \ failed
    OBVIOUS
  <2> QED
    BY <1>5, <1>8, <2>1, RememberIs DEF IInv, TypeOK
<1>11. PICK K : K = [f \in Plain(p) |->
                      IF f \in failed THEN "default" ELSE Access(f, users')]
  OBVIOUS
<1>12. /\ K \in [Plain(p) -> Rights] /\ K # Unset
       /\ \A f \in Plain(p) : K[f] = Access(f, users') \/ (K[f] = "default" /\ DbFaults)
  <2>1. K \in [Plain(p) -> Rights]
    BY <1>4, <1>9, <1>11 DEF Rights
  <2>2. K # Unset
    BY <2>1, MetaStoreAssumption
  <2>3. \A f \in Plain(p) : K[f] = Access(f, users') \/ (K[f] = "default" /\ DbFaults)
    BY <1>7, <1>11
  <2> QED
    BY <2>1, <2>2, <2>3
<1>13. PICK n : n = [obj[h] EXCEPT !.kids = K]
  OBVIOUS
<1>14. n \in DirSet /\ n.kids = K /\ n.access = obj[h].access /\ IsDir(n)
  <2>1. /\ n = [access |-> obj[h].access, kids |-> K] /\ obj[h].access \in Rights
    BY <1>3, <1>13 DEF DirSet
  <2>2. n \in DirSet
    BY <1>12, <2>1 DEF DirSet
  <2> QED
    BY <2>1, <2>2, MetaStoreAssumption DEF IsDir
<1>15. RightDir(n, h[2], users', DbFaults)
  <2>1. RightDir(obj[h], p, users', DbFaults)
    BY <1>3, <1>9, RightStays
  <2> QED
    BY <1>3, <1>12, <1>14, <2>1 DEF RightDir
<1>16. Spread(h, n, failed)
  <2>1. ASSUME NEW c \in Chains
        PROVE  obj'[c] = IF c = h THEN [obj[c] EXCEPT !.kids = K]
                         ELSE IF c[1] = h[1] /\ c[2] \in SubDirs(p)
                              THEN SubDir(failed, c[2]) ELSE obj[c]
    BY <1>5, <1>11
  <2> QED
    BY <1>3, <1>13, <2>1 DEF Spread, Below
<1>17. obj'[h] = n
  BY <1>16 DEF Spread
<1>18. ASSUME NEW c \in Chains, Below(h, c)
       PROVE  /\ obj'[c] \in {Nil} \cup DirSet /\ obj'[c] # None
              /\ failed = {} => obj'[c] # Nil
  <2>1. obj'[c] = SubDir(failed, c[2]) /\ c[2] \in Dirs /\ c[2] \in SubDirs(p)
    BY <1>3, <1>16, <1>18, BelowIs DEF Spread, Below
  <2>2. CASE c[2] \in failed
    BY <2>1, <2>2, MetaStoreAssumption DEF SubDir
  <2>3. CASE c[2] \notin failed
    <3>1. obj'[c] = NewDir(c[2]) /\ Access(c[2], users') \in Rights
      BY <1>4, <1>9, <2>1, <2>3 DEF SubDir
    <3>2. NewDir(c[2]) \in DirSet
      BY <2>1, <3>1, NewDirIs
    <3> QED
      BY <3>1, <3>2, MetaStoreAssumption
  <2> QED
    BY <2>2, <2>3
<1>19. ASSUME NEW c \in Chains, c # h, ~Below(h, c)
       PROVE  obj'[c] = obj[c]
  BY <1>16, <1>19 DEF Spread
<1>20. TypeOK'
  <2>1. obj' \in [Chains -> {None, Nil} \cup DirSet]
    <3>1. ASSUME NEW c \in Chains PROVE obj'[c] \in {None, Nil} \cup DirSet
      BY <1>14, <1>17, <1>18, <1>19 DEF IInv, TypeOK
    <3>2. obj' = [c \in Chains |-> obj'[c]]
      BY <1>5
    <3> QED
      BY <3>1, <3>2
  <2>2. ASSUME NEW q \in Dirs PROVE q \in ToSet(cache) <=> obj'[<<q, q>>] # None
    <3>1. PICK c \in Chains : c = <<q, q>>
      BY SelfChain
    <3>2. ~Below(h, c)
      BY <3>1, BelowIs
    <3>3. obj'[c] # None <=> obj[c] # None
      BY <1>3, <1>14, <1>17, <1>19, <3>2 DEF IsDir
    <3> QED
      BY <3>1, <3>3 DEF IInv, TypeOK
  <2>3. ASSUME NEW u \in Threads, pc[u] = "have"
        PROVE  held[u][2] = at[u] /\ obj'[held[u]] \notin {None, Nil}
    <3>1. PICK c \in Chains : c = held[u]
      BY <2>3, HeldIs
    <3>2. c[2] = at[u] /\ IsDir(obj[c]) /\ c[1] \in Dirs \cup {u}
      BY <2>3, <3>1, HeldIs
    <3>3. CASE c = h
      BY <1>14, <1>17, <3>1, <3>2, <3>3 DEF IsDir
    <3>4. CASE c # h
      <4>1. ~Below(h, c)
        <5>1. ASSUME Below(h, c), h[1] \in Dirs PROVE FALSE
          BY <1>3, <3>2, <5>1, NobodyBelow DEF Knows, IsDir, IInv, Dirwise
        <5>2. ASSUME Below(h, c), h[1] = t PROVE FALSE
          <6>1. u = t
            BY <3>2, <5>2, MetaStoreAssumption DEF Below
          <6> QED
            BY <1>1, <3>1, <3>4, <6>1
        <5> QED
          BY <1>3, <5>1, <5>2
      <4> QED
        BY <1>19, <3>1, <3>2, <3>4, <4>1 DEF IsDir
    <3> QED
      BY <3>3, <3>4
  <2>4. clean' \in [Threads -> BOOLEAN]
    BY <1>5 DEF IInv, TypeOK
  <2> QED
    BY <1>6, <1>9, <1>10, <2>1, <2>2, <2>3, <2>4 DEF IInv, TypeOK, Owners
<1>21. Dirwise'
  <2>1. \A q \in SubDirs(h[2]) \ failed : Access(q, users') \in Rights
    BY <1>3, <1>4, <1>9
  <2> QED
    BY <1>3, <1>6, <1>9, <1>12, <1>14, <1>15, <1>16, <2>1, SpreadDirwise
<1>22. Owned'
  <2>1. ASSUME NEW c \in Chains, c[1] \in Threads, obj'[c] # None
        PROVE  held[c[1]] # None /\ held[c[1]][1] = c[1]
    <3>1. CASE c = h \/ Below(h, c)
      <4>1. c[1] = t
        BY <1>3, <2>1, <3>1, MetaStoreAssumption DEF Below
      <4> QED
        BY <1>1, <3>1, <4>1, MetaStoreAssumption DEF Below
    <3>2. CASE c # h /\ ~Below(h, c)
      BY <1>19, <2>1, <3>2 DEF IInv, Owned
    <3> QED
      BY <3>1, <3>2
  <2> QED
    BY <1>6, <2>1 DEF IInv, Owned
<1>23. Faultless'
  <2>1. ASSUME ~DbFaults PROVE \A c \in Chains : obj'[c] # Nil
    BY <1>7, <1>14, <1>17, <1>18, <1>19, <2>1 DEF IInv, Faultless, IsDir
  <2>2. ASSUME ~DbFaults, NEW u \in Threads PROVE pc[u] # "panic" /\ clean'[u]
    BY <1>5, <1>7, <2>2 DEF IInv, Faultless, TypeOK
  <2> QED
    BY <1>6, <2>1, <2>2 DEF Faultless, DbFaults
<1>24. OnTheWay'
  BY <1>6 DEF IInv, OnTheWay
<1>25. Told'
  <2>1. ASSUME NEW u \in Threads PROVE ToldOf(u)'
    <3>1. clean'[u] => clean[u]
      BY <1>5 DEF IInv, TypeOK
    <3> QED
      BY <1>6, <1>9, <3>1, ToldStays DEF IInv, Told
  <2> QED
    BY <2>1 DEF Told
<1> QED
  BY <1>10, <1>20, <1>21, <1>22, <1>23, <1>24, <1>25 DEF IInv

-----------------------------------------------------------------------------
(* The way down, and the answer.                                           *)

LEMMA NilIsAFault ==
  ASSUME IInv, NEW t \in Threads, pc[t] = "have", NEW ps, NilAmong(t, ps)
  PROVE  DbFaults
<1>1. PICK q \in SubDirs(at[t]) : obj[<<held[t][1], q>>] = Nil
  BY DEF NilAmong
<1>2. PICK h \in Chains : h = held[t] /\ h[2] = at[t]
  BY HeldIs DEF IInv, TypeOK
<1>3. <<h[1], q>> \in Chains /\ obj[<<h[1], q>>] = Nil
  BY <1>1, <1>2, ChildChain
<1> QED
  BY <1>3 DEF IInv, Faultless

LEMMA NextIs ==
  ASSUME NEW p \in Seq(Names), NEW q \in Seq(Names), p # q,
         Len(p) <= Len(q), p = SubSeq(q, 1, Len(p))
  PROVE  LET next == SubSeq(q, 1, Len(p) + 1)
         IN  /\ Len(p) < Len(q) /\ q # <<>> /\ next \in Seq(Names)
             /\ Len(next) = Len(p) + 1 /\ next # <<>> /\ Front(next) = p
             /\ next = q \/ Len(next) < Len(q)
<1>1. SubSeq(q, 1, Len(q)) = q
  <2>1. PICK b \in Seq(Names) : b = SubSeq(q, 1, Len(q))
    OBVIOUS
  <2>2. Len(b) = Len(q) /\ \A i \in 1 .. Len(q) : b[i] = q[i]
    BY <2>1
  <2> QED
    BY <2>1, <2>2, SeqEqual
<1>2. Len(p) < Len(q)
  BY <1>1
<1>3. PICK n \in Nat : n = Len(p) + 1
  OBVIOUS
<1>4. n <= Len(q)
  BY <1>2, <1>3
<1>5. PICK next : next = SubSeq(q, 1, n)
  OBVIOUS
<1>6. next \in Seq(Names) /\ Len(next) = n /\ \A i \in 1 .. n : next[i] = q[i]
  BY <1>4, <1>5
<1>7. next # <<>>
  BY <1>3, <1>6
<1>8. Front(next) = p
  <2>1. /\ Front(next) \in Seq(Names) /\ Len(Front(next)) = n - 1
        /\ \A i \in 1 .. n - 1 : Front(next)[i] = next[i]
    BY <1>6, <1>7, FrontIs
  <2>2. \A i \in 1 .. Len(p) : SubSeq(q, 1, Len(p))[i] = q[i]
    BY <1>2
  <2>3. \A i \in 1 .. Len(p) : p[i] = q[i]
    BY <2>2
  <2>4. PICK f \in Seq(Names) : f = Front(next)
    BY <2>1
  <2>5. Len(f) = Len(p) /\ \A i \in 1 .. Len(f) : f[i] = p[i]
    BY <1>3, <1>6, <2>1, <2>3, <2>4
  <2> QED
    BY <2>4, <2>5, SeqEqual
<1>9. next = q \/ n < Len(q)
  <2>1. ASSUME n = Len(q) PROVE next = q
    BY <1>1, <1>5, <2>1, Zenon
  <2> QED
    BY <1>4, <2>1
<1> QED
  BY <1>2, <1>3, <1>5, <1>6, <1>7, <1>8, <1>9

LEMMA FoundDirStep ==
  ASSUME IInv, NEW t \in Threads, FoundDir(t)
  PROVE  IInv'
<1>1. /\ pc[t] = "have" /\ at[t] = goal[t]
      /\ op[t] = "list" => obj[held[t]].kids # Unset
  BY DEF FoundDir, Ready
<1>2. CASE op[t] = "list" /\ NilAmong(t, SubDirs(at[t]))
  BY <1>1, <1>2, NilIsAFault, PanicStep DEF FoundDir
<1>3. CASE ~(op[t] = "list" /\ NilAmong(t, SubDirs(at[t])))
  <2>1. PICK p \in Dirs : p = at[t]
    BY <1>1, HeldIs
  <2>2. PICK o \in DirSet : o = obj[held[t]]
    BY <1>1, HeldIs
  <2>3. o.access \in Rights /\ RightDir(o, p, users, DbFaults)
    BY <1>1, <2>1, <2>2, HeldIs DEF DirSet
  <2>4. op[t] \in {"get", "list"}
    BY DEF IInv, TypeOK
  <2>5. PICK l : l = IF op[t] = "get" THEN {} ELSE SubDirs(p) \cup DOMAIN o.kids
    OBVIOUS
  <2>6. /\ l \subseteq Listed(p) /\ l \subseteq Paths
        /\ op[t] = "list" => l = Listed(p)
    <3>1. Listed(p) = Plain(p) \cup SubDirs(p) /\ Listed(p) \subseteq Paths
      BY ContentsFinite DEF Listed
    <3>2. op[t] = "list" => DOMAIN o.kids = Plain(p)
      BY <1>1, <2>2, <2>3 DEF RightDir
    <3> QED
      BY <2>4, <2>5, <3>1, <3>2
  <2>7. PICK answer : answer = DirInfo(o.access, l)
    OBVIOUS
  <2>8. /\ answer \in Infos /\ answer # None /\ answer # NotFound
        /\ answer.kind = "dir" /\ answer.access = o.access /\ answer.list = l
    <3>1. answer = [kind |-> "dir", access |-> o.access, list |-> l]
      BY <2>7 DEF DirInfo
    <3>2. answer \in Infos
      BY <2>3, <2>6, <3>1 DEF Infos
    <3> QED
      BY <3>1, <3>2, MetaStoreAssumption DEF NotFound
  <2>9. /\ Return(t, answer)
        /\ UNCHANGED <<faults, cache, acl, users, op, goal, clean>>
    BY <1>3, <2>1, <2>2, <2>5, <2>7 DEF FoundDir, call
  <2>10. ret'[t] = answer
    BY <2>9 DEF Return, IInv, TypeOK
  <2>11. ToldOf(t)'
    <3>1. KindOf(p) = "dir"
      BY DirKind
    <3>2. /\ o.access = Access(p, users) /\ goal'[t] = p /\ op'[t] = op[t]
          /\ users' = users
      BY <1>1, <2>1, <2>3, <2>9 DEF RightDir
    <3> QED
      BY <2>3, <2>6, <2>8, <2>10, <3>1, <3>2 DEF ToldOf
  <2>12. /\ clean' \in [Threads -> BOOLEAN] /\ \A u \in Threads \ {t} : clean'[u] = clean[u]
         /\ DbFaults \/ clean'[t]
    BY <2>9 DEF IInv, TypeOK, Faultless
  <2> QED
    BY <2>8, <2>9, <2>11, <2>12, ReturnStep
<1> QED
  BY <1>2, <1>3

(* The children end before the name, and it is not among them.             *)
LEMMA NotThere ==
  ASSUME NEW p \in Dirs, NEW q \in Seq(Names), p # q,
         Len(p) <= Len(q), p = SubSeq(q, 1, Len(p)),
         NEW next, next = SubSeq(q, 1, Len(p) + 1), next \notin SubDirs(p),
         next = q => q \notin Plain(p)
  PROVE  KindOf(q) \in {"none", "special"}
<1>1. /\ p \in Seq(Names) /\ Len(p) < Len(q) /\ q # <<>> /\ next \in Seq(Names)
      /\ Len(next) = Len(p) + 1 /\ next # <<>> /\ Front(next) = p
      /\ next = q \/ Len(next) < Len(q)
  BY NextIs, PathsAreSeqs
<1>2. ASSUME q \in DOMAIN Kind, Kind[q] # "special" PROVE FALSE
  <2>1. CASE next = q
    <3>1. q \in ToSet(Contents[p])
      BY <1>1, <1>2, <2>1, FlistAssumption
    <3>2. Kind[q] \in {"dir", "file", "link"}
      BY <1>2, FlistAssumption
    <3> QED
      BY <2>1, <3>1, <3>2 DEF SubDirs, Plain
  <2>2. CASE Len(next) < Len(q)
    <3>1. PICK n \in Nat : n = Len(p) + 1
      BY <1>1
    <3>2. n < Len(q) /\ next = SubSeq(q, 1, n)
      BY <1>1, <2>2, <3>1
    <3>3. next \in Dirs
      BY <1>2, <3>2, AboveIsDir
    <3>4. next \in DOMAIN Kind /\ Kind[next] = "dir"
      BY <1>1, <3>3, FlistAssumption
    <3>5. next \in ToSet(Contents[p])
      BY <1>1, <3>4, FlistAssumption
    <3> QED
      BY <3>4, <3>5 DEF SubDirs
  <2> QED
    BY <1>1, <2>1, <2>2
<1> QED
  BY <1>1, <1>2 DEF KindOf

LEMMA ScanStep ==
  ASSUME IInv, NEW t \in Threads, Scan(t)
  PROVE  IInv'
<1>1. pc[t] = "have" /\ at[t] # goal[t] /\ obj[held[t]].kids # Unset
  BY DEF Scan, Ready, Wanted
<1>2. PICK p \in Dirs : p = at[t]
  BY <1>1, HeldIs
<1>3. PICK h \in Chains : h = held[t] /\ h = <<h[1], p>> /\ h[2] = p /\ h[1] \in Dirs \cup {t}
  BY <1>1, <1>2, HeldIs
<1>4. PICK kids : kids = obj[h].kids
  OBVIOUS
<1>5. /\ Knows(h) /\ kids \in [Plain(p) -> Rights]
      /\ \A f \in Plain(p) :
           kids[f] = Access(f, users) \/ (kids[f] = "default" /\ DbFaults)
  BY <1>1, <1>2, <1>3, <1>4, HeldIs DEF RightDir, Knows
<1>6. PICK q \in Seq(Names) : q = goal[t]
  BY DEF IInv, TypeOK
<1>7. PICK next : next = SubSeq(q, 1, Len(p) + 1)
  OBVIOUS
<1>8. p \in Seq(Names) /\ p # q /\ Len(p) <= Len(q) /\ p = SubSeq(q, 1, Len(p))
  BY <1>1, <1>2, <1>6, PathsAreSeqs DEF IInv, OnTheWay
<1>9. /\ Len(p) < Len(q) /\ next \in Seq(Names) /\ Len(next) = Len(p) + 1
      /\ Front(next) = p
  BY <1>7, <1>8, NextIs
<1>10. next = SubSeq(goal[t], 1, Len(at[t]) + 1)
  BY <1>2, <1>6, <1>7
<1>11. PICK tried : tried = UpTo(p, next)
  OBVIOUS
<1>12. /\ NilAmong(t, tried) => Panic(t)
       /\ ~NilAmong(t, tried) =>
            /\ next \in SubDirs(p) =>
                 /\ at' = [at EXCEPT ![t] = next]
                 /\ held' = [held EXCEPT ![t] = <<@[1], next>>]
                 /\ UNCHANGED <<pc, obj, ret>>
            /\ next \notin SubDirs(p) =>
                 Return(t, IF next = q /\ next \in DOMAIN kids
                           THEN FileInfo(next, kids[next]) ELSE NotFound)
            /\ UNCHANGED <<faults, cache, acl, users, op, goal, clean>>
  BY <1>2, <1>3, <1>4, <1>6, <1>10, <1>11 DEF Scan, call
<1>13. CASE NilAmong(t, tried)
  BY <1>1, <1>12, <1>13, NilIsAFault, PanicStep
<1>14. CASE ~NilAmong(t, tried) /\ next \in SubDirs(p)
  <2>1. /\ at' = [at EXCEPT ![t] = next]
        /\ held' = [held EXCEPT ![t] = <<held[t][1], next>>]
        /\ UNCHANGED <<faults, cache, obj, acl, users, pc, op, goal, clean, ret>>
    BY <1>12, <1>14 DEF IInv, TypeOK
  <2>2. PICK c \in Chains : c = <<h[1], next>> /\ c[1] = h[1] /\ c[2] = next
    BY <1>3, <1>14, ChildChain
  <2>3. obj[c] # None
    BY <1>3, <1>5, <1>14, <2>2 DEF IInv, Dirwise, Grown
  <2>4. obj[c] # Nil
    <3>1. next \in tried
      BY <1>11, <1>14, UpToHas
    <3> QED
      BY <1>2, <1>3, <1>14, <2>2, <3>1 DEF NilAmong
  <2>5. held' = [held EXCEPT ![t] = c] /\ c # None
    BY <1>3, <2>1, <2>2, MetaStoreAssumption
  <2>6. TypeOK'
    <3>1. ASSUME NEW u \in Threads, pc[u] = "have"
          PROVE  held'[u][2] = at'[u] /\ obj[held'[u]] \notin {None, Nil}
      <4>1. CASE u = t
        BY <2>1, <2>2, <2>3, <2>4, <2>5, <4>1 DEF IInv, TypeOK
      <4>2. CASE u # t
        BY <2>1, <3>1, <4>2 DEF IInv, TypeOK
      <4> QED
        BY <4>1, <4>2
    <3>2. held' \in [Threads -> {None} \cup Chains]
      BY <2>5 DEF IInv, TypeOK
    <3>3. at' \in [Threads -> Seq(Names)]
      <4>1. at \in [Threads -> Seq(Names)] /\ at' = [at EXCEPT ![t] = next]
        BY <2>1 DEF IInv, TypeOK
      <4> QED
        BY <1>9, <4>1
    <3> QED
      BY <2>1, <3>1, <3>2, <3>3 DEF IInv, TypeOK
  <2>7. IsFiniteSet(acl') /\ Dirwise'
    BY <2>1, DirwiseKept DEF IInv
  <2>8. Owned'
    <3>1. held'[t] = c /\ \A u \in Threads \ {t} : held'[u] = held[u]
      BY <2>5 DEF IInv, TypeOK
    <3>2. held[t] # None /\ held[t][1] = c[1]
      BY <1>3, <2>2, MetaStoreAssumption
    <3> QED
      BY <1>1, <1>3, <2>1, <2>2, <2>5, <3>1, <3>2 DEF IInv, Owned
  <2>9. Faultless'
    BY <2>1 DEF IInv, Faultless, DbFaults
  <2>10. OnTheWay'
    <3>1. Len(next) <= Len(q) /\ next = SubSeq(q, 1, Len(next))
      BY <1>7, <1>8, <1>9
    <3>2. at'[t] = next /\ goal'[t] = q
      BY <1>6, <2>1 DEF IInv, TypeOK
    <3> QED
      BY <2>1, <3>1, <3>2 DEF IInv, OnTheWay, TypeOK
  <2>11. Told'
    BY <2>1, ToldKept DEF IInv
  <2> QED
    BY <2>6, <2>7, <2>8, <2>9, <2>10, <2>11 DEF IInv
<1>15. CASE ~NilAmong(t, tried) /\ next \notin SubDirs(p)
  <2>1. PICK answer : answer = IF next = q /\ next \in DOMAIN kids
                               THEN FileInfo(next, kids[next]) ELSE NotFound
    OBVIOUS
  <2>2. /\ Return(t, answer)
        /\ UNCHANGED <<faults, cache, acl, users, op, goal, clean>>
    BY <1>12, <1>15, <2>1
  <2>3. ret'[t] = answer /\ goal'[t] = q /\ users' = users
    BY <1>6, <2>2 DEF Return, IInv, TypeOK
  <2>4. /\ clean' \in [Threads -> BOOLEAN] /\ \A u \in Threads \ {t} : clean'[u] = clean[u]
        /\ DbFaults \/ clean'[t]
    BY <2>2 DEF IInv, TypeOK, Faultless
  <2>5. CASE next = q /\ next \in DOMAIN kids
    <3>1. /\ q \in Plain(p) /\ kids[q] \in Rights /\ q \notin Dirs
          /\ KindOf(q) \in {"file", "link"}
      BY <1>5, <2>5, PlainIs
    <3>2. answer = [kind |-> KindOf(q), access |-> kids[q], list |-> {}]
      BY <2>1, <2>5 DEF FileInfo
    <3>3. answer \in Infos /\ answer # None /\ answer # NotFound
      <4>1. answer \in Infos
        BY <3>1, <3>2 DEF Infos
      <4> QED
        BY <3>1, <3>2, <4>1, MetaStoreAssumption DEF NotFound
    <3>4. Listed(q) = {}
      BY <3>1 DEF Listed
    <3>5. kids[q] = Access(q, users) \/ (kids[q] = "default" /\ DbFaults)
      BY <1>5, <3>1
    <3>6. DbFaults' = DbFaults
      BY <2>2 DEF DbFaults
    <3>7. /\ answer.kind = KindOf(q) /\ answer.access = kids[q] /\ answer.list = {}
          /\ KindOf(q) # "none"
      BY <3>1, <3>2
    <3>8. ToldOf(t)'
      BY <2>3, <3>1, <3>3, <3>4, <3>5, <3>6, <3>7 DEF ToldOf
    <3> QED
      BY <2>2, <2>4, <3>3, <3>8, ReturnStep
  <2>6. CASE ~(next = q /\ next \in DOMAIN kids)
    <3>1. answer = NotFound
      BY <2>1, <2>6
    <3>2. KindOf(q) \in {"none", "special"}
      <4>1. next = q => q \notin Plain(p)
        BY <1>5, <2>6
      <4> QED
        BY <1>7, <1>8, <1>15, <4>1, NotThere
    <3>3. ToldOf(t)'
      BY <2>3, <3>1, <3>2 DEF ToldOf
    <3> QED
      BY <2>2, <2>4, <3>1, <3>3, NotFoundIsInfo, ReturnStep
  <2> QED
    BY <2>5, <2>6
<1> QED
  BY <1>13, <1>14, <1>15

-----------------------------------------------------------------------------
(* The invariant holds in every state.                                     *)

LEMMA NextIInv == IInv /\ [Next]_vars => IInv'
<1> SUFFICES ASSUME IInv, [Next]_vars PROVE IInv'
  OBVIOUS
<1>1. ASSUME NEW t \in Threads, Step(t) PROVE IInv'
  BY <1>1, MissStep, HitStep, GetDirStep, NoDirStep, GetChildrenStep, ScanStep,
     FoundDirStep DEF Step
<1>2. ASSUME NEW t \in Threads, NEW o \in {"get", "list"}, NEW p \in Asked, Call(t, o, p)
      PROVE  IInv'
  BY <1>2, CallStep
<1>3. CASE UNCHANGED vars
  <2>1. UNCHANGED <<faults, cache, obj, acl, users, pc, op, goal, at, held, clean, ret>>
    BY <1>3 DEF vars, mem, call
  <2>2. Dirwise' /\ Told'
    BY <2>1, DirwiseKept, ToldKept DEF IInv
  <2>3. TypeOK'
    BY <2>1 DEF IInv, TypeOK
  <2>4. IsFiniteSet(acl') /\ Owned' /\ Faultless' /\ OnTheWay'
    BY <2>1 DEF IInv, Owned, Faultless, OnTheWay, DbFaults
  <2> QED
    BY <2>2, <2>3, <2>4 DEF IInv
<1> QED
  BY <1>1, <1>2, <1>3 DEF Next

(* Whatever threads look up at once, with any of the queries failing: the  *)
(* inductive invariant from which the rest follows (sqlStore.get, getDir,  *)
(* getChildren, OpenDir and the caches of meta/store.go).                  *)
THEOREM Invariant == Spec => []IInv
<1>1. Init => IInv
  BY InitIInv
<1>2. IInv /\ [Next]_vars => IInv'
  BY NextIInv
<1> QED
  BY <1>1, <1>2, PTL DEF Spec

(* The caches are no larger than the store makes them, the LRU list and    *)
(* the cached Dirs agree, and a thread that goes down has a Dir that is    *)
(* there, although other threads evict it or read it anew (sqlStore.get).  *)
THEOREM TypeCorrect == Spec => []TypeOK
<1>1. IInv => TypeOK
  BY DEF IInv
<1> QED
  BY <1>1, Invariant, PTL

(* A lookup never tells something else than what the flist has under the   *)
(* path, nor the rights of another inode; and without failures nothing     *)
(* panics on a nil Dir or is lost (sqlStore.get, getChildren, OpenDir).    *)
THEOREM NothingElseIsShown == Spec => []NothingElse
<1>1. IInv => NothingElse
  <2> SUFFICES ASSUME IInv PROVE NothingElse
    OBVIOUS
  <2>1. ASSUME NEW t \in Threads, Answered(t), ret[t] # NotFound
        PROVE  /\ ret[t].kind = KindOf(goal[t])
               /\ ret[t].list \subseteq Listed(goal[t])
               /\ \/ ret[t].access = Access(goal[t], users)
                  \/ ret[t].access = "default" /\ DbFaults /\ goal[t] \notin Dirs
    BY <2>1 DEF IInv, Told, ToldOf, Answered
  <2> QED
    BY <2>1 DEF NothingElse, IInv, Faultless
<1> QED
  BY <1>1, Invariant, PTL

(* A query that failed is not taken for an absence by later lookups: a     *)
(* Dir that was read without failures answers for all that the flist has   *)
(* below it, however often others were left incomplete (sqlStore.get,      *)
(* getChildren, OpenDir).                                                  *)
THEOREM FailuresAreForgotten == Spec => []FailuresForgotten
<1>1. IInv => FailuresForgotten
  <2> SUFFICES ASSUME IInv, NEW t \in Threads, Answered(t), clean[t]
               PROVE  /\ ret[t] = NotFound <=> KindOf(goal[t]) \in {"none", "special"}
                      /\ op[t] = "list" => ret[t].list = Listed(goal[t])
    BY DEF FailuresForgotten
  <2>1. ToldOf(t) /\ ret[t] # None
    BY DEF IInv, Told, Answered
  <2>2. CASE ret[t] = NotFound
    <3>1. KindOf(goal[t]) \in {"none", "special"}
      BY <2>1, <2>2 DEF ToldOf
    <3>2. goal[t] \notin Dirs
      BY <3>1, DirKind
    <3> QED
      BY <2>2, <3>1, <3>2 DEF NotFound, Listed
  <2>3. CASE ret[t] # NotFound
    <3>1. /\ ret[t].kind = KindOf(goal[t]) /\ KindOf(goal[t]) # "none"
          /\ op[t] = "list" => ret[t].list = Listed(goal[t])
      BY <2>1, <2>3 DEF ToldOf
    <3>2. ret[t].kind # "special"
      BY <2>1 DEF IInv, TypeOK, Infos
    <3> QED
      BY <2>3, <3>1, <3>2
  <2> QED
    BY <2>2, <2>3
<1> QED
  BY <1>1, Invariant, PTL

(* The name of an owner that has to be looked for is resolved once, and    *)
(* all the Dirs and their children that are owned by it show the same      *)
(* owner (lookUpUser, lookUpGroup).                                        *)
THEOREM OneOwnerEach == Spec => []OneOwner
<1>1. IInv => OneOwner
  <2> SUFFICES ASSUME IInv, NEW c \in Chains, IsDir(obj[c])
               PROVE  /\ obj[c].access \in {"default", "id", users}
                      /\ obj[c].kids # Unset => Range(obj[c].kids) \subseteq {"default", "id", users}
    BY DEF OneOwner, IsDir
  <2>1. RightDir(obj[c], c[2], users, DbFaults)
    BY DEF IInv, Dirwise, Truthful
  <2>2. \A p : Access(p, users) \in {"default", "id", users}
    <3> SUFFICES ASSUME NEW p PROVE Access(p, users) \in {"default", "id", users}
      OBVIOUS
    <3>1. CASE Aci[Acl[p]] = "norow"
      BY <3>1 DEF Access
    <3>2. CASE Aci[Acl[p]] = "id"
      BY <3>2 DEF Access
    <3>3. CASE Aci[Acl[p]] \notin {"norow", "id"}
      BY <3>3 DEF Access
    <3> QED
      BY <3>1, <3>2, <3>3
  <2>3. ASSUME obj[c].kids # Unset
        PROVE  Range(obj[c].kids) \subseteq {"default", "id", users}
    <3>1. PICK k : k = obj[c].kids
      OBVIOUS
    <3>2. DOMAIN k = Plain(c[2]) /\ \A f \in Plain(c[2]) : k[f] \in {"default", "id", users}
      BY <2>1, <2>2, <2>3, <3>1 DEF RightDir
    <3> QED
      BY <3>1, <3>2 DEF Range
  <2> QED
    BY <2>1, <2>2, <2>3 DEF RightDir
<1> QED
  BY <1>1, Invariant, PTL

-----------------------------------------------------------------------------
(* The order of the paths: Walk on every tree.                             *)

LEMMA Upwards ==
  ASSUME NEW n \in Nat, NEW T, 0 \in T, \A i \in 1 .. n : i - 1 \in T => i \in T
  PROVE  \A i \in 0 .. n : i \in T
<1> DEFINE R == {i \in 0 .. n : i \notin T}
<1>1. CASE R = {}
  BY <1>1
<1>2. CASE R # {}
  <2>1. R \subseteq Nat
    OBVIOUS
  <2>2. PICK m \in R : \A i \in R : m <= i
    <3> HIDE DEF R
    <3> QED
      BY <1>2, <2>1, LeastNat
  <2>3. m # 0 /\ m \in 1 .. n /\ m - 1 \in 0 .. n /\ ~(m <= m - 1)
    BY <2>2
  <2> QED
    BY <2>2, <2>3
<1> QED
  BY <1>1, <1>2

Above(q, n) == SubSeq(q, 1, n)

LEMMA AboveIs ==
  ASSUME NEW q \in Seq(Names), NEW n \in 0 .. Len(q)
  PROVE  /\ Above(q, n) \in Seq(Names) /\ Len(Above(q, n)) = n
         /\ \A i \in 1 .. n : Above(q, n)[i] = q[i]
<1>1. Len(q) \in Nat /\ n \in Nat /\ n <= Len(q)
  OBVIOUS
<1> QED
  BY <1>1 DEF Above

(* What is on the way to a path is listed by what is above it.             *)
LEMMA OnePath ==
  ASSUME NEW q \in Paths, NEW n \in 1 .. Len(q)
  PROVE  /\ q \in DOMAIN Kind /\ q \in Seq(Names) /\ Len(q) \in Nat
         /\ Above(q, n) \in DOMAIN Kind
         /\ Front(Above(q, n)) = Above(q, n - 1) /\ Above(q, n - 1) \in Dirs
         /\ n < Len(q) => Above(q, n) \in Dirs
<1>1. q \in Seq(Names) /\ Len(q) \in Nat /\ n \in Nat
  BY PathsAreSeqs
<1>2. q \in DOMAIN Kind /\ n - 1 \in Nat /\ n - 1 < Len(q)
  BY <1>1 DEF Paths
<1>3. n < Len(q) => Above(q, n) \in Dirs
  BY <1>1, <1>2, AboveIsDir DEF Above
<1>4. Above(q, n - 1) \in Dirs
  <2>1. SubSeq(q, 1, n - 1) \in Dirs
    BY <1>2, AboveIsDir
  <2> QED
    BY <2>1 DEF Above
<1>5. /\ Above(q, n) \in Seq(Names) /\ Len(Above(q, n)) = n
      /\ \A i \in 1 .. n : Above(q, n)[i] = q[i]
  <2>1. n \in 0 .. Len(q)
    BY <1>1
  <2> QED
    BY <1>1, <2>1, AboveIs
<1>6. Above(q, n) \in DOMAIN Kind
  <2>1. CASE n = Len(q)
    <3>1. Above(q, n) = q
      BY <1>1, <1>5, <2>1, SeqEqual
    <3> QED
      BY <1>2, <3>1
  <2>2. CASE n < Len(q)
    <3>1. Above(q, n) # <<>>
      BY <1>5
    <3> QED
      BY <1>3, <2>2, <3>1, FlistAssumption
  <2> QED
    BY <1>1, <2>1, <2>2
<1>7. Front(Above(q, n)) = Above(q, n - 1)
  <2>1. PICK a \in Seq(Names) : a = Above(q, n) /\ Len(a) = n /\ a # <<>>
    BY <1>5
  <2>2. /\ Front(a) \in Seq(Names) /\ Len(Front(a)) = n - 1
        /\ \A i \in 1 .. n - 1 : Front(a)[i] = a[i]
    BY <2>1, FrontIs
  <2>3. /\ Above(q, n - 1) \in Seq(Names) /\ Len(Above(q, n - 1)) = n - 1
        /\ \A i \in 1 .. n - 1 : Above(q, n - 1)[i] = q[i]
    <3>1. PICK k \in 0 .. Len(q) : k = n - 1
      BY <1>1, <1>2
    <3> QED
      BY <1>1, <3>1, AboveIs
  <2>4. \A i \in 1 .. n - 1 : Front(a)[i] = Above(q, n - 1)[i]
    BY <1>5, <2>1, <2>2, <2>3
  <2> QED
    BY <2>1, <2>2, <2>3, <2>4, SeqEqual
<1> QED
  BY <1>1, <1>2, <1>3, <1>4, <1>6, <1>7

Kid(p, i) == Contents[p][i]

LEMMA KidIs ==
  ASSUME NEW p \in Dirs, NEW i \in 1 .. Len(Contents[p])
  PROVE  /\ Kid(p, i) \in DOMAIN Kind /\ Kid(p, i) \in Paths /\ Front(Kid(p, i)) = p
         /\ Place(Kid(p, i)) = i /\ Kid(p, i) \in Seq(Names)
         /\ Len(Kid(p, i)) = Len(p) + 1 /\ Len(p) \in Nat
         /\ \A k \in 1 .. Len(p) : Kid(p, i)[k] = p[k]
<1>1. PICK c : c = Kid(p, i)
  OBVIOUS
<1>2. PICK all \in Seq(DOMAIN Kind) : all = Contents[p]
  BY FlistAssumption
<1>3. c \in DOMAIN Kind /\ c \in ToSet(all) /\ c = all[i]
  BY <1>1, <1>2 DEF Kid, ToSet
<1>4. Front(c) = p
  BY <1>2, <1>3, FlistAssumption
<1>5. c \in Paths /\ c # <<>> /\ c \in Seq(Names)
  BY <1>3, FlistAssumption DEF Paths
<1>6. Place(c) = i
  <2>1. \A j \in DOMAIN all : all[j] = c => j = i
    BY <1>2, <1>3, TreeAssumption
  <2>2. Place(c) = CHOOSE j \in DOMAIN all : all[j] = c
    BY <1>2, <1>4 DEF Place
  <2>3. i \in DOMAIN all /\ all[i] = c
    BY <1>2, <1>3
  <2> QED
    BY <2>1, <2>2, <2>3
<1>7. p \in Seq(Names) /\ Len(p) \in Nat
  BY PathsAreSeqs
<1>8. Len(c) = Len(p) + 1 /\ \A k \in 1 .. Len(p) : c[k] = p[k]
  <2>1. /\ Len(c) \in Nat /\ Len(Front(c)) = Len(c) - 1
        /\ \A k \in 1 .. Len(c) - 1 : Front(c)[k] = c[k]
    BY <1>5, FrontIs
  <2> QED
    BY <1>4, <1>7, <2>1
<1> QED
  BY <1>1, <1>3, <1>4, <1>5, <1>6, <1>7, <1>8

(* The place of a path is one of the places in its directory.              *)
LEMMA PlaceIs ==
  ASSUME NEW q \in Paths, NEW n \in 1 .. Len(q)
  PROVE  /\ Places(q)[n] \in 1 .. Len(Contents[Above(q, n - 1)])
         /\ Above(q, n) = Kid(Above(q, n - 1), Places(q)[n])
<1>1. PICK c : c = Above(q, n)
  OBVIOUS
<1>2. PICK p \in Dirs : p = Above(q, n - 1) /\ Front(c) = p /\ c \in DOMAIN Kind
  BY <1>1, OnePath
<1>3. PICK all \in Seq(DOMAIN Kind) : all = Contents[p]
  BY FlistAssumption
<1>4. c \in ToSet(all)
  BY <1>2, <1>3, FlistAssumption
<1>5. PICK i \in 1 .. Len(all) : all[i] = c
  BY <1>3, <1>4 DEF ToSet
<1>6. Place(c) = i
  BY <1>3, <1>5, KidIs DEF Kid
<1>7. q \in Seq(Names)
  BY OnePath
<1>8. Places(q)[n] = Place(c)
  BY <1>1, <1>7 DEF Places, Above
<1> QED
  BY <1>1, <1>2, <1>3, <1>5, <1>6, <1>8 DEF Kid

(* q is in the subtree of p.                                               *)
Under(p, q) ==
  Len(p) <= Len(q) /\ \A k \in 1 .. Len(p) : p[k] = q[k]

LEMMA UnderIs ==
  ASSUME NEW p \in Paths, NEW q \in Paths
  PROVE  /\ IsPrefix(p, q) <=> Under(p, q)
         /\ Under(p, q) => Above(q, Len(p)) = p /\ (Len(p) = Len(q) => p = q)
         /\ p \in Seq(Names) /\ q \in Seq(Names) /\ Len(p) \in Nat /\ Len(q) \in Nat
<1>1. p \in Seq(Names) /\ q \in Seq(Names) /\ Len(p) \in Nat /\ Len(q) \in Nat
  BY PathsAreSeqs
<1>2. IsPrefix(p, q) <=> Under(p, q)
  BY <1>1, PrefixIs DEF Under
<1>3. ASSUME Under(p, q) PROVE Above(q, Len(p)) = p
  <2>1. Len(p) \in 0 .. Len(q)
    BY <1>1, <1>3 DEF Under
  <2>2. /\ Above(q, Len(p)) \in Seq(Names) /\ Len(Above(q, Len(p))) = Len(p)
        /\ \A k \in 1 .. Len(p) : Above(q, Len(p))[k] = q[k]
    BY <1>1, <2>1, AboveIs
  <2>3. \A k \in 1 .. Len(p) : Above(q, Len(p))[k] = p[k]
    BY <1>3, <2>2 DEF Under
  <2> QED
    BY <1>1, <2>2, <2>3, SeqEqual
<1>4. ASSUME Under(p, q), Len(p) = Len(q) PROVE p = q
  BY <1>1, <1>4, SeqEqual DEF Under
<1> QED
  BY <1>1, <1>2, <1>3, <1>4

(* A path is above itself and what is above what is above.                 *)
LEMMA UnderTrans ==
  ASSUME NEW p \in Paths, NEW q \in Paths, NEW r \in Paths, Under(p, q), Under(q, r)
  PROVE  Under(p, r)
BY UnderIs DEF Under

(* Only directories have something under them.                             *)
LEMMA Leaf ==
  ASSUME NEW p \in Paths, p \notin Dirs, NEW q \in Paths, Under(p, q)
  PROVE  q = p
<1>1. /\ Len(p) \in Nat /\ Len(q) \in Nat /\ Above(q, Len(p)) = p
      /\ (Len(p) = Len(q) => p = q)
  BY UnderIs
<1>2. Len(p) <= Len(q)
  BY DEF Under
<1>3. ASSUME Len(p) < Len(q) PROVE FALSE
  <2>1. Len(p) + 1 \in 1 .. Len(q) /\ (Len(p) + 1) - 1 = Len(p)
    BY <1>1, <1>3
  <2>2. Above(q, Len(p)) \in Dirs
    BY <2>1, OnePath
  <2> QED
    BY <1>1, <2>2
<1> QED
  BY <1>1, <1>2, <1>3

(* q is under the i-th inode of the directory p.                           *)
In(p, i, q) == q \in Paths /\ Under(Kid(p, i), q)

LEMMA InIs ==
  ASSUME NEW p \in Dirs, NEW i \in 1 .. Len(Contents[p]), NEW q, In(p, i, q)
  PROVE  /\ q \in Paths /\ q # p /\ Under(p, q) /\ Len(p) \in Nat
         /\ Len(q) \in Nat /\ Len(p) < Len(q)
         /\ Above(q, Len(p)) = p /\ Above(q, Len(p) + 1) = Kid(p, i)
         /\ Places(q)[Len(p) + 1] = i
<1>1. PICK c \in Paths : c = Kid(p, i)
  BY KidIs
<1>2. /\ Len(c) = Len(p) + 1 /\ Len(p) \in Nat /\ Place(c) = i /\ p \in Paths
      /\ \A k \in 1 .. Len(p) : c[k] = p[k]
  BY <1>1, KidIs, PathsAreSeqs
<1>3. q \in Paths /\ Under(c, q)
  BY <1>1 DEF In
<1>4. Len(q) \in Nat /\ Above(q, Len(c)) = c
  BY <1>3, UnderIs
<1>5. Len(p) < Len(q) /\ Under(p, q)
  BY <1>2, <1>3, <1>4 DEF Under
<1>6. Above(q, Len(p)) = p
  BY <1>2, <1>3, <1>5, UnderIs
<1>7. Places(q)[Len(p) + 1] = i
  <2>1. q \in Seq(Names) /\ Len(p) + 1 \in DOMAIN q
    BY <1>2, <1>3, <1>4, <1>5, UnderIs
  <2> QED
    BY <1>2, <1>4, <2>1 DEF Places, Above
<1> QED
  BY <1>1, <1>2, <1>3, <1>4, <1>5, <1>6, <1>7

(* Everything under a directory is the directory or under an inode of it.  *)
LEMMA Branches ==
  ASSUME NEW p \in Dirs, NEW q \in Paths, Under(p, q), q # p
  PROVE  \E i \in 1 .. Len(Contents[p]) : In(p, i, q)
<1>1. /\ p \in Paths /\ Len(p) \in Nat /\ Len(q) \in Nat /\ Above(q, Len(p)) = p
      /\ Len(p) # Len(q) /\ Len(p) <= Len(q) /\ q \in Seq(Names)
  BY UnderIs, PathsAreSeqs DEF Under
<1>2. PICK n \in 1 .. Len(q) : n = Len(p) + 1 /\ n - 1 = Len(p)
  BY <1>1
<1>3. /\ Places(q)[n] \in 1 .. Len(Contents[p])
      /\ Above(q, n) = Kid(p, Places(q)[n])
  BY <1>1, <1>2, PlaceIs
<1>4. PICK i \in 1 .. Len(Contents[p]) : Kid(p, i) = Above(q, n)
  BY <1>3
<1>5. Len(Above(q, n)) = n /\ \A k \in 1 .. n : Above(q, n)[k] = q[k]
  <2>1. n \in 0 .. Len(q)
    BY <1>1
  <2> QED
    BY <1>1, <2>1, AboveIs
<1>6. Under(Kid(p, i), q)
  BY <1>1, <1>4, <1>5 DEF Under
<1> QED
  BY <1>6 DEF In

(* Two branches have nothing in common.                                    *)
LEMMA Disjoint ==
  ASSUME NEW p \in Dirs, NEW i \in 1 .. Len(Contents[p]), NEW j \in 1 .. Len(Contents[p]),
         NEW q, In(p, i, q), In(p, j, q)
  PROVE  i = j
BY InIs

(* The paths above a fork have the same places.                            *)
LEMMA SamePlaces ==
  ASSUME NEW p \in Paths, NEW q \in Paths, Under(p, q), NEW m \in 1 .. Len(p)
  PROVE  Places(q)[m] = Places(p)[m]
<1>1. /\ p \in Seq(Names) /\ q \in Seq(Names) /\ Len(p) \in Nat /\ Len(q) \in Nat
      /\ Len(p) <= Len(q) /\ \A k \in 1 .. Len(p) : p[k] = q[k]
  BY UnderIs DEF Under
<1>2. m \in 0 .. Len(p) /\ m \in 0 .. Len(q) /\ m \in DOMAIN p /\ m \in DOMAIN q
  BY <1>1
<1>3. /\ Above(p, m) \in Seq(Names) /\ Len(Above(p, m)) = m
      /\ \A k \in 1 .. m : Above(p, m)[k] = p[k]
  BY <1>1, <1>2, AboveIs
<1>4. /\ Above(q, m) \in Seq(Names) /\ Len(Above(q, m)) = m
      /\ \A k \in 1 .. m : Above(q, m)[k] = q[k]
  BY <1>1, <1>2, AboveIs
<1>5. \A k \in 1 .. m : k \in 1 .. Len(p)
  BY <1>1
<1>6. Above(p, m) = Above(q, m)
  BY <1>1, <1>3, <1>4, <1>5, SeqEqual
<1> QED
  BY <1>2, <1>6 DEF Places, Above

(* Before, in terms of places.                                             *)
Forks(p, q, m) ==
  /\ m \in 1 .. Len(p) /\ m \in 1 .. Len(q)
  /\ \A j \in 1 .. m - 1 : p[j] = q[j]
  /\ Places(p)[m] < Places(q)[m]

LEMMA BeforeIs ==
  ASSUME NEW p \in Paths, NEW q \in Paths
  PROVE  Before(p, q) <=> (Under(p, q) /\ p # q) \/ \E m : Forks(p, q, m)
<1>1. p \in Seq(Names) /\ q \in Seq(Names) /\ (IsPrefix(p, q) <=> Under(p, q))
  BY UnderIs
<1>2. DOMAIN p = 1 .. Len(p) /\ DOMAIN q = 1 .. Len(q)
  BY <1>1
<1>3. \A m : m \in DOMAIN p \cap DOMAIN q <=> m \in 1 .. Len(p) /\ m \in 1 .. Len(q)
  BY <1>2
<1> QED
  BY <1>1, <1>3 DEF Before, IsStrictPrefix, Forks

LEMMA NotItself ==
  ASSUME NEW q \in Paths
  PROVE  ~Before(q, q)
<1>1. ASSUME NEW m, Forks(q, q, m) PROVE FALSE
  <2>1. Places(q)[m] \in Int
    BY <1>1, PlaceIs DEF Forks
  <2> QED
    BY <1>1, <2>1 DEF Forks
<1> QED
  BY <1>1, BeforeIs

(* A directory comes before what is under it.                              *)
LEMMA TopFirst ==
  ASSUME NEW p \in Paths, NEW q \in Paths, Under(p, q), q # p
  PROVE  Before(p, q) /\ ~Before(q, p)
<1>1. Before(p, q)
  BY BeforeIs
<1>2. ~Under(q, p)
  <2>1. Len(p) \in Nat /\ Len(q) \in Nat /\ Len(p) <= Len(q) /\ Len(p) # Len(q)
    BY UnderIs DEF Under
  <2> QED
    BY <2>1 DEF Under
<1>3. ASSUME NEW m, Forks(q, p, m) PROVE FALSE
  <2>1. m \in 1 .. Len(p) /\ Places(q)[m] < Places(p)[m]
    BY <1>3 DEF Forks
  <2>2. Places(q)[m] = Places(p)[m]
    BY <2>1, SamePlaces
  <2>3. Places(p)[m] \in Int
    BY <2>1, PlaceIs
  <2> QED
    BY <2>1, <2>2, <2>3
<1> QED
  BY <1>1, <1>2, <1>3, BeforeIs

(* What is under an inode comes before what is under a later one.          *)
LEMMA InOrder ==
  ASSUME NEW p \in Dirs, NEW i \in 1 .. Len(Contents[p]), NEW j \in 1 .. Len(Contents[p]),
         i < j, NEW a, NEW b, In(p, i, a), In(p, j, b)
  PROVE  Before(a, b) /\ ~Before(b, a)
<1>1. /\ a \in Paths /\ Under(p, a) /\ Len(a) \in Nat /\ Len(p) < Len(a)
      /\ Above(a, Len(p) + 1) = Kid(p, i) /\ Places(a)[Len(p) + 1] = i
      /\ p \in Paths /\ Len(p) \in Nat
  BY InIs, PathsAreSeqs
<1>2. /\ b \in Paths /\ Under(p, b) /\ Len(b) \in Nat /\ Len(p) < Len(b)
      /\ Above(b, Len(p) + 1) = Kid(p, j) /\ Places(b)[Len(p) + 1] = j
  BY InIs
<1>3. Kid(p, i) # Kid(p, j)
  <2>1. Place(Kid(p, i)) = i /\ Place(Kid(p, j)) = j
    BY KidIs
  <2> QED
    BY <2>1
<1>4. PICK n \in Nat : n = Len(p) + 1 /\ n \in 1 .. Len(a) /\ n \in 1 .. Len(b)
  BY <1>1, <1>2
<1>5. \A k \in 1 .. n - 1 : a[k] = b[k]
  BY <1>1, <1>2, <1>4 DEF Under
<1>6. ~\A k \in 1 .. n : a[k] = b[k]
  <2> SUFFICES ASSUME \A k \in 1 .. n : a[k] = b[k] PROVE FALSE
    OBVIOUS
  <2>1. n \in 0 .. Len(a) /\ n \in 0 .. Len(b) /\ a \in Seq(Names) /\ b \in Seq(Names)
    BY <1>1, <1>2, <1>4, PathsAreSeqs
  <2>2. /\ Above(a, n) \in Seq(Names) /\ Len(Above(a, n)) = n
        /\ \A k \in 1 .. n : Above(a, n)[k] = a[k]
    BY <2>1, AboveIs
  <2>3. /\ Above(b, n) \in Seq(Names) /\ Len(Above(b, n)) = n
        /\ \A k \in 1 .. n : Above(b, n)[k] = b[k]
    BY <2>1, AboveIs
  <2>4. Above(a, n) = Above(b, n)
    BY <2>2, <2>3, SeqEqual
  <2> QED
    BY <1>1, <1>2, <1>3, <1>4, <2>4
<1>7. Before(a, b)
  <2>1. Forks(a, b, n)
    BY <1>1, <1>2, <1>4, <1>5 DEF Forks
  <2> QED
    BY <1>1, <1>2, <2>1, BeforeIs
<1>8. ~Under(b, a)
  BY <1>4, <1>6 DEF Under
<1>9. ASSUME NEW m, Forks(b, a, m) PROVE FALSE
  <2>1. m \in 1 .. Len(a) /\ m \in 1 .. Len(b) /\ Places(b)[m] < Places(a)[m] /\ m \in Nat
    BY <1>9 DEF Forks
  <2>2. CASE m < n
    <3>1. m \in 1 .. Len(p)
      BY <1>4, <2>1, <2>2
    <3>2. Places(a)[m] = Places(b)[m]
      BY <1>1, <1>2, <3>1, SamePlaces
    <3>3. Places(a)[m] \in Int
      BY <1>1, <2>1, PlaceIs
    <3> QED
      BY <2>1, <3>2, <3>3
  <2>3. CASE m = n
    BY <1>1, <1>2, <1>4, <2>1, <2>3
  <2>4. CASE m > n
    <3>1. \A k \in 1 .. n : k \in 1 .. m - 1
      BY <1>4, <2>1, <2>4
    <3> QED
      BY <1>6, <1>9, <3>1 DEF Forks
  <2> QED
    BY <1>4, <2>1, <2>2, <2>3, <2>4
<1> QED
  BY <1>1, <1>2, <1>7, <1>8, <1>9, BeforeIs

-----------------------------------------------------------------------------
(* What a walk is open to.                                                 *)

(* x, for which fn answers ErrSkipDir, hides q from a walk from root.      *)
Hides(root, x, q) ==
  \/ x \in Dirs /\ Under(x, q) /\ x # q
  \/ x \notin Dirs /\ x # root /\ Under(Front(x), q) /\ Front(x) # q /\ Before(x, q)

ShownIn(root) == {q \in Paths : Under(root, q) /\ KindOf(q) # "special"}
OpenIn(root, fn) ==
  {q \in ShownIn(root) : \A x \in ShownIn(root) : fn[x] = "skip" => ~Hides(root, x, q)}

LEMMA OpenIs ==
  ASSUME NEW root \in Paths, NEW fn
  PROVE  Shown(root) = ShownIn(root)
         /\ {q \in Shown(root) : Open(root, fn, q)} = OpenIn(root, fn)
<1>1. Shown(root) = ShownIn(root)
  BY UnderIs DEF Shown, ShownIn
<1>2. ASSUME NEW q \in ShownIn(root), NEW x \in ShownIn(root)
      PROVE  Hides(root, x, q) <=>
               \/ x \in Dirs /\ IsStrictPrefix(x, q)
               \/ x \notin Dirs /\ x # root /\ IsStrictPrefix(Front(x), q) /\ Before(x, q)
  <2>1. q \in Paths /\ x \in Paths
    BY DEF ShownIn
  <2>2. IsStrictPrefix(x, q) <=> Under(x, q) /\ x # q
    BY <2>1, UnderIs DEF IsStrictPrefix
  <2>3. x \notin Dirs => Front(x) \in Paths
    BY <2>1, FlistAssumption, PathsAreSeqs DEF Paths
  <2>4. x \notin Dirs => (IsStrictPrefix(Front(x), q) <=> Under(Front(x), q) /\ Front(x) # q)
    BY <2>1, <2>3, UnderIs DEF IsStrictPrefix
  <2> QED
    BY <2>2, <2>4 DEF Hides
<1>3. \A q \in ShownIn(root) :
        Open(root, fn, q) <=> \A x \in ShownIn(root) : fn[x] = "skip" => ~Hides(root, x, q)
  BY <1>1, <1>2 DEF Open
<1> QED
  BY <1>1, <1>3 DEF OpenIn

(* The i-th inode of p is a file, and fn ends the walk of p there.         *)
Skips(p, fn, i) == Kid(p, i) \notin Dirs /\ KindOf(Kid(p, i)) # "special"
                   /\ fn[Kid(p, i)] = "skip"

LEMMA ShownUnder ==
  ASSUME NEW p \in Dirs, NEW i \in 1 .. Len(Contents[p]), NEW q
  PROVE  q \in ShownIn(Kid(p, i)) <=> In(p, i, q) /\ KindOf(q) # "special"
BY DEF ShownIn, In

LEMMA ShownBranches ==
  ASSUME NEW p \in Dirs, NEW q \in ShownIn(p), q # p
  PROVE  \E i \in 1 .. Len(Contents[p]) : q \in ShownIn(Kid(p, i))
<1>1. q \in Paths /\ Under(p, q) /\ KindOf(q) # "special"
  BY DEF ShownIn
<1>2. PICK i \in 1 .. Len(Contents[p]) : In(p, i, q)
  BY <1>1, Branches
<1> QED
  BY <1>1, <1>2, ShownUnder

(* The directory itself is visited.                                        *)
LEMMA TopIsOpen ==
  ASSUME NEW p \in Paths, KindOf(p) # "special", NEW fn
  PROVE  p \in OpenIn(p, fn)
<1>1. p \in ShownIn(p)
  BY UnderIs DEF ShownIn, Under
<1>2. ASSUME NEW x \in ShownIn(p) PROVE ~Hides(p, x, p)
  <2>1. x \in Paths /\ Under(p, x) /\ Len(p) \in Nat /\ Len(x) \in Nat
    BY UnderIs DEF ShownIn
  <2>2. Under(x, p) => x = p
    BY <2>1, UnderIs DEF Under
  <2>3. x # p => ~Before(x, p)
    BY <2>1, TopFirst
  <2> QED
    BY <2>2, <2>3 DEF Hides
<1> QED
  BY <1>1, <1>2 DEF OpenIn

(* In another branch, only a file of p itself can hide q.                  *)
LEMMA HidesAcross ==
  ASSUME NEW p \in Dirs, NEW i \in 1 .. Len(Contents[p]), NEW j \in 1 .. Len(Contents[p]),
         i # j, NEW x \in ShownIn(Kid(p, i)), NEW q \in ShownIn(Kid(p, j))
  PROVE  Hides(p, x, q) <=> x = Kid(p, i) /\ x \notin Dirs /\ i < j
<1>1. In(p, i, x) /\ In(p, j, q) /\ x \in Paths /\ q \in Paths /\ KindOf(x) # "special"
  BY ShownUnder DEF In
<1>2. Kid(p, i) \in Paths /\ Under(Kid(p, i), x) /\ p \in Paths
  BY <1>1, KidIs, PathsAreSeqs DEF In
<1>3. ~In(p, i, q)
  BY <1>1, Disjoint
<1>4. ASSUME NEW y \in Paths, Under(Kid(p, i), y) PROVE ~Under(y, q)
  <2>1. Under(y, q) => Under(Kid(p, i), q)
    BY <1>1, <1>2, <1>4, UnderTrans
  <2> QED
    BY <1>1, <1>3, <2>1 DEF In
<1>5. ~Under(x, q)
  BY <1>1, <1>2, <1>4
<1>6. x # p /\ Under(p, q) /\ q # p
  BY <1>1, InIs
<1>7. Before(x, q) <=> i < j
  <2>1. i < j => Before(x, q)
    BY <1>1, InOrder
  <2>2. j < i => ~Before(x, q)
    BY <1>1, InOrder
  <2> QED
    BY <2>1, <2>2
<1>8. CASE x = Kid(p, i)
  <2>1. Front(x) = p
    BY <1>8, KidIs
  <2> QED
    BY <1>5, <1>6, <1>7, <1>8, <2>1 DEF Hides
<1>9. CASE x # Kid(p, i)
  <2>1. x \notin Dirs => Front(x) \in Paths /\ Under(Kid(p, i), Front(x))
    <3>1. /\ x \in Seq(Names) /\ Kid(p, i) \in Seq(Names) /\ Len(x) \in Nat
          /\ Len(Kid(p, i)) \in Nat /\ Len(Kid(p, i)) # Len(x)
          /\ Len(Kid(p, i)) <= Len(x) /\ \A k \in 1 .. Len(Kid(p, i)) : Kid(p, i)[k] = x[k]
      BY <1>1, <1>2, <1>9, UnderIs DEF Under
    <3>2. x # <<>>
      BY <3>1
    <3>3. Len(Front(x)) = Len(x) - 1 /\ \A k \in 1 .. Len(x) - 1 : Front(x)[k] = x[k]
      BY <3>1, <3>2, FrontIs
    <3>4. \A k \in 1 .. Len(Kid(p, i)) : k \in 1 .. Len(x) - 1
      BY <3>1
    <3>5. Under(Kid(p, i), Front(x))
      <4>1. Len(Kid(p, i)) <= Len(Front(x))
        BY <3>1, <3>3
      <4>2. \A k \in 1 .. Len(Kid(p, i)) : Kid(p, i)[k] = Front(x)[k]
        BY <3>1, <3>3, <3>4
      <4> QED
        BY <4>1, <4>2 DEF Under
    <3>6. Front(x) \in Dirs
      BY <1>1, <3>2, FlistAssumption DEF Paths
    <3> QED
      BY <3>5, <3>6, PathsAreSeqs
  <2>2. x \notin Dirs => ~Under(Front(x), q)
    BY <1>4, <2>1
  <2> QED
    BY <1>5, <1>9, <2>2 DEF Hides
<1> QED
  BY <1>8, <1>9

(* In one branch, what hides q in the walk of p does so in the branch.     *)
LEMMA HidesInside ==
  ASSUME NEW p \in Dirs, NEW i \in 1 .. Len(Contents[p]),
         NEW x \in ShownIn(Kid(p, i)), NEW q \in ShownIn(Kid(p, i))
  PROVE  Hides(p, x, q) <=> Hides(Kid(p, i), x, q)
<1>1. x \in Paths /\ q \in Paths /\ x # p /\ In(p, i, x) /\ In(p, i, q)
  BY InIs, ShownUnder
<1>2. CASE x = Kid(p, i) /\ x \notin Dirs
  <2>1. q = x
    BY <1>1, <1>2, Leaf DEF In
  <2> QED
    BY <1>1, <1>2, <2>1, NotItself DEF Hides
<1>3. CASE x # Kid(p, i) \/ x \in Dirs
  BY <1>1, <1>3 DEF Hides
<1> QED
  BY <1>2, <1>3

(* A branch is open as it would be alone, unless a file before it ends it. *)
LEMMA OpenBranch ==
  ASSUME NEW p \in Dirs, NEW fn, fn[p] = "go", NEW i \in 1 .. Len(Contents[p])
  PROVE  {q \in OpenIn(p, fn) : In(p, i, q)} =
           IF \E j \in 1 .. i - 1 : Skips(p, fn, j) THEN {} ELSE OpenIn(Kid(p, i), fn)
<1>1. p \in Paths /\ p \in ShownIn(p) /\ \A q : q \in ShownIn(p) => Under(p, q)
  <2>1. p \in Paths /\ KindOf(p) # "special"
    BY PathsAreSeqs, DirKind
  <2> QED
    BY <2>1, UnderIs DEF ShownIn, Under
<1>2. \A q : q \in ShownIn(Kid(p, i)) => q \in ShownIn(p) /\ In(p, i, q)
  BY InIs, ShownUnder DEF ShownIn
<1>3. \A q : q \in ShownIn(p) /\ In(p, i, q) => q \in ShownIn(Kid(p, i))
  BY ShownUnder DEF ShownIn
<1>4. ASSUME NEW q \in ShownIn(Kid(p, i)), NEW j \in 1 .. i - 1, Skips(p, fn, j)
      PROVE  q \notin OpenIn(p, fn)
  <2>1. j \in 1 .. Len(Contents[p]) /\ j # i /\ j < i
    BY FlistAssumption
  <2>2. PICK x : x = Kid(p, j) /\ x \in Paths /\ fn[x] = "skip" /\ x \notin Dirs
               /\ KindOf(x) # "special"
    BY <1>4, <2>1, KidIs DEF Skips
  <2>3. x \in ShownIn(Kid(p, j))
    BY <2>2, UnderIs DEF ShownIn, Under
  <2>4. x \in ShownIn(p)
    <3>1. In(p, j, x)
      BY <2>1, <2>3, ShownUnder
    <3> QED
      BY <2>1, <2>2, <3>1, InIs DEF ShownIn
  <2>5. Hides(p, x, q)
    BY <2>1, <2>2, <2>3, HidesAcross
  <2> QED
    BY <2>2, <2>4, <2>5 DEF OpenIn
<1>5. ASSUME NEW q \in ShownIn(Kid(p, i)), q \notin OpenIn(Kid(p, i), fn)
      PROVE  q \notin OpenIn(p, fn)
  <2>1. PICK x \in ShownIn(Kid(p, i)) : fn[x] = "skip" /\ Hides(Kid(p, i), x, q)
    BY <1>5 DEF OpenIn
  <2>2. x \in ShownIn(p) /\ Hides(p, x, q)
    <3>1. Hides(p, x, q)
      BY <2>1, HidesInside
    <3>2. In(p, i, x) /\ KindOf(x) # "special"
      BY ShownUnder
    <3> QED
      BY <3>1, <3>2, InIs DEF ShownIn
  <2> QED
    BY <2>1, <2>2 DEF OpenIn
<1>6. ASSUME NEW q \in OpenIn(Kid(p, i), fn), \A j \in 1 .. i - 1 : ~Skips(p, fn, j)
      PROVE  q \in OpenIn(p, fn)
  <2>1. q \in ShownIn(Kid(p, i))
    BY DEF OpenIn
  <2>2. q \in ShownIn(p)
    <3>1. In(p, i, q) /\ KindOf(q) # "special"
      BY <2>1, ShownUnder
    <3> QED
      BY <3>1, InIs DEF ShownIn
  <2>3. ASSUME NEW x \in ShownIn(p), fn[x] = "skip" PROVE ~Hides(p, x, q)
    <3>1. x # p
      BY <2>3
    <3>2. PICK j \in 1 .. Len(Contents[p]) : x \in ShownIn(Kid(p, j))
      BY <3>1, ShownBranches
    <3>3. CASE j = i
      BY <2>1, <2>3, <3>2, <3>3, HidesInside DEF OpenIn
    <3>4. CASE j # i
      <4>1. Hides(p, x, q) => x = Kid(p, j) /\ x \notin Dirs /\ j < i
        BY <2>1, <3>2, <3>4, HidesAcross
      <4>2. KindOf(x) # "special"
        BY <3>2 DEF ShownIn
      <4>3. j < i => j \in 1 .. i - 1
        BY <3>2
      <4> QED
        BY <1>6, <2>3, <4>1, <4>2, <4>3 DEF Skips
    <3> QED
      BY <3>3, <3>4
  <2> QED
    BY <2>2, <2>3 DEF OpenIn
<1>7. \A q : q \in OpenIn(p, fn) => q \in ShownIn(p)
  BY DEF OpenIn
<1>8. \A q : q \in OpenIn(Kid(p, i), fn) => q \in ShownIn(Kid(p, i))
  BY DEF OpenIn
<1>9. CASE \E j \in 1 .. i - 1 : Skips(p, fn, j)
  BY <1>3, <1>4, <1>7, <1>9
<1>10. CASE \A j \in 1 .. i - 1 : ~Skips(p, fn, j)
  BY <1>2, <1>3, <1>5, <1>6, <1>7, <1>8, <1>10
<1> QED
  BY <1>9, <1>10

-----------------------------------------------------------------------------
(* What a walk that is right answers.                                      *)

HasStop(O, fn) == \E x \in O : fn[x] = "stop"
Reached(O, fn) == {q \in O : \A x \in O : fn[x] = "stop" => ~Before(x, q)}
Sorted(s) == \A i \in 1 .. Len(s) - 1 : Before(s[i], s[i + 1])

(* r is what a walk gives for which the paths of O are open.               *)
WalkOf(O, fn, r) ==
  /\ r.seen \in Seq(Paths) /\ r.end \in {"go", "skip", "stop"}
  /\ ToSet(r.seen) = Reached(O, fn) /\ Sorted(r.seen)
  /\ r.end = "stop" <=> HasStop(O, fn)

AllBefore(A, B) == \A a \in A : \A b \in B : Before(a, b) /\ ~Before(b, a)

LEMMA Join ==
  ASSUME NEW A, NEW B, NEW fn, AllBefore(A, B)
  PROVE  /\ HasStop(A, fn) => Reached(A \cup B, fn) = Reached(A, fn)
         /\ ~HasStop(A, fn) => /\ Reached(A \cup B, fn) = A \cup Reached(B, fn)
                               /\ Reached(A, fn) = A
         /\ HasStop(A \cup B, fn) <=> HasStop(A, fn) \/ HasStop(B, fn)
BY DEF AllBefore, HasStop, Reached

LEMMA SortedCat ==
  ASSUME NEW s \in Seq(Paths), NEW t \in Seq(Paths), Sorted(s), Sorted(t),
         \A a \in ToSet(s) : \A b \in ToSet(t) : Before(a, b)
  PROVE  Sorted(s \o t) /\ ToSet(s \o t) = ToSet(s) \cup ToSet(t)
<1>1. /\ s \o t \in Seq(Paths) /\ Len(s \o t) = Len(s) + Len(t)
      /\ Len(s) \in Nat /\ Len(t) \in Nat
      /\ \A i \in 1 .. Len(s) + Len(t) :
           (s \o t)[i] = IF i <= Len(s) THEN s[i] ELSE t[i - Len(s)]
  OBVIOUS
<1>2. PICK u \in Seq(Paths) :
        /\ u = s \o t /\ Len(u) = Len(s) + Len(t)
        /\ \A i \in 1 .. Len(u) : u[i] = IF i <= Len(s) THEN s[i] ELSE t[i - Len(s)]
  BY <1>1
<1>3. ToSet(u) = ToSet(s) \cup ToSet(t)
  <2>1. \A i \in 1 .. Len(u) : u[i] \in ToSet(s) \cup ToSet(t)
    <3> SUFFICES ASSUME NEW i \in 1 .. Len(u) PROVE u[i] \in ToSet(s) \cup ToSet(t)
      OBVIOUS
    <3>1. CASE i <= Len(s)
      BY <1>1, <1>2, <3>1 DEF ToSet
    <3>2. CASE i > Len(s)
      <4>1. i - Len(s) \in 1 .. Len(t) /\ u[i] = t[i - Len(s)]
        BY <1>1, <1>2, <3>2
      <4> QED
        BY <4>1 DEF ToSet
    <3> QED
      BY <1>1, <3>1, <3>2
  <2>2. \A i \in 1 .. Len(s) : s[i] \in ToSet(u)
    <3> SUFFICES ASSUME NEW i \in 1 .. Len(s) PROVE s[i] \in ToSet(u)
      OBVIOUS
    <3>1. i \in 1 .. Len(u) /\ u[i] = s[i]
      BY <1>1, <1>2
    <3> QED
      BY <3>1 DEF ToSet
  <2>3. \A i \in 1 .. Len(t) : t[i] \in ToSet(u)
    <3> SUFFICES ASSUME NEW i \in 1 .. Len(t) PROVE t[i] \in ToSet(u)
      OBVIOUS
    <3>1. Len(s) + i \in 1 .. Len(u) /\ u[Len(s) + i] = t[i]
      BY <1>1, <1>2
    <3> QED
      BY <3>1 DEF ToSet
  <2>4. /\ \A x \in ToSet(u) : \E i \in 1 .. Len(u) : x = u[i]
        /\ \A x \in ToSet(s) : \E i \in 1 .. Len(s) : x = s[i]
        /\ \A x \in ToSet(t) : \E i \in 1 .. Len(t) : x = t[i]
    BY DEF ToSet
  <2>5. \A x \in ToSet(u) : x \in ToSet(s) \cup ToSet(t)
    BY <2>1, <2>4
  <2>6. \A x \in ToSet(s) : x \in ToSet(u)
    BY <2>2, <2>4
  <2>7. \A x \in ToSet(t) : x \in ToSet(u)
    BY <2>3, <2>4
  <2> QED
    BY <2>5, <2>6, <2>7
<1>4. ASSUME NEW i \in 1 .. Len(u) - 1 PROVE Before(u[i], u[i + 1])
  <2>1. CASE i < Len(s)
    <3>1. u[i] = s[i] /\ u[i + 1] = s[i + 1] /\ i \in 1 .. Len(s) - 1
      BY <1>1, <1>2, <2>1
    <3> QED
      BY <3>1 DEF Sorted
  <2>2. CASE i = Len(s)
    <3>1. u[i] = s[i] /\ u[i + 1] = t[1] /\ i \in 1 .. Len(s) /\ 1 \in 1 .. Len(t)
      BY <1>1, <1>2, <2>2
    <3>2. s[i] \in ToSet(s) /\ t[1] \in ToSet(t)
      BY <3>1 DEF ToSet
    <3> QED
      BY <3>1, <3>2
  <2>3. CASE i > Len(s)
    <3>1. PICK k \in 1 .. Len(t) - 1 : k = i - Len(s)
      <4>1. \A l, m \in Nat : i <= l + m - 1 /\ i > l => i - l \in 1 .. m - 1
        OBVIOUS
      <4>2. Len(s) \in Nat /\ Len(t) \in Nat /\ i <= Len(s) + Len(t) - 1
        BY <1>1, <1>2
      <4>3. i - Len(s) \in 1 .. Len(t) - 1
        BY <2>3, <4>1, <4>2
      <4> QED
        BY <4>3
    <3>2. /\ i \in 1 .. Len(u) /\ i + 1 \in 1 .. Len(u) /\ ~(i + 1 <= Len(s))
          /\ (i + 1) - Len(s) = k + 1
      BY <1>1, <1>2, <2>3, <3>1
    <3>3. u[i] = t[k] /\ u[i + 1] = t[k + 1]
      BY <1>1, <1>2, <2>3, <3>1, <3>2
    <3> QED
      BY <3>1, <3>3 DEF Sorted
  <2> QED
    BY <1>1, <2>1, <2>2, <2>3
<1> QED
  BY <1>2, <1>3, <1>4 DEF Sorted

(* A walk goes on where there was no error, and stays where there was one. *)
LEMMA WalkJoin ==
  ASSUME NEW A, NEW B, NEW fn, AllBefore(A, B), NEW r, WalkOf(A, fn, r)
  PROVE  /\ r.end = "stop" => WalkOf(A \cup B, fn, r)
         /\ \A s : \A e \in {"go", "skip", "stop"} :
              /\ r.end # "stop" /\ WalkOf(B, fn, s) /\ (e = "stop" <=> s.end = "stop")
              => WalkOf(A \cup B, fn, [seen |-> r.seen \o s.seen, end |-> e])
<1>1. ASSUME r.end = "stop" PROVE WalkOf(A \cup B, fn, r)
  <2>1. /\ HasStop(A, fn) /\ HasStop(A \cup B, fn)
        /\ Reached(A \cup B, fn) = Reached(A, fn)
    BY <1>1, Join DEF WalkOf
  <2> QED
    BY <1>1, <2>1 DEF WalkOf
<1>2. ASSUME NEW s, NEW e \in {"go", "skip", "stop"}, r.end # "stop", WalkOf(B, fn, s),
             e = "stop" <=> s.end = "stop"
      PROVE  WalkOf(A \cup B, fn, [seen |-> r.seen \o s.seen, end |-> e])
  <2>1. ~HasStop(A, fn) /\ (e = "stop" <=> HasStop(B, fn))
    BY <1>2 DEF WalkOf
  <2>2. /\ Reached(A \cup B, fn) = A \cup Reached(B, fn) /\ Reached(A, fn) = A
        /\ HasStop(A \cup B, fn) <=> HasStop(B, fn)
    BY <2>1, Join
  <2>3. /\ r.seen \in Seq(Paths) /\ s.seen \in Seq(Paths) /\ Sorted(r.seen) /\ Sorted(s.seen)
        /\ ToSet(r.seen) = A /\ ToSet(s.seen) = Reached(B, fn)
    BY <1>2, <2>2 DEF WalkOf
  <2>4. \A a \in ToSet(r.seen) : \A b \in ToSet(s.seen) : Before(a, b)
    BY <2>3 DEF AllBefore, Reached
  <2>5. /\ Sorted(r.seen \o s.seen)
        /\ ToSet(r.seen \o s.seen) = ToSet(r.seen) \cup ToSet(s.seen)
    BY <2>3, <2>4, SortedCat
  <2>6. r.seen \o s.seen \in Seq(Paths)
    BY <2>3
  <2> QED
    BY <2>1, <2>2, <2>3, <2>5, <2>6 DEF WalkOf
<1> QED
  BY <1>1, <1>2

-----------------------------------------------------------------------------
(* One directory.                                                          *)

Walked(p, fn, r) ==
  WalkOf(OpenIn(p, fn), fn, r) /\ (p \notin Dirs => r.end = fn[p])

(* Of p, its first i inodes have been walked.                              *)
OpenTo(p, fn, i) ==
  {q \in OpenIn(p, fn) : q = p \/ \E j \in 1 .. i : In(p, j, q)}
SkipTo(p, fn, i) == \E j \in 1 .. i : Skips(p, fn, j)
PartWalked(p, fn, i, r) ==
  /\ WalkOf(OpenTo(p, fn, i), fn, r)
  /\ r.end # "stop" => (r.end = "skip" <=> SkipTo(p, fn, i))

(* The walk of a path that is not gone into.                               *)
LEMMA OnlyTop ==
  ASSUME NEW p \in Paths, KindOf(p) # "special", NEW fn \in Answers,
         p \notin Dirs \/ fn[p] # "go"
  PROVE  Walked(p, fn, [seen |-> <<p>>, end |-> fn[p]])
<1>1. p \in OpenIn(p, fn) /\ fn[p] \in {"go", "skip", "stop"} /\ ~Before(p, p)
  BY TopIsOpen, NotItself DEF Answers
<1>2. <<p>> \in Seq(Paths) /\ ToSet(<<p>>) = {p} /\ Sorted(<<p>>)
  BY DEF ToSet, Sorted
<1>3. ASSUME NEW q \in OpenIn(p, fn), q # p
      PROVE  /\ p \in Dirs /\ fn[p] # "skip" /\ Before(p, q) /\ ~Before(q, p)
  <2>1. q \in Paths /\ Under(p, q)
    BY DEF OpenIn, ShownIn
  <2>2. p \in Dirs
    BY <1>3, <2>1, Leaf
  <2>3. p \in ShownIn(p)
    BY <1>1 DEF OpenIn
  <2>4. fn[p] # "skip"
    BY <1>3, <2>1, <2>2, <2>3 DEF OpenIn, Hides
  <2> QED
    BY <1>3, <2>1, <2>2, <2>4, TopFirst
<1>4. Reached(OpenIn(p, fn), fn) = {p}
  <2>1. \A q \in OpenIn(p, fn) : ~Before(q, p)
    BY <1>1, <1>3
  <2>2. \A q \in OpenIn(p, fn) : q # p => fn[p] = "stop" /\ Before(p, q)
    BY <1>1, <1>3
  <2> QED
    BY <1>1, <2>1, <2>2 DEF Reached
<1>5. fn[p] = "stop" <=> HasStop(OpenIn(p, fn), fn)
  BY <1>1, <1>3 DEF HasStop
<1>6. \A r : r = [seen |-> <<p>>, end |-> fn[p]]
             => r.seen = <<p>> /\ r.end = fn[p]
  OBVIOUS
<1> QED
  BY <1>1, <1>2, <1>4, <1>5, <1>6 DEF Walked, WalkOf

LEMMA NoneYet ==
  ASSUME NEW p \in Dirs, NEW fn \in Answers, fn[p] = "go"
  PROVE  PartWalked(p, fn, 0, [seen |-> <<p>>, end |-> "go"])
<1>1. p \in OpenIn(p, fn) /\ p \in Paths /\ ~Before(p, p)
  BY TopIsOpen, NotItself, PathsAreSeqs, DirKind
<1>2. <<p>> \in Seq(Paths) /\ ToSet(<<p>>) = {p} /\ Sorted(<<p>>)
  BY <1>1 DEF ToSet, Sorted
<1>3. OpenTo(p, fn, 0) = {p} /\ ~SkipTo(p, fn, 0)
  BY <1>1 DEF OpenTo, SkipTo
<1>4. Reached({p}, fn) = {p} /\ ~HasStop({p}, fn)
  BY <1>1 DEF Reached, HasStop
<1> QED
  BY <1>2, <1>3, <1>4 DEF PartWalked, WalkOf

LEMMA NextKid ==
  ASSUME NEW p \in Dirs, NEW fn \in Answers, fn[p] = "go",
         NEW i \in 1 .. Len(Contents[p]), NEW acc, PartWalked(p, fn, i - 1, acc), NEW sub,
         Kind[Kid(p, i)] # "special" => Walked(Kid(p, i), fn, sub)
  PROVE  PartWalked(p, fn, i, WalkChild(sub, acc, Kid(p, i)))
<1> DEFINE A == OpenTo(p, fn, i - 1)
           B == {q \in OpenIn(p, fn) : In(p, i, q)}
           c == Kid(p, i)
<1>1. /\ p \in Paths /\ c \in DOMAIN Kind /\ c \in Paths /\ KindOf(c) = Kind[c]
      /\ i \in 1 .. i /\ \A j : j \in 1 .. i <=> j \in 1 .. i - 1 \/ j = i
  <2>1. c # <<>>
    BY KidIs, FlistAssumption
  <2> QED
    BY <2>1, KidIs, PathsAreSeqs, FlistAssumption DEF KindOf
<1>2. OpenTo(p, fn, i) = A \cup B /\ (SkipTo(p, fn, i) <=> SkipTo(p, fn, i - 1) \/ Skips(p, fn, i))
  BY <1>1 DEF OpenTo, SkipTo
<1>3. AllBefore(A, B)
  <2> SUFFICES ASSUME NEW a \in A, NEW b \in B PROVE Before(a, b) /\ ~Before(b, a)
    BY DEF AllBefore
  <2>1. In(p, i, b)
    OBVIOUS
  <2>2. CASE a = p
    BY <1>1, <2>1, <2>2, InIs, TopFirst
  <2>3. CASE a # p
    <3>1. PICK j \in 1 .. i - 1 : In(p, j, a)
      BY <2>3 DEF OpenTo
    <3>2. j \in 1 .. Len(Contents[p]) /\ j < i
      BY FlistAssumption
    <3> QED
      BY <2>1, <3>1, <3>2, InOrder
  <2> QED
    BY <2>2, <2>3
<1>4. B = IF SkipTo(p, fn, i - 1) THEN {} ELSE OpenIn(c, fn)
  BY OpenBranch DEF SkipTo
<1>5. WalkOf(A, fn, acc) /\ (acc.end # "stop" => (acc.end = "skip" <=> SkipTo(p, fn, i - 1)))
      /\ acc.end \in {"go", "skip", "stop"}
  BY DEF PartWalked, WalkOf
<1> HIDE DEF A, B, c
<1>6. CASE acc.end = "stop"
  <2>1. WalkChild(sub, acc, c) = acc
    BY <1>6 DEF WalkChild
  <2>2. WalkOf(A \cup B, fn, acc)
    BY <1>3, <1>5, <1>6, WalkJoin
  <2> QED
    BY <1>2, <1>6, <2>1, <2>2 DEF PartWalked, c
<1>7. CASE acc.end = "skip"
  <2>1. WalkChild(sub, acc, c) = acc
    BY <1>7 DEF WalkChild
  <2>2. SkipTo(p, fn, i - 1) /\ B = {}
    BY <1>4, <1>5, <1>7
  <2>3. OpenTo(p, fn, i) = A /\ SkipTo(p, fn, i)
    BY <1>2, <2>2
  <2> QED
    BY <1>5, <1>7, <2>1, <2>3 DEF PartWalked, c
<1>8. CASE acc.end = "go" /\ Kind[c] = "special"
  <2>1. WalkChild(sub, acc, c) = acc
    BY <1>8 DEF WalkChild
  <2>2. c \notin Dirs
    BY <1>1, <1>8, DirKind
  <2>3. B = {}
    <3>1. \A q : In(p, i, q) => q = c
      BY <1>1, <2>2, Leaf DEF In, c
    <3>2. c \notin OpenIn(p, fn)
      BY <1>1, <1>8 DEF OpenIn, ShownIn
    <3> QED
      BY <3>1, <3>2 DEF B
  <2>4. ~Skips(p, fn, i)
    BY <1>1, <1>8 DEF Skips, c
  <2>5. OpenTo(p, fn, i) = A /\ ~SkipTo(p, fn, i)
    BY <1>2, <1>5, <1>8, <2>3, <2>4
  <2> QED
    BY <1>5, <1>8, <2>1, <2>5 DEF PartWalked, c
<1>9. CASE acc.end = "go" /\ Kind[c] # "special"
  <2>1. PICK e : e = IF c \in Dirs /\ sub.end = "skip" THEN "go" ELSE sub.end
    OBVIOUS
  <2>2. WalkChild(sub, acc, c) = [seen |-> acc.seen \o sub.seen, end |-> e]
    BY <1>9, <2>1 DEF WalkChild
  <2>3. WalkOf(B, fn, sub) /\ (c \notin Dirs => sub.end = fn[c]) /\ ~SkipTo(p, fn, i - 1)
    BY <1>4, <1>5, <1>9 DEF Walked, c
  <2>4. e \in {"go", "skip", "stop"} /\ (e = "stop" <=> sub.end = "stop")
    BY <2>1, <2>3 DEF WalkOf
  <2>5. WalkOf(A \cup B, fn, [seen |-> acc.seen \o sub.seen, end |-> e])
    BY <1>3, <1>5, <1>9, <2>3, <2>4, WalkJoin
  <2>6. e = "skip" <=> Skips(p, fn, i)
    BY <1>1, <1>9, <2>1, <2>3 DEF Skips, c
  <2>7. e = "skip" <=> SkipTo(p, fn, i)
    BY <1>2, <2>3, <2>6
  <2> QED
    BY <1>2, <2>2, <2>5, <2>7 DEF PartWalked, c
<1> QED
  BY <1>5, <1>6, <1>7, <1>8, <1>9

LEMMA AllKids ==
  ASSUME NEW p \in Dirs, NEW fn, NEW r, PartWalked(p, fn, Len(Contents[p]), r)
  PROVE  Walked(p, fn, r)
<1>1. \A q \in OpenIn(p, fn) : q \in Paths /\ Under(p, q)
  BY DEF OpenIn, ShownIn
<1>2. OpenTo(p, fn, Len(Contents[p])) = OpenIn(p, fn)
  BY <1>1, Branches DEF OpenTo
<1> QED
  BY <1>2 DEF PartWalked, Walked

-----------------------------------------------------------------------------
(* WalkDir exists and is right: its recursion goes down a finite tree.     *)

KidsWalkIs(p, w, u) ==
  u = [i \in 0 .. Len(Contents[p]) |->
         IF i = 0 THEN [seen |-> <<p>>, end |-> "go"]
         ELSE WalkChild(w[Contents[p][i]], u[i - 1], Contents[p][i])]
KidsWalk(p, w) == CHOOSE u : KidsWalkIs(p, w, u)
OneWalk(fn, p, w) ==
  IF p \notin Dirs \/ fn[p] # "go" THEN [seen |-> <<p>>, end |-> fn[p]]
  ELSE KidsWalk(p, w)[Len(Contents[p])]
WalkIs(fn, w) == w = [p \in Paths |-> OneWalk(fn, p, w)]

LEMMA WalkDirIs ==
  ASSUME NEW fn
  PROVE  WalkDir(fn) = CHOOSE w : WalkIs(fn, w)
BY DEF WalkDir, WalkIs, OneWalk, KidsWalk, KidsWalkIs

LEMMA KidsWalkExists ==
  ASSUME NEW p \in Dirs, NEW w
  PROVE  KidsWalkIs(p, w, KidsWalk(p, w))
<1> DEFINE First == [seen |-> <<p>>, end |-> "go"]
           OneMore(u, i) == IF i = 0 THEN First
                          ELSE WalkChild(w[Contents[p][i]], u[i - 1], Contents[p][i])
           T == {n \in 0 .. Len(Contents[p]) : \E u : u = [i \in 0 .. n |-> OneMore(u, i)]}
<1>1. PICK L \in Nat : L = Len(Contents[p])
  BY FlistAssumption
<1>2. 0 \in T
  <2> DEFINE u == [i \in 0 .. 0 |-> First]
  <2>1. \A i \in 0 .. 0 : i = 0
    OBVIOUS
  <2>2. u = [i \in 0 .. 0 |-> OneMore(u, i)]
    BY <2>1
  <2> HIDE DEF u, OneMore
  <2> QED
    BY <1>1, <2>2
<1>3. ASSUME NEW n \in 1 .. L, n - 1 \in T PROVE n \in T
  <2>1. PICK v : v = [i \in 0 .. n - 1 |-> OneMore(v, i)]
    BY <1>3
  <2> DEFINE u == [i \in 0 .. n |-> IF i = n THEN OneMore(v, n) ELSE v[i]]
  <2> HIDE DEF OneMore
  <2>2. \A i \in 0 .. n - 1 : v[i] = OneMore(v, i)
    BY <2>1
  <2>3. \A i \in 0 .. n : OneMore(u, i) = OneMore(v, i)
    <3> SUFFICES ASSUME NEW i \in 0 .. n PROVE OneMore(u, i) = OneMore(v, i)
      OBVIOUS
    <3>1. CASE i = 0
      BY <3>1 DEF OneMore
    <3>2. CASE i # 0
      <4>1. i - 1 \in 0 .. n /\ i - 1 # n
        BY <3>2
      <4>2. u[i - 1] = v[i - 1]
        BY <4>1
      <4> HIDE DEF u
      <4> QED
        BY <3>2, <4>2 DEF OneMore
    <3> QED
      BY <3>1, <3>2
  <2>4. \A i \in 0 .. n : u[i] = OneMore(u, i)
    <3> SUFFICES ASSUME NEW i \in 0 .. n PROVE u[i] = OneMore(v, i)
      BY <2>3
    <3>1. i # n => i \in 0 .. n - 1
      OBVIOUS
    <3> QED
      BY <2>2, <3>1
  <2>5. u = [i \in 0 .. n |-> u[i]]
    OBVIOUS
  <2> HIDE DEF u
  <2>6. u = [i \in 0 .. n |-> OneMore(u, i)]
    BY <2>4, <2>5
  <2> QED
    BY <1>1, <2>6
<1> HIDE DEF T
<1>4. L \in T
  <2>1. \A i \in 0 .. L : i \in T
    BY <1>2, <1>3, Upwards
  <2> QED
    BY <1>1, <2>1
<1>5. \E u : KidsWalkIs(p, w, u)
  BY <1>1, <1>4 DEF T, KidsWalkIs
<1> QED
  BY <1>5 DEF KidsWalk

(* The walk of a directory looks at the walks of its inodes alone.         *)
LEMMA SameWalk ==
  ASSUME NEW p \in Paths, NEW fn, NEW v, NEW w,
         p \in Dirs => \A i \in 1 .. Len(Contents[p]) : v[Kid(p, i)] = w[Kid(p, i)]
  PROVE  OneWalk(fn, p, v) = OneWalk(fn, p, w)
<1>1. CASE p \notin Dirs
  BY <1>1 DEF OneWalk
<1>2. CASE p \in Dirs
  <2>1. PICK L \in Nat : L = Len(Contents[p])
    BY <1>2, FlistAssumption
  <2>2. PICK a : a = KidsWalk(p, v) /\ KidsWalkIs(p, v, a)
    BY <1>2, KidsWalkExists
  <2>3. PICK b : b = KidsWalk(p, w) /\ KidsWalkIs(p, w, b)
    BY <1>2, KidsWalkExists
  <2> DEFINE T == {i \in 0 .. L : a[i] = b[i]}
  <2>4. 0 \in T
    BY <2>1, <2>2, <2>3 DEF KidsWalkIs
  <2>5. ASSUME NEW i \in 1 .. L, i - 1 \in T PROVE i \in T
    <3>1. i \in 0 .. L /\ i # 0
      OBVIOUS
    <3>2. /\ a[i] = WalkChild(v[Contents[p][i]], a[i - 1], Contents[p][i])
          /\ b[i] = WalkChild(w[Contents[p][i]], b[i - 1], Contents[p][i])
      BY <2>1, <2>2, <2>3, <3>1 DEF KidsWalkIs
    <3>3. v[Contents[p][i]] = w[Contents[p][i]]
      BY <1>2, <2>1 DEF Kid
    <3> QED
      BY <2>5, <3>1, <3>2, <3>3
  <2> HIDE DEF T
  <2>6. L \in T
    <3>1. \A i \in 0 .. L : i \in T
      BY <2>4, <2>5, Upwards
    <3> QED
      BY <2>1, <3>1
  <2> QED
    BY <2>1, <2>2, <2>3, <2>6 DEF T, OneWalk
<1> QED
  BY <1>1, <1>2

LEMMA Deepest ==
  \E D \in Nat : \A p \in Paths : Len(p) \in Nat /\ Len(p) <= D
<1>1. PICK n \in Nat : ExistsSurjection(1 .. n, DOMAIN Kind)
  BY TreeAssumption, FS_NatSurjection
<1>2. PICK f \in [1 .. n -> DOMAIN Kind] : \A q \in DOMAIN Kind : \E i \in 1 .. n : f[i] = q
  BY <1>1 DEF ExistsSurjection, Surjection
<1> DEFINE T == {i \in 0 .. n : \E D \in Nat : \A k \in 1 .. i : Len(f[k]) <= D}
<1>3. 0 \in T
  <2>1. 0 \in Nat /\ \A k \in 1 .. 0 : Len(f[k]) <= 0
    OBVIOUS
  <2> QED
    BY <2>1
<1>4. \A k \in 1 .. n : Len(f[k]) \in Nat
  BY <1>2, PathsAreSeqs DEF Paths
<1>5. ASSUME NEW i \in 1 .. n, i - 1 \in T PROVE i \in T
  <2>1. PICK D \in Nat : \A k \in 1 .. i - 1 : Len(f[k]) <= D
    BY <1>5
  <2>2. PICK E \in Nat : E >= D /\ E >= Len(f[i])
    <3>1. D + Len(f[i]) \in Nat /\ D + Len(f[i]) >= D /\ D + Len(f[i]) >= Len(f[i])
      BY <1>4
    <3> QED
      BY <3>1
  <2>3. \A k \in 1 .. i : Len(f[k]) <= E
    <3> SUFFICES ASSUME NEW k \in 1 .. i PROVE Len(f[k]) <= E
      OBVIOUS
    <3>1. Len(f[k]) \in Nat
      BY <1>4
    <3>2. CASE k = i
      BY <2>2, <3>2
    <3>3. CASE k # i
      <4>1. k \in 1 .. i - 1
        BY <3>3
      <4> QED
        BY <2>1, <2>2, <3>1, <4>1
    <3> QED
      BY <3>2, <3>3
  <2> QED
    BY <2>3
<1> HIDE DEF T
<1>6. n \in T
  <2>1. \A i \in 0 .. n : i \in T
    BY <1>3, <1>5, Upwards
  <2> QED
    BY <2>1
<1>7. PICK D \in Nat : \A k \in 1 .. n : Len(f[k]) <= D
  BY <1>6 DEF T
<1>8. \A q \in DOMAIN Kind : Len(q) \in Nat /\ Len(q) <= D
  BY <1>2, <1>4, <1>7
<1>9. Len(<<>>) = 0
  OBVIOUS
<1> QED
  BY <1>8, <1>9 DEF Paths

LEMMA WalkExists ==
  ASSUME NEW fn
  PROVE  WalkIs(fn, WalkDir(fn))
<1>1. PICK D \in Nat : \A p \in Paths : Len(p) \in Nat /\ Len(p) <= D
  BY Deepest
<1> DEFINE From(d) == {p \in Paths : Len(p) > D - d}
           Done(w, d) == \A p \in From(d) : w[p] = OneWalk(fn, p, w)
           T == {d \in 0 .. D + 1 : \E w : Done(w, d)}
<1>2. 0 \in T
  <2>1. Done(<<>>, 0)
    BY <1>1
  <2> QED
    BY <2>1
<1>3. ASSUME NEW d \in 1 .. D + 1, d - 1 \in T PROVE d \in T
  <2>1. PICK v : Done(v, d - 1)
    BY <1>3
  <2> DEFINE w == [p \in Paths |-> IF p \in From(d - 1) THEN v[p] ELSE OneWalk(fn, p, v)]
  <2>2. ASSUME NEW p \in From(d) PROVE w[p] = OneWalk(fn, p, v)
    BY <2>1
  <2>3. ASSUME NEW p \in From(d) PROVE OneWalk(fn, p, v) = OneWalk(fn, p, w)
    <3>1. ASSUME p \in Dirs, NEW i \in 1 .. Len(Contents[p])
          PROVE  v[Kid(p, i)] = w[Kid(p, i)]
      <4>1. Kid(p, i) \in Paths /\ Len(Kid(p, i)) = Len(p) + 1 /\ Len(p) \in Nat
        BY <3>1, KidIs
      <4>2. Len(Kid(p, i)) > D - (d - 1)
        BY <4>1
      <4>3. Kid(p, i) \in From(d - 1)
        BY <4>1, <4>2
      <4> QED
        BY <4>1, <4>3
    <3>2. p \in Paths
      OBVIOUS
    <3> HIDE DEF w, From
    <3> QED
      BY <3>1, <3>2, SameWalk
  <2>4. Done(w, d)
    BY <2>2, <2>3
  <2> HIDE DEF w, Done
  <2> QED
    BY <2>4
<1>4. D + 1 \in T
  <2> HIDE DEF T
  <2>1. D + 1 \in Nat
    BY <1>1
  <2>2. \A d \in 0 .. D + 1 : d \in T
    BY <1>2, <1>3, <2>1, Upwards
  <2> QED
    BY <2>1, <2>2
<1>5. PICK v : Done(v, D + 1)
  BY <1>4
<1> DEFINE w == [p \in Paths |-> v[p]]
<1>6. \A p \in Paths : p \in From(D + 1)
  BY <1>1
<1>7. ASSUME NEW p \in Paths PROVE w[p] = OneWalk(fn, p, w)
  <2>1. w[p] = OneWalk(fn, p, v)
    BY <1>5, <1>6
  <2>2. p \in Dirs => \A i \in 1 .. Len(Contents[p]) : v[Kid(p, i)] = w[Kid(p, i)]
    BY KidIs
  <2>3. OneWalk(fn, p, v) = OneWalk(fn, p, w)
    <3> HIDE DEF w
    <3> QED
      BY <2>2, SameWalk
  <2> QED
    BY <2>1, <2>3
<1>8. w = [p \in Paths |-> w[p]]
  OBVIOUS
<1>9. WalkIs(fn, w)
  <2> HIDE DEF w
  <2> QED
    BY <1>7, <1>8 DEF WalkIs
<1> QED
  BY <1>9, WalkDirIs

(* A directory is walked right when its inodes are.                        *)
LEMMA WalkedDir ==
  ASSUME NEW p \in Dirs, NEW fn \in Answers, fn[p] = "go", NEW w,
         \A i \in 1 .. Len(Contents[p]) :
           Kind[Kid(p, i)] # "special" => Walked(Kid(p, i), fn, w[Kid(p, i)])
  PROVE  Walked(p, fn, OneWalk(fn, p, w))
<1>1. PICK L \in Nat : L = Len(Contents[p])
  <2>1. Contents[p] \in Seq(DOMAIN Kind)
    BY FlistAssumption
  <2>2. Len(Contents[p]) \in Nat
    BY <2>1
  <2> QED
    BY <2>2
<1>2. PICK u : u = KidsWalk(p, w) /\ KidsWalkIs(p, w, u)
  BY KidsWalkExists
<1> DEFINE T == {i \in 0 .. L : PartWalked(p, fn, i, u[i])}
<1>3. 0 \in T
  <2>1. u[0] = [seen |-> <<p>>, end |-> "go"]
    BY <1>1, <1>2 DEF KidsWalkIs
  <2> QED
    BY <1>1, <2>1, NoneYet
<1>4. ASSUME NEW i \in 1 .. L, i - 1 \in T PROVE i \in T
  <2>1. i \in 0 .. L /\ i # 0
    OBVIOUS
  <2>2. u[i] = WalkChild(w[Kid(p, i)], u[i - 1], Kid(p, i))
    BY <1>1, <1>2, <2>1 DEF KidsWalkIs, Kid
  <2>3. PartWalked(p, fn, i - 1, u[i - 1])
    BY <1>4
  <2>4. PartWalked(p, fn, i, u[i])
    BY <1>1, <2>2, <2>3, NextKid
  <2> QED
    BY <2>1, <2>4
<1> HIDE DEF T
<1>5. PartWalked(p, fn, L, u[L])
  <2>1. \A i \in 0 .. L : i \in T
    BY <1>3, <1>4, Upwards
  <2> QED
    BY <1>1, <2>1 DEF T
<1>6. OneWalk(fn, p, w) = u[L]
  BY <1>1, <1>2 DEF OneWalk
<1> QED
  BY <1>1, <1>5, <1>6, AllKids

LEMMA WalkIsRight ==
  ASSUME NEW fn \in Answers, NEW p \in Paths, KindOf(p) # "special"
  PROVE  Walked(p, fn, WalkDir(fn)[p])
<1>1. PICK D \in Nat : \A q \in Paths : Len(q) \in Nat /\ Len(q) <= D
  BY Deepest
<1>2. PICK w : w = WalkDir(fn) /\ \A q \in Paths : w[q] = OneWalk(fn, q, w)
  BY WalkExists DEF WalkIs
<1> DEFINE Ok(q) == KindOf(q) # "special" => Walked(q, fn, w[q])
           T == {d \in 0 .. D : \A q \in Paths : Len(q) >= D - d => Ok(q)}
<1>3. ASSUME NEW q \in Paths, \A r \in Paths : Len(r) > Len(q) => Ok(r)
      PROVE  Ok(q)
  <2> SUFFICES ASSUME KindOf(q) # "special" PROVE Walked(q, fn, w[q])
    OBVIOUS
  <2>1. CASE q \notin Dirs \/ fn[q] # "go"
    <3>1. w[q] = [seen |-> <<q>>, end |-> fn[q]]
      BY <1>2, <2>1 DEF OneWalk
    <3> QED
      BY <2>1, <3>1, OnlyTop
  <2>2. CASE q \in Dirs /\ fn[q] = "go"
    <3>1. ASSUME NEW i \in 1 .. Len(Contents[q]), Kind[Kid(q, i)] # "special"
          PROVE  Walked(Kid(q, i), fn, w[Kid(q, i)])
      <4>1. PICK c \in Paths : /\ c = Kid(q, i) /\ c \in DOMAIN Kind /\ c # <<>>
                               /\ Len(c) > Len(q)
        <5>1. /\ Kid(q, i) \in DOMAIN Kind /\ Kid(q, i) \in Paths
              /\ Len(Kid(q, i)) = Len(q) + 1 /\ Len(q) \in Nat
          BY <2>2, KidIs
        <5>2. Kid(q, i) # <<>>
          BY <5>1, FlistAssumption
        <5> QED
          BY <5>1, <5>2
      <4>2. KindOf(c) # "special"
        BY <3>1, <4>1, FlistAssumption DEF KindOf
      <4> QED
        BY <1>3, <4>1, <4>2
    <3>2. Walked(q, fn, OneWalk(fn, q, w))
      BY <2>2, <3>1, WalkedDir
    <3> QED
      BY <1>2, <3>2
  <2> QED
    BY <2>1, <2>2
<1> HIDE DEF Ok
<1>4. 0 \in T
  BY <1>1, <1>3
<1>5. ASSUME NEW d \in 1 .. D, d - 1 \in T PROVE d \in T
  <2>1. \A q \in Paths : Len(q) >= D - (d - 1) => Ok(q)
    BY <1>5
  <2>2. ASSUME NEW q \in Paths, Len(q) >= D - d PROVE Ok(q)
    <3>1. \A r \in Paths : Len(r) > Len(q) => Len(r) >= D - (d - 1)
      BY <1>1, <2>2
    <3> QED
      BY <1>3, <2>1, <3>1
  <2> QED
    BY <2>2
<1> HIDE DEF T
<1>6. D \in T
  <2>1. \A i \in 0 .. D : i \in T
    BY <1>4, <1>5, Upwards
  <2> QED
    BY <2>1
<1>7. Ok(p)
  BY <1>1, <1>6 DEF T
<1> QED
  BY <1>2, <1>7 DEF Ok

LEMMA EveryWalkRight ==
  ASSUME NEW root \in Paths, KindOf(root) # "special", NEW fn \in Answers
  PROVE  WalkRight(root, fn)
<1>1. KindOf(root) # "none"
  BY FlistAssumption DEF KindOf, Paths
<1>2. PICK r : r = WalkDir(fn)[root]
  OBVIOUS
<1>3. PICK w : w = Walk(root, fn)
  OBVIOUS
<1>4. /\ w.seen = r.seen
      /\ w.err = IF r.end = "stop" \/ (r.end = "skip" /\ root \notin Dirs)
                 THEN r.end ELSE "none"
  BY <1>1, <1>2, <1>3 DEF Walk
<1>5. WalkOf(OpenIn(root, fn), fn, r)
  BY <1>2, WalkIsRight DEF Walked
<1>6. {p \in Shown(root) : Open(root, fn, p)} = OpenIn(root, fn)
  BY OpenIs
<1>7. w.err = "stop" <=> r.end = "stop"
  BY <1>4
<1> DEFINE O == OpenIn(root, fn)
           stops == {p \in O : fn[p] = "stop"}
<1>8. {p \in O : \A q \in stops : ~Before(q, p)} = Reached(O, fn)
  BY DEF Reached
<1>9. stops # {} <=> HasStop(O, fn)
  BY DEF HasStop
<1> HIDE DEF O
<1>10. /\ ToSet(w.seen) = {p \in O : \A q \in stops : ~Before(q, p)}
       /\ \A i \in 1 .. Len(w.seen) - 1 : Before(w.seen[i], w.seen[i + 1])
       /\ w.err = "stop" <=> stops # {}
  BY <1>4, <1>5, <1>7, <1>8, <1>9 DEF WalkOf, Sorted, O
<1> QED
  BY <1>3, <1>6, <1>10 DEF WalkRight, O

(* A walk visits, in the order of the flist, all that fn does not make it  *)
(* leave out, and hands on the error of fn, for every flist and every fn:  *)
(* sqlStore.Walk and walkDir, Walker of meta/meta.go.                      *)
THEOREM WalksAreRight == Spec => []WalkVisits
<1>1. WalkVisits
  <2>1. ASSUME NEW root \in {p \in Paths : KindOf(p) # "special"}, NEW fn \in Answers
        PROVE  WalkRight(root, fn)
    BY EveryWalkRight
  <2> QED
    BY <2>1 DEF WalkVisits
<1> QED
  BY <1>1, PTL

==============================================================================
