-------------------------- MODULE RouterSetupProofs --------------------------
(***************************************************************************)
(* Theorems about the router that a mount gets, for every set of           *)
(* configurations and every number of flists.                              *)
(*                                                                         *)
(* A router is good when the names of its lookup list and of its caches    *)
(* have pools and its pools say where they come from (GoodRouter); Merge   *)
(* of good routers is good, and what it looks up, by origin, is the        *)
(* lookups of the merged routers one after the other (MergeIs).  So the    *)
(* loop over the flists has, at every turn, the lookups and the caches of  *)
(* the sources that it passed (Gathered), the first Merge keeps them       *)
(* (Table), and the second one puts the local router first (Complete).     *)
(*                                                                         *)
(* A key is compared byte by byte and the range is meant digit by digit.   *)
(* Sequences of one length are in the order of the numbers they stand for, *)
(* in any base (Order); the digits of the bytes stand for the same number  *)
(* (BytesValue, BytesOrder); a digit that pads both ends keeps the order   *)
(* (PaddedOrder).  So In and Meant agree (RangeIs), and every pool keeps   *)
(* the range of its configuration through both merges (RangesKept).        *)
(***************************************************************************)
EXTENDS RouterSetup, TLAPS, SequenceTheorems, WellFoundedInduction

-----------------------------------------------------------------------------
(* Sums of sequences.                                                      *)

Less == {ss \in Nat \X Nat : ss[1] < ss[2]}

(* Induction, as a fact about a set of numbers.                            *)
LEMMA Climb ==
  ASSUME NEW n \in Nat, NEW T, 0 \in T, \A i \in 1 .. n : i - 1 \in T => i \in T
  PROVE  \A i \in 0 .. n : i \in T
<1> DEFINE R == {i \in 0 .. n : i \notin T}
<1>1. CASE R = {}
  BY <1>1
<1>2. CASE R # {}
  <2>1. IsWellFoundedOn(Less, Nat)
    BY NatLessThanWellFounded, Zenon DEF OpToRel, Less
  <2>2. R \subseteq Nat
    OBVIOUS
  <2>3. \E m \in R : \A i \in R : ~(<<i, m>> \in Less)
    <3> HIDE DEF R
    <3> QED
      BY <1>2, <2>1, <2>2, WFMin
  <2>4. PICK m \in R : \A i \in R : ~(<<i, m>> \in Less)
    BY <2>3
  <2>5. m # 0 /\ m \in 1 .. n /\ m - 1 \in 0 .. n
    BY <2>4
  <2>6. m - 1 \notin T
    BY <2>4, <2>5
  <2>7. m - 1 \in R /\ <<m - 1, m>> \in Less
    BY <2>4, <2>5, <2>6 DEF Less
  <2> QED
    BY <2>4, <2>7
<1> QED
  BY <1>1, <1>2

(* The sums of the first sequences of ss.                                  *)
Sums(ss, f, X) ==
  /\ f \in [0 .. Len(ss) -> Seq(X)] /\ f[0] = <<>>
  /\ \A i \in 1 .. Len(ss) : f[i] = f[i - 1] \o ss[i]

(* FlattenSeq of the community modules, which is defined by recursion.     *)
Flattens(ss, n, f) ==
  f = [i \in 1 .. n |-> IF i = 1 THEN ss[i] ELSE f[i - 1] \o ss[i]]

LEMMA FlattenExists ==
  ASSUME NEW X, NEW ss \in Seq(Seq(X))
  PROVE  \E f : Flattens(ss, Len(ss), f)
<1> DEFINE T == {n \in 0 .. Len(ss) : \E f : Flattens(ss, n, f)}
<1>1. 0 \in T
  <2>1. [i \in 1 .. 0 |-> 0] = [i \in 1 .. 0 |->
           IF i = 1 THEN ss[i] ELSE [j \in 1 .. 0 |-> 0][i - 1] \o ss[i]]
    OBVIOUS
  <2>2. Flattens(ss, 0, [i \in 1 .. 0 |-> 0])
    BY <2>1 DEF Flattens
  <2> QED
    BY <2>2
<1>2. ASSUME NEW n \in 1 .. Len(ss), n - 1 \in T PROVE n \in T
  <2>1. PICK g : Flattens(ss, n - 1, g)
    BY <1>2
  <2>2. \A i \in 1 .. n - 1 : g[i] = IF i = 1 THEN ss[i] ELSE g[i - 1] \o ss[i]
    BY <2>1 DEF Flattens
  <2> DEFINE last == IF n = 1 THEN ss[n] ELSE g[n - 1] \o ss[n]
             h == [i \in 1 .. n |-> IF i = n THEN last ELSE g[i]]
  <2>3. ASSUME NEW i \in 1 .. n
        PROVE  h[i] = IF i = 1 THEN ss[i] ELSE h[i - 1] \o ss[i]
    <3>1. CASE i = n
      <4>1. h[i] = last
        BY <3>1
      <4>2. i # 1 => h[i - 1] = g[n - 1]
        BY <1>2, <3>1
      <4> QED
        BY <3>1, <4>1, <4>2
    <3>2. CASE i # n
      <4>1. i \in 1 .. n - 1 /\ h[i] = g[i]
        BY <1>2, <3>2
      <4>2. i # 1 => h[i - 1] = g[i - 1]
        BY <1>2, <3>2
      <4> HIDE DEF h
      <4> QED
        BY <2>2, <4>1, <4>2
    <3> QED
      BY <3>1, <3>2
  <2>4. h = [i \in 1 .. n |-> h[i]]
    OBVIOUS
  <2>5. Flattens(ss, n, h)
    <3> HIDE DEF h
    <3> QED
      BY <2>3, <2>4 DEF Flattens
  <2> QED
    BY <2>5
<1>3. \A i \in 0 .. Len(ss) : i \in T
  <2>1. Len(ss) \in Nat
    OBVIOUS
  <2> HIDE DEF T
  <2> QED
    BY <1>1, <1>2, <2>1, Climb
<1> QED
  BY <1>3

LEMMA FlatSums ==
  ASSUME NEW X, NEW ss \in Seq(Seq(X))
  PROVE  \E f : Sums(ss, f, X) /\ FlattenSeq(ss) = f[Len(ss)]
<1>0. Len(ss) \in Nat /\ <<>> \in Seq(X) /\ \A i \in 1 .. Len(ss) : ss[i] \in Seq(X)
  OBVIOUS
<1>1. CASE Len(ss) = 0
  <2>1. FlattenSeq(ss) = ss /\ ss = <<>>
    BY <1>1, EmptySeq DEF FlattenSeq
  <2>2. PICK f : f = [i \in 0 .. 0 |-> <<>>]
    OBVIOUS
  <2>3. f \in [0 .. 0 -> Seq(X)] /\ f[0] = <<>>
    BY <1>0, <2>2
  <2> QED
    BY <1>1, <2>1, <2>3 DEF Sums
<1>2. CASE Len(ss) # 0
  <2>1. PICK g : g = CHOOSE f : Flattens(ss, Len(ss), f)
    OBVIOUS
  <2>2. Flattens(ss, Len(ss), g)
    BY <2>1, FlattenExists
  <2>3. FlattenSeq(ss) = g[Len(ss)]
    BY <1>2, <2>1 DEF FlattenSeq, Flattens
  <2>4. \A i \in 1 .. Len(ss) : g[i] = IF i = 1 THEN ss[i] ELSE g[i - 1] \o ss[i]
    BY <2>2 DEF Flattens
  <2>5. PICK f : f = [i \in 0 .. Len(ss) |-> IF i = 0 THEN <<>> ELSE g[i]]
    OBVIOUS
  <2>6. f[0] = <<>> /\ \A i \in 1 .. Len(ss) : f[i] = g[i]
    <3>1. 0 \in 0 .. Len(ss) /\ \A i \in 1 .. Len(ss) : i \in 0 .. Len(ss) /\ i # 0
      OBVIOUS
    <3> QED
      BY <2>5, <3>1
  <2>7. ASSUME NEW i \in 1 .. Len(ss) PROVE f[i] = f[i - 1] \o ss[i]
    <3>0. g[i] = IF i = 1 THEN ss[i] ELSE g[i - 1] \o ss[i]
      BY <2>4
    <3>1. CASE i = 1
      <4>1. PICK s \in Seq(X) : s = ss[i]
        BY <1>0
      <4>2. <<>> \o s = s
        BY ConcatEmptySeq
      <4>3. f[i - 1] = <<>> /\ f[i] = ss[i]
        BY <2>6, <3>0, <3>1
      <4> QED
        BY <4>1, <4>2, <4>3
    <3>2. CASE i # 1
      <4>1. i - 1 \in 1 .. Len(ss)
        BY <1>0, <3>2
      <4>2. f[i] = g[i] /\ f[i - 1] = g[i - 1]
        BY <2>6, <4>1
      <4> QED
        BY <3>0, <3>2, <4>2
    <3> QED
      BY <3>1, <3>2
  <2>8. \A i \in 0 .. Len(ss) : f[i] \in Seq(X)
    <3> DEFINE T == {i \in 0 .. Len(ss) : f[i] \in Seq(X)}
    <3>0. 0 \in 0 .. Len(ss) /\ \A i \in 1 .. Len(ss) : i \in 0 .. Len(ss)
      OBVIOUS
    <3>1. 0 \in T
      <4>1. f[0] \in Seq(X)
        BY <1>0, <2>6
      <4> QED
        BY <3>0, <4>1
    <3>2. ASSUME NEW i \in 1 .. Len(ss), i - 1 \in T PROVE i \in T
      <4>1. PICK a \in Seq(X), b \in Seq(X) : a = f[i - 1] /\ b = ss[i]
        BY <1>0, <3>2
      <4>2. a \o b \in Seq(X)
        BY ConcatProperties
      <4>3. f[i] \in Seq(X)
        BY <2>7, <4>1, <4>2
      <4> QED
        BY <3>0, <4>3
    <3>3. Len(ss) \in Nat
      OBVIOUS
    <3>4. \A i \in 0 .. Len(ss) : i \in T
      <4> HIDE DEF T
      <4> QED
        BY <3>1, <3>2, <3>3, Climb
    <3> QED
      BY <3>4
  <2>9. Sums(ss, f, X)
    BY <2>5, <2>6, <2>7, <2>8 DEF Sums
  <2>10. FlattenSeq(ss) = f[Len(ss)]
    BY <1>0, <1>2, <2>3, <2>6
  <2> QED
    BY <2>9, <2>10
<1> QED
  BY <1>1, <1>2

LEMMA FlatType ==
  ASSUME NEW X, NEW ss \in Seq(Seq(X))
  PROVE  FlattenSeq(ss) \in Seq(X)
<1>1. PICK f : Sums(ss, f, X) /\ FlattenSeq(ss) = f[Len(ss)]
  BY FlatSums
<1>2. Len(ss) \in 0 .. Len(ss)
  OBVIOUS
<1> QED
  BY <1>1, <1>2 DEF Sums

LEMMA FlatEmpty == FlattenSeq(<<>>) = <<>>
BY EmptySeq DEF FlattenSeq

LEMMA FlatAppend ==
  ASSUME NEW X, NEW ss \in Seq(Seq(X)), NEW s \in Seq(X)
  PROVE  FlattenSeq(Append(ss, s)) = FlattenSeq(ss) \o s
<1>1. PICK tt : tt = Append(ss, s)
  OBVIOUS
<1>2. PICK n \in Nat : n = Len(ss)
  OBVIOUS
<1>3. /\ tt \in Seq(Seq(X)) /\ Len(tt) = n + 1 /\ tt[n + 1] = s
      /\ \A i \in 1 .. n : tt[i] = ss[i]
  BY <1>1, <1>2, AppendProperties
<1>4. PICK f : Sums(ss, f, X) /\ FlattenSeq(ss) = f[n]
  BY <1>2, FlatSums
<1>5. PICK g : Sums(tt, g, X) /\ FlattenSeq(tt) = g[n + 1]
  BY <1>3, FlatSums
<1>6. /\ f[0] = <<>> /\ \A i \in 1 .. n : f[i] = f[i - 1] \o ss[i]
      /\ g[0] = <<>> /\ \A i \in 1 .. n + 1 : g[i] = g[i - 1] \o tt[i]
  BY <1>2, <1>3, <1>4, <1>5 DEF Sums
<1>7. f[n] = g[n]
  <2> DEFINE T == {i \in 0 .. n : f[i] = g[i]}
  <2>1. 0 \in T
    BY <1>6
  <2>2. ASSUME NEW i \in 1 .. n, i - 1 \in T PROVE i \in T
    <3>1. i \in 1 .. n + 1 /\ f[i - 1] = g[i - 1] /\ i \in 0 .. n
      BY <2>2
    <3>2. f[i] = f[i - 1] \o ss[i] /\ g[i] = g[i - 1] \o tt[i] /\ ss[i] = tt[i]
      BY <1>3, <1>6, <3>1
    <3> QED
      BY <3>1, <3>2
  <2>3. \A i \in 0 .. n : i \in T
    <3> HIDE DEF T
    <3> QED
      BY <2>1, <2>2, Climb
  <2> QED
    BY <2>3
<1>8. n + 1 \in 1 .. n + 1 /\ (n + 1) - 1 = n
  OBVIOUS
<1>9. g[n + 1] = g[n] \o s
  BY <1>3, <1>6, <1>8
<1> QED
  BY <1>1, <1>4, <1>5, <1>7, <1>9

(* One sequence more at the end of those that a function gives.            *)
LEMMA FlatGrow ==
  ASSUME NEW X, NEW n \in Nat, NEW B, \A i \in 1 .. n + 1 : B[i] \in Seq(X)
  PROVE  /\ FlattenSeq([i \in 1 .. n + 1 |-> B[i]]) =
              FlattenSeq([i \in 1 .. n |-> B[i]]) \o B[n + 1]
         /\ FlattenSeq([i \in 1 .. n |-> B[i]]) \in Seq(X)
<1>1. PICK ss : ss = [i \in 1 .. n |-> B[i]]
  OBVIOUS
<1>2. PICK tt : tt = [i \in 1 .. n + 1 |-> B[i]]
  OBVIOUS
<1>3. ss \in Seq(Seq(X)) /\ Len(ss) = n /\ \A i \in 1 .. n : ss[i] = B[i]
  BY <1>1
<1>4. /\ tt \in Seq(Seq(X)) /\ Len(tt) = n + 1
      /\ \A i \in 1 .. n + 1 : tt[i] = B[i]
  BY <1>2
<1>5. n + 1 \in 1 .. n + 1 /\ B[n + 1] \in Seq(X)
  OBVIOUS
<1>6. PICK uu : uu = Append(ss, B[n + 1])
  OBVIOUS
<1>7. /\ uu \in Seq(Seq(X)) /\ Len(uu) = n + 1
      /\ \A i \in 1 .. n : uu[i] = B[i]
      /\ uu[n + 1] = B[n + 1]
  BY <1>3, <1>5, <1>6, AppendProperties
<1>8. ASSUME NEW i \in 1 .. n + 1 PROVE uu[i] = tt[i]
  <2>1. i \in 1 .. n \/ i = n + 1
    OBVIOUS
  <2> QED
    BY <1>4, <1>7, <2>1
<1>9. uu = tt
  BY <1>4, <1>7, <1>8, SeqEqual
<1>10. FlattenSeq(uu) = FlattenSeq(ss) \o B[n + 1]
  BY <1>3, <1>5, <1>6, FlatAppend
<1> QED
  BY <1>1, <1>2, <1>3, <1>9, <1>10, FlatType

(* tt is ss behind s.                                                      *)
Behind(s, ss, tt, X) ==
  /\ ss \in Seq(Seq(X)) /\ tt \in Seq(Seq(X))
  /\ Len(tt) = Len(ss) + 1 /\ tt[1] = s
  /\ \A i \in 1 .. Len(ss) : tt[i + 1] = ss[i]

LEMMA FlatCons ==
  ASSUME NEW X, NEW ss, NEW s \in Seq(X), NEW tt, Behind(s, ss, tt, X)
  PROVE  FlattenSeq(tt) = s \o FlattenSeq(ss)
<1>1. PICK n \in Nat : n = Len(ss)
  BY DEF Behind
<1>2. PICK f : Sums(ss, f, X) /\ FlattenSeq(ss) = f[n]
  BY <1>1, FlatSums DEF Behind
<1>3. PICK g : Sums(tt, g, X) /\ FlattenSeq(tt) = g[n + 1]
  BY <1>1, FlatSums DEF Behind
<1>4. f[0] = <<>> /\ g[0] = <<>> /\ g[1] = s
  <2>1. f[0] = <<>> /\ g[0] = <<>> /\ g[1] = g[1 - 1] \o s
    <3>1. 1 \in 1 .. Len(tt) /\ tt[1] = s
      BY <1>1 DEF Behind
    <3> QED
      BY <1>2, <1>3, <3>1 DEF Sums
  <2>2. <<>> \o s = s
    BY ConcatEmptySeq
  <2> QED
    BY <2>1, <2>2
<1>6. \A i \in 1 .. n : f[i] = f[i - 1] \o ss[i]
  BY <1>1, <1>2 DEF Sums
<1>7. ASSUME NEW i \in 1 .. n PROVE g[i + 1] = g[i] \o ss[i]
  <2>1. PICK k \in 1 .. Len(tt) : k = i + 1
    BY <1>1 DEF Behind
  <2>2. g[k] = g[k - 1] \o tt[k]
    BY <1>3 DEF Sums
  <2>3. tt[k] = ss[i] /\ k - 1 = i
    BY <1>1, <2>1 DEF Behind
  <2> QED
    BY <2>1, <2>2, <2>3
<1>8. \A i \in 0 .. n : f[i] \in Seq(X)
  BY <1>1, <1>2 DEF Sums
<1>9. \A i \in 1 .. n : ss[i] \in Seq(X)
  BY <1>1, ElementOfSeq DEF Behind
<1>5. g[n + 1] = s \o f[n]
  <2> DEFINE T == {i \in 0 .. n : g[i + 1] = s \o f[i]}
  <2>1. 0 \in T
    <3>1. s = s \o <<>>
      BY ConcatEmptySeq
    <3> QED
      BY <1>4, <3>1
  <2>2. ASSUME NEW i \in 1 .. n, i - 1 \in T PROVE i \in T
    <3>1. i - 1 \in 0 .. n /\ i \in 0 .. n
      OBVIOUS
    <3>2. g[i] = s \o f[i - 1]
      <4>1. g[(i - 1) + 1] = s \o f[i - 1] /\ (i - 1) + 1 = i
        BY <2>2
      <4> QED
        BY <4>1
    <3>3. PICK a \in Seq(X), b \in Seq(X) : a = f[i - 1] /\ b = ss[i]
      BY <1>8, <1>9, <3>1
    <3>4. g[i + 1] = (s \o a) \o b
      BY <1>7, <3>2, <3>3
    <3>5. (s \o a) \o b = s \o (a \o b)
      BY ConcatAssociative
    <3>6. f[i] = a \o b
      BY <1>6, <3>3
    <3> QED
      BY <3>1, <3>4, <3>5, <3>6
  <2>3. \A i \in 0 .. n : i \in T
    <3> HIDE DEF T
    <3> QED
      BY <2>1, <2>2, Climb
  <2> QED
    <3>1. n \in 0 .. n
      OBVIOUS
    <3>2. n \in T
      <4> HIDE DEF T
      <4> QED
        BY <2>3, <3>1
    <3> QED
      BY <3>2
<1> QED
  BY <1>2, <1>3, <1>5

(* t is what g makes of each element of s.                                 *)
IsImage(g, s, t) == Len(t) = Len(s) /\ \A i \in 1 .. Len(s) : t[i] = g[s[i]]

LEMMA ImageConcat ==
  ASSUME NEW X, NEW Y, NEW g, NEW a \in Seq(X), NEW b \in Seq(X), NEW c,
         NEW u \in Seq(Y), NEW v \in Seq(Y), NEW w,
         c = a \o b, w = u \o v, IsImage(g, a, u), IsImage(g, b, v)
  PROVE  IsImage(g, c, w)
<1>1. /\ Len(c) = Len(a) + Len(b) /\ \A i \in 1 .. Len(a) + Len(b) :
            c[i] = IF i <= Len(a) THEN a[i] ELSE b[i - Len(a)]
  BY ConcatProperties
<1>2. /\ Len(w) = Len(u) + Len(v) /\ \A i \in 1 .. Len(u) + Len(v) :
            w[i] = IF i <= Len(u) THEN u[i] ELSE v[i - Len(u)]
  BY ConcatProperties
<1>3. /\ Len(u) = Len(a) /\ \A i \in 1 .. Len(a) : u[i] = g[a[i]]
      /\ Len(v) = Len(b) /\ \A i \in 1 .. Len(b) : v[i] = g[b[i]]
  BY DEF IsImage
<1>4. ASSUME NEW i \in 1 .. Len(c) PROVE w[i] = g[c[i]]
  <2>1. Len(a) \in Nat /\ Len(b) \in Nat /\ i \in 1 .. Len(a) + Len(b)
    BY <1>1
  <2>2. CASE i <= Len(a)
    <3>1. c[i] = a[i] /\ i \in 1 .. Len(a)
      BY <1>1, <2>1, <2>2
    <3>2. w[i] = u[i]
      BY <1>2, <1>3, <2>1, <2>2
    <3> QED
      BY <1>3, <3>1, <3>2
  <2>3. CASE ~(i <= Len(a))
    <3>1. c[i] = b[i - Len(a)] /\ i - Len(a) \in 1 .. Len(b)
      BY <1>1, <2>1, <2>3
    <3>2. w[i] = v[i - Len(a)]
      BY <1>2, <1>3, <2>1, <2>3
    <3> QED
      BY <1>3, <3>1, <3>2
  <2> QED
    BY <2>2, <2>3
<1> QED
  BY <1>1, <1>2, <1>3, <1>4 DEF IsImage

Images(g, ss, tt, X, Y) ==
  /\ ss \in Seq(Seq(X)) /\ tt \in Seq(Seq(Y)) /\ Len(tt) = Len(ss)
  /\ \A i \in 1 .. Len(ss) : IsImage(g, ss[i], tt[i])

LEMMA FlatImage ==
  ASSUME NEW X, NEW Y, NEW g, NEW ss, NEW tt, Images(g, ss, tt, X, Y)
  PROVE  IsImage(g, FlattenSeq(ss), FlattenSeq(tt))
<1>1. PICK n \in Nat : n = Len(ss)
  BY DEF Images
<1>2. PICK f : Sums(ss, f, X) /\ FlattenSeq(ss) = f[n]
  BY <1>1, FlatSums DEF Images
<1>3. PICK h : Sums(tt, h, Y) /\ FlattenSeq(tt) = h[n]
  BY <1>1, FlatSums DEF Images
<1>4. f[0] = <<>> /\ \A i \in 1 .. n : f[i] = f[i - 1] \o ss[i]
  BY <1>1, <1>2 DEF Sums
<1>5. h[0] = <<>> /\ \A i \in 1 .. n : h[i] = h[i - 1] \o tt[i]
  BY <1>1, <1>3 DEF Sums, Images
<1>6. /\ \A i \in 0 .. n : f[i] \in Seq(X)
      /\ \A i \in 0 .. n : h[i] \in Seq(Y)
  BY <1>1, <1>2, <1>3 DEF Sums, Images
<1>7. \A i \in 1 .. n : ss[i] \in Seq(X) /\ tt[i] \in Seq(Y)
  BY <1>1, ElementOfSeq DEF Images
<1>8. \A i \in 1 .. n : IsImage(g, ss[i], tt[i])
  BY <1>1 DEF Images
<1> DEFINE T == {i \in 0 .. n : IsImage(g, f[i], h[i])}
<1>9. 0 \in T
  BY <1>4, <1>5 DEF IsImage
<1>10. ASSUME NEW i \in 1 .. n, i - 1 \in T PROVE i \in T
  <2>1. i - 1 \in 0 .. n /\ i \in 0 .. n /\ IsImage(g, f[i - 1], h[i - 1])
    BY <1>10
  <2>2. PICK a \in Seq(X), b \in Seq(X) : a = f[i - 1] /\ b = ss[i]
    BY <1>6, <1>7, <2>1
  <2>3. PICK u \in Seq(Y), v \in Seq(Y) : u = h[i - 1] /\ v = tt[i]
    BY <1>6, <1>7, <2>1
  <2>4. IsImage(g, a, u) /\ IsImage(g, b, v)
    BY <1>8, <2>1, <2>2, <2>3
  <2>5. PICK c, w : c = f[i] /\ w = h[i]
    OBVIOUS
  <2>6. c = a \o b
    BY <1>4, <2>2, <2>5
  <2>7. w = u \o v
    BY <1>5, <2>3, <2>5
  <2>8. IsImage(g, c, w)
    <3> HIDE DEF T
    <3> QED
      BY <2>4, <2>6, <2>7, ImageConcat
  <2> QED
    BY <2>1, <2>5, <2>8
<1>11. \A i \in 0 .. n : i \in T
  <2> HIDE DEF T
  <2> QED
    BY <1>9, <1>10, Climb
<1> QED
  BY <1>1, <1>2, <1>3, <1>11

-----------------------------------------------------------------------------
(* Routers.                                                                *)

PoolNames == {Simple} \cup UNION {Names(c) : c \in Configs \cup LocalConfigs}
Ids       == Nat \cup PoolNames
Origins   == Nat \X PoolNames

GoodRouter(r) ==
  /\ DOMAIN r.pools \subseteq Seq(Ids)
  /\ \A n \in DOMAIN r.pools : Origin(r.pools[n]) \in Origins
  /\ r.lookup \in Seq(DOMAIN r.pools)
  /\ r.cache \subseteq DOMAIN r.pools

Good(rs) ==
  /\ rs \in Seq(ToSet(rs))
  /\ \A i \in 1 .. Len(rs) : GoodRouter(rs[i])

(* What a router looks up and writes to, by origin.                        *)
LooksUp(r) == [i \in DOMAIN r.lookup |-> Origin(r.pools[r.lookup[i]])]
Writes(r)  == {Origin(r.pools[n]) : n \in r.cache}

IsPrefixed(i, n, c) ==
  /\ c \in Seq(Ids) /\ Len(c) = Len(n) + 1 /\ c[1] = i - 1
  /\ \A k \in 1 .. Len(n) : c[k + 1] = n[k]

LEMMA PrefixedIs ==
  ASSUME NEW i \in Nat \ {0}, NEW n \in Seq(Ids)
  PROVE  IsPrefixed(i, n, Prefixed(i, n))
<1>0. PICK c : c = Prefixed(i, n)
  OBVIOUS
<1>1. PICK a \in Seq(Ids) : a = <<i - 1>> /\ Len(a) = 1 /\ a[1] = i - 1
  <2>1. PICK x \in Ids : x = i - 1
    BY DEF Ids
  <2>2. <<x>> \in Seq(Ids) /\ Len(<<x>>) = 1 /\ <<x>>[1] = x
    OBVIOUS
  <2> QED
    BY <2>1, <2>2
<1>2. c = a \o n /\ c \in Seq(Ids)
  BY <1>0, <1>1, ConcatProperties DEF Prefixed
<1>3. /\ Len(c) = Len(a) + Len(n) /\ \A k \in 1 .. Len(a) + Len(n) :
            c[k] = IF k <= Len(a) THEN a[k] ELSE n[k - Len(a)]
  BY <1>2, ConcatProperties
<1>4. Len(c) = Len(n) + 1 /\ c[1] = i - 1
  BY <1>1, <1>3
<1>5. ASSUME NEW k \in 1 .. Len(n) PROVE c[k + 1] = n[k]
  <2>1. k + 1 \in 1 .. Len(a) + Len(n) /\ ~(k + 1 <= Len(a)) /\ k + 1 - Len(a) = k
    BY <1>1
  <2> QED
    BY <1>3, <2>1
<1> QED
  BY <1>0, <1>2, <1>4, <1>5 DEF IsPrefixed

(* No two pools of the merged routers get one name.                        *)
LEMMA NoClash ==
  ASSUME NEW i, NEW j, NEW m, NEW n, i \in Nat \ {0}, j \in Nat \ {0},
         m \in Seq(Ids), n \in Seq(Ids), Prefixed(i, m) = Prefixed(j, n)
  PROVE  i = j /\ m = n
<1>1. PICK c : c = Prefixed(i, m) /\ c = Prefixed(j, n)
  OBVIOUS
<1>2. IsPrefixed(i, m, c) /\ IsPrefixed(j, n, c)
  BY <1>1, PrefixedIs
<1>3. i = j /\ Len(m) = Len(n)
  BY <1>2 DEF IsPrefixed
<1>4. \A k \in 1 .. Len(m) : m[k] = n[k]
  BY <1>2, <1>3 DEF IsPrefixed
<1> QED
  BY <1>3, <1>4, SeqEqual

(* Every pool of every router is in the merged table, and nothing else.    *)
AllPools(rs, pools) ==
  /\ \A i \in 1 .. Len(rs) : \A n \in DOMAIN rs[i].pools :
       Prefixed(i, n) \in DOMAIN pools /\ pools[Prefixed(i, n)] = rs[i].pools[n]
  /\ \A name \in DOMAIN pools :
       \E i \in 1 .. Len(rs) : \E n \in DOMAIN rs[i].pools : name = Prefixed(i, n)

LEMMA MergedPools ==
  ASSUME NEW rs, Good(rs)
  PROVE  AllPools(rs, Merge(rs).pools)
<1> DEFINE named == UNION {{<<Prefixed(i, n), i, n>> : n \in DOMAIN rs[i].pools} :
                             i \in DOMAIN rs}
           Owner(name) == CHOOSE x \in named :
             x[1] = name /\ \A y \in named : y[1] = name => y[2] <= x[2]
           pools == [name \in {x[1] : x \in named} |->
                       rs[Owner(name)[2]].pools[Owner(name)[3]]]
<1>1. Merge(rs).pools = pools
  BY DEF Merge
<1>2. DOMAIN rs = 1 .. Len(rs) /\ Len(rs) \in Nat
  BY DEF Good
<1>3. \A i \in 1 .. Len(rs) : DOMAIN rs[i].pools \subseteq Seq(Ids)
  BY DEF Good, GoodRouter
<1>4. \A x \in named : \E i \in 1 .. Len(rs) : \E n \in DOMAIN rs[i].pools :
        x = <<Prefixed(i, n), i, n>>
  BY <1>2
<1>5. ASSUME NEW i \in 1 .. Len(rs), NEW n \in DOMAIN rs[i].pools
      PROVE  /\ <<Prefixed(i, n), i, n>> \in named
             /\ Owner(Prefixed(i, n)) = <<Prefixed(i, n), i, n>>
  <2>1. PICK x : x = <<Prefixed(i, n), i, n>>
    OBVIOUS
  <2>2. x \in named /\ x[1] = Prefixed(i, n) /\ x[2] = i /\ i \in Nat
    BY <1>2, <2>1
  <2>3. ASSUME NEW y \in named, y[1] = Prefixed(i, n) PROVE y = x
    <3>1. PICK j \in 1 .. Len(rs) : \E m \in DOMAIN rs[j].pools :
            y = <<Prefixed(j, m), j, m>>
      BY <1>4
    <3>2. PICK m \in DOMAIN rs[j].pools : y = <<Prefixed(j, m), j, m>>
      BY <3>1
    <3>3. Prefixed(j, m) = Prefixed(i, n)
      BY <2>3, <3>2
    <3>4. j \in Nat \ {0} /\ i \in Nat \ {0} /\ m \in Seq(Ids) /\ n \in Seq(Ids)
      BY <1>2, <1>3
    <3>5. j = i /\ m = n
      <4> HIDE DEF named
      <4> QED
        BY <3>3, <3>4, NoClash
    <3> QED
      BY <2>1, <3>2, <3>5
  <2>4. \A y \in named : y[1] = Prefixed(i, n) => y[2] <= x[2]
    <3> HIDE DEF named
    <3> QED
      BY <2>2, <2>3
  <2>5. Owner(Prefixed(i, n)) = x
    <3> HIDE DEF named
    <3> QED
      BY <2>2, <2>3, <2>4
  <2> QED
    BY <2>1, <2>2, <2>5
<1>6. ASSUME NEW i \in 1 .. Len(rs), NEW n \in DOMAIN rs[i].pools
      PROVE  /\ Prefixed(i, n) \in DOMAIN pools
             /\ pools[Prefixed(i, n)] = rs[i].pools[n]
  <2> HIDE DEF named, Owner
  <2>1. PICK x \in named : x = <<Prefixed(i, n), i, n>>
    BY <1>5
  <2>2. x[1] = Prefixed(i, n) /\ Owner(x[1]) = x
    BY <1>5, <2>1
  <2>3. x[1] \in DOMAIN pools /\ pools[x[1]] = rs[Owner(x[1])[2]].pools[Owner(x[1])[3]]
    OBVIOUS
  <2> QED
    BY <2>1, <2>2, <2>3
<1>7. ASSUME NEW name \in DOMAIN pools
      PROVE  \E i \in 1 .. Len(rs) : \E n \in DOMAIN rs[i].pools : name = Prefixed(i, n)
  <2>1. PICK x \in named : name = x[1]
    <3> HIDE DEF named, Owner
    <3> QED
      OBVIOUS
  <2> QED
    BY <1>4, <2>1
<1> HIDE DEF pools
<1> QED
  BY <1>1, <1>6, <1>7 DEF AllPools

LEMMA IsSeq ==
  ASSUME NEW S, NEW n \in Nat, NEW f \in [1 .. n -> S]
  PROVE  f \in Seq(S) /\ Len(f) = n
OBVIOUS

(* The order of lookups: those of the routers, one after the other.        *)
LEMMA MergeIs ==
  ASSUME NEW rs, Good(rs)
  PROVE  /\ GoodRouter(Merge(rs))
         /\ LooksUp(Merge(rs)) = FlattenSeq([i \in 1 .. Len(rs) |-> LooksUp(rs[i])])
         /\ Writes(Merge(rs)) = UNION {Writes(rs[i]) : i \in 1 .. Len(rs)}
<1>1. PICK r : r = Merge(rs)
  OBVIOUS
<1>2. PICK P : P = r.pools
  OBVIOUS
<1>3. AllPools(rs, P)
  BY <1>1, <1>2, MergedPools
<1>4. DOMAIN rs = 1 .. Len(rs) /\ Len(rs) \in Nat
  BY DEF Good
<1>5. \A i \in 1 .. Len(rs) : GoodRouter(rs[i])
  BY DEF Good
<1>6. \A i \in 1 .. Len(rs) : \A n \in DOMAIN rs[i].pools :
        Prefixed(i, n) \in DOMAIN P /\ P[Prefixed(i, n)] = rs[i].pools[n]
  BY <1>3 DEF AllPools
<1>7. ASSUME NEW name \in DOMAIN P
      PROVE  name \in Seq(Ids) /\ Origin(P[name]) \in Origins
  <2>1. PICK i \in 1 .. Len(rs) : \E n \in DOMAIN rs[i].pools : name = Prefixed(i, n)
    BY <1>3 DEF AllPools
  <2>2. PICK n \in DOMAIN rs[i].pools : name = Prefixed(i, n)
    BY <2>1
  <2>3. i \in Nat \ {0} /\ n \in Seq(Ids) /\ Origin(rs[i].pools[n]) \in Origins
    BY <1>4, <1>5 DEF GoodRouter
  <2>4. IsPrefixed(i, n, name)
    BY <2>2, <2>3, PrefixedIs
  <2> QED
    BY <1>6, <2>2, <2>3, <2>4 DEF IsPrefixed
<1> DEFINE named(i) == [j \in DOMAIN rs[i].lookup |-> Prefixed(i, rs[i].lookup[j])]
           ss == [i \in DOMAIN rs |-> named(i)]
           tt == [i \in 1 .. Len(rs) |-> LooksUp(rs[i])]
           g  == [name \in DOMAIN P |-> Origin(P[name])]
<1>8. r.lookup = FlattenSeq(ss)
  BY <1>1 DEF Merge
<1>9. ASSUME NEW i \in 1 .. Len(rs)
      PROVE  /\ named(i) \in Seq(DOMAIN P) /\ LooksUp(rs[i]) \in Seq(Origins)
             /\ IsImage(g, named(i), LooksUp(rs[i]))
  <2>1. PICK l \in Seq(DOMAIN rs[i].pools) : l = rs[i].lookup
    BY <1>5 DEF GoodRouter
  <2>2. DOMAIN l = 1 .. Len(l) /\ \A j \in 1 .. Len(l) : l[j] \in DOMAIN rs[i].pools
    BY <2>1
  <2>3. \A j \in 1 .. Len(l) :
          Prefixed(i, l[j]) \in DOMAIN P /\ P[Prefixed(i, l[j])] = rs[i].pools[l[j]]
    BY <1>6, <2>2
  <2>4. \A j \in 1 .. Len(l) : Origin(rs[i].pools[l[j]]) \in Origins
    BY <1>5, <2>2 DEF GoodRouter
  <2>5. PICK a : a = named(i)
    OBVIOUS
  <2>6. a = [j \in 1 .. Len(l) |-> Prefixed(i, l[j])]
    BY <2>1, <2>2, <2>5
  <2>7. PICK b : b = LooksUp(rs[i])
    OBVIOUS
  <2>8. b = [j \in 1 .. Len(l) |-> Origin(rs[i].pools[l[j]])]
    BY <2>1, <2>2, <2>7 DEF LooksUp
  <2>9. Len(l) \in Nat
    BY <2>1
  <2>10. a \in Seq(DOMAIN P) /\ Len(a) = Len(l)
    BY <2>3, <2>6, <2>9
  <2>11. b \in Seq(Origins) /\ Len(b) = Len(l)
    BY <2>4, <2>8, <2>9
  <2>12. \A j \in 1 .. Len(l) : b[j] = g[a[j]]
    BY <2>3, <2>6, <2>8
  <2> QED
    BY <2>5, <2>7, <2>10, <2>11, <2>12 DEF IsImage
<1>10. ss \in Seq(Seq(DOMAIN P)) /\ Len(ss) = Len(rs)
       /\ \A i \in 1 .. Len(rs) : ss[i] = named(i)
  <2> HIDE DEF named
  <2>1. \A i \in 1 .. Len(rs) : named(i) \in Seq(DOMAIN P)
    BY <1>9
  <2>2. ss \in [1 .. Len(rs) -> Seq(DOMAIN P)]
    BY <1>4, <2>1
  <2>3. ss \in Seq(Seq(DOMAIN P)) /\ Len(ss) = Len(rs)
    <3> HIDE DEF ss
    <3> QED
      BY <1>4, <2>2, IsSeq
  <2> QED
    BY <1>4, <2>3
<1>11. tt \in Seq(Seq(Origins)) /\ Len(tt) = Len(rs)
       /\ \A i \in 1 .. Len(rs) : tt[i] = LooksUp(rs[i])
  <2>1. \A i \in 1 .. Len(rs) : LooksUp(rs[i]) \in Seq(Origins)
    BY <1>9
  <2>2. tt \in [1 .. Len(rs) -> Seq(Origins)]
    BY <2>1
  <2>3. tt \in Seq(Seq(Origins)) /\ Len(tt) = Len(rs)
    <3> HIDE DEF tt
    <3> QED
      BY <1>4, <2>2, IsSeq
  <2> QED
    BY <2>3
<1>12. Images(g, ss, tt, DOMAIN P, Origins)
  <2> HIDE DEF named, ss, tt, g
  <2> QED
    BY <1>9, <1>10, <1>11 DEF Images
<1>13. r.lookup \in Seq(DOMAIN P)
  <2> HIDE DEF ss
  <2> QED
    BY <1>8, <1>10, FlatType
<1>14. FlattenSeq(tt) \in Seq(Origins)
  <2> HIDE DEF tt
  <2> QED
    BY <1>11, FlatType
<1>15. IsImage(g, r.lookup, FlattenSeq(tt))
  <2> HIDE DEF ss, tt, g
  <2> QED
    BY <1>8, <1>12, FlatImage
<1>16. LooksUp(r) = FlattenSeq(tt)
  <2>1. PICK t \in Seq(Origins) : t = FlattenSeq(tt)
    BY <1>14
  <2>2. PICK l \in Seq(DOMAIN P) : l = r.lookup
    BY <1>13
  <2>3. Len(t) = Len(l) /\ \A j \in 1 .. Len(l) : t[j] = g[l[j]]
    <3> HIDE DEF tt, g
    <3> QED
      BY <1>15, <2>1, <2>2 DEF IsImage
  <2>4. DOMAIN l = 1 .. Len(l) /\ \A j \in 1 .. Len(l) : l[j] \in DOMAIN P
    BY <2>2
  <2>5. \A j \in 1 .. Len(l) : t[j] = Origin(P[l[j]])
    BY <2>3, <2>4
  <2>6. t = [j \in 1 .. Len(l) |-> Origin(P[l[j]])]
    BY <2>3, <2>5
  <2>7. LooksUp(r) = [j \in 1 .. Len(l) |-> Origin(P[l[j]])]
    BY <1>2, <2>2, <2>4 DEF LooksUp
  <2> QED
    BY <2>1, <2>6, <2>7
<1>17. r.cache = UNION {{Prefixed(i, n) : n \in rs[i].cache} : i \in 1 .. Len(rs)}
  BY <1>1, <1>4 DEF Merge
<1>18. \A i \in 1 .. Len(rs) : \A n \in rs[i].cache :
         /\ Prefixed(i, n) \in r.cache /\ Prefixed(i, n) \in DOMAIN P
         /\ Origin(P[Prefixed(i, n)]) = Origin(rs[i].pools[n])
  BY <1>5, <1>6, <1>17 DEF GoodRouter
<1>19. \A name \in r.cache : \E i \in 1 .. Len(rs) : \E n \in rs[i].cache :
         name = Prefixed(i, n)
  BY <1>17
<1>20. GoodRouter(r)
  <2>1. r.cache \subseteq DOMAIN P
    BY <1>18, <1>19
  <2> QED
    BY <1>2, <1>7, <1>13, <2>1 DEF GoodRouter
<1>21. Writes(r) = UNION {Writes(rs[i]) : i \in 1 .. Len(rs)}
  <2>1. ASSUME NEW o \in Writes(r) PROVE \E i \in 1 .. Len(rs) : o \in Writes(rs[i])
    BY <1>2, <1>18, <1>19 DEF Writes
  <2>2. ASSUME NEW i \in 1 .. Len(rs), NEW o \in Writes(rs[i]) PROVE o \in Writes(r)
    BY <1>2, <1>18 DEF Writes
  <2> QED
    BY <2>1, <2>2
<1> QED
  BY <1>1, <1>16, <1>20, <1>21

(* The router of one configuration.                                        *)
Usable(c) ==
  /\ DOMAIN c.pools \subseteq PoolNames
  /\ c.lookup \in Seq(DOMAIN c.pools)
  /\ c.cache \subseteq DOMAIN c.pools

CachesOf(source, c) == {<<source, p>> : p \in c.cache}

LEMMA ValidIsUsable ==
  ASSUME NEW c \in Configs \cup LocalConfigs, Valid(c)
  PROVE  Usable(c)
<1>1. c.lookup \in Seq(ToSet(c.lookup))
  BY RouterSetupAssumption
<1>2. ToSet(c.lookup) \subseteq DOMAIN c.pools /\ c.cache \subseteq DOMAIN c.pools
  BY DEF Valid, Names
<1>3. \A S, T : S \subseteq T => Seq(S) \subseteq Seq(T)
  OBVIOUS
<1>4. c.lookup \in Seq(DOMAIN c.pools)
  BY <1>1, <1>2, <1>3
<1>5. DOMAIN c.pools \subseteq PoolNames
  BY DEF PoolNames, Names
<1> QED
  BY <1>2, <1>4, <1>5 DEF Usable

LEMMA SimpleIsUsable == Usable(SimpleConfig)
<1>1. DOMAIN SimpleConfig.pools = {Simple} /\ SimpleConfig.cache = {}
  BY DEF SimpleConfig
<1>2. SimpleConfig.lookup \in Seq({Simple})
  BY DEF SimpleConfig
<1> QED
  BY <1>1, <1>2 DEF Usable, PoolNames

LEMMA RouterOfIs ==
  ASSUME NEW source \in Nat, NEW c, Usable(c)
  PROVE  /\ GoodRouter(RouterOf(source, c))
         /\ LooksUp(RouterOf(source, c)) = PoolsOf(source, c)
         /\ PoolsOf(source, c) \in Seq(Origins)
         /\ Writes(RouterOf(source, c)) = CachesOf(source, c)
<1>1. PICK r : r = RouterOf(source, c)
  OBVIOUS
<1>2. PICK l \in Seq(DOMAIN c.pools) : l = c.lookup
  BY DEF Usable
<1>3. /\ Len(l) \in Nat /\ DOMAIN l = 1 .. Len(l)
      /\ \A j \in 1 .. Len(l) : l[j] \in DOMAIN c.pools
  BY <1>2
<1>4. DOMAIN r.pools = {<<p>> : p \in DOMAIN c.pools}
  BY <1>1 DEF RouterOf, Names
<1>5. \A p \in DOMAIN c.pools : Origin(r.pools[<<p>>]) = <<source, p>>
  BY <1>1 DEF RouterOf, Names, Origin
<1>6. r.lookup = [j \in 1 .. Len(l) |-> <<l[j]>>] /\ r.cache = {<<p>> : p \in c.cache}
  BY <1>1, <1>2, <1>3 DEF RouterOf
<1>7. \A p \in DOMAIN c.pools : <<p>> \in Seq(Ids) /\ <<source, p>> \in Origins
  BY DEF Usable, Ids, Origins
<1>8. r.lookup \in Seq(DOMAIN r.pools)
  <2>1. r.lookup \in [1 .. Len(l) -> DOMAIN r.pools]
    BY <1>3, <1>4, <1>6
  <2> QED
    BY <1>3, <2>1, IsSeq
<1>9. GoodRouter(r)
  BY <1>4, <1>5, <1>6, <1>7, <1>8 DEF GoodRouter, Usable
<1>10. PoolsOf(source, c) = [j \in 1 .. Len(l) |-> <<source, l[j]>>]
  BY <1>2, <1>3 DEF PoolsOf
<1>11. LooksUp(r) = [j \in 1 .. Len(l) |-> <<source, l[j]>>]
  <2>1. DOMAIN r.lookup = 1 .. Len(l)
    BY <1>6
  <2>2. \A j \in 1 .. Len(l) : Origin(r.pools[r.lookup[j]]) = <<source, l[j]>>
    BY <1>3, <1>5, <1>6
  <2> QED
    BY <2>1, <2>2 DEF LooksUp
<1>12. PoolsOf(source, c) \in Seq(Origins)
  <2>1. PoolsOf(source, c) \in [1 .. Len(l) -> Origins]
    BY <1>3, <1>7, <1>10
  <2> QED
    BY <1>3, <2>1, IsSeq
<1>13. Writes(r) = CachesOf(source, c)
  <2>1. \A p \in c.cache : <<p>> \in r.cache /\ Origin(r.pools[<<p>>]) = <<source, p>>
    BY <1>5, <1>6 DEF Usable
  <2>2. \A n \in r.cache : \E p \in c.cache : n = <<p>>
    BY <1>6
  <2>3. ASSUME NEW o \in Writes(r) PROVE o \in CachesOf(source, c)
    <3>1. PICK n \in r.cache : o = Origin(r.pools[n])
      BY DEF Writes
    <3>2. PICK p \in c.cache : n = <<p>>
      BY <2>2
    <3> QED
      BY <2>1, <3>1, <3>2 DEF CachesOf
  <2>4. ASSUME NEW o \in CachesOf(source, c) PROVE o \in Writes(r)
    <3>1. PICK p \in c.cache : o = <<source, p>>
      BY DEF CachesOf
    <3>2. PICK n \in r.cache : n = <<p>> /\ Origin(r.pools[n]) = o
      BY <2>1, <3>1
    <3> QED
      BY <3>2 DEF Writes
  <2> QED
    BY <2>3, <2>4
<1> QED
  BY <1>1, <1>9, <1>10, <1>11, <1>12, <1>13

-----------------------------------------------------------------------------
(* The loop over the sources.  B and C have the lookups and the caches of  *)
(* every source; rs are the routers made from the first n of them.         *)

Looks(rs)     == FlattenSeq([i \in 1 .. Len(rs) |-> LooksUp(rs[i])])
AllWrites(rs) == UNION {Writes(rs[i]) : i \in 1 .. Len(rs)}
First(B, n)   == FlattenSeq([i \in 1 .. n |-> B[i]])
Caches(C, n)  == UNION {C[i] : i \in 1 .. n}
Typed(B, n)   == \A i \in 1 .. n : B[i] \in Seq(Origins)

Gathered(B, C, n, rs) ==
  /\ Good(rs) /\ Typed(B, n)
  /\ Looks(rs) = First(B, n) /\ AllWrites(rs) = Caches(C, n)

LEMMA GoodLooks ==
  ASSUME NEW r, GoodRouter(r)
  PROVE  LooksUp(r) \in Seq(Origins)
<1>1. PICK l \in Seq(DOMAIN r.pools) : l = r.lookup
  BY DEF GoodRouter
<1>2. /\ Len(l) \in Nat /\ DOMAIN l = 1 .. Len(l)
      /\ \A j \in 1 .. Len(l) : Origin(r.pools[l[j]]) \in Origins
  BY <1>1 DEF GoodRouter
<1>3. LooksUp(r) \in [1 .. Len(l) -> Origins]
  BY <1>1, <1>2 DEF LooksUp
<1> QED
  BY <1>2, <1>3, IsSeq

(* One more router.                                                        *)
LEMMA GatherOne ==
  ASSUME NEW rs, Good(rs), NEW r, GoodRouter(r)
  PROVE  /\ Good(Append(rs, r))
         /\ Looks(Append(rs, r)) = Looks(rs) \o LooksUp(r)
         /\ AllWrites(Append(rs, r)) = AllWrites(rs) \cup Writes(r)
<1>1. PICK n \in Nat : n = Len(rs) /\ DOMAIN rs = 1 .. n
  BY DEF Good
<1>2. PICK qs : qs = Append(rs, r)
  OBVIOUS
<1>3. PICK R : R = ToSet(rs) \cup {r}
  OBVIOUS
<1>4. rs \in Seq(R) /\ r \in R
  <2>1. rs \in Seq(ToSet(rs)) /\ ToSet(rs) \subseteq R
    BY <1>3 DEF Good
  <2>2. \A S, T : S \subseteq T => Seq(S) \subseteq Seq(T)
    OBVIOUS
  <2> QED
    BY <1>3, <2>1, <2>2
<1>5. /\ Len(qs) = n + 1 /\ DOMAIN qs = 1 .. n + 1 /\ qs \in Seq(R)
      /\ \A i \in 1 .. n : qs[i] = rs[i]
      /\ qs[n + 1] = r
  BY <1>1, <1>2, <1>4, AppendProperties
<1>6. Good(qs)
  <2>1. \A i \in 1 .. n + 1 : qs[i] \in ToSet(qs)
    BY <1>5 DEF ToSet
  <2>2. qs \in [1 .. n + 1 -> ToSet(qs)]
    BY <1>5, <2>1
  <2>3. qs \in Seq(ToSet(qs))
    BY <2>2, IsSeq
  <2>4. \A i \in 1 .. n : GoodRouter(qs[i])
    BY <1>1, <1>5 DEF Good
  <2> QED
    BY <1>5, <2>3, <2>4 DEF Good
<1>7. \A i \in 1 .. n + 1 : LooksUp(qs[i]) \in Seq(Origins)
  BY <1>5, <1>6, GoodLooks DEF Good
<1>8. Looks(qs) = Looks(rs) \o LooksUp(r)
  <2> DEFINE B == [i \in 1 .. n + 1 |-> LooksUp(qs[i])]
  <2>1. \A i \in 1 .. n + 1 : B[i] \in Seq(Origins)
    BY <1>7
  <2>2. FlattenSeq([i \in 1 .. n + 1 |-> B[i]]) =
          FlattenSeq([i \in 1 .. n |-> B[i]]) \o B[n + 1]
    <3> HIDE DEF B
    <3> QED
      BY <2>1, FlatGrow
  <2>3. [i \in 1 .. n + 1 |-> B[i]] = [i \in 1 .. Len(qs) |-> LooksUp(qs[i])]
    BY <1>5
  <2>4. [i \in 1 .. n |-> B[i]] = [i \in 1 .. Len(rs) |-> LooksUp(rs[i])]
    BY <1>1, <1>5
  <2>5. B[n + 1] = LooksUp(r)
    BY <1>5
  <2> HIDE DEF B
  <2> QED
    BY <2>2, <2>3, <2>4, <2>5 DEF Looks
<1>9. AllWrites(qs) = AllWrites(rs) \cup Writes(r)
  BY <1>1, <1>5 DEF AllWrites
<1> QED
  BY <1>2, <1>6, <1>8, <1>9

LEMMA FirstGrows ==
  ASSUME NEW B, NEW n \in Nat, Typed(B, n + 1)
  PROVE  First(B, n + 1) = First(B, n) \o B[n + 1] /\ First(B, n) \in Seq(Origins)
BY FlatGrow DEF First, Typed

LEMMA GatherMore ==
  ASSUME NEW B, NEW C, NEW n \in Nat, NEW rs, Gathered(B, C, n, rs),
         NEW r, GoodRouter(r), B[n + 1] = LooksUp(r), C[n + 1] = Writes(r)
  PROVE  Gathered(B, C, n + 1, Append(rs, r))
<1>1. Typed(B, n + 1)
  BY GoodLooks DEF Gathered, Typed
<1>2. First(B, n + 1) = First(B, n) \o B[n + 1]
  BY <1>1, FirstGrows
<1>3. Caches(C, n + 1) = Caches(C, n) \cup C[n + 1]
  BY DEF Caches
<1> QED
  BY <1>1, <1>2, <1>3, GatherOne DEF Gathered

LEMMA GatherNone ==
  ASSUME NEW B, NEW C, NEW n \in Nat, NEW rs, Gathered(B, C, n, rs),
         B[n + 1] = <<>>, C[n + 1] = {}
  PROVE  Gathered(B, C, n + 1, rs)
<1>1. Typed(B, n + 1)
  <2>1. PICK e \in Seq(Origins) : e = <<>>
    BY EmptySeq
  <2>2. \A i \in 1 .. n : B[i] \in Seq(Origins)
    BY DEF Gathered, Typed
  <2>3. \A i \in 1 .. n + 1 : i \in 1 .. n \/ i = n + 1
    OBVIOUS
  <2> QED
    BY <2>1, <2>2, <2>3 DEF Typed
<1>2. First(B, n + 1) = First(B, n) \o <<>> /\ First(B, n) \in Seq(Origins)
  BY <1>1, FirstGrows
<1>3. First(B, n + 1) = First(B, n)
  BY <1>2, ConcatEmptySeq
<1>4. Caches(C, n + 1) = Caches(C, n)
  BY DEF Caches
<1> QED
  BY <1>1, <1>3, <1>4 DEF Gathered

(* The sources after the last flist and before the fallback.               *)
LEMMA GatherRest ==
  ASSUME NEW B, NEW C, NEW n \in Nat, NEW m \in Nat, n <= m, NEW rs,
         Gathered(B, C, n, rs), \A i \in n + 1 .. m : B[i] = <<>> /\ C[i] = {}
  PROVE  Gathered(B, C, m, rs)
<1> DEFINE T == {k \in 0 .. m - n : Gathered(B, C, n + k, rs)}
<1>1. m - n \in Nat
  OBVIOUS
<1>2. 0 \in T
  BY <1>1
<1>3. ASSUME NEW k \in 1 .. m - n, k - 1 \in T PROVE k \in T
  <2>1. Gathered(B, C, n + (k - 1), rs)
    BY <1>3
  <2>2. PICK p \in Nat : p = n + (k - 1) /\ p + 1 = n + k /\ p + 1 \in n + 1 .. m
    BY <1>1
  <2>3. B[p + 1] = <<>> /\ C[p + 1] = {}
    BY <2>2
  <2>4. Gathered(B, C, p + 1, rs)
    BY <2>1, <2>2, <2>3, GatherNone
  <2> QED
    BY <2>2, <2>4
<1>4. \A k \in 0 .. m - n : k \in T
  <2> HIDE DEF T
  <2> QED
    BY <1>1, <1>2, <1>3, Climb
<1>5. m - n \in T
  <2> HIDE DEF T
  <2> QED
    BY <1>1, <1>4
<1> QED
  BY <1>5

(* What the mount gets from the first n sources.                           *)
Table(B, C, n, r) ==
  /\ GoodRouter(r) /\ Typed(B, n)
  /\ LooksUp(r) = First(B, n) /\ Writes(r) = Caches(C, n)

LEMMA MergeGathered ==
  ASSUME NEW B, NEW C, NEW n, NEW rs, Gathered(B, C, n, rs)
  PROVE  Table(B, C, n, Merge(rs))
BY MergeIs DEF Gathered, Table, Looks, AllWrites

(* The local router is in front.                                           *)
Complete(B, C, n, r) ==
  /\ GoodRouter(r) /\ \A s \in 0 .. n : B[s] \in Seq(Origins)
  /\ LooksUp(r) = FlattenSeq([i \in 1 .. n + 1 |-> B[i - 1]])
  /\ Writes(r) = UNION {C[s] : s \in 0 .. n}

LEMMA Fronted ==
  ASSUME NEW B, NEW n \in Nat, Typed(B, n), B[0] \in Seq(Origins)
  PROVE  FlattenSeq([i \in 1 .. n + 1 |-> B[i - 1]]) = B[0] \o First(B, n)
<1>1. PICK s \in Seq(Origins) : s = B[0]
  OBVIOUS
<1>2. PICK ss : ss = [i \in 1 .. n |-> B[i]]
  OBVIOUS
<1>3. PICK tt : tt = [i \in 1 .. n + 1 |-> B[i - 1]]
  OBVIOUS
<1>4. ss \in [1 .. n -> Seq(Origins)]
  BY <1>2 DEF Typed
<1>5. tt \in [1 .. n + 1 -> Seq(Origins)]
  <2>1. \A i \in 1 .. n + 1 : B[i - 1] \in Seq(Origins)
    <3>1. \A i \in 1 .. n + 1 : i - 1 = 0 \/ i - 1 \in 1 .. n
      OBVIOUS
    <3> QED
      BY <3>1 DEF Typed
  <2> QED
    BY <1>3, <2>1
<1>6. ss \in Seq(Seq(Origins)) /\ Len(ss) = n
  BY <1>4, IsSeq
<1>7. tt \in Seq(Seq(Origins)) /\ Len(tt) = n + 1
  BY <1>5, IsSeq
<1>8. tt[1] = s
  BY <1>1, <1>3
<1>9. \A i \in 1 .. n : tt[i + 1] = ss[i]
  BY <1>2, <1>3
<1>10. Behind(s, ss, tt, Origins)
  BY <1>6, <1>7, <1>8, <1>9 DEF Behind
<1>11. FlattenSeq(tt) = s \o FlattenSeq(ss)
  BY <1>10, FlatCons
<1> QED
  BY <1>1, <1>2, <1>3, <1>11 DEF First

LEMMA NoneInFront ==
  ASSUME NEW B, NEW C, NEW n \in Nat, NEW r, Table(B, C, n, r),
         B[0] = <<>>, C[0] = {}
  PROVE  Complete(B, C, n, r)
<1>1. PICK e \in Seq(Origins) : e = <<>>
  BY EmptySeq
<1>2. FlattenSeq([i \in 1 .. n + 1 |-> B[i - 1]]) = B[0] \o First(B, n)
  BY <1>1, Fronted DEF Table
<1>3. First(B, n) \in Seq(Origins)
  BY GoodLooks DEF Table
<1>4. B[0] \o First(B, n) = First(B, n)
  BY <1>3, ConcatEmptySeq
<1>5. UNION {C[s] : s \in 0 .. n} = Caches(C, n)
  <2>1. \A s \in 0 .. n : s = 0 \/ s \in 1 .. n
    OBVIOUS
  <2>2. 1 .. n \subseteq 0 .. n
    OBVIOUS
  <2> QED
    BY <2>1, <2>2 DEF Caches
<1>6. \A s \in 0 .. n : B[s] \in Seq(Origins)
  <2>1. \A s \in 0 .. n : s = 0 \/ s \in 1 .. n
    OBVIOUS
  <2> QED
    BY <1>1, <2>1 DEF Table, Typed
<1> QED
  BY <1>2, <1>4, <1>5, <1>6 DEF Table, Complete

LEMMA Pair ==
  ASSUME NEW D, NEW l \in D, NEW r \in D
  PROVE  Append(Append(<<>>, l), r) = <<l, r>>
<1>1. Append(<<>>, l) = <<l>>
  OBVIOUS
<1>2. PICK q : q = <<l>>
  OBVIOUS
<1>3. q \in Seq(D) /\ Len(q) = 1 /\ q[1] = l
  BY <1>2
<1>4. PICK p : p = Append(q, r)
  OBVIOUS
<1>5. p \in Seq(D) /\ Len(p) = Len(q) + 1 /\ p[Len(q) + 1] = r
      /\ \A i \in 1 .. Len(q) : p[i] = q[i]
  <2>1. q \in Seq(D)
    BY <1>3
  <2>2. p \in Seq(D)
    BY <1>4, <2>1, AppendProperties
  <2>3. Len(p) = Len(q) + 1
    BY <1>4, <2>1, AppendProperties
  <2>4. p[Len(q) + 1] = r
    BY <1>4, <2>1, AppendProperties
  <2>5. \A i \in 1 .. Len(q) : p[i] = q[i]
    BY <1>4, <2>1, AppendProperties
  <2> QED
    BY <2>2, <2>3, <2>4, <2>5
<1>8. Len(p) = 2 /\ p[1] = l /\ p[2] = r
  BY <1>3, <1>5
<1>9. PICK t : t = <<l, r>>
  OBVIOUS
<1>10. t \in Seq(D) /\ Len(t) = 2 /\ t[1] = l /\ t[2] = r
  BY <1>9
<1>12. \A i \in 1 .. 2 : i = 1 \/ i = 2
  OBVIOUS
<1>11. p = t
  <2>1. \A i \in 1 .. Len(p) : p[i] = t[i]
    BY <1>8, <1>10, <1>12
  <2> QED
    BY <1>5, <1>8, <1>10, <2>1, SeqEqual
<1> QED
  BY <1>1, <1>2, <1>4, <1>9, <1>11

LEMMA InFront ==
  ASSUME NEW B, NEW C, NEW n \in Nat, NEW r, Table(B, C, n, r),
         NEW l, GoodRouter(l), B[0] = LooksUp(l), C[0] = Writes(l)
  PROVE  Complete(B, C, n, Merge(<<l, r>>))
<1>1. GoodRouter(r)
  BY DEF Table
<1>2. LooksUp(l) \in Seq(Origins) /\ LooksUp(r) \in Seq(Origins)
  BY <1>1, GoodLooks
<1>3. PICK rs : rs = <<>> /\ Len(rs) = 0
  OBVIOUS
<1>4. Good(rs) /\ Looks(rs) = <<>> /\ AllWrites(rs) = {}
  <2>1. rs \in Seq(ToSet(rs))
    BY <1>3
  <2>2. [i \in 1 .. Len(rs) |-> LooksUp(rs[i])] = <<>>
    BY <1>3
  <2> QED
    BY <1>3, <2>1, <2>2, FlatEmpty DEF Good, Looks, AllWrites
<1>5. PICK qs : qs = Append(rs, l)
  OBVIOUS
<1>6. Good(qs) /\ Looks(qs) = <<>> \o LooksUp(l) /\ AllWrites(qs) = {} \cup Writes(l)
  BY <1>4, <1>5, GatherOne
<1>7. Looks(qs) = LooksUp(l)
  BY <1>2, <1>6, ConcatEmptySeq
<1>8. PICK ps : ps = Append(qs, r)
  OBVIOUS
<1>9. /\ Good(ps) /\ Looks(ps) = LooksUp(l) \o LooksUp(r)
      /\ AllWrites(ps) = Writes(l) \cup Writes(r)
  BY <1>1, <1>6, <1>7, <1>8, GatherOne
<1>10. ps = <<l, r>>
  <2>1. l \in {l, r} /\ r \in {l, r}
    OBVIOUS
  <2>2. Append(Append(<<>>, l), r) = <<l, r>>
    BY <2>1, Pair
  <2> QED
    BY <1>3, <1>5, <1>8, <2>2
<1>11. /\ GoodRouter(Merge(ps)) /\ LooksUp(Merge(ps)) = Looks(ps)
       /\ Writes(Merge(ps)) = AllWrites(ps)
  BY <1>9, MergeIs DEF Looks, AllWrites
<1>12. FlattenSeq([i \in 1 .. n + 1 |-> B[i - 1]]) = B[0] \o First(B, n)
  BY <1>2, Fronted DEF Table
<1>13. UNION {C[s] : s \in 0 .. n} = C[0] \cup Caches(C, n)
  <2>1. \A s \in 0 .. n : s = 0 \/ s \in 1 .. n
    OBVIOUS
  <2>2. 1 .. n \subseteq 0 .. n /\ 0 \in 0 .. n
    OBVIOUS
  <2> QED
    BY <2>1, <2>2 DEF Caches
<1>14. LooksUp(r) = First(B, n) /\ Writes(r) = Caches(C, n)
  BY DEF Table
<1>15. \A s \in 0 .. n : B[s] \in Seq(Origins)
  <2>1. \A s \in 0 .. n : s = 0 \/ s \in 1 .. n
    OBVIOUS
  <2> QED
    BY <1>2, <2>1 DEF Table, Typed
<1>16. Complete(B, C, n, Merge(ps))
  BY <1>9, <1>11, <1>12, <1>13, <1>14, <1>15 DEF Complete
<1> QED
  BY <1>10, <1>16

-----------------------------------------------------------------------------
(* The inductive invariant.                                                *)

Blocks  == [s \in Sources |->
              IF s \in Used THEN PoolsOf(s, ConfigOf[s]) ELSE <<>>]
Written == [s \in Sources |->
              IF s \in Used THEN CachesOf(s, ConfigOf[s]) ELSE {}]

Inputs == DOMAIN yaml = 1 .. Len(yaml) /\ Len(yaml) \in Nat /\ Len(yaml) <= MaxFlists

IInv ==
  /\ Inputs
  /\ pc \in {"url", "flists"} =>
       next \in 1 .. Len(yaml) + 1 /\ Gathered(Blocks, Written, next - 1, routers)
  /\ pc = "merge" => Gathered(Blocks, Written, UrlSource, routers)
  /\ pc = "local" => Table(Blocks, Written, UrlSource, data)
  /\ pc = "done"  => Complete(Blocks, Written, UrlSource, data)

Silent(s)  == Blocks[s] = <<>> /\ Written[s] = {}
Says(s, c) == Blocks[s] = PoolsOf(s, c) /\ Written[s] = CachesOf(s, c)

LEMMA Sourced ==
  ASSUME Inputs
  PROVE  /\ \A s \in 1 .. Len(yaml) :
              IF yaml[s] = Missing THEN Silent(s) ELSE Says(s, yaml[s])
         /\ \A s \in Len(yaml) + 1 .. MaxFlists : Silent(s)
         /\ IF url = "good" THEN Says(UrlSource, SimpleConfig) ELSE Silent(UrlSource)
         /\ IF local = Missing THEN Silent(LocalSource) ELSE Says(LocalSource, local)
<1>1. MaxFlists \in Nat
  BY RouterSetupAssumption
<1>2. ASSUME NEW s \in 1 .. MaxFlists
      PROVE  /\ s \in Sources
             /\ ConfigOf[s] = IF s \in 1 .. Len(yaml) THEN yaml[s] ELSE Missing
  BY <1>1 DEF Inputs, Sources, ConfigOf, LocalSource, UrlSource
<1>3. /\ UrlSource \in Sources
      /\ ConfigOf[UrlSource] = IF url = "good" THEN SimpleConfig ELSE Missing
  BY <1>1 DEF Sources, ConfigOf, LocalSource, UrlSource
<1>4. LocalSource \in Sources /\ ConfigOf[LocalSource] = local
  BY <1>1 DEF Sources, ConfigOf, LocalSource, UrlSource
<1>5. \A s \in Sources :
        IF ConfigOf[s] = Missing THEN Silent(s) ELSE Says(s, ConfigOf[s])
  BY DEF Silent, Says, Blocks, Written, Used
<1>6. /\ 1 .. Len(yaml) \subseteq 1 .. MaxFlists
      /\ Len(yaml) + 1 .. MaxFlists \subseteq 1 .. MaxFlists
      /\ \A s \in Len(yaml) + 1 .. MaxFlists : s \notin 1 .. Len(yaml)
  BY <1>1 DEF Inputs
<1>7. \A s \in 1 .. Len(yaml) :
        IF yaml[s] = Missing THEN Silent(s) ELSE Says(s, yaml[s])
  BY <1>2, <1>5, <1>6
<1>8. \A s \in Len(yaml) + 1 .. MaxFlists : Silent(s)
  BY <1>2, <1>5, <1>6
<1>9. IF url = "good" THEN Says(UrlSource, SimpleConfig) ELSE Silent(UrlSource)
  BY <1>3, <1>5, SimpleAssumption
<1>10. IF local = Missing THEN Silent(LocalSource) ELSE Says(LocalSource, local)
  BY <1>4, <1>5
<1> QED
  BY <1>7, <1>8, <1>9, <1>10

LEMMA GatheredNone ==
  ASSUME NEW B, NEW C
  PROVE  Gathered(B, C, 0, <<>>)
<1>1. PICK rs : rs = <<>> /\ Len(rs) = 0
  OBVIOUS
<1>2. rs \in Seq(ToSet(rs)) /\ Good(rs)
  BY <1>1 DEF Good
<1>3. [i \in 1 .. Len(rs) |-> LooksUp(rs[i])] = [i \in 1 .. 0 |-> B[i]]
  BY <1>1
<1>4. Looks(rs) = First(B, 0) /\ AllWrites(rs) = Caches(C, 0) /\ Typed(B, 0)
  BY <1>1, <1>3 DEF Looks, First, AllWrites, Caches, Typed
<1> QED
  BY <1>1, <1>2, <1>4 DEF Gathered

LEMMA InitInv == Init => IInv
<1> SUFFICES ASSUME Init PROVE IInv
  OBVIOUS
<1>1. PICK k \in 0 .. MaxFlists : yaml \in [1 .. k -> Configs \cup {Missing, Broken}]
  BY DEF Init, BoundedSeq, SeqOf
<1>2. Inputs
  <2>1. MaxFlists \in Nat /\ k \in Nat /\ k <= MaxFlists
    BY <1>1, RouterSetupAssumption
  <2>2. Len(yaml) = k
    BY <1>1, <2>1, IsSeq
  <2> QED
    BY <1>1, <2>1, <2>2 DEF Inputs
<1>3. Gathered(Blocks, Written, 0, <<>>)
  BY GatheredNone
<1>4. pc = "url" /\ next = 1 /\ routers = <<>> /\ next \in 1 .. Len(yaml) + 1
  BY <1>2 DEF Init, Inputs
<1>5. Gathered(Blocks, Written, next - 1, routers)
  BY <1>3, <1>4
<1> QED
  BY <1>2, <1>4, <1>5 DEF IInv

(* A step leaves the configurations as they are.                           *)
LEMMA Same ==
  ASSUME UNCHANGED input
  PROVE  /\ Blocks' = Blocks /\ Written' = Written /\ yaml' = yaml
         /\ Inputs => Inputs'
<1>1. yaml' = yaml /\ url' = url /\ local' = local
  BY DEF input
<1>2. ConfigOf' = ConfigOf
  BY <1>1 DEF ConfigOf
<1>3. Used' = Used
  BY <1>2 DEF Used
<1> QED
  BY <1>1, <1>2, <1>3 DEF Blocks, Written, Inputs

LEMMA StepInv == IInv /\ [Next]_vars => IInv'
<1> SUFFICES ASSUME IInv, [Next]_vars PROVE IInv'
  OBVIOUS
<1>1. UNCHANGED input
  BY DEF Next, vars, UrlFail, UrlOk, SkipMissing, LoadFail, Load, AddFallback,
         MergeAll, Panic, NoLocal, LocalFail, AddLocal, Fail
<1>2. Blocks' = Blocks /\ Written' = Written /\ yaml' = yaml /\ Inputs /\ Inputs'
  BY <1>1, Same DEF IInv
<1>3. MaxFlists \in Nat /\ UrlSource = MaxFlists + 1 /\ LocalSource = 0
  BY RouterSetupAssumption DEF UrlSource, LocalSource
<1>4. CASE UrlFail \/ LoadFail \/ LocalFail \/ Panic
  <2>1. pc' = "failed" \/ pc' = "panic"
    BY <1>4 DEF UrlFail, LoadFail, LocalFail, Panic, Fail
  <2> QED
    BY <1>2, <2>1 DEF IInv
<1>5. CASE UrlOk
  <2>1. pc = "url" /\ pc' = "flists" /\ next' = next /\ routers' = routers
    BY <1>5 DEF UrlOk
  <2>2. next \in 1 .. Len(yaml) + 1 /\ Gathered(Blocks, Written, next - 1, routers)
    BY <2>1 DEF IInv
  <2> QED
    BY <1>2, <2>1, <2>2 DEF IInv
<1>6. ASSUME pc = "flists"
      PROVE  /\ next \in 1 .. Len(yaml) + 1 /\ Len(yaml) \in Nat
             /\ Gathered(Blocks, Written, next - 1, routers)
  BY <1>2, <1>6 DEF IInv, Inputs
<1>7. CASE SkipMissing
  <2>1. /\ pc = "flists" /\ pc' = "flists" /\ yaml[next] = Missing
        /\ next' = next + 1 /\ routers' = routers /\ next <= Len(yaml)
    BY <1>7 DEF SkipMissing
  <2>2. next \in 1 .. Len(yaml) /\ Len(yaml) \in Nat
    BY <1>6, <2>1
  <2>3. Silent(next)
    BY <1>2, <2>1, <2>2, Sourced
  <2>4. PICK n \in Nat : n = next - 1 /\ n + 1 = next
    BY <2>2
  <2>5. Gathered(Blocks, Written, n + 1, routers)
    <3>1. Gathered(Blocks, Written, n, routers)
      BY <1>6, <2>1, <2>4
    <3>2. Blocks[n + 1] = <<>> /\ Written[n + 1] = {}
      BY <2>3, <2>4 DEF Silent
    <3> QED
      BY <3>1, <3>2, GatherNone
  <2>6. next' \in 1 .. Len(yaml) + 1 /\ next' - 1 = n + 1
    BY <2>1, <2>2, <2>4
  <2> QED
    BY <1>2, <2>1, <2>5, <2>6 DEF IInv
<1>8. CASE Load
  <2>1. /\ pc = "flists" /\ pc' = "flists" /\ next' = next + 1 /\ next <= Len(yaml)
        /\ yaml[next] \in Configs /\ Valid(yaml[next])
        /\ routers' = Append(routers, RouterOf(next, yaml[next]))
    BY <1>8 DEF Load
  <2>2. next \in 1 .. Len(yaml) /\ Len(yaml) \in Nat /\ next \in Nat
    BY <1>6, <2>1
  <2>3. Says(next, yaml[next])
    <3>1. yaml[next] # Missing
      BY <2>1, RouterSetupAssumption
    <3> QED
      BY <1>2, <2>2, <3>1, Sourced
  <2>4. PICK c \in Configs : c = yaml[next]
    BY <2>1
  <2>5. PICK r : r = RouterOf(next, c)
    OBVIOUS
  <2>6. Usable(c)
    BY <2>1, <2>4, ValidIsUsable
  <2>7. /\ GoodRouter(r) /\ LooksUp(r) = PoolsOf(next, c)
        /\ Writes(r) = CachesOf(next, c)
    BY <2>2, <2>5, <2>6, RouterOfIs
  <2>8. PICK n \in Nat : n = next - 1 /\ n + 1 = next
    BY <2>2
  <2>9. Gathered(Blocks, Written, n + 1, Append(routers, r))
    <3>1. Gathered(Blocks, Written, n, routers)
      BY <1>6, <2>1, <2>8
    <3>2. Blocks[n + 1] = LooksUp(r) /\ Written[n + 1] = Writes(r)
      BY <2>3, <2>4, <2>7, <2>8 DEF Says
    <3> QED
      BY <2>7, <3>1, <3>2, GatherMore
  <2>10. next' \in 1 .. Len(yaml) + 1 /\ next' - 1 = n + 1
    BY <2>1, <2>2, <2>8
  <2>11. routers' = Append(routers, r)
    BY <2>1, <2>4, <2>5
  <2> QED
    BY <1>2, <2>1, <2>9, <2>10, <2>11 DEF IInv
<1>9. CASE AddFallback
  <2>1. /\ pc = "flists" /\ pc' = "merge" /\ next > Len(yaml)
        /\ routers' = IF url = "good" THEN Append(routers, Fallback) ELSE routers
    BY <1>9 DEF AddFallback
  <2>2. next - 1 = Len(yaml) /\ Len(yaml) \in Nat /\ Len(yaml) <= MaxFlists
    BY <1>2, <1>6, <2>1 DEF Inputs
  <2>3. Gathered(Blocks, Written, MaxFlists, routers)
    <3>1. PICK n \in Nat : n = Len(yaml) /\ n <= MaxFlists
      BY <2>2
    <3>2. Gathered(Blocks, Written, n, routers)
      BY <1>6, <2>1, <2>2, <3>1
    <3>3. \A i \in n + 1 .. MaxFlists : Blocks[i] = <<>> /\ Written[i] = {}
      BY <1>2, <3>1, Sourced DEF Silent
    <3> QED
      BY <1>3, <3>1, <3>2, <3>3, GatherRest
  <2>4. CASE url = "good"
    <3>1. Says(UrlSource, SimpleConfig)
      BY <1>2, <2>4, Sourced
    <3>2. /\ GoodRouter(Fallback) /\ LooksUp(Fallback) = PoolsOf(UrlSource, SimpleConfig)
          /\ Writes(Fallback) = CachesOf(UrlSource, SimpleConfig)
      <4>1. UrlSource \in Nat
        BY <1>3
      <4> QED
        BY <4>1, SimpleIsUsable, RouterOfIs DEF Fallback
    <3>3. /\ Blocks[MaxFlists + 1] = LooksUp(Fallback)
          /\ Written[MaxFlists + 1] = Writes(Fallback)
      BY <1>3, <3>1, <3>2 DEF Says
    <3>4. Gathered(Blocks, Written, MaxFlists + 1, Append(routers, Fallback))
      BY <1>3, <2>3, <3>2, <3>3, GatherMore
    <3> QED
      BY <1>2, <1>3, <2>1, <2>4, <3>4 DEF IInv
  <2>5. CASE url # "good"
    <3>1. Silent(UrlSource)
      BY <1>2, <2>5, Sourced
    <3>2. Blocks[MaxFlists + 1] = <<>> /\ Written[MaxFlists + 1] = {}
      BY <1>3, <3>1 DEF Silent
    <3>3. Gathered(Blocks, Written, MaxFlists + 1, routers)
      BY <1>3, <2>3, <3>2, GatherNone
    <3> QED
      BY <1>2, <1>3, <2>1, <2>5, <3>3 DEF IInv
  <2> QED
    BY <2>4, <2>5
<1>10. CASE MergeAll
  <2>1. pc = "merge" /\ pc' = "local" /\ data' = Merge(routers)
    BY <1>10 DEF MergeAll
  <2>2. Gathered(Blocks, Written, UrlSource, routers)
    BY <2>1 DEF IInv
  <2>3. Table(Blocks, Written, UrlSource, Merge(routers))
    BY <2>2, MergeGathered
  <2> QED
    BY <1>2, <2>1, <2>3 DEF IInv
<1>11. CASE NoLocal
  <2>1. pc = "local" /\ pc' = "done" /\ data' = data /\ local = Missing
    BY <1>11 DEF NoLocal
  <2>2. Table(Blocks, Written, UrlSource, data)
    BY <2>1 DEF IInv
  <2>3. Blocks[0] = <<>> /\ Written[0] = {}
    BY <1>2, <1>3, <2>1, Sourced DEF Silent
  <2>4. Complete(Blocks, Written, UrlSource, data)
    <3>1. UrlSource \in Nat
      BY <1>3
    <3> QED
      BY <2>2, <2>3, <3>1, NoneInFront
  <2> QED
    BY <1>2, <2>1, <2>4 DEF IInv
<1>12. CASE AddLocal
  <2>1. /\ pc = "local" /\ pc' = "done" /\ local \in LocalConfigs /\ Valid(local)
        /\ data' = Merge(<<RouterOf(LocalSource, local), data>>)
    BY <1>12 DEF AddLocal
  <2>2. Table(Blocks, Written, UrlSource, data)
    BY <2>1 DEF IInv
  <2>3. Says(0, local)
    <3>1. local # Missing
      BY <2>1, RouterSetupAssumption
    <3> QED
      BY <1>2, <1>3, <3>1, Sourced
  <2>4. PICK l : l = RouterOf(LocalSource, local)
    OBVIOUS
  <2>5. /\ GoodRouter(l) /\ LooksUp(l) = PoolsOf(0, local)
        /\ Writes(l) = CachesOf(0, local)
    <3>1. Usable(local)
      BY <2>1, ValidIsUsable
    <3>2. LocalSource \in Nat
      BY <1>3
    <3> QED
      BY <1>3, <2>4, <3>1, <3>2, RouterOfIs
  <2>6. Blocks[0] = LooksUp(l) /\ Written[0] = Writes(l)
    BY <2>3, <2>5 DEF Says
  <2>7. Complete(Blocks, Written, UrlSource, Merge(<<l, data>>))
    <3>1. UrlSource \in Nat
      BY <1>3
    <3> QED
      BY <2>2, <2>5, <2>6, <3>1, InFront
  <2> QED
    BY <1>2, <2>1, <2>4, <2>7 DEF IInv
<1>13. CASE UNCHANGED vars
  BY <1>2, <1>13 DEF IInv, vars
<1> QED
  BY <1>4, <1>5, <1>7, <1>8, <1>9, <1>10, <1>11, <1>12, <1>13 DEF Next

(* At every turn of the loop over the flists the routers look up what the  *)
(* flists that were passed say, in their order; the two merges keep it.    *)
THEOREM Invariant == Spec => []IInv
BY InitInv, StepInv, PTL DEF Spec

(* No lookup and no write-back of a mounted filesystem meets a name that   *)
(* has no pool, after two levels of Merge renamed the pools.               *)
THEOREM EveryNameResolves == Spec => []NamesResolve
<1>1. IInv => NamesResolve
  <2> SUFFICES ASSUME IInv, pc = "done"
               PROVE  ToSet(data.lookup) \cup data.cache \subseteq DOMAIN data.pools
    BY DEF NamesResolve
  <2>1. GoodRouter(data)
    BY DEF IInv, Complete
  <2>2. data.lookup \in Seq(DOMAIN data.pools) /\ data.cache \subseteq DOMAIN data.pools
    BY <2>1 DEF GoodRouter
  <2>3. ToSet(data.lookup) \subseteq DOMAIN data.pools
    BY <2>2 DEF ToSet
  <2> QED
    BY <2>2, <2>3
<1> QED
  BY <1>1, Invariant, PTL

(* Blocks are looked for in the local pools, then in those of the flists   *)
(* in the order of the command line, with the storage-url after them when  *)
(* no flist has a router, and are written to the pools that a              *)
(* configuration calls its caches: getStoresFromCmd and Router.Merge lose  *)
(* no pool, add none of a flist and mix up no two of one name.             *)
THEOREM TablesAreMerged == Spec => []TablesMerged
<1>1. IInv => TablesMerged
  <2> SUFFICES ASSUME IInv, pc = "done" PROVE TablesMerged
    BY DEF TablesMerged
  <2>1. Complete(Blocks, Written, UrlSource, data)
    BY DEF IInv
  <2>2. MaxFlists \in Nat /\ UrlSource = MaxFlists + 1 /\ Sources = 0 .. UrlSource
    BY RouterSetupAssumption DEF UrlSource, Sources
  <2>3. \A i \in 1 .. UrlSource + 1 :
          Blocks[i - 1] = IF i - 1 \in Used THEN PoolsOf(i - 1, ConfigOf[i - 1]) ELSE <<>>
    <3>1. \A i \in 1 .. UrlSource + 1 : i - 1 \in Sources
      BY <2>2
    <3> QED
      BY <3>1 DEF Blocks
  <2>5. Asked = PoolsBefore(UrlSource) \o Blocks[UrlSource]
    <3> DEFINE B == [i \in 1 .. UrlSource + 1 |-> Blocks[i - 1]]
    <3>1. UrlSource \in Nat /\ \A i \in 1 .. UrlSource + 1 : i - 1 \in 0 .. UrlSource
      BY <2>2
    <3>2. \A i \in 1 .. UrlSource + 1 : B[i] \in Seq(Origins)
      BY <2>1, <3>1 DEF Complete
    <3>3. FlattenSeq([i \in 1 .. UrlSource + 1 |-> B[i]]) =
            FlattenSeq([i \in 1 .. UrlSource |-> B[i]]) \o B[UrlSource + 1]
      <4> HIDE DEF B
      <4> QED
        BY <3>1, <3>2, FlatGrow
    <3>4. [i \in 1 .. UrlSource |-> B[i]] =
            [i \in 1 .. UrlSource |->
               IF i - 1 \in Used THEN PoolsOf(i - 1, ConfigOf[i - 1]) ELSE <<>>]
      BY <2>2, <2>3, <3>1
    <3>5. B[UrlSource + 1] = Blocks[UrlSource]
      BY <2>2
    <3>6. LooksUp(data) = FlattenSeq([i \in 1 .. UrlSource + 1 |-> B[i]])
      BY <2>1 DEF Complete
    <3>7. Asked = LooksUp(data)
      BY DEF Asked, LooksUp
    <3> HIDE DEF B
    <3> QED
      BY <3>3, <3>4, <3>5, <3>6, <3>7 DEF PoolsBefore
  <2>9. Blocks[UrlSource] \in FallbackTails
    <3>1. /\ UrlSource \in Sources /\ UrlSource # LocalSource
          /\ Blocks[UrlSource] = IF UrlSource \in Used
                                 THEN PoolsOf(UrlSource, ConfigOf[UrlSource]) ELSE <<>>
      BY <2>2 DEF Blocks, LocalSource
    <3>2. ConfigOf[UrlSource] = IF url = "good" THEN SimpleConfig ELSE Missing
      BY <3>1 DEF ConfigOf
    <3>3. CASE url = "good"
      <4>1. UrlSource \in Used
        BY <3>1, <3>2, <3>3, SimpleAssumption DEF Used
      <4> QED
        BY <3>1, <3>2, <3>3, <4>1 DEF FallbackTails
    <3>4. CASE url # "good"
      <4>1. UrlSource \notin Used
        BY <3>1, <3>2, <3>4 DEF Used
      <4> QED
        BY <3>1, <3>4, <4>1 DEF FallbackTails
    <3> QED
      BY <3>3, <3>4
  <2>6. Used \subseteq Sources /\ \A s \in Sources :
          Written[s] = IF s \in Used THEN {<<s, p>> : p \in ConfigOf[s].cache} ELSE {}
    BY DEF Used, Written, CachesOf
  <2>7. UNION {Written[s] : s \in Sources} =
          UNION {{<<s, p>> : p \in ConfigOf[s].cache} : s \in Used}
    <3>1. ASSUME NEW s \in Sources, NEW o \in Written[s]
          PROVE  s \in Used /\ o \in {<<s, p>> : p \in ConfigOf[s].cache}
      BY <2>6, <3>1
    <3>2. \A s \in Used : s \in Sources /\ Written[s] = {<<s, p>> : p \in ConfigOf[s].cache}
      BY <2>6
    <3> QED
      BY <3>1, <3>2
  <2>8. Writes(data) = UNION {{<<s, p>> : p \in ConfigOf[s].cache} : s \in Used}
    BY <2>1, <2>2, <2>7 DEF Complete
  <2> QED
    BY <2>5, <2>8, <2>9 DEF TablesMerged, Writes
<1> QED
  BY <1>1, Invariant, PTL

-----------------------------------------------------------------------------
(* The number that digits stand for, of any base.                          *)
Values(d, n, K, f) ==
  /\ f \in [0 .. n -> Nat] /\ f[0] = 0
  /\ \A i \in 1 .. n : f[i] = f[i - 1] * K + d[i]

Numbers(d, n, f) ==
  f = [i \in 0 .. n |-> IF i = 0 THEN 0 ELSE f[i - 1] * Base + d[i]]

LEMMA NumbersExist ==
  ASSUME NEW d, NEW m \in Nat
  PROVE  \E f : Numbers(d, m, f)
<1> DEFINE T == {n \in 0 .. m : \E f : Numbers(d, n, f)}
<1>1. 0 \in T
  <2>1. PICK f : f = [i \in 0 .. 0 |-> 0]
    OBVIOUS
  <2>2. f = [i \in 0 .. 0 |-> IF i = 0 THEN 0 ELSE f[i - 1] * Base + d[i]]
    BY <2>1
  <2> QED
    BY <2>2 DEF Numbers
<1>2. ASSUME NEW n \in 1 .. m, n - 1 \in T PROVE n \in T
  <2>1. PICK g : Numbers(d, n - 1, g)
    BY <1>2
  <2>2. \A i \in 0 .. n - 1 : g[i] = IF i = 0 THEN 0 ELSE g[i - 1] * Base + d[i]
    BY <2>1 DEF Numbers
  <2> DEFINE last == g[n - 1] * Base + d[n]
             h == [i \in 0 .. n |-> IF i = n THEN last ELSE g[i]]
  <2>3. ASSUME NEW i \in 0 .. n
        PROVE  h[i] = IF i = 0 THEN 0 ELSE h[i - 1] * Base + d[i]
    <3>1. CASE i = n
      <4>1. h[i] = last /\ i # 0
        BY <3>1
      <4>2. h[i - 1] = g[n - 1]
        BY <1>2, <3>1
      <4> QED
        BY <3>1, <4>1, <4>2
    <3>2. CASE i # n
      <4>1. i \in 0 .. n - 1 /\ h[i] = g[i]
        BY <1>2, <3>2
      <4>2. i # 0 => h[i - 1] = g[i - 1]
        BY <1>2, <3>2
      <4> HIDE DEF h
      <4> QED
        BY <2>2, <4>1, <4>2
    <3> QED
      BY <3>1, <3>2
  <2>4. h = [i \in 0 .. n |-> h[i]]
    OBVIOUS
  <2>5. Numbers(d, n, h)
    <3> HIDE DEF h
    <3> QED
      BY <2>3, <2>4 DEF Numbers
  <2> QED
    BY <2>5
<1>3. \A i \in 0 .. m : i \in T
  <2> HIDE DEF T
  <2> QED
    BY <1>1, <1>2, Climb
<1> QED
  BY <1>3

LEMMA NumberIs ==
  ASSUME NEW d, NEW m \in Nat, d \in [1 .. m -> Digit]
  PROVE  \E f : Values(d, m, Base, f) /\ Number(d) = f[m]
<1>1. Len(d) = m
  OBVIOUS
<1>2. PICK f : f = CHOOSE g : Numbers(d, m, g)
  OBVIOUS
<1>3. Numbers(d, m, f)
  BY <1>2, NumbersExist
<1>4. Number(d) = f[m]
  BY <1>1, <1>2 DEF Number, Numbers
<1>5. \A i \in 0 .. m : f[i] = IF i = 0 THEN 0 ELSE f[i - 1] * Base + d[i]
  BY <1>3 DEF Numbers
<1>6. DOMAIN f = 0 .. m /\ f = [i \in 0 .. m |-> f[i]]
  BY <1>3 DEF Numbers
<1>7. f[0] = 0 /\ \A i \in 1 .. m : f[i] = f[i - 1] * Base + d[i]
  BY <1>5
<1>8. \A i \in 0 .. m : f[i] \in Nat
  <2> DEFINE T == {i \in 0 .. m : f[i] \in Nat}
  <2>1. 0 \in T
    BY <1>7
  <2>2. ASSUME NEW i \in 1 .. m, i - 1 \in T PROVE i \in T
    <3>1. d[i] \in Nat /\ Base \in Nat
      BY HashRangeAssumption DEF Digit
    <3>2. f[i - 1] * Base \in Nat
      BY <2>2, <3>1
    <3> QED
      BY <1>7, <3>1, <3>2
  <2>3. \A i \in 0 .. m : i \in T
    <3> HIDE DEF T
    <3> QED
      BY <2>1, <2>2, Climb
  <2> QED
    BY <2>3
<1> QED
  BY <1>4, <1>6, <1>7, <1>8 DEF Values

LEMMA Carry ==
  ASSUME NEW x \in Nat, NEW y \in Nat, x < y, NEW K \in Nat,
         NEW d \in 0 .. K - 1, NEW e \in 0 .. K - 1,
         NEW u, NEW v, u = x * K + d, v = y * K + e
  PROVE  u < v
<1>1. PICK z \in Nat : y = x + 1 + z
  <2>1. y - x - 1 \in Nat /\ y = x + 1 + (y - x - 1)
    OBVIOUS
  <2> QED
    BY <2>1
<1>2. y * K = x * K + K + z * K
  BY <1>1
<1>3. z * K \in Nat /\ x * K \in Nat
  OBVIOUS
<1> QED
  BY <1>2, <1>3

(* Of two sequences of n digits, by the first one in which they differ.    *)
Ahead(a, b, n) == \E j \in 1 .. n : a[j] < b[j] /\ \A i \in 1 .. j - 1 : a[i] = b[i]
Alike(a, b, n) == \A i \in 1 .. n : a[i] = b[i]

LEMMA AheadGrows ==
  ASSUME NEW a, NEW b, NEW k \in Nat, Ahead(a, b, k)
  PROVE  Ahead(a, b, k + 1)
BY DEF Ahead

Compared(a, b, f, g, k) ==
  \/ Ahead(a, b, k) /\ f[k] < g[k]
  \/ Ahead(b, a, k) /\ g[k] < f[k]
  \/ Alike(a, b, k) /\ f[k] = g[k]

LEMMA CompareOne ==
  ASSUME NEW K \in Nat, NEW n \in Nat, NEW a, NEW b, NEW f, NEW g,
         a \in [1 .. n -> 0 .. K - 1], b \in [1 .. n -> 0 .. K - 1],
         Values(a, n, K, f), Values(b, n, K, g),
         NEW i \in 1 .. n, Compared(a, b, f, g, i - 1)
  PROVE  Compared(a, b, f, g, i)
<1>1. PICK k \in Nat : k = i - 1 /\ i = k + 1
  OBVIOUS
<1>2. PICK x \in Nat, y \in Nat : x = f[k] /\ y = g[k]
  BY <1>1 DEF Values
<1>3. PICK d \in 0 .. K - 1, e \in 0 .. K - 1 : d = a[i] /\ e = b[i]
  OBVIOUS
<1>4. f[i] = x * K + d /\ g[i] = y * K + e
  BY <1>1, <1>2, <1>3 DEF Values
<1>5. CASE Ahead(a, b, k) /\ x < y
  <2>1. f[i] < g[i]
    BY <1>4, <1>5, Carry
  <2>2. Ahead(a, b, i)
    BY <1>1, <1>5, AheadGrows
  <2> QED
    BY <2>1, <2>2 DEF Compared
<1>6. CASE Ahead(b, a, k) /\ y < x
  <2>1. g[i] < f[i]
    BY <1>4, <1>6, Carry
  <2>2. Ahead(b, a, i)
    BY <1>1, <1>6, AheadGrows
  <2> QED
    BY <2>1, <2>2 DEF Compared
<1>7. CASE Alike(a, b, k) /\ x = y
  <2>1. PICK z \in Nat : z = x * K
    OBVIOUS
  <2>2. f[i] = z + d /\ g[i] = z + e
    BY <1>4, <1>7, <2>1
  <2>3. \A j \in 1 .. i - 1 : a[j] = b[j]
    BY <1>1, <1>7 DEF Alike
  <2>4. CASE d < e
    <3>1. f[i] < g[i]
      BY <1>3, <2>2, <2>4
    <3>2. Ahead(a, b, i)
      BY <1>3, <2>3, <2>4 DEF Ahead
    <3> QED
      BY <3>1, <3>2 DEF Compared
  <2>5. CASE e < d
    <3>1. g[i] < f[i]
      BY <1>3, <2>2, <2>5
    <3>2. Ahead(b, a, i)
      BY <1>3, <2>3, <2>5 DEF Ahead
    <3> QED
      BY <3>1, <3>2 DEF Compared
  <2>6. CASE d = e
    <3>1. \A j \in 1 .. i : j \in 1 .. i - 1 \/ j = i
      OBVIOUS
    <3> QED
      BY <1>3, <2>2, <2>3, <2>6, <3>1 DEF Compared, Alike
  <2> QED
    BY <2>4, <2>5, <2>6
<1> QED
  BY <1>1, <1>2, <1>5, <1>6, <1>7 DEF Compared

(* bytes.Compare orders like the numbers.                                  *)
LEMMA Order ==
  ASSUME NEW K \in Nat, NEW n \in Nat, NEW a, NEW b, NEW f, NEW g,
         a \in [1 .. n -> 0 .. K - 1], b \in [1 .. n -> 0 .. K - 1],
         Values(a, n, K, f), Values(b, n, K, g)
  PROVE  Before(a, b) <=> f[n] < g[n]
<1> DEFINE T == {k \in 0 .. n : Compared(a, b, f, g, k)}
<1>1. 0 \in T
  BY DEF Compared, Alike, Values
<1>2. ASSUME NEW i \in 1 .. n, i - 1 \in T PROVE i \in T
  <2>1. Compared(a, b, f, g, i - 1)
    BY <1>2
  <2>2. Compared(a, b, f, g, i)
    <3> HIDE DEF T
    <3> QED
      BY <2>1, CompareOne
  <2> QED
    BY <2>2
<1>3. \A i \in 0 .. n : i \in T
  <2> HIDE DEF T
  <2> QED
    BY <1>1, <1>2, Climb
<1>4. Compared(a, b, f, g, n)
  BY <1>3
<1>5. f[n] \in Nat /\ g[n] \in Nat
  BY DEF Values
<1>6. Before(a, b) <=> Ahead(a, b, n)
  BY DEF Before, Ahead
<1>7. ~(Ahead(a, b, n) /\ Alike(a, b, n))
  BY DEF Ahead, Alike
<1>8. ~(Ahead(a, b, n) /\ Ahead(b, a, n))
  <2> SUFFICES ASSUME Ahead(a, b, n), Ahead(b, a, n) PROVE FALSE
    OBVIOUS
  <2>1. PICK i \in 1 .. n : a[i] < b[i] /\ \A j \in 1 .. i - 1 : a[j] = b[j]
    BY DEF Ahead
  <2>2. PICK j \in 1 .. n : b[j] < a[j] /\ \A m \in 1 .. j - 1 : b[m] = a[m]
    BY DEF Ahead
  <2>3. i = j \/ i \in 1 .. j - 1 \/ j \in 1 .. i - 1
    OBVIOUS
  <2>4. \A m \in 1 .. n : a[m] \in Nat /\ b[m] \in Nat
    OBVIOUS
  <2> QED
    BY <2>1, <2>2, <2>3, <2>4
<1> QED
  BY <1>4, <1>5, <1>6, <1>7, <1>8 DEF Compared

(* Two digits at a time.                                                   *)
LEMMA BytesValue ==
  ASSUME NEW m \in Nat, NEW d, d \in [1 .. 2 * m -> Digit],
         NEW b, \A i \in 1 .. m : b[i] = Base * d[2 * i - 1] + d[2 * i]
  PROVE  \E g : Values(b, m, Base * Base, g) /\ Number(d) = g[m]
<1>1. PICK f : Values(d, 2 * m, Base, f) /\ Number(d) = f[2 * m]
  BY NumberIs
<1>2. PICK g : g = [i \in 0 .. m |-> f[2 * i]]
  OBVIOUS
<1>3. g[m] = Number(d) /\ g[0] = 0 /\ g \in [0 .. m -> Nat]
  BY <1>1, <1>2 DEF Values
<1>4. ASSUME NEW i \in 1 .. m PROVE g[i] = g[i - 1] * (Base * Base) + b[i]
  <2>1. PICK j \in 1 .. 2 * m : j = 2 * i /\ j - 1 \in 1 .. 2 * m
    OBVIOUS
  <2>2. PICK p \in Digit, q \in Digit : p = d[2 * i - 1] /\ q = d[2 * i]
    BY <2>1
  <2>3. PICK x \in Nat : x = f[j - 2] /\ x = g[i - 1]
    <3>1. j - 2 \in 0 .. 2 * m /\ j - 2 = 2 * (i - 1) /\ i - 1 \in 0 .. m
      BY <2>1
    <3> QED
      BY <1>1, <1>2, <3>1 DEF Values
  <2>4. f[j - 1] = x * Base + p
    <3>1. f[j - 1] = f[(j - 1) - 1] * Base + d[j - 1]
      BY <1>1, <2>1 DEF Values
    <3>2. (j - 1) - 1 = j - 2 /\ j - 1 = 2 * i - 1
      BY <2>1
    <3> QED
      BY <2>2, <2>3, <3>1, <3>2
  <2>5. f[j] = (x * Base + p) * Base + q
    <3>1. f[j] = f[j - 1] * Base + d[j]
      BY <1>1, <2>1 DEF Values
    <3> QED
      BY <2>1, <2>2, <2>4, <3>1
  <2>6. Base \in Nat /\ p \in Nat /\ q \in Nat
    BY HashRangeAssumption DEF Digit
  <2>7. (x * Base + p) * Base + q = x * (Base * Base) + (Base * p + q)
    BY <2>6
  <2>8. g[i] = f[j]
    BY <1>2, <2>1
  <2> QED
    BY <2>2, <2>3, <2>5, <2>7, <2>8
<1> QED
  BY <1>3, <1>4 DEF Values

TwoDigits(B, x, p, q) == p \in 0 .. B - 1 /\ q \in 0 .. B - 1 /\ x = B * p + q

LEMMA Halves ==
  ASSUME NEW B \in Nat \ {0}, NEW x \in 0 .. B * B - 1, NEW p, NEW q,
         p = x \div B, q = x % B
  PROVE  TwoDigits(B, x, p, q)
<1>1. q \in 0 .. B - 1
  OBVIOUS
<1>2. p \in Nat /\ p < B
  OBVIOUS
<1>3. x \in Nat /\ B > 0
  OBVIOUS
<1>4. x = B * p + q
  BY <1>3, SMTT(30)
<1> QED
  BY <1>1, <1>2, <1>4 DEF TwoDigits

(* d has the m bytes b, two digits each.                                   *)
Spells(d, b, m) ==
  /\ d \in [1 .. 2 * m -> Digit]
  /\ b = [i \in 1 .. m |-> Base * d[2 * i - 1] + d[2 * i]]

LEMMA SpellsBytes ==
  ASSUME NEW m \in Nat, NEW d, NEW b, Spells(d, b, m)
  PROVE  b \in [1 .. m -> 0 .. Base * Base - 1]
<1> SUFFICES ASSUME NEW i \in 1 .. m PROVE b[i] \in 0 .. Base * Base - 1
  BY DEF Spells
<1>1. PICK p \in Digit, q \in Digit : p = d[2 * i - 1] /\ q = d[2 * i]
  BY DEF Spells
<1>2. b[i] = Base * p + q
  BY <1>1 DEF Spells
<1>3. Base \in Nat /\ p \in Nat /\ q \in Nat /\ p <= Base - 1 /\ q <= Base - 1
  BY HashRangeAssumption DEF Digit
<1>4. Base * p <= Base * (Base - 1) /\ Base * p \in Nat
  BY <1>3
<1>5. Base * (Base - 1) = Base * Base - Base
  BY <1>3
<1> QED
  BY <1>2, <1>3, <1>4, <1>5

(* The same bytes are the same digits.                                     *)
LEMMA SpellsOnce ==
  ASSUME NEW m \in Nat, NEW d, NEW e, NEW b, Spells(d, b, m), Spells(e, b, m)
  PROVE  d = e
<1>1. ASSUME NEW i \in 1 .. m PROVE d[2 * i - 1] = e[2 * i - 1] /\ d[2 * i] = e[2 * i]
  <2>1. PICK p \in Digit, q \in Digit : p = d[2 * i - 1] /\ q = d[2 * i]
    BY DEF Spells
  <2>2. PICK x \in Digit, y \in Digit : x = e[2 * i - 1] /\ y = e[2 * i]
    BY DEF Spells
  <2>3. Base * p + q = Base * x + y
    BY <2>1, <2>2 DEF Spells
  <2>4. Base \in Nat /\ p \in Nat /\ x \in Nat /\ q \in 0 .. Base - 1 /\ y \in 0 .. Base - 1
    BY HashRangeAssumption DEF Digit
  <2>5. PICK u \in Nat : u = p * Base + q /\ u = x * Base + y
    BY <2>3, <2>4
  <2>6. ~(p < x)
    <3> SUFFICES ASSUME p < x PROVE FALSE
      OBVIOUS
    <3>1. u < u
      BY <2>4, <2>5, Carry
    <3> QED
      BY <3>1
  <2>7. ~(x < p)
    <3> SUFFICES ASSUME x < p PROVE FALSE
      OBVIOUS
    <3>1. u < u
      BY <2>4, <2>5, Carry
    <3> QED
      BY <3>1
  <2>8. p = x
    BY <2>4, <2>6, <2>7
  <2>9. q = y
    BY <2>3, <2>4, <2>8
  <2> QED
    BY <2>1, <2>2, <2>8, <2>9
<1>2. ASSUME NEW k \in 1 .. 2 * m PROVE d[k] = e[k]
  <2>1. \E i \in 1 .. m : k = 2 * i - 1 \/ k = 2 * i
    <3>1. k % 2 = 0 => k = 2 * (k \div 2) /\ k \div 2 \in 1 .. m
      OBVIOUS
    <3>2. k % 2 = 1 => k = 2 * ((k + 1) \div 2) - 1 /\ (k + 1) \div 2 \in 1 .. m
      OBVIOUS
    <3>3. k % 2 = 0 \/ k % 2 = 1
      OBVIOUS
    <3> QED
      BY <3>1, <3>2, <3>3
  <2> QED
    BY <1>1, <2>1
<1> QED
  BY <1>2 DEF Spells

(* The first m bytes of a key, in digits.                                  *)
LEMMA HeadIs ==
  ASSUME NEW h \in Hashes, NEW m \in 0 .. HashBytes
  PROVE  /\ Spells(SubSeq(Digits(h), 1, 2 * m), SubSeq(h, 1, m), m)
         /\ Digits(h) \in [1 .. 2 * HashBytes -> Digit]
<1>1. HashBytes \in Nat /\ Base \in Nat \ {0}
  BY HashRangeAssumption
<1>2. h \in [1 .. HashBytes -> 0 .. Base * Base - 1] /\ Len(h) = HashBytes
  BY <1>1 DEF Hashes, Byte
<1>3. PICK e : e = Digits(h)
  OBVIOUS
<1>4. DOMAIN e = 1 .. 2 * HashBytes
  BY <1>2, <1>3 DEF Digits
<1>5. ASSUME NEW i \in 1 .. HashBytes
      PROVE  /\ e[2 * i - 1] = h[i] \div Base /\ e[2 * i] = h[i] % Base
             /\ 2 * i - 1 \in 1 .. 2 * HashBytes /\ 2 * i \in 1 .. 2 * HashBytes
  <2>1. ((2 * i - 1) + 1) \div 2 = i /\ (2 * i - 1) % 2 = 1
    BY <1>1
  <2>2. (2 * i + 1) \div 2 = i /\ (2 * i) % 2 # 1
    BY <1>1
  <2>3. 2 * i - 1 \in 1 .. 2 * HashBytes /\ 2 * i \in 1 .. 2 * HashBytes
    BY <1>1
  <2>4. e[2 * i - 1] = h[i] \div Base
    BY <1>2, <1>3, <2>1, <2>3 DEF Digits
  <2>5. e[2 * i] = h[i] % Base
    BY <1>2, <1>3, <2>2, <2>3 DEF Digits
  <2> QED
    BY <2>3, <2>4, <2>5
<1>6. ASSUME NEW i \in 1 .. HashBytes
      PROVE  /\ e[2 * i - 1] \in Digit /\ e[2 * i] \in Digit
             /\ h[i] = Base * e[2 * i - 1] + e[2 * i]
  <2>1. PICK x \in 0 .. Base * Base - 1 : x = h[i]
    BY <1>2
  <2>2. PICK p, q : p = x \div Base /\ q = x % Base
    OBVIOUS
  <2>3. TwoDigits(Base, x, p, q)
    BY <1>1, <2>2, Halves
  <2>4. e[2 * i - 1] = p /\ e[2 * i] = q
    BY <1>5, <2>1, <2>2
  <2> QED
    BY <2>1, <2>3, <2>4 DEF Digit, TwoDigits
<1>7. ASSUME NEW k \in 1 .. 2 * HashBytes PROVE e[k] \in Digit
  <2>1. \E i \in 1 .. HashBytes : k = 2 * i - 1 \/ k = 2 * i
    <3>1. k % 2 = 0 => k = 2 * (k \div 2) /\ k \div 2 \in 1 .. HashBytes
      BY <1>1
    <3>2. k % 2 = 1 => k = 2 * ((k + 1) \div 2) - 1 /\ (k + 1) \div 2 \in 1 .. HashBytes
      BY <1>1
    <3>3. k % 2 = 0 \/ k % 2 = 1
      BY <1>1
    <3> QED
      BY <3>1, <3>2, <3>3
  <2> QED
    BY <1>6, <2>1
<1>8. e \in [1 .. 2 * HashBytes -> Digit]
  <2>1. e = [k \in 1 .. 2 * HashBytes |-> e[k]]
    BY <1>3, <1>4 DEF Digits
  <2> QED
    BY <1>7, <2>1
<1>9. PICK c : c = SubSeq(e, 1, 2 * m)
  OBVIOUS
<1>10. c = [k \in 1 .. 2 * m |-> e[k]]
  BY <1>1, <1>9
<1>11. SubSeq(h, 1, m) = [i \in 1 .. m |-> h[i]]
  BY <1>1
<1>12. \A i \in 1 .. m : h[i] = Base * c[2 * i - 1] + c[2 * i]
  BY <1>1, <1>6, <1>10
<1>13. c \in [1 .. 2 * m -> Digit]
  BY <1>1, <1>8, <1>10
<1>14. Spells(c, SubSeq(h, 1, m), m)
  BY <1>11, <1>12, <1>13 DEF Spells
<1> QED
  BY <1>3, <1>8, <1>9, <1>14

(* A zero more, or any digit.                                              *)
LEMMA OneMore ==
  ASSUME NEW n \in Nat, NEW s, NEW d, s \in [1 .. n -> Digit],
         d \in [1 .. n + 1 -> Digit], \A i \in 1 .. n : d[i] = s[i]
  PROVE  Number(d) = Number(s) * Base + d[n + 1] /\ Number(s) \in Nat
<1>1. PICK f : Values(s, n, Base, f) /\ Number(s) = f[n]
  BY NumberIs
<1>2. PICK g : Values(d, n + 1, Base, g) /\ Number(d) = g[n + 1]
  BY NumberIs
<1> DEFINE T == {i \in 0 .. n : f[i] = g[i]}
<1>3. 0 \in T
  BY <1>1, <1>2 DEF Values
<1>4. ASSUME NEW i \in 1 .. n, i - 1 \in T PROVE i \in T
  <2>1. f[i] = f[i - 1] * Base + s[i]
    BY <1>1 DEF Values
  <2>2. g[i] = g[i - 1] * Base + d[i]
    BY <1>2 DEF Values
  <2> QED
    BY <1>4, <2>1, <2>2
<1>5. \A i \in 0 .. n : i \in T
  <2> HIDE DEF T
  <2> QED
    BY <1>3, <1>4, Climb
<1>6. f[n] = g[n] /\ f[n] \in Nat
  BY <1>1, <1>5 DEF Values
<1>7. g[n + 1] = g[n] * Base + d[n + 1]
  <2>1. n + 1 \in 1 .. n + 1 /\ (n + 1) - 1 = n
    OBVIOUS
  <2> QED
    BY <1>2, <2>1 DEF Values
<1> QED
  BY <1>1, <1>2, <1>6, <1>7

(* d is s, made even with one more digit.                                  *)
Padded(s, n, d, m) ==
  /\ s \in [1 .. n -> Digit] /\ d \in [1 .. 2 * m -> Digit]
  /\ n = 2 * m \/ n = 2 * m - 1
  /\ \A i \in 1 .. n : d[i] = s[i]

(* HexToBytes pads with a zero.                                            *)
LEMMA HexIs ==
  ASSUME NEW n \in Nat, NEW s, s \in [1 .. n -> Digit],
         NEW m \in Nat, n = 2 * m \/ n = 2 * m - 1
  PROVE  \E d : /\ Padded(s, n, d, m) /\ Spells(d, HexToBytes(s), m)
                /\ n = 2 * m - 1 => d[2 * m] = 0
<1>1. Len(s) = n /\ s \in Seq(Digit)
  BY IsSeq
<1>2. 0 \in Digit
  BY HashRangeAssumption DEF Digit
<1>3. PICK d : d = Pad(s)
  OBVIOUS
<1>4. CASE n = 2 * m
  <2>1. n % 2 # 1
    BY <1>4
  <2>2. d = s
    BY <1>1, <1>3, <2>1 DEF Pad
  <2>3. Len(d) \div 2 = m
    BY <1>1, <1>4, <2>2
  <2>4. HexToBytes(s) = [i \in 1 .. m |-> Base * d[2 * i - 1] + d[2 * i]]
    BY <1>3, <2>3 DEF HexToBytes
  <2>5. d \in [1 .. 2 * m -> Digit] /\ \A i \in 1 .. n : d[i] = s[i]
    BY <1>4, <2>2
  <2> QED
    BY <1>4, <2>4, <2>5 DEF Padded, Spells
<1>5. CASE n = 2 * m - 1
  <2>1. n % 2 = 1 /\ m > 0
    BY <1>5
  <2>2. d = Append(s, 0)
    BY <1>1, <1>3, <2>1 DEF Pad
  <2>3. d \in Seq(Digit) /\ Len(d) = n + 1
    BY <1>1, <1>2, <2>2, AppendProperties
  <2>4. \A i \in 1 .. n : d[i] = s[i]
    BY <1>1, <1>2, <2>2, AppendProperties
  <2>5. d[n + 1] = 0
    BY <1>1, <1>2, <2>2, AppendProperties
  <2>6. n + 1 = 2 * m /\ d \in [1 .. 2 * m -> Digit]
    BY <1>5, <2>3
  <2>7. Len(d) \div 2 = m
    BY <2>3, <2>6
  <2>8. HexToBytes(s) = [i \in 1 .. m |-> Base * d[2 * i - 1] + d[2 * i]]
    BY <1>3, <2>7 DEF HexToBytes
  <2> QED
    BY <1>5, <2>4, <2>5, <2>6, <2>8 DEF Padded, Spells
<1> QED
  BY <1>4, <1>5

LEMMA PaddedNumber ==
  ASSUME NEW n \in Nat, NEW m \in Nat, NEW s, NEW d, Padded(s, n, d, m), n = 2 * m - 1
  PROVE  /\ Number(s) \in Nat /\ d[2 * m] \in 0 .. Base - 1
         /\ Number(d) = Number(s) * Base + d[2 * m]
<1>1. n + 1 = 2 * m /\ n + 1 \in 1 .. 2 * m
  OBVIOUS
<1>2. d \in [1 .. n + 1 -> Digit] /\ s \in [1 .. n -> Digit] /\ \A i \in 1 .. n : d[i] = s[i]
  BY <1>1 DEF Padded
<1>3. Number(d) = Number(s) * Base + d[n + 1] /\ Number(s) \in Nat
  BY <1>2, OneMore
<1> QED
  BY <1>1, <1>2, <1>3 DEF Digit

(* More digits do not turn an order round.                                 *)
LEMMA PaddedOrder ==
  ASSUME NEW n \in Nat, NEW m \in Nat, NEW s, NEW d, NEW t, NEW e,
         Padded(s, n, d, m), Padded(t, n, e, m), Number(d) <= Number(e)
  PROVE  Number(s) <= Number(t)
<1>1. CASE n = 2 * m
  <2>1. d = s /\ e = t
    BY <1>1 DEF Padded
  <2> QED
    BY <2>1
<1>2. CASE n = 2 * m - 1
  <2>1. PICK x \in Nat, y \in Nat : x = Number(s) /\ y = Number(t)
    BY <1>2, PaddedNumber
  <2>2. PICK p \in 0 .. Base - 1, q \in 0 .. Base - 1 : p = d[2 * m] /\ q = e[2 * m]
    BY <1>2, PaddedNumber
  <2>3. PICK u, v : u = Number(d) /\ v = Number(e)
    OBVIOUS
  <2>4. u = x * Base + p /\ v = y * Base + q
    BY <1>2, <2>1, <2>2, <2>3, PaddedNumber
  <2>5. Base \in Nat
    BY HashRangeAssumption
  <2>6. ~(y < x)
    <3> SUFFICES ASSUME y < x PROVE FALSE
      OBVIOUS
    <3>1. v < u
      BY <2>4, <2>5, Carry
    <3>2. x * Base \in Nat /\ y * Base \in Nat
      BY <2>5
    <3> QED
      BY <2>3, <2>4, <3>1, <3>2
  <2> QED
    BY <2>1, <2>6
<1> QED
  BY <1>1, <1>2 DEF Padded

(* Whole bytes need no digit more.                                        *)
LEMMA PaddedWhole ==
  ASSUME NEW m \in Nat, NEW n, NEW s, NEW d, Padded(s, n, d, m), n = 2 * m
  PROVE  d = s
BY DEF Padded

(* Bytes compare as the numbers that their digits stand for.               *)
LEMMA BytesOrder ==
  ASSUME NEW m \in Nat, NEW d, NEW a, NEW e, NEW b, Spells(d, a, m), Spells(e, b, m)
  PROVE  /\ Before(a, b) <=> Number(d) < Number(e)
         /\ Number(d) \in Nat /\ Number(e) \in Nat
<1>1. PICK K \in Nat : K = Base * Base
  BY HashRangeAssumption
<1>2. a \in [1 .. m -> 0 .. K - 1] /\ b \in [1 .. m -> 0 .. K - 1]
  BY <1>1, SpellsBytes
<1>3. PICK f : Values(a, m, K, f) /\ Number(d) = f[m]
  BY <1>1, BytesValue DEF Spells
<1>4. PICK g : Values(b, m, K, g) /\ Number(e) = g[m]
  BY <1>1, BytesValue DEF Spells
<1>5. Before(a, b) <=> f[m] < g[m]
  BY <1>2, <1>3, <1>4, Order
<1>6. f[m] \in Nat /\ g[m] \in Nat
  BY <1>3, <1>4 DEF Values
<1> QED
  BY <1>3, <1>4, <1>5, <1>6

(* A text as NewRange accepts it, with as many digits at both ends.        *)
Ranged(t, n) ==
  /\ t.start \in [1 .. n -> Digit]
  /\ t.end = NoEnd \/ (t.end # NoEnd /\ t.end \in [1 .. n -> Digit])

(* rangeMatch.In and exactMatch.In against the documented range: the keys  *)
(* that match are among those, and all of them for whole bytes.            *)
LEMMA RangeIs ==
  ASSUME NEW t, NEW n \in 1 .. 2 * HashBytes, Ranged(t, n), NEW h \in Hashes
  PROVE  /\ In(NewRange(t), h) => Meant(t, h)
         /\ n % 2 = 0 /\ Meant(t, h) => In(NewRange(t), h)
<1>1. HashBytes \in Nat
  BY HashRangeAssumption
<1>2. PICK m \in 1 .. HashBytes : n = 2 * m \/ n = 2 * m - 1
  <2>1. n % 2 = 0 => n = 2 * (n \div 2) /\ n \div 2 \in 1 .. HashBytes
    BY <1>1
  <2>2. n % 2 = 1 => n = 2 * ((n + 1) \div 2) - 1 /\ (n + 1) \div 2 \in 1 .. HashBytes
    BY <1>1
  <2>3. n % 2 = 0 \/ n % 2 = 1
    BY <1>1
  <2> QED
    BY <2>1, <2>2, <2>3
<1>3. m \in Nat /\ m \in 0 .. HashBytes /\ n \in Nat
  BY <1>1
<1>4. PICK a : a = HexToBytes(t.start)
  OBVIOUS
<1>5. PICK d : Padded(t.start, n, d, m) /\ Spells(d, a, m) /\ (n = 2 * m - 1 => d[2 * m] = 0)
  BY <1>2, <1>3, <1>4, HexIs DEF Ranged
<1>6. a \in [1 .. m -> 0 .. Base * Base - 1] /\ Len(a) = m
  BY <1>3, <1>5, SpellsBytes, IsSeq
<1>7. PICK head : head = SubSeq(h, 1, m)
  OBVIOUS
<1>8. PICK e : e = SubSeq(Digits(h), 1, 2 * m)
  OBVIOUS
<1>9. Spells(e, head, m) /\ Digits(h) \in [1 .. 2 * HashBytes -> Digit]
  BY <1>3, <1>7, <1>8, HeadIs
<1>10. PICK p : p = Prefix(t, h)
  OBVIOUS
<1>11. Padded(p, n, e, m)
  <2>1. Len(t.start) = n
    BY <1>3 DEF Ranged
  <2>2. p = [k \in 1 .. n |-> Digits(h)[k]]
    BY <1>3, <1>10, <2>1 DEF Prefix
  <2>3. e = [k \in 1 .. 2 * m |-> Digits(h)[k]]
    BY <1>3, <1>8
  <2>4. \A k \in 1 .. 2 * m : k \in 1 .. 2 * HashBytes
    BY <1>1, <1>3
  <2>5. \A k \in 1 .. n : k \in 1 .. 2 * m
    BY <1>2, <1>3
  <2>6. e \in [1 .. 2 * m -> Digit]
    BY <1>9, <2>3, <2>4
  <2>7. p \in [1 .. n -> Digit] /\ \A k \in 1 .. n : e[k] = p[k]
    BY <1>9, <2>2, <2>3, <2>4, <2>5
  <2> QED
    BY <1>2, <2>6, <2>7 DEF Padded
<1>12. Len(h) = HashBytes
  BY <1>1 DEF Hashes
<1>13. PICK r : r = NewRange(t)
  OBVIOUS
<1>14. CASE t.end = NoEnd
  <2>1. r.kind = "exact" /\ r.start = a
    BY <1>4, <1>13, <1>14 DEF NewRange
  <2>2. In(r, h) <=> head = a
    BY <1>1, <1>3, <1>6, <1>7, <1>12, <2>1 DEF In
  <2>3. Meant(t, h) <=> p = t.start
    BY <1>10, <1>14 DEF Meant
  <2>4. ASSUME head = a PROVE p = t.start
    <3>1. d = e
      BY <1>3, <1>5, <1>9, <2>4, SpellsOnce
    <3> QED
      BY <1>5, <1>11, <3>1 DEF Padded
  <2>5. ASSUME n % 2 = 0, p = t.start PROVE head = a
    <3>1. n = 2 * m
      BY <1>2, <1>3, <2>5
    <3>2. d = e
      BY <1>5, <1>11, <2>5, <3>1 DEF Padded
    <3> QED
      BY <1>5, <1>9, <3>2 DEF Spells
  <2> QED
    BY <1>13, <2>2, <2>3, <2>4, <2>5
<1>15. CASE t.end # NoEnd
  <2>1. t.end \in [1 .. n -> Digit]
    BY <1>15 DEF Ranged
  <2>2. PICK b : b = HexToBytes(t.end)
    OBVIOUS
  <2>3. PICK c : Padded(t.end, n, c, m) /\ Spells(c, b, m)
    BY <1>2, <1>3, <2>1, <2>2, HexIs
  <2>4. b \in [1 .. m -> 0 .. Base * Base - 1] /\ Len(b) = m
    BY <1>3, <2>3, SpellsBytes, IsSeq
  <2>5. r.kind = "range" /\ r.start = a /\ r.end = b
    BY <1>4, <1>6, <1>13, <1>15, <2>2, <2>4 DEF NewRange
  <2>6. In(r, h) <=> ~Before(head, a) /\ ~Before(b, head)
    BY <1>6, <1>7, <2>5 DEF In, AfterEnd
  <2>7. /\ Before(head, a) <=> Number(e) < Number(d)
        /\ Number(e) \in Nat /\ Number(d) \in Nat
    BY <1>3, <1>5, <1>9, BytesOrder
  <2>8. (Before(b, head) <=> Number(c) < Number(e)) /\ Number(c) \in Nat
    BY <1>3, <1>9, <2>3, BytesOrder
  <2>9. In(r, h) <=> Number(d) <= Number(e) /\ Number(e) <= Number(c)
    BY <2>6, <2>7, <2>8
  <2>10. Meant(t, h) <=> Number(t.start) <= Number(p) /\ Number(p) <= Number(t.end)
    BY <1>10, <1>15 DEF Meant
  <2>11. ASSUME In(r, h) PROVE Meant(t, h)
    <3>1. Number(t.start) <= Number(p)
      BY <1>3, <1>5, <1>11, <2>9, <2>11, PaddedOrder
    <3>2. Number(p) <= Number(t.end)
      BY <1>3, <1>11, <2>3, <2>9, <2>11, PaddedOrder
    <3> QED
      BY <2>10, <3>1, <3>2
  <2>12. ASSUME n % 2 = 0, Meant(t, h) PROVE In(r, h)
    <3>1. n = 2 * m
      BY <1>2, <1>3, <2>12
    <3>2. d = t.start /\ e = p /\ c = t.end
      BY <1>3, <1>5, <1>11, <2>3, <3>1, PaddedWhole
    <3> QED
      BY <2>9, <2>10, <2>12, <3>2
  <2> QED
    BY <1>13, <2>11, <2>12
<1> QED
  BY <1>14, <1>15

-----------------------------------------------------------------------------
(* The ranges of the pools.  NewRange accepts a text when its digits fit a *)
(* key and both ends have as many bytes.                                   *)

KeyDigits == UNION {[1 .. n -> Digit] : n \in 1 .. 2 * HashBytes}

Accepted(t) ==
  /\ t.start \in KeyDigits /\ t.end \in KeyDigits \cup {NoEnd}
  /\ NewRange(t).kind # "invalid"

(* Every pool has the range of the configuration that it comes from.       *)
AsWritten(C, r) ==
  \A n \in DOMAIN r.pools :
    LET p == r.pools[n]
        t == C[p.source].pools[p.name]
    IN  p.range = NewRange(t) /\ Accepted(t)

LEMMA BytesOf ==
  ASSUME NEW n \in 1 .. 2 * HashBytes, n % 2 = 0, NEW s \in [1 .. n -> Digit]
  PROVE  Len(s) = n /\ Len(HexToBytes(s)) = n \div 2
<1>1. HashBytes \in Nat /\ n \in Nat
  BY HashRangeAssumption
<1>2. PICK m \in 1 .. HashBytes : n = 2 * m /\ n \div 2 = m /\ m \in Nat
  BY <1>1
<1>3. PICK d : Spells(d, HexToBytes(s), m)
  BY <1>1, <1>2, HexIs
<1>4. HexToBytes(s) \in [1 .. m -> 0 .. Base * Base - 1]
  BY <1>2, <1>3, SpellsBytes
<1> QED
  BY <1>1, <1>2, <1>4, IsSeq

(* What a pool with the range of t is asked for.                           *)
LEMMA AcceptedIs ==
  ASSUME NEW t, Accepted(t), NEW h \in Hashes
  PROVE  /\ SameLength(t) /\ In(NewRange(t), h) => Meant(t, h)
         /\ WholeBytes(t) => (In(NewRange(t), h) <=> Meant(t, h))
<1>1. PICK n \in 1 .. 2 * HashBytes : t.start \in [1 .. n -> Digit]
  BY DEF Accepted, KeyDigits
<1>2. HashBytes \in Nat /\ n \in Nat /\ Len(t.start) = n
  BY <1>1, IsSeq, HashRangeAssumption
<1>3. CASE t.end = NoEnd
  <2>1. Ranged(t, n)
    BY <1>1, <1>3 DEF Ranged
  <2>2. WholeBytes(t) => n % 2 = 0
    BY <1>2 DEF WholeBytes
  <2> QED
    BY <2>1, <2>2, RangeIs
<1>4. CASE t.end # NoEnd
  <2>1. PICK m \in 1 .. 2 * HashBytes : t.end \in [1 .. m -> Digit]
    BY <1>4 DEF Accepted, KeyDigits
  <2>2. m \in Nat /\ Len(t.end) = m /\ m # 0
    BY <1>2, <2>1, IsSeq
  <2>3. SameLength(t) => m = n
    BY <1>2, <2>2 DEF SameLength
  <2>4. WholeBytes(t) => n % 2 = 0 /\ m = n
    <3> SUFFICES ASSUME WholeBytes(t) PROVE n % 2 = 0 /\ m = n
      OBVIOUS
    <3>1. n % 2 = 0 /\ m % 2 = 0
      BY <1>2, <2>2 DEF WholeBytes
    <3>2. Len(HexToBytes(t.start)) = Len(HexToBytes(t.end))
      BY <1>4 DEF Accepted, NewRange
    <3>3. n \div 2 = m \div 2
      BY <1>1, <2>1, <3>1, <3>2, BytesOf
    <3> QED
      BY <1>2, <2>2, <3>1, <3>3
  <2>5. m = n => Ranged(t, n)
    BY <1>1, <1>4, <2>1 DEF Ranged
  <2> QED
    BY <2>3, <2>4, <2>5, RangeIs
<1> QED
  BY <1>3, <1>4

LEMMA ValidIsAccepted ==
  ASSUME NEW c \in Configs \cup LocalConfigs, Valid(c), NEW p \in DOMAIN c.pools
  PROVE  Accepted(c.pools[p])
<1>1. c.pools[p] \in Texts /\ NewRange(c.pools[p]).kind # "invalid"
  BY RouterSetupAssumption DEF Valid, RulesOk, Names
<1>2. DigitStrings \subseteq KeyDigits
  <2>1. \A n \in 1 .. MaxDigits : n \in 1 .. 2 * HashBytes
    BY HashRangeAssumption
  <2> QED
    BY <2>1 DEF DigitStrings, KeyDigits
<1> QED
  BY <1>1, <1>2 DEF Texts, Accepted

LEMMA SimpleIsAccepted ==
  ASSUME NEW p \in DOMAIN SimpleConfig.pools
  PROVE  Accepted(SimpleConfig.pools[p])
<1>1. SimpleConfig.pools[p] = Everything
  BY DEF SimpleConfig
<1>2. 2 \in 1 .. 2 * HashBytes /\ 2 % 2 = 0
  BY HashRangeAssumption
<1>3. Everything.start \in [1 .. 2 -> Digit] /\ Everything.end \in [1 .. 2 -> Digit]
  BY HashRangeAssumption DEF Everything, Digit
<1>4. Len(HexToBytes(Everything.start)) = Len(HexToBytes(Everything.end))
  BY <1>2, <1>3, BytesOf
<1>5. NewRange(Everything).kind # "invalid"
  BY <1>4 DEF NewRange
<1> QED
  BY <1>1, <1>2, <1>3, <1>5 DEF Accepted, KeyDigits

LEMMA RouterAsWritten ==
  ASSUME NEW C, NEW source, NEW c, C[source] = c,
         \A p \in DOMAIN c.pools : Accepted(c.pools[p])
  PROVE  AsWritten(C, RouterOf(source, c))
<1>1. PICK r : r = RouterOf(source, c)
  OBVIOUS
<1>2. ASSUME NEW n \in DOMAIN r.pools
      PROVE  \E p \in DOMAIN c.pools :
               /\ r.pools[n].source = source /\ r.pools[n].name = p
               /\ r.pools[n].range = NewRange(c.pools[p])
  BY <1>1 DEF RouterOf, Names
<1> QED
  BY <1>1, <1>2 DEF AsWritten

LEMMA MergeAsWritten ==
  ASSUME NEW C, NEW rs, Good(rs), \A i \in 1 .. Len(rs) : AsWritten(C, rs[i])
  PROVE  AsWritten(C, Merge(rs))
<1>1. PICK r : r = Merge(rs)
  OBVIOUS
<1>2. AllPools(rs, r.pools)
  BY <1>1, MergedPools
<1>3. ASSUME NEW name \in DOMAIN r.pools
      PROVE  \E i \in 1 .. Len(rs) : \E n \in DOMAIN rs[i].pools :
               r.pools[name] = rs[i].pools[n]
  BY <1>2 DEF AllPools
<1> QED
  BY <1>1, <1>3 DEF AsWritten

LEMMA AppendAsWritten ==
  ASSUME NEW C, NEW rs, Good(rs), \A i \in 1 .. Len(rs) : AsWritten(C, rs[i]),
         NEW r, AsWritten(C, r), NEW qs, qs = Append(rs, r)
  PROVE  \A i \in 1 .. Len(qs) : AsWritten(C, qs[i])
<1>1. PICK R : R = ToSet(rs) \cup {r}
  OBVIOUS
<1>2. rs \in Seq(R) /\ r \in R
  <2>1. rs \in Seq(ToSet(rs)) /\ ToSet(rs) \subseteq R
    BY <1>1 DEF Good
  <2>2. \A S, T : S \subseteq T => Seq(S) \subseteq Seq(T)
    OBVIOUS
  <2> QED
    BY <1>1, <2>1, <2>2
<1>3. /\ Len(qs) = Len(rs) + 1 /\ Len(rs) \in Nat
      /\ \A i \in 1 .. Len(rs) : qs[i] = rs[i]
      /\ qs[Len(rs) + 1] = r
  BY <1>2, AppendProperties
<1> QED
  BY <1>3

LEMMA TwoAsWritten ==
  ASSUME NEW C, NEW l, NEW r, GoodRouter(l), GoodRouter(r),
         AsWritten(C, l), AsWritten(C, r)
  PROVE  AsWritten(C, Merge(<<l, r>>))
<1>1. PICK q : q = <<l, r>>
  OBVIOUS
<1>2. /\ Len(q) = 2 /\ q[1] = l /\ q[2] = r /\ DOMAIN q = 1 .. 2
      /\ \A i \in 1 .. 2 : i = 1 \/ i = 2
  BY <1>1
<1>3. q \in [1 .. 2 -> ToSet(q)]
  BY <1>1, <1>2 DEF ToSet
<1>4. Good(q)
  BY <1>2, <1>3, IsSeq DEF Good
<1> QED
  BY <1>1, <1>2, <1>4, MergeAsWritten

(* What the set-up keeps of the ranges.                                    *)
RangesKept ==
  /\ \A i \in 1 .. Len(routers) : AsWritten(ConfigOf, routers[i])
  /\ pc \in {"local", "done"} => AsWritten(ConfigOf, data)

LEMMA RangesStep == IInv /\ RangesKept /\ [Next]_vars => RangesKept'
<1> SUFFICES ASSUME IInv, RangesKept, [Next]_vars PROVE RangesKept'
  OBVIOUS
<1>1. UNCHANGED input
  BY DEF Next, vars, UrlFail, UrlOk, SkipMissing, LoadFail, Load, AddFallback,
         MergeAll, Panic, NoLocal, LocalFail, AddLocal, Fail
<1>2. PICK C : C = ConfigOf /\ ConfigOf' = C
  BY <1>1 DEF input, ConfigOf
<1>3. MaxFlists \in Nat /\ UrlSource = MaxFlists + 1 /\ LocalSource = 0
      /\ Sources = 0 .. MaxFlists + 1
  BY RouterSetupAssumption DEF UrlSource, LocalSource, Sources
<1>4. CASE \/ UrlFail \/ LoadFail \/ LocalFail \/ Panic \/ UrlOk \/ SkipMissing
           \/ NoLocal \/ UNCHANGED vars
  <2>1. routers' = routers /\ (pc' \in {"local", "done"} => data' = data /\ pc \in {"local", "done"})
    BY <1>4 DEF vars, UrlFail, LoadFail, LocalFail, Panic, UrlOk, SkipMissing,
                NoLocal, Fail
  <2> QED
    BY <1>2, <2>1 DEF RangesKept
<1>5. CASE Load
  <2>1. /\ pc = "flists" /\ pc' = "flists" /\ next <= Len(yaml)
        /\ yaml[next] \in Configs /\ Valid(yaml[next])
        /\ routers' = Append(routers, RouterOf(next, yaml[next]))
    BY <1>5 DEF Load
  <2>2. /\ next \in 1 .. Len(yaml) + 1 /\ DOMAIN yaml = 1 .. Len(yaml)
        /\ Len(yaml) \in Nat /\ Len(yaml) <= MaxFlists /\ Good(routers)
    BY <2>1 DEF IInv, Inputs, Gathered
  <2>3. next \in DOMAIN yaml /\ next \in Sources /\ next # LocalSource /\ next # UrlSource
    BY <1>3, <2>1, <2>2
  <2>4. C[next] = yaml[next]
    BY <1>2, <2>3 DEF ConfigOf
  <2>5. AsWritten(C, RouterOf(next, yaml[next]))
    BY <2>1, <2>4, ValidIsAccepted, RouterAsWritten
  <2>6. \A i \in 1 .. Len(routers') : AsWritten(C, routers'[i])
    BY <1>2, <2>1, <2>2, <2>5, AppendAsWritten DEF RangesKept
  <2> QED
    BY <1>2, <2>1, <2>6 DEF RangesKept
<1>6. CASE AddFallback
  <2>1. /\ pc = "flists" /\ pc' = "merge"
        /\ routers' = IF url = "good" THEN Append(routers, Fallback) ELSE routers
    BY <1>6 DEF AddFallback
  <2>2. Good(routers)
    BY <2>1 DEF IInv, Gathered
  <2>3. ASSUME url = "good"
        PROVE  \A i \in 1 .. Len(routers') : AsWritten(C, routers'[i])
    <3>1. C[UrlSource] = SimpleConfig
      BY <1>2, <1>3, <2>3 DEF ConfigOf
    <3>2. AsWritten(C, Fallback)
      BY <3>1, SimpleIsAccepted, RouterAsWritten DEF Fallback
    <3> QED
      BY <1>2, <2>1, <2>2, <2>3, <3>2, AppendAsWritten DEF RangesKept
  <2> QED
    BY <1>2, <2>1, <2>3 DEF RangesKept
<1>7. CASE MergeAll
  <2>1. pc = "merge" /\ routers' = routers /\ data' = Merge(routers)
    BY <1>7 DEF MergeAll
  <2>2. Good(routers)
    BY <2>1 DEF IInv, Gathered
  <2> QED
    BY <1>2, <2>1, <2>2, MergeAsWritten DEF RangesKept
<1>8. CASE AddLocal
  <2>1. /\ pc = "local" /\ routers' = routers
        /\ local \in LocalConfigs /\ Valid(local)
        /\ data' = Merge(<<RouterOf(LocalSource, local), data>>)
    BY <1>8 DEF AddLocal
  <2>2. GoodRouter(data) /\ AsWritten(C, data)
    BY <1>2, <2>1 DEF IInv, Table, RangesKept
  <2>3. C[LocalSource] = local
    BY <1>2, <1>3 DEF ConfigOf
  <2>4. GoodRouter(RouterOf(LocalSource, local))
    BY <1>3, <2>1, ValidIsUsable, RouterOfIs
  <2>5. AsWritten(C, RouterOf(LocalSource, local))
    BY <2>1, <2>3, ValidIsAccepted, RouterAsWritten
  <2>6. AsWritten(C, data')
    BY <2>1, <2>2, <2>4, <2>5, TwoAsWritten
  <2> QED
    BY <1>2, <2>1, <2>6 DEF RangesKept
<1> QED
  BY <1>4, <1>5, <1>6, <1>7, <1>8 DEF Next

(* range.go against docs/flists/router.md: no pool of the mount is asked   *)
(* for a key outside the range of its configuration, and with whole bytes  *)
(* it is asked for every key inside, for any base and any key length.      *)
THEOREM RangesAreExact == Spec => []NeverTooWide
<1>1. Init => RangesKept
  <2> SUFFICES ASSUME Init PROVE RangesKept
    OBVIOUS
  <2>1. routers = <<>> /\ Len(routers) = 0 /\ pc = "url"
    BY DEF Init
  <2> QED
    BY <2>1 DEF RangesKept
<1>2. RangesKept => NeverTooWide
  <2> SUFFICES ASSUME RangesKept, pc = "done", NEW p \in DataPools
               PROVE  /\ SameLength(Text(p)) => Matches(p) \subseteq Documented(p)
                      /\ WholeBytes(Text(p)) => Matches(p) = Documented(p)
    BY DEF NeverTooWide
  <2>1. p.range = NewRange(Text(p)) /\ Accepted(Text(p))
    BY DEF RangesKept, AsWritten, DataPools, Text
  <2>2. \A h \in Hashes :
          /\ SameLength(Text(p)) /\ In(p.range, h) => Meant(Text(p), h)
          /\ WholeBytes(Text(p)) => (In(p.range, h) <=> Meant(Text(p), h))
    BY <2>1, AcceptedIs
  <2> QED
    BY <2>2 DEF Matches, Documented
<1> QED
  BY <1>1, <1>2, Invariant, RangesStep, PTL DEF Spec
==============================================================================
