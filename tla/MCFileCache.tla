---------------------------- MODULE MCFileCache -----------------------------
(* Small instances of FileCache for TLC: two instances, the first with one *)
(* thread more than the second.                                            *)
EXTENDS FileCache, FiniteSets, TLC

CONSTANTS t1, t2, t3, i1, i2, i3, i4, p1, p2

TwoThreads   == {t1, t2}
ThreeThreads == {t1, t2, t3}

OwnerOfTwo   == [t \in TwoThreads |-> IF t = t1 THEN p1 ELSE p2]
OwnerOfThree == [t \in ThreeThreads |-> IF t = t3 THEN p2 ELSE p1]

(* A free inode for every thread: opening the path never lacks one.        *)
ASSUME EnoughInodes == Cardinality(Inodes) > Cardinality(Threads)

(* Inodes are interchangeable, and so are the threads of one instance.     *)
InodeSymmetry == Permutations(Inodes)
CacheSymmetry ==
  InodeSymmetry \cup
    {p \in Permutations(Threads) : \A t \in Threads : Owner[p[t]] = Owner[t]}
=============================================================================
