------------------------------ MODULE MetaStore ------------------------------
(***************************************************************************)
(* meta/store.go and the inodes of meta: lookups in the database of one    *)
(* flist.  A directory is read by the hash of its path and kept in an LRU  *)
(* cache; anything else is looked for among the children of its parent,    *)
(* which are read once for every Dir.  Access rights are rows of their     *)
(* own, behind a second cache; owners' names are resolved once.            *)
(*                                                                         *)
(* A Dir is known by its chain <<r, p>>: the Dir of path p that was        *)
(* reached from the cached Dir of r.  A Dir that leaves the cache while a  *)
(* thread uses it lives on under the name of that thread.                  *)
(***************************************************************************)
EXTENDS Flist, FiniteSets, FiniteSetsExt

CONSTANTS
  Threads,
  Acl, Aci,         (* the key of each inode, and the row of each key:     *)
                    (* no row, an owner's number or an owner's name        *)
  DirCacheSize, AccessCacheSize,
  FaultSets,        (* whether the database may fail, for each behaviour   *)
  None, Unset,      (* no such Dir; Children were not asked for            *)
  Nil               (* a nil *Dir among the children                       *)

Keys == DOMAIN Aci
Rights == {"default", "id", "known", "1000"}
Chains == {c \in (Dirs \cup Threads) \X Dirs :
             c[1] \in Dirs => IsPrefix(c[1], c[2])}

(* A Dir keeps the rights of its files and links; its subdirectories are   *)
(* Dirs of their own.                                                      *)
DirSet == [access : Rights,
           kids : {Unset} \cup UNION {[Plain(p) -> Rights] : p \in Dirs}]

(* What a lookup tells.                                                    *)
Infos == [kind : {"dir", "file", "link", "none"}, access : Rights \cup {"none"},
          list : SUBSET Paths]

ASSUME MetaStoreAssumption ==
  /\ Acl \in [Paths -> Keys] /\ Aci \in [Keys -> {"norow", "id", "name"}]
  /\ {DirCacheSize, AccessCacheSize} \subseteq Nat \ {0}
  /\ FaultSets \subseteq SUBSET {"db"} /\ Threads \cap Dirs = {}
  /\ None # Nil /\ Nil \notin DirSet
  /\ None \notin DirSet /\ None \notin Chains /\ None \notin Infos
  /\ Unset \notin Rights /\ \A p \in Dirs : Unset \notin [Plain(p) -> Rights]

VARIABLES
  faults,
  cache,       (* the cached paths, the last used first                    *)
  obj,         (* the Dir of each chain                                    *)
  acl,         (* the keys of the cached rights                            *)
  users,       (* what the owners' name was resolved to                    *)
  pc, op,      (* where each thread is, and what it asks                   *)
  goal, at,    (* the path it asks for, and where its lookup is            *)
  held,        (* the chain of the Dir it has                              *)
  clean,       (* history: whether the database answered all its queries   *)
  ret          (* its answer                                               *)

mem  == <<cache, obj, acl, users>>
call == <<op, goal>>
vars == <<faults, mem, pc, call, at, held, clean, ret>>

DbFaults == "db" \in faults

NotFound == [kind |-> "none", access |-> "none", list |-> {}]

(* What files and links, and directories, tell of themselves.              *)
FileInfo(p, access) == [kind |-> KindOf(p), access |-> access, list |-> {}]
DirInfo(access, list) == [kind |-> "dir", access |-> access, list |-> list]

Init ==
  /\ faults \in FaultSets
  /\ cache = <<>> /\ acl = {} /\ users = Unset
  /\ obj = [c \in Chains |-> None]
  /\ pc = [t \in Threads |-> "idle"] /\ op = [t \in Threads |-> "get"]
  /\ goal = [t \in Threads |-> <<>>] /\ at = [t \in Threads |-> <<>>]
  /\ held = [t \in Threads |-> None]
  /\ clean = [t \in Threads |-> TRUE]
  /\ ret = [t \in Threads |-> None]

-----------------------------------------------------------------------------
(* getACI and getAccess.  The default rights stand for a row that is not   *)
(* there, and in getChildren for one that could not be read.               *)

Access(p, owner) ==
  CASE Aci[Acl[p]] = "norow" -> "default"
    [] Aci[Acl[p]] = "id"    -> "id"
    [] OTHER                 -> owner

LookUpAgain(ps) ==                (* slip: failures are not remembered     *)
  users' \in IF \E p \in ps : Aci[Acl[p]] = "name" THEN {"known", "1000"}
             ELSE {users}

(* lookUpUser and lookUpGroup: 1000 for a name that nobody has here.       *)
LookUp(ps) ==
  users' \in IF users = Unset /\ \E p \in ps : Aci[Acl[p]] = "name"
             THEN {"known", "1000"} ELSE {users}

(* Rights that were read are cached, and some leave the cache when it is   *)
(* full, whichever were used last.                                         *)
Remember(ps) ==
  LET all == acl \cup {k \in {Acl[p] : p \in ps} : Aci[k] # "norow"}
  IN  acl' \in kSubset(Min({AccessCacheSize, Cardinality(all)}), all)

(* A query for an inode of a directory may fail: its rights if they are    *)
(* not cached, and the row of a subdirectory.                              *)
CanFail(p) == DbFaults /\ (p \in Dirs \/ Acl[p] \notin acl)

-----------------------------------------------------------------------------
(* The LRU cache of directories.                                           *)

(* p first, then the others in their order.                                *)
Used(p) ==
  LET k == IF p \in ToSet(cache) THEN CHOOSE i \in DOMAIN cache : cache[i] = p
           ELSE Len(cache) + 1
  IN  [i \in DOMAIN cache \cup {k} |->
         IF i = 1 THEN p ELSE IF i <= k THEN cache[i - 1] ELSE cache[i]]

KeepAll(p) == Used(p)                          (* slip: nothing is evicted *)

Lru(p) == SubSeq(Used(p), 1, Min({Len(Used(p)), DirCacheSize}))

NewDir(p) == [access |-> Access(p, users'), kids |-> Unset]

(* Add p: its old Dir and the one that is evicted are left to those        *)
(* threads that have them.                                                 *)
Add(t, p) ==
  LET gone == {p} \cup (ToSet(cache) \ ToSet(Lru(p)))
      Orphan(u) == held[u] # None /\ held[u][1] \in gone
      Copied(c) == /\ c[1] \in Threads /\ Orphan(c[1])
                   /\ IsPrefix(held[c[1]][2], c[2])
  IN  /\ cache' = Lru(p)
      /\ obj' = [c \in Chains |->
           IF c = <<p, p>> THEN NewDir(p)
           ELSE IF c[1] \in gone THEN None
           ELSE IF Copied(c) THEN obj[<<held[c[1]][1], c[2]>>] ELSE obj[c]]
      /\ held' = [u \in Threads |->
           IF u = t THEN <<p, p>>
           ELSE IF Orphan(u) THEN <<u, held[u][2]>> ELSE held[u]]

-----------------------------------------------------------------------------
(* get, from the path itself up to the nearest directory.                  *)

Call(t, o, p) ==
  /\ pc[t] = "idle"
  /\ pc' = [pc EXCEPT ![t] = "up"]
  /\ op' = [op EXCEPT ![t] = o] /\ goal' = [goal EXCEPT ![t] = p]
  /\ at' = [at EXCEPT ![t] = p]
  /\ clean' = [clean EXCEPT ![t] = TRUE] /\ ret' = [ret EXCEPT ![t] = None]
  /\ UNCHANGED <<faults, mem, held>>

Miss(t) ==
  /\ pc[t] = "up" /\ at[t] \notin ToSet(cache)
  /\ pc' = [pc EXCEPT ![t] = "read"]
  /\ UNCHANGED <<faults, mem, call, at, held, clean, ret>>

Hit(t) ==
  /\ pc[t] = "up" /\ at[t] \in ToSet(cache)
  /\ cache' = Lru(at[t])
  /\ held' = [held EXCEPT ![t] = <<at[t], at[t]>>]
  /\ pc' = [pc EXCEPT ![t] = "have"]
  /\ UNCHANGED <<faults, obj, acl, users, call, at, clean, ret>>

(* getDir: the row of the directory and its rights.  Another thread may    *)
(* have added the same directory since the miss.                           *)
GetDir(t) ==
  /\ pc[t] = "read" /\ at[t] \in Dirs
  /\ LookUp({at[t]}) /\ Remember({at[t]})
  /\ Add(t, at[t])
  /\ pc' = [pc EXCEPT ![t] = "have"]
  /\ UNCHANGED <<faults, call, at, clean, ret>>

(* The call is over; a Dir that nobody else has goes with it.              *)
Return(t, answer) ==
  /\ ret' = [ret EXCEPT ![t] = answer]
  /\ pc' = [pc EXCEPT ![t] = "idle"]
  /\ held' = [held EXCEPT ![t] = None]
  /\ at' = [at EXCEPT ![t] = <<>>]
  /\ obj' = [c \in Chains |-> IF c[1] = t THEN None ELSE obj[c]]

(* No row, or any error: the parent, if there is one.                      *)
NoDir(t) ==
  /\ pc[t] = "read"
  /\ at[t] \notin Dirs \/ DbFaults
  /\ clean' = [clean EXCEPT ![t] = @ /\ at[t] \notin Dirs]
  /\ IF at[t] = <<>> THEN Return(t, NotFound)
     ELSE /\ at' = [at EXCEPT ![t] = Front(@)]
          /\ pc' = [pc EXCEPT ![t] = "up"]
          /\ UNCHANGED <<held, obj, ret>>
  /\ UNCHANGED <<faults, cache, acl, users, call>>

-----------------------------------------------------------------------------
(* Children, once for every Dir.                                           *)

Wanted(t) ==                  (* whether the thread needs its Dir's children *)
  pc[t] = "have" /\ (at[t] # goal[t] \/ op[t] = "list")

SkipFailed(p, failed) == Plain(p) \ failed  (* slip: no rights, no child   *)

(* Files and links are there with or without their rights.                 *)
Kept(p, failed) == Plain(p)

DefaultDir(failed, c) ==      (* slip: a subdirectory with default rights  *)
  [access |-> IF c \in failed THEN "default" ELSE Access(c, users'),
   kids |-> Unset]

SubDir(failed, c) == IF c \in failed THEN Nil ELSE NewDir(c)

GetChildren(t) ==
  /\ Wanted(t) /\ obj[held[t]].kids = Unset
  /\ LET r == held[t][1]
         p == held[t][2]
         all == Plain(p) \cup SubDirs(p)
     IN \E failed \in SUBSET {c \in all : CanFail(c)} :
          /\ LookUp(all \ failed) /\ Remember(all \ failed)
          /\ obj' = [c \in Chains |->
               IF c = <<r, p>>
               THEN [obj[c] EXCEPT !.kids =
                       [f \in Kept(p, failed) |->
                          IF f \in failed THEN "default" ELSE Access(f, users')]]
               ELSE IF c[1] = r /\ c[2] \in SubDirs(p) THEN SubDir(failed, c[2])
               ELSE obj[c]]
          /\ clean' = [clean EXCEPT ![t] = @ /\ failed = {}]
  /\ UNCHANGED <<faults, cache, pc, call, at, held, ret>>

Ready(t) == Wanted(t) /\ obj[held[t]].kids # Unset

(* A nil Dir panics when it is asked for its name.                         *)
NilAmong(t, ps) == \E p \in ps \cap SubDirs(at[t]) : obj[<<held[t][1], p>>] = Nil

Panic(t) ==
  /\ pc' = [pc EXCEPT ![t] = "panic"]
  /\ UNCHANGED <<faults, mem, call, at, held, clean, ret>>

(* The children in the order of the flist, up to the one with the name.    *)
Scan(t) ==
  LET next == SubSeq(goal[t], 1, Len(at[t]) + 1)
      tried == UpTo(at[t], next)
  IN
  /\ Ready(t) /\ at[t] # goal[t]
  /\ IF NilAmong(t, tried) THEN Panic(t)
     ELSE /\ IF next \in SubDirs(at[t])
             THEN /\ at' = [at EXCEPT ![t] = next]
                  /\ held' = [held EXCEPT ![t] = <<@[1], next>>]
                  /\ UNCHANGED <<pc, obj, ret>>
             ELSE Return(t,
                    IF next = goal[t] /\ next \in DOMAIN obj[held[t]].kids
                    THEN FileInfo(next, obj[held[t]].kids[next]) ELSE NotFound)
          /\ UNCHANGED <<faults, cache, acl, users, call, clean>>

(* Get found a directory, and OpenDir its children.                        *)
FoundDir(t) ==
  /\ pc[t] = "have" /\ at[t] = goal[t]
  /\ op[t] = "list" => Ready(t)
  /\ IF op[t] = "list" /\ NilAmong(t, SubDirs(at[t])) THEN Panic(t)
     ELSE /\ Return(t, DirInfo(obj[held[t]].access,
               IF op[t] = "get" THEN {}
               ELSE SubDirs(at[t]) \cup DOMAIN obj[held[t]].kids))
          /\ UNCHANGED <<faults, cache, acl, users, call, clean>>

-----------------------------------------------------------------------------
Step(t) ==
  \/ Miss(t) \/ Hit(t) \/ GetDir(t) \/ NoDir(t) \/ GetChildren(t) \/ Scan(t) \/ FoundDir(t)

(* A panic ends the process, and all its threads.                          *)
Next ==
  /\ \A t \in Threads : pc[t] # "panic"
  /\ \E t \in Threads :
       Step(t) \/ \E o \in {"get", "list"}, p \in Asked : Call(t, o, p)

Spec == Init /\ [][Next]_vars

-----------------------------------------------------------------------------
(* Properties.                                                             *)

TypeOK ==
  /\ faults \in FaultSets
  /\ cache \in Seq(Dirs) /\ Len(cache) <= DirCacheSize /\ IsInjective(cache)
  /\ acl \subseteq Keys /\ Cardinality(acl) <= AccessCacheSize
  /\ users \in {Unset, "known", "1000"}
  /\ obj \in [Chains -> {None, Nil} \cup DirSet]
  /\ \A p \in Dirs : p \in ToSet(cache) <=> obj[<<p, p>>] # None
  /\ pc \in [Threads -> {"idle", "up", "read", "have", "panic"}]
  /\ op \in [Threads -> {"get", "list"}] /\ clean \in [Threads -> BOOLEAN]
  /\ goal \in [Threads -> Seq(Names)] /\ at \in [Threads -> Seq(Names)]
  /\ held \in [Threads -> {None} \cup Chains]
  /\ ret \in [Threads -> {None} \cup Infos]
  /\ \A t \in Threads :
       pc[t] = "have" => held[t][2] = at[t] /\ obj[held[t]] \notin {None, Nil}

Answered(t) == ret[t] # None

Listed(p) == IF p \in Dirs THEN Plain(p) \cup SubDirs(p) ELSE {}

(* What a lookup finds is what the flist has under the path, whatever has  *)
(* failed: get and getChildren may hide a path or give a file the default  *)
(* rights, but never show something else, nor a directory with rights that *)
(* are not its own.  Without failures nothing panics and nothing is lost,  *)
(* through evictions and directories that two threads read at once.        *)
NothingElse ==
  /\ \A t \in Threads : Answered(t) /\ ret[t] # NotFound =>
       /\ ret[t].kind = KindOf(goal[t])
       /\ ret[t].list \subseteq Listed(goal[t])
       /\ \/ ret[t].access = Access(goal[t], users)
          \/ ret[t].access = "default" /\ DbFaults /\ goal[t] \notin Dirs
  /\ DbFaults \/ \A t \in Threads : pc[t] # "panic" /\ clean[t]

(* A failure is not taken for an absence later: a lookup whose queries are *)
(* all answered finds every path the flist has and lists every name,       *)
(* however many failed before it on the directories that are cached.       *)
FailuresForgotten ==
  \A t \in Threads : Answered(t) /\ clean[t] =>
    /\ ret[t] = NotFound <=> KindOf(goal[t]) \in {"none", "special"}
    /\ op[t] = "list" => ret[t].list = Listed(goal[t])

(* lookUpUser: one name is one owner, in every Dir there is and for as     *)
(* long as the store lives, although nobody may have it when it is asked.  *)
OneOwner ==
  \A c \in Chains : obj[c] \notin {None, Nil} =>
    /\ obj[c].access \in {"default", "id", users}
    /\ obj[c].kids # Unset => Range(obj[c].kids) \subseteq {"default", "id", users}

(* Walk calls fn for each entry under the path and the path itself, in the *)
(* order of the flist, but not below a directory for which fn answers      *)
(* ErrSkipDir, nor for the rest of a directory after a file for which it   *)
(* does, nor after any other error, which it returns (meta.go, Walker).    *)
(* It holds of the flist, so it is enough to look at a store that is new.  *)
WalkVisits ==
  (cache = <<>> /\ \A t \in Threads : pc[t] = "idle" /\ ret[t] = None) =>
    \A root \in {p \in Paths : KindOf(p) # "special"}, fn \in Answers :
      WalkRight(root, fn)
=============================================================================
