--------------------------------- MODULE Rofs ---------------------------------
(***************************************************************************)
(* rofs/rofs.go: the operations of the read-only filesystem, in the        *)
(* goroutines of the FUSE server, while Reload changes their meta store.   *)
(* The cache is seen through its contract, module CacheContract:           *)
(* CheckAndGet gives a descriptor of the file or fails.                    *)
(***************************************************************************)
EXTENDS Reload, FiniteSets

CONSTANTS
  Threads, Names, Files, None,
  Content,         (* the file that the store of each edit has under each  *)
                   (* name, or None                                        *)
  SingleFlist      (* whether there is one flist on the command line       *)

ASSUME RofsAssumption ==
  /\ None \notin Files /\ Names # {}
  /\ Content \in [Edits -> [Names -> Files \cup {None}]]
  /\ SingleFlist \in BOOLEAN

VARIABLES
  pc, op, name,    (* where each thread is, the operation and its argument *)
  file,            (* the file Open found                                  *)
  fd,              (* the file each thread has a descriptor of             *)
  attr,            (* the file whose attributes it answers                 *)
  ret,             (* the status it answered last                          *)
  window           (* history: the stores there were during its operation  *)

arg  == <<op, name>>
vars == <<reloadVars, pc, arg, file, fd, attr, ret, window>>

Init ==
  /\ ReloadInit
  /\ pc = [t \in Threads |-> "idle"]
  /\ op = [t \in Threads |-> "none"]
  /\ name \in [Threads -> {CHOOSE n \in Names : TRUE}]
  /\ file = [t \in Threads |-> None]
  /\ fd = [t \in Threads |-> None] /\ attr = [t \in Threads |-> None]
  /\ ret = [t \in Threads |-> "none"]
  /\ window = [t \in Threads |-> {}]

-----------------------------------------------------------------------------
(* The meta store is an interface value of two words, its type and its     *)
(* data, assigned and read without a lock: each word read while it is      *)
(* assigned is the old or the new one.                                     *)

Stores == IF main = "set" THEN {store, read} ELSE {store}

(* Layered gives back a single *sqlStore as it is.                         *)
TypeOf(s) == IF s = 0 /\ SingleFlist THEN "sqlStore" ELSE "stores"

Looking(t) == pc[t] \in {"get", "attr", "look"}

(* Methods of one type on the data of the other: undefined.                *)
Torn(t) ==
  /\ Looking(t)
  /\ \E a, b \in Stores : TypeOf(a) # TypeOf(b)
  /\ pc' = [pc EXCEPT ![t] = "undefined"]
  /\ UNCHANGED <<reloadVars, arg, file, fd, attr, ret, window>>

GetAtMount(t, s) == Content[0][name[t]]  (* slip: New copies the Config    *)

Get(t, s) == Content[s][name[t]]

-----------------------------------------------------------------------------
(* The operations.                                                         *)

Begin(t, o, n) ==
  /\ pc[t] = "idle"
  /\ op' = [op EXCEPT ![t] = o] /\ name' = [name EXCEPT ![t] = n]
  /\ file' = [file EXCEPT ![t] = None]
  /\ fd' = [fd EXCEPT ![t] = None] /\ attr' = [attr EXCEPT ![t] = None]
  /\ window' = [window EXCEPT ![t] = Stores]
  /\ UNCHANGED reloadVars

Return(t, status) ==
  /\ ret' = [ret EXCEPT ![t] = status]
  /\ pc' = [pc EXCEPT ![t] = "idle"]

GoOn(t, next) == pc' = [pc EXCEPT ![t] = next] /\ UNCHANGED ret

GetAttr(t, n) ==
  Begin(t, "getattr", n) /\ pc' = [pc EXCEPT ![t] = "attr"]
  /\ ret' = [ret EXCEPT ![t] = "none"]

OpenForWriting(t, n) == Begin(t, "open", n) /\ Return(t, "EPERM")

Open(t, n) ==
  Begin(t, "open", n) /\ pc' = [pc EXCEPT ![t] = "get"]
  /\ ret' = [ret EXCEPT ![t] = "none"]

(* OpenDir and Readlink: one look at the meta store.                       *)
Look(t, n) ==
  Begin(t, "look", n) /\ pc' = [pc EXCEPT ![t] = "look"]
  /\ ret' = [ret EXCEPT ![t] = "none"]

OpenGet(t) ==
  /\ pc[t] = "get"
  /\ \E s \in Stores :
       /\ file' = [file EXCEPT ![t] = Get(t, s)]
       /\ IF Get(t, s) = None THEN Return(t, "ENOENT") ELSE GoOn(t, "fetch")
  /\ UNCHANGED <<reloadVars, arg, fd, attr, window>>

(* CheckAndGet.  Its error is logged, and Open goes on without a file.     *)
Fetch(t) ==
  /\ pc[t] = "fetch"
  /\ fd' = [fd EXCEPT ![t] = file[t]] \/ UNCHANGED fd
  /\ GoOn(t, "attr")
  /\ UNCHANGED <<reloadVars, arg, file, attr, window>>

AttrGetAtMount(t) ==             (* slip: the attributes of the first store *)
  /\ pc[t] = "attr"
  /\ attr' = [attr EXCEPT ![t] = Get(t, 0)]
  /\ Return(t, IF Get(t, 0) = None THEN "ENOENT" ELSE "OK")
  /\ UNCHANGED <<reloadVars, arg, file, fd, window>>

(* GetAttr's body, which Open calls too; the cache may fail.               *)
AttrGet(t) ==
  /\ pc[t] = "attr"
  /\ \E s \in Stores :
       /\ attr' = [attr EXCEPT ![t] = Get(t, s)]
       /\ IF Get(t, s) = None THEN Return(t, "ENOENT")
          ELSE Return(t, "OK") \/ Return(t, "EIO")
  /\ UNCHANGED <<reloadVars, arg, file, fd, window>>

LookGet(t) ==
  /\ pc[t] = "look"
  /\ \E s \in Stores :
       /\ attr' = [attr EXCEPT ![t] = Get(t, s)]
       /\ Return(t, IF Get(t, s) = None THEN "ENOENT" ELSE "OK")
  /\ UNCHANGED <<reloadVars, arg, file, fd, window>>

(* A step of the signal loop; the operations under way see its store.      *)
ReloadStep ==
  /\ ReloadNext
  /\ window' =
       [t \in Threads |->
          IF pc[t] = "idle" THEN window[t] ELSE window[t] \cup Stores']
  /\ UNCHANGED <<pc, arg, file, fd, attr, ret>>

Operation(t) ==
  /\ main # "done" /\ \A u \in Threads : pc[u] # "undefined"
  /\ \/ \E n \in Names :
          GetAttr(t, n) \/ OpenForWriting(t, n) \/ Open(t, n) \/ Look(t, n)
     \/ OpenGet(t) \/ Fetch(t) \/ AttrGet(t) \/ LookGet(t) \/ Torn(t)

Next == ReloadStep \/ \E t \in Threads : Operation(t)

(* The loop runs on as in Reload; nobody has to use the filesystem.        *)
Spec == Init /\ [][Next]_vars /\ ReloadFairness

-----------------------------------------------------------------------------
(* Properties.                                                             *)

TypeOK ==
  /\ ReloadTypeOK
  /\ pc \in [Threads ->
       {"idle", "get", "fetch", "attr", "look", "undefined"}]
  /\ op \in [Threads -> {"none", "getattr", "open", "look"}]
  /\ name \in [Threads -> Names]
  /\ {file, fd, attr} \subseteq [Threads -> Files \cup {None}]
  /\ ret \in [Threads -> {"none", "OK", "ENOENT", "EIO", "EPERM"}]
  /\ window \in [Threads -> SUBSET Edits]

Answered(t, status) == pc[t] = "idle" /\ ret[t] = status
During(t) == {Content[s][name[t]] : s \in window[t]}

(* Whatever a reload does in the middle of an operation, its answer comes  *)
(* from stores that the filesystem had while it ran: never from one that   *)
(* was replaced before, nor from one that could not be built.              *)
AnswersOfItsTime ==
  \A t \in Threads :
    /\ Answered(t, "OK") => attr[t] \in During(t)
    /\ Answered(t, "OK") /\ fd[t] # None => fd[t] \in During(t)
    /\ Answered(t, "ENOENT") => None \in During(t)

(* Open looks at the meta store twice, and every look reads two words: all *)
(* of them agree unless a reload comes in between.  Only then has a handle *)
(* the attributes of another file (rofs.go:134), is a descriptor left      *)
(* behind by an Open that answers ENOENT, or a store read in two halves.   *)
AgreesWithoutReload ==
  \A t \in Threads :
    Cardinality(window[t]) = 1 =>
      /\ Answered(t, "OK") /\ fd[t] # None => attr[t] = fd[t]
      /\ Answered(t, "ENOENT") => fd[t] = None
      /\ pc[t] # "undefined"
=============================================================================
