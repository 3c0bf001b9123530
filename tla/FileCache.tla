----------------------------- MODULE FileCache ------------------------------
(***************************************************************************)
(* rofs/cache.go: the cache of downloaded files, for the path of one file. *)
(* CheckAndGet opens or creates the path, takes flock(LOCK_EX) on the      *)
(* inode it opened, and trusts the content when the inode's size is the    *)
(* one in the metadata; otherwise it downloads the file into the inode.    *)
(* check, behind GetAttr, opens or creates the path without any lock.      *)
(*                                                                         *)
(* The lock is the kernel's: it belongs to an inode, is shared by all the  *)
(* g8ufs instances that use the cache directory, and ends with the file    *)
(* descriptor or the process.  A name that is removed and created again is *)
(* another inode.                                                          *)
(***************************************************************************)
EXTENDS Integers

CONSTANTS
  Threads,        (* FUSE request threads, of all instances                *)
  Instances,      (* the g8ufs processes that share the cache directory    *)
  Owner,          (* the instance of each thread                           *)
  Inodes,         (* inode numbers, used again once free                   *)
  None,
  NumBlocks,      (* blocks of the file                                    *)
  FaultSets       (* what may fail, one set of faults for each behaviour   *)

ASSUME FileCacheAssumption ==
  /\ Owner \in [Threads -> Instances]
  /\ None \notin Inodes \cup Threads
  /\ NumBlocks \in Nat \ {0}
  /\ FaultSets \subseteq SUBSET {"storage", "io", "kill"}

Block == 0 .. NumBlocks - 1

VARIABLES
  faults,    (* what may fail                                              *)
  parent,    (* whether the directory of the path exists                   *)
  entry,     (* the inode the path names, or None                          *)
  data,      (* the blocks written whole into each inode                   *)
  lock,      (* the thread holding each inode's flock, or None             *)
  pc,        (* where each thread is                                       *)
  op,        (* the call it runs: "get" is CheckAndGet, "check" is check   *)
  fd,        (* the inode each thread has open, or None                    *)
  todo,      (* the blocks its Download has still to write                 *)
  outcome    (* the return statement of CheckAndGet it has reached          *)

disk == <<parent, entry, data>>
local == <<op, todo, outcome>>
vars == <<faults, parent, entry, data, lock, pc, op, fd, todo, outcome>>

(* The hit test compares sizes.  Blocks are written with Seek, so the size *)
(* is right as soon as the last block is there, holes or not.              *)
FullSize(content) == NumBlocks - 1 \in content
Whole(content) == content = Block

(* A block may fail to download, a system call on the cache may fail, an   *)
(* instance may be killed and started again.                               *)
StorageFaults == "storage" \in faults
IoFaults      == "io" \in faults
Crashes       == "kill" \in faults

Init ==
  /\ faults \in FaultSets
  /\ parent \in BOOLEAN
  /\ entry = None
  /\ data = [i \in Inodes |-> {}]
  /\ lock = [i \in Inodes |-> None]
  /\ pc = [t \in Threads |-> "idle"]
  /\ op = [t \in Threads |-> "get"]
  /\ fd = [t \in Threads |-> None]
  /\ todo = [t \in Threads |-> {}]
  /\ outcome = [t \in Threads |-> "none"]

Goto(t, place) == pc' = [pc EXCEPT ![t] = place]

(* The call is over, and its local variables with it.                      *)
Finish(t) ==
  /\ Goto(t, "idle")
  /\ op' = [op EXCEPT ![t] = "get"]
  /\ outcome' = [outcome EXCEPT ![t] = "none"]

(* Leave CheckAndGet through its deferred unlock.                          *)
ReturnWith(t, how) ==
  /\ outcome' = [outcome EXCEPT ![t] = how]
  /\ Goto(t, "unlock")

SharedLock(i) == TRUE               (* slip: LOCK_SH instead of LOCK_EX    *)

LockFree(i) == lock[i] = None

-----------------------------------------------------------------------------
(* Calls, and ensure.                                                      *)

Call(t) ==
  /\ pc[t] = "idle"
  /\ \E o \in {"get", "check"} : op' = [op EXCEPT ![t] = o]
  /\ Goto(t, "ensure")
  /\ UNCHANGED <<faults, disk, lock, fd, todo, outcome>>

AfterEnsure(t) == Goto(t, IF op[t] = "get" THEN "flock" ELSE "stat")

(* An inode that no name and no descriptor refers to.                      *)
Unused(i) == entry # i /\ \A t \in Threads : fd[t] # i

EnsureMkdir(t) ==
  /\ pc[t] = "ensure"
  /\ ~parent
  /\ parent' = TRUE
  /\ UNCHANGED <<faults, entry, data, lock, pc, fd, local>>

EnsureOpen(t) ==
  /\ pc[t] = "ensure"
  /\ entry # None
  /\ fd' = [fd EXCEPT ![t] = entry]
  /\ AfterEnsure(t)
  /\ UNCHANGED <<faults, disk, lock, local>>

EnsureCreate(t) ==
  /\ pc[t] = "ensure"
  /\ parent /\ entry = None
  /\ \E i \in Inodes :
       /\ Unused(i)
       /\ entry' = i
       /\ data' = [data EXCEPT ![i] = {}]
       /\ fd' = [fd EXCEPT ![t] = i]
  /\ AfterEnsure(t)
  /\ UNCHANGED <<faults, parent, lock, local>>

EnsureFail(t) ==
  /\ IoFaults
  /\ pc[t] = "ensure"
  /\ Finish(t)
  /\ UNCHANGED <<faults, disk, lock, fd, todo>>

-----------------------------------------------------------------------------
(* check: Stat, failing or not, and Close.                                 *)
Check(t) ==
  /\ pc[t] = "stat" /\ op[t] = "check"
  /\ fd' = [fd EXCEPT ![t] = None]
  /\ Finish(t)
  /\ UNCHANGED <<faults, disk, lock, todo>>

-----------------------------------------------------------------------------
(* CheckAndGet.                                                            *)

Flock(t) ==
  /\ pc[t] = "flock"
  /\ LockFree(fd[t])
  /\ lock' = [lock EXCEPT ![fd[t]] = t]
  /\ Goto(t, "stat")
  /\ UNCHANGED <<faults, disk, fd, local>>

(* Without the lock nothing is unlocked; the descriptor is left to the     *)
(* garbage collector, here at once.                                        *)
FlockFail(t) ==
  /\ IoFaults
  /\ pc[t] = "flock"
  /\ fd' = [fd EXCEPT ![t] = None]
  /\ Finish(t)
  /\ UNCHANGED <<faults, disk, lock, todo>>

Hit(t) ==
  /\ pc[t] = "stat" /\ op[t] = "get"
  /\ FullSize(data[fd[t]])
  /\ ReturnWith(t, "hit")
  /\ UNCHANGED <<faults, disk, lock, op, fd, todo>>

Miss(t) ==
  /\ pc[t] = "stat" /\ op[t] = "get"
  /\ ~FullSize(data[fd[t]])
  /\ todo' = [todo EXCEPT ![t] = Block]
  /\ Goto(t, "download")
  /\ UNCHANGED <<faults, disk, lock, op, fd, outcome>>

StatFail(t) ==
  /\ IoFaults
  /\ pc[t] = "stat" /\ op[t] = "get"
  /\ ReturnWith(t, "error")
  /\ UNCHANGED <<faults, disk, lock, op, fd, todo>>

(* Download, by its contract in BlockDownload: the blocks in any order.    *)
WriteBlock(t) ==
  /\ pc[t] = "download"
  /\ \E b \in todo[t] :
       /\ data' = [data EXCEPT ![fd[t]] = @ \cup {b}]
       /\ todo' = [todo EXCEPT ![t] = @ \ {b}]
  /\ UNCHANGED <<faults, parent, entry, lock, pc, op, fd, outcome>>

LastWritten(t) == FullSize(data[fd[t]])    (* slip: done at the full size  *)

Finished(t) == todo[t] = {}

DownloadOk(t) ==
  /\ pc[t] = "download"
  /\ Finished(t)
  /\ Goto(t, "sync")
  /\ UNCHANGED <<faults, disk, lock, fd, local>>

(* A block that fails, or a write: the block at hand stays partial.        *)
DownloadFail(t) ==
  /\ StorageFaults \/ IoFaults
  /\ pc[t] = "download"
  /\ todo[t] # {}
  /\ todo' = [todo EXCEPT ![t] = {}]
  /\ Goto(t, "close")
  /\ UNCHANGED <<faults, disk, lock, op, fd, outcome>>

(* Closing the descriptor gives the lock away, before the name is gone.    *)
Close(t) ==
  /\ pc[t] = "close"
  /\ lock' = [lock EXCEPT ![fd[t]] = None]
  /\ fd' = [fd EXCEPT ![t] = None]
  /\ Goto(t, "remove")
  /\ UNCHANGED <<faults, disk, local>>

KeepName == entry                  (* slip: the failed file is not removed *)

RemoveName == None

(* os.Remove takes the name away, whatever inode it has come to mean.  Its *)
(* error is ignored.  The deferred unlock finds the file closed.           *)
Remove(t) ==
  /\ pc[t] = "remove"
  /\ entry' = RemoveName
  /\ Finish(t)
  /\ UNCHANGED <<faults, parent, data, lock, fd, todo>>

RemoveFail(t) ==
  /\ IoFaults
  /\ pc[t] = "remove"
  /\ Finish(t)
  /\ UNCHANGED <<faults, disk, lock, fd, todo>>

Sync(t) ==
  /\ pc[t] = "sync"
  /\ ReturnWith(t, "fetched")
  /\ UNCHANGED <<faults, disk, lock, op, fd, todo>>

(* Sync, or the Seek back to the start, fails.                             *)
SyncFail(t) ==
  /\ IoFaults
  /\ pc[t] = "sync"
  /\ ReturnWith(t, "error")
  /\ UNCHANGED <<faults, disk, lock, op, fd, todo>>

StillLocked(t) == lock             (* slip: no deferred unlock             *)

Unlocked(t) == [lock EXCEPT ![fd[t]] = None]

(* The deferred unlock; without an error the caller gets the open file.    *)
Unlock(t) ==
  /\ pc[t] = "unlock"
  /\ lock' = Unlocked(t)
  /\ IF outcome[t] = "error"
     THEN Finish(t) /\ fd' = [fd EXCEPT ![t] = None]
     ELSE Goto(t, "open") /\ UNCHANGED <<op, outcome, fd>>
  /\ UNCHANGED <<faults, disk, todo>>

-----------------------------------------------------------------------------
(* The environment: a reader releases its file; an instance is killed.     *)

Release(t) ==
  /\ pc[t] = "open"
  /\ fd' = [fd EXCEPT ![t] = None]
  /\ lock' = [i \in Inodes |-> IF lock[i] = t THEN None ELSE lock[i]]
  /\ Finish(t)
  /\ UNCHANGED <<faults, disk, todo>>

Crash(p) ==
  /\ Crashes
  /\ pc' = [t \in Threads |-> IF Owner[t] = p THEN "idle" ELSE pc[t]]
  /\ fd' = [t \in Threads |-> IF Owner[t] = p THEN None ELSE fd[t]]
  /\ lock' = [i \in Inodes |->
                IF \E t \in Threads : Owner[t] = p /\ lock[i] = t
                THEN None ELSE lock[i]]
  /\ op' = [t \in Threads |-> IF Owner[t] = p THEN "get" ELSE op[t]]
  /\ todo' = [t \in Threads |-> IF Owner[t] = p THEN {} ELSE todo[t]]
  /\ outcome' = [t \in Threads |->
                   IF Owner[t] = p THEN "none" ELSE outcome[t]]
  /\ UNCHANGED <<faults, disk>>

-----------------------------------------------------------------------------
EnsureStep(t) == EnsureMkdir(t) \/ EnsureOpen(t) \/ EnsureCreate(t)

CheckAndGetStep(t) ==
  \/ Hit(t) \/ Miss(t)
  \/ WriteBlock(t) \/ DownloadOk(t) \/ Close(t) \/ Remove(t)
  \/ Sync(t) \/ Unlock(t)

Step(t) == EnsureStep(t) \/ Check(t) \/ CheckAndGetStep(t)

Fault(t) ==
  \/ EnsureFail(t) \/ FlockFail(t) \/ StatFail(t)
  \/ DownloadFail(t) \/ RemoveFail(t) \/ SyncFail(t)

Next ==
  \/ \E t \in Threads : Call(t) \/ Step(t) \/ Flock(t) \/ Fault(t) \/ Release(t)
  \/ \E p \in Instances : Crash(p)

(* A thread that can run runs, and Download returns (module Downloader);   *)
(* nothing has to fail.  The kernel hands a free lock to the waiters in    *)
(* turn, so none of them is passed over for ever.  Nobody has to call, to  *)
(* read or to release.                                                     *)
Fairness ==
  \A t \in Threads : WF_vars(Step(t)) /\ SF_vars(Flock(t))

Spec == Init /\ [][Next]_vars /\ Fairness

-----------------------------------------------------------------------------
(* Properties.                                                             *)

TypeOK ==
  /\ faults \in FaultSets
  /\ parent \in BOOLEAN
  /\ entry \in Inodes \cup {None}
  /\ data \in [Inodes -> SUBSET Block]
  /\ lock \in [Inodes -> Threads \cup {None}]
  /\ pc \in [Threads -> {"idle", "ensure", "flock", "stat", "download",
                         "sync", "close", "remove", "unlock", "open"}]
  /\ op \in [Threads -> {"get", "check"}]
  /\ fd \in [Threads -> Inodes \cup {None}]
  /\ todo \in [Threads -> SUBSET Block]
  /\ outcome \in [Threads -> {"none", "hit", "fetched", "error"}]
  /\ \A t \in Threads : fd[t] = None <=> pc[t] \in {"idle", "ensure", "remove"}
  /\ \A i \in Inodes : lock[i] # None => fd[lock[i]] = i

(* A thread between Flock and its deferred unlock.                         *)
InLock(t) ==
  /\ op[t] = "get"
  /\ pc[t] \in {"stat", "download", "sync", "close", "unlock"}

(* Two threads never work on the same inode at once, whatever fails and    *)
(* whoever is killed: the lock a thread believes it holds is its own.      *)
Exclusive ==
  \A t, u \in Threads : InLock(t) /\ InLock(u) /\ fd[t] = fd[u] => t = u

(* The file CheckAndGet hands out is the whole file (cache.go:73).         *)
HandleWhole == \A t \in Threads : pc[t] = "open" => Whole(data[fd[t]])

(* It is, for any number of threads and instances that ask for it at the   *)
(* same time, as long as nothing fails and nobody is killed.               *)
SharedHandleWhole == faults = {} => HandleWhole

(* A file that was downloaded by this very call is whole when it is handed *)
(* out, whatever the other threads and instances do to the path meanwhile. *)
FetchedWhole ==
  \A t \in Threads :
    pc[t] = "open" /\ outcome[t] = "fetched" => Whole(data[fd[t]])

(* A reader's file never changes under it: nobody downloads into an inode  *)
(* that was handed out, and a removed name leaves its inode alone.         *)
ReadersUndisturbed ==
  [][\A t \in Threads :
       pc[t] = "open" /\ pc'[t] = "open" => data'[fd[t]] = data[fd[t]]]_vars

(* A failed download leaves nothing behind that the next call would trust: *)
(* with nobody between a miss and the end of that call, a cached file of   *)
(* the full size is the whole file.                                        *)
NothingBadLeft ==
  /\ ~IoFaults /\ ~Crashes
  /\ entry # None
  /\ \A t \in Threads : pc[t] \notin {"download", "close", "remove"}
  /\ FullSize(data[entry])
  => Whole(data[entry])

(* What a caller waits for, and the file it has open.                      *)
Calls == [t \in Threads |->
  CASE pc[t] = "idle" -> "none" [] pc[t] = "open" -> "open" [] OTHER -> op[t]]
Files == [t \in Threads |-> IF pc[t] = "open" THEN data[fd[t]] ELSE {}]

Contract == INSTANCE CacheContract WITH call <- Calls, file <- Files

(* To its callers the cache is what module CacheContract says: every call  *)
(* of CheckAndGet and check returns, a waiter's too when the file it waits *)
(* for has been removed or its owner is killed; with a file of its size    *)
(* that nobody changes afterwards, or with an error that something caused. *)
ImplementsCache == Contract!Spec
=============================================================================
