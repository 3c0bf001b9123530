-------------------------- MODULE FileCacheProofs ---------------------------
(***************************************************************************)
(* Theorems about the file cache, for every set of threads and instances   *)
(* and every number of blocks.                                             *)
(*                                                                         *)
(* What makes CheckAndGet right where it is right is the flock: a thread   *)
(* between Flock and its unlock holds the lock of the very inode it has    *)
(* open (Locked), so nobody else's blocks, hits or unlocks meet its own.   *)
(* A reader's inode has its full size (Trusted), hence misses nowhere, so  *)
(* nobody downloads into it (Apart).                                       *)
(* So a step is nothing to other callers, and the cache is CacheContract.  *)
(***************************************************************************)
EXTENDS FileCache, TLAPS

(* A lock is held exactly by the thread that works under it.               *)
Locked ==
  \A t \in Threads, i \in Inodes : lock[i] = t <=> InLock(t) /\ fd[t] = i

(* Where a call of check can be.                                           *)
Checking ==
  \A t \in Threads : op[t] = "check" => pc[t] \in {"ensure", "stat"}

(* A download in progress has written what is no longer to do; one that is *)
(* over has written everything.                                            *)
Written ==
  \A t \in Threads :
    /\ pc[t] = "download" => Block \subseteq todo[t] \cup data[fd[t]]
    /\ pc[t] = "sync" => Block \subseteq data[fd[t]]
    /\ pc[t] \in {"unlock", "open"} /\ outcome[t] = "fetched" =>
         Block \subseteq data[fd[t]]

(* An inode that is handed out has the size CheckAndGet looks for.         *)
Trusted ==
  \A t \in Threads :
    /\ pc[t] = "unlock" => outcome[t] \in {"hit", "fetched", "error"}
    /\ pc[t] = "open" => outcome[t] \in {"hit", "fetched"}
    /\ pc[t] \in {"unlock", "open"} /\ outcome[t] = "hit" =>
         FullSize(data[fd[t]])

(* Nobody downloads into an inode somebody reads.                          *)
Apart ==
  \A t, u \in Threads :
    pc[t] = "open" /\ pc[u] = "download" => fd[t] # fd[u]

(* Without crashes and failing system calls an inode that has its size and *)
(* misses blocks still has its downloader, or that one is removing it.     *)
Guarded ==
  ~IoFaults /\ ~Crashes /\ entry # None /\ FullSize(data[entry]) =>
    \/ Block \subseteq data[entry]
    \/ \E t \in Threads : pc[t] \in {"download", "close"} /\ fd[t] = entry
    \/ \E t \in Threads : pc[t] = "remove"

(* Without any failure every inode of full size is whole or in download.   *)
Sound ==
  ~StorageFaults /\ ~IoFaults /\ ~Crashes =>
    /\ \A i \in Inodes :
         FullSize(data[i]) =>
           \/ Block \subseteq data[i]
           \/ \E t \in Threads : pc[t] = "download" /\ fd[t] = i
    /\ \A t \in Threads :
         pc[t] \in {"unlock", "open"} => Block \subseteq data[fd[t]]

(* An error has its cause in what may fail.                                *)
Blamed ==
  \A t \in Threads :
    /\ outcome[t] = "error" => IoFaults
    /\ pc[t] \in {"close", "remove"} => StorageFaults \/ IoFaults

IInv ==
  /\ TypeOK
  /\ Locked
  /\ Checking
  /\ Written
  /\ Trusted
  /\ Apart
  /\ Guarded
  /\ Sound
  /\ Blamed
-----------------------------------------------------------------------------
(* Types, and what goes with them: who has a descriptor, and that a lock   *)
(* never outlives the descriptor it was taken through.                     *)
LEMMA TypeStep ==
  ASSUME TypeOK, Locked, [Next]_vars
  PROVE  TypeOK'
<1> USE FileCacheAssumption
<1> USE DEF TypeOK, Block, InLock, Locked, LockFree, Unlocked, RemoveName,
            disk, local, Goto, Finish, ReturnWith, AfterEnsure
<1>1. ASSUME NEW t \in Threads, Call(t) PROVE TypeOK'
  BY <1>1 DEF Call
<1>2. ASSUME NEW t \in Threads, EnsureMkdir(t) PROVE TypeOK'
  BY <1>2 DEF EnsureMkdir
<1>3. ASSUME NEW t \in Threads, EnsureOpen(t) PROVE TypeOK'
  BY <1>3 DEF EnsureOpen
<1>4. ASSUME NEW t \in Threads, EnsureCreate(t) PROVE TypeOK'
  BY <1>4 DEF EnsureCreate
<1>5. ASSUME NEW t \in Threads, EnsureFail(t) PROVE TypeOK'
  BY <1>5 DEF EnsureFail
<1>6. ASSUME NEW t \in Threads, Check(t) PROVE TypeOK'
  BY <1>6 DEF Check
<1>7. ASSUME NEW t \in Threads, Flock(t) PROVE TypeOK'
  BY <1>7 DEF Flock
<1>8. ASSUME NEW t \in Threads, FlockFail(t) PROVE TypeOK'
  BY <1>8 DEF FlockFail
<1>9. ASSUME NEW t \in Threads, Hit(t) PROVE TypeOK'
  BY <1>9 DEF Hit
<1>10. ASSUME NEW t \in Threads, Miss(t) PROVE TypeOK'
  BY <1>10 DEF Miss
<1>11. ASSUME NEW t \in Threads, StatFail(t) PROVE TypeOK'
  BY <1>11 DEF StatFail
<1>12. ASSUME NEW t \in Threads, WriteBlock(t) PROVE TypeOK'
  BY <1>12 DEF WriteBlock
<1>13. ASSUME NEW t \in Threads, DownloadOk(t) PROVE TypeOK'
  BY <1>13 DEF DownloadOk
<1>14. ASSUME NEW t \in Threads, DownloadFail(t) PROVE TypeOK'
  BY <1>14 DEF DownloadFail
<1>15. ASSUME NEW t \in Threads, Close(t) PROVE TypeOK'
  BY <1>15 DEF Close
<1>16. ASSUME NEW t \in Threads, Remove(t) PROVE TypeOK'
  BY <1>16 DEF Remove
<1>17. ASSUME NEW t \in Threads, RemoveFail(t) PROVE TypeOK'
  BY <1>17 DEF RemoveFail
<1>18. ASSUME NEW t \in Threads, Sync(t) PROVE TypeOK'
  BY <1>18 DEF Sync
<1>19. ASSUME NEW t \in Threads, SyncFail(t) PROVE TypeOK'
  BY <1>19 DEF SyncFail
<1>20. ASSUME NEW t \in Threads, Unlock(t) PROVE TypeOK'
  BY <1>20 DEF Unlock
<1>21. ASSUME NEW t \in Threads, Release(t) PROVE TypeOK'
  BY <1>21 DEF Release
<1>22. ASSUME NEW p \in Instances, Crash(p) PROVE TypeOK'
  BY <1>22 DEF Crash
<1>23. CASE UNCHANGED vars
  BY <1>23 DEF vars
<1> QED
  BY <1>1, <1>2, <1>3, <1>4, <1>5, <1>6, <1>7, <1>8, <1>9, <1>10,
     <1>11, <1>12, <1>13, <1>14, <1>15, <1>16, <1>17, <1>18, <1>19,
     <1>20, <1>21, <1>22, <1>23
     DEF Next, Step, EnsureStep, CheckAndGetStep, Fault

(* Flock is the only way into the lock; Close, Unlock and a crash, which   *)
(* also leave InLock, are the only ways out.                               *)
LEMMA LockedStep ==
  ASSUME TypeOK, Locked, Checking, [Next]_vars
  PROVE  Locked'
<1> USE FileCacheAssumption
<1> USE DEF TypeOK, Locked, Checking, InLock, LockFree, Unlocked, disk,
            local, Goto, Finish, ReturnWith, AfterEnsure
<1>1. ASSUME NEW t \in Threads, Call(t) PROVE Locked'
  BY <1>1 DEF Call
<1>2. ASSUME NEW t \in Threads, EnsureMkdir(t) PROVE Locked'
  BY <1>2 DEF EnsureMkdir
<1>3. ASSUME NEW t \in Threads, EnsureOpen(t) PROVE Locked'
  BY <1>3 DEF EnsureOpen
<1>4. ASSUME NEW t \in Threads, EnsureCreate(t) PROVE Locked'
  BY <1>4 DEF EnsureCreate
<1>5. ASSUME NEW t \in Threads, EnsureFail(t) PROVE Locked'
  BY <1>5 DEF EnsureFail
<1>6. ASSUME NEW t \in Threads, Check(t) PROVE Locked'
  BY <1>6 DEF Check
<1>7. ASSUME NEW t \in Threads, Flock(t) PROVE Locked'
  BY <1>7 DEF Flock
<1>8. ASSUME NEW t \in Threads, FlockFail(t) PROVE Locked'
  BY <1>8 DEF FlockFail
<1>9. ASSUME NEW t \in Threads, Hit(t) PROVE Locked'
  BY <1>9 DEF Hit
<1>10. ASSUME NEW t \in Threads, Miss(t) PROVE Locked'
  BY <1>10 DEF Miss
<1>11. ASSUME NEW t \in Threads, StatFail(t) PROVE Locked'
  BY <1>11 DEF StatFail
<1>12. ASSUME NEW t \in Threads, WriteBlock(t) PROVE Locked'
  BY <1>12 DEF WriteBlock
<1>13. ASSUME NEW t \in Threads, DownloadOk(t) PROVE Locked'
  BY <1>13 DEF DownloadOk
<1>14. ASSUME NEW t \in Threads, DownloadFail(t) PROVE Locked'
  BY <1>14 DEF DownloadFail
<1>15. ASSUME NEW t \in Threads, Close(t) PROVE Locked'
  BY <1>15 DEF Close
<1>16. ASSUME NEW t \in Threads, Remove(t) PROVE Locked'
  BY <1>16 DEF Remove
<1>17. ASSUME NEW t \in Threads, RemoveFail(t) PROVE Locked'
  BY <1>17 DEF RemoveFail
<1>18. ASSUME NEW t \in Threads, Sync(t) PROVE Locked'
  BY <1>18 DEF Sync
<1>19. ASSUME NEW t \in Threads, SyncFail(t) PROVE Locked'
  BY <1>19 DEF SyncFail
<1>20. ASSUME NEW t \in Threads, Unlock(t) PROVE Locked'
  BY <1>20 DEF Unlock
<1>21. ASSUME NEW t \in Threads, Release(t) PROVE Locked'
  BY <1>21 DEF Release
<1>22. ASSUME NEW p \in Instances, Crash(p) PROVE Locked'
  BY <1>22 DEF Crash
<1>23. CASE UNCHANGED vars
  BY <1>23 DEF vars
<1> QED
  BY <1>1, <1>2, <1>3, <1>4, <1>5, <1>6, <1>7, <1>8, <1>9, <1>10,
     <1>11, <1>12, <1>13, <1>14, <1>15, <1>16, <1>17, <1>18, <1>19,
     <1>20, <1>21, <1>22, <1>23
     DEF Next, Step, EnsureStep, CheckAndGetStep, Fault

(* A call of check never reaches the code after the lock.                  *)
LEMMA CheckingStep ==
  ASSUME TypeOK, Checking, [Next]_vars
  PROVE  Checking'
<1> USE DEF TypeOK, Checking, disk, local, Goto, Finish, ReturnWith,
            AfterEnsure
<1>1. ASSUME NEW t \in Threads, Call(t) PROVE Checking'
  BY <1>1 DEF Call
<1>2. ASSUME NEW t \in Threads, EnsureMkdir(t) PROVE Checking'
  BY <1>2 DEF EnsureMkdir
<1>3. ASSUME NEW t \in Threads, EnsureOpen(t) PROVE Checking'
  BY <1>3 DEF EnsureOpen
<1>4. ASSUME NEW t \in Threads, EnsureCreate(t) PROVE Checking'
  BY <1>4 DEF EnsureCreate
<1>5. ASSUME NEW t \in Threads, EnsureFail(t) PROVE Checking'
  BY <1>5 DEF EnsureFail
<1>6. ASSUME NEW t \in Threads, Check(t) PROVE Checking'
  BY <1>6 DEF Check
<1>7. ASSUME NEW t \in Threads, Flock(t) PROVE Checking'
  BY <1>7 DEF Flock
<1>8. ASSUME NEW t \in Threads, FlockFail(t) PROVE Checking'
  BY <1>8 DEF FlockFail
<1>9. ASSUME NEW t \in Threads, Hit(t) PROVE Checking'
  BY <1>9 DEF Hit
<1>10. ASSUME NEW t \in Threads, Miss(t) PROVE Checking'
  BY <1>10 DEF Miss
<1>11. ASSUME NEW t \in Threads, StatFail(t) PROVE Checking'
  BY <1>11 DEF StatFail
<1>12. ASSUME NEW t \in Threads, WriteBlock(t) PROVE Checking'
  BY <1>12 DEF WriteBlock
<1>13. ASSUME NEW t \in Threads, DownloadOk(t) PROVE Checking'
  BY <1>13 DEF DownloadOk
<1>14. ASSUME NEW t \in Threads, DownloadFail(t) PROVE Checking'
  BY <1>14 DEF DownloadFail
<1>15. ASSUME NEW t \in Threads, Close(t) PROVE Checking'
  BY <1>15 DEF Close
<1>16. ASSUME NEW t \in Threads, Remove(t) PROVE Checking'
  BY <1>16 DEF Remove
<1>17. ASSUME NEW t \in Threads, RemoveFail(t) PROVE Checking'
  BY <1>17 DEF RemoveFail
<1>18. ASSUME NEW t \in Threads, Sync(t) PROVE Checking'
  BY <1>18 DEF Sync
<1>19. ASSUME NEW t \in Threads, SyncFail(t) PROVE Checking'
  BY <1>19 DEF SyncFail
<1>20. ASSUME NEW t \in Threads, Unlock(t) PROVE Checking'
  BY <1>20 DEF Unlock
<1>21. ASSUME NEW t \in Threads, Release(t) PROVE Checking'
  BY <1>21 DEF Release
<1>22. ASSUME NEW p \in Instances, Crash(p) PROVE Checking'
  BY <1>22 DEF Crash
<1>23. CASE UNCHANGED vars
  BY <1>23 DEF vars
<1> QED
  BY <1>1, <1>2, <1>3, <1>4, <1>5, <1>6, <1>7, <1>8, <1>9, <1>10,
     <1>11, <1>12, <1>13, <1>14, <1>15, <1>16, <1>17, <1>18, <1>19,
     <1>20, <1>21, <1>22, <1>23
     DEF Next, Step, EnsureStep, CheckAndGetStep, Fault

(* A held inode only gains blocks: EnsureCreate empties an unused one.     *)
LEMMA WrittenStep ==
  ASSUME TypeOK, Written, [Next]_vars
  PROVE  Written'
<1> USE FileCacheAssumption
<1> USE DEF TypeOK, Written, Unused, Finished, disk, local, Goto, Finish,
            ReturnWith, AfterEnsure
<1>1. ASSUME NEW t \in Threads, Call(t) PROVE Written'
  BY <1>1 DEF Call
<1>2. ASSUME NEW t \in Threads, EnsureMkdir(t) PROVE Written'
  BY <1>2 DEF EnsureMkdir
<1>3. ASSUME NEW t \in Threads, EnsureOpen(t) PROVE Written'
  BY <1>3 DEF EnsureOpen
<1>4. ASSUME NEW t \in Threads, EnsureCreate(t) PROVE Written'
  BY <1>4 DEF EnsureCreate
<1>5. ASSUME NEW t \in Threads, EnsureFail(t) PROVE Written'
  BY <1>5 DEF EnsureFail
<1>6. ASSUME NEW t \in Threads, Check(t) PROVE Written'
  BY <1>6 DEF Check
<1>7. ASSUME NEW t \in Threads, Flock(t) PROVE Written'
  BY <1>7 DEF Flock
<1>8. ASSUME NEW t \in Threads, FlockFail(t) PROVE Written'
  BY <1>8 DEF FlockFail
<1>9. ASSUME NEW t \in Threads, Hit(t) PROVE Written'
  BY <1>9 DEF Hit
<1>10. ASSUME NEW t \in Threads, Miss(t) PROVE Written'
  BY <1>10 DEF Miss
<1>11. ASSUME NEW t \in Threads, StatFail(t) PROVE Written'
  BY <1>11 DEF StatFail
<1>12. ASSUME NEW t \in Threads, WriteBlock(t) PROVE Written'
  BY <1>12 DEF WriteBlock
<1>13. ASSUME NEW t \in Threads, DownloadOk(t) PROVE Written'
  BY <1>13 DEF DownloadOk
<1>14. ASSUME NEW t \in Threads, DownloadFail(t) PROVE Written'
  BY <1>14 DEF DownloadFail
<1>15. ASSUME NEW t \in Threads, Close(t) PROVE Written'
  BY <1>15 DEF Close
<1>16. ASSUME NEW t \in Threads, Remove(t) PROVE Written'
  BY <1>16 DEF Remove
<1>17. ASSUME NEW t \in Threads, RemoveFail(t) PROVE Written'
  BY <1>17 DEF RemoveFail
<1>18. ASSUME NEW t \in Threads, Sync(t) PROVE Written'
  BY <1>18 DEF Sync
<1>19. ASSUME NEW t \in Threads, SyncFail(t) PROVE Written'
  BY <1>19 DEF SyncFail
<1>20. ASSUME NEW t \in Threads, Unlock(t) PROVE Written'
  BY <1>20 DEF Unlock
<1>21. ASSUME NEW t \in Threads, Release(t) PROVE Written'
  BY <1>21 DEF Release
<1>22. ASSUME NEW p \in Instances, Crash(p) PROVE Written'
  BY <1>22 DEF Crash
<1>23. CASE UNCHANGED vars
  BY <1>23 DEF vars
<1> QED
  BY <1>1, <1>2, <1>3, <1>4, <1>5, <1>6, <1>7, <1>8, <1>9, <1>10,
     <1>11, <1>12, <1>13, <1>14, <1>15, <1>16, <1>17, <1>18, <1>19,
     <1>20, <1>21, <1>22, <1>23
     DEF Next, Step, EnsureStep, CheckAndGetStep, Fault

(* Only Hit, over the full size, and Sync, over a written file, lead to a  *)
(* handle.                                                                 *)
LEMMA TrustedStep ==
  ASSUME TypeOK, Written, Trusted, [Next]_vars
  PROVE  Trusted'
<1> USE FileCacheAssumption
<1> USE DEF TypeOK, Written, Trusted, FullSize, Unused, Block, disk,
            local, Goto, Finish, ReturnWith, AfterEnsure
<1>1. ASSUME NEW t \in Threads, Call(t) PROVE Trusted'
  BY <1>1 DEF Call
<1>2. ASSUME NEW t \in Threads, EnsureMkdir(t) PROVE Trusted'
  BY <1>2 DEF EnsureMkdir
<1>3. ASSUME NEW t \in Threads, EnsureOpen(t) PROVE Trusted'
  BY <1>3 DEF EnsureOpen
<1>4. ASSUME NEW t \in Threads, EnsureCreate(t) PROVE Trusted'
  BY <1>4 DEF EnsureCreate
<1>5. ASSUME NEW t \in Threads, EnsureFail(t) PROVE Trusted'
  BY <1>5 DEF EnsureFail
<1>6. ASSUME NEW t \in Threads, Check(t) PROVE Trusted'
  BY <1>6 DEF Check
<1>7. ASSUME NEW t \in Threads, Flock(t) PROVE Trusted'
  BY <1>7 DEF Flock
<1>8. ASSUME NEW t \in Threads, FlockFail(t) PROVE Trusted'
  BY <1>8 DEF FlockFail
<1>9. ASSUME NEW t \in Threads, Hit(t) PROVE Trusted'
  BY <1>9 DEF Hit
<1>10. ASSUME NEW t \in Threads, Miss(t) PROVE Trusted'
  BY <1>10 DEF Miss
<1>11. ASSUME NEW t \in Threads, StatFail(t) PROVE Trusted'
  BY <1>11 DEF StatFail
<1>12. ASSUME NEW t \in Threads, WriteBlock(t) PROVE Trusted'
  BY <1>12 DEF WriteBlock
<1>13. ASSUME NEW t \in Threads, DownloadOk(t) PROVE Trusted'
  BY <1>13 DEF DownloadOk
<1>14. ASSUME NEW t \in Threads, DownloadFail(t) PROVE Trusted'
  BY <1>14 DEF DownloadFail
<1>15. ASSUME NEW t \in Threads, Close(t) PROVE Trusted'
  BY <1>15 DEF Close
<1>16. ASSUME NEW t \in Threads, Remove(t) PROVE Trusted'
  BY <1>16 DEF Remove
<1>17. ASSUME NEW t \in Threads, RemoveFail(t) PROVE Trusted'
  BY <1>17 DEF RemoveFail
<1>18. ASSUME NEW t \in Threads, Sync(t) PROVE Trusted'
  BY <1>18 DEF Sync
<1>19. ASSUME NEW t \in Threads, SyncFail(t) PROVE Trusted'
  BY <1>19 DEF SyncFail
<1>20. ASSUME NEW t \in Threads, Unlock(t) PROVE Trusted'
  BY <1>20 DEF Unlock
<1>21. ASSUME NEW t \in Threads, Release(t) PROVE Trusted'
  BY <1>21 DEF Release
<1>22. ASSUME NEW p \in Instances, Crash(p) PROVE Trusted'
  BY <1>22 DEF Crash
<1>23. CASE UNCHANGED vars
  BY <1>23 DEF vars
<1> QED
  BY <1>1, <1>2, <1>3, <1>4, <1>5, <1>6, <1>7, <1>8, <1>9, <1>10,
     <1>11, <1>12, <1>13, <1>14, <1>15, <1>16, <1>17, <1>18, <1>19,
     <1>20, <1>21, <1>22, <1>23
     DEF Next, Step, EnsureStep, CheckAndGetStep, Fault

(* A thread becomes a reader in Unlock, under the lock any downloader of   *)
(* its inode would hold, and a downloader in Miss, where no reader is.     *)
LEMMA ApartStep ==
  ASSUME TypeOK, Locked, Checking, Written, Trusted, Apart, [Next]_vars
  PROVE  Apart'
<1> USE FileCacheAssumption
<1> USE DEF TypeOK, Locked, Checking, InLock, Written, Trusted, Apart,
            FullSize, Block, disk, local, Goto, Finish, ReturnWith,
            AfterEnsure
<1>1. ASSUME NEW t \in Threads, Call(t) PROVE Apart'
  BY <1>1 DEF Call
<1>2. ASSUME NEW t \in Threads, EnsureMkdir(t) PROVE Apart'
  BY <1>2 DEF EnsureMkdir
<1>3. ASSUME NEW t \in Threads, EnsureOpen(t) PROVE Apart'
  BY <1>3 DEF EnsureOpen
<1>4. ASSUME NEW t \in Threads, EnsureCreate(t) PROVE Apart'
  BY <1>4 DEF EnsureCreate
<1>5. ASSUME NEW t \in Threads, EnsureFail(t) PROVE Apart'
  BY <1>5 DEF EnsureFail
<1>6. ASSUME NEW t \in Threads, Check(t) PROVE Apart'
  BY <1>6 DEF Check
<1>7. ASSUME NEW t \in Threads, Flock(t) PROVE Apart'
  BY <1>7 DEF Flock
<1>8. ASSUME NEW t \in Threads, FlockFail(t) PROVE Apart'
  BY <1>8 DEF FlockFail
<1>9. ASSUME NEW t \in Threads, Hit(t) PROVE Apart'
  BY <1>9 DEF Hit
<1>10. ASSUME NEW t \in Threads, Miss(t) PROVE Apart'
  BY <1>10 DEF Miss
<1>11. ASSUME NEW t \in Threads, StatFail(t) PROVE Apart'
  BY <1>11 DEF StatFail
<1>12. ASSUME NEW t \in Threads, WriteBlock(t) PROVE Apart'
  BY <1>12 DEF WriteBlock
<1>13. ASSUME NEW t \in Threads, DownloadOk(t) PROVE Apart'
  BY <1>13 DEF DownloadOk
<1>14. ASSUME NEW t \in Threads, DownloadFail(t) PROVE Apart'
  BY <1>14 DEF DownloadFail
<1>15. ASSUME NEW t \in Threads, Close(t) PROVE Apart'
  BY <1>15 DEF Close
<1>16. ASSUME NEW t \in Threads, Remove(t) PROVE Apart'
  BY <1>16 DEF Remove
<1>17. ASSUME NEW t \in Threads, RemoveFail(t) PROVE Apart'
  BY <1>17 DEF RemoveFail
<1>18. ASSUME NEW t \in Threads, Sync(t) PROVE Apart'
  BY <1>18 DEF Sync
<1>19. ASSUME NEW t \in Threads, SyncFail(t) PROVE Apart'
  BY <1>19 DEF SyncFail
<1>20. ASSUME NEW t \in Threads, Unlock(t) PROVE Apart'
  BY <1>20 DEF Unlock
<1>21. ASSUME NEW t \in Threads, Release(t) PROVE Apart'
  BY <1>21 DEF Release
<1>22. ASSUME NEW p \in Instances, Crash(p) PROVE Apart'
  BY <1>22 DEF Crash
<1>23. CASE UNCHANGED vars
  BY <1>23 DEF vars
<1> QED
  BY <1>1, <1>2, <1>3, <1>4, <1>5, <1>6, <1>7, <1>8, <1>9, <1>10,
     <1>11, <1>12, <1>13, <1>14, <1>15, <1>16, <1>17, <1>18, <1>19,
     <1>20, <1>21, <1>22, <1>23
     DEF Next, Step, EnsureStep, CheckAndGetStep, Fault

(* A failed download stays guarded until Remove has taken the name away.   *)
LEMMA GuardedStep ==
  ASSUME TypeOK, Written, Guarded, [Next]_vars
  PROVE  Guarded'
<1> USE FileCacheAssumption
<1> USE DEF TypeOK, Written, Guarded, IoFaults, Crashes, FullSize, Block,
            Finished, RemoveName, disk, local, Goto, Finish, ReturnWith, AfterEnsure
<1>1. ASSUME NEW t \in Threads, Call(t) PROVE Guarded'
  BY <1>1 DEF Call
<1>2. ASSUME NEW t \in Threads, EnsureMkdir(t) PROVE Guarded'
  BY <1>2 DEF EnsureMkdir
<1>3. ASSUME NEW t \in Threads, EnsureOpen(t) PROVE Guarded'
  BY <1>3 DEF EnsureOpen
<1>4. ASSUME NEW t \in Threads, EnsureCreate(t) PROVE Guarded'
  BY <1>4 DEF EnsureCreate
<1>5. ASSUME NEW t \in Threads, EnsureFail(t) PROVE Guarded'
  BY <1>5 DEF EnsureFail
<1>6. ASSUME NEW t \in Threads, Check(t) PROVE Guarded'
  BY <1>6 DEF Check
<1>7. ASSUME NEW t \in Threads, Flock(t) PROVE Guarded'
  BY <1>7 DEF Flock
<1>8. ASSUME NEW t \in Threads, FlockFail(t) PROVE Guarded'
  BY <1>8 DEF FlockFail
<1>9. ASSUME NEW t \in Threads, Hit(t) PROVE Guarded'
  BY <1>9 DEF Hit
<1>10. ASSUME NEW t \in Threads, Miss(t) PROVE Guarded'
  BY <1>10 DEF Miss
<1>11. ASSUME NEW t \in Threads, StatFail(t) PROVE Guarded'
  BY <1>11 DEF StatFail
<1>12. ASSUME NEW t \in Threads, WriteBlock(t) PROVE Guarded'
  BY <1>12 DEF WriteBlock
<1>13. ASSUME NEW t \in Threads, DownloadOk(t) PROVE Guarded'
  BY <1>13 DEF DownloadOk
<1>14. ASSUME NEW t \in Threads, DownloadFail(t) PROVE Guarded'
  BY <1>14 DEF DownloadFail
<1>15. ASSUME NEW t \in Threads, Close(t) PROVE Guarded'
  BY <1>15 DEF Close
<1>16. ASSUME NEW t \in Threads, Remove(t) PROVE Guarded'
  BY <1>16 DEF Remove
<1>17. ASSUME NEW t \in Threads, RemoveFail(t) PROVE Guarded'
  BY <1>17 DEF RemoveFail
<1>18. ASSUME NEW t \in Threads, Sync(t) PROVE Guarded'
  BY <1>18 DEF Sync
<1>19. ASSUME NEW t \in Threads, SyncFail(t) PROVE Guarded'
  BY <1>19 DEF SyncFail
<1>20. ASSUME NEW t \in Threads, Unlock(t) PROVE Guarded'
  BY <1>20 DEF Unlock
<1>21. ASSUME NEW t \in Threads, Release(t) PROVE Guarded'
  BY <1>21 DEF Release
<1>22. ASSUME NEW p \in Instances, Crash(p) PROVE Guarded'
  BY <1>22 DEF Crash
<1>23. CASE UNCHANGED vars
  BY <1>23 DEF vars
<1> QED
  BY <1>1, <1>2, <1>3, <1>4, <1>5, <1>6, <1>7, <1>8, <1>9, <1>10,
     <1>11, <1>12, <1>13, <1>14, <1>15, <1>16, <1>17, <1>18, <1>19,
     <1>20, <1>21, <1>22, <1>23
     DEF Next, Step, EnsureStep, CheckAndGetStep, Fault

(* Without failures a download ends only when the file is whole, so under  *)
(* the lock the size tells the truth.                                      *)
LEMMA SoundStep ==
  ASSUME TypeOK, Locked, Checking, Written, Trusted, Sound, [Next]_vars
  PROVE  Sound'
<1> USE FileCacheAssumption
<1> USE DEF TypeOK, Locked, Checking, InLock, Written, Trusted, Sound,
            StorageFaults, IoFaults, Crashes, FullSize, Block, Finished,
            Unused, disk, local, Goto, Finish, ReturnWith, AfterEnsure
<1>1. ASSUME NEW t \in Threads, Call(t) PROVE Sound'
  BY <1>1 DEF Call
<1>2. ASSUME NEW t \in Threads, EnsureMkdir(t) PROVE Sound'
  BY <1>2 DEF EnsureMkdir
<1>3. ASSUME NEW t \in Threads, EnsureOpen(t) PROVE Sound'
  BY <1>3 DEF EnsureOpen
<1>4. ASSUME NEW t \in Threads, EnsureCreate(t) PROVE Sound'
  BY <1>4 DEF EnsureCreate
<1>5. ASSUME NEW t \in Threads, EnsureFail(t) PROVE Sound'
  BY <1>5 DEF EnsureFail
<1>6. ASSUME NEW t \in Threads, Check(t) PROVE Sound'
  BY <1>6 DEF Check
<1>7. ASSUME NEW t \in Threads, Flock(t) PROVE Sound'
  BY <1>7 DEF Flock
<1>8. ASSUME NEW t \in Threads, FlockFail(t) PROVE Sound'
  BY <1>8 DEF FlockFail
<1>9. ASSUME NEW t \in Threads, Hit(t) PROVE Sound'
  BY <1>9 DEF Hit
<1>10. ASSUME NEW t \in Threads, Miss(t) PROVE Sound'
  BY <1>10 DEF Miss
<1>11. ASSUME NEW t \in Threads, StatFail(t) PROVE Sound'
  BY <1>11 DEF StatFail
<1>12. ASSUME NEW t \in Threads, WriteBlock(t) PROVE Sound'
  BY <1>12 DEF WriteBlock
<1>13. ASSUME NEW t \in Threads, DownloadOk(t) PROVE Sound'
  BY <1>13 DEF DownloadOk
<1>14. ASSUME NEW t \in Threads, DownloadFail(t) PROVE Sound'
  BY <1>14 DEF DownloadFail
<1>15. ASSUME NEW t \in Threads, Close(t) PROVE Sound'
  BY <1>15 DEF Close
<1>16. ASSUME NEW t \in Threads, Remove(t) PROVE Sound'
  BY <1>16 DEF Remove
<1>17. ASSUME NEW t \in Threads, RemoveFail(t) PROVE Sound'
  BY <1>17 DEF RemoveFail
<1>18. ASSUME NEW t \in Threads, Sync(t) PROVE Sound'
  BY <1>18 DEF Sync
<1>19. ASSUME NEW t \in Threads, SyncFail(t) PROVE Sound'
  BY <1>19 DEF SyncFail
<1>20. ASSUME NEW t \in Threads, Unlock(t) PROVE Sound'
  BY <1>20 DEF Unlock
<1>21. ASSUME NEW t \in Threads, Release(t) PROVE Sound'
  BY <1>21 DEF Release
<1>22. ASSUME NEW p \in Instances, Crash(p) PROVE Sound'
  BY <1>22 DEF Crash
<1>23. CASE UNCHANGED vars
  BY <1>23 DEF vars
<1> QED
  BY <1>1, <1>2, <1>3, <1>4, <1>5, <1>6, <1>7, <1>8, <1>9, <1>10,
     <1>11, <1>12, <1>13, <1>14, <1>15, <1>16, <1>17, <1>18, <1>19,
     <1>20, <1>21, <1>22, <1>23
     DEF Next, Step, EnsureStep, CheckAndGetStep, Fault

(* Only the faults that may happen lead to an error and to a removal.      *)
LEMMA BlamedStep ==
  ASSUME TypeOK, Blamed, [Next]_vars
  PROVE  Blamed'
<1> USE DEF TypeOK, Blamed, StorageFaults, IoFaults, disk, local, Goto, Finish,
            ReturnWith, AfterEnsure
<1>1. ASSUME NEW t \in Threads, Call(t) \/ EnsureStep(t) \/ Check(t) \/ Flock(t) PROVE Blamed'
  BY <1>1 DEF Call, EnsureStep, EnsureMkdir, EnsureOpen, EnsureCreate, Check, Flock
<1>2. ASSUME NEW t \in Threads, Hit(t) \/ Miss(t) \/ WriteBlock(t) \/ DownloadOk(t)
      PROVE  Blamed'
  BY <1>2 DEF Hit, Miss, WriteBlock, DownloadOk
<1>3. ASSUME NEW t \in Threads, Close(t) \/ Remove(t) \/ Sync(t) \/ Unlock(t) \/ Release(t)
      PROVE  Blamed'
  BY <1>3 DEF Close, Remove, Sync, Unlock, Release
<1>4. ASSUME NEW t \in Threads, Fault(t) PROVE Blamed'
  BY <1>4 DEF Fault, EnsureFail, FlockFail, StatFail, DownloadFail, RemoveFail, SyncFail
<1>5. ASSUME NEW p \in Instances, Crash(p) PROVE Blamed'
  BY <1>5 DEF Crash
<1>6. CASE UNCHANGED vars
  BY <1>6 DEF vars
<1> QED
  BY <1>1, <1>2, <1>3, <1>4, <1>5, <1>6 DEF Next, Step, CheckAndGetStep

-----------------------------------------------------------------------------
(* The strengthening is an invariant, whatever fails.                      *)
THEOREM Invariant == Spec => []IInv
<1>1. Init => IInv
  BY FileCacheAssumption
     DEF Init, IInv, TypeOK, Locked, InLock, Checking, Written, Trusted, Apart,
         Guarded, Sound, Blamed, FullSize
<1>2. IInv /\ [Next]_vars => IInv'
  BY TypeStep, LockedStep, CheckingStep, WrittenStep, TrustedStep, ApartStep,
     GuardedStep, SoundStep, BlamedStep DEF IInv
<1> QED
  BY <1>1, <1>2, PTL DEF Spec

(* Types; descriptors are open where the code has them open, and a lock    *)
(* has a holder that still has the inode open.                             *)
THEOREM TypeCorrect == Spec => []TypeOK
BY Invariant, PTL DEF IInv

(* Two threads never work on one inode at the same time.                   *)
THEOREM LockExcludes == Spec => []Exclusive
<1>1. IInv => Exclusive
  BY DEF IInv, TypeOK, Locked, InLock, Exclusive
<1> QED
  BY Invariant, <1>1, PTL

(* What a call downloaded itself is whole, whatever fails around it.       *)
THEOREM FetchedIsWhole == Spec => []FetchedWhole
<1>1. IInv => FetchedWhole
  <2> SUFFICES ASSUME IInv, NEW t \in Threads,
                      pc[t] = "open", outcome[t] = "fetched"
               PROVE  data[fd[t]] = Block
    BY DEF FetchedWhole, Whole
  <2>1. data[fd[t]] \subseteq Block
    BY DEF IInv, TypeOK
  <2>2. Block \subseteq data[fd[t]]
    BY DEF IInv, Written
  <2> QED
    BY <2>1, <2>2
<1> QED
  BY Invariant, <1>1, PTL

(* A file somebody reads does not change.                                  *)
LEMMA ReadersStep ==
  ASSUME IInv, Next, NEW t \in Threads, pc[t] = "open"
  PROVE  data'[fd[t]] = data[fd[t]]
<1>1. fd[t] \in Inodes
  BY DEF IInv, TypeOK
<1>2. ASSUME NEW u \in Threads, WriteBlock(u)
      PROVE  data'[fd[t]] = data[fd[t]]
  BY <1>1, <1>2 DEF WriteBlock, IInv, TypeOK, Apart
<1>3. ASSUME NEW u \in Threads, EnsureCreate(u)
      PROVE  data'[fd[t]] = data[fd[t]]
  BY <1>1, <1>3 DEF EnsureCreate, Unused, IInv, TypeOK
<1>4. CASE UNCHANGED data
  BY <1>4
<1> QED
  BY <1>2, <1>3, <1>4
     DEF Next, Step, EnsureStep, CheckAndGetStep, Fault, disk, local,
         Call, EnsureMkdir, EnsureOpen, EnsureFail, Check, Flock, FlockFail,
         Hit, Miss, StatFail, DownloadOk, DownloadFail, Close, Remove,
         RemoveFail, Sync, SyncFail, Unlock, Release, Crash

(* Nor does it while the reader has it, whatever happens to its name.      *)
THEOREM ReadersAreUndisturbed == Spec => ReadersUndisturbed
<1>1. IInv /\ [Next]_vars =>
        [\A t \in Threads :
           pc[t] = "open" /\ pc'[t] = "open" => data'[fd[t]] = data[fd[t]]]_vars
  BY ReadersStep
<1> QED
  BY Invariant, <1>1, PTL DEF Spec, ReadersUndisturbed

(* A failed download, once over, leaves no file the next call would trust, *)
(* as long as system calls succeed and nobody is killed.                   *)
THEOREM NothingBadStays == Spec => []NothingBadLeft
<1>1. IInv => NothingBadLeft
  BY FileCacheAssumption DEF IInv, TypeOK, Guarded, NothingBadLeft, Whole
<1> QED
  BY Invariant, <1>1, PTL

(* Without any failure CheckAndGet hands out whole files only.             *)
THEOREM HandlesAreWhole == Spec => []SharedHandleWhole
<1>1. IInv => SharedHandleWhole
  <2> SUFFICES ASSUME IInv, faults = {}, NEW t \in Threads, pc[t] = "open"
               PROVE  data[fd[t]] = Block
    BY DEF SharedHandleWhole, HandleWhole, Whole
  <2>1. data[fd[t]] \subseteq Block
    BY DEF IInv, TypeOK
  <2>2. Block \subseteq data[fd[t]]
    BY DEF IInv, Sound, StorageFaults, IoFaults, Crashes
  <2> QED
    BY <2>1, <2>2
<1> QED
  BY Invariant, <1>1, PTL

-----------------------------------------------------------------------------
(* What the callers see: module CacheContract.                             *)

(* A step of one thread changes nothing for the callers of the others.     *)
LEMMA OthersSame ==
  ASSUME IInv, Next, NEW t \in Threads,
         Call(t) \/ Step(t) \/ Flock(t) \/ Fault(t) \/ Release(t),
         NEW u \in Threads, u # t
  PROVE  Calls'[u] = Calls[u] /\ Files'[u] = Files[u]
<1>1. pc'[u] = pc[u] /\ op'[u] = op[u] /\ fd'[u] = fd[u]
  <2> USE DEF IInv, TypeOK, disk, local, Goto, Finish, ReturnWith, AfterEnsure
  <2>1. CASE Call(t) \/ EnsureStep(t) \/ Check(t) \/ Flock(t)
    BY <2>1 DEF Call, EnsureStep, EnsureMkdir, EnsureOpen, EnsureCreate, Check, Flock
  <2>2. CASE Hit(t) \/ Miss(t) \/ WriteBlock(t) \/ DownloadOk(t)
    BY <2>2 DEF Hit, Miss, WriteBlock, DownloadOk
  <2>3. CASE Close(t) \/ Remove(t) \/ Sync(t) \/ Unlock(t) \/ Release(t)
    BY <2>3 DEF Close, Remove, Sync, Unlock, Release
  <2>4. CASE Fault(t)
    BY <2>4 DEF Fault, EnsureFail, FlockFail, StatFail, DownloadFail, RemoveFail, SyncFail
  <2> QED
    BY <2>1, <2>2, <2>3, <2>4 DEF Step, CheckAndGetStep
<1>2. pc[u] = "open" => data'[fd[u]] = data[fd[u]]
  BY ReadersStep
<1> QED
  BY <1>1, <1>2 DEF Calls, Files

(* So it is a step of the contract when it is one for its own caller.      *)
LEMMA OwnStep ==
  ASSUME IInv, Next, NEW t \in Threads,
         Call(t) \/ Step(t) \/ Flock(t) \/ Fault(t) \/ Release(t)
  PROVE  /\ Calls' = [Calls EXCEPT ![t] = Calls'[t]]
         /\ Files' = [Files EXCEPT ![t] = Files'[t]]
         /\ Calls = [Calls EXCEPT ![t] = Calls[t]] /\ Files = [Files EXCEPT ![t] = Files[t]]
         /\ faults' = faults
<1>1. \A u \in Threads : u # t => Calls'[u] = Calls[u] /\ Files'[u] = Files[u]
  BY OthersSame
<1>2. /\ Calls = [u \in Threads |-> Calls[u]] /\ Calls' = [u \in Threads |-> Calls'[u]]
      /\ Files = [u \in Threads |-> Files[u]] /\ Files' = [u \in Threads |-> Files'[u]]
  BY DEF Calls, Files
<1>3. faults' = faults
  BY DEF Next, Step, EnsureStep, CheckAndGetStep, Fault, Call, EnsureMkdir, EnsureOpen,
         EnsureCreate, EnsureFail, Check, Flock, FlockFail, Hit, Miss, StatFail, WriteBlock,
         DownloadOk, DownloadFail, Close, Remove, RemoveFail, Sync, SyncFail, Unlock, Release,
         Crash
<1> QED
  BY <1>1, <1>2, <1>3

(* What a step is for its caller: a call, an answer, the end of a reader,  *)
(* or nothing.                                                             *)
LEMMA StepForCaller ==
  ASSUME IInv, Next, NEW t \in Threads,
         Call(t) \/ Step(t) \/ Flock(t) \/ Fault(t) \/ Release(t)
  PROVE  \/ Contract!Ask(t) \/ Contract!Open(t) \/ Contract!Refuse(t)
         \/ Contract!Checked(t) \/ Contract!Release(t)
         \/ UNCHANGED <<faults, Calls, Files>>
<1> USE DEF IInv, TypeOK, disk, local, Goto, Finish, ReturnWith, AfterEnsure
<1> DEFINE Sees(a, b) == Calls[t] = a /\ Calls'[t] = b
           Empty == Files[t] = {} /\ Files'[t] = {}
<1>1. /\ Calls' = [Calls EXCEPT ![t] = Calls'[t]] /\ Files' = [Files EXCEPT ![t] = Files'[t]]
      /\ faults' = faults /\ Calls = [Calls EXCEPT ![t] = Calls[t]]
      /\ Files = [Files EXCEPT ![t] = Files[t]]
  BY OwnStep
<1>2. Sees("none", "get") /\ Empty => Contract!Ask(t)
  BY <1>1 DEF Contract!Ask
<1>3. Sees("none", "check") /\ Empty => Contract!Ask(t)
  BY <1>1 DEF Contract!Ask
<1>4. Sees("check", "none") /\ Empty => Contract!Checked(t)
  BY <1>1 DEF Contract!Checked
<1>5. Sees("get", "none") /\ Empty /\ (StorageFaults \/ IoFaults) => Contract!Refuse(t)
  BY <1>1 DEF Contract!Refuse, StorageFaults, IoFaults
<1>6. Sees("open", "none") /\ Files'[t] = {} => Contract!Release(t)
  BY <1>1 DEF Contract!Release
<1>7. ASSUME Sees("get", "open"), Files'[t] \in SUBSET Block, FullSize(Files'[t]),
             faults = {} => Files'[t] = Block
      PROVE  Contract!Open(t)
  BY <1>1, <1>7 DEF Contract!Open, Contract!Block, Block, FullSize
<1>8. Calls'[t] = Calls[t] /\ Files'[t] = Files[t] => UNCHANGED <<faults, Calls, Files>>
  BY <1>1
<1> HIDE DEF Sees, Empty
<1>9. CASE Call(t)
  <2>1. op'[t] \in {"get", "check"} /\ Sees("none", op'[t]) /\ Empty
    BY <1>9 DEF Call, Sees, Empty, Calls, Files
  <2> QED
    BY <1>2, <1>3, <2>1
<1>10. CASE EnsureStep(t) \/ Flock(t)
  <2>1. Calls'[t] = Calls[t] /\ Files'[t] = Files[t]
    BY <1>10 DEF EnsureStep, EnsureMkdir, EnsureOpen, EnsureCreate, Flock, Calls, Files
  <2> QED
    BY <1>8, <2>1
<1>11. CASE Check(t)
  <2>1. Sees("check", "none") /\ Empty
    BY <1>11 DEF Check, Sees, Empty, Calls, Files
  <2> QED
    BY <1>4, <2>1
<1>12. CASE Hit(t) \/ Miss(t) \/ WriteBlock(t) \/ DownloadOk(t) \/ Close(t) \/ Sync(t)
  <2>1. Calls'[t] = Calls[t] /\ Files'[t] = Files[t]
    BY <1>12 DEF Hit, Miss, WriteBlock, DownloadOk, Close, Sync, Calls, Files
  <2> QED
    BY <1>8, <2>1
<1>13. CASE StatFail(t) \/ SyncFail(t) \/ DownloadFail(t)
  <2>1. Calls'[t] = Calls[t] /\ Files'[t] = Files[t]
    BY <1>13 DEF StatFail, SyncFail, DownloadFail, Calls, Files
  <2> QED
    BY <1>8, <2>1
<1>14. CASE EnsureFail(t) \/ FlockFail(t) \/ Remove(t) \/ RemoveFail(t)
  <2>1. op[t] \in {"get", "check"} /\ Sees(op[t], "none") /\ Empty
        /\ (StorageFaults \/ IoFaults)
    BY <1>14 DEF EnsureFail, FlockFail, Remove, RemoveFail, Sees, Empty, Calls, Files, Blamed
  <2> QED
    BY <1>4, <1>5, <2>1
<1>15. CASE Unlock(t) /\ outcome[t] = "error"
  <2>1. op[t] = "get" /\ Sees(op[t], "none") /\ Empty /\ IoFaults
    BY <1>15 DEF Unlock, Sees, Empty, Calls, Files, Blamed, Checking
  <2> QED
    BY <1>5, <2>1
<1>16. CASE Unlock(t) /\ outcome[t] # "error"
  <2>1. op[t] = "get" /\ Sees(op[t], "open") /\ Files'[t] = data[fd[t]] /\ fd[t] \in Inodes
    BY <1>16 DEF Unlock, Sees, Calls, Files, Checking
  <2>2. FullSize(data[fd[t]])
    <3>1. outcome[t] \in {"hit", "fetched"}
      BY <1>16 DEF Unlock, Trusted
    <3>2. outcome[t] = "fetched" => Block \subseteq data[fd[t]]
      BY <1>16 DEF Unlock, Written
    <3>3. NumBlocks - 1 \in Block
      BY FileCacheAssumption DEF Block
    <3> QED
      BY <1>16, <3>1, <3>2, <3>3 DEF Unlock, Trusted, FullSize
  <2>3. faults = {} => data[fd[t]] = Block
    <3>1. faults = {} => Block \subseteq data[fd[t]]
      BY <1>16 DEF Unlock, Sound, StorageFaults, IoFaults, Crashes
    <3> QED
      BY <2>1, <3>1
  <2> QED
    BY <1>7, <2>1, <2>2, <2>3
<1>17. CASE Release(t)
  <2>1. Sees("open", "none") /\ Files'[t] = {}
    BY <1>17 DEF Release, Sees, Calls, Files
  <2> QED
    BY <1>6, <2>1
<1> QED
  BY <1>9, <1>10, <1>11, <1>12, <1>13, <1>14, <1>15, <1>16, <1>17
     DEF Step, CheckAndGetStep, Fault

LEMMA CrashForCallers ==
  ASSUME IInv, Next, NEW p \in Instances, Crash(p)
  PROVE  Contract!Kill(p)
<1>1. \A t \in Threads : pc[t] = "open" => data'[fd[t]] = data[fd[t]]
  BY ReadersStep
<1>2. ASSUME NEW t \in Threads
      PROVE  /\ Calls'[t] = IF Owner[t] = p THEN "none" ELSE Calls[t]
             /\ Files'[t] = IF Owner[t] = p THEN {} ELSE Files[t]
  BY <1>1 DEF Crash, Calls, Files
<1>3. /\ Calls' = [t \in Threads |-> Calls'[t]] /\ Files' = [t \in Threads |-> Files'[t]]
  BY DEF Calls, Files
<1>4. faults' = faults /\ "kill" \in faults
  BY DEF Crash, Crashes
<1> QED
  BY <1>2, <1>3, <1>4 DEF Contract!Kill

(* The safety half of the promise of CacheContract: a call fails only      *)
(* where something did, and a file that was handed out has its size, is    *)
(* whole if nothing failed, and stays as it is until it is released.       *)
THEOREM ImplementsSafety == Spec => Contract!Safety
<1>1. Init => Contract!Init
  BY DEF Init, Contract!Init, Calls, Files
<1>2. IInv /\ [Next]_vars => [Contract!Next]_Contract!vars
  <2> SUFFICES ASSUME IInv, [Next]_vars PROVE [Contract!Next]_Contract!vars
    OBVIOUS
  <2>1. ASSUME Next, NEW t \in Threads,
               Call(t) \/ Step(t) \/ Flock(t) \/ Fault(t) \/ Release(t)
        PROVE  [Contract!Next]_Contract!vars
    BY <2>1, StepForCaller DEF Contract!Next, Contract!Return, Contract!vars
  <2>2. ASSUME Next, NEW p \in Instances, Crash(p) PROVE Contract!Next
    BY <2>2, CrashForCallers DEF Contract!Next
  <2>3. CASE UNCHANGED vars
    BY <2>3 DEF vars, Contract!vars, Calls, Files
  <2> QED
    BY <2>1, <2>2, <2>3 DEF Next
<1> QED
  BY Invariant, <1>1, <1>2, PTL DEF Spec, Contract!Safety
=============================================================================
