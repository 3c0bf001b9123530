----------------------------- MODULE Downloader -----------------------------
(***************************************************************************)
(* rofs/downloader.go: Download fetches the blocks of one file with a pool *)
(* of goroutines.  A feeder hands block indexes to the workers over the    *)
(* unbuffered channel feed, the workers hand verified blocks to the caller *)
(* over the unbuffered channel results, and a waiter closes results when   *)
(* the errgroup of feeder and workers has ended.  The caller's own loop    *)
(* writes each block at its place in the file.                             *)
(*                                                                         *)
(* A rendezvous on an unbuffered channel is one action of both sides.  A   *)
(* select with several ready cases may take any of them.                   *)
(***************************************************************************)
EXTENDS Integers

CONSTANTS
  MaxBlocks,      (* bound on len(d.blocks)                                *)
  MaxWorkers,     (* bound on d.workers                                    *)
  FaultSets       (* what may fail, one set of faults for each behaviour   *)

ASSUME DownloaderAssumption ==
  /\ MaxBlocks \in Nat
  /\ MaxWorkers \in Nat
  /\ FaultSets \subseteq SUBSET {"storage", "write"}

Worker == 1 .. MaxBlocks           (* never more workers than blocks       *)
Block  == 0 .. MaxBlocks - 1

Hole    == -1          (* a slot of the file that was never written        *)
Garbage == -2          (* bytes whose hash is not the one in the metadata  *)
NoReply == -3          (* the storage returned an error                    *)

Bytes  == Block \cup {Garbage, NoReply, Hole}
Output == [index : Block \cup {Hole}, raw : Bytes]      (* OutputBlock     *)

(* The struct: the number of blocks and of workers asked for, and the      *)
(* block size, of which only 0 matters here.                               *)
Downloads ==
  [blocks : 0 .. MaxBlocks, blockSize : {0, 1}, workers : 0 .. MaxWorkers]

VARIABLES
  d,           (* the Downloader                                           *)
  faults,      (* what may fail while it runs                              *)
  feeder,      (* the goroutine that owns feed; "done" also closes feed    *)
  next,        (* the index the feeder's range loop is at                  *)
  worker,      (* where each worker goroutine is                           *)
  job,         (* the block each worker holds                              *)
  groupErr,    (* the errgroup's first error                               *)
  cancelled,   (* whether the errgroup's context is done                   *)
  waiter,      (* the goroutine in group.Wait; "done" also closes results  *)
  main,        (* where the caller of Download is                          *)
  result,      (* the block the caller is writing                          *)
  file,        (* what each block-sized slot of the output file holds      *)
  ret          (* what Download returned, "none" while it runs             *)

setup == <<d, faults>>
group == <<groupErr, cancelled>>
vars ==
  <<setup, feeder, next, worker, job, group, waiter, main, result, file, ret>>

(* The storage may fail or return other bytes; a Seek or Write may fail.   *)
StorageFaults == "storage" \in faults
WriteFaults   == "write" \in faults

Nothing == [index |-> Hole, raw |-> Hole]

DefaultDownloadWorkers == 4

SmallerOf(a, b) == IF a <= b THEN a ELSE b

(* No workers asked for means the default, never more than the blocks.     *)
NumWorkers ==
  SmallerOf(IF d.workers = 0 THEN DefaultDownloadWorkers ELSE d.workers,
            d.blocks)

Running == 1 .. NumWorkers

(* The file is new, or holds what an interrupted download left in it.      *)
Init ==
  /\ d \in Downloads /\ faults \in FaultSets
  /\ feeder = "idle" /\ next = 0
  /\ worker = [w \in Worker |-> "idle"]
  /\ job = [w \in Worker |-> Nothing]
  /\ groupErr = "none" /\ cancelled = FALSE
  /\ waiter = "idle"
  /\ main = "start" /\ result = Nothing
  /\ file \in {[i \in Block |-> b] : b \in {Hole, Garbage}}
  /\ ret = "none"

-----------------------------------------------------------------------------
(* Entry of Download.                                                      *)

Reject ==
  /\ main = "start"
  /\ d.blocks = 0 \/ d.blockSize = 0
  /\ main' = "returned"
  /\ ret' = IF d.blocks = 0 THEN "noBlocks" ELSE "noBlockSize"
  /\ UNCHANGED <<setup, feeder, next, worker, job, group, waiter, result, file>>

Start ==
  /\ main = "start"
  /\ d.blocks > 0 /\ d.blockSize > 0
  /\ main' = "range"
  /\ feeder' = "send"
  /\ worker' = [w \in Worker |-> IF w \in Running THEN "recv" ELSE "idle"]
  /\ waiter' = "wait"
  /\ UNCHANGED <<setup, next, job, group, result, file, ret>>

-----------------------------------------------------------------------------
(* The errgroup: the first error is kept and cancels the context.          *)

RecordLast(e) ==                    (* slip: a later error replaces it     *)
  /\ groupErr' = e
  /\ cancelled' = TRUE

RecordOnly(e) ==                    (* slip: a group without its context   *)
  /\ groupErr' = IF groupErr = "none" THEN e ELSE groupErr
  /\ UNCHANGED cancelled

Record(e) ==
  /\ groupErr' = IF groupErr = "none" THEN e ELSE groupErr
  /\ cancelled' = TRUE

AllWorkersDone == \A w \in Worker : worker[w] \in {"idle", "done"}

SomeWorkerDone ==                   (* slip: Wait returns with the feeder  *)
  feeder = "done" /\ \E w \in Worker : worker[w] = "done"

GroupDone == feeder = "done" /\ AllWorkersDone

-----------------------------------------------------------------------------
(* The feeder.                                                             *)

MoreOrEqual == next <= d.blocks    (* slip: one index too many            *)

MoreBlocks == next < d.blocks

Feed(w) ==
  /\ feeder = "send" /\ MoreBlocks
  /\ worker[w] = "recv"
  /\ worker' = [worker EXCEPT ![w] = "fetch"]
  /\ job' = [job EXCEPT ![w] = [index |-> next, raw |-> Hole]]
  /\ next' = next + 1
  /\ UNCHANGED <<setup, feeder, group, waiter, main, result, file, ret>>

FeederDone ==
  /\ feeder = "send" /\ ~MoreBlocks
  /\ feeder' = "done"
  /\ UNCHANGED <<setup, next, worker, job, group, waiter>>
  /\ UNCHANGED <<main, result, file, ret>>

FeederCancel ==
  /\ feeder = "send" /\ MoreBlocks
  /\ cancelled
  /\ feeder' = "done"
  /\ Record("ctx")
  /\ UNCHANGED <<setup, next, worker, job, waiter, main, result, file, ret>>

-----------------------------------------------------------------------------
(* A worker.                                                               *)

WorkerDone(w) ==
  /\ worker[w] = "recv"
  /\ feeder = "done"
  /\ worker' = [worker EXCEPT ![w] = "done"]
  /\ UNCHANGED <<setup, feeder, next, job, group, waiter>>
  /\ UNCHANGED <<main, result, file, ret>>

(* What storage.Get and the read of its body may yield for block i.        *)
Replies(i) == IF StorageFaults THEN {i, Garbage, NoReply} ELSE {i}

HasReply(i, bytes) == bytes # NoReply   (* slip: the hash is not compared  *)

(* downloadBlock succeeds when the decoded bytes hash to block.Decipher.   *)
Verified(i, bytes) == bytes = i

Fetch(w) ==
  /\ worker[w] = "fetch"
  /\ \E bytes \in Replies(job[w].index) :
       IF Verified(job[w].index, bytes)
       THEN /\ worker' = [worker EXCEPT ![w] = "send"]
            /\ job' = [job EXCEPT ![w].raw = bytes]
            /\ UNCHANGED group
       ELSE /\ worker' = [worker EXCEPT ![w] = "done"]
            /\ Record("block")
            /\ UNCHANGED job
  /\ UNCHANGED <<setup, feeder, next, waiter, main, result, file, ret>>

Send(w) ==
  /\ worker[w] = "send"
  /\ main = "range"
  /\ worker' = [worker EXCEPT ![w] = "recv"]
  /\ result' = job[w]
  /\ main' = "write"
  /\ UNCHANGED <<setup, feeder, next, job, group, waiter, file, ret>>

SendCancel(w) ==
  /\ worker[w] = "send"
  /\ cancelled
  /\ worker' = [worker EXCEPT ![w] = "done"]
  /\ Record("ctx")
  /\ UNCHANGED <<setup, feeder, next, job, waiter, main, result, file, ret>>

-----------------------------------------------------------------------------
(* The waiter: group.Wait cancels the context, then results is closed.     *)

CloseResults ==
  /\ waiter = "wait"
  /\ GroupDone
  /\ waiter' = "done"
  /\ cancelled' = TRUE
  /\ UNCHANGED <<setup, feeder, next, worker, job, groupErr, main>>
  /\ UNCHANGED <<result, file, ret>>

-----------------------------------------------------------------------------
(* The caller's loop over results.                                         *)

(* Seek to Index * blockSize.                                              *)
Slot(r) == r.index

Write ==
  /\ main = "write"
  /\ file' = [file EXCEPT ![Slot(result)] = result.raw]
  /\ main' = "range"
  /\ UNCHANGED <<setup, feeder, next, worker, job, group, waiter, result, ret>>

(* Seek or Write fails, perhaps after part of the block: Download returns  *)
(* at once and nobody receives from results any more.                      *)
WriteFail ==
  /\ WriteFaults
  /\ main = "write"
  /\ file' \in {file, [file EXCEPT ![Slot(result)] = Garbage]}
  /\ main' = "returned"
  /\ ret' = "write"
  /\ UNCHANGED <<setup, feeder, next, worker, job, group, waiter, result>>

Return ==
  /\ main = "range"
  /\ waiter = "done"
  /\ main' = "returned"
  /\ ret' = IF groupErr = "none" THEN "ok" ELSE groupErr
  /\ UNCHANGED <<setup, feeder, next, worker, job, group, waiter, result, file>>

-----------------------------------------------------------------------------
(* Every goroutine has ended, or was never started.                        *)
Quiescent ==
  /\ feeder \in {"idle", "done"}
  /\ \A w \in Worker : worker[w] \in {"idle", "done"}
  /\ waiter \in {"idle", "done"}

Terminated == main = "returned" /\ Quiescent /\ UNCHANGED vars

FeederStep == FeederDone \/ FeederCancel \/ \E w \in Worker : Feed(w)
WorkerStep(w) == WorkerDone(w) \/ Fetch(w) \/ Send(w) \/ SendCancel(w)
MainStep == Reject \/ Start \/ Write \/ WriteFail \/ Return

Next ==
  \/ MainStep
  \/ FeederStep
  \/ \E w \in Worker : WorkerStep(w)
  \/ CloseResults
  \/ Terminated

(* The Go scheduler runs every goroutine that can run, and the storage     *)
(* answers every Get, with the block or with an error.                     *)
Fairness ==
  /\ WF_vars(MainStep)
  /\ WF_vars(FeederStep)
  /\ \A w \in Worker : WF_vars(WorkerStep(w))
  /\ WF_vars(CloseResults)

Spec == Init /\ [][Next]_vars /\ Fairness

-----------------------------------------------------------------------------
(* Properties.                                                             *)

TypeOK ==
  /\ feeder \in {"idle", "send", "done"}
  /\ d \in Downloads /\ faults \in FaultSets
  /\ next \in 0 .. d.blocks
  /\ worker \in [Worker -> {"idle", "recv", "fetch", "send", "done"}]
  /\ job \in [Worker -> Output]
  /\ groupErr \in {"none", "block", "ctx"}
  /\ cancelled \in BOOLEAN
  /\ waiter \in {"idle", "wait", "done"}
  /\ main \in {"start", "range", "write", "returned"}
  /\ result \in Output
  /\ file \in [Block -> Bytes]
  /\ ret \in {"none", "ok", "noBlocks", "noBlockSize",
               "block", "ctx", "write"}

(* Download returns nil only over a complete file: no block is lost        *)
(* between the feeder, the workers, the results channel and the caller's   *)
(* loop, whatever the order they run in.                                   *)
OkMeansComplete ==
  ret = "ok" => \A i \in Block : i < d.blocks => file[i] = i

(* Until a write fails, the caller's loop only ever puts the verified      *)
(* bytes of block i into slot i.                                           *)
OwnBytesOnly ==
  [][\A i \in Block :
       file'[i] # file[i] => file'[i] = i \/ ret' = "write"]_vars

(* The error Download returns is the block's own error: the "context       *)
(* canceled" of the goroutines it stops never hides it.                    *)
RootCause == groupErr # "ctx" /\ ret # "ctx"

(* Download leaves goroutines behind only when it returns early because a  *)
(* Seek or Write of the output failed.                                     *)
NoGoroutineLeft == main = "returned" /\ ret # "write" => Quiescent

(* With a storage that answers and a disk that takes the bytes, Download   *)
(* does not fail.                                                          *)
NoSpuriousError ==
  /\ ~StorageFaults /\ ~WriteFaults
  /\ d.blocks > 0 /\ d.blockSize > 0
  /\ main = "returned"
  => ret = "ok"

(* The pool of goroutines implements the promise of module BlockDownload:  *)
(* only a complete file is "ok", and Download returns, even when a block   *)
(* fails while other goroutines are blocked on their channels.             *)
Contract == INSTANCE BlockDownload WITH d <- d, file <- file, ret <- ret
ImplementsContract == Contract!Spec
=============================================================================
