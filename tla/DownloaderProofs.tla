-------------------------- MODULE DownloaderProofs --------------------------
(***************************************************************************)
(* Theorems about the goroutines of Download, for every number of blocks   *)
(* and workers.                                                            *)
(*                                                                         *)
(* OkMeansComplete is not inductive: it speaks of the moment Download      *)
(* returns, and the reason it holds lies in the past.  The inductive       *)
(* invariant IInv adds that reason, as a law of conservation: as long as   *)
(* no error was recorded, every index the feeder has handed out is in the  *)
(* hands of a worker, in the caller's, or in the file.                     *)
(***************************************************************************)
EXTENDS Downloader, TLAPS

(* How far each goroutine can be, given where the caller is.               *)
Phases ==
  /\ main = "start" => Quiescent /\ waiter = "idle" /\ next = 0
  /\ main = "returned" <=> ret # "none"
  /\ main \in {"range", "write"} => d.blocks > 0 /\ d.blockSize > 0
  /\ waiter = "done" => GroupDone

(* A block on its way to the file carries its own index and bytes.         *)
Carried ==
  /\ \A w \in Worker : worker[w] = "fetch" => job[w].index \in Block
  /\ \A w \in Worker :
       worker[w] = "send" => /\ job[w].index \in Block
                             /\ job[w].raw = job[w].index
  /\ main = "write" => result.index \in Block /\ result.raw = result.index

(* Only a failed block cancels the group while a goroutine of it runs.     *)
Caused ==
  /\ groupErr # "ctx"
  /\ cancelled /\ groupErr = "none" => waiter = "done"
  /\ groupErr = "block" => StorageFaults

(* What each value returned says.                                          *)
Answered ==
  /\ ret = "noBlocks" => d.blocks = 0
  /\ ret = "noBlockSize" => d.blockSize = 0
  /\ ret = "block" => StorageFaults
  /\ ret = "write" => WriteFaults
  /\ ret # "ctx"

(* Without an error the feeder stops only after the last index.            *)
Fed == feeder = "done" /\ groupErr = "none" => next = d.blocks

InHand(i) ==
  \E w \in Worker : worker[w] \in {"fetch", "send"} /\ job[w].index = i

(* No index is lost on the way from the feeder to the file.                *)
Conserved ==
  groupErr = "none" /\ ret # "write" =>
    \A i \in Block :
      i < next => \/ InHand(i)
                  \/ main = "write" /\ result.index = i
                  \/ file[i] = i

IInv ==
  /\ TypeOK
  /\ Phases
  /\ Carried
  /\ Caused
  /\ Answered
  /\ Fed
  /\ Conserved
  /\ OkMeansComplete
  /\ NoGoroutineLeft
-----------------------------------------------------------------------------
(* The sets the proofs compute with.                                       *)

LEMMA WorkersFit ==
  ASSUME d \in Downloads
  PROVE  d.blocks \in Nat /\ d.blocks <= MaxBlocks /\ NumWorkers \in Nat
BY DownloaderAssumption
   DEF Downloads, NumWorkers, SmallerOf, DefaultDownloadWorkers

(* A fetch ends in one of two ways: the worker holds the bytes of its own  *)
(* block, or it ends and its error is recorded.                            *)
FetchOutcome(w) ==
  /\ UNCHANGED <<setup, feeder, next, waiter, main, result, file, ret>>
  /\ worker[w] = "fetch" /\ job[w].index \in Block
  /\ \/ /\ worker' = [worker EXCEPT ![w] = "send"]
        /\ job' = [job EXCEPT ![w] = [index |-> job[w].index,
                                    raw |-> job[w].index]]
        /\ UNCHANGED <<groupErr, cancelled>>
     \/ /\ StorageFaults
        /\ worker' = [worker EXCEPT ![w] = "done"]
        /\ UNCHANGED job
        /\ groupErr' = IF groupErr = "none" THEN "block" ELSE groupErr
        /\ cancelled' = TRUE

LEMMA Fetched ==
  ASSUME TypeOK, Carried, NEW w \in Worker, Fetch(w)
  PROVE  FetchOutcome(w)
<1> USE DEF FetchOutcome
<1>1. job[w].index \in Block /\ job[w] \in Output
  BY DEF Fetch, Carried, TypeOK
<1>2. PICK bytes \in Replies(job[w].index) :
        IF Verified(job[w].index, bytes)
        THEN /\ worker' = [worker EXCEPT ![w] = "send"]
             /\ job' = [job EXCEPT ![w].raw = bytes]
             /\ UNCHANGED group
        ELSE /\ worker' = [worker EXCEPT ![w] = "done"]
             /\ Record("block")
             /\ UNCHANGED job
  BY DEF Fetch
<1>3. CASE bytes = job[w].index
  <2>1. job' = [job EXCEPT ![w] = [index |-> job[w].index,
                                   raw |-> job[w].index]]
    BY <1>1, <1>2, <1>3 DEF Verified, Output, TypeOK
  <2> QED
    BY <1>1, <1>2, <1>3, <2>1 DEF Verified, Fetch, group
<1>4. CASE bytes # job[w].index
  BY <1>1, <1>2, <1>4, DownloaderAssumption
     DEF Verified, Record, Replies, Fetch
<1> QED
  BY <1>3, <1>4

(* The values of every variable, under every goroutine's steps.            *)
LEMMA TypeStep == TypeOK /\ Carried /\ [Next]_vars => TypeOK'
<1> SUFFICES ASSUME TypeOK, Carried, [Next]_vars
             PROVE  TypeOK'
  OBVIOUS
<1> USE DownloaderAssumption, WorkersFit
<1> USE DEF TypeOK, Output, Bytes, Block, group, setup
<1>1. CASE Reject
  BY <1>1 DEF Reject
<1>2. CASE Start
  BY <1>2 DEF Start
<1>3. CASE Write
  BY <1>3 DEF Write, Slot, Carried
<1>4. CASE WriteFail
  BY <1>4 DEF WriteFail, Slot, Carried
<1>5. CASE Return
  BY <1>5 DEF Return
<1>6. CASE FeederDone
  BY <1>6 DEF FeederDone
<1>7. CASE FeederCancel
  BY <1>7 DEF FeederCancel, Record
<1>8. ASSUME NEW w \in Worker, Feed(w) PROVE TypeOK'
  BY <1>8 DEF Feed, MoreBlocks
<1>9. ASSUME NEW w \in Worker, WorkerDone(w) PROVE TypeOK'
  BY <1>9 DEF WorkerDone
<1>10. ASSUME NEW w \in Worker, Fetch(w) PROVE TypeOK'
  <2>1. FetchOutcome(w)
    BY <1>10, Fetched
  <2>2. [index |-> job[w].index, raw |-> job[w].index] \in Output
    BY <2>1 DEF FetchOutcome
  <2>3. job' \in [Worker -> Output]
    BY <2>1, <2>2 DEF FetchOutcome
  <2>4. worker' \in [Worker -> {"idle", "recv", "fetch", "send", "done"}]
    BY <2>1 DEF FetchOutcome
  <2>5. groupErr' \in {"none", "block", "ctx"} /\ cancelled' \in BOOLEAN
    BY <2>1 DEF FetchOutcome
  <2>6. UNCHANGED <<setup, feeder, next, waiter, main, result, file, ret>>
    BY <2>1 DEF FetchOutcome
  <2> QED
    BY <2>3, <2>4, <2>5, <2>6
<1>11. ASSUME NEW w \in Worker, Send(w) PROVE TypeOK'
  BY <1>11 DEF Send
<1>12. ASSUME NEW w \in Worker, SendCancel(w) PROVE TypeOK'
  BY <1>12 DEF SendCancel, Record
<1>13. CASE CloseResults
  BY <1>13 DEF CloseResults
<1>14. CASE UNCHANGED vars
  BY <1>14 DEF vars
<1> QED
  BY <1>1, <1>2, <1>3, <1>4, <1>5, <1>6, <1>7, <1>8, <1>9,
     <1>10, <1>11, <1>12, <1>13, <1>14
     DEF Next, MainStep, FeederStep, WorkerStep, Terminated

(* How far the goroutines are.                                             *)
LEMMA PhasesStep == TypeOK /\ Phases /\ [Next]_vars => Phases'
<1> SUFFICES ASSUME TypeOK, Phases, [Next]_vars
             PROVE  Phases'
  OBVIOUS
<1> USE DEF TypeOK, Phases, Quiescent, GroupDone, AllWorkersDone, group, setup
<1>1. CASE Reject
  BY <1>1 DEF Reject
<1>2. CASE Start
  BY <1>2 DEF Start
<1>3. CASE Write
  BY <1>3 DEF Write, Slot
<1>4. CASE WriteFail
  BY <1>4 DEF WriteFail, Slot
<1>5. CASE Return
  BY <1>5 DEF Return
<1>6. CASE FeederDone
  BY <1>6 DEF FeederDone, MoreBlocks
<1>7. CASE FeederCancel
  BY <1>7 DEF FeederCancel, MoreBlocks, Record
<1>8. ASSUME NEW w \in Worker, Feed(w) PROVE Phases'
  BY <1>8 DEF Feed, MoreBlocks
<1>9. ASSUME NEW w \in Worker, WorkerDone(w) PROVE Phases'
  BY <1>9 DEF WorkerDone
<1>10. ASSUME NEW w \in Worker, Fetch(w) PROVE Phases'
  BY <1>10 DEF Fetch, Verified, Replies, Record
<1>11. ASSUME NEW w \in Worker, Send(w) PROVE Phases'
  BY <1>11 DEF Send
<1>12. ASSUME NEW w \in Worker, SendCancel(w) PROVE Phases'
  BY <1>12 DEF SendCancel, Record
<1>13. CASE CloseResults
  BY <1>13 DEF CloseResults, GroupDone, AllWorkersDone
<1>14. CASE UNCHANGED vars
  BY <1>14 DEF vars
<1> QED
  BY <1>1, <1>2, <1>3, <1>4, <1>5, <1>6, <1>7, <1>8, <1>9,
     <1>10, <1>11, <1>12, <1>13, <1>14
     DEF Next, MainStep, FeederStep, WorkerStep, Terminated

(* What a worker and the caller hold.                                      *)
LEMMA CarriedStep == TypeOK /\ Carried /\ [Next]_vars => Carried'
<1> SUFFICES ASSUME TypeOK, Carried, [Next]_vars
             PROVE  Carried'
  OBVIOUS
<1> USE DownloaderAssumption, WorkersFit
<1> USE DEF TypeOK, Carried, Block, group, setup
<1>1. CASE Reject
  BY <1>1 DEF Reject
<1>2. CASE Start
  BY <1>2 DEF Start
<1>3. CASE Write
  BY <1>3 DEF Write, Slot
<1>4. CASE WriteFail
  BY <1>4 DEF WriteFail, Slot
<1>5. CASE Return
  BY <1>5 DEF Return
<1>6. CASE FeederDone
  BY <1>6 DEF FeederDone, MoreBlocks
<1>7. CASE FeederCancel
  BY <1>7 DEF FeederCancel, MoreBlocks, Record
<1>8. ASSUME NEW w \in Worker, Feed(w) PROVE Carried'
  BY <1>8 DEF Feed, MoreBlocks
<1>9. ASSUME NEW w \in Worker, WorkerDone(w) PROVE Carried'
  BY <1>9 DEF WorkerDone
<1>10. ASSUME NEW w \in Worker, Fetch(w) PROVE Carried'
  <2>1. FetchOutcome(w)
    BY <1>10, Fetched
  <2> QED
    BY <2>1 DEF FetchOutcome
<1>11. ASSUME NEW w \in Worker, Send(w) PROVE Carried'
  BY <1>11 DEF Send
<1>12. ASSUME NEW w \in Worker, SendCancel(w) PROVE Carried'
  BY <1>12 DEF SendCancel, Record
<1>13. CASE CloseResults
  BY <1>13 DEF CloseResults, GroupDone, AllWorkersDone
<1>14. CASE UNCHANGED vars
  BY <1>14 DEF vars
<1> QED
  BY <1>1, <1>2, <1>3, <1>4, <1>5, <1>6, <1>7, <1>8, <1>9,
     <1>10, <1>11, <1>12, <1>13, <1>14
     DEF Next, MainStep, FeederStep, WorkerStep, Terminated

(* The cause of a cancellation.                                            *)
LEMMA CausedStep == TypeOK /\ Phases /\ Caused /\ [Next]_vars => Caused'
<1> SUFFICES ASSUME TypeOK, Phases, Caused, [Next]_vars
             PROVE  Caused'
  OBVIOUS
<1> USE DEF TypeOK, Phases, Caused, GroupDone, AllWorkersDone, group, setup,
            StorageFaults
<1>1. CASE Reject
  BY <1>1 DEF Reject
<1>2. CASE Start
  BY <1>2 DEF Start
<1>3. CASE Write
  BY <1>3 DEF Write, Slot
<1>4. CASE WriteFail
  BY <1>4 DEF WriteFail, Slot
<1>5. CASE Return
  BY <1>5 DEF Return
<1>6. CASE FeederDone
  BY <1>6 DEF FeederDone, MoreBlocks
<1>7. CASE FeederCancel
  BY <1>7 DEF FeederCancel, MoreBlocks, Record
<1>8. ASSUME NEW w \in Worker, Feed(w) PROVE Caused'
  BY <1>8 DEF Feed, MoreBlocks
<1>9. ASSUME NEW w \in Worker, WorkerDone(w) PROVE Caused'
  BY <1>9 DEF WorkerDone
<1>10. ASSUME NEW w \in Worker, Fetch(w) PROVE Caused'
  BY <1>10 DEF Fetch, Verified, Replies, Record
<1>11. ASSUME NEW w \in Worker, Send(w) PROVE Caused'
  BY <1>11 DEF Send
<1>12. ASSUME NEW w \in Worker, SendCancel(w) PROVE Caused'
  BY <1>12 DEF SendCancel, Record
<1>13. CASE CloseResults
  BY <1>13 DEF CloseResults, GroupDone, AllWorkersDone
<1>14. CASE UNCHANGED vars
  BY <1>14 DEF vars
<1> QED
  BY <1>1, <1>2, <1>3, <1>4, <1>5, <1>6, <1>7, <1>8, <1>9,
     <1>10, <1>11, <1>12, <1>13, <1>14
     DEF Next, MainStep, FeederStep, WorkerStep, Terminated

(* The answer given.                                                       *)
LEMMA AnsweredStep == TypeOK /\ Phases /\ Caused /\ Answered /\ [Next]_vars => Answered'
<1> SUFFICES ASSUME TypeOK, Phases, Caused, Answered, [Next]_vars
             PROVE  Answered'
  OBVIOUS
<1> USE DEF TypeOK, Phases, Caused, Answered, group, setup,
            StorageFaults, WriteFaults
<1>1. CASE Reject
  BY <1>1 DEF Reject
<1>2. CASE Start
  BY <1>2 DEF Start
<1>3. CASE Write
  BY <1>3 DEF Write, Slot
<1>4. CASE WriteFail
  BY <1>4 DEF WriteFail, Slot
<1>5. CASE Return
  BY <1>5 DEF Return
<1>6. CASE FeederDone
  BY <1>6 DEF FeederDone, MoreBlocks
<1>7. CASE FeederCancel
  BY <1>7 DEF FeederCancel, MoreBlocks, Record
<1>8. ASSUME NEW w \in Worker, Feed(w) PROVE Answered'
  BY <1>8 DEF Feed, MoreBlocks
<1>9. ASSUME NEW w \in Worker, WorkerDone(w) PROVE Answered'
  BY <1>9 DEF WorkerDone
<1>10. ASSUME NEW w \in Worker, Fetch(w) PROVE Answered'
  BY <1>10 DEF Fetch, Verified, Replies, Record
<1>11. ASSUME NEW w \in Worker, Send(w) PROVE Answered'
  BY <1>11 DEF Send
<1>12. ASSUME NEW w \in Worker, SendCancel(w) PROVE Answered'
  BY <1>12 DEF SendCancel, Record
<1>13. CASE CloseResults
  BY <1>13 DEF CloseResults, GroupDone, AllWorkersDone
<1>14. CASE UNCHANGED vars
  BY <1>14 DEF vars
<1> QED
  BY <1>1, <1>2, <1>3, <1>4, <1>5, <1>6, <1>7, <1>8, <1>9,
     <1>10, <1>11, <1>12, <1>13, <1>14
     DEF Next, MainStep, FeederStep, WorkerStep, Terminated

(* The end of the feed.                                                    *)
LEMMA FedStep == TypeOK /\ Phases /\ Fed /\ [Next]_vars => Fed'
<1> SUFFICES ASSUME TypeOK, Phases, Fed, [Next]_vars
             PROVE  Fed'
  OBVIOUS
<1> USE WorkersFit
<1> USE DEF TypeOK, Phases, Fed, Quiescent, group, setup
<1>1. CASE Reject
  BY <1>1 DEF Reject
<1>2. CASE Start
  BY <1>2 DEF Start
<1>3. CASE Write
  BY <1>3 DEF Write, Slot
<1>4. CASE WriteFail
  BY <1>4 DEF WriteFail, Slot
<1>5. CASE Return
  BY <1>5 DEF Return
<1>6. CASE FeederDone
  BY <1>6 DEF FeederDone, MoreBlocks
<1>7. CASE FeederCancel
  BY <1>7 DEF FeederCancel, MoreBlocks, Record
<1>8. ASSUME NEW w \in Worker, Feed(w) PROVE Fed'
  BY <1>8 DEF Feed, MoreBlocks
<1>9. ASSUME NEW w \in Worker, WorkerDone(w) PROVE Fed'
  BY <1>9 DEF WorkerDone
<1>10. ASSUME NEW w \in Worker, Fetch(w) PROVE Fed'
  BY <1>10 DEF Fetch, Verified, Replies, Record
<1>11. ASSUME NEW w \in Worker, Send(w) PROVE Fed'
  BY <1>11 DEF Send
<1>12. ASSUME NEW w \in Worker, SendCancel(w) PROVE Fed'
  BY <1>12 DEF SendCancel, Record
<1>13. CASE CloseResults
  BY <1>13 DEF CloseResults, GroupDone, AllWorkersDone
<1>14. CASE UNCHANGED vars
  BY <1>14 DEF vars
<1> QED
  BY <1>1, <1>2, <1>3, <1>4, <1>5, <1>6, <1>7, <1>8, <1>9,
     <1>10, <1>11, <1>12, <1>13, <1>14
     DEF Next, MainStep, FeederStep, WorkerStep, Terminated

(* No index is lost.                                                       *)
LEMMA ConservedStep == IInv /\ [Next]_vars => Conserved'
<1> SUFFICES ASSUME IInv, [Next]_vars
             PROVE  Conserved'
  OBVIOUS
<1> USE DownloaderAssumption, WorkersFit
<1> USE DEF IInv, TypeOK, Phases, Carried, Caused, Conserved, InHand, Block,
            group, setup
<1>1. CASE Reject
  BY <1>1 DEF Reject
<1>2. CASE Start
  BY <1>2 DEF Start
<1>3. CASE Write
  BY <1>3 DEF Write, Slot
<1>4. CASE WriteFail
  BY <1>4 DEF WriteFail, Slot
<1>5. CASE Return
  BY <1>5 DEF Return
<1>6. CASE FeederDone
  BY <1>6 DEF FeederDone, MoreBlocks
<1>7. CASE FeederCancel
  BY <1>7 DEF FeederCancel, MoreBlocks, Record
<1>8. ASSUME NEW w \in Worker, Feed(w) PROVE Conserved'
  BY <1>8 DEF Feed, MoreBlocks
<1>9. ASSUME NEW w \in Worker, WorkerDone(w) PROVE Conserved'
  BY <1>9 DEF WorkerDone
<1>10. ASSUME NEW w \in Worker, Fetch(w) PROVE Conserved'
  <2>1. FetchOutcome(w)
    BY <1>10, Fetched
  <2> QED
    BY <2>1 DEF FetchOutcome
<1>11. ASSUME NEW w \in Worker, Send(w) PROVE Conserved'
  BY <1>11 DEF Send
<1>12. ASSUME NEW w \in Worker, SendCancel(w) PROVE Conserved'
  BY <1>12 DEF SendCancel, Record
<1>13. CASE CloseResults
  BY <1>13 DEF CloseResults, GroupDone, AllWorkersDone
<1>14. CASE UNCHANGED vars
  BY <1>14 DEF vars
<1> QED
  BY <1>1, <1>2, <1>3, <1>4, <1>5, <1>6, <1>7, <1>8, <1>9,
     <1>10, <1>11, <1>12, <1>13, <1>14
     DEF Next, MainStep, FeederStep, WorkerStep, Terminated

(* A successful download is complete.                                      *)
LEMMA CompleteStep == IInv /\ [Next]_vars => OkMeansComplete'
<1> SUFFICES ASSUME IInv, [Next]_vars
             PROVE  OkMeansComplete'
  OBVIOUS
<1> USE DownloaderAssumption, WorkersFit
<1> USE DEF IInv, TypeOK, Phases, Fed, Conserved, InHand, OkMeansComplete,
            GroupDone, AllWorkersDone, Block, group, setup
<1>1. CASE Reject
  BY <1>1 DEF Reject
<1>2. CASE Start
  BY <1>2 DEF Start
<1>3. CASE Write
  BY <1>3 DEF Write, Slot
<1>4. CASE WriteFail
  BY <1>4 DEF WriteFail, Slot
<1>5. CASE Return
  BY <1>5 DEF Return
<1>6. CASE FeederDone
  BY <1>6 DEF FeederDone, MoreBlocks
<1>7. CASE FeederCancel
  BY <1>7 DEF FeederCancel, MoreBlocks, Record
<1>8. ASSUME NEW w \in Worker, Feed(w) PROVE OkMeansComplete'
  BY <1>8 DEF Feed, MoreBlocks
<1>9. ASSUME NEW w \in Worker, WorkerDone(w) PROVE OkMeansComplete'
  BY <1>9 DEF WorkerDone
<1>10. ASSUME NEW w \in Worker, Fetch(w) PROVE OkMeansComplete'
  BY <1>10 DEF Fetch, Verified, Replies, Record
<1>11. ASSUME NEW w \in Worker, Send(w) PROVE OkMeansComplete'
  BY <1>11 DEF Send
<1>12. ASSUME NEW w \in Worker, SendCancel(w) PROVE OkMeansComplete'
  BY <1>12 DEF SendCancel, Record
<1>13. CASE CloseResults
  BY <1>13 DEF CloseResults, GroupDone, AllWorkersDone
<1>14. CASE UNCHANGED vars
  BY <1>14 DEF vars
<1> QED
  BY <1>1, <1>2, <1>3, <1>4, <1>5, <1>6, <1>7, <1>8, <1>9,
     <1>10, <1>11, <1>12, <1>13, <1>14
     DEF Next, MainStep, FeederStep, WorkerStep, Terminated

(* No goroutine stays behind.                                              *)
LEMMA QuiescentStep == IInv /\ [Next]_vars => NoGoroutineLeft'
<1> SUFFICES ASSUME IInv, [Next]_vars
             PROVE  NoGoroutineLeft'
  OBVIOUS
<1> USE DEF IInv, TypeOK, Phases, NoGoroutineLeft, Quiescent, GroupDone,
            AllWorkersDone, group, setup
<1>1. CASE Reject
  BY <1>1 DEF Reject
<1>2. CASE Start
  BY <1>2 DEF Start
<1>3. CASE Write
  BY <1>3 DEF Write, Slot
<1>4. CASE WriteFail
  BY <1>4 DEF WriteFail, Slot
<1>5. CASE Return
  BY <1>5 DEF Return
<1>6. CASE FeederDone
  BY <1>6 DEF FeederDone, MoreBlocks
<1>7. CASE FeederCancel
  BY <1>7 DEF FeederCancel, MoreBlocks, Record
<1>8. ASSUME NEW w \in Worker, Feed(w) PROVE NoGoroutineLeft'
  BY <1>8 DEF Feed, MoreBlocks
<1>9. ASSUME NEW w \in Worker, WorkerDone(w) PROVE NoGoroutineLeft'
  BY <1>9 DEF WorkerDone
<1>10. ASSUME NEW w \in Worker, Fetch(w) PROVE NoGoroutineLeft'
  BY <1>10 DEF Fetch, Verified, Replies, Record
<1>11. ASSUME NEW w \in Worker, Send(w) PROVE NoGoroutineLeft'
  BY <1>11 DEF Send
<1>12. ASSUME NEW w \in Worker, SendCancel(w) PROVE NoGoroutineLeft'
  BY <1>12 DEF SendCancel, Record
<1>13. CASE CloseResults
  BY <1>13 DEF CloseResults, GroupDone, AllWorkersDone
<1>14. CASE UNCHANGED vars
  BY <1>14 DEF vars
<1> QED
  BY <1>1, <1>2, <1>3, <1>4, <1>5, <1>6, <1>7, <1>8, <1>9,
     <1>10, <1>11, <1>12, <1>13, <1>14
     DEF Next, MainStep, FeederStep, WorkerStep, Terminated

-----------------------------------------------------------------------------
(* The strengthening is an invariant of the specification.                 *)
THEOREM Invariant == Spec => []IInv
<1>1. Init => IInv
  <2> SUFFICES ASSUME Init PROVE IInv
    OBVIOUS
  <2>1. TypeOK
    <3>1. file \in [Block -> Bytes]
      BY DEF Init, Bytes
    <3>2. d \in Downloads /\ 0 \in 0 .. d.blocks
      BY WorkersFit DEF Init
    <3>3. Nothing \in Output
      BY DEF Nothing, Output, Bytes
    <3> QED
      BY <3>1, <3>2, <3>3 DEF Init, TypeOK
  <2> QED
    BY <2>1 DEF Init, IInv, Phases, Carried, Caused, Answered, Fed, Conserved,
                OkMeansComplete, NoGoroutineLeft, Quiescent, Block, TypeOK
<1>2. IInv /\ [Next]_vars => IInv'
  BY TypeStep, PhasesStep, CarriedStep, CausedStep, AnsweredStep, FedStep,
     ConservedStep, CompleteStep, QuiescentStep DEF IInv
<1> QED
  BY <1>1, <1>2, PTL DEF Spec

(* Every variable keeps its type, and no index outside the blocks is fed.  *)
THEOREM TypeCorrect == Spec => []TypeOK
BY Invariant, PTL DEF IInv

(* Download returns nil only over a complete file.                         *)
THEOREM OkIsComplete == Spec => []OkMeansComplete
BY Invariant, PTL DEF IInv

(* Download never answers "context canceled" for a block's own error.      *)
THEOREM CauseIsReported == Spec => []RootCause
<1>1. IInv => RootCause
  BY DEF IInv, Caused, Answered, RootCause
<1> QED
  BY Invariant, <1>1, PTL

(* Unless a write failed, no goroutine outlives Download.                  *)
THEOREM NothingStays == Spec => []NoGoroutineLeft
BY Invariant, PTL DEF IInv

(* Without faults Download does not fail.                                  *)
THEOREM NothingSpurious == Spec => []NoSpuriousError
<1>1. IInv => NoSpuriousError
  BY DownloaderAssumption
     DEF IInv, TypeOK, Phases, Answered, NoSpuriousError, Downloads
<1> QED
  BY Invariant, <1>1, PTL

(* Until a write fails, slot i only ever takes the bytes of block i.       *)
THEOREM OwnBytes == Spec => OwnBytesOnly
<1>1. IInv /\ [Next]_vars =>
        [\A i \in Block :
           file'[i] # file[i] => file'[i] = i \/ ret' = "write"]_vars
  <2> SUFFICES ASSUME IInv, Next, NEW i \in Block, file'[i] # file[i]
               PROVE  file'[i] = i \/ ret' = "write"
    OBVIOUS
  <2>1. CASE Write
    BY <2>1 DEF Write, Slot, IInv, Carried, TypeOK
  <2>2. CASE WriteFail
    BY <2>2 DEF WriteFail
  <2>3. CASE ~Write /\ ~WriteFail
    BY <2>3 DEF Next, MainStep, FeederStep, WorkerStep, Terminated, vars, group,
                Reject, Start, Return, FeederDone, FeederCancel, Feed,
                WorkerDone, Fetch, Send, SendCancel, CloseResults
  <2> QED
    BY <2>1, <2>2, <2>3
<1> QED
  BY Invariant, <1>1, PTL DEF Spec, OwnBytesOnly

-----------------------------------------------------------------------------
(* The safety half of the promise of BlockDownload: a write is a Store, a  *)
(* failed one a Break, the other returns are Succeed and Fail, and what    *)
(* the other goroutines do is invisible to the caller.                     *)
THEOREM ImplementsSafety == Spec => Contract!Safety
<1>1. Init => Contract!Init
  BY DEF Init, Contract!Init, Downloads, Contract!Block, Block,
         Contract!Hole, Hole, Contract!Garbage, Garbage
<1>2. IInv /\ [Next]_vars => [Contract!Next]_Contract!vars
  <2> SUFFICES ASSUME IInv, [Next]_vars
               PROVE  [Contract!Next]_Contract!vars
    OBVIOUS
  <2> USE DEF Contract!Next, Contract!vars, Contract!Block, Block, setup
  <2>1. CASE Reject
    BY <2>1 DEF Reject, IInv, Phases, TypeOK, Downloads,
                Contract!Return, Contract!Fail, Contract!Errors
  <2>2. CASE Write
    BY <2>2 DEF Write, Slot, IInv, Phases, Carried, Contract!Store
  <2>3. CASE WriteFail
    BY <2>3 DEF WriteFail, Slot, IInv, Phases, Carried, Garbage,
                Contract!Return, Contract!Break, Contract!Garbage
  <2>4. CASE Return
    <3>1. CASE groupErr = "none"
      <4>1. OkMeansComplete'
        BY CompleteStep
      <4> QED
        BY <2>4, <3>1, <4>1
           DEF Return, IInv, Phases, OkMeansComplete,
               Contract!Return, Contract!Succeed, Contract!Complete
    <3>2. CASE groupErr = "block"
      BY <2>4, <3>2 DEF Return, IInv, Phases, Contract!Return,
                        Contract!Fail, Contract!Errors
    <3> QED
      BY <3>1, <3>2 DEF IInv, TypeOK, Caused
  <2>5. CASE UNCHANGED <<d, file, ret>>
    BY <2>5
  <2> QED
    BY <2>1, <2>2, <2>3, <2>4, <2>5
       DEF Next, MainStep, FeederStep, WorkerStep, Terminated, vars,
           Start, FeederDone, FeederCancel, Feed,
           WorkerDone, Fetch, Send, SendCancel, CloseResults
<1> QED
  BY Invariant, <1>1, <1>2, PTL DEF Spec, Contract!Safety
=============================================================================
