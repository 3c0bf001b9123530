--------------------------- MODULE CacheContract ---------------------------
(***************************************************************************)
(* What the cache promises those who open a file through it, without       *)
(* inodes, names and locks.  A CheckAndGet returns once: with a file of    *)
(* the right size that stays as it is until it is released, or with an     *)
(* error, for which something must have failed.  The file is whole unless  *)
(* something failed or was killed.                                         *)
(***************************************************************************)
EXTENDS Integers

CONSTANTS Threads, Instances, Owner, NumBlocks, FaultSets

Block == 0 .. NumBlocks - 1

VARIABLES
  faults,      (* what may fail                                            *)
  call,        (* what each thread waits for, or "open" with its file      *)
  file         (* the blocks that are in the file it has open              *)

vars == <<faults, call, file>>

Init ==
  /\ faults \in FaultSets
  /\ call = [t \in Threads |-> "none"]
  /\ file = [t \in Threads |-> {}]

Ask(t) ==
  /\ call[t] = "none"
  /\ \E c \in {"get", "check"} : call' = [call EXCEPT ![t] = c]
  /\ UNCHANGED <<faults, file>>

Open(t) ==
  /\ call[t] = "get"
  /\ \E content \in SUBSET Block :
       /\ NumBlocks - 1 \in content
       /\ faults = {} => content = Block
       /\ file' = [file EXCEPT ![t] = content]
  /\ call' = [call EXCEPT ![t] = "open"]
  /\ UNCHANGED faults

Refuse(t) ==
  /\ call[t] = "get" /\ faults \cap {"storage", "io"} # {}
  /\ call' = [call EXCEPT ![t] = "none"]
  /\ UNCHANGED <<faults, file>>

Checked(t) ==
  /\ call[t] = "check"
  /\ call' = [call EXCEPT ![t] = "none"]
  /\ UNCHANGED <<faults, file>>

Release(t) ==
  /\ call[t] = "open"
  /\ call' = [call EXCEPT ![t] = "none"]
  /\ file' = [file EXCEPT ![t] = {}]
  /\ UNCHANGED faults

Kill(p) ==
  /\ "kill" \in faults
  /\ call' = [t \in Threads |-> IF Owner[t] = p THEN "none" ELSE call[t]]
  /\ file' = [t \in Threads |-> IF Owner[t] = p THEN {} ELSE file[t]]
  /\ UNCHANGED faults

Return(t) == Open(t) \/ Refuse(t) \/ Checked(t)

Next ==
  \/ \E t \in Threads : Ask(t) \/ Return(t) \/ Release(t)
  \/ \E p \in Instances : Kill(p)

Safety == Init /\ [][Next]_vars

(* Every call returns, whoever else waits for the file.                    *)
Spec == Safety /\ \A t \in Threads : WF_vars(Return(t))
=============================================================================
