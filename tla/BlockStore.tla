----------------------------- MODULE BlockStore -----------------------------
(***************************************************************************)
(* What Router promises to the downloaders: the servers of its pools are   *)
(* one store of blocks, which reading does not change.  A Get answers, and *)
(* fails only when the block is nowhere or something is wrong with the     *)
(* network.                                                                *)
(***************************************************************************)
CONSTANTS Callers, Keys

VARIABLES
  blocks,        (* the keys that some pool has                            *)
  faulty,        (* whether servers may be out of reach                    *)
  state,         (* whether each caller waits for an answer                *)
  key, ret

vars == <<blocks, faulty, state, key, ret>>

Init ==
  /\ blocks \subseteq Keys /\ faulty \in BOOLEAN
  /\ state = [c \in Callers |-> "idle"]
  /\ key \in [Callers -> Keys]
  /\ ret = [c \in Callers |-> "none"]

Ask(c, k) ==
  /\ state[c] = "idle"
  /\ state' = [state EXCEPT ![c] = "busy"]
  /\ key' = [key EXCEPT ![c] = k]
  /\ ret' = [ret EXCEPT ![c] = "none"]
  /\ UNCHANGED <<blocks, faulty>>

Reply(c) ==
  /\ state[c] = "busy"
  /\ state' = [state EXCEPT ![c] = "idle"]
  /\ \/ key[c] \in blocks /\ ret' = [ret EXCEPT ![c] = "data"]
     \/ (key[c] \notin blocks \/ faulty) /\ ret' = [ret EXCEPT ![c] = "notRoutable"]
  /\ UNCHANGED <<blocks, faulty, key>>

Next == \E c \in Callers : Reply(c) \/ \E k \in Keys : Ask(c, k)

Safety == Init /\ [][Next]_vars

Spec == Safety /\ \A c \in Callers : WF_vars(Reply(c))
=============================================================================
