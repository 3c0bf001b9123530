------------------------------ MODULE MCRouter ------------------------------
(* A small instance of Router for TLC: a local pool, which is a cache, in   *)
(* front of a remote pool whose two rules overlap on the key.              *)
EXTENDS Router, TLC

CONSTANTS c1, c2, w1, k1, local, spare, remote, near, far, home, host

TwoPools == <<local, remote>>

(* The second cache pool has no rule for the key.                          *)
CoversCaches ==
  (local :> (near :> {k1})) @@ (remote :> (home :> {k1} @@ far :> {k1}))
    @@ (spare :> (far :> {}))

(* Two callers where nothing goes wrong, otherwise one and the workers.    *)
OneIfFaulty == [f \in FaultSets |-> IF f = {} THEN Callers ELSE {c1}]

(* The key is at home, or far away, or nowhere.                            *)
Few == {[s \in Servers |-> IF s = x THEN {k1} ELSE {}] : x \in {home, far, None}}

(* The servers are ports of one host.                                      *)
OneHost == [s \in Servers |-> host]
=============================================================================
