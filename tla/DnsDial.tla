------------------------------ MODULE DnsDial ------------------------------
(***************************************************************************)
(* storage/router/dial.go: the dial function of every connection to a      *)
(* server.  The addresses of a host are cached for dnsCacheTimeout; one    *)
(* lock over the cache is held until the connection is made or fails.      *)
(* A host has one address at a time, and may move to another.              *)
(***************************************************************************)
EXTENDS Integers

CONSTANTS
  Hosts, Addrs,
  DnsTimeout,    (* dnsCacheTimeout, in ticks of the clock                 *)
  MaxMoves,      (* bound: how often hosts move, all together              *)
  FaultSets,     (* what may happen in each behaviour: requests, lookups   *)
                 (* and connections fail; time enough passes for entries   *)
                 (* to expire and hosts to move                            *)
  None

ASSUME DnsDialAssumption ==
  /\ DnsTimeout \in Nat \ {0} /\ MaxMoves \in Nat
  /\ FaultSets \subseteq SUBSET {"net", "time"}
  /\ Addrs # {}

VARIABLES
  faults,
  where,      (* the address of each host                                  *)
  moves,      (* how often a host moved                                    *)
  gone,       (* history: ticks since each host moved, up to DnsTimeout    *)
  dns,        (* dnsCache: the address of a host and its age               *)
  lock        (* dnsCacheM: who dials which host, and at which address     *)

world == <<faults, where, moves, gone>>
dial == <<dns, lock>>
dialVars == <<world, dial>>

NetFaults == "net" \in faults

DialInit ==
  /\ faults \in FaultSets
  /\ where \in [Hosts -> {CHOOSE x \in Addrs : TRUE}] /\ moves = 0
  /\ gone = [h \in Hosts |-> DnsTimeout]
  /\ dns = [h \in Hosts |-> None]
  /\ lock = None

Fresh(h) == dns[h] # None /\ dns[h].age < DnsTimeout

Older(n) == IF n < DnsTimeout THEN n + 1 ELSE n

Tick ==
  /\ "time" \in faults
  /\ \E h \in Hosts : gone[h] < DnsTimeout \/ Fresh(h)
  /\ gone' = [h \in Hosts |-> Older(gone[h])]
  /\ dns' = [h \in Hosts |->
               IF dns[h] = None THEN None ELSE [dns[h] EXCEPT !.age = Older(@)]]
  /\ UNCHANGED <<faults, where, moves, lock>>

Move(h) ==
  /\ "time" \in faults /\ moves < MaxMoves
  /\ \E x \in Addrs \ {where[h]} : where' = [where EXCEPT ![h] = x]
  /\ moves' = moves + 1
  /\ gone' = [gone EXCEPT ![h] = 0]
  /\ UNCHANGED <<faults, dial>>

-----------------------------------------------------------------------------
Dials(a) == lock # None /\ lock.by = a

DialRenews(a, h) ==                  (* slip: an entry is renewed by its use *)
  /\ lock = None
  /\ lock' = [by |-> a, host |-> h, addr |-> IF Fresh(h) THEN dns[h].addr ELSE None]
  /\ dns' = IF Fresh(h) THEN [dns EXCEPT ![h].age = 0] ELSE dns
  /\ UNCHANGED world

(* dial takes the lock, and the address if it is cached.                   *)
DialLock(a, h) ==
  /\ lock = None
  /\ lock' = [by |-> a, host |-> h, addr |-> IF Fresh(h) THEN dns[h].addr ELSE None]
  /\ UNCHANGED <<world, dns>>

Resolve(a) ==
  /\ Dials(a) /\ lock.addr = None
  /\ dns' = [dns EXCEPT ![lock.host] = [addr |-> where[lock.host], age |-> 0]]
  /\ lock' = [lock EXCEPT !.addr = where[lock.host]]
  /\ UNCHANGED world

Connect(a) ==
  /\ Dials(a) /\ lock.addr = where[lock.host]
  /\ lock' = None
  /\ UNCHANGED <<world, dns>>

(* No lookup, no connection, or nobody at the address any more; the entry  *)
(* stays as it is.                                                         *)
DialFail(a) ==
  /\ Dials(a) /\ (NetFaults \/ lock.addr \notin {None, where[lock.host]})
  /\ lock' = None
  /\ UNCHANGED <<world, dns>>

-----------------------------------------------------------------------------
(* An address that is dialled is the host's own, or was so less than the   *)
(* timeout ago: however often the entry is used and lookups fail, a host   *)
(* that moved is found again after dnsCacheTimeout.                        *)
FreshAddress ==
  [][lock' # lock /\ lock' # None /\ lock'.addr # None =>
       lock'.addr = where'[lock'.host] \/ gone'[lock'.host] < DnsTimeout]_dialVars
=============================================================================
