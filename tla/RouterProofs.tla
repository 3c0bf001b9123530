----------------------------- MODULE RouterProofs -----------------------------
(***************************************************************************)
(* Theorems about storage/router, for every number of callers, workers,    *)
(* pools, destinations and keys, and every order of the rules.             *)
(*                                                                         *)
(* The pools are one store of blocks (StoreSafe).  What a commit worker    *)
(* writes some pool already has (WorkerInv), so no key comes or goes; and  *)
(* what a caller has not yet found, if it is anywhere, is where it has     *)
(* still to ask (Ahead), although workers write behind it.                 *)
(***************************************************************************)
EXTENDS Router, TLAPS, FiniteSetTheorems, WellFoundedInduction

Actors == Callers \cup Workers

Asking == {"borrow", "dial", "trial"}
Setting == {"borrow", "dial", "set"}

(* The cache of addresses: an entry is as old as the move it has missed,   *)
(* and hosts do not move where nothing goes wrong.                         *)
DialTypes ==
  /\ faults \in FaultSets
  /\ where \in [Hosts -> Addrs] /\ gone \in [Hosts -> 0 .. DnsTimeout]
  /\ dns \in [Hosts -> [addr : Addrs, age : 0 .. DnsTimeout] \cup {None}]
  /\ lock # None => lock \in [by : Actors, host : Hosts, addr : Addrs \cup {None}]

Aged ==
  \A h \in Hosts :
    dns[h] # None => dns[h].addr = where[h] \/ gone[h] <= dns[h].age

Still ==
  faults = {} =>
    /\ \A h \in Hosts : dns[h] # None => dns[h].addr = where[h]
    /\ lock # None => lock.addr \in {None, where[lock.host]}

DialInv == DialTypes /\ Aged /\ Still

(* The i-th pool of the lookup table has the key, by its n-th rule.        *)
HasAt(i, n, k) ==
  /\ i \in 1 .. Len(Lookup) /\ n \in Rules(Lookup[i])
  /\ Match(Lookup[i], n, k) /\ k \in store[Server(Lookup[i], n)]

(* The caller has still to ask there.                                      *)
ToAsk(c, i, n) ==
  \/ i > at[c]
  \/ i = at[c] /\ (n > rule[c] \/ (n = rule[c] /\ pc[c] \in Asking))

Ahead(c) == \E i, n \in Nat : HasAt(i, n, key[c]) /\ ToAsk(c, i, n)

CallerInv(c) ==
  /\ pc[c] = "idle" => at[c] = 1 /\ rule[c] = 0
  /\ pc[c] \in Asking => Match(Pool(c), rule[c], key[c])
  /\ pc[c] = "feed" => Holding(key[c])
  /\ faults = {} =>
       /\ ~broken[c]
       /\ pc[c] \notin {"idle", "feed"} /\ Holding(key[c]) => Ahead(c)

WorkerInv(w) ==
  /\ worker[w] # "recv" => chunk[w] \in Keys /\ Holding(chunk[w])
  /\ worker[w] \in Setting => target[w] \in Pools /\ Routable(target[w], chunk[w])

(* Who uses a connection to the destination s of the pool p.               *)
CallerUses(a, p, s) ==
  a \in Callers /\ pc[a] \in {"dial", "trial"} /\ Pool(a) = p /\ Dest(a) = s
WorkerUses(a, p, s) ==
  a \in Workers /\ worker[a] \in {"dial", "set"} /\ target[a] = p /\ SetDest(a) = s

ConnsInv ==
  /\ conns = [p \in Pools |-> conns[p]]
  /\ \A p \in Pools : \A s \in DOMAIN Covers[p] :
       /\ IsFiniteSet(conns[p][s]) /\ Cardinality(conns[p][s]) <= MaxActive
       /\ \A a \in conns[p][s] : CallerUses(a, p, s) \/ WorkerUses(a, p, s)

IInv ==
  /\ TypeOK /\ DialInv /\ ConnsInv
  /\ \A c \in Callers : CallerInv(c)
  /\ \A w \in Workers : WorkerInv(w)

-----------------------------------------------------------------------------
(* The tables.                                                             *)

Less == {ss \in Nat \X Nat : ss[1] < ss[2]}

LEMMA LeastNat ==
  ASSUME NEW T, T \subseteq Nat, T # {}
  PROVE  \E m \in T : \A n \in T : m <= n
<1>1. IsWellFoundedOn(Less, Nat)
  BY NatLessThanWellFounded, Zenon DEF OpToRel, Less
<1>2. \E m \in T : \A n \in T : ~(<<n, m>> \in Less)
  BY <1>1, WFMin
<1>3. ASSUME NEW m \in T, NEW n \in T, ~(<<n, m>> \in Less)
      PROVE  m <= n
  BY <1>3 DEF Less
<1> QED
  BY <1>2, <1>3

LEMMA LookupFacts ==
  Len(Lookup) \in Nat /\ \A i \in 1 .. Len(Lookup) : Lookup[i] \in Pools
BY RouterAssumption

LEMMA RulesNat ==
  ASSUME NEW p \in Pools
  PROVE  \A n \in Rules(p) : n \in Nat /\ n > 0
<1>1. IsFiniteSet(DOMAIN Covers[p])
  BY RouterAssumption
<1>2. Cardinality(DOMAIN Covers[p]) \in Nat
  BY <1>1, FS_CardinalityType
<1> QED
  BY <1>2 DEF Rules

LEMMA ServerIn ==
  ASSUME TypeOK, NEW p \in Pools, NEW n \in Rules(p)
  PROVE  Server(p, n) \in DOMAIN Covers[p] /\ Server(p, n) \in Servers
<1>1. rules[p] \in [Rules(p) -> DOMAIN Covers[p]]
  BY DEF TypeOK, Orders
<1> QED
  BY <1>1, RouterAssumption DEF Server

(* Route finds a rule whenever one covers the key.                         *)
LEMMA FirstExists ==
  ASSUME NEW p \in Pools, NEW k, Routable(p, k)
  PROVE  \E n \in Rules(p) : First(p, k, n)
<1> DEFINE T == {n \in Rules(p) : Match(p, n, k)}
<1>1. T \subseteq Nat /\ T # {}
  BY RulesNat DEF Routable
<1>2. PICK m \in T : \A n \in T : m <= n
  <2> HIDE DEF T
  <2> QED BY <1>1, LeastNat
<1>3. \A n \in Rules(p) : n < m => ~Match(p, n, k)
  BY <1>1, <1>2, RulesNat
<1> QED
  BY <1>2, <1>3 DEF First

LEMMA SetDestIn ==
  ASSUME TypeOK, NEW w \in Workers, target[w] \in Pools, Routable(target[w], chunk[w])
  PROVE  SetDest(w) \in DOMAIN Covers[target[w]] /\ SetDest(w) \in Servers
<1> DEFINE m == CHOOSE n \in Rules(target[w]) : First(target[w], chunk[w], n)
<1>1. m \in Rules(target[w])
  BY FirstExists
<1>2. SetDest(w) = Server(target[w], m)
  BY DEF SetDest
<1> HIDE DEF m
<1> QED
  BY <1>1, <1>2, ServerIn

LEMMA DestIn ==
  ASSUME TypeOK, NEW c \in Callers, pc[c] \in Asking
  PROVE  /\ at[c] \in 1 .. Len(Lookup) /\ rule[c] \in Rules(Pool(c))
         /\ Pool(c) \in Pools /\ Dest(c) \in DOMAIN Covers[Pool(c)] /\ Dest(c) \in Servers
<1>1. at[c] \in 1 .. Len(Lookup) /\ rule[c] \in Rules(Pool(c))
  BY LookupFacts DEF TypeOK, Asking
<1>2. Pool(c) \in Pools
  BY <1>1, LookupFacts DEF Pool
<1> QED
  BY <1>1, <1>2, ServerIn DEF Dest

LEMMA HoldingAt ==
  ASSUME NEW k
  PROVE  Holding(k) <=> \E i, n \in Nat : HasAt(i, n, k)
<1>1. DOMAIN Lookup = 1 .. Len(Lookup)
  BY RouterAssumption
<1>2. \A i \in 1 .. Len(Lookup) : i \in Nat /\ \A n \in Rules(Lookup[i]) : n \in Nat
  BY LookupFacts, RulesNat
<1> QED
  BY <1>1, <1>2 DEF Holding, HasAt

-----------------------------------------------------------------------------
(* dial.go.                                                                *)

FreshStep ==
  lock' # lock /\ lock' # None /\ lock'.addr # None =>
    lock'.addr = where'[lock'.host] \/ gone'[lock'.host] < DnsTimeout

LEMMA DialLockStep ==
  ASSUME DialInv, NEW a \in Actors, NEW h \in Hosts, DialLock(a, h)
  PROVE  DialInv' /\ FreshStep
<1>1. /\ lock' = [by |-> a, host |-> h, addr |-> IF Fresh(h) THEN dns[h].addr ELSE None]
      /\ UNCHANGED <<faults, where, moves, gone, dns>>
  BY DEF DialLock, world
<1>2. Fresh(h) => dns[h] # None /\ dns[h] \in [addr : Addrs, age : 0 .. DnsTimeout] /\ dns[h].age < DnsTimeout
  BY DEF DialInv, DialTypes, Fresh
<1>3. DialTypes'
  BY <1>1, <1>2 DEF DialInv, DialTypes
<1>4. Aged' /\ Still'
  BY <1>1, <1>2 DEF DialInv, Aged, Still
<1>5. FreshStep
  BY <1>1, <1>2, DnsDialAssumption DEF DialInv, DialTypes, Aged, FreshStep
<1> QED
  BY <1>3, <1>4, <1>5 DEF DialInv

LEMMA ResolveStep ==
  ASSUME DialInv, NEW a, Resolve(a)
  PROVE  DialInv' /\ FreshStep
<1>1. /\ dns' = [dns EXCEPT ![lock.host] = [addr |-> where[lock.host], age |-> 0]]
      /\ lock' = [lock EXCEPT !.addr = where[lock.host]]
      /\ UNCHANGED <<faults, where, moves, gone>>
      /\ lock \in [by : Actors, host : Hosts, addr : Addrs \cup {None}]
  BY DEF Resolve, Dials, world, DialInv, DialTypes
<1>2. lock.host \in Hosts /\ where[lock.host] \in Addrs /\ lock'.host = lock.host
      /\ lock'.addr = where[lock.host]
  BY <1>1 DEF DialInv, DialTypes
<1>3. DialTypes'
  BY <1>1, <1>2, DnsDialAssumption DEF DialInv, DialTypes
<1>4. Aged' /\ Still'
  BY <1>1, <1>2 DEF DialInv, DialTypes, Aged, Still
<1>5. FreshStep
  BY <1>1, <1>2 DEF FreshStep
<1> QED
  BY <1>3, <1>4, <1>5 DEF DialInv

LEMMA UnlockStep ==
  ASSUME DialInv, NEW a, Connect(a) \/ DialFail(a)
  PROVE  DialInv' /\ FreshStep
BY DEF Connect, DialFail, world, DialInv, DialTypes, Aged, Still, FreshStep

LEMMA SameDial ==
  ASSUME DialInv, UNCHANGED dialVars
  PROVE  DialInv' /\ FreshStep
BY DEF dialVars, world, dial, DialInv, DialTypes, Aged, Still, FreshStep

LEMMA TickStep ==
  ASSUME DialInv, Tick
  PROVE  DialInv' /\ FreshStep
<1>1. UNCHANGED <<faults, where, lock>> /\ faults # {}
  BY DEF Tick
<1>2. gone' = [h \in Hosts |-> Older(gone[h])]
  BY DEF Tick
<1>3. /\ \A h \in Hosts : dns[h] = None => dns'[h] = None
      /\ \A h \in Hosts : dns[h] # None =>
           /\ dns'[h] = [dns[h] EXCEPT !.age = Older(@)]
           /\ dns[h] \in [addr : Addrs, age : 0 .. DnsTimeout]
      /\ dns' = [h \in Hosts |-> dns'[h]]
  BY DEF Tick, DialInv, DialTypes
<1>4. /\ \A n \in 0 .. DnsTimeout : Older(n) \in 0 .. DnsTimeout
      /\ \A m, n \in 0 .. DnsTimeout : m <= n => Older(m) <= Older(n)
  BY DnsDialAssumption DEF Older
<1>5. ASSUME NEW h \in Hosts, dns[h] # None
      PROVE  /\ dns'[h] \in [addr : Addrs, age : 0 .. DnsTimeout]
             /\ dns'[h].addr = dns[h].addr /\ dns'[h].age = Older(dns[h].age)
             /\ dns[h].age \in 0 .. DnsTimeout
  BY <1>3, <1>4, <1>5
<1>6. DialTypes'
  <2>1. dns' \in [Hosts -> [addr : Addrs, age : 0 .. DnsTimeout] \cup {None}]
    BY <1>3, <1>5
  <2>2. gone' \in [Hosts -> 0 .. DnsTimeout]
    BY <1>2, <1>4 DEF DialInv, DialTypes
  <2> QED
    BY <1>1, <2>1, <2>2 DEF DialInv, DialTypes
<1>7. Aged'
  <2> SUFFICES ASSUME NEW h \in Hosts, dns'[h] # None
               PROVE  dns'[h].addr = where'[h] \/ gone'[h] <= dns'[h].age
    BY DEF Aged
  <2>1. dns[h] # None /\ gone[h] \in 0 .. DnsTimeout /\ gone'[h] = Older(gone[h])
    BY <1>2, <1>3 DEF DialInv, DialTypes
  <2>2. dns[h].addr = where[h] \/ gone[h] <= dns[h].age
    BY <2>1 DEF DialInv, Aged
  <2> QED
    BY <1>1, <1>4, <1>5, <2>1, <2>2
<1> QED
  BY <1>1, <1>6, <1>7 DEF DialInv, Still, FreshStep

LEMMA MoveStep ==
  ASSUME DialInv, NEW h \in Hosts, Move(h)
  PROVE  DialInv' /\ FreshStep
<1>1. /\ UNCHANGED <<faults, dns, lock>> /\ faults # {}
      /\ gone' = [gone EXCEPT ![h] = 0]
      /\ \E x \in Addrs : where' = [where EXCEPT ![h] = x]
  BY DEF Move, dial
<1>2. DialTypes'
  BY <1>1, DnsDialAssumption DEF DialInv, DialTypes
<1>3. Aged'
  BY <1>1, DnsDialAssumption DEF DialInv, DialTypes, Aged
<1> QED
  BY <1>1, <1>2, <1>3 DEF DialInv, Still, FreshStep

-----------------------------------------------------------------------------
(* What a step leaves alone.                                               *)

SameCaller(c) ==
  /\ pc'[c] = pc[c] /\ key'[c] = key[c] /\ broken'[c] = broken[c]
  /\ at'[c] = at[c] /\ rule'[c] = rule[c]

SameWorker(w) ==
  worker'[w] = worker[w] /\ chunk'[w] = chunk[w] /\ target'[w] = target[w]

(* The same keys are there, at least where they were.                      *)
SameBlocks ==
  /\ \A k \in Keys : Holding(k)' <=> Holding(k)
  /\ \A i, n \in Nat : \A k \in Keys : HasAt(i, n, k) => HasAt(i, n, k)'

LEMMA StoreKept ==
  ASSUME UNCHANGED <<rules, store>>
  PROVE  SameBlocks
BY DEF SameBlocks, Holding, HasAt, Match, Server

LEMMA CallerKept ==
  ASSUME NEW c \in Callers, CallerInv(c), SameCaller(c), key[c] \in Keys,
         UNCHANGED <<faults, rules>>, SameBlocks
  PROVE  CallerInv(c)'
<1>1. /\ Match(Pool(c), rule[c], key[c])' = Match(Pool(c), rule[c], key[c])
      /\ Holding(key[c])' <=> Holding(key[c])
  BY DEF SameCaller, SameBlocks, Match, Server, Pool, Holding
<1>2. Ahead(c) => Ahead(c)'
  BY DEF SameCaller, SameBlocks, Ahead, ToAsk
<1> QED
  BY <1>1, <1>2 DEF CallerInv, SameCaller

LEMMA WorkerKept ==
  ASSUME NEW w \in Workers, WorkerInv(w), SameWorker(w), UNCHANGED rules, SameBlocks
  PROVE  WorkerInv(w)'
<1>1. /\ Routable(target[w], chunk[w])' <=> Routable(target[w], chunk[w])
      /\ chunk[w] \in Keys => (Holding(chunk[w])' <=> Holding(chunk[w]))
  BY DEF SameWorker, SameBlocks, Routable, Match, Server, Holding
<1> QED
  BY <1>1 DEF WorkerInv, SameWorker

LEMMA CallerUsesKept ==
  ASSUME NEW a, NEW p, NEW s, CallerUses(a, p, s), SameCaller(a), UNCHANGED rules
  PROVE  CallerUses(a, p, s)'
BY DEF CallerUses, SameCaller, Pool, Dest, Server

LEMMA WorkerUsesKept ==
  ASSUME NEW a, NEW p, NEW s, WorkerUses(a, p, s), SameWorker(a), UNCHANGED rules
  PROVE  WorkerUses(a, p, s)'
<1>1. SetDest(a)' = SetDest(a)
  BY DEF SameWorker, SetDest, First, Match, Server
<1> QED
  BY <1>1 DEF WorkerUses, SameWorker

(* The connections of redis.Pool.                                          *)
ConnTypes ==
  \A p \in Pools : conns[p] \in [DOMAIN Covers[p] -> SUBSET (Callers \cup Workers)]

LEMMA ConnsSame ==
  ASSUME ConnTypes, ConnsInv, UNCHANGED conns,
         \A p, s, a : CallerUses(a, p, s) => CallerUses(a, p, s)',
         \A p, s, a : WorkerUses(a, p, s) => WorkerUses(a, p, s)'
  PROVE  ConnTypes' /\ ConnsInv'
BY DEF ConnTypes, ConnsInv

LEMMA Acquired ==
  ASSUME ConnTypes, ConnsInv, NEW p \in Pools, NEW s \in DOMAIN Covers[p], NEW a \in Actors,
         FreeConn(p, s), Acquire(a, p, s), CallerUses(a, p, s)' \/ WorkerUses(a, p, s)',
         \A q, t, b : CallerUses(b, q, t) => CallerUses(b, q, t)',
         \A q, t, b : WorkerUses(b, q, t) => WorkerUses(b, q, t)'
  PROVE  ConnTypes' /\ ConnsInv'
<1>1. /\ conns' = [conns EXCEPT ![p] = [conns[p] EXCEPT ![s] = @ \cup {a}]]
      /\ conns'[p][s] = conns[p][s] \cup {a}
      /\ \A q \in Pools : \A t \in DOMAIN Covers[q] : q # p \/ t # s => conns'[q][t] = conns[q][t]
      /\ conns' = [q \in Pools |-> conns'[q]]
  BY DEF ConnTypes, ConnsInv, Acquire
<1>2. ConnTypes'
  BY <1>1 DEF ConnTypes, ConnsInv, Actors
<1>3. IsFiniteSet(conns[p][s]) /\ Cardinality(conns[p][s]) \in Nat /\ Cardinality(conns[p][s]) < MaxActive
  BY FS_CardinalityType DEF ConnsInv, FreeConn
<1>4. /\ IsFiniteSet(conns'[p][s])
      /\ Cardinality(conns'[p][s]) \in {Cardinality(conns[p][s]), Cardinality(conns[p][s]) + 1}
  BY <1>1, <1>3, FS_AddElement
<1>5. Cardinality(conns'[p][s]) <= MaxActive
  BY <1>3, <1>4, RouterAssumption
<1> QED
  BY <1>1, <1>2, <1>4, <1>5 DEF ConnsInv

LEMMA Freed ==
  ASSUME ConnTypes, ConnsInv, NEW p \in Pools, NEW s \in DOMAIN Covers[p], NEW a,
         Free(a, p, s),
         \A q, t, b : CallerUses(b, q, t) => CallerUses(b, q, t)' \/ (b = a /\ q = p /\ t = s),
         \A q, t, b : WorkerUses(b, q, t) => WorkerUses(b, q, t)' \/ (b = a /\ q = p /\ t = s)
  PROVE  ConnTypes' /\ ConnsInv'
<1>1. /\ conns' = [conns EXCEPT ![p] = [conns[p] EXCEPT ![s] = @ \ {a}]]
      /\ conns'[p][s] = conns[p][s] \ {a}
      /\ \A q \in Pools : \A t \in DOMAIN Covers[q] : q # p \/ t # s => conns'[q][t] = conns[q][t]
      /\ conns' = [q \in Pools |-> conns'[q]]
  BY DEF ConnTypes, ConnsInv, Free
<1>2. ConnTypes'
  BY <1>1 DEF ConnTypes, ConnsInv, Actors
<1>3. /\ IsFiniteSet(conns[p][s]) /\ Cardinality(conns[p][s]) \in Nat
      /\ Cardinality(conns[p][s]) <= MaxActive
  BY FS_CardinalityType DEF ConnsInv
<1>4. /\ IsFiniteSet(conns'[p][s])
      /\ Cardinality(conns'[p][s]) \in {Cardinality(conns[p][s]), Cardinality(conns[p][s]) - 1}
  <2>1. /\ IsFiniteSet(conns[p][s] \ {a})
        /\ Cardinality(conns[p][s] \ {a}) =
             IF a \in conns[p][s] THEN Cardinality(conns[p][s]) - 1 ELSE Cardinality(conns[p][s])
    BY <1>3, FS_RemoveElement, Zenon
  <2> QED
    BY <1>1, <2>1
<1>5. Cardinality(conns'[p][s]) <= MaxActive
  BY <1>3, <1>4, RouterAssumption
<1>6. ASSUME NEW q \in Pools, NEW t \in DOMAIN Covers[q], NEW b \in conns'[q][t]
      PROVE  CallerUses(b, q, t)' \/ WorkerUses(b, q, t)'
  <2>1. b \in conns[q][t] /\ ~(b = a /\ q = p /\ t = s)
    BY <1>1
  <2>2. CallerUses(b, q, t) \/ WorkerUses(b, q, t)
    BY <2>1 DEF ConnsInv
  <2> QED
    BY <2>1, <2>2
<1>7. ASSUME NEW q \in Pools, NEW t \in DOMAIN Covers[q]
      PROVE  IsFiniteSet(conns'[q][t]) /\ Cardinality(conns'[q][t]) <= MaxActive
  BY <1>1, <1>4, <1>5 DEF ConnsInv
<1> QED
  BY <1>1, <1>2, <1>6, <1>7 DEF ConnsInv

(* A step of one caller or worker leaves the others as they are.           *)
LEMMA OthersSame ==
  ASSUME IInv, UNCHANGED <<faults, rules>>, SameBlocks
  PROVE  /\ \A c \in Callers : SameCaller(c) => CallerInv(c)'
         /\ \A w \in Workers : SameWorker(w) => WorkerInv(w)'
         /\ \A a, p, s : SameCaller(a) /\ CallerUses(a, p, s) => CallerUses(a, p, s)'
         /\ \A a, p, s : SameWorker(a) /\ WorkerUses(a, p, s) => WorkerUses(a, p, s)'
<1>1. ASSUME NEW c \in Callers, SameCaller(c) PROVE CallerInv(c)'
  <2>1. key[c] \in Keys
    BY DEF IInv, TypeOK
  <2> QED
    BY <1>1, <2>1, CallerKept DEF IInv
<1>2. ASSUME NEW w \in Workers, SameWorker(w) PROVE WorkerInv(w)'
  BY <1>2, WorkerKept DEF IInv
<1> QED
  BY <1>1, <1>2, CallerUsesKept, WorkerUsesKept

-----------------------------------------------------------------------------
(* The steps of a caller.                                                  *)

LEMMA ByCaller ==
  ASSUME IInv, NEW c \in Callers, UNCHANGED <<faults, rules>>, SameBlocks,
         \A d \in Callers : d # c => SameCaller(d), \A w : SameWorker(w),
         TypeOK', DialInv', ConnsInv', CallerInv(c)'
  PROVE  IInv'
BY OthersSame DEF IInv

(* A caller that has no connection before or after, or the same one.       *)
LEMMA ConnsByCaller ==
  ASSUME IInv, NEW c \in Callers, UNCHANGED <<faults, rules, conns>>, SameBlocks,
         \A d \in Callers : d # c => SameCaller(d), \A w : SameWorker(w),
         pc[c] \notin {"dial", "trial"} \/ (pc'[c] \in {"dial", "trial"} /\ Pool(c)' = Pool(c) /\ Dest(c)' = Dest(c))
  PROVE  ConnsInv'
<1>1. ConnTypes /\ ConnsInv
  BY DEF IInv, TypeOK, ConnTypes
<1>2. \A a, p, s : CallerUses(a, p, s) => CallerUses(a, p, s)'
  <2> SUFFICES ASSUME NEW a, NEW p, NEW s, CallerUses(a, p, s) PROVE CallerUses(a, p, s)'
    OBVIOUS
  <2>1. CASE a = c
    BY <2>1 DEF CallerUses
  <2>2. CASE a # c
    BY <2>2, OthersSame DEF CallerUses
  <2> QED
    BY <2>1, <2>2
<1> QED
  BY <1>1, <1>2, OthersSame, ConnsSame

LEMMA CallStep ==
  ASSUME IInv, NEW c \in Callers, NEW k \in Keys, Call(c, k)
  PROVE  IInv' /\ FreshStep
<1>1. /\ pc[c] = "idle" /\ pc' = [pc EXCEPT ![c] = "scan"]
      /\ key' = [key EXCEPT ![c] = k] /\ ret' = [ret EXCEPT ![c] = "none"]
      /\ UNCHANGED <<dialVars, rules, store, conns, at, rule, trial, broken>>
      /\ UNCHANGED <<worker, chunk, left, target>> /\ faults' = faults
  BY DEF Call, scan, link, commit, dialVars, world
<1>2. TypeOK /\ CallerInv(c) /\ DialInv
  BY DEF IInv
<1>3. SameBlocks /\ DialInv' /\ FreshStep
  BY <1>1, <1>2, StoreKept, SameDial
<1>4. (\A d \in Callers : d # c => SameCaller(d)) /\ \A w : SameWorker(w)
  BY <1>1, <1>2 DEF TypeOK, SameCaller, SameWorker
<1>5. TypeOK'
  BY <1>1, <1>2 DEF TypeOK, Orders, Pool
<1>6. ConnsInv'
  BY <1>1, <1>3, <1>4, ConnsByCaller
<1>7. CallerInv(c)'
  <2>1. pc'[c] = "scan" /\ key'[c] = k /\ at'[c] = 1 /\ rule'[c] = 0 /\ broken'[c] = broken[c]
    BY <1>1, <1>2 DEF TypeOK, CallerInv
  <2>2. Holding(k)' => Ahead(c)'
    <3>1. ASSUME NEW i \in Nat, NEW n \in Nat, HasAt(i, n, k)'
          PROVE  i >= 1 /\ n > 0
      BY <3>1, LookupFacts, RulesNat DEF HasAt
    <3>2. Holding(k)' => \E i, n \in Nat : HasAt(i, n, k)'
      BY <1>1, HoldingAt DEF Holding, HasAt, Match, Server
    <3> QED
      BY <2>1, <3>1, <3>2 DEF Ahead, ToAsk
  <2> QED
    BY <1>1, <1>2, <2>1, <2>2 DEF CallerInv, Asking, Holding
<1> QED
  BY <1>1, <1>3, <1>4, <1>5, <1>6, <1>7, ByCaller

LEMMA NextRuleStep ==
  ASSUME IInv, NEW c \in Callers, NextRule(c)
  PROVE  IInv' /\ FreshStep
<1>1. PICK n \in Rules(Pool(c)) : NextDest(c, n) /\ rule' = [rule EXCEPT ![c] = n]
  BY DEF NextRule
<1>2. /\ pc[c] = "scan" /\ at[c] <= Len(Lookup) /\ pc' = [pc EXCEPT ![c] = "borrow"]
      /\ UNCHANGED <<dialVars, rules, store, conns, at, trial, broken, key, ret>>
      /\ UNCHANGED <<worker, chunk, left, target>> /\ faults' = faults
  BY DEF NextRule, link, call, commit, dialVars, world
<1>3. TypeOK /\ CallerInv(c) /\ DialInv
  BY DEF IInv
<1>4. SameBlocks /\ DialInv' /\ FreshStep
  BY <1>2, <1>3, StoreKept, SameDial
<1>5. (\A d \in Callers : d # c => SameCaller(d)) /\ \A w : SameWorker(w)
  BY <1>1, <1>2, <1>3 DEF TypeOK, SameCaller, SameWorker
<1>6. at[c] \in 1 .. Len(Lookup) /\ Pool(c) \in Pools /\ n \in Nat /\ rule[c] \in Nat
  BY <1>2, <1>3, LookupFacts, RulesNat DEF TypeOK, Pool
<1>7. pc'[c] = "borrow" /\ key'[c] = key[c] /\ at'[c] = at[c] /\ rule'[c] = n /\ broken'[c] = broken[c]
  BY <1>1, <1>2, <1>3 DEF TypeOK
<1>8. TypeOK'
  <2>1. rule' \in [Callers -> Nat] /\ pc' \in [Callers -> {"idle", "scan", "borrow", "dial", "trial", "feed"}]
    BY <1>1, <1>2, <1>3, <1>6 DEF TypeOK
  <2>2. ASSUME NEW d \in Callers, pc'[d] \in {"borrow", "dial", "trial"}
        PROVE  at'[d] <= Len(Lookup) /\ rule'[d] \in Rules(Pool(d)')
    <3>1. CASE d = c
      BY <1>1, <1>2, <1>7, <3>1 DEF Pool
    <3>2. CASE d # c
      BY <1>3, <1>5, <2>2, <3>2 DEF SameCaller, TypeOK, Pool
    <3> QED
      BY <3>1, <3>2
  <2> QED
    BY <1>2, <1>3, <2>1, <2>2 DEF TypeOK
<1>9. ConnsInv'
  BY <1>2, <1>4, <1>5, ConnsByCaller
<1>10. CallerInv(c)'
  <2>1. Match(Pool(c), n, key[c])
    BY <1>1 DEF NextDest
  <2>2. Ahead(c) => Ahead(c)'
    <3> SUFFICES ASSUME NEW i \in Nat, NEW m \in Nat, HasAt(i, m, key[c]), ToAsk(c, i, m)
                 PROVE  HasAt(i, m, key[c])' /\ ToAsk(c, i, m)'
      BY DEF Ahead
    <3>1. HasAt(i, m, key[c])'
      BY <1>2 DEF HasAt, Match, Server
    <3>2. i = at[c] => m \in Rules(Pool(c)) /\ Match(Pool(c), m, key[c])
      BY DEF HasAt, Pool
    <3>3. i = at[c] => m > rule[c]
      BY <1>2, <1>3, <1>6 DEF ToAsk, Asking, TypeOK
    <3>4. i = at[c] => ~(m < n)
      BY <1>1, <3>2, <3>3 DEF NextDest
    <3> QED
      BY <1>6, <1>7, <3>1, <3>4 DEF ToAsk, Asking
  <2>3. Holding(key[c])' <=> Holding(key[c])
    BY <1>2 DEF Holding, Match, Server
  <2>4. Match(Pool(c), rule[c], key[c])'
    BY <1>2, <1>7, <2>1 DEF Match, Server, Pool
  <2> QED
    BY <1>2, <1>3, <1>7, <2>2, <2>3, <2>4 DEF CallerInv
<1> QED
  BY <1>2, <1>4, <1>5, <1>8, <1>9, <1>10, ByCaller

LEMMA PoolMissStep ==
  ASSUME IInv, NEW c \in Callers, PoolMiss(c)
  PROVE  IInv' /\ FreshStep
<1>1. /\ pc[c] = "scan" /\ at[c] <= Len(Lookup)
      /\ at' = [at EXCEPT ![c] = @ + 1] /\ rule' = [rule EXCEPT ![c] = 0]
      /\ UNCHANGED <<dialVars, rules, store, conns, pc, trial, broken, key, ret>>
      /\ UNCHANGED <<worker, chunk, left, target>> /\ faults' = faults
  BY DEF PoolMiss, link, call, commit, dialVars, world
<1>2. \A n \in Rules(Pool(c)) : ~NextDest(c, n)
  BY DEF PoolMiss
<1>3. TypeOK /\ CallerInv(c) /\ DialInv
  BY DEF IInv
<1>4. SameBlocks /\ DialInv' /\ FreshStep
  BY <1>1, <1>3, StoreKept, SameDial
<1>5. (\A d \in Callers : d # c => SameCaller(d)) /\ \A w : SameWorker(w)
  BY <1>1, <1>3 DEF TypeOK, SameCaller, SameWorker
<1>6. at[c] \in 1 .. Len(Lookup) /\ Pool(c) \in Pools /\ rule[c] \in Nat
  BY <1>1, <1>3, LookupFacts DEF TypeOK, Pool
<1>7. pc'[c] = "scan" /\ key'[c] = key[c] /\ at'[c] = at[c] + 1 /\ rule'[c] = 0 /\ broken'[c] = broken[c]
  BY <1>1, <1>3 DEF TypeOK
<1>8. TypeOK'
  <2>1. at' \in [Callers -> 1 .. Len(Lookup) + 1] /\ rule' \in [Callers -> Nat]
    BY <1>1, <1>3, <1>6, LookupFacts DEF TypeOK
  <2>2. ASSUME NEW d \in Callers, pc'[d] \in {"borrow", "dial", "trial"}
        PROVE  at'[d] <= Len(Lookup) /\ rule'[d] \in Rules(Pool(d)')
    BY <1>1, <1>3, <1>5, <2>2 DEF SameCaller, TypeOK, Pool
  <2> QED
    BY <1>1, <1>3, <2>1, <2>2 DEF TypeOK
<1>9. ConnsInv'
  BY <1>1, <1>4, <1>5, ConnsByCaller
<1>10. CallerInv(c)'
  <2>1. Ahead(c) => Ahead(c)'
    <3> SUFFICES ASSUME NEW i \in Nat, NEW m \in Nat, HasAt(i, m, key[c]), ToAsk(c, i, m)
                 PROVE  HasAt(i, m, key[c])' /\ ToAsk(c, i, m)'
      BY DEF Ahead
    <3>1. HasAt(i, m, key[c])'
      BY <1>1 DEF HasAt, Match, Server
    <3>2. i = at[c] => m \in Rules(Pool(c)) /\ m > rule[c] /\ Match(Pool(c), m, key[c])
      BY <1>1 DEF HasAt, ToAsk, Asking, Pool
    <3>3. i # at[c]
      <4> SUFFICES ASSUME i = at[c] PROVE FALSE
        OBVIOUS
      <4> DEFINE T == {n \in Rules(Pool(c)) : n > rule[c] /\ Match(Pool(c), n, key[c])}
      <4>1. T \subseteq Nat /\ T # {}
        BY <1>6, <3>2, RulesNat
      <4>2. PICK n \in T : \A o \in T : n <= o
        <5> HIDE DEF T
        <5> QED BY <4>1, LeastNat
      <4>3. \A o \in Rules(Pool(c)) : o > rule[c] /\ o < n => ~Match(Pool(c), o, key[c])
        BY <1>6, <4>1, <4>2, RulesNat
      <4> QED
        BY <1>2, <4>2, <4>3 DEF NextDest
    <3>4. m > 0
      BY <3>1, LookupFacts, RulesNat DEF HasAt
    <3> QED
      BY <1>6, <1>7, <3>1, <3>3, <3>4 DEF ToAsk
  <2>2. Holding(key[c])' <=> Holding(key[c])
    BY <1>1 DEF Holding, Match, Server
  <2> QED
    BY <1>1, <1>3, <1>7, <2>1, <2>2 DEF CallerInv, Asking
<1> QED
  BY <1>1, <1>4, <1>5, <1>8, <1>9, <1>10, ByCaller

LEMMA ExhaustedStep ==
  ASSUME IInv, NEW c \in Callers, Exhausted(c)
  PROVE  IInv' /\ FreshStep
<1>1. /\ pc[c] = "scan" /\ pc' = [pc EXCEPT ![c] = "idle"]
      /\ at' = [at EXCEPT ![c] = 1] /\ rule' = [rule EXCEPT ![c] = 0]
      /\ ret' = [ret EXCEPT ![c] = "notRoutable"]
      /\ UNCHANGED <<dialVars, rules, store, conns, key, trial, broken>>
      /\ UNCHANGED <<worker, chunk, left, target>> /\ faults' = faults
  BY DEF Exhausted, Return, link, commit, dialVars, world
<1>2. TypeOK /\ CallerInv(c) /\ DialInv
  BY DEF IInv
<1>3. SameBlocks /\ DialInv' /\ FreshStep
  BY <1>1, <1>2, StoreKept, SameDial
<1>4. (\A d \in Callers : d # c => SameCaller(d)) /\ \A w : SameWorker(w)
  BY <1>1, <1>2 DEF TypeOK, SameCaller, SameWorker
<1>5. TypeOK'
  BY <1>1, <1>2, LookupFacts DEF TypeOK, Orders, Pool
<1>6. ConnsInv'
  BY <1>1, <1>3, <1>4, ConnsByCaller
<1>7. CallerInv(c)'
  BY <1>1, <1>2 DEF TypeOK, CallerInv, Asking
<1> QED
  BY <1>1, <1>3, <1>4, <1>5, <1>6, <1>7, ByCaller

LEMMA BorrowStep ==
  ASSUME IInv, NEW c \in Callers, Borrow(c)
  PROVE  IInv' /\ FreshStep
<1>1. /\ pc[c] = "borrow" /\ FreeConn(Pool(c), Dest(c)) /\ Acquire(c, Pool(c), Dest(c))
      /\ UNCHANGED <<dialVars, rules, store, at, rule, trial, broken, key, ret>>
      /\ UNCHANGED <<worker, chunk, left, target>> /\ faults' = faults
  BY DEF Borrow, scan, link, call, commit, dialVars, world
<1>2. PICK next \in {"dial", "trial"} : pc' = [pc EXCEPT ![c] = next]
  BY DEF Borrow
<1>3. TypeOK /\ CallerInv(c) /\ DialInv /\ ConnsInv /\ ConnTypes
  BY DEF IInv, TypeOK, ConnTypes
<1>4. SameBlocks /\ DialInv' /\ FreshStep
  BY <1>1, <1>3, StoreKept, SameDial
<1>5. (\A d \in Callers : d # c => SameCaller(d)) /\ \A w : SameWorker(w)
  BY <1>1, <1>2, <1>3 DEF TypeOK, SameCaller, SameWorker
<1>6. Pool(c) \in Pools /\ Dest(c) \in DOMAIN Covers[Pool(c)]
  BY <1>1, <1>3, DestIn DEF Asking
<1> PICK p \in Pools : p = Pool(c)
  BY <1>6
<1> PICK s \in DOMAIN Covers[p] : s = Dest(c)
  BY <1>6
<1>7. pc'[c] = next /\ Pool(c)' = p /\ Dest(c)' = s
  BY <1>1, <1>2, <1>3 DEF TypeOK, Pool, Dest, Server
<1>8. ConnTypes' /\ ConnsInv'
  <2>1. CallerUses(c, p, s)'
    BY <1>7 DEF CallerUses
  <2>2. \A q, t, b : CallerUses(b, q, t) => CallerUses(b, q, t)'
    BY <1>1, <1>4, <1>5, OthersSame DEF CallerUses
  <2>3. \A q, t, b : WorkerUses(b, q, t) => WorkerUses(b, q, t)'
    BY <1>1, <1>4, <1>5, OthersSame
  <2>4. c \in Actors /\ FreeConn(p, s) /\ Acquire(c, p, s)
    BY <1>1 DEF Actors
  <2> QED
    BY <1>3, <2>1, <2>2, <2>3, <2>4, Acquired
<1>9. TypeOK'
  BY <1>1, <1>2, <1>3, <1>8 DEF TypeOK, Orders, Pool, ConnTypes
<1>10. CallerInv(c)'
  <2>1. Match(Pool(c), rule[c], key[c])'
    BY <1>1, <1>3, <1>7 DEF CallerInv, Asking, Match, Server
  <2>2. Ahead(c) => Ahead(c)'
    BY <1>1, <1>7 DEF Ahead, HasAt, ToAsk, Match, Server, Asking
  <2>3. Holding(key[c])' <=> Holding(key[c])
    BY <1>1 DEF Holding, Match, Server
  <2> QED
    BY <1>1, <1>3, <1>7, <2>1, <2>2, <2>3 DEF CallerInv
<1> QED
  BY <1>1, <1>4, <1>5, <1>8, <1>9, <1>10, ByCaller

(* The caller gives its connection back, or the place of one.              *)
LEMMA FreedByCaller ==
  ASSUME IInv, NEW c \in Callers, pc[c] \in Asking, Free(c, Pool(c), Dest(c)),
         UNCHANGED <<faults, rules>>, SameBlocks,
         \A d \in Callers : d # c => SameCaller(d), \A w : SameWorker(w)
  PROVE  ConnTypes' /\ ConnsInv'
<1>1. TypeOK /\ ConnsInv /\ ConnTypes
  BY DEF IInv, TypeOK, ConnTypes
<1>2. Pool(c) \in Pools /\ Dest(c) \in DOMAIN Covers[Pool(c)]
  BY <1>1, DestIn
<1> PICK p \in Pools : p = Pool(c)
  BY <1>2
<1> PICK s \in DOMAIN Covers[p] : s = Dest(c)
  BY <1>2
<1>3. \A q, t, b : CallerUses(b, q, t) => CallerUses(b, q, t)' \/ (b = c /\ q = p /\ t = s)
  <2> SUFFICES ASSUME NEW q, NEW t, NEW b, CallerUses(b, q, t)
               PROVE  CallerUses(b, q, t)' \/ (b = c /\ q = p /\ t = s)
    OBVIOUS
  <2>1. CASE b = c
    BY <2>1 DEF CallerUses
  <2>2. CASE b # c
    BY <2>2, OthersSame DEF CallerUses
  <2> QED
    BY <2>1, <2>2
<1>4. \A q, t, b : WorkerUses(b, q, t) => WorkerUses(b, q, t)' \/ (b = c /\ q = p /\ t = s)
  BY OthersSame
<1>5. Free(c, p, s)
  OBVIOUS
<1> QED
  BY <1>1, <1>3, <1>4, <1>5, Freed

LEMMA DialStep ==
  ASSUME IInv, NEW c \in Callers, Dial(c)
  PROVE  IInv' /\ FreshStep
<1>1. /\ pc[c] = "dial"
      /\ UNCHANGED <<rules, store, at, rule, trial, key, ret>>
      /\ UNCHANGED <<worker, chunk, left, target>>
  BY DEF Dial, scan, call, commit
<1>2. TypeOK /\ CallerInv(c) /\ DialInv /\ ConnsInv /\ ConnTypes /\ SameBlocks
  BY <1>1, StoreKept DEF IInv, TypeOK, ConnTypes
<1>3. /\ at[c] \in 1 .. Len(Lookup) /\ rule[c] \in Rules(Pool(c))
      /\ Pool(c) \in Pools /\ Dest(c) \in Servers /\ HostOf[Dest(c)] \in Hosts
  BY <1>1, <1>2, DestIn, RouterAssumption DEF Asking
<1>4. Pool(c)' = Pool(c) /\ Dest(c)' = Dest(c)
  BY <1>1 DEF Pool, Dest, Server
<1>5. Match(Pool(c), rule[c], key[c])' /\ (Holding(key[c])' <=> Holding(key[c]))
  BY <1>1, <1>2, <1>4 DEF CallerInv, Asking, Holding, Match, Server, Pool
<1>6. Ahead(c) /\ pc'[c] \in Asking => Ahead(c)'
  BY <1>1 DEF Ahead, HasAt, ToAsk, Match, Server, Asking
<1>7. CASE (DialLock(c, HostOf[Dest(c)]) \/ Resolve(c)) /\ UNCHANGED <<pc, broken, conns>>
  <2> PICK h \in Hosts : h = HostOf[Dest(c)]
    BY <1>3
  <2>1. DialInv' /\ FreshStep
    BY <1>2, <1>7, DialLockStep, ResolveStep DEF Actors
  <2>2. faults' = faults
    BY <1>7 DEF DialLock, Resolve, world
  <2>3. (\A d \in Callers : SameCaller(d)) /\ \A w : SameWorker(w)
    BY <1>1, <1>7 DEF SameCaller, SameWorker
  <2>4. TypeOK'
    BY <1>1, <1>2, <1>7 DEF TypeOK, Orders, Pool
  <2>5. ConnsInv'
    BY <1>1, <1>2, <1>4, <1>7, <2>2, <2>3, ConnsByCaller
  <2> QED
    BY <1>1, <1>2, <2>1, <2>2, <2>3, <2>4, <2>5, OthersSame DEF IInv
<1>8. CASE Connect(c) /\ UNCHANGED <<broken, conns>> /\ pc' = [pc EXCEPT ![c] = "trial"]
  <2>1. DialInv' /\ FreshStep
    BY <1>2, <1>8, UnlockStep
  <2>2. faults' = faults /\ pc'[c] = "trial"
    BY <1>2, <1>8 DEF Connect, world, TypeOK
  <2>3. (\A d \in Callers : d # c => SameCaller(d)) /\ \A w : SameWorker(w)
    BY <1>1, <1>2, <1>8 DEF TypeOK, SameCaller, SameWorker
  <2>4. TypeOK'
    BY <1>1, <1>2, <1>8 DEF TypeOK, Orders, Pool
  <2>5. ConnsInv'
    BY <1>1, <1>2, <1>4, <1>8, <2>2, <2>3, ConnsByCaller
  <2>6. CallerInv(c)'
    BY <1>1, <1>2, <1>5, <1>6, <1>8, <2>2 DEF CallerInv, Asking
  <2> QED
    BY <1>1, <1>2, <2>1, <2>2, <2>3, <2>4, <2>5, <2>6, ByCaller
<1>9. CASE /\ DialFail(c) /\ Free(c, Pool(c), Dest(c))
           /\ pc' = [pc EXCEPT ![c] = "trial"] /\ broken' = [broken EXCEPT ![c] = TRUE]
  <2>1. DialInv' /\ FreshStep
    BY <1>2, <1>9, UnlockStep
  <2>2. faults' = faults /\ pc'[c] = "trial"
    BY <1>2, <1>9 DEF DialFail, world, TypeOK
  <2>3. faults # {}
    BY <1>2, <1>9 DEF DialFail, Dials, NetFaults, DialInv, Still
  <2>4. (\A d \in Callers : d # c => SameCaller(d)) /\ \A w : SameWorker(w)
    BY <1>1, <1>2, <1>9 DEF TypeOK, SameCaller, SameWorker
  <2>5. ConnTypes' /\ ConnsInv'
    BY <1>1, <1>2, <1>9, <2>2, <2>4, FreedByCaller DEF Asking
  <2>6. TypeOK'
    BY <1>1, <1>2, <1>9, <2>5 DEF TypeOK, Orders, Pool, ConnTypes
  <2>7. CallerInv(c)'
    BY <1>5, <2>2, <2>3 DEF CallerInv
  <2> QED
    BY <1>1, <1>2, <2>1, <2>2, <2>4, <2>5, <2>6, <2>7, ByCaller
<1> QED
  BY <1>7, <1>8, <1>9 DEF Dial

(* The destination that a caller asks holds what it is found to hold.      *)
LEMMA FoundHere ==
  ASSUME IInv, NEW c \in Callers, pc[c] \in Asking, key[c] \in store[Dest(c)]
  PROVE  Holding(key[c])
<1>1. at[c] \in 1 .. Len(Lookup) /\ rule[c] \in Rules(Pool(c)) /\ Pool(c) \in Pools
  BY DestIn DEF IInv
<1>2. Match(Pool(c), rule[c], key[c])
  BY DEF IInv, CallerInv
<1>3. at[c] \in Nat /\ rule[c] \in Nat
  BY <1>1, RulesNat
<1>4. HasAt(at[c], rule[c], key[c])
  BY <1>1, <1>2 DEF HasAt, Pool, Dest
<1> QED
  BY <1>3, <1>4, HoldingAt

LEMMA FoundStep ==
  ASSUME IInv, NEW c \in Callers, Found(c)
  PROVE  IInv' /\ FreshStep
<1>1. /\ pc[c] = "trial" /\ key[c] \in store[Dest(c)]
      /\ Free(c, Pool(c), Dest(c)) /\ trial' = [trial EXCEPT ![c] = 1]
      /\ broken' = [broken EXCEPT ![c] = FALSE]
      /\ UNCHANGED <<dialVars, rules, store, key>>
      /\ UNCHANGED <<worker, chunk, left, target>> /\ faults' = faults
  BY DEF Found, Leave, Return, scan, call, commit, dialVars, world
<1>2. TypeOK /\ CallerInv(c) /\ DialInv
  BY DEF IInv
<1>3. SameBlocks /\ DialInv' /\ FreshStep
  BY <1>1, <1>2, StoreKept, SameDial
<1>4. \/ /\ pc' = [pc EXCEPT ![c] = "idle"] /\ ret' = [ret EXCEPT ![c] = "data"]
         /\ at' = [at EXCEPT ![c] = 1] /\ rule' = [rule EXCEPT ![c] = 0]
      \/ pc' = [pc EXCEPT ![c] = "feed"] /\ UNCHANGED <<at, rule, ret>>
  BY DEF Found, Return, scan, call
<1>5. (\A d \in Callers : d # c => SameCaller(d)) /\ \A w : SameWorker(w)
  BY <1>1, <1>2, <1>4 DEF TypeOK, SameCaller, SameWorker
<1>6. ConnTypes' /\ ConnsInv'
  BY <1>1, <1>3, <1>5, FreedByCaller DEF Asking
<1>7. TypeOK'
  <2>1. /\ pc' \in [Callers -> {"idle", "scan", "borrow", "dial", "trial", "feed"}]
        /\ at' \in [Callers -> 1 .. Len(Lookup) + 1] /\ rule' \in [Callers -> Nat]
        /\ ret' \in [Callers -> {"none", "data", "notRoutable"}]
    <3>1. /\ pc \in [Callers -> {"idle", "scan", "borrow", "dial", "trial", "feed"}]
          /\ at \in [Callers -> 1 .. Len(Lookup) + 1] /\ rule \in [Callers -> Nat]
          /\ ret \in [Callers -> {"none", "data", "notRoutable"}]
          /\ 1 \in 1 .. Len(Lookup) + 1
      BY <1>2, LookupFacts DEF TypeOK
    <3>2. CASE pc' = [pc EXCEPT ![c] = "feed"] /\ UNCHANGED <<at, rule, ret>>
      BY <3>1, <3>2
    <3>3. CASE /\ pc' = [pc EXCEPT ![c] = "idle"] /\ ret' = [ret EXCEPT ![c] = "data"]
               /\ at' = [at EXCEPT ![c] = 1] /\ rule' = [rule EXCEPT ![c] = 0]
      BY <3>1, <3>3
    <3> QED
      BY <1>4, <3>2, <3>3
  <2>2. /\ trial' \in [Callers -> 1 .. Retries] /\ broken' \in [Callers -> BOOLEAN]
    BY <1>1, <1>2, RouterAssumption DEF TypeOK
  <2>3. ASSUME NEW d \in Callers, pc'[d] \in {"borrow", "dial", "trial"}
        PROVE  at'[d] <= Len(Lookup) /\ rule'[d] \in Rules(Pool(d)')
    <3>1. d # c
      BY <1>2, <1>4, <2>3 DEF TypeOK
    <3> QED
      BY <1>2, <1>5, <2>3, <3>1 DEF TypeOK, SameCaller, Pool
  <2> QED
    BY <1>1, <1>2, <1>6, <2>1, <2>2, <2>3 DEF TypeOK, ConnTypes
<1>8. CallerInv(c)'
  <2>1. Holding(key[c])'
    BY <1>1, FoundHere DEF Holding, Match, Server, Asking
  <2> QED
    BY <1>1, <1>2, <1>4, <2>1 DEF TypeOK, CallerInv, Asking
<1> QED
  BY <1>1, <1>3, <1>5, <1>6, <1>7, <1>8, ByCaller

LEMMA NotThereStep ==
  ASSUME IInv, NEW c \in Callers, NotThere(c)
  PROVE  IInv' /\ FreshStep
<1>1. /\ pc[c] = "trial" /\ key[c] \notin store[Dest(c)]
      /\ Free(c, Pool(c), Dest(c)) /\ trial' = [trial EXCEPT ![c] = 1]
      /\ broken' = [broken EXCEPT ![c] = FALSE] /\ pc' = [pc EXCEPT ![c] = "scan"]
      /\ UNCHANGED <<dialVars, rules, store, at, rule, key, ret>>
      /\ UNCHANGED <<worker, chunk, left, target>> /\ faults' = faults
  BY DEF NotThere, Leave, scan, call, commit, dialVars, world
<1>2. TypeOK /\ CallerInv(c) /\ DialInv
  BY DEF IInv
<1>3. SameBlocks /\ DialInv' /\ FreshStep
  BY <1>1, <1>2, StoreKept, SameDial
<1>4. (\A d \in Callers : d # c => SameCaller(d)) /\ \A w : SameWorker(w)
  BY <1>1, <1>2 DEF TypeOK, SameCaller, SameWorker
<1>5. ConnTypes' /\ ConnsInv'
  BY <1>1, <1>3, <1>4, FreedByCaller DEF Asking
<1>6. TypeOK'
  BY <1>1, <1>2, <1>5, RouterAssumption DEF TypeOK, Orders, Pool, ConnTypes
<1>7. CallerInv(c)'
  <2>1. pc'[c] = "scan" /\ ~broken'[c]
    BY <1>1, <1>2 DEF TypeOK
  <2>2. Ahead(c) => Ahead(c)'
    <3> SUFFICES ASSUME NEW i \in Nat, NEW m \in Nat, HasAt(i, m, key[c]), ToAsk(c, i, m)
                 PROVE  HasAt(i, m, key[c])' /\ ToAsk(c, i, m)'
      BY DEF Ahead
    <3>1. HasAt(i, m, key[c])'
      BY <1>1 DEF HasAt, Match, Server
    <3>2. ~(i = at[c] /\ m = rule[c])
      BY <1>1 DEF HasAt, Dest, Pool
    <3> QED
      BY <1>1, <3>1, <3>2 DEF ToAsk
  <2>3. Holding(key[c])' <=> Holding(key[c])
    BY <1>1 DEF Holding, Match, Server
  <2> QED
    BY <1>1, <1>2, <2>1, <2>2, <2>3 DEF CallerInv, Asking
<1> QED
  BY <1>1, <1>3, <1>4, <1>5, <1>6, <1>7, ByCaller

LEMMA TrialFailStep ==
  ASSUME IInv, NEW c \in Callers, TrialFail(c)
  PROVE  IInv' /\ FreshStep
<1>1. /\ pc[c] = "trial" /\ (broken[c] \/ NetFaults)
      /\ UNCHANGED <<dialVars, rules, store, at, rule, key, ret>>
      /\ UNCHANGED <<worker, chunk, left, target>> /\ faults' = faults
  BY DEF TrialFail, scan, call, commit, dialVars, world
<1>2. TypeOK /\ CallerInv(c) /\ DialInv
  BY DEF IInv
<1>3. SameBlocks /\ DialInv' /\ FreshStep
  BY <1>1, <1>2, StoreKept, SameDial
<1>4. faults # {}
  BY <1>1, <1>2 DEF CallerInv, NetFaults
<1>5. CASE MoreTrials(c)
  <2>1. /\ trial' = [trial EXCEPT ![c] = @ + 1] /\ UNCHANGED <<conns, pc>>
        /\ \E b \in BOOLEAN : broken' = [broken EXCEPT ![c] = @ \/ b]
    BY <1>5 DEF TrialFail
  <2>2. (\A d \in Callers : d # c => SameCaller(d)) /\ \A w : SameWorker(w)
    BY <1>1, <1>2, <2>1 DEF TypeOK, SameCaller, SameWorker
  <2>3. broken' \in [Callers -> BOOLEAN]
    BY <1>2, <2>1 DEF TypeOK
  <2>4. trial' \in [Callers -> 1 .. Retries]
    BY <1>2, <1>5, <2>1, RouterAssumption DEF TypeOK, MoreTrials
  <2>5. TypeOK'
    BY <1>1, <1>2, <2>1, <2>3, <2>4 DEF TypeOK, Orders, Pool
  <2>6. ConnsInv'
    BY <1>1, <1>3, <2>1, <2>2, ConnsByCaller DEF Pool, Dest, Server
  <2>7. CallerInv(c)'
    BY <1>1, <1>2, <1>4, <2>1 DEF CallerInv, Asking, Match, Server, Pool
  <2> QED
    BY <1>1, <1>3, <2>2, <2>5, <2>6, <2>7, ByCaller
<1>6. CASE ~MoreTrials(c)
  <2>1. /\ Free(c, Pool(c), Dest(c)) /\ trial' = [trial EXCEPT ![c] = 1]
        /\ broken' = [broken EXCEPT ![c] = FALSE] /\ pc' = [pc EXCEPT ![c] = "scan"]
    BY <1>6 DEF TrialFail, Leave
  <2>2. (\A d \in Callers : d # c => SameCaller(d)) /\ \A w : SameWorker(w)
    BY <1>1, <1>2, <2>1 DEF TypeOK, SameCaller, SameWorker
  <2>3. ConnTypes' /\ ConnsInv'
    BY <1>1, <1>3, <2>1, <2>2, FreedByCaller DEF Asking
  <2>4. TypeOK'
    BY <1>1, <1>2, <2>1, <2>3, RouterAssumption DEF TypeOK, Orders, Pool, ConnTypes
  <2>5. CallerInv(c)'
    BY <1>1, <1>2, <1>4, <2>1 DEF TypeOK, CallerInv, Asking
  <2> QED
    BY <1>1, <1>3, <2>2, <2>3, <2>4, <2>5, ByCaller
<1> QED
  BY <1>5, <1>6

LEMMA FeedStep ==
  ASSUME IInv, NEW c \in Callers, NEW w \in Workers, Feed(c, w)
  PROVE  IInv' /\ FreshStep
<1>1. /\ pc[c] = "feed" /\ worker[w] = "recv"
      /\ worker' = [worker EXCEPT ![w] = "next"] /\ chunk' = [chunk EXCEPT ![w] = key[c]]
      /\ left' = [left EXCEPT ![w] = CachePools]
      /\ pc' = [pc EXCEPT ![c] = "idle"] /\ ret' = [ret EXCEPT ![c] = "data"]
      /\ at' = [at EXCEPT ![c] = 1] /\ rule' = [rule EXCEPT ![c] = 0]
      /\ UNCHANGED <<dialVars, rules, store, conns, key, trial, broken, target>>
      /\ faults' = faults
  BY DEF Feed, Everywhere, Return, link, dialVars, world
<1>2. TypeOK /\ CallerInv(c) /\ DialInv /\ ConnsInv /\ ConnTypes
  BY DEF IInv, TypeOK, ConnTypes
<1>3. SameBlocks /\ DialInv' /\ FreshStep
  BY <1>1, <1>2, StoreKept, SameDial
<1>4. /\ \A d \in Callers : d # c => SameCaller(d)
      /\ \A v \in Workers : v # w => SameWorker(v)
  BY <1>1, <1>2 DEF TypeOK, SameCaller, SameWorker
<1>5. TypeOK'
  BY <1>1, <1>2, LookupFacts DEF TypeOK, Orders, Pool
<1>6. ConnsInv'
  <2>1. \A a, p, s : CallerUses(a, p, s) => CallerUses(a, p, s)'
    BY <1>1, <1>3, <1>4, OthersSame DEF CallerUses
  <2>2. \A a, p, s : WorkerUses(a, p, s) => WorkerUses(a, p, s)'
    BY <1>1, <1>3, <1>4, OthersSame DEF WorkerUses
  <2> QED
    BY <1>1, <1>2, <2>1, <2>2, ConnsSame
<1>7. CallerInv(c)'
  BY <1>1, <1>2 DEF TypeOK, CallerInv, Asking
<1>8. WorkerInv(w)'
  <2>1. Holding(key[c])'
    BY <1>1, <1>2 DEF CallerInv, Holding, Match, Server
  <2> QED
    BY <1>1, <1>2, <2>1 DEF TypeOK, WorkerInv, Setting, Holding
<1> QED
  BY <1>1, <1>3, <1>4, <1>5, <1>6, <1>7, <1>8, OthersSame DEF IInv

-----------------------------------------------------------------------------
(* The steps of a commit worker.                                           *)

LEMMA ByWorker ==
  ASSUME IInv, NEW w \in Workers, UNCHANGED <<faults, rules>>, SameBlocks,
         \A v \in Workers : v # w => SameWorker(v), \A c : SameCaller(c),
         TypeOK', DialInv', ConnsInv', WorkerInv(w)'
  PROVE  IInv'
BY OthersSame DEF IInv

(* A worker that has no connection before, or the same one after.          *)
LEMMA ConnsByWorker ==
  ASSUME IInv, NEW w \in Workers, UNCHANGED <<faults, rules, conns>>, SameBlocks,
         \A v \in Workers : v # w => SameWorker(v), \A c : SameCaller(c),
         \/ worker[w] \notin {"dial", "set"}
         \/ worker'[w] \in {"dial", "set"} /\ target'[w] = target[w] /\ SetDest(w)' = SetDest(w)
  PROVE  ConnsInv'
<1>1. ConnTypes /\ ConnsInv
  BY DEF IInv, TypeOK, ConnTypes
<1>2. \A a, p, s : WorkerUses(a, p, s) => WorkerUses(a, p, s)'
  <2> SUFFICES ASSUME NEW a, NEW p, NEW s, WorkerUses(a, p, s) PROVE WorkerUses(a, p, s)'
    OBVIOUS
  <2>1. CASE a = w
    BY <2>1 DEF WorkerUses
  <2>2. CASE a # w
    BY <2>2, OthersSame DEF WorkerUses
  <2> QED
    BY <2>1, <2>2
<1> QED
  BY <1>1, <1>2, OthersSame, ConnsSame

LEMMA FreedByWorker ==
  ASSUME IInv, NEW w \in Workers, worker[w] \in Setting, Free(w, target[w], SetDest(w)),
         UNCHANGED <<faults, rules>>, SameBlocks,
         \A v \in Workers : v # w => SameWorker(v), \A c : SameCaller(c)
  PROVE  ConnTypes' /\ ConnsInv'
<1>1. TypeOK /\ ConnsInv /\ ConnTypes
  BY DEF IInv, TypeOK, ConnTypes
<1>2. target[w] \in Pools /\ SetDest(w) \in DOMAIN Covers[target[w]]
  BY <1>1, SetDestIn DEF IInv, WorkerInv
<1> PICK p \in Pools : p = target[w]
  BY <1>2
<1> PICK s \in DOMAIN Covers[p] : s = SetDest(w)
  BY <1>2
<1>3. \A q, t, b : WorkerUses(b, q, t) => WorkerUses(b, q, t)' \/ (b = w /\ q = p /\ t = s)
  <2> SUFFICES ASSUME NEW q, NEW t, NEW b, WorkerUses(b, q, t)
               PROVE  WorkerUses(b, q, t)' \/ (b = w /\ q = p /\ t = s)
    OBVIOUS
  <2>1. CASE b = w
    BY <2>1 DEF WorkerUses
  <2>2. CASE b # w
    BY <2>2, OthersSame DEF WorkerUses
  <2> QED
    BY <2>1, <2>2
<1>4. \A q, t, b : CallerUses(b, q, t) => CallerUses(b, q, t)' \/ (b = w /\ q = p /\ t = s)
  BY OthersSame
<1>5. Free(w, p, s)
  OBVIOUS
<1> QED
  BY <1>1, <1>3, <1>4, <1>5, Freed

LEMMA SetRouteStep ==
  ASSUME IInv, NEW w \in Workers, NEW p \in CachePools, SetRoute(w, p)
  PROVE  IInv' /\ FreshStep
<1>1. /\ worker[w] = "next" /\ left' = [left EXCEPT ![w] = @ \ {p}]
      /\ \/ /\ Routable(p, chunk[w]) /\ worker' = [worker EXCEPT ![w] = "borrow"]
            /\ target' = [target EXCEPT ![w] = p]
         \/ UNCHANGED <<worker, target>>
      /\ UNCHANGED <<dialVars, rules, store, conns, pc, at, rule, trial, broken, key, ret, chunk>>
      /\ faults' = faults
  BY DEF SetRoute, scan, link, call, dialVars, world
<1>2. TypeOK /\ WorkerInv(w) /\ DialInv /\ p \in Pools
  BY RouterAssumption DEF IInv
<1>3. SameBlocks /\ DialInv' /\ FreshStep
  BY <1>1, <1>2, StoreKept, SameDial
<1>4. (\A v \in Workers : v # w => SameWorker(v)) /\ \A c : SameCaller(c)
  BY <1>1, <1>2 DEF TypeOK, SameCaller, SameWorker
<1>5. TypeOK'
  <2>1. /\ worker' \in [Workers -> {"recv", "next", "borrow", "dial", "set"}]
        /\ target' \in [Workers -> Pools \cup {None}]
        /\ left' \in [Workers -> SUBSET CachePools]
    BY <1>1, <1>2 DEF TypeOK
  <2> QED
    BY <1>1, <1>2, <2>1 DEF TypeOK, Orders, Pool
<1>6. ConnsInv'
  BY <1>1, <1>3, <1>4, ConnsByWorker
<1>7. WorkerInv(w)'
  <2>1. (Holding(chunk[w])' <=> Holding(chunk[w])) /\ (Routable(p, chunk[w])' <=> Routable(p, chunk[w]))
    BY <1>1 DEF Holding, Routable, Match, Server
  <2> QED
    BY <1>1, <1>2, <2>1 DEF TypeOK, WorkerInv, Setting, Routable
<1> QED
  BY <1>1, <1>3, <1>4, <1>5, <1>6, <1>7, ByWorker

LEMMA SetBorrowStep ==
  ASSUME IInv, NEW w \in Workers, SetBorrow(w)
  PROVE  IInv' /\ FreshStep
<1>1. /\ worker[w] = "borrow" /\ FreeConn(target[w], SetDest(w)) /\ Acquire(w, target[w], SetDest(w))
      /\ UNCHANGED <<dialVars, rules, store, pc, at, rule, trial, broken, key, ret>>
      /\ UNCHANGED <<chunk, left, target>> /\ faults' = faults
  BY DEF SetBorrow, scan, link, call, dialVars, world
<1>2. PICK next \in {"dial", "set"} : worker' = [worker EXCEPT ![w] = next]
  BY DEF SetBorrow
<1>3. TypeOK /\ WorkerInv(w) /\ DialInv /\ ConnsInv /\ ConnTypes
  BY DEF IInv, TypeOK, ConnTypes
<1>4. SameBlocks /\ DialInv' /\ FreshStep
  BY <1>1, <1>3, StoreKept, SameDial
<1>5. (\A v \in Workers : v # w => SameWorker(v)) /\ \A c : SameCaller(c)
  BY <1>1, <1>2, <1>3 DEF TypeOK, SameCaller, SameWorker
<1>6. target[w] \in Pools /\ SetDest(w) \in DOMAIN Covers[target[w]]
  BY <1>1, <1>3, SetDestIn DEF WorkerInv, Setting
<1> PICK p \in Pools : p = target[w]
  BY <1>6
<1> PICK s \in DOMAIN Covers[p] : s = SetDest(w)
  BY <1>6
<1>7. worker'[w] = next /\ target'[w] = p /\ SetDest(w)' = s
  BY <1>1, <1>2, <1>3 DEF TypeOK, SetDest, First, Match, Server
<1>8. ConnTypes' /\ ConnsInv'
  <2>1. WorkerUses(w, p, s)'
    BY <1>7 DEF WorkerUses
  <2>2. \A q, t, b : WorkerUses(b, q, t) => WorkerUses(b, q, t)'
    BY <1>1, <1>4, <1>5, OthersSame DEF WorkerUses
  <2>3. \A q, t, b : CallerUses(b, q, t) => CallerUses(b, q, t)'
    BY <1>1, <1>4, <1>5, OthersSame
  <2>4. w \in Actors /\ FreeConn(p, s) /\ Acquire(w, p, s)
    BY <1>1 DEF Actors
  <2> QED
    BY <1>3, <2>1, <2>2, <2>3, <2>4, Acquired
<1>9. TypeOK'
  BY <1>1, <1>2, <1>3, <1>8 DEF TypeOK, Orders, Pool, ConnTypes
<1>10. WorkerInv(w)'
  <2>1. (Holding(chunk[w])' <=> Holding(chunk[w]))
        /\ (Routable(target[w], chunk[w])' <=> Routable(target[w], chunk[w]))
    BY <1>1 DEF Holding, Routable, Match, Server
  <2> QED
    BY <1>1, <1>3, <1>7, <2>1 DEF WorkerInv, Setting
<1> QED
  BY <1>1, <1>4, <1>5, <1>8, <1>9, <1>10, ByWorker

LEMMA SetDialStep ==
  ASSUME IInv, NEW w \in Workers, SetDial(w)
  PROVE  IInv' /\ FreshStep
<1>1. /\ worker[w] = "dial"
      /\ UNCHANGED <<rules, store, pc, at, rule, trial, broken, key, ret>>
      /\ UNCHANGED <<chunk, left, target>>
  BY DEF SetDial, scan, link, call
<1>2. TypeOK /\ WorkerInv(w) /\ DialInv /\ ConnsInv /\ ConnTypes /\ SameBlocks
  BY <1>1, StoreKept DEF IInv, TypeOK, ConnTypes
<1>3. HostOf[SetDest(w)] \in Hosts
  BY <1>1, <1>2, SetDestIn, RouterAssumption DEF WorkerInv, Setting
<1>4. SetDest(w)' = SetDest(w)
  BY <1>1 DEF SetDest, First, Match, Server
<1>5. (Holding(chunk[w])' <=> Holding(chunk[w]))
      /\ (Routable(target[w], chunk[w])' <=> Routable(target[w], chunk[w]))
  BY <1>1 DEF Holding, Routable, Match, Server
<1>6. CASE (DialLock(w, HostOf[SetDest(w)]) \/ Resolve(w)) /\ UNCHANGED <<worker, conns>>
  <2> PICK h \in Hosts : h = HostOf[SetDest(w)]
    BY <1>3
  <2>1. DialInv' /\ FreshStep
    BY <1>2, <1>6, DialLockStep, ResolveStep DEF Actors
  <2>2. faults' = faults
    BY <1>6 DEF DialLock, Resolve, world
  <2>3. (\A v : SameWorker(v)) /\ \A c : SameCaller(c)
    BY <1>1, <1>6 DEF SameCaller, SameWorker
  <2>4. TypeOK'
    BY <1>1, <1>2, <1>6 DEF TypeOK, Orders, Pool
  <2>5. ConnsInv'
    BY <1>1, <1>2, <1>4, <1>6, <2>2, <2>3, ConnsByWorker
  <2> QED
    BY <1>1, <1>2, <2>1, <2>2, <2>3, <2>4, <2>5, OthersSame DEF IInv
<1>7. CASE Connect(w) /\ UNCHANGED conns /\ worker' = [worker EXCEPT ![w] = "set"]
  <2>1. DialInv' /\ FreshStep
    BY <1>2, <1>7, UnlockStep
  <2>2. faults' = faults /\ worker'[w] = "set"
    BY <1>2, <1>7 DEF Connect, world, TypeOK
  <2>3. (\A v \in Workers : v # w => SameWorker(v)) /\ \A c : SameCaller(c)
    BY <1>1, <1>2, <1>7 DEF TypeOK, SameCaller, SameWorker
  <2>4. TypeOK'
    BY <1>1, <1>2, <1>7 DEF TypeOK, Orders, Pool
  <2>5. ConnsInv'
    BY <1>1, <1>2, <1>4, <1>7, <2>2, <2>3, ConnsByWorker
  <2>6. WorkerInv(w)'
    BY <1>1, <1>2, <1>5, <2>2 DEF WorkerInv, Setting
  <2> QED
    BY <1>1, <1>2, <2>1, <2>2, <2>3, <2>4, <2>5, <2>6, ByWorker
<1>8. CASE /\ DialFail(w) /\ Free(w, target[w], SetDest(w))
           /\ worker' = [worker EXCEPT ![w] = "set"]
  <2>1. DialInv' /\ FreshStep
    BY <1>2, <1>8, UnlockStep
  <2>2. faults' = faults /\ worker'[w] = "set"
    BY <1>2, <1>8 DEF DialFail, world, TypeOK
  <2>3. (\A v \in Workers : v # w => SameWorker(v)) /\ \A c : SameCaller(c)
    BY <1>1, <1>2, <1>8 DEF TypeOK, SameCaller, SameWorker
  <2>4. ConnTypes' /\ ConnsInv'
    BY <1>1, <1>2, <1>8, <2>2, <2>3, FreedByWorker DEF Setting
  <2>5. TypeOK'
    BY <1>1, <1>2, <1>8, <2>4 DEF TypeOK, Orders, Pool, ConnTypes
  <2>6. WorkerInv(w)'
    BY <1>1, <1>2, <1>5, <2>2 DEF WorkerInv, Setting
  <2> QED
    BY <1>1, <1>2, <2>1, <2>2, <2>3, <2>4, <2>5, <2>6, ByWorker
<1> QED
  BY <1>6, <1>7, <1>8 DEF SetDial

(* What a worker writes is there already: no key comes, none goes.         *)
LEMMA WrittenKeeps ==
  ASSUME IInv, NEW w \in Workers, worker[w] = "set", UNCHANGED rules,
         Written(w, SetDest(w)) \/ UNCHANGED store
  PROVE  SameBlocks /\ store' \in [Servers -> SUBSET Keys]
<1>1. TypeOK /\ chunk[w] \in Keys /\ Holding(chunk[w]) /\ SetDest(w) \in Servers
  BY SetDestIn DEF IInv, WorkerInv, Setting
<1>2. /\ store' \in [Servers -> SUBSET Keys]
      /\ \A s \in Servers : store[s] \subseteq store'[s] /\ store'[s] \subseteq store[s] \cup {chunk[w]}
  BY <1>1 DEF TypeOK, Written
<1>3. ASSUME NEW i \in Nat, NEW n \in Nat, NEW k, i \in 1 .. Len(Lookup), n \in Rules(Lookup[i])
      PROVE  /\ HasAt(i, n, k) => HasAt(i, n, k)'
             /\ HasAt(i, n, k)' => HasAt(i, n, k) \/ k = chunk[w]
  <2>1. Server(Lookup[i], n) \in Servers /\ Server(Lookup[i], n)' = Server(Lookup[i], n)
    BY <1>1, <1>3, LookupFacts, ServerIn DEF Server
  <2> QED
    BY <1>2, <2>1 DEF HasAt, Match
<1>4. ASSUME NEW i \in Nat, NEW n \in Nat, NEW k
      PROVE  /\ HasAt(i, n, k) => HasAt(i, n, k)'
             /\ HasAt(i, n, k)' => HasAt(i, n, k) \/ k = chunk[w]
  BY <1>3 DEF HasAt
<1>5. ASSUME NEW k \in Keys
      PROVE  Holding(k)' <=> \E i, n \in Nat : HasAt(i, n, k)'
  <2>1. DOMAIN Lookup = 1 .. Len(Lookup)
    BY RouterAssumption
  <2>2. \A i \in 1 .. Len(Lookup) : i \in Nat /\ \A n \in Rules(Lookup[i]) : n \in Nat
    BY LookupFacts, RulesNat
  <2> QED
    BY <2>1, <2>2 DEF Holding, HasAt
<1>6. ASSUME NEW k \in Keys
      PROVE  Holding(k)' <=> Holding(k)
  BY <1>1, <1>4, <1>5, HoldingAt
<1> QED
  BY <1>2, <1>4, <1>6 DEF SameBlocks

LEMMA SetStep ==
  ASSUME IInv, NEW w \in Workers, Set(w)
  PROVE  IInv' /\ FreshStep
<1>1. /\ worker[w] = "set" /\ Free(w, target[w], SetDest(w))
      /\ Written(w, SetDest(w)) \/ UNCHANGED store
      /\ worker' = [worker EXCEPT ![w] = "next"] /\ target' = [target EXCEPT ![w] = None]
      /\ UNCHANGED <<dialVars, rules, pc, at, rule, trial, broken, key, ret, chunk, left>>
      /\ faults' = faults
  BY DEF Set, scan, link, call, dialVars, world
<1>2. TypeOK /\ WorkerInv(w) /\ DialInv
  BY DEF IInv
<1>3. SameBlocks /\ store' \in [Servers -> SUBSET Keys] /\ DialInv' /\ FreshStep
  BY <1>1, <1>2, WrittenKeeps, SameDial
<1>4. (\A v \in Workers : v # w => SameWorker(v)) /\ \A c : SameCaller(c)
  BY <1>1, <1>2 DEF TypeOK, SameCaller, SameWorker
<1>5. ConnTypes' /\ ConnsInv'
  BY <1>1, <1>3, <1>4, FreedByWorker DEF Setting
<1>6. TypeOK'
  BY <1>1, <1>2, <1>3, <1>5 DEF TypeOK, Orders, Pool, ConnTypes
<1>7. WorkerInv(w)'
  <2>1. chunk[w] \in Keys /\ Holding(chunk[w])
    BY <1>1, <1>2 DEF WorkerInv
  <2> PICK k \in Keys : k = chunk[w]
    BY <2>1
  <2>2. worker'[w] = "next" /\ chunk'[w] = k /\ Holding(k)
    BY <1>1, <1>2, <2>1 DEF TypeOK
  <2>3. Holding(chunk[w])' <=> Holding(k)'
    BY <2>2 DEF Holding
  <2> QED
    BY <1>3, <2>2, <2>3 DEF SameBlocks, WorkerInv, Setting
<1> QED
  BY <1>1, <1>3, <1>4, <1>5, <1>6, <1>7, ByWorker

LEMMA CommittedStep ==
  ASSUME IInv, NEW w \in Workers, Committed(w)
  PROVE  IInv' /\ FreshStep
<1>1. /\ worker[w] = "next" /\ worker' = [worker EXCEPT ![w] = "recv"]
      /\ chunk' = [chunk EXCEPT ![w] = None]
      /\ UNCHANGED <<dialVars, rules, store, conns, pc, at, rule, trial, broken, key, ret>>
      /\ UNCHANGED <<left, target>> /\ faults' = faults
  BY DEF Committed, scan, link, call, dialVars, world
<1>2. TypeOK /\ WorkerInv(w) /\ DialInv
  BY DEF IInv
<1>3. SameBlocks /\ DialInv' /\ FreshStep
  BY <1>1, <1>2, StoreKept, SameDial
<1>4. (\A v \in Workers : v # w => SameWorker(v)) /\ \A c : SameCaller(c)
  BY <1>1, <1>2 DEF TypeOK, SameCaller, SameWorker
<1>5. TypeOK'
  BY <1>1, <1>2 DEF TypeOK, Orders, Pool
<1>6. ConnsInv'
  BY <1>1, <1>3, <1>4, ConnsByWorker
<1>7. WorkerInv(w)'
  BY <1>1, <1>2 DEF TypeOK, WorkerInv, Setting
<1> QED
  BY <1>1, <1>3, <1>4, <1>5, <1>6, <1>7, ByWorker

-----------------------------------------------------------------------------
LEMMA OutsideStep ==
  ASSUME IInv, (Tick \/ \E h \in Hosts : Move(h)) /\ UNCHANGED Other
  PROVE  IInv' /\ FreshStep
<1>1. /\ UNCHANGED <<rules, store, conns, pc, at, rule, trial, broken, key, ret>>
      /\ UNCHANGED <<worker, chunk, left, target>> /\ faults' = faults
  BY DEF Other, scan, link, call, commit, Tick, Move
<1>2. DialInv' /\ FreshStep
  BY TickStep, MoveStep DEF IInv
<1>3. SameBlocks /\ (\A c : SameCaller(c)) /\ \A w : SameWorker(w)
  BY <1>1, StoreKept DEF SameCaller, SameWorker
<1>4. ConnTypes /\ ConnsInv
  BY DEF IInv, TypeOK, ConnTypes
<1>5. TypeOK'
  BY <1>1 DEF IInv, TypeOK, Orders, Pool
<1>6. ConnsInv'
  BY <1>1, <1>3, <1>4, OthersSame, ConnsSame
<1> QED
  BY <1>1, <1>2, <1>3, <1>5, <1>6, OthersSame DEF IInv

LEMMA StutterStep ==
  ASSUME IInv, UNCHANGED vars
  PROVE  IInv' /\ FreshStep
<1>1. /\ UNCHANGED <<rules, store, conns, pc, at, rule, trial, broken, key, ret>>
      /\ UNCHANGED <<worker, chunk, left, target>> /\ faults' = faults /\ UNCHANGED dialVars
  BY DEF vars, scan, link, call, commit, dialVars, world
<1>2. DialInv' /\ FreshStep
  BY <1>1, SameDial DEF IInv
<1>3. SameBlocks /\ (\A c : SameCaller(c)) /\ \A w : SameWorker(w)
  BY <1>1, StoreKept DEF SameCaller, SameWorker
<1>4. ConnTypes /\ ConnsInv
  BY DEF IInv, TypeOK, ConnTypes
<1>5. TypeOK'
  BY <1>1 DEF IInv, TypeOK, Orders, Pool
<1>6. ConnsInv'
  BY <1>1, <1>3, <1>4, OthersSame, ConnsSame
<1> QED
  BY <1>1, <1>2, <1>3, <1>5, <1>6, OthersSame DEF IInv

LEMMA NextStep ==
  ASSUME IInv, [Next]_vars
  PROVE  IInv' /\ FreshStep
<1>1. ASSUME NEW c \in Callers,
             Scan(c) \/ Borrow(c) \/ Dial(c) \/ Answer(c) \/ FeedAny(c) \/ \E k \in Keys : Call(c, k)
      PROVE  IInv' /\ FreshStep
  BY <1>1, CallStep, NextRuleStep, PoolMissStep, ExhaustedStep, BorrowStep, DialStep,
     FoundStep, NotThereStep, TrialFailStep, FeedStep DEF Scan, Answer, FeedAny
<1>2. ASSUME NEW w \in Workers, SetBorrow(w) \/ SetDial(w) \/ Commit(w)
      PROVE  IInv' /\ FreshStep
  BY <1>2, SetRouteStep, SetBorrowStep, SetDialStep, SetStep, CommittedStep DEF Commit
<1> QED
  BY <1>1, <1>2, OutsideStep, StutterStep DEF Next

LEMMA InitIInv == Init => IInv
<1> SUFFICES ASSUME Init PROVE IInv
  OBVIOUS
<1>1. (CHOOSE x \in Addrs : TRUE) \in Addrs /\ (CHOOSE k \in Keys : TRUE) \in Keys
  BY DnsDialAssumption, RouterAssumption
<1>2. DialInv
  BY <1>1, DnsDialAssumption DEF Init, DialInit, DialInv, DialTypes, Aged, Still
<1>3. \A p \in Pools : rules[p] \in Orders(p)
  BY DEF Init
<1>4. TypeOK
  BY <1>1, <1>3, LookupFacts, RouterAssumption DEF Init, TypeOK
<1>5. ConnsInv
  BY FS_EmptySet, RouterAssumption DEF Init, ConnsInv
<1>6. \A c \in Callers : CallerInv(c)
  BY DEF Init, CallerInv, Asking
<1>7. \A w \in Workers : WorkerInv(w)
  BY DEF Init, WorkerInv, Setting
<1> QED
  BY <1>2, <1>4, <1>5, <1>6, <1>7 DEF IInv

(* Router.Get, ScanPool, dial and the commit workers keep the tables, the  *)
(* connections, the cached addresses and what each of them is about to do  *)
(* in step.                                                                *)
THEOREM Invariant == Spec => []IInv
BY InitIInv, NextStep, PTL DEF Spec

(* Every variable keeps its type; a caller never asks a rule that its pool *)
(* does not have, nor a pool behind the end of the lookup table.           *)
THEOREM TypeCorrect == Spec => []TypeOK
<1>1. IInv => TypeOK
  BY DEF IInv
<1> QED BY <1>1, Invariant, PTL

(* pool.go: connections are used by those who borrowed them, never more    *)
(* than MaxActive to a destination of a pool, through every error and      *)
(* retry of callers and commit workers.                                    *)
THEOREM ConnectionsAreHeld == Spec => []ConnsHeld
<1>1. IInv => ConnsHeld
  BY DEF IInv, ConnsInv, ConnsHeld, CallerUses, WorkerUses
<1> QED BY <1>1, Invariant, PTL

(* dial.go: an address that is dialled is the host's own, or was so less   *)
(* than dnsCacheTimeout ago.                                               *)
THEOREM AddressesAreFresh == Spec => FreshAddress
<1>1. IInv /\ [Next]_vars => FreshStep
  BY NextStep
<1> QED
  BY <1>1, Invariant, PTL DEF Spec, FreshAddress, FreshStep

-----------------------------------------------------------------------------
(* The pools are one store: a Call is an Ask, a return a Reply, and what   *)
(* happens in between and in the commit workers cannot be seen.            *)

Blocks == {k \in Keys : Holding(k)}
Busy == [c \in Callers |-> IF pc[c] = "idle" THEN "idle" ELSE "busy"]

LEMMA BlocksStay ==
  ASSUME IInv, [Next]_vars
  PROVE  Blocks' = Blocks /\ faults' = faults
<1>1. ASSUME NEW w \in Workers, Set(w)
      PROVE  SameBlocks /\ faults' = faults
  BY <1>1, WrittenKeeps DEF Set, dialVars, world
<1>2. ASSUME UNCHANGED vars PROVE UNCHANGED <<faults, rules, store>>
  BY <1>2 DEF vars, dialVars, world
<1>3. ASSUME NEW c \in Callers,
             Scan(c) \/ Borrow(c) \/ Dial(c) \/ Answer(c) \/ FeedAny(c) \/ \E k \in Keys : Call(c, k)
      PROVE  UNCHANGED <<faults, rules, store>>
  BY <1>3 DEF Scan, Answer, FeedAny, Call, NextRule, PoolMiss, Exhausted, Borrow, Dial, Found,
     NotThere, TrialFail, Feed, dialVars, world, DialLock, Resolve, Connect, DialFail
<1>4. ASSUME NEW w \in Workers, SetBorrow(w) \/ SetDial(w) \/ Commit(w), ~Set(w)
      PROVE  UNCHANGED <<faults, rules, store>>
  BY <1>4 DEF Commit, SetRoute, SetBorrow, SetDial, Committed, dialVars, world,
     DialLock, Resolve, Connect, DialFail
<1>5. ASSUME (Tick \/ \E h \in Hosts : Move(h)) /\ UNCHANGED Other
      PROVE  UNCHANGED <<faults, rules, store>>
  BY <1>5 DEF Tick, Move, Other
<1>6. SameBlocks /\ faults' = faults
  BY <1>1, <1>2, <1>3, <1>4, <1>5, StoreKept DEF Next
<1> QED
  BY <1>6 DEF SameBlocks, Blocks

LEMMA HiddenStep ==
  ASSUME IInv, Blocks' = Blocks, faults' = faults, UNCHANGED <<key, ret>>,
         \A c \in Callers : pc'[c] = "idle" <=> pc[c] = "idle"
  PROVE  UNCHANGED Store!vars
<1>1. Busy' = Busy
  BY DEF Busy
<1> QED
  BY <1>1 DEF Store!vars, Blocks, Busy

LEMMA ReplyStep ==
  ASSUME IInv, NEW c \in Callers, Blocks' = Blocks, faults' = faults,
         pc[c] # "idle", pc' = [pc EXCEPT ![c] = "idle"], UNCHANGED key,
         \/ Holding(key[c]) /\ ret' = [ret EXCEPT ![c] = "data"]
         \/ (~Holding(key[c]) \/ faults # {}) /\ ret' = [ret EXCEPT ![c] = "notRoutable"]
  PROVE  Store!Reply(c)
<1>1. key[c] \in Keys /\ pc \in [Callers -> {"idle", "scan", "borrow", "dial", "trial", "feed"}]
  BY DEF IInv, TypeOK
<1>2. Busy[c] = "busy" /\ Busy' = [Busy EXCEPT ![c] = "idle"]
  BY <1>1 DEF Busy
<1>3. key[c] \in Blocks <=> Holding(key[c])
  BY <1>1 DEF Blocks
<1> QED
  BY <1>2, <1>3 DEF Store!Reply, Blocks, Busy

LEMMA StoreStep ==
  ASSUME IInv, [Next]_vars
  PROVE  [Store!Next]_Store!vars
<1>1. Blocks' = Blocks /\ faults' = faults /\ TypeOK
  BY BlocksStay DEF IInv
<1>2. ASSUME NEW c \in Callers, NEW k \in Keys, Call(c, k)
      PROVE  Store!Ask(c, k)
  <2>1. Busy[c] = "idle" /\ Busy' = [Busy EXCEPT ![c] = "busy"]
    BY <1>1, <1>2 DEF Call, Busy, TypeOK
  <2> QED
    BY <1>1, <1>2, <2>1 DEF Call, Store!Ask, Blocks, Busy
<1>3. ASSUME NEW c \in Callers, Exhausted(c)
      PROVE  Store!Reply(c)
  <2>1. ~Holding(key[c]) \/ faults # {}
    <3>1. ~Ahead(c)
      BY <1>1, <1>3, LookupFacts DEF Exhausted, Ahead, HasAt, ToAsk, TypeOK
    <3> QED
      BY <1>3, <3>1 DEF Exhausted, IInv, CallerInv
  <2> QED
    BY <1>1, <1>3, <2>1, ReplyStep DEF Exhausted, Return
<1>4. ASSUME NEW c \in Callers, Found(c)
      PROVE  Store!Reply(c) \/ UNCHANGED Store!vars
  <2>1. Holding(key[c])
    BY <1>4, FoundHere DEF Found, Asking
  <2>2. CASE Cached(c)
    BY <1>1, <1>4, <2>1, <2>2, ReplyStep DEF Found, Return
  <2>3. CASE ~Cached(c)
    BY <1>1, <1>4, <2>3, HiddenStep DEF Found, call, TypeOK
  <2> QED
    BY <2>2, <2>3
<1>5. ASSUME NEW c \in Callers, NEW w \in Workers, Feed(c, w)
      PROVE  Store!Reply(c)
  <2>1. Holding(key[c])
    BY <1>5 DEF Feed, IInv, CallerInv
  <2> QED
    BY <1>1, <1>5, <2>1, ReplyStep DEF Feed, Return
<1>6. ASSUME NEW c \in Callers,
             NextRule(c) \/ PoolMiss(c) \/ Borrow(c) \/ Dial(c) \/ NotThere(c) \/ TrialFail(c)
      PROVE  UNCHANGED Store!vars
  <2>1. UNCHANGED <<key, ret>>
    BY <1>6 DEF NextRule, PoolMiss, Borrow, Dial, NotThere, TrialFail, call
  <2>2. \A d \in Callers : pc'[d] = "idle" <=> pc[d] = "idle"
    BY <1>1, <1>6 DEF NextRule, PoolMiss, Borrow, Dial, NotThere, TrialFail, TypeOK
  <2> QED
    BY <1>1, <2>1, <2>2, HiddenStep
<1>7. ASSUME UNCHANGED <<pc, key, ret>>
      PROVE  UNCHANGED Store!vars
  BY <1>1, <1>7, HiddenStep
<1>8. ASSUME NEW w \in Workers, SetBorrow(w) \/ SetDial(w) \/ Commit(w)
      PROVE  UNCHANGED <<pc, key, ret>>
  BY <1>8 DEF Commit, SetRoute, SetBorrow, SetDial, Set, Committed, call
<1>9. CASE (Tick \/ \E h \in Hosts : Move(h)) /\ UNCHANGED Other
  BY <1>7, <1>9 DEF Other, call
<1>10. CASE UNCHANGED vars
  BY <1>7, <1>10 DEF vars, call
<1> QED
  BY <1>2, <1>3, <1>4, <1>5, <1>6, <1>7, <1>8, <1>9, <1>10
     DEF Next, Scan, Answer, FeedAny, Store!Next

(* storage/router: together the pools are one store that reading does not  *)
(* change, and a Get that fails had nowhere to find its key unless         *)
(* something is wrong with the network: every pool and every destination   *)
(* that covers the key is asked, in whatever order the rules are and       *)
(* whatever the commit workers write meanwhile.                            *)
THEOREM StoreSafe == Spec => Store!Safety
<1>1. Init => Store!Init
  <2> SUFFICES ASSUME Init PROVE Store!Init
    OBVIOUS
  <2>1. TypeOK
    BY InitIInv DEF IInv
  <2>2. Busy = [c \in Callers |-> "idle"]
    BY DEF Init, Busy
  <2>3. Blocks \subseteq Keys
    BY DEF Blocks
  <2> QED
    BY <2>1, <2>2, <2>3 DEF Init, TypeOK, Store!Init, Blocks, Busy
<1>2. IInv /\ [Next]_vars => [Store!Next]_Store!vars
  BY StoreStep
<1> QED
  BY <1>1, <1>2, Invariant, PTL DEF Spec, Store!Safety
=============================================================================
