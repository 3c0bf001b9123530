------------------------------- MODULE Router -------------------------------
(***************************************************************************)
(* storage/router: Router.Get looks a block up in the pools of the lookup  *)
(* table, one after the other.  A ScanPool asks every destination whose    *)
(* range covers the key, over a bounded set of connections, new ones made  *)
(* by DnsDial.  A block found outside the cache pools is handed over the   *)
(* unbuffered channel feed to one of the commit workers, which writes it   *)
(* to every cache pool.                                                    *)
(***************************************************************************)
EXTENDS DnsDial, Sequences, FiniteSets

CONSTANTS
  Callers,      (* goroutines that call Get: the downloaders' workers      *)
  Active,       (* bound: the callers of a behaviour, by what goes wrong   *)
  Workers,      (* the commit workers, 100 in the code                     *)
  Keys,
  Pools,
  Lookup,       (* the lookup table, a sequence of pools                   *)
  CachePools,   (* the pools of the cache list                             *)
  Servers,      (* destinations                                            *)
  Covers,       (* the rules of each pool: server -> the keys it is for    *)
  Stored,       (* what the servers may hold at first                      *)
  HostOf,       (* the host name of each destination                       *)
  Retries,      (* blockGetRetries                                         *)
  MaxActive     (* connections a pool opens to a destination               *)

ASSUME RouterAssumption ==
  /\ Lookup \in Seq(Pools)           (* Config.Valid checks both lists     *)
  /\ CachePools \subseteq Pools
  /\ \A p \in Pools : /\ DOMAIN Covers[p] \subseteq Servers
                      /\ IsFiniteSet(DOMAIN Covers[p])
                      /\ \A s \in DOMAIN Covers[p] : Covers[p][s] \subseteq Keys
  /\ Retries \in Nat \ {0} /\ MaxActive \in Nat \ {0} /\ Keys # {}
  /\ Active \in [FaultSets -> SUBSET Callers]
  /\ HostOf \in [Servers -> Hosts] /\ Stored \subseteq [Servers -> SUBSET Keys]

VARIABLES
  rules,     (* the order in which each pool scans its rules               *)
  store,     (* the keys each server holds                                 *)
  conns,     (* who uses a connection of a pool to a server                *)
  pc, key,   (* where each caller is, and the key it asks for              *)
  at, rule,  (* its index in the lookup table and in the pool's rules      *)
  trial,     (* the trial it is at, over this connection                   *)
  broken,    (* whether its connection is broken                           *)
  ret,       (* what its last Get returned                                 *)
  worker,    (* where each commit worker is                                *)
  chunk,     (* the key each commit worker writes                          *)
  left,      (* the cache pools it has still to write to                   *)
  target     (* the pool it is at                                          *)

scan == <<at, rule>>
link == <<trial, broken>>
call == <<key, ret>>
commit == <<worker, chunk, left, target>>
vars ==
  <<dialVars, rules, store, conns, pc, scan, link, call, commit>>

Rules(p) == 1 .. Cardinality(DOMAIN Covers[p])
Server(p, n) == rules[p][n]
Match(p, n, k) == k \in Covers[p][Server(p, n)]

(* The table of a pool is a Go map: its order is any, once and for all.    *)
Orders(p) ==
  {f \in [Rules(p) -> DOMAIN Covers[p]] :
     \A m, n \in Rules(p) : f[m] = f[n] => m = n}

(* Route: the first rule that covers the key.                              *)
First(p, k, n) ==
  /\ n \in Rules(p) /\ Match(p, n, k)
  /\ \A m \in Rules(p) : m < n => ~Match(p, m, k)
Routable(p, k) == \E n \in Rules(p) : Match(p, n, k)

(* Some destination of the lookup table covers and holds the key.          *)
Holding(k) ==
  \E i \in DOMAIN Lookup : \E n \in Rules(Lookup[i]) :
    Match(Lookup[i], n, k) /\ k \in store[Server(Lookup[i], n)]

Init ==
  /\ DialInit
  /\ rules \in {r \in [Pools -> UNION {Orders(p) : p \in Pools}] :
                  \A p \in Pools : r[p] \in Orders(p)}
  /\ store \in Stored
  /\ conns = [p \in Pools |-> [s \in DOMAIN Covers[p] |-> {}]]
  /\ pc = [c \in Callers |-> "idle"]
  /\ key \in [Callers -> {CHOOSE k \in Keys : TRUE}]
  /\ at = [c \in Callers |-> 1] /\ rule = [c \in Callers |-> 0]
  /\ trial = [c \in Callers |-> 1]
  /\ broken = [c \in Callers |-> FALSE]
  /\ ret = [c \in Callers |-> "none"]
  /\ worker = [w \in Workers |-> "recv"]
  /\ chunk = [w \in Workers |-> None]
  /\ left = [w \in Workers |-> {}]
  /\ target = [w \in Workers |-> None]

-----------------------------------------------------------------------------
(* redis.Pool: connections to each destination of each pool.               *)

FreeConn(p, s) == Cardinality(conns[p][s]) < MaxActive

Acquire(a, p, s) == conns' = [conns EXCEPT ![p][s] = @ \cup {a}]

KeepConn(a, p, s) == UNCHANGED conns      (* slip: no deferred con.Close   *)

Free(a, p, s) == conns' = [conns EXCEPT ![p][s] = @ \ {a}]

(* ScanPool.get returns: its connection is closed.                         *)
Leave(c, p, s) ==
  /\ Free(c, p, s)
  /\ trial' = [trial EXCEPT ![c] = 1]
  /\ broken' = [broken EXCEPT ![c] = FALSE]

-----------------------------------------------------------------------------
(* Router.get and ScanPool.Get.                                            *)

Pool(c) == Lookup[at[c]]
Dest(c) == Server(Pool(c), rule[c])

Call(c, k) ==
  /\ pc[c] = "idle" /\ c \in Active[faults]
  /\ pc' = [pc EXCEPT ![c] = "scan"]
  /\ key' = [key EXCEPT ![c] = k]
  /\ ret' = [ret EXCEPT ![c] = "none"]
  /\ UNCHANGED <<dialVars, rules, store, conns, scan, link, commit>>

FirstOnly(c, n) ==                 (* slip: Get asks Route, not Routes     *)
  rule[c] = 0 /\ First(Pool(c), key[c], n)

(* The next destination of the pool that covers the key.                   *)
NextDest(c, n) ==
  /\ n \in Rules(Pool(c)) /\ n > rule[c] /\ Match(Pool(c), n, key[c])
  /\ \A m \in Rules(Pool(c)) :
       m > rule[c] /\ m < n => ~Match(Pool(c), m, key[c])

NextRule(c) ==
  /\ pc[c] = "scan" /\ at[c] <= Len(Lookup)
  /\ \E n \in Rules(Pool(c)) :
       NextDest(c, n) /\ rule' = [rule EXCEPT ![c] = n]
  /\ pc' = [pc EXCEPT ![c] = "borrow"]
  /\ UNCHANGED <<dialVars, rules, store, conns, at, link, call, commit>>

(* The pool has no destination for the key, or none of them gave it: the   *)
(* next pool, whatever the error is.                                       *)
PoolMiss(c) ==
  /\ pc[c] = "scan" /\ at[c] <= Len(Lookup)
  /\ ~\E n \in Rules(Pool(c)) : NextDest(c, n)
  /\ at' = [at EXCEPT ![c] = @ + 1]
  /\ rule' = [rule EXCEPT ![c] = 0]
  /\ UNCHANGED <<dialVars, rules, store, conns, pc, link, call, commit>>

Return(c, answer) ==
  /\ ret' = [ret EXCEPT ![c] = answer]
  /\ pc' = [pc EXCEPT ![c] = "idle"]
  /\ at' = [at EXCEPT ![c] = 1] /\ rule' = [rule EXCEPT ![c] = 0]
  /\ UNCHANGED key

Exhausted(c) ==
  /\ pc[c] = "scan" /\ at[c] > Len(Lookup)
  /\ Return(c, "notRoutable")
  /\ UNCHANGED <<dialVars, rules, store, conns, link, commit>>

(* pool.Get: one of at most MaxActive connections, an idle one or a new    *)
(* one.  Which it is is left open: idle ones are closed after a minute.    *)
Borrow(c) ==
  /\ pc[c] = "borrow"
  /\ FreeConn(Pool(c), Dest(c))
  /\ Acquire(c, Pool(c), Dest(c))
  /\ \E next \in {"dial", "trial"} : pc' = [pc EXCEPT ![c] = next]
  /\ UNCHANGED <<dialVars, rules, store, scan, link, call, commit>>

(* A connection that cannot be dialled is not counted: its place is free   *)
(* again, and every trial fails.                                           *)
Dial(c) ==
  /\ pc[c] = "dial"
  /\ \/ (DialLock(c, HostOf[Dest(c)]) \/ Resolve(c)) /\ UNCHANGED <<pc, broken, conns>>
     \/ /\ Connect(c) /\ UNCHANGED <<broken, conns>>
        /\ pc' = [pc EXCEPT ![c] = "trial"]
     \/ /\ DialFail(c) /\ Free(c, Pool(c), Dest(c))
        /\ pc' = [pc EXCEPT ![c] = "trial"]
        /\ broken' = [broken EXCEPT ![c] = TRUE]
  /\ UNCHANGED <<rules, store, scan, trial, call, commit>>

(* updateCache leaves a key alone that came from a cache pool.             *)
Cached(c) == Pool(c) \in CachePools

Found(c) ==
  /\ pc[c] = "trial" /\ ~broken[c]
  /\ key[c] \in store[Dest(c)]
  /\ Leave(c, Pool(c), Dest(c))
  /\ IF Cached(c) THEN Return(c, "data")
     ELSE pc' = [pc EXCEPT ![c] = "feed"] /\ UNCHANGED <<scan, call>>
  /\ UNCHANGED <<dialVars, rules, store, commit>>

NotThere(c) ==
  /\ pc[c] = "trial" /\ ~broken[c]
  /\ key[c] \notin store[Dest(c)]
  /\ Leave(c, Pool(c), Dest(c))
  /\ pc' = [pc EXCEPT ![c] = "scan"]
  /\ UNCHANGED <<dialVars, rules, store, scan, call, commit>>

OneMore(c) == trial[c] <= Retries  (* slip: off by one *)

MoreTrials(c) == trial[c] < Retries

(* Any other error: the same connection is tried again, and once broken it *)
(* stays broken.                                                           *)
TrialFail(c) ==
  /\ pc[c] = "trial" /\ (broken[c] \/ NetFaults)
  /\ IF MoreTrials(c)
     THEN /\ trial' = [trial EXCEPT ![c] = @ + 1]
          /\ \E b \in BOOLEAN : broken' = [broken EXCEPT ![c] = @ \/ b]
          /\ UNCHANGED <<conns, pc>>
     ELSE /\ Leave(c, Pool(c), Dest(c))
          /\ pc' = [pc EXCEPT ![c] = "scan"]
  /\ UNCHANGED <<dialVars, rules, store, scan, call, commit>>

-----------------------------------------------------------------------------
(* updateCache and the commit workers.                                     *)

ToOthers(p) ==             (* slip: the test for a cached block is negated  *)
  IF p \in CachePools THEN CachePools ELSE {}

Everywhere(p) == CachePools

Feed(c, w) ==
  /\ pc[c] = "feed" /\ worker[w] = "recv"
  /\ worker' = [worker EXCEPT ![w] = "next"]
  /\ chunk' = [chunk EXCEPT ![w] = key[c]]
  /\ left' = [left EXCEPT ![w] = Everywhere(Pool(c))]
  /\ Return(c, "data")
  /\ UNCHANGED <<dialVars, rules, store, conns, link, target>>

(* Set on the next cache pool, in the order of a Go map.                   *)
SetRoute(w, p) ==
  /\ worker[w] = "next" /\ p \in left[w]
  /\ left' = [left EXCEPT ![w] = @ \ {p}]
  /\ IF Routable(p, chunk[w])
     THEN /\ worker' = [worker EXCEPT ![w] = "borrow"]
          /\ target' = [target EXCEPT ![w] = p]
     ELSE UNCHANGED <<worker, target>>
  /\ UNCHANGED <<dialVars, rules, store, conns, pc, scan, link, call, chunk>>

(* The destination that Route gives.                                       *)
SetDest(w) ==
  Server(target[w], CHOOSE n \in Rules(target[w]) : First(target[w], chunk[w], n))

SetBorrow(w) ==
  /\ worker[w] = "borrow"
  /\ FreeConn(target[w], SetDest(w))
  /\ Acquire(w, target[w], SetDest(w))
  /\ \E next \in {"dial", "set"} : worker' = [worker EXCEPT ![w] = next]
  /\ UNCHANGED <<dialVars, rules, store, pc, scan, link, call, chunk, left, target>>

SetDial(w) ==
  /\ worker[w] = "dial"
  /\ \/ (DialLock(w, HostOf[SetDest(w)]) \/ Resolve(w)) /\ UNCHANGED <<worker, conns>>
     \/ /\ Connect(w) /\ UNCHANGED conns
        /\ worker' = [worker EXCEPT ![w] = "set"]
     \/ /\ DialFail(w) /\ Free(w, target[w], SetDest(w))
        /\ worker' = [worker EXCEPT ![w] = "set"]
  /\ UNCHANGED <<rules, store, pc, scan, link, call, chunk, left, target>>

Written(w, s) == store' = [store EXCEPT ![s] = @ \cup {chunk[w]}]

(* The SET, over the connection if there is one; its error is only logged. *)
Set(w) ==
  LET linked == w \in conns[target[w]][SetDest(w)] IN
  /\ worker[w] = "set"
  /\ Free(w, target[w], SetDest(w))
  /\ \/ linked /\ Written(w, SetDest(w))
     \/ (NetFaults \/ ~linked) /\ UNCHANGED store
  /\ worker' = [worker EXCEPT ![w] = "next"]
  /\ target' = [target EXCEPT ![w] = None]
  /\ UNCHANGED <<dialVars, rules, pc, scan, link, call, chunk, left>>

Committed(w) ==
  /\ worker[w] = "next" /\ left[w] = {}
  /\ worker' = [worker EXCEPT ![w] = "recv"]
  /\ chunk' = [chunk EXCEPT ![w] = None]
  /\ UNCHANGED <<dialVars, rules, store, conns, pc, scan, link, call, left, target>>

-----------------------------------------------------------------------------
Answer(c) == Found(c) \/ NotThere(c) \/ TrialFail(c)
Scan(c) == NextRule(c) \/ PoolMiss(c) \/ Exhausted(c)
FeedAny(c) == \E w \in Workers : Feed(c, w)
Commit(w) == Set(w) \/ Committed(w) \/ \E p \in CachePools : SetRoute(w, p)

Other == <<rules, store, conns, pc, scan, link, call, commit>>

Next ==
  \/ \E c \in Callers :
       Scan(c) \/ Borrow(c) \/ Dial(c) \/ Answer(c) \/ FeedAny(c)
       \/ \E k \in Keys : Call(c, k)
  \/ \E w \in Workers : SetBorrow(w) \/ SetDial(w) \/ Commit(w)
  \/ (Tick \/ \E h \in Hosts : Move(h)) /\ UNCHANGED Other

(* Servers answer every request or break its connection, and what is       *)
(* dialled answers or times out.  Those who wait for a connection, for the *)
(* lock of dial or for a commit worker are served in turn: redis.Pool, Go  *)
(* mutexes and channels keep their waiters in queues.                      *)
Fairness ==
  /\ \A c \in Callers :
       WF_vars(Scan(c) \/ Answer(c))
       /\ SF_vars(Borrow(c) \/ Dial(c) \/ FeedAny(c))
  /\ \A w \in Workers : WF_vars(Commit(w)) /\ SF_vars(SetBorrow(w) \/ SetDial(w))

Spec == Init /\ [][Next]_vars /\ Fairness

-----------------------------------------------------------------------------
(* Properties.                                                             *)

TypeOK ==
  /\ \A p \in Pools : rules[p] \in Orders(p)
  /\ store \in [Servers -> SUBSET Keys]
  /\ \A p \in Pools :
       conns[p] \in [DOMAIN Covers[p] -> SUBSET (Callers \cup Workers)]
  /\ pc \in [Callers -> {"idle", "scan", "borrow", "dial", "trial", "feed"}]
  /\ key \in [Callers -> Keys]
  /\ at \in [Callers -> 1 .. Len(Lookup) + 1]
  /\ rule \in [Callers -> Nat]
  /\ \A c \in Callers :
       pc[c] \in {"borrow", "dial", "trial"} =>
         at[c] <= Len(Lookup) /\ rule[c] \in Rules(Pool(c))
  /\ trial \in [Callers -> 1 .. Retries]
  /\ broken \in [Callers -> BOOLEAN]
  /\ ret \in [Callers -> {"none", "data", "notRoutable"}]
  /\ worker \in [Workers -> {"recv", "next", "borrow", "dial", "set"}]
  /\ chunk \in [Workers -> Keys \cup {None}]
  /\ left \in [Workers -> SUBSET CachePools]
  /\ target \in [Workers -> Pools \cup {None}]

(* Connections are used by those who borrowed them and by nobody else, and *)
(* never more than MaxActive of them, through every error and retry.       *)
ConnsHeld ==
  \A p \in Pools : \A s \in DOMAIN Covers[p] :
    /\ Cardinality(conns[p][s]) <= MaxActive
    /\ \A a \in conns[p][s] :
         \/ a \in Callers /\ pc[a] \in {"dial", "trial"} /\ Pool(a) = p /\ Dest(a) = s
         \/ a \in Workers /\ worker[a] \in {"dial", "set"} /\ target[a] = p

(* Together the pools are one store that reading does not change: as long  *)
(* as servers answer, a Get that fails had nowhere to find its key, for    *)
(* every pool and every destination that covers it is asked, in whatever   *)
(* order the rules are.  Every Get returns: nobody waits for a connection, *)
(* for the lock of dial or for a commit worker that waits for him.         *)
Store == INSTANCE BlockStore WITH
  blocks <- {k \in Keys : Holding(k)},
  faulty <- faults # {},
  state <- [c \in Callers |-> IF pc[c] = "idle" THEN "idle" ELSE "busy"]

ImplementsStore == Store!Spec

InCache(p, k) ==
  \A n \in Rules(p) : First(p, k, n) => k \in store[Server(p, n)]

(* docs/flists/router.md, Cache: a block found outside the cache ends up   *)
(* in every cache pool, at the destination Set routes it to, if servers    *)
(* answer.                                                                 *)
CachesFilled ==
  \A c \in Callers, k \in Keys :
    faults = {} /\ pc[c] = "feed" /\ key[c] = k ~> \A p \in CachePools : InCache(p, k)
=============================================================================
