----------------------------- MODULE RouterSetup ------------------------------
(***************************************************************************)
(* cmd/stores.go, storage/storage.go, storage/router/config.go and         *)
(* Router.Merge: how the router of a mount is made, before Router runs it. *)
(* Every flist may bring a router.yaml; the router of -storage-url is a    *)
(* fallback; the local router.yaml of -local-router comes first.           *)
(*                                                                         *)
(* A pool is known by the source of its configuration, which is the number *)
(* of a flist, LocalSource or UrlSource, and its name there.               *)
(* A name "1.0.hub" is the sequence <<1, 0, "hub">>.  Pools have one rule: *)
(* In of HashRange is asked for each rule alone, and Router has the rest.  *)
(***************************************************************************)
EXTENDS HashRange

CONSTANTS
  MaxFlists,         (* bound on the flists of the command line            *)
  Configs,           (* what the router.yaml of a flist may say            *)
  LocalConfigs,      (* what the local one may say                         *)
  Missing, Broken,   (* a router.yaml that is not there, not readable      *)
  Simple,            (* the pool of the fallback router                    *)
  NoRouter

ASSUME RouterSetupAssumption ==
  /\ MaxFlists \in Nat \ {0}
  /\ {Missing, Broken} \cap (Configs \cup LocalConfigs) = {}
  /\ \A c \in Configs \cup LocalConfigs :
       /\ DOMAIN c = {"pools", "lookup", "cache", "destsOk"}
       /\ \A p \in DOMAIN c.pools : c.pools[p] \in Texts
       /\ c.lookup \in Seq(ToSet(c.lookup))
       /\ c.destsOk \in BOOLEAN

VARIABLES
  yaml,              (* the router.yaml for every -meta                    *)
  url,               (* the storage-url: "none", "good" or "bad"           *)
  local,             (* the file of -local-router, Missing without the flag *)
  pc,
  next,              (* the flist to look at next                          *)
  routers,           (* the routers found so far                           *)
  data               (* the router that the mount gets                     *)

input == <<yaml, url, local>>
vars == <<input, pc, next, routers, data>>

-----------------------------------------------------------------------------
(* One configuration.                                                      *)

Names(c) == DOMAIN c.pools

RulesOk(c) ==                    (* ranges and destinations parse          *)
  c.destsOk /\ \A p \in Names(c) : NewRange(c.pools[p]).kind # "invalid"

LookupOnly(c) ==                 (* slip: the cache list is not checked    *)
  /\ c.lookup # <<>> /\ ToSet(c.lookup) \subseteq Names(c) /\ RulesOk(c)

Valid(c) ==
  /\ c.lookup # <<>>
  /\ ToSet(c.lookup) \subseteq Names(c)
  /\ c.cache \subseteq Names(c)
  /\ RulesOk(c)

RouterOf(source, c) ==
  [pools  |-> [n \in {<<p>> : p \in Names(c)} |->
                 [source |-> source, name |-> n[1],
                  range |-> NewRange(c.pools[n[1]])]],
   lookup |-> [i \in DOMAIN c.lookup |-> <<c.lookup[i]>>],
   cache  |-> {<<p>> : p \in c.cache}]

LocalSource == 0
UrlSource   == MaxFlists + 1

Everything == [start |-> <<0, 0>>, end |-> <<Base - 1, Base - 1>>]  (* 00:FF *)

SimpleConfig ==
  [pools |-> [p \in {Simple} |-> Everything], lookup |-> <<Simple>>, cache |-> {}]

ASSUME SimpleAssumption == SimpleConfig # Missing

Fallback == RouterOf(UrlSource, SimpleConfig)

-----------------------------------------------------------------------------
(* Merge: the maps of all routers, under names with the router's number;   *)
(* of two pools with one name the later would win.                         *)

Prefixed(i, n) == <<i - 1>> \o n

Merge(rs) ==
  LET named == UNION {{<<Prefixed(i, n), i, n>> : n \in DOMAIN rs[i].pools} :
                        i \in DOMAIN rs}
      Owner(name) == CHOOSE x \in named :
        x[1] = name /\ \A y \in named : y[1] = name => y[2] <= x[2]
  IN  [pools  |-> [name \in {x[1] : x \in named} |->
                     rs[Owner(name)[2]].pools[Owner(name)[3]]],
       lookup |-> FlattenSeq(
                    [i \in DOMAIN rs |->
                       [j \in DOMAIN rs[i].lookup |->
                          Prefixed(i, rs[i].lookup[j])]]),
       cache  |-> UNION {{Prefixed(i, n) : n \in rs[i].cache} : i \in DOMAIN rs}]

-----------------------------------------------------------------------------
(* getStoresFromCmd, after the meta stores are open.                       *)

(* There is a router.yaml to look for with every -meta; an empty one names *)
(* no flist, and the file looked for is that of the working directory.     *)
Init ==
  /\ yaml \in BoundedSeq(Configs \cup {Missing, Broken}, MaxFlists) \ {<<>>}
  /\ url \in {"none", "good", "bad"}
  /\ local \in LocalConfigs \cup {Missing, Broken}
  /\ pc = "url" /\ next = 1
  /\ routers = <<>> /\ data = NoRouter

Fail ==
  /\ pc' = "failed"
  /\ UNCHANGED <<input, next, routers, data>>

UrlFail == pc = "url" /\ url = "bad" /\ Fail

UrlOk ==
  /\ pc = "url" /\ url # "bad"
  /\ pc' = "flists"
  /\ UNCHANGED <<input, next, routers, data>>

SkipMissing ==
  /\ pc = "flists" /\ next <= Len(yaml) /\ yaml[next] = Missing
  /\ next' = next + 1
  /\ UNCHANGED <<input, pc, routers, data>>

LoadFail ==
  /\ pc = "flists" /\ next <= Len(yaml) /\ yaml[next] # Missing
  /\ yaml[next] \in Configs => ~Valid(yaml[next])
  /\ Fail

Load ==
  /\ pc = "flists" /\ next <= Len(yaml) /\ yaml[next] \in Configs
  /\ Valid(yaml[next])
  /\ routers' = Append(routers, RouterOf(next, yaml[next]))
  /\ next' = next + 1
  /\ UNCHANGED <<input, pc, data>>

FallbackFirst ==                 (* slip: the fallback before the flists   *)
  /\ pc = "flists" /\ next > Len(yaml)
  /\ routers' = IF url = "good" THEN <<Fallback>> \o routers ELSE routers
  /\ pc' = "merge"
  /\ UNCHANGED <<input, next, data>>

(* The fallback joins the others, however many there are.                  *)
AddFallback ==
  /\ pc = "flists" /\ next > Len(yaml)
  /\ routers' = IF url = "good" THEN Append(routers, Fallback) ELSE routers
  /\ pc' = "merge"
  /\ UNCHANGED <<input, next, data>>

MergeAll ==
  /\ pc = "merge" /\ routers # <<>>
  /\ data' = Merge(routers)
  /\ pc' = "local"
  /\ UNCHANGED <<input, next, routers>>

(* Merge panics without routers.                                           *)
Panic ==
  /\ pc = "merge" /\ routers = <<>>
  /\ pc' = "panic"
  /\ UNCHANGED <<input, next, routers, data>>

NoLocal ==
  /\ pc = "local" /\ local = Missing
  /\ pc' = "done"
  /\ UNCHANGED <<input, next, routers, data>>

LocalFail ==
  /\ pc = "local" /\ local # Missing
  /\ local \in LocalConfigs => ~Valid(local)
  /\ Fail

AddLocal ==
  /\ pc = "local" /\ local \in LocalConfigs /\ Valid(local)
  /\ data' = Merge(<<RouterOf(LocalSource, local), data>>)
  /\ pc' = "done"
  /\ UNCHANGED <<input, next, routers>>

Next ==
  \/ UrlFail \/ UrlOk
  \/ SkipMissing \/ LoadFail \/ Load \/ AddFallback \/ MergeAll \/ Panic
  \/ NoLocal \/ LocalFail \/ AddLocal

Spec == Init /\ [][Next]_vars

-----------------------------------------------------------------------------
(* Properties.                                                             *)

(* No lookup of a mounted filesystem ends in ErrPoolNotFound, and no       *)
(* commit worker meets a nil pool: every name of the merged tables has its *)
(* pool, through two levels of merging.                                    *)
NamesResolve ==
  pc = "done" =>
    ToSet(data.lookup) \cup data.cache \subseteq DOMAIN data.pools

PoolsOf(source, c) == [i \in DOMAIN c.lookup |-> <<source, c.lookup[i]>>]
Origin(pool) == <<pool.source, pool.name>>

(* The configuration that is used from each source, if there is one.       *)
Sources == 0 .. UrlSource
ConfigOf ==
  [s \in Sources |->
     IF s = LocalSource THEN local
     ELSE IF s = UrlSource THEN IF url = "good" THEN SimpleConfig ELSE Missing
     ELSE IF s \in DOMAIN yaml THEN yaml[s] ELSE Missing]
Used == {s \in Sources : ConfigOf[s] # Missing}

(* Where blocks are looked for: every pool by its origin, in order.        *)
Asked == [i \in DOMAIN data.lookup |-> Origin(data.pools[data.lookup[i]])]

(* The pools of the sources before s, which are the local router and the   *)
(* flists in the order of the command line.                                *)
PoolsBefore(s) ==
  FlattenSeq([i \in 1 .. s |->
    IF i - 1 \in Used THEN PoolsOf(i - 1, ConfigOf[i - 1]) ELSE <<>>])

NoneBrings == \A i \in DOMAIN yaml : yaml[i] = Missing  (* no router.yaml *)

(* The pools of the storage-url may follow when there is one, and have to  *)
(* when no flist brings a router.                                          *)
FallbackTails ==
  (IF url = "good" THEN {PoolsOf(UrlSource, SimpleConfig)} ELSE {}) \cup
  (IF url = "good" /\ NoneBrings THEN {} ELSE {<<>>})

(* Blocks are looked for in the local pools, then in those of the flists   *)
(* in the order of the command line; a pool is not replaced by another one *)
(* of the same name.  The storage-url is there when no flist brings a      *)
(* router, and never before a router of a flist.  Blocks are written to    *)
(* the pools that some configuration calls its caches and to no others.    *)
(* (AddFallback adds it also when flists have their own, which             *)
(* docs/flists/router.md does not: that is left open here.)                *)
TablesMerged ==
  pc = "done" =>
    /\ \E tail \in FallbackTails : Asked = PoolsBefore(UrlSource) \o tail
    /\ {Origin(data.pools[n]) : n \in data.cache} =
         UNION {{<<s, p>> : p \in ConfigOf[s].cache} : s \in Used}

(* The range of a pool, as its configuration has it.                       *)
Text(pool) == ConfigOf[pool.source].pools[pool.name]

Matches(pool) == {h \in Hashes : In(pool.range, h)}
Documented(pool) == {h \in Hashes : Meant(Text(pool), h)}
DataPools == {data.pools[n] : n \in DOMAIN data.pools}

(* A pool is asked for exactly the keys that docs/flists/router.md says.   *)
MatchesDigits ==
  pc = "done" => \A p \in DataPools : Matches(p) = Documented(p)

(* It is, when start and end are whole bytes.  The padding of an odd       *)
(* number of digits can lose keys and never adds one: no block is looked   *)
(* for, or written, where no rule sends it.                                *)
NeverTooWide ==
  pc = "done" =>
    \A p \in DataPools :
      /\ SameLength(Text(p)) => Matches(p) \subseteq Documented(p)
      /\ WholeBytes(Text(p)) => Matches(p) = Documented(p)
=============================================================================
