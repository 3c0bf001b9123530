# 0-fs in TLA+

Models of 0-fs (`g8ufs`), a FUSE filesystem whose metadata comes from flists
and whose file contents are fetched in blocks from remote stores when a file is
opened.  The modules are kept beside the code: each definition stands for the
lines that `PROJECT.json` names for it, TLC checks the modules on small
instances, and TLAPS proves the theorems of the modules called `...Proofs` for every
value of the constants.

- [The system](#the-system)
- [Modules](#modules)
- [Runs, bounds and what they show](#runs-bounds-and-what-they-show)
- [Fairness](#fairness)
- [Proofs](#proofs)
- [Where code and documentation differ](#where-code-and-documentation-differ)
- [What is not modelled](#what-is-not-modelled)
- [Plan](#plan)

## The system

Calls go downwards: FUSE goroutines call `rofs`, which asks the meta store for
a name and the cache for a file; the cache calls the downloader, its workers
call the router, the router calls the redis servers.  Beside them run the
signal loop, which replaces the meta store, and the goroutines that watch the
mount.

| Component | State | Operations | Hard because | Correct when |
|---|---|---|---|---|
| Block downloader, `rofs/downloader.go` | two unbuffered channels, an errgroup with its context, the output file | `Download` | feeder, workers, waiter and caller interleave; the first error cancels the rest; write errors return early | "ok" means a complete file; the block's own error is reported; nothing hangs, nobody stays |
| File cache, `rofs/cache.go` | files in a directory shared by instances, flocks on inodes | `check`, `ensure`, `CheckAndGet` | threads of several processes; lock on the inode, removal by name; a size is the only sign of a complete file; crashes | one download at a time; handles are whole; readers are not disturbed; calls return |
| Filesystem operations, `rofs/rofs.go` | the meta store in use | `GetAttr`, `Open`, `OpenDir`, `Readlink` | `Open` looks at the store twice, around a download; the store is replaced without a lock | answers come from a store of that time; an opened file has its content and its attributes |
| Signal loop and reload, `cmd/mount.go` | signal channel of two, `.layered` | the loop, `reload` | signals that come during a reload; steps that fail | the last announced layers win; the process ends when unmounted |
| Mount, `g8ufs.go`, `cmd/mount.go` | kernel mounts, `fs.layers`, inotify watch | `Mount`, `watch`, `Wait`, `Unmount`, the parent of `-daemon` | steps that fail half way; unmounts from outside; two calls of `Unmount` | nothing of ours is left; nothing of others is taken; an unmount ends the process |
| Router, `storage/router/{router,pool,errors}.go` | connections of each pool, the feed channel | `Router.Get`, `ScanPool.Get`, `Set`, `updateCache`, workers | competition for connections and workers; retries on broken connections; rule order from a Go map | what is there is found; caches are filled; connections come back; calls return |
| Hash ranges, `storage/router/range.go` | none | `HexToBytes`, `NewRange`, `In` | odd digits, boundaries | a range matches the keys the documentation says |
| Router set-up, `cmd/stores.go`, `storage/storage.go`, `storage/router/{config,rule}.go` | the configurations read so far | `Valid`, `Config.Router`, `Merge`, `getDataStore`, `layerLocalStore` | equal pool names; merging twice; missing and broken files | every name has its own pool; the local pools come first, then those of the flists in order |
| Layered meta stores, `meta/layer.go` | none (built once) | `Layered`, `Get`, `Children` | files that hide directories; layering what is layered | listing and lookup agree; the last flist wins |
| Flists and their databases, `cmd/stores.go`, `meta/unpack.go`, `cmd/main.go` | the list of `-meta`, the extracted databases | `getMetaStore`, `getDB`, `Unpack`, `start`, `reload` | a list that is changed in place; extraction over a database in use; failures half way; restarts | a reload leaves the mounted databases alone |
| Meta store of one flist, `meta/store.go` and the inodes | SQLite database, two LRU caches, children computed once, users | `Get`, `Children`, `Walk` | two threads read one directory; a directory is evicted under a lookup; errors that are taken for absence; a nil `*Dir` in an interface | lookups agree with the tree, also after errors |
| Dialling, `storage/router/dial.go` | addresses with their time, one lock | `dial` | the lock is held while resolving and connecting, by one who has a place in a pool | no address is used that is out of date; who waits for the lock gets it |
| Schema, `cap.np` | none | generated | – | – |

`PROJECT.json` lists under `hazards` what can go wrong in each of these at
which line, and the property that would show it.

## Modules

**BlockDownload** is what `Download` promises its caller: the file takes the
bytes of block *i* only in slot *i*, "ok" is answered over a complete file only,
and it answers.

**Downloader** is `Download` itself: feeder, workers, the waiter that closes
`results` and the caller's loop, one action per step between two points where
goroutines can interleave.  A rendezvous on an unbuffered channel is one action
of both sides (`Feed`, `Write`'s receive in `Send`); a `select` is several enabled
actions.  Bytes of a block are the block's number, anything else is `Garbage`:
decryption, decompression and the hash check together say whether a worker has
the block's own bytes (`Verified`).  `Contract` maps it onto `BlockDownload`.

Which kinds of fault a behaviour may meet is chosen once at its start from
`FaultSets` and kept in `faults`, here as in `FileCache`: one run covers the
behaviours in which nothing fails and those in which much does, and a property
that holds only without some fault says so.

**FileCache** is one path of the cache directory: the name, the inodes behind
it, their blocks and their flock.  Threads belong to instances (processes).  Each
system call of `check` and `CheckAndGet` is an action, in the order of the code,
deferred calls included.  A download writes blocks in any order, as `Downloader`
delivers them; `FullSize` is the hit test, `Whole` what it is taken for.  **CacheContract**
is what callers see of it: each call returns, with a file of the right size that stays as it
is, or with an error that something caused; `Contract` maps `FileCache` onto it.

**Reload** is the signal loop of `mount` with the channel of `os/signal`, and
`reload` in four steps (read, build, assign, back to the loop).  A meta store is
known by the edit of `.layered` it was made from; `bad` says whether a reload may fail,
because `.layered` cannot be read or a flist it names cannot be built.  **Rofs** extends it with the
threads of the FUSE server: its `Next` is a step of `Reload` or of one thread.
While `SetMetaStore` assigns the two words of the interface (`main = "set"`), each
word a thread reads may be the old or the new one; words of different types are
`Torn`, after which nothing is defined and no operation goes on.  The cache appears through
its contract: a whole file or an error.

**Mount** is `Mount` with its deferred `Unmount`, `watch`, `Wait`, the loop's end and
the parent of `-daemon`, over the kernel's stack of mounts on two directories.
Every step that the operating system can refuse may fail: also the read of the watch,
which ends `watch` as an unmount does (`ReadFail`), and a look of the parent, which then
returns and leaves its child running (`ParentError`).  `told` remembers that there was an
umount from outside or a SIGTERM.

**MetaStore** is the store of one flist under concurrent lookups: the cached
directory or its row, then the parent of a path that is no directory, then down
again through the children, which each `Dir` computes once.  One action is what
a thread does between two accesses to something shared: a miss and the `Add` after
it are apart (`Miss`, `GetDir`), so two threads may read the same directory.  A
`Dir` is not its path: one that was evicted or replaced lives on with the threads
that have it, its children with it, and `obj` keeps them apart by the chain through
which they are reached.  The database may fail at every query; a `Dir` that could
not be read is `Nil` among the children and panics when it is asked for its name.
**Flist** under it is the tree itself, with `Walk` as a recursive function and
beside it, without recursion, what a walk should visit (`WalkRight`).

**BlockStore** is what the router promises a downloader: a `Get` answers, with the
block if some server has it, and with an error only if none has it or something is
wrong with the network.

**DnsDial** is `dial`: the cached address and its age, the lock over all hosts from
the lookup to the end of the connection, hosts that move.  **Router** extends it.
It is `Router.Get` over the pools of the lookup table: choosing the next
rule that covers the key, taking a place in the pool of connections, dialling (or
finding an idle connection), up to `Retries` trials over it,
the next destination, the next pool; then `updateCache`'s rendezvous with a
commit worker, which routes, dials and sets the block in every cache pool.  The order of
a pool's rules is any, fixed at the start, since it comes from a Go map.  `Store` maps
it onto `BlockStore`: the blocks are the keys that some destination of the lookup
table covers and holds, so that filling the caches must be invisible.

**RouterSetup** makes the tables that `Router` is run with: `router.yaml` files of
the flists one by one, the fallback, `Merge`, the local router.  An empty `-meta` names no
flist, but a `router.yaml` is looked for all the same, in the working directory: it is an entry of
`yaml` like the others.  Names such as
`1.0.hub` are sequences; `Merge` lets the later of two equal names win as a Go map
does, so that the uniqueness of names is a result and not an assumption.

**HashRange** converts the digits of a range into bytes and compares them with a
key (`NewRange`, `In`), and has beside it what the documentation says of the digits
(`Meant`).  `RouterSetup` reads the ranges of its configurations with it.

**Layers** has stores as functions from paths to nodes and `Layered` as an operator
on sequences of them.  **Stores** extends it with the life of a process: it reads its
flists, is sent reloads that layer `.layered` over them, fails at any flist or at the
data store, and is started again.  An archive is extracted over whatever is in
its directory; `torn` has the databases whose last extraction failed.  The entries of
the caller's list that `getMetaStore` has replaced by directories are in `dirs`.

The MC modules give the constants that a `.cfg` cannot write down.  Operators
marked *slip* are plausible mistakes in the definition that follows them;
`PROJECT.json` pairs each with the property that notices it.  No specification
uses them.

## Runs, bounds and what they show

| Run | Instance | Shows |
|---|---|---|
| `download` | ≤ 3 blocks, ≤ 3 workers; nothing fails, the storage fails or lies, writes fail too | `TypeOK`, `OkMeansComplete`, `RootCause`, `NoGoroutineLeft`, `NoSpuriousError`, `OwnBytesOnly`, `ImplementsContract` |
| `cache` | 3 threads of 2 instances, 2 blocks; nothing fails, downloads fail, everything fails | `TypeOK`, `Exclusive`, `FetchedWhole`, `SharedHandleWhole`, `NothingBadLeft`, `ReadersUndisturbed`, no deadlock |
| `cache_returns` | 2 threads of 2 instances, 2 blocks; nothing fails, downloads fail, everything fails | `ImplementsCache`, no deadlock |
| `cache_failed` | 2 threads, failing downloads | a counterexample of `HandleWhole` |
| `router` | 2 callers when nothing fails, 1 with broken connections, with time, or with both; 1 worker, 1 connection to each of 3 servers of a host, 2 cache pools, overlapping rules, 1 key | `TypeOK`, `ConnsHeld`, `ImplementsStore`, `CachesFilled`, `FreshAddress`, no deadlock |
| `setup` | ≤ 2 flists, missing and broken files, ranges of ≤ 4 digits of base 2, keys of 2 bytes | `NamesResolve`, `TablesMerged`, `NeverTooWide` |
| `setup_prefix` | the same with ≤ 3 digits | a counterexample of `MatchesDigits` |
| `rofs` | 1 FUSE thread, the signal loop, 2 edits, channel of 2, every failure | `TypeOK`, `AnswersOfItsTime`, `AgreesWithoutReload`, `LatestLayers`, `UnmountEnds` |
| `stores` | ≤ 3 of 4 flists, 2 of them archives, ≤ 2 lines of `.layered`, every failure, restarts | `ListingsAgree`, `LastOnTop`, `MountedKept`, no deadlock |
| `meta` | 2 threads, a flist of 6 paths, caches of 1 entry; the database answers, or may fail | `TypeOK`, `NothingElse`, `FailuresForgotten`, `OneOwner`, `WalkVisits` |
| `mount` | every fault, with and without a parent, 5 looks | `TypeOK`, `NothingLeft`, `OthersKept`, `ParentTells`, `WatchedUnmountEnds` |
| `mount_blind` | the same | a counterexample of `WaitEnds` |

Why these bounds are enough to meet the cases:

- Three blocks and three workers let one worker fail, one be cancelled in a send
  and one in a receive; with two workers for three blocks a worker must come back.
  `NumWorkers` never exceeds the blocks, so more workers change nothing.
- Two threads are needed to take turns with a lock, a third to come after a
  removed name; an inode more than there are threads lets a name be created again
  while old descriptors are open.  Two blocks are what a hole before the last block
  needs.  Symmetry is used in safety runs only.
- One connection and one commit worker for two callers make everybody wait; two
  rules for one key in a pool make the order of rules matter; the local pool is looked up
  and is a cache, so that a worker competes with the callers for the connection to its server.
  The three servers are ports of one host, so that all wait for the lock and share the cached
  address.  With `"time"` the host moves once (`MaxMoves`).  Entries live for two ticks
  (`DnsTimeout`), so that an entry is used when it is one tick old, and would be there after its time
  if the use renewed it.  `Active` leaves one caller there, beside the worker; `Stored` has the key in
  the first or in the second of the remote servers, or nowhere.
- A digit is below 2 and not 16: a comparison of bytes cares about smaller, equal
  and larger, and ranges of one and two bytes have a first byte that decides and
  one that does not.  Ranges of every text are read in the local router; those of
  the flists have the texts that matter to the merging.
- The signal channel has the two places of the code.  Two edits are enough to lose
  one (the second comes while the first is read); one FUSE thread is enough,
  as threads share nothing with each other but what the reload replaces.
- Three layers are what it takes to skip one; the flists put a file and a directory
  under the same name at two depths.  Two archives are enough for one to be
  extracted and the next one to fail; a flist can be on the command line and in
  `.layered` at once.
- A cache of one directory is always full: every lookup through two directories
  evicts one, under the other thread if it is there.  The flist has a file before
  and a file after a subdirectory, a link in it, a special file, and rights with a
  number, with a name and without a row.  `WalkVisits` goes through every answer of
  `fn` for every path.
- `Retries` is 2 for the 3 of the code: once more and not again.  The mount looks
  5 times as in the code.

`CHECK_DEADLOCK FALSE` stands only where the system may stop: in `download`, since
goroutines stay blocked after a failed write; in the set-up of a router, which ends;
in `rofs` and `mount`, where the process ends; in `meta`, where a panic ends it.

## Fairness

- **Downloader**: weak fairness of every goroutine.  Go schedules a runnable
  goroutine in the end, and `storage.Get` is assumed to return: the router has no
  read timeout, so a server that never answers is outside every liveness claim.
- **FileCache**: weak fairness of each thread's next step, which for a download
  is the assumption above, and strong fairness of `Flock`: the kernel keeps
  waiters of a flock in a queue, so one that is passed over again and again gets
  its turn.  Killing and failing are never fair.
- **Router**: weak fairness of each caller's and worker's step, strong fairness of
  taking a place in a pool, of taking the lock of `dial` and of the send to a worker:
  `redis.Pool` with `Wait` and channels serve their waiters in order, and a
  `sync.Mutex` hands itself over to one that has waited for a millisecond.  Failing
  is part of answering.  Clocks and hosts need not move.
- **Reload**: weak fairness of the loop, strong fairness of choosing the end
  of the filesystem: a `select` picks at random among the ready cases.
- **MetaStore** and **Stores** claim safety only.
- **Mount**: weak fairness of the goroutines and of the parent.  Nobody has
  to unmount or send a signal.

## Proofs

A module `XProofs` proves the safety properties of `X` for every value of its constants:
any number of blocks, workers, threads, instances, inodes, callers, pools, servers, rules,
keys, flists and paths, any tree, any size of the caches, any choice of faults.  The
assumptions are the named ones of the constants (`DownloaderAssumption` and so on), which TLC
evaluates in every run.  Most are types; the others say what the code makes of its
configuration or files: the lookup list of a router has pools only (`RouterAssumption`:
`Config.Valid` checks it), a path of a flist has a parent that is a directory and a directory
lists its children (`FlistAssumption`, `LayersAssumption`), a flist is finite and a name is one
inode of its directory (`TreeAssumption`: it was made from a file system), names of accesses have a row or
not (`MetaStoreAssumption`), and marks such as `Missing`, `Nil` or `NoFile` are no
configuration, no directory and no list.

Each module has one inductive invariant, `IInv` (`Known` in `StoresProofs`), that its
`Invariant` theorem establishes; the theorems about the properties of the runs follow from it.

**Downloader.** `OkMeansComplete` is not inductive: that the file is complete when
`results` is closed follows from where each index was on its way.  `IInv` adds
`Phases` (how far each goroutine can be, given the caller), `Carried` (an index and its
bytes belong together in every hand), `Caused` and `Answered` (where errors come
from), `Fed` (the feeder stopped after the last index or with an error) and `Conserved`: as long
as nothing failed, each index below `next` is in a worker's hand, in the caller's, or in
its slot of the file.  When the group is done no hand is left and the file has all.
One lemma per conjunct shows that every step keeps it; from `Invariant` follow
`TypeCorrect`, `OkIsComplete`, `CauseIsReported`, `NothingStays`, `NothingSpurious`,
the action property `OwnBytes`, and `ImplementsSafety`: every step is a step of
`BlockDownload` or a stutter.

**FileCache.** `Exclusive` needs to know that a lock never outlives the descriptor it
was taken through.  `IInv` has `Locked` (who works under the lock holds it), `Checking`
(a `check` never has it), `Written` (what a download still has to write is
what its inode lacks), `Trusted` (what a returned descriptor was trusted for),
`Apart` (nobody downloads into an inode that somebody reads), `Guarded` (a file of full size
that is not whole has a thread that will complete or remove it), `Sound` (without faults
nothing incomplete of full size is ever unlocked) and `Blamed` (an error is one of those that
may happen).  From it: `TypeCorrect`,
`LockExcludes`, `FetchedIsWhole` and `ReadersAreUndisturbed` whatever fails,
`NothingBadStays`, whose property `NothingBadLeft` is about behaviours without failing
system calls and crashes, and `HandlesAreWhole`, whose property `SharedHandleWhole` is
about behaviours without failures.  `cache_failed` shows that the latter condition
is needed.  `ImplementsSafety` puts them together: a step of a thread changes nothing for
the callers of the others (`OthersSame`, which needs `Apart`), and is a step of `CacheContract`
for its own or invisible.

**Rofs.** What a thread may read at a time is among the stores it has seen during its
operation (`Windowed`), and what it holds comes from there (`Seen`): a reload may
add to a window but takes nothing from it.  Hence `AnswersAreOfTheirTime`.  `LooksAgree` says
that two different looks need a reload between them: while the window has one store, every
read is from it.

**Mount.** `NothingLeft` needs that `fs.layers` and the kernel agree.  `IInv` has `Shapes` (a
directory has at most one mount of ours, on top of what was there), `Listed` (what we have
mounted is in `fs.layers`, but for the mount that is abandoned after a failed `Chmod`), `Undone` (a
call of `Unmount` has undone the layers behind its index, although another call and the
world work on the same stacks) and `Untold` (before an umount from outside or a SIGTERM our
mounts are there until a failed `Mount` or, after a failed read of the watch, `Wait` undoes them,
only one of the two does, and each umount takes ours and not one of others).  From it:
`NothingIsLeft`, `OthersAreKept`, `ParentTellsTruth`.

**Router.** `ConnsHeld` is an invariant from the program counters to the sets of connections
(`ConnsInv`).  `Aged` bounds the age of a cached address by the time since its host moved, from
which follows the action property `AddressesAreFresh`.  `StoreSafe`, the safety half of
`ImplementsStore`, has two sides.  Commit workers change no block of the abstract store: what a
worker carries is held by some destination of the lookup table (`WorkerInv`).  And a `Get` that ends with an
error without faults has asked everywhere: while the key is held, it is somewhere the
caller has still to ask (`Ahead`), by pool, then by rule, in any order of the rules.

**RouterSetup.** The merged tables are sums of sequences; the sums are taken apart with
`FlatAppend`, `FlatCons` and `FlatImage`, about the recursive function in `FlattenSeq`, proved
by induction on the length (`Climb`).  Prefixing with the number of the router is injective (`NoClash`), so
that `Merge` keeps each pool (`MergedPools`) and its lookups are those of the merged routers one
after the other (`MergeIs`).  `IInv` says it of every turn of the loop (`Gathered`),
of the first `Merge` (`Table`) and of the one with the local router (`Complete`).  Hence
`EveryNameResolves` and `TablesAreMerged`, the latter with the last of the sums, that of the
storage-url, taken off (`FlatGrow`).  For `RangesAreExact` every pool keeps the range of
its configuration (`RangesKept`), and `In`, which compares bytes, is held against `Meant`, which
compares the numbers that digits stand for: sequences of one length are in the order of their numbers,
in any base (`Order`), bytes and their digits stand for the same number (`BytesOrder`), and the
zero that `HexToBytes` adds to both keeps the order (`PaddedOrder`).  It holds for every base
and key length; `setup` has base 2 and keys of 2 bytes.

**Stores.** `MountedIsKept` follows from `Known`: a process that is up has every
entry of its list in `dirs`, so `getMetaStore` has nothing to extract in them again.
`ListingsDoAgree` and `LastIsOnTop` are about the nested call of `Layered` that a reload makes:
a single flist is `Truthful` (what is listed is there), `Complete` and `Rooted` (parents are
directories); layering keeps the first two but not the third, and what remains of it
(`Held`) is enough to layer once more for `Truthful`.  This is the reason for which
`ListingsAgree` promises less after a reload.

**MetaStore.** `IInv` describes the `Dir`s by how they are reached: `Truthful` (a `Dir` has the
rights of its path, or the default ones after a failure), `Grown` and `Linked` (children exist
where a parent has been read, and only there), `Owned` (a `Dir` that was evicted lives on
with exactly the threads that hold it), `Faultless` (without failing queries nothing is nil or hidden),
`OnTheWay` (a lookup is on a prefix of the path it is asked for), `Told` (the answer).  The
actions that move `Dir`s from the cache to threads are the hard ones: an eviction takes the
children along.  From it: `TypeCorrect`, `NothingElseIsShown`, `FailuresAreForgotten`,
`OneOwnerEach`.  The proof showed two definitions (`Add`, `GetChildren`) that chose between
overlapping guards; they are now read in the order of the code.

`WalksAreRight` is about the tree alone.  A path is under one child of each directory above it
(`Branches`, `Disjoint`) and children are in the order of their places (`InOrder`), so `Before` is
the order in which a walk goes.  What hides a path from the walk of a directory does so in the
walk of the child it is under, or is a file of the directory before that child (`HidesInside`,
`HidesAcross`): a child is open as it would be alone, unless such a file was skipped
(`OpenBranch`).  `NextKid` adds a child to the walk of the children before it, `WalkedDir`
is the whole directory, and `WalkIsRight` goes up from the deepest paths.  That the
recursion has a function at all is `WalkExists`, by the same way up: the walk of a directory
looks at its children's only (`SameWalk`).

Liveness is only model-checked (`CachesFilled`, `LatestLayers`, `UnmountEnds`,
`WatchedUnmountEnds`, the fair half of `ImplementsContract`, `ImplementsCache` and `ImplementsStore`): the
prover has no rules for fairness and `ENABLED`.  Every other property of a run that passes
is a theorem.

## Where code and documentation differ

Three differences have a run that TLC ends with a counterexample, quoted in
`PROJECT.json`:

- `cache_failed`: after a failed download the file is closed, and unlocked, before
  its name is removed; a waiter takes a file with holes.
- `setup_prefix`: a range with an odd number of digits is padded with a zero.
- `mount_blind`: an unmount before the watch is set is never noticed, and `Wait` does not end.

Others are behaviours of the models, which the properties leave room for where they
say "unless", "without" or "after":

- the storage url is used beside the routers of flists, and not only when no `router.yaml` is there,
  as `docs/flists/router.md:7` and `cmd/main.go:101` have it (`TablesMerged` asks for it where no
  flist has one and, where some flist has, only that it is not before the flists);
- every error leads to the next pool, and not only a missing key as `router.go:68` has it
  (`ImplementsStore` lets a `Get` fail when anything did);
- an instance that is killed in a download leaves a file of full size with a hole, which passes for
  a hit (`SharedHandleWhole` and `NothingBadLeft` are about behaviours without a kill);
- a failed write leaves feeder, workers and waiter behind (`NoGoroutineLeft` is about
  behaviours without it);
- `Open` answers OK after a failed download, and a reload during `Open` gives a
  handle the attributes of another file (`AgreesWithoutReload`);
- the meta store is assigned without a lock and its type changes with the first
  reload: a thread may read a torn interface (`Torn` in `Rofs`);
- after a reload, names can be looked up that are not listed, where a file hides a
  directory of a lower layer (`ListingsAgree`);
- an unmount from outside makes `Wait` unmount what was at the target before
  (`OthersKept` speaks of the processes to which nobody did that);
- a failed `Chmod` ends in a panic with the read-only layer mounted (`NothingLeft` is
  about ends in order);
- the parent of `-daemon` takes any mount at the target for its child's, and kills a
  child that is late (`ParentTells` says what its answer does mean);
- a query that fails is taken for "not found", files then have default rights for as long as
  their directory is cached, and a subdirectory that cannot be read panics in whoever
  lists it (`NothingElse` and `FailuresForgotten` say what remains true);
- archives that `.layered` names are extracted again by every reload, over databases that
  may be mounted (`MountedKept` is about the others);
- a host that moved is out of reach until its cached address expires: a connection that
  fails does not drop the entry (`FreshAddress`);
- `Validate` drops the errors it makes: a process without `-meta` starts (`Stores`);
- "not routable" is what `Router.Get` answers to every failure.

## What is not modelled

- `meta/special.go`: `getChildren` passes over special files, so a `Special` is
  never made.  `Close` of the stores: no code calls it.
- The entries of an archive and their names in `meta/unpack.go`, and what SQLite reads
  from a database that is extracted over: such a database is `torn` and nothing is said
  of a store that uses it.  `Reset` and the directories of the backend.
- The data store that `reload` makes and drops: the filesystem keeps the one it was
  mounted with, without the `router.yaml` of flists in `.layered`.
- The layout of attributes, log messages, flags that are constants of a process, the
  generated code of `cap.np`.
- Removing `.layered`: `reload` then keeps the layers it has.  Mounts that
  somebody else puts over ours.
- A connection's idle time and its `PING`, and the length of a wait: a connection is
  idle or dialled, good or broken, a timeout may come at any moment.  A host with
  several addresses at a time.
- Keys shorter than a range: keys have 16 bytes, and a longer range in a `router.yaml`
  would be out of the slice in `rangeMatch.In`.

## Plan

1. *Done*: `Downloader` with `BlockDownload`, `FileCache` with `CacheContract`, and their
   proofs.
2. *Done*: `Router`, `HashRange`, `RouterSetup`, `Reload`, `Rofs`, `Layers`, `Mount`.
3. *Done*: `Flist` and `MetaStore`; `DnsDial` under `Router`; `BlockStore`, which
   `Router` implements; `Stores` over `Layers`.
4. *Done*: theorems about every module with state (see [Proofs](#proofs)).
5. *Done*: `WalkVisits` as a theorem, by induction over trees.
6. Left: `Download` composed with `BlockStore`, `Rofs` composed with `CacheContract`.
