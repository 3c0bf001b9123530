------------------------------- MODULE Stores -------------------------------
(***************************************************************************)
(* cmd/stores.go and reload of cmd/mount.go: the meta store is made of the *)
(* flists of the command line, and on SIGHUP of those that .layered names  *)
(* on top.  A flist that is an archive is extracted into the directory     *)
(* named after it (meta/unpack.go), over a database that may be in use.    *)
(***************************************************************************)
EXTENDS Layers

CONSTANTS
  Archives,         (* the flists that are archives and not directories    *)
  MaxFlists,        (* bound on the flists of the command line             *)
  MaxLines,         (* bound on the lines of .layered                      *)
  NoFile            (* there is no .layered                                *)

ASSUME StoresAssumption ==
  /\ Archives \subseteq Flists /\ MaxFlists \in Nat /\ MaxLines \in Nat
  /\ NoFile \notin BoundedSeq(Flists \cup {NoName}, MaxLines)

VARIABLES
  phase,            (* whether the process starts, runs or is over         *)
  cmd,              (* cmd.Meta: the flists, the last on top               *)
  dirs,             (* the entries of cmd.Meta that name directories       *)
  extra,            (* the archives that .layered named last               *)
  shown,            (* the lines of it that are in the meta store          *)
  torn,             (* the databases that were not extracted to their end  *)
  wrote             (* the databases that the last step wrote              *)

vars == <<phase, cmd, dirs, extra, shown, torn, wrote>>

Names(list) ==
  IF list = NoFile THEN {} ELSE {list[i] : i \in DOMAIN list} \ {NoName}

(* The entries that are directories when a list is read: the command line  *)
(* by a new process, the lines of .layered by each reload.                 *)
ArgDirs(list) == {i \in DOMAIN list : list[i] \notin Archives}

Init ==
  /\ phase = "start"
  /\ cmd \in BoundedSeq(Flists, MaxFlists)         (* -meta may be left out *)
  /\ dirs = ArgDirs(cmd)
  /\ extra = {} /\ shown = NoFile
  /\ torn = {} /\ wrote = {}

-----------------------------------------------------------------------------
(* getMetaStore goes through the entries of a list in their order, those   *)
(* in known being directories, up to one that fails, or to the end.        *)

NotRenamed(known, done) == known    (* slip: the caller's list is not updated *)

(* dbs[i] = db: an entry that was extracted names its directory from now   *)
(* on, in the list of the caller.                                          *)
Renamed(known, done) == known \cup done

(* Unpack writes over what is there, and leaves it so when it fails.       *)
Half(list, known, stop, why) ==
  IF stop \in DOMAIN list \ known /\ why = "unpack" THEN {list[stop]} ELSE {}

(* The entry at stop cannot be opened, or extracted, or its database is    *)
(* not one; stop is behind the last entry when all goes well.              *)
GetMetaStore(list, known, damaged, stop, why) ==
  LET done == {i \in DOMAIN list : i < stop \/ (i = stop /\ why = "store")}
      whole == Names([i \in done \ known |-> list[i]])
      half == Half(list, known, stop, why)
  IN [ok |-> stop > Len(list), known |-> Renamed(known, done),
      wrote |-> whole \cup half, torn |-> (damaged \ whole) \cup half]

Results(list, known, damaged) ==
  {GetMetaStore(list, known, damaged, stop, why) :
     stop \in {i \in DOMAIN list : list[i] # NoName} \cup {Len(list) + 1},
     why \in {"open", "unpack", "store"}}

-----------------------------------------------------------------------------
(* getStoresFromCmd also makes the data store, which can fail.             *)
Start ==
  /\ phase = "start"
  /\ \E r \in Results(cmd, dirs, torn), routed \in BOOLEAN :
       /\ phase' = IF r.ok /\ routed THEN "up" ELSE "over"
       /\ dirs' = r.known /\ torn' = r.torn /\ wrote' = r.wrote
  /\ UNCHANGED <<cmd, extra, shown>>

(* The process ends, or is killed, and another is started like it.         *)
Restart ==
  /\ phase # "start"
  /\ phase' = "start"
  /\ dirs' = ArgDirs(cmd) /\ shown' = NoFile /\ wrote' = {}
  /\ extra' = {}
  /\ UNCHANGED <<cmd, torn>>

(* reload: the lines of .layered first, then the command line again.  The  *)
(* filesystem keeps its store when one of them fails.                      *)
Reload(lines) ==
  /\ phase = "up"
  /\ extra' = Names(lines) \cap Archives
  /\ \E e \in Results(lines, ArgDirs(lines), torn) :
       \/ /\ ~e.ok
          /\ torn' = e.torn /\ wrote' = e.wrote
          /\ UNCHANGED <<dirs, shown>>
       \/ /\ e.ok
          /\ \E r \in Results(cmd, dirs, e.torn), routed \in BOOLEAN :
               /\ dirs' = r.known /\ torn' = r.torn
               /\ wrote' = e.wrote \cup r.wrote
               /\ shown' = IF r.ok /\ routed THEN lines ELSE shown
  /\ UNCHANGED <<phase, cmd>>

Next ==
  \/ Start \/ Restart
  \/ \E lines \in BoundedSeq(Flists \cup {NoName}, MaxLines) : Reload(lines)

Spec == Init /\ [][Next]_vars

-----------------------------------------------------------------------------
(* Properties.                                                             *)

InUse == Names(cmd) \cup Names(shown)

(* The meta store of the filesystem.                                       *)
store == IF shown = NoFile THEN MetaStore(cmd)
         ELSE Layered(<<MetaStore(cmd), MetaStore(shown)>>)

(* A store whose databases are all what their flists say.  It does not     *)
(* change until the next reload: it is enough to look at it before.        *)
Sound == phase = "up" /\ InUse \cap torn = {} /\ extra = Names(shown) \cap Archives

Found(p) == {d \in Children[p] : store[d].kind # Absent}

(* Between what a directory lists and what is found under it.              *)
ListedIsFound ==
  \A p \in Paths : store[p].list \subseteq {Entry(c, store[c]) : c \in Found(p)}

FoundIsListed ==
  \A p \in Paths :
    store[p].kind = "dir" =>
      {Entry(c, store[c]) : c \in Found(p)} \subseteq store[p].list

(* A file of the command line above a directory of the same name.          *)
Hides(i, j, p) == i > j /\ Kind[cmd[i]][p] = "file" /\ Kind[cmd[j]][p] = "dir"

(* dir.go:63: the children of a directory are the items in it.  Every name *)
(* that is listed can be looked up, and has the kind and the flist it was  *)
(* listed with, through two levels of merging and files that hide          *)
(* directories.  Every name that can be looked up is listed, when no layer *)
(* is merged twice or none of those merged twice hides a directory.        *)
ListingsAgree ==
  Sound =>
    /\ ListedIsFound
    /\ \/ shown # NoFile /\ \E i, j \in DOMAIN cmd, p \in Paths : Hides(i, j, p)
       \/ FoundIsListed

(* layer.go:83 and the usage of -meta: the last flist is on top, and those *)
(* of .layered above all of the command line.                              *)
LastOnTop ==
  LET all == cmd \o (IF shown = NoFile THEN <<>> ELSE Named(shown)) IN
  Sound => \A p \in Paths :
    LET having == {i \in DOMAIN all : Kind[all[i]][p] # Absent} IN
    IF having = {} THEN store[p].kind = Absent
    ELSE \E i \in having :
           /\ \A j \in having : j <= i
           /\ store[p].kind = Kind[all[i]][p] /\ store[p].from = all[i]

(* stores.go:49: a flist of the command line is extracted once, and its    *)
(* entry names the directory from then on.  So a reload, also one that     *)
(* fails half way and those after it, writes into no database that is in   *)
(* use unless .layered names its archive; the entries of .layered are      *)
(* extracted each time, over what is mounted.                              *)
MountedKept ==
  [][phase = "up" => wrote' \cap InUse \subseteq extra']_vars
=============================================================================
