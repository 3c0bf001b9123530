-------------------------------- MODULE Reload --------------------------------
(***************************************************************************)
(* cmd/mount.go: the signal loop of the process, and reload, which on      *)
(* SIGHUP layers the flists named in the file .layered over those of the   *)
(* command line and gives the new meta store to the running filesystem.    *)
(*                                                                         *)
(* A meta store is known by the edit of .layered it was made from; 0 is    *)
(* the store made from the command line alone.                             *)
(***************************************************************************)
EXTENDS Integers, Sequences

CONSTANTS
  MaxEdits,    (* bound on the edits of .layered                           *)
  SigBuffer    (* capacity of the signal channel, 2 in the code            *)

ASSUME ReloadAssumption ==
  MaxEdits \in Nat /\ SigBuffer \in Nat \ {0}

VARIABLES
  bad,         (* whether files and flists may be missing or broken        *)
  disk,        (* the last edit of .layered, 0 while there is no such file *)
  notified,    (* the last edit that a SIGHUP was sent for                 *)
  sig,         (* signals in the channel                                   *)
  main,        (* where the loop is                                        *)
  read,        (* the edit reload works with                               *)
  store,       (* the meta store of the filesystem                         *)
  mounted      (* whether the filesystem is mounted                        *)

reloadVars == <<bad, disk, notified, sig, main, read, store, mounted>>

Edits == 0 .. MaxEdits

ReloadInit ==
  /\ bad \in BOOLEAN
  /\ disk \in {0, 1} \cap Edits /\ notified = 0
  /\ sig = <<>> /\ main = "select"
  /\ read = 0 /\ store = 0
  /\ mounted = TRUE

-----------------------------------------------------------------------------
(* The outside: the administrator and the kernel.                          *)

Edit ==
  /\ disk < MaxEdits
  /\ disk' = disk + 1
  /\ UNCHANGED <<bad, notified, sig, main, read, store, mounted>>

NotifyMore(s) ==              (* slip: one signal more than the channel has *)
  sig' = IF Len(sig) <= SigBuffer THEN Append(sig, s) ELSE sig

NotifyIdle(s) ==              (* slip: an unbuffered channel               *)
  sig' = IF main = "select" /\ sig = <<>> THEN <<s>> ELSE sig

(* os/signal drops a signal when the channel is full.                      *)
Notify(s) ==
  sig' = IF Len(sig) < SigBuffer THEN Append(sig, s) ELSE sig

Hup ==
  /\ main # "done"
  /\ Notify("hup")
  /\ notified' = disk
  /\ UNCHANGED <<bad, disk, main, read, store, mounted>>

Term ==
  /\ main # "done"
  /\ Notify("term")
  /\ UNCHANGED <<bad, disk, notified, main, read, store, mounted>>

Umount ==
  /\ mounted
  /\ mounted' = FALSE
  /\ UNCHANGED <<bad, disk, notified, sig, main, read, store>>

-----------------------------------------------------------------------------
(* The loop.                                                               *)

SelectHup ==
  /\ main = "select" /\ sig # <<>> /\ Head(sig) = "hup"
  /\ sig' = Tail(sig)
  /\ main' = "load"
  /\ UNCHANGED <<bad, disk, notified, read, store, mounted>>

SelectTerm ==
  /\ main = "select" /\ sig # <<>> /\ Head(sig) = "term"
  /\ sig' = Tail(sig)
  /\ main' = "done"
  /\ mounted' = FALSE
  /\ UNCHANGED <<bad, disk, notified, read, store>>

SelectExitLast ==             (* slip: signals first                       *)
  /\ main = "select" /\ ~mounted /\ sig = <<>>
  /\ main' = "done"
  /\ UNCHANGED <<bad, disk, notified, sig, read, store, mounted>>

SelectExit ==
  /\ main = "select" /\ ~mounted
  /\ main' = "done"
  /\ UNCHANGED <<bad, disk, notified, sig, read, store, mounted>>

(* Without the file there is nothing to do.                                *)
NoLayers ==
  /\ main = "load" /\ disk = 0
  /\ main' = "select"
  /\ UNCHANGED <<bad, disk, notified, sig, read, store, mounted>>

ReadLayers ==
  /\ main = "load" /\ disk > 0
  /\ read' = disk
  /\ main' = "build"
  /\ UNCHANGED <<bad, disk, notified, sig, store, mounted>>

(* Any error is logged, and the filesystem keeps its store.                *)
ReloadFail ==
  /\ bad
  /\ main \in {"load", "build"}
  /\ main' = "select"
  /\ UNCHANGED <<bad, disk, notified, sig, read, store, mounted>>

(* Both stores are open: SetMetaStore begins to assign the new one.        *)
Build ==
  /\ main = "build"
  /\ main' = "set"
  /\ UNCHANGED <<bad, disk, notified, sig, read, store, mounted>>

SetMetaStore ==
  /\ main = "set"
  /\ store' = read
  /\ main' = "select"
  /\ UNCHANGED <<bad, disk, notified, sig, read, mounted>>

Loop ==
  \/ SelectHup \/ SelectTerm \/ SelectExit
  \/ NoLayers \/ ReadLayers \/ ReloadFail \/ Build \/ SetMetaStore

ReloadNext == Edit \/ Hup \/ Term \/ Umount \/ Loop

(* The loop is a goroutine that always runs on.  A select takes any of the *)
(* channels that are ready, so it does not put one off for ever.           *)
ReloadFairness == WF_reloadVars(Loop) /\ SF_reloadVars(SelectExit)

-----------------------------------------------------------------------------
(* Properties.                                                             *)

ReloadTypeOK ==
  /\ bad \in BOOLEAN
  /\ disk \in Edits /\ notified \in Edits
  /\ read \in Edits /\ store \in Edits
  /\ sig \in Seq({"hup", "term"}) /\ Len(sig) <= SigBuffer
  /\ main \in {"select", "load", "build", "set", "done"}
  /\ mounted \in BOOLEAN

(* A SIGHUP is never in vain as long as the flists are good: the layers    *)
(* that .layered named when it was sent, or later ones, become those of    *)
(* the filesystem, also when the signal is dropped and when it comes in    *)
(* the middle of a reload.                                                 *)
LatestLayers ==
  \A e \in Edits :
    ~bad /\ notified = e ~> store >= e \/ main = "done"

(* The process ends when its filesystem is unmounted, however many signals *)
(* keep coming.                                                            *)
UnmountEnds == ~mounted ~> main = "done"
=============================================================================
