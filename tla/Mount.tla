--------------------------------- MODULE Mount --------------------------------
(***************************************************************************)
(* g8ufs.go and cmd/mount.go: a process that mounts the read-only layer    *)
(* and the overlay over it, watches the last layer, and unmounts both when *)
(* it is told to end or when the last layer was unmounted; with -daemon, a *)
(* parent process that waits for the mount.                                *)
(***************************************************************************)
EXTENDS Integers, Sequences, SequencesExt

CONSTANT Polls     (* looks for the mount point, 5 in the code             *)

ASSUME MountAssumption == Polls \in Nat \ {0}

Dirs == {"ro", "target"}
Unmounters == {"main", "wait"}

VARIABLES
  readOnly,      (* whether the read-only layer is mounted at the target   *)
  stack,         (* kernel: what is mounted on each directory, last on top *)
  layers,        (* fs.layers                                              *)
  main,          (* where Mount and the signal loop are                    *)
  polls,         (* looks of Mount and of the parent at the target         *)
  watch,         (* where the goroutine watch is                           *)
  wait,          (* where the goroutine that calls Wait is                 *)
  todo,          (* layers each call of Unmount has still to unmount       *)
  parent,        (* where the parent is                                    *)
  told,          (* history: whether there was an umount or a SIGTERM      *)
  taken          (* history: whether someone else's mount was unmounted    *)

goroutines == <<watch, wait, todo>>
history == <<told, taken>>
vars == <<readOnly, stack, layers, main, polls, goroutines, parent, history>>

(* Something may be mounted at the target before.                          *)
Init ==
  /\ readOnly \in BOOLEAN
  /\ stack \in {[d \in Dirs |-> IF d = "target" THEN s ELSE <<>>] :
                 s \in {<<>>, <<"other">>}}
  /\ layers = <<>> /\ main = "mountRO"
  /\ polls = [main |-> 0, parent |-> 0]
  /\ watch = "none" /\ wait = "none"
  /\ todo = [u \in Unmounters |-> 0]
  /\ parent \in {"none", "wait"}                       (* -daemon or not   *)
  /\ told = FALSE /\ taken = FALSE

Running == main \notin {"exit", "abandoned", "panic", "killed"}
Mountpoint(d) == stack[d] # <<>>

-----------------------------------------------------------------------------
(* Mount.                                                                  *)

MountOn(d) ==
  /\ stack' = [stack EXCEPT ![d] = Append(@, "own")]
  /\ layers' = Append(layers, d)

FirstDir == IF readOnly THEN "target" ELSE "ro"

MountRO ==
  /\ main = "mountRO"
  /\ MountOn(FirstDir)
  /\ main' = IF readOnly THEN "mounted" ELSE "prepare"
  /\ UNCHANGED <<readOnly, polls, goroutines, parent, history>>

(* Before anything is mounted there is nothing to undo.                    *)
MountROFail ==
  /\ main = "mountRO"
  /\ main' = "exit"
  /\ UNCHANGED <<readOnly, stack, layers, polls, goroutines, parent, history>>

(* WaitMount fails on a server that is mounted: the mount stays.           *)
WaitMountFail ==
  /\ main = "mountRO"
  /\ stack' = [stack EXCEPT ![FirstDir] = Append(@, "own")]
  /\ main' = "abandoned"
  /\ UNCHANGED <<readOnly, layers, polls, goroutines, parent, history>>

PrepareLayer ==            (* slip: the overlay is listed before it is made *)
  /\ main = "prepare"
  /\ main' = "overlay"
  /\ layers' = Append(layers, "target")
  /\ UNCHANGED <<readOnly, stack, polls, goroutines, parent, history>>

Prepare ==
  /\ main = "prepare"
  /\ main' = "overlay"
  /\ UNCHANGED <<readOnly, stack, layers, polls, goroutines, parent, history>>

(* return nil, err makes fs nil, and the deferred fs.Unmount panics.       *)
ChmodFail ==
  /\ main = "prepare"
  /\ main' = "panic"
  /\ UNCHANGED <<readOnly, stack, layers, polls, goroutines, parent, history>>

Overlay ==
  /\ main = "overlay"
  /\ MountOn("target")
  /\ main' = "poll"
  /\ UNCHANGED <<readOnly, polls, goroutines, parent, history>>

NoUndo(u) == todo' = todo             (* slip: the deferred Unmount is gone *)

(* Unmount begins, with all the layers there are.                          *)
Undo(u) == todo' = [todo EXCEPT ![u] = Len(layers)]

(* The deferred call after an error, or after the last look.               *)
MountFail ==
  /\ main \in {"prepare", "overlay", "poll"}
  /\ main' = "undo"
  /\ Undo("main")
  /\ UNCHANGED <<readOnly, stack, layers, polls, watch, wait, parent, history>>

OneMorePoll == polls.main <= Polls     (* slip: off by one *)

MorePolls == polls.main < Polls

Poll ==
  /\ main = "poll" /\ MorePolls
  /\ polls' = [polls EXCEPT !.main = @ + 1]
  /\ main' = IF Mountpoint("target") THEN "mounted" ELSE "poll"
  /\ UNCHANGED <<readOnly, stack, layers, goroutines, parent, history>>

(* w.Add(1) and go watch(): Mount is over.                                 *)
Mounted ==
  /\ main = "mounted"
  /\ watch' = "start"
  /\ main' = "ready"
  /\ UNCHANGED <<readOnly, stack, layers, polls, wait, todo, parent, history>>

-----------------------------------------------------------------------------
(* The signal loop.                                                        *)

EnterLoop ==
  /\ main = "ready"
  /\ wait' = "waiting"
  /\ main' = "loop"
  /\ UNCHANGED <<readOnly, stack, layers, polls, watch, todo, parent, history>>

(* SIGTERM ends the process at once until signal.Notify is called.         *)
Term ==
  /\ Running /\ main \notin {"undo", "term"}
  /\ IF main = "loop" THEN main' = "term" /\ Undo("main")
     ELSE main' = "killed" /\ UNCHANGED todo
  /\ told' = TRUE
  /\ UNCHANGED <<readOnly, stack, layers, polls, watch, wait, parent, taken>>

SelectExit ==
  /\ main = "loop" /\ wait = "sent"
  /\ main' = "exit"
  /\ UNCHANGED <<readOnly, stack, layers, polls, goroutines, parent, history>>

-----------------------------------------------------------------------------
(* The goroutines watch and Wait, and Unmount.                             *)

OwnMounted(d) == "own" \in ToSet(stack[d])

FirstLayer == Head(layers)             (* slip: the layer under the overlay *)

WatchedLayer == Last(layers)

(* A watch on a directory that is not ours any more sees no unmount.       *)
AddWatch ==
  /\ Running /\ watch = "start"
  /\ watch' = IF OwnMounted(WatchedLayer) THEN "watching" ELSE "blind"
  /\ UNCHANGED <<readOnly, stack, layers, main, polls>>
  /\ UNCHANGED <<wait, todo, parent, history>>

WatchPanic ==
  /\ Running /\ watch = "start"
  /\ main' = "panic"
  /\ UNCHANGED <<readOnly, stack, layers, polls, goroutines, parent, history>>

Unmounted ==
  /\ Running /\ watch = "watching" /\ ~OwnMounted(WatchedLayer)
  /\ watch' = "done"
  /\ UNCHANGED <<readOnly, stack, layers, main, polls>>
  /\ UNCHANGED <<wait, todo, parent, history>>

(* A read of the watch that fails is logged, and ends watch all the same.  *)
ReadFail ==
  /\ Running /\ watch \in {"watching", "blind"}
  /\ watch' = "done"
  /\ UNCHANGED <<readOnly, stack, layers, main, polls>>
  /\ UNCHANGED <<wait, todo, parent, history>>

WaitDone ==
  /\ Running /\ wait = "waiting" /\ watch = "done"
  /\ wait' = "unmount"
  /\ Undo("wait")
  /\ UNCHANGED <<readOnly, stack, layers, main, polls, watch, parent, history>>

Pop(d) == stack' = [stack EXCEPT ![d] = Front(@)]

(* umount2 of the next layer, whatever is on top there; EINVAL if nothing. *)
UnmountLayer(u) ==
  /\ Running /\ todo[u] > 0
  /\ todo' = [todo EXCEPT ![u] = @ - 1]
  /\ LET d == layers[todo[u]] IN
       IF Mountpoint(d)
       THEN Pop(d) /\ taken' = (taken \/ Last(stack[d]) = "other")
       ELSE UNCHANGED <<readOnly, stack, taken>>
  /\ UNCHANGED <<readOnly, layers, main, polls, watch, wait, parent, told>>

MainUnmounted ==
  /\ main \in {"undo", "term"} /\ todo["main"] = 0
  /\ main' = "exit"
  /\ UNCHANGED <<readOnly, stack, layers, polls, goroutines, parent, history>>

(* Wait is over; its error goes to the channel exit.                       *)
WaitUnmounted ==
  /\ Running /\ wait = "unmount" /\ todo["wait"] = 0
  /\ wait' = "sent"
  /\ UNCHANGED <<readOnly, stack, layers, main, polls>>
  /\ UNCHANGED <<watch, todo, parent, history>>

-----------------------------------------------------------------------------
(* The outside: umount(8), which may come at any time, and the parent.     *)

Umount ==
  /\ Mountpoint("target") /\ Last(stack["target"]) = "own"
  /\ Pop("target")
  /\ told' = TRUE
  /\ UNCHANGED <<readOnly, layers, main, polls, goroutines, parent, taken>>

ParentSeesAny ==                       (* slip: any layer will do           *)
  /\ parent = "wait" /\ polls.parent < Polls
  /\ polls' = [polls EXCEPT !.parent = @ + 1]
  /\ parent' = IF \E d \in Dirs : Mountpoint(d) THEN "ok" ELSE "wait"
  /\ UNCHANGED <<readOnly, stack, layers, main, goroutines, history>>

ParentSees ==
  /\ parent = "wait" /\ polls.parent < Polls
  /\ polls' = [polls EXCEPT !.parent = @ + 1]
  /\ parent' = IF Mountpoint("target") THEN "ok" ELSE "wait"
  /\ UNCHANGED <<readOnly, stack, layers, main, goroutines, history>>

(* The look fails: the parent returns the error, and the child goes on.    *)
ParentError ==
  /\ parent = "wait" /\ polls.parent < Polls
  /\ polls' = [polls EXCEPT !.parent = @ + 1]
  /\ parent' = "error"
  /\ UNCHANGED <<readOnly, stack, layers, main, goroutines, history>>

ParentKills ==
  /\ parent = "wait" /\ polls.parent = Polls
  /\ parent' = "failed"
  /\ main' = IF Running THEN "killed" ELSE main
  /\ UNCHANGED <<readOnly, stack, layers, polls, goroutines, history>>

-----------------------------------------------------------------------------
Main ==
  \/ MountRO \/ Prepare \/ Overlay \/ Poll \/ Mounted \/ EnterLoop
  \/ MountROFail \/ WaitMountFail \/ ChmodFail \/ MountFail
  \/ SelectExit \/ MainUnmounted
Watch == AddWatch \/ WatchPanic \/ Unmounted
Wait  == WaitDone \/ WaitUnmounted

Next ==
  \/ Main \/ Watch \/ Wait \/ \E u \in Unmounters : UnmountLayer(u)
  \/ Term \/ Umount \/ ReadFail \/ ParentSees \/ ParentError \/ ParentKills

(* Goroutines and the parent run on; nobody has to unmount or to signal,   *)
(* and no read of the watch has to fail.                                   *)
Fairness ==
  /\ WF_vars(Main) /\ WF_vars(Watch) /\ WF_vars(Wait)
  /\ \A u \in Unmounters : WF_vars(UnmountLayer(u))
  /\ WF_vars(ParentSees) /\ WF_vars(ParentKills)

Spec == Init /\ [][Next]_vars /\ Fairness

-----------------------------------------------------------------------------
(* Properties.                                                             *)

TypeOK ==
  /\ stack \in [Dirs -> Seq({"own", "other"})]
  /\ layers \in Seq(Dirs)
  /\ main \in {"mountRO", "prepare", "overlay", "poll", "mounted", "ready",
               "loop", "undo", "term", "exit", "abandoned", "panic", "killed"}
  /\ polls \in [main : 0 .. Polls, parent : 0 .. Polls]
  /\ watch \in {"none", "start", "watching", "blind", "done"}
  /\ wait \in {"none", "waiting", "unmount", "sent"}
  /\ todo \in [Unmounters -> 0 .. Len(layers)]
  /\ parent \in {"none", "wait", "ok", "error", "failed"}
  /\ readOnly \in BOOLEAN /\ told \in BOOLEAN /\ taken \in BOOLEAN

(* A process that ends in order leaves none of its mounts behind, whatever *)
(* step of Mount failed and however its two calls of Unmount interleave.   *)
NothingLeft == main = "exit" => \A d \in Dirs : ~OwnMounted(d)

(* A target that is unmounted after the watch was set ends the process.    *)
WatchedUnmountEnds ==
  watch = "watching" /\ ~OwnMounted(Last(layers)) ~> ~Running

(* g8ufs.go:243, "Wait filesystem until it's unmounted": once the layer of *)
(* the target is unmounted, Wait goes on.  An unmount before AddWatch is   *)
(* missed, and Wait waits for a watch on the directory below.              *)
WaitEnds ==
  wait = "waiting" /\ ~OwnMounted(Last(layers)) ~> wait # "waiting" \/ ~Running

(* A Mount that fails undoes its own steps and takes nothing that others   *)
(* mounted at the target before; only an umount or a SIGTERM can make the  *)
(* two calls of Unmount take it.                                           *)
OthersKept == taken => told

(* mount.go:97, "we wait for the mount to happen before we exit": the      *)
(* parent says so only once Mount got as far as the target, whatever fails *)
(* after it, or when someone else has mounted something there.             *)
ParentTells ==
  parent = "ok" =>
    \/ "target" \in ToSet(layers) \/ "other" \in ToSet(stack["target"]) \/ taken
    \/ readOnly /\ main = "abandoned"
=============================================================================
