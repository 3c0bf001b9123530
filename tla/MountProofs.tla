----------------------------- MODULE MountProofs -----------------------------
(***************************************************************************)
(* Theorems about mounting and unmounting, whichever step fails and        *)
(* however often the target is looked at.                                  *)
(*                                                                         *)
(* A directory has at most one mount of ours, on top of what was there     *)
(* before (Shapes), and fs.layers has every directory that has one         *)
(* (Listed).  So one umount for each layer is enough, from the last one    *)
(* down (Undone), and takes nothing of others as long as ours is there     *)
(* (Untold).                                                               *)
(***************************************************************************)
EXTENDS Mount, TLAPS, SequenceTheorems

Stacks == {<<>>, <<"own">>, <<"other">>, <<"other", "own">>}

Shapes == stack["ro"] \in {<<>>, <<"own">>} /\ stack["target"] \in Stacks

LayerLists == {<<>>, <<"ro">>, <<"target">>, <<"ro", "target">>}

(* Where Mount and the goroutines can be, and what has been mounted then.  *)
Phases ==
  /\ layers \in LayerLists
  /\ main \in {"mountRO", "abandoned"} => layers = <<>>
  /\ main \in {"prepare", "overlay"} => layers = <<"ro">>
  /\ main = "poll" => layers = <<"ro", "target">>
  /\ main \in {"mounted", "ready", "loop", "term"} =>
       layers \in {<<"target">>, <<"ro", "target">>}
  /\ main \in {"mountRO", "prepare", "overlay", "poll", "mounted", "undo"} => watch = "none"
  /\ main \in {"mountRO", "prepare", "overlay", "poll", "mounted", "ready", "undo"} =>
       wait = "none"
  /\ main \in {"mountRO", "prepare", "overlay", "poll", "mounted", "ready", "loop"} =>
       todo["main"] = 0
  /\ wait # "unmount" => todo["wait"] = 0
  /\ wait \in {"unmount", "sent"} => watch = "done"
  /\ main = "term" => told

(* What we have mounted is in fs.layers, unless the first mount failed     *)
(* after it was made.                                                      *)
Listed ==
  \A d \in Dirs :
    OwnMounted(d) => \/ \E i \in 1 .. Len(layers) : layers[i] = d
                     \/ main = "abandoned" /\ d = FirstDir

(* A call of Unmount has unmounted the layers it has been through.         *)
Undone ==
  /\ main \in {"undo", "term"} =>
       \A i \in 1 .. Len(layers) : i > todo["main"] => ~OwnMounted(layers[i])
  /\ wait \in {"unmount", "sent"} =>
       \A i \in 1 .. Len(layers) : i > todo["wait"] => ~OwnMounted(layers[i])

(* Before any umount from outside and any signal our mounts are there      *)
(* until the failed Mount undoes them, or Wait after a failed read of the  *)
(* watch, and only one of the two calls of Unmount is made.                *)
Untold ==
  ~told =>
    /\ ~taken
    /\ /\ main \in {"prepare", "overlay", "poll", "mounted", "ready", "loop"}
       /\ wait \in {"none", "waiting"}
       => \A i \in 1 .. Len(layers) : OwnMounted(layers[i])
    /\ main = "undo" => \A i \in 1 .. todo["main"] : OwnMounted(layers[i])
    /\ wait = "unmount" => \A i \in 1 .. todo["wait"] : OwnMounted(layers[i])

IInv ==
  /\ TypeOK /\ Shapes /\ Phases /\ Listed /\ Undone /\ Untold
  /\ NothingLeft /\ ParentTells

-----------------------------------------------------------------------------
(* Sequences.                                                              *)

LEMMA LayerFacts ==
  ASSUME NEW s \in LayerLists
  PROVE  /\ s \in Seq(Dirs) /\ Len(s) \in 0 .. 2
         /\ \A i \in 1 .. Len(s) : s[i] \in Dirs
         /\ \A i, j \in 1 .. Len(s) : i # j => s[i] # s[j]
         /\ \A d : d \in ToSet(s) <=> \E i \in 1 .. Len(s) : s[i] = d
         /\ s # <<>> => Len(s) > 0 /\ Last(s) = s[Len(s)]
<1>1. s \in Seq(Dirs) /\ Len(s) \in 0 .. 2
  <2>1. CASE s = <<>>
    BY <2>1
  <2>2. CASE s = <<"ro">>
    BY <2>2 DEF Dirs
  <2>3. CASE s = <<"target">>
    BY <2>3 DEF Dirs
  <2>4. CASE s = <<"ro", "target">>
    BY <2>4 DEF Dirs
  <2> QED
    BY <2>1, <2>2, <2>3, <2>4 DEF LayerLists
<1>2. \A i \in 1 .. Len(s) : s[i] \in Dirs
  BY <1>1
<1>3. \A d : d \in ToSet(s) <=> \E i \in 1 .. Len(s) : s[i] = d
  BY <1>1 DEF ToSet
<1>4. s # <<>> => Len(s) > 0
  BY <1>1 
<1>5. \A i, j \in 1 .. Len(s) : i # j => s[i] # s[j]
  <2>1. CASE s = <<"ro", "target">>
    BY <2>1
  <2>2. CASE Len(s) \in 0 .. 1
    BY <2>2
  <2> QED
    BY <2>1, <2>2 DEF LayerLists
<1> QED
  BY <1>1, <1>2, <1>3, <1>4, <1>5 DEF Last

LEMMA FrontFacts ==
  /\ Front(<<"own">>) = <<>> /\ Front(<<"other">>) = <<>>
  /\ Front(<<"other", "own">>) = <<"other">>
<1>1. Front(<<"own">>) = <<>> 
  BY DEF Front
<1>2. Front(<<"other">>) = <<>>
  BY DEF Front
<1>3. Front(<<"other", "own">>) = <<"other">>
  <2>1. Front(<<"other", "own">>) \in Seq({"own", "other"}) /\ Len(Front(<<"other", "own">>)) = 1
    BY DEF Front
  <2>2. Front(<<"other", "own">>)[1] = "other"
    BY DEF Front
  <2> QED
    BY <2>1, <2>2, SeqEqual
<1> QED BY <1>1, <1>2, <1>3

LEMMA LastFacts ==
  /\ Last(<<"own">>) = "own" /\ Last(<<"other">>) = "other"
  /\ Last(<<"other", "own">>) = "own"
BY DEF Last

LEMMA AppendSecond ==
  ASSUME NEW x, NEW y
  PROVE  Append(<<x>>, y) = <<x, y>>
<1>1. <<x>> \in Seq({x, y})
  OBVIOUS
<1>2. Append(<<x>>, y) \in Seq({x, y}) /\ Len(Append(<<x>>, y)) = 2
  BY <1>1
<1>3. <<x, y>> \in Seq({x, y}) /\ Len(<<x, y>>) = 2
  OBVIOUS
<1>4. Append(<<x>>, y)[1] = x /\ Append(<<x>>, y)[2] = y
  BY <1>1
<1>5. \A i \in 1 .. Len(Append(<<x>>, y)) : Append(<<x>>, y)[i] = <<x, y>>[i]
  BY <1>2, <1>4
<1> QED
  BY <1>2, <1>3, <1>5, SeqEqual

LEMMA AppendFirst ==
  ASSUME NEW x
  PROVE  Append(<<>>, x) = <<x>>
OBVIOUS

LEMMA ToSetFacts ==
  /\ ToSet(<<>>) = {} /\ ToSet(<<"own">>) = {"own"} /\ ToSet(<<"other">>) = {"other"}
  /\ ToSet(<<"other", "own">>) = {"other", "own"}
<1>1. ToSet(<<>>) = {}
  BY DEF ToSet
<1>2. ToSet(<<"own">>) = {"own"}
  BY DEF ToSet
<1>3. ToSet(<<"other">>) = {"other"}
  BY DEF ToSet
<1>4. ToSet(<<"other", "own">>) = {"other", "own"}
  BY DEF ToSet
<1> QED BY <1>1, <1>2, <1>3, <1>4

LEMMA EmptyFacts ==
  <<"own">> # <<>> /\ <<"other">> # <<>> /\ <<"other", "own">> # <<>>
OBVIOUS

-----------------------------------------------------------------------------
(* What a mount and an umount do to a directory.                           *)

LEMMA Pushed ==
  ASSUME TypeOK, Shapes, NEW d \in Dirs, ~OwnMounted(d),
         stack' = [stack EXCEPT ![d] = Append(@, "own")]
  PROVE  /\ Shapes' /\ stack' \in [Dirs -> Seq({"own", "other"})]
         /\ OwnMounted(d)'
         /\ \A e \in Dirs : e # d => OwnMounted(e)' = OwnMounted(e)
         /\ "other" \in ToSet(stack["target"]) => "other" \in ToSet(stack'["target"])
<1>1. stack[d] \in {<<>>, <<"other">>} /\ (d = "ro" => stack[d] = <<>>)
  BY ToSetFacts DEF Shapes, Stacks, Dirs, OwnMounted
<1>2. /\ stack[d] = <<>> => stack'[d] = <<"own">>
      /\ stack[d] = <<"other">> => stack'[d] = <<"other", "own">>
  BY AppendFirst, AppendSecond DEF TypeOK
<1>3. \A e \in Dirs : e # d => stack'[e] = stack[e]
  BY DEF TypeOK
<1>4. Shapes'
  BY <1>1, <1>2, <1>3 DEF Shapes, Stacks, Dirs
<1>5. stack' \in [Dirs -> Seq({"own", "other"})]
  BY DEF TypeOK
<1>6. OwnMounted(d)'
  BY <1>1, <1>2, ToSetFacts DEF OwnMounted
<1>7. \A e \in Dirs : e # d => OwnMounted(e)' = OwnMounted(e)
  BY <1>3 DEF OwnMounted
<1>8. "other" \in ToSet(stack["target"]) => "other" \in ToSet(stack'["target"])
  BY <1>1, <1>2, <1>3, ToSetFacts DEF Dirs
<1> QED
  BY <1>4, <1>5, <1>6, <1>7, <1>8

LEMMA Popped ==
  ASSUME TypeOK, Shapes, NEW d \in Dirs, Mountpoint(d), Pop(d)
  PROVE  /\ Shapes' /\ stack' \in [Dirs -> Seq({"own", "other"})]
         /\ ~OwnMounted(d)'
         /\ \A e \in Dirs : e # d => OwnMounted(e)' = OwnMounted(e)
         /\ OwnMounted(d) => Last(stack[d]) # "other"
         /\ \/ Last(stack[d]) = "other"
            \/ "other" \in ToSet(stack["target"]) => "other" \in ToSet(stack'["target"])
<1>1. /\ stack[d] \in {<<"own">>, <<"other">>, <<"other", "own">>}
      /\ d = "ro" => stack[d] = <<"own">>
  BY DEF Shapes, Stacks, Dirs, Mountpoint
<1>2. /\ stack[d] = <<"own">> => stack'[d] = <<>>
      /\ stack[d] = <<"other">> => stack'[d] = <<>>
      /\ stack[d] = <<"other", "own">> => stack'[d] = <<"other">>
  BY FrontFacts DEF Pop, TypeOK
<1>3. \A e \in Dirs : e # d => stack'[e] = stack[e]
  BY DEF Pop, TypeOK
<1>4. Shapes'
  <2>1. CASE d = "ro"
    BY <2>1, <1>1, <1>2, <1>3 DEF Shapes, Dirs
  <2>2. CASE d = "target"
    BY <2>2, <1>1, <1>2, <1>3, Zenon DEF Shapes, Stacks, Dirs
  <2> QED
    BY <2>1, <2>2 DEF Dirs
<1>5. stack' \in [Dirs -> Seq({"own", "other"})]
  <2>1. <<>> \in Seq({"own", "other"}) /\ <<"other">> \in Seq({"own", "other"})
    OBVIOUS
  <2> QED
    BY <1>1, <1>2, <2>1 DEF Pop, TypeOK
<1>6. ~OwnMounted(d)'
  BY <1>1, <1>2, ToSetFacts DEF OwnMounted
<1>7. \A e \in Dirs : e # d => OwnMounted(e)' = OwnMounted(e)
  BY <1>3 DEF OwnMounted
<1>8. OwnMounted(d) => Last(stack[d]) # "other"
  BY <1>1, LastFacts, ToSetFacts DEF OwnMounted
<1>9. \/ Last(stack[d]) = "other"
      \/ "other" \in ToSet(stack["target"]) => "other" \in ToSet(stack'["target"])
  BY <1>1, <1>2, <1>3, LastFacts, ToSetFacts DEF Dirs
<1> QED
  BY <1>4, <1>5, <1>6, <1>7, <1>8, <1>9

(* What is mounted is ours or someone else's.                              *)
LEMMA MountpointOf ==
  Shapes => (Mountpoint("target") <=>
               OwnMounted("target") \/ "other" \in ToSet(stack["target"]))
BY ToSetFacts, EmptyFacts DEF Shapes, Stacks, Mountpoint, OwnMounted

LEMMA NotMounted ==
  ASSUME Shapes, NEW d \in Dirs, ~Mountpoint(d)
  PROVE  ~OwnMounted(d)
BY ToSetFacts DEF Shapes, Stacks, Dirs, Mountpoint, OwnMounted

-----------------------------------------------------------------------------
LEMMA InitIInv == Init => IInv
<1> SUFFICES ASSUME Init PROVE IInv
  OBVIOUS
<1>1. /\ stack \in [Dirs -> Seq({"own", "other"})]
      /\ stack["ro"] = <<>> /\ stack["target"] \in {<<>>, <<"other">>}
  <2>1. <<>> \in Seq({"own", "other"}) /\ <<"other">> \in Seq({"own", "other"})
    OBVIOUS
  <2> QED
    BY <2>1 DEF Init, Dirs
<1>2. \A d \in Dirs : ~OwnMounted(d)
  BY <1>1, ToSetFacts DEF OwnMounted, Dirs
<1>3. TypeOK
  <2>1. layers \in Seq(Dirs) /\ Len(layers) = 0
    BY DEF Init
  <2>2. /\ todo \in [Unmounters -> 0 .. 0]
        /\ polls \in [main : 0 .. Polls, parent : 0 .. Polls]
    BY MountAssumption DEF Init
  <2> QED
    BY <1>1, <2>1, <2>2 DEF Init, TypeOK
<1>4. Shapes
  BY <1>1 DEF Shapes, Stacks
<1>5. Phases
  BY DEF Init, Phases, LayerLists, Unmounters
<1>6. Listed /\ Undone /\ Untold /\ NothingLeft /\ ParentTells
  BY <1>2 DEF Init, Listed, Undone, Untold, NothingLeft, ParentTells
<1> QED
  BY <1>3, <1>4, <1>5, <1>6 DEF IInv

-----------------------------------------------------------------------------
(* A step that mounts and unmounts nothing leaves these as they are.       *)
LEMMA Quiet ==
  ASSUME IInv, UNCHANGED <<readOnly, stack, layers>>
  PROVE  /\ Shapes' /\ stack' \in [Dirs -> Seq({"own", "other"})]
         /\ layers' \in Seq(Dirs) /\ layers' \in LayerLists
         /\ Len(layers) \in Nat
         /\ \A d : OwnMounted(d)' = OwnMounted(d)
         /\ FirstDir' = FirstDir
BY LayerFacts DEF IInv, TypeOK, Shapes, Phases, OwnMounted, FirstDir

LEMMA MountROFailStep ==
  ASSUME IInv, MountROFail
  PROVE  IInv'
<1>0. UNCHANGED <<readOnly, stack, layers>>
  BY DEF MountROFail
<1>1. TypeOK'
  BY <1>0, Quiet DEF IInv, TypeOK, Unmounters, MountROFail, goroutines, history
<1>2. Phases'
  BY <1>0, Quiet DEF IInv, TypeOK, Phases, Unmounters, MountROFail, goroutines, history
<1>3. Listed'
  BY <1>0, Quiet DEF IInv, Listed, Phases, MountROFail, goroutines, history
<1>4. Undone'
  BY <1>0, Quiet DEF IInv, TypeOK, Undone, Phases, Unmounters, MountROFail, goroutines, history
<1>5. Untold'
  BY <1>0, Quiet DEF IInv, TypeOK, Untold, Phases, Unmounters, MountROFail, goroutines, history
<1>6. NothingLeft'
  <2>1. Len(layers) = 0 /\ main # "abandoned"
    BY DEF IInv, Phases, MountROFail
  <2> QED
    BY <1>0, <2>1, Quiet DEF IInv, NothingLeft, Listed
<1>7. ParentTells'
  BY <1>0, Quiet DEF IInv, ParentTells, MountROFail, goroutines, history
<1> QED
  BY <1>0, <1>1, <1>2, <1>3, <1>4, <1>5, <1>6, <1>7, Quiet DEF IInv

LEMMA PrepareStep ==
  ASSUME IInv, Prepare
  PROVE  IInv'
<1>0. UNCHANGED <<readOnly, stack, layers>>
  BY DEF Prepare
<1>1. TypeOK'
  BY <1>0, Quiet DEF IInv, TypeOK, Unmounters, Prepare, goroutines, history
<1>2. Phases'
  BY <1>0, Quiet DEF IInv, TypeOK, Phases, Unmounters, Prepare, goroutines, history
<1>3. Listed'
  BY <1>0, Quiet DEF IInv, Listed, Phases, Prepare, goroutines, history
<1>4. Undone'
  BY <1>0, Quiet DEF IInv, TypeOK, Undone, Phases, Unmounters, Prepare, goroutines, history
<1>5. Untold'
  BY <1>0, Quiet DEF IInv, TypeOK, Untold, Phases, Unmounters, Prepare, goroutines, history
<1>6. NothingLeft'
  BY <1>0, Quiet DEF IInv, NothingLeft, Prepare, goroutines, history
<1>7. ParentTells'
  BY <1>0, Quiet DEF IInv, ParentTells, Prepare, goroutines, history
<1> QED
  BY <1>0, <1>1, <1>2, <1>3, <1>4, <1>5, <1>6, <1>7, Quiet DEF IInv

LEMMA ChmodFailStep ==
  ASSUME IInv, ChmodFail
  PROVE  IInv'
<1>0. UNCHANGED <<readOnly, stack, layers>>
  BY DEF ChmodFail
<1>1. TypeOK'
  BY <1>0, Quiet DEF IInv, TypeOK, Unmounters, ChmodFail, goroutines, history
<1>2. Phases'
  BY <1>0, Quiet DEF IInv, TypeOK, Phases, Unmounters, ChmodFail, goroutines, history
<1>3. Listed'
  BY <1>0, Quiet DEF IInv, Listed, Phases, ChmodFail, goroutines, history
<1>4. Undone'
  BY <1>0, Quiet DEF IInv, TypeOK, Undone, Phases, Unmounters, ChmodFail, goroutines, history
<1>5. Untold'
  BY <1>0, Quiet DEF IInv, TypeOK, Untold, Phases, Unmounters, ChmodFail, goroutines, history
<1>6. NothingLeft'
  BY <1>0, Quiet DEF IInv, NothingLeft, ChmodFail, goroutines, history
<1>7. ParentTells'
  BY <1>0, Quiet DEF IInv, ParentTells, ChmodFail, goroutines, history
<1> QED
  BY <1>0, <1>1, <1>2, <1>3, <1>4, <1>5, <1>6, <1>7, Quiet DEF IInv

LEMMA MountFailStep ==
  ASSUME IInv, MountFail
  PROVE  IInv'
<1>0. UNCHANGED <<readOnly, stack, layers>>
  BY DEF MountFail
<1>1. TypeOK'
  BY <1>0, Quiet DEF IInv, TypeOK, Unmounters, MountFail, Undo, goroutines, history
<1>2. Phases'
  BY <1>0, Quiet DEF IInv, TypeOK, Phases, Unmounters, MountFail, Undo, goroutines, history
<1>3. Listed'
  BY <1>0, Quiet DEF IInv, Listed, Phases, MountFail, Undo, goroutines, history
<1>4. Undone'
  BY <1>0, Quiet DEF IInv, TypeOK, Undone, Phases, Unmounters, MountFail, Undo, goroutines, history
<1>5. Untold'
  BY <1>0, Quiet DEF IInv, TypeOK, Untold, Phases, Unmounters, MountFail, Undo, goroutines, history
<1>6. NothingLeft'
  BY <1>0, Quiet DEF IInv, NothingLeft, MountFail, Undo, goroutines, history
<1>7. ParentTells'
  BY <1>0, Quiet DEF IInv, ParentTells, MountFail, Undo, goroutines, history
<1> QED
  BY <1>0, <1>1, <1>2, <1>3, <1>4, <1>5, <1>6, <1>7, Quiet DEF IInv

LEMMA PollStep ==
  ASSUME IInv, Poll
  PROVE  IInv'
<1>0. UNCHANGED <<readOnly, stack, layers>>
  BY DEF Poll
<1>1. TypeOK'
  <2>1. polls' \in [main : 0 .. Polls, parent : 0 .. Polls]
    <3>1. /\ polls \in [main : 0 .. Polls, parent : 0 .. Polls] /\ polls.main < Polls
          /\ polls' = [polls EXCEPT !.main = @ + 1]
      BY DEF IInv, TypeOK, Poll, MorePolls
    <3> QED
      BY <3>1, MountAssumption
  <2> QED
    BY <1>0, <2>1, Quiet DEF IInv, TypeOK, Poll, goroutines, history
<1>2. Phases'
  BY <1>0, Quiet DEF IInv, TypeOK, Phases, Unmounters, Poll, MorePolls, goroutines, history
<1>3. Listed'
  BY <1>0, Quiet DEF IInv, Listed, Phases, Poll, MorePolls, goroutines, history
<1>4. Undone'
  BY <1>0, Quiet DEF IInv, TypeOK, Undone, Phases, Unmounters, Poll, MorePolls, goroutines, history
<1>5. Untold'
  BY <1>0, Quiet DEF IInv, TypeOK, Untold, Phases, Unmounters, Poll, MorePolls, goroutines, history
<1>6. NothingLeft'
  BY <1>0, Quiet DEF IInv, NothingLeft, Poll, MorePolls, goroutines, history
<1>7. ParentTells'
  BY <1>0, Quiet DEF IInv, ParentTells, Poll, MorePolls, goroutines, history
<1> QED
  BY <1>0, <1>1, <1>2, <1>3, <1>4, <1>5, <1>6, <1>7, Quiet DEF IInv

LEMMA MountedStep ==
  ASSUME IInv, Mounted
  PROVE  IInv'
<1>0. UNCHANGED <<readOnly, stack, layers>>
  BY DEF Mounted
<1>1. TypeOK'
  BY <1>0, Quiet DEF IInv, TypeOK, Unmounters, Mounted, goroutines, history
<1>2. Phases'
  BY <1>0, Quiet DEF IInv, TypeOK, Phases, Unmounters, Mounted, goroutines, history
<1>3. Listed'
  BY <1>0, Quiet DEF IInv, Listed, Phases, Mounted, goroutines, history
<1>4. Undone'
  BY <1>0, Quiet DEF IInv, TypeOK, Undone, Phases, Unmounters, Mounted, goroutines, history
<1>5. Untold'
  BY <1>0, Quiet DEF IInv, TypeOK, Untold, Phases, Unmounters, Mounted, goroutines, history
<1>6. NothingLeft'
  BY <1>0, Quiet DEF IInv, NothingLeft, Mounted, goroutines, history
<1>7. ParentTells'
  BY <1>0, Quiet DEF IInv, ParentTells, Mounted, goroutines, history
<1> QED
  BY <1>0, <1>1, <1>2, <1>3, <1>4, <1>5, <1>6, <1>7, Quiet DEF IInv

LEMMA EnterLoopStep ==
  ASSUME IInv, EnterLoop
  PROVE  IInv'
<1>0. UNCHANGED <<readOnly, stack, layers>>
  BY DEF EnterLoop
<1>1. TypeOK'
  BY <1>0, Quiet DEF IInv, TypeOK, Unmounters, EnterLoop, goroutines, history
<1>2. Phases'
  BY <1>0, Quiet DEF IInv, TypeOK, Phases, Unmounters, EnterLoop, goroutines, history
<1>3. Listed'
  BY <1>0, Quiet DEF IInv, Listed, Phases, EnterLoop, goroutines, history
<1>4. Undone'
  BY <1>0, Quiet DEF IInv, TypeOK, Undone, Phases, Unmounters, EnterLoop, goroutines, history
<1>5. Untold'
  BY <1>0, Quiet DEF IInv, TypeOK, Untold, Phases, Unmounters, EnterLoop, goroutines, history
<1>6. NothingLeft'
  BY <1>0, Quiet DEF IInv, NothingLeft, EnterLoop, goroutines, history
<1>7. ParentTells'
  BY <1>0, Quiet DEF IInv, ParentTells, EnterLoop, goroutines, history
<1> QED
  BY <1>0, <1>1, <1>2, <1>3, <1>4, <1>5, <1>6, <1>7, Quiet DEF IInv

LEMMA TermStep ==
  ASSUME IInv, Term
  PROVE  IInv'
<1>0. UNCHANGED <<readOnly, stack, layers>>
  BY DEF Term
<1>1. TypeOK'
  BY <1>0, Quiet DEF IInv, TypeOK, Unmounters, Term, Undo, Running, goroutines, history
<1>2. Phases'
  BY <1>0, Quiet DEF IInv, TypeOK, Phases, Unmounters, Term, Undo, Running, goroutines, history
<1>3. Listed'
  BY <1>0, Quiet DEF IInv, Listed, Phases, Term, Undo, Running, goroutines, history
<1>4. Undone'
  BY <1>0, Quiet DEF IInv, TypeOK, Undone, Phases, Unmounters, Term, Undo, Running, goroutines, history
<1>5. Untold'
  BY <1>0, Quiet DEF IInv, TypeOK, Untold, Phases, Unmounters, Term, Undo, Running, goroutines, history
<1>6. NothingLeft'
  BY <1>0, Quiet DEF IInv, NothingLeft, Term, Undo, Running, goroutines, history
<1>7. ParentTells'
  BY <1>0, Quiet DEF IInv, ParentTells, Term, Undo, Running, goroutines, history
<1> QED
  BY <1>0, <1>1, <1>2, <1>3, <1>4, <1>5, <1>6, <1>7, Quiet DEF IInv

LEMMA SelectExitStep ==
  ASSUME IInv, SelectExit
  PROVE  IInv'
<1>0. UNCHANGED <<readOnly, stack, layers>>
  BY DEF SelectExit
<1>1. TypeOK'
  BY <1>0, Quiet DEF IInv, TypeOK, Unmounters, SelectExit, goroutines, history
<1>2. Phases'
  BY <1>0, Quiet DEF IInv, TypeOK, Phases, Unmounters, SelectExit, goroutines, history
<1>3. Listed'
  BY <1>0, Quiet DEF IInv, Listed, Phases, SelectExit, goroutines, history
<1>4. Undone'
  BY <1>0, Quiet DEF IInv, TypeOK, Undone, Phases, Unmounters, SelectExit, goroutines, history
<1>5. Untold'
  BY <1>0, Quiet DEF IInv, TypeOK, Untold, Phases, Unmounters, SelectExit, goroutines, history
<1>6. NothingLeft'
  <2>1. \A i \in 1 .. Len(layers) : ~OwnMounted(layers[i])
    BY Quiet, <1>0 DEF IInv, Phases, Undone, SelectExit
  <2> QED
    BY <1>0, <2>1, Quiet DEF IInv, NothingLeft, Listed, SelectExit
<1>7. ParentTells'
  BY <1>0, Quiet DEF IInv, ParentTells, SelectExit, goroutines, history
<1> QED
  BY <1>0, <1>1, <1>2, <1>3, <1>4, <1>5, <1>6, <1>7, Quiet DEF IInv

LEMMA MainUnmountedStep ==
  ASSUME IInv, MainUnmounted
  PROVE  IInv'
<1>0. UNCHANGED <<readOnly, stack, layers>>
  BY DEF MainUnmounted
<1>1. TypeOK'
  BY <1>0, Quiet DEF IInv, TypeOK, Unmounters, MainUnmounted, goroutines, history
<1>2. Phases'
  BY <1>0, Quiet DEF IInv, TypeOK, Phases, Unmounters, MainUnmounted, goroutines, history
<1>3. Listed'
  BY <1>0, Quiet DEF IInv, Listed, Phases, MainUnmounted, goroutines, history
<1>4. Undone'
  BY <1>0, Quiet DEF IInv, TypeOK, Undone, Phases, Unmounters, MainUnmounted, goroutines, history
<1>5. Untold'
  BY <1>0, Quiet DEF IInv, TypeOK, Untold, Phases, Unmounters, MainUnmounted, goroutines, history
<1>6. NothingLeft'
  <2>1. \A i \in 1 .. Len(layers) : ~OwnMounted(layers[i])
    BY Quiet, <1>0 DEF IInv, Undone, MainUnmounted
  <2> QED
    BY <1>0, <2>1, Quiet DEF IInv, NothingLeft, Listed, MainUnmounted
<1>7. ParentTells'
  BY <1>0, Quiet DEF IInv, ParentTells, MainUnmounted, goroutines, history
<1> QED
  BY <1>0, <1>1, <1>2, <1>3, <1>4, <1>5, <1>6, <1>7, Quiet DEF IInv

LEMMA AddWatchStep ==
  ASSUME IInv, AddWatch
  PROVE  IInv'
<1>0. UNCHANGED <<readOnly, stack, layers>>
  BY DEF AddWatch
<1>1. TypeOK'
  BY <1>0, Quiet DEF IInv, TypeOK, Unmounters, AddWatch, Running, goroutines, history
<1>2. Phases'
  BY <1>0, Quiet DEF IInv, TypeOK, Phases, Unmounters, AddWatch, Running, goroutines, history
<1>3. Listed'
  BY <1>0, Quiet DEF IInv, Listed, Phases, AddWatch, Running, goroutines, history
<1>4. Undone'
  BY <1>0, Quiet DEF IInv, TypeOK, Undone, Phases, Unmounters, AddWatch, Running, goroutines, history
<1>5. Untold'
  BY <1>0, Quiet DEF IInv, TypeOK, Untold, Phases, Unmounters, AddWatch, Running, goroutines, history
<1>6. NothingLeft'
  BY <1>0, Quiet DEF IInv, NothingLeft, AddWatch, Running, goroutines, history
<1>7. ParentTells'
  BY <1>0, Quiet DEF IInv, ParentTells, AddWatch, Running, goroutines, history
<1> QED
  BY <1>0, <1>1, <1>2, <1>3, <1>4, <1>5, <1>6, <1>7, Quiet DEF IInv

LEMMA WatchPanicStep ==
  ASSUME IInv, WatchPanic
  PROVE  IInv'
<1>0. UNCHANGED <<readOnly, stack, layers>>
  BY DEF WatchPanic
<1>1. TypeOK'
  BY <1>0, Quiet DEF IInv, TypeOK, Unmounters, WatchPanic, Running, goroutines, history
<1>2. Phases'
  BY <1>0, Quiet DEF IInv, TypeOK, Phases, Unmounters, WatchPanic, Running, goroutines, history
<1>3. Listed'
  BY <1>0, Quiet DEF IInv, Listed, Phases, WatchPanic, Running, goroutines, history
<1>4. Undone'
  BY <1>0, Quiet DEF IInv, TypeOK, Undone, Phases, Unmounters, WatchPanic, Running, goroutines, history
<1>5. Untold'
  BY <1>0, Quiet DEF IInv, TypeOK, Untold, Phases, Unmounters, WatchPanic, Running, goroutines, history
<1>6. NothingLeft'
  BY <1>0, Quiet DEF IInv, NothingLeft, WatchPanic, Running, goroutines, history
<1>7. ParentTells'
  BY <1>0, Quiet DEF IInv, ParentTells, WatchPanic, Running, goroutines, history
<1> QED
  BY <1>0, <1>1, <1>2, <1>3, <1>4, <1>5, <1>6, <1>7, Quiet DEF IInv

LEMMA UnmountedStep ==
  ASSUME IInv, Unmounted
  PROVE  IInv'
<1>0. UNCHANGED <<readOnly, stack, layers>>
  BY DEF Unmounted
<1>1. TypeOK'
  BY <1>0, Quiet DEF IInv, TypeOK, Unmounters, Unmounted, Running, goroutines, history
<1>2. Phases'
  BY <1>0, Quiet DEF IInv, TypeOK, Phases, Unmounters, Unmounted, Running, goroutines, history
<1>3. Listed'
  BY <1>0, Quiet DEF IInv, Listed, Phases, Unmounted, Running, goroutines, history
<1>4. Undone'
  BY <1>0, Quiet DEF IInv, TypeOK, Undone, Phases, Unmounters, Unmounted, Running, goroutines, history
<1>5. Untold'
  BY <1>0, Quiet DEF IInv, TypeOK, Untold, Phases, Unmounters, Unmounted, Running, goroutines, history
<1>6. NothingLeft'
  BY <1>0, Quiet DEF IInv, NothingLeft, Unmounted, Running, goroutines, history
<1>7. ParentTells'
  BY <1>0, Quiet DEF IInv, ParentTells, Unmounted, Running, goroutines, history
<1> QED
  BY <1>0, <1>1, <1>2, <1>3, <1>4, <1>5, <1>6, <1>7, Quiet DEF IInv

LEMMA ReadFailStep ==
  ASSUME IInv, ReadFail
  PROVE  IInv'
<1>0. UNCHANGED <<readOnly, stack, layers>>
  BY DEF ReadFail
<1>1. TypeOK'
  BY <1>0, Quiet DEF IInv, TypeOK, Unmounters, ReadFail, Running, goroutines, history
<1>2. Phases'
  BY <1>0, Quiet DEF IInv, TypeOK, Phases, Unmounters, ReadFail, Running, goroutines, history
<1>3. Listed'
  BY <1>0, Quiet DEF IInv, Listed, Phases, ReadFail, Running, goroutines, history
<1>4. Undone'
  BY <1>0, Quiet DEF IInv, TypeOK, Undone, Phases, Unmounters, ReadFail, Running, goroutines, history
<1>5. Untold'
  BY <1>0, Quiet DEF IInv, TypeOK, Untold, Phases, Unmounters, ReadFail, Running, goroutines, history
<1>6. NothingLeft'
  BY <1>0, Quiet DEF IInv, NothingLeft, ReadFail, Running, goroutines, history
<1>7. ParentTells'
  BY <1>0, Quiet DEF IInv, ParentTells, ReadFail, Running, goroutines, history
<1> QED
  BY <1>0, <1>1, <1>2, <1>3, <1>4, <1>5, <1>6, <1>7, Quiet DEF IInv

LEMMA WaitDoneStep ==
  ASSUME IInv, WaitDone
  PROVE  IInv'
<1>0. UNCHANGED <<readOnly, stack, layers>>
  BY DEF WaitDone
<1>1. TypeOK'
  BY <1>0, Quiet DEF IInv, TypeOK, Unmounters, WaitDone, Undo, Running, goroutines, history
<1>2. Phases'
  BY <1>0, Quiet DEF IInv, TypeOK, Phases, Unmounters, WaitDone, Undo, Running, goroutines, history
<1>3. Listed'
  BY <1>0, Quiet DEF IInv, Listed, Phases, WaitDone, Undo, Running, goroutines, history
<1>4. Undone'
  BY <1>0, Quiet DEF IInv, TypeOK, Undone, Phases, Unmounters, WaitDone, Undo, Running, goroutines, history
<1>5. Untold'
  BY <1>0, Quiet DEF IInv, TypeOK, Untold, Phases, Unmounters, WaitDone, Undo, Running, goroutines, history
<1>6. NothingLeft'
  BY <1>0, Quiet DEF IInv, NothingLeft, WaitDone, Undo, Running, goroutines, history
<1>7. ParentTells'
  BY <1>0, Quiet DEF IInv, ParentTells, WaitDone, Undo, Running, goroutines, history
<1> QED
  BY <1>0, <1>1, <1>2, <1>3, <1>4, <1>5, <1>6, <1>7, Quiet DEF IInv

LEMMA WaitUnmountedStep ==
  ASSUME IInv, WaitUnmounted
  PROVE  IInv'
<1>0. UNCHANGED <<readOnly, stack, layers>>
  BY DEF WaitUnmounted
<1>1. TypeOK'
  BY <1>0, Quiet DEF IInv, TypeOK, Unmounters, WaitUnmounted, Running, goroutines, history
<1>2. Phases'
  BY <1>0, Quiet DEF IInv, TypeOK, Phases, Unmounters, WaitUnmounted, Running, goroutines, history
<1>3. Listed'
  BY <1>0, Quiet DEF IInv, Listed, Phases, WaitUnmounted, Running, goroutines, history
<1>4. Undone'
  BY <1>0, Quiet DEF IInv, TypeOK, Undone, Phases, Unmounters, WaitUnmounted, Running, goroutines, history
<1>5. Untold'
  BY <1>0, Quiet DEF IInv, TypeOK, Untold, Phases, Unmounters, WaitUnmounted, Running, goroutines, history
<1>6. NothingLeft'
  BY <1>0, Quiet DEF IInv, NothingLeft, WaitUnmounted, Running, goroutines, history
<1>7. ParentTells'
  BY <1>0, Quiet DEF IInv, ParentTells, WaitUnmounted, Running, goroutines, history
<1> QED
  BY <1>0, <1>1, <1>2, <1>3, <1>4, <1>5, <1>6, <1>7, Quiet DEF IInv

LEMMA ParentSeesStep ==
  ASSUME IInv, ParentSees
  PROVE  IInv'
<1>0. UNCHANGED <<readOnly, stack, layers>>
  BY DEF ParentSees
<1>1. TypeOK'
  <2>1. polls' \in [main : 0 .. Polls, parent : 0 .. Polls]
    BY MountAssumption DEF IInv, TypeOK, ParentSees
  <2> QED
    BY <1>0, <2>1, Quiet DEF IInv, TypeOK, ParentSees, goroutines, history
<1>2. Phases'
  BY <1>0, Quiet DEF IInv, TypeOK, Phases, Unmounters, ParentSees, goroutines, history
<1>3. Listed'
  BY <1>0, Quiet DEF IInv, Listed, Phases, ParentSees, goroutines, history
<1>4. Undone'
  BY <1>0, Quiet DEF IInv, TypeOK, Undone, Phases, Unmounters, ParentSees, goroutines, history
<1>5. Untold'
  BY <1>0, Quiet DEF IInv, TypeOK, Untold, Phases, Unmounters, ParentSees, goroutines, history
<1>6. NothingLeft'
  BY <1>0, Quiet DEF IInv, NothingLeft, ParentSees, goroutines, history
<1>7. ParentTells'
  <2>1. OwnMounted("target") => "target" \in ToSet(layers) \/ (readOnly /\ main = "abandoned")
    <3>1. layers \in LayerLists
      BY DEF IInv, Phases
    <3>2. (\E i \in 1 .. Len(layers) : layers[i] = "target") => "target" \in ToSet(layers)
      BY <3>1, LayerFacts
    <3>3. FirstDir = "target" => readOnly
      BY DEF FirstDir
    <3>4. OwnMounted("target") =>
            \/ \E i \in 1 .. Len(layers) : layers[i] = "target"
            \/ main = "abandoned" /\ FirstDir = "target"
      <4>1. "target" \in Dirs /\ Listed
        BY DEF IInv, Dirs
      <4> QED
        BY <4>1, Zenon DEF Listed
    <3> QED
      BY <3>2, <3>3, <3>4
  <2> QED
    BY <1>0, <2>1, MountpointOf DEF IInv, ParentTells, ParentSees, history
<1> QED
  BY <1>0, <1>1, <1>2, <1>3, <1>4, <1>5, <1>6, <1>7, Quiet DEF IInv

LEMMA ParentErrorStep ==
  ASSUME IInv, ParentError
  PROVE  IInv'
<1>0. UNCHANGED <<readOnly, stack, layers>>
  BY DEF ParentError
<1>1. TypeOK'
  <2>1. polls' \in [main : 0 .. Polls, parent : 0 .. Polls]
    BY MountAssumption DEF IInv, TypeOK, ParentError
  <2> QED
    BY <1>0, <2>1, Quiet DEF IInv, TypeOK, ParentError, goroutines, history
<1>2. Phases'
  BY <1>0, Quiet DEF IInv, TypeOK, Phases, Unmounters, ParentError, goroutines, history
<1>3. Listed'
  BY <1>0, Quiet DEF IInv, Listed, Phases, ParentError, goroutines, history
<1>4. Undone'
  BY <1>0, Quiet DEF IInv, TypeOK, Undone, Phases, Unmounters, ParentError, goroutines, history
<1>5. Untold'
  BY <1>0, Quiet DEF IInv, TypeOK, Untold, Phases, Unmounters, ParentError, goroutines, history
<1>6. NothingLeft'
  BY <1>0, Quiet DEF IInv, NothingLeft, ParentError, goroutines, history
<1>7. ParentTells'
  BY DEF ParentTells, ParentError
<1> QED
  BY <1>0, <1>1, <1>2, <1>3, <1>4, <1>5, <1>6, <1>7, Quiet DEF IInv

LEMMA ParentKillsStep ==
  ASSUME IInv, ParentKills
  PROVE  IInv'
<1>0. UNCHANGED <<readOnly, stack, layers>>
  BY DEF ParentKills
<1>1. TypeOK'
  BY <1>0, Quiet DEF IInv, TypeOK, Unmounters, ParentKills, Running, goroutines, history
<1>2. Phases'
  BY <1>0, Quiet DEF IInv, TypeOK, Phases, Unmounters, ParentKills, Running, goroutines, history
<1>3. Listed'
  BY <1>0, Quiet DEF IInv, Listed, Phases, ParentKills, Running, goroutines, history
<1>4. Undone'
  BY <1>0, Quiet DEF IInv, TypeOK, Undone, Phases, Unmounters, ParentKills, Running, goroutines, history
<1>5. Untold'
  BY <1>0, Quiet DEF IInv, TypeOK, Untold, Phases, Unmounters, ParentKills, Running, goroutines, history
<1>6. NothingLeft'
  BY <1>0, Quiet DEF IInv, NothingLeft, ParentKills, Running, goroutines, history
<1>7. ParentTells'
  BY <1>0, Quiet DEF IInv, ParentTells, ParentKills, Running, goroutines, history
<1> QED
  BY <1>0, <1>1, <1>2, <1>3, <1>4, <1>5, <1>6, <1>7, Quiet DEF IInv

-----------------------------------------------------------------------------
(* The steps that mount.                                                   *)

(* The first mount is on a directory that has none of ours.                *)
LEMMA FirstMount ==
  ASSUME IInv, main = "mountRO"
  PROVE  /\ layers = <<>> /\ FirstDir \in Dirs
         /\ \A d \in Dirs : ~OwnMounted(d)
BY DEF IInv, Phases, Listed, FirstDir, Dirs

LEMMA MountROStep ==
  ASSUME IInv, MountRO
  PROVE  IInv'
<1>1. /\ main = "mountRO" /\ layers = <<>> /\ FirstDir \in Dirs
      /\ \A d \in Dirs : ~OwnMounted(d)
  BY FirstMount DEF MountRO
<1> PICK d \in Dirs : d = FirstDir
  BY <1>1
<1>2. stack' = [stack EXCEPT ![d] = Append(@, "own")]
  BY DEF MountRO, MountOn
<1>3. /\ Shapes' /\ stack' \in [Dirs -> Seq({"own", "other"})]
      /\ OwnMounted(d)'
      /\ \A e \in Dirs : e # d => OwnMounted(e)' = OwnMounted(e)
      /\ "other" \in ToSet(stack["target"]) => "other" \in ToSet(stack'["target"])
  <2>1. TypeOK /\ Shapes /\ ~OwnMounted(d)
    BY <1>1 DEF IInv
  <2> QED
    BY <1>2, <2>1, Pushed
<1>4. layers' = <<d>>
  BY <1>1, AppendFirst DEF MountRO, MountOn
<1>5. /\ layers' \in LayerLists /\ layers' \in Seq(Dirs) /\ Len(layers') = 1 /\ layers'[1] = d
      /\ d = "ro" => layers' = <<"ro">>
      /\ d = "target" => layers' = <<"target">>
      /\ \A i \in 1 .. Len(layers') : i = 1
  BY <1>4 DEF LayerLists, Dirs
<1>6. /\ UNCHANGED <<readOnly, polls, watch, wait, todo, parent, told, taken>>
      /\ main' = IF d = "target" THEN "mounted" ELSE "prepare"
  BY DEF MountRO, FirstDir, goroutines, history
<1>7. watch = "none" /\ wait = "none" /\ todo["main"] = 0 /\ todo["wait"] = 0
  BY <1>1 DEF IInv, Phases
<1>8. TypeOK'
  <2>1. todo' \in [Unmounters -> 0 .. Len(layers')]
    BY <1>1, <1>5, <1>6 DEF IInv, TypeOK
  <2> QED
    BY <1>3, <1>5, <1>6, <2>1 DEF IInv, TypeOK
<1>9. Phases'
  BY <1>5, <1>6, <1>7, Zenon DEF Phases, Dirs
<1>10. Listed'
  BY <1>1, <1>3, <1>5 DEF Listed
<1>11. Undone'
  BY <1>6, <1>7 DEF Undone
<1>12. Untold'
  BY <1>3, <1>5, <1>6, <1>7 DEF IInv, Untold
<1>13. NothingLeft'
  BY <1>6 DEF NothingLeft
<1>14. ParentTells'
  <2>1. "target" \notin ToSet(layers) /\ main # "abandoned"
    BY <1>1, ToSetFacts
  <2> QED
    BY <1>3, <1>6, <2>1 DEF IInv, ParentTells
<1> QED
  BY <1>3, <1>8, <1>9, <1>10, <1>11, <1>12, <1>13, <1>14 DEF IInv

LEMMA WaitMountFailStep ==
  ASSUME IInv, WaitMountFail
  PROVE  IInv'
<1>1. /\ main = "mountRO" /\ layers = <<>> /\ FirstDir \in Dirs
      /\ \A d \in Dirs : ~OwnMounted(d)
  BY FirstMount DEF WaitMountFail
<1> PICK d \in Dirs : d = FirstDir
  BY <1>1
<1>2. stack' = [stack EXCEPT ![d] = Append(@, "own")]
  BY DEF WaitMountFail
<1>3. /\ Shapes' /\ stack' \in [Dirs -> Seq({"own", "other"})]
      /\ OwnMounted(d)'
      /\ \A e \in Dirs : e # d => OwnMounted(e)' = OwnMounted(e)
      /\ "other" \in ToSet(stack["target"]) => "other" \in ToSet(stack'["target"])
  <2>1. TypeOK /\ Shapes /\ ~OwnMounted(d)
    BY <1>1 DEF IInv
  <2> QED
    BY <1>2, <2>1, Pushed
<1>4. /\ UNCHANGED <<readOnly, layers, polls, watch, wait, todo, parent, told, taken>>
      /\ main' = "abandoned" /\ FirstDir' = FirstDir
  BY DEF WaitMountFail, FirstDir, goroutines, history
<1>5. watch = "none" /\ wait = "none" /\ todo["main"] = 0 /\ todo["wait"] = 0
  BY <1>1 DEF IInv, Phases
<1>6. TypeOK'
  BY <1>3, <1>4 DEF IInv, TypeOK
<1>7. Phases'
  BY <1>1, <1>4, <1>5, Zenon DEF IInv, Phases
<1>8. Listed'
  BY <1>1, <1>3, <1>4 DEF Listed
<1>9. Undone' /\ Untold' /\ NothingLeft'
  BY <1>4, <1>5 DEF IInv, Undone, Untold, NothingLeft
<1>10. ParentTells'
  <2>1. "target" \notin ToSet(layers) /\ main # "abandoned"
    BY <1>1, ToSetFacts
  <2> QED
    BY <1>3, <1>4, <2>1 DEF IInv, ParentTells
<1> QED
  BY <1>3, <1>6, <1>7, <1>8, <1>9, <1>10 DEF IInv

LEMMA OverlayStep ==
  ASSUME IInv, Overlay
  PROVE  IInv'
<1>1. main = "overlay" /\ layers = <<"ro">> /\ Len(layers) = 1 /\ layers[1] = "ro"
  BY DEF IInv, Phases, Overlay
<1>2. "target" \in Dirs /\ ~OwnMounted("target")
  BY <1>1 DEF IInv, Listed, Dirs
<1>3. stack' = [stack EXCEPT !["target"] = Append(@, "own")]
  BY DEF Overlay, MountOn
<1>4. /\ Shapes' /\ stack' \in [Dirs -> Seq({"own", "other"})]
      /\ OwnMounted("target")'
      /\ \A e \in Dirs : e # "target" => OwnMounted(e)' = OwnMounted(e)
      /\ "other" \in ToSet(stack["target"]) => "other" \in ToSet(stack'["target"])
  <2>1. TypeOK /\ Shapes
    BY DEF IInv
  <2> QED
    BY <1>2, <1>3, <2>1, Pushed
<1>5. layers' = <<"ro", "target">>
  BY <1>1, AppendSecond DEF Overlay, MountOn
<1>6. /\ layers' \in LayerLists /\ layers' \in Seq(Dirs) /\ Len(layers') = 2
      /\ layers'[1] = "ro" /\ layers'[2] = "target"
      /\ \A i \in 1 .. Len(layers') : i = 1 \/ i = 2
  BY <1>5 DEF LayerLists, Dirs
<1>7. /\ UNCHANGED <<readOnly, polls, watch, wait, todo, parent, told, taken>>
      /\ main' = "poll"
  BY DEF Overlay, goroutines, history
<1>8. watch = "none" /\ wait = "none" /\ todo["main"] = 0 /\ todo["wait"] = 0
  BY <1>1 DEF IInv, Phases
<1>9. TypeOK'
  <2>1. todo' \in [Unmounters -> 0 .. Len(layers')]
    BY <1>1, <1>6, <1>7 DEF IInv, TypeOK
  <2> QED
    BY <1>4, <1>6, <1>7, <2>1 DEF IInv, TypeOK
<1>10. Phases'
  BY <1>5, <1>6, <1>7, <1>8, Zenon DEF Phases
<1>11. Listed'
  BY <1>6 DEF Listed, Dirs
<1>12. Undone'
  BY <1>7, <1>8 DEF Undone
<1>13. Untold'
  BY <1>1, <1>4, <1>6, <1>7, <1>8 DEF IInv, Untold, Dirs
<1>14. NothingLeft'
  BY <1>7 DEF NothingLeft
<1>15. ParentTells'
  BY <1>6, LayerFacts DEF ParentTells
<1> QED
  BY <1>4, <1>9, <1>10, <1>11, <1>12, <1>13, <1>14, <1>15 DEF IInv

-----------------------------------------------------------------------------
(* The steps that unmount.                                                 *)

LEMMA UmountStep ==
  ASSUME IInv, Umount
  PROVE  IInv'
<1>1. "target" \in Dirs /\ Mountpoint("target") /\ Pop("target")
      /\ Last(stack["target"]) # "other" /\ TypeOK /\ Shapes
  BY DEF IInv, Umount, Dirs
<1>2. /\ Shapes' /\ stack' \in [Dirs -> Seq({"own", "other"})]
      /\ ~OwnMounted("target")'
      /\ \A e \in Dirs : e # "target" => OwnMounted(e)' = OwnMounted(e)
      /\ "other" \in ToSet(stack["target"]) => "other" \in ToSet(stack'["target"])
  BY <1>1, Popped
<1>3. \A e \in Dirs : OwnMounted(e)' => OwnMounted(e)
  BY <1>2
<1>4. /\ UNCHANGED <<readOnly, layers, main, polls, watch, wait, todo, parent, taken>>
      /\ told' = TRUE /\ FirstDir' = FirstDir
  BY DEF Umount, FirstDir, goroutines
<1>5. \A i \in 1 .. Len(layers) : layers[i] \in Dirs
  BY LayerFacts DEF IInv, Phases
<1>6. TypeOK'
  BY <1>2, <1>4 DEF IInv, TypeOK
<1>7. Phases'
  BY <1>4 DEF IInv, Phases
<1>8. Listed'
  BY <1>3, <1>4 DEF IInv, Listed
<1>9. Undone'
  BY <1>3, <1>4, <1>5 DEF IInv, Undone
<1>10. Untold' /\ NothingLeft'
  BY <1>3, <1>4 DEF IInv, Untold, NothingLeft
<1>11. ParentTells'
  BY <1>2, <1>4 DEF IInv, ParentTells
<1> QED
  BY <1>2, <1>6, <1>7, <1>8, <1>9, <1>10, <1>11 DEF IInv

LEMMA UnmountLayerStep ==
  ASSUME IInv, NEW u \in Unmounters, UnmountLayer(u)
  PROVE  IInv'
<1>1. /\ layers \in LayerLists /\ \A i \in 1 .. Len(layers) : layers[i] \in Dirs
      /\ Len(layers) \in 0 .. 2
  BY LayerFacts DEF IInv, Phases
<1>2. todo[u] \in 1 .. Len(layers) /\ todo \in [Unmounters -> 0 .. Len(layers)]
  BY <1>1 DEF IInv, TypeOK, UnmountLayer
<1> PICK d \in Dirs : d = layers[todo[u]]
  BY <1>1, <1>2
<1>3. /\ UNCHANGED <<readOnly, layers, main, polls, watch, wait, parent, told>>
      /\ todo' = [todo EXCEPT ![u] = @ - 1] /\ FirstDir' = FirstDir
  BY DEF UnmountLayer, FirstDir
<1>4. TypeOK /\ Shapes
  BY DEF IInv
<1>5. /\ Shapes' /\ stack' \in [Dirs -> Seq({"own", "other"})]
      /\ ~OwnMounted(d)'
      /\ \A e \in Dirs : e # d => OwnMounted(e)' = OwnMounted(e)
      /\ taken' \in BOOLEAN /\ (taken => taken') /\ (OwnMounted(d) => taken' = taken)
      /\ taken' \/ ("other" \in ToSet(stack["target"]) => "other" \in ToSet(stack'["target"]))
  <2>1. CASE Mountpoint(d)
    <3>1. Pop(d) /\ taken' = (taken \/ Last(stack[d]) = "other")
      BY <2>1 DEF UnmountLayer
    <3>2. /\ Shapes' /\ stack' \in [Dirs -> Seq({"own", "other"})]
          /\ ~OwnMounted(d)'
          /\ \A e \in Dirs : e # d => OwnMounted(e)' = OwnMounted(e)
          /\ OwnMounted(d) => Last(stack[d]) # "other"
          /\ \/ Last(stack[d]) = "other"
             \/ "other" \in ToSet(stack["target"]) => "other" \in ToSet(stack'["target"])
      BY <1>4, <2>1, <3>1, Popped
    <3>3. taken \in BOOLEAN
      BY DEF IInv, TypeOK
    <3> QED
      BY <3>1, <3>2, <3>3
  <2>2. CASE ~Mountpoint(d)
    <3>1. UNCHANGED <<stack, taken>>
      BY <2>2 DEF UnmountLayer
    <3>2. ~OwnMounted(d)
      BY <1>4, <2>2, NotMounted
    <3>3. taken \in BOOLEAN /\ stack \in [Dirs -> Seq({"own", "other"})]
      BY DEF IInv, TypeOK
    <3> QED
      BY <1>4, <3>1, <3>2, <3>3 DEF Shapes, OwnMounted
  <2> QED
    BY <2>1, <2>2
<1>6. \A e \in Dirs : OwnMounted(e)' => OwnMounted(e)
  BY <1>5
<1>7. u = "main" \/ u = "wait"
  BY DEF Unmounters
<1>8. \/ u = "main" /\ main \in {"undo", "term"}
      \/ u = "wait" /\ wait = "unmount"
  <2>1. u = "main" => main \in {"undo", "term"}
    BY <1>2 DEF IInv, TypeOK, Phases, UnmountLayer, Running
  <2>2. u = "wait" => wait = "unmount"
    BY <1>2 DEF IInv, TypeOK, Phases
  <2> QED
    BY <1>7, <2>1, <2>2
<1>9. TypeOK'
  <2>1. todo' \in [Unmounters -> 0 .. Len(layers)]
    BY <1>1, <1>2, <1>3
  <2> QED
    BY <1>3, <1>5, <2>1 DEF IInv, TypeOK
<1>10. Phases'
  <2>1. /\ todo'[u] = todo[u] - 1 /\ todo["main"] \in Nat /\ todo["wait"] \in Nat
        /\ \A v \in Unmounters : v # u => todo'[v] = todo[v]
        /\ "main" \in Unmounters /\ "wait" \in Unmounters
    BY <1>1, <1>2, <1>3 DEF Unmounters
  <2> QED
    BY <1>3, <1>8, <2>1 DEF IInv, Phases
<1>11. Listed'
  BY <1>3, <1>6 DEF IInv, Listed
<1>12. Undone'
  <2>1. \A i \in 1 .. Len(layers) : i > todo'[u] => i = todo[u] \/ i > todo[u]
    BY <1>1, <1>2, <1>3
  <2>2. \A v \in Unmounters : v # u => todo'[v] = todo[v]
    BY <1>2, <1>3
  <2>3. CASE u = "main"
    BY <1>1, <1>3, <1>5, <1>6, <2>1, <2>2, <2>3 DEF IInv, Undone, Unmounters
  <2>4. CASE u = "wait"
    BY <1>1, <1>3, <1>5, <1>6, <2>1, <2>2, <2>4 DEF IInv, Undone, Unmounters
  <2> QED
    BY <1>7, <2>3, <2>4
<1>13. Untold'
  <2> SUFFICES ASSUME ~told PROVE Untold'
    BY <1>3 DEF Untold
  <2>1. \/ u = "main" /\ main = "undo" /\ wait = "none"
        \/ u = "wait" /\ wait = "unmount" /\ main # "undo"
    BY <1>8 DEF IInv, Phases
  <2>2. \A i \in 1 .. todo[u] : OwnMounted(layers[i])
    BY <2>1 DEF IInv, Untold
  <2>3. OwnMounted(d) /\ ~taken
    BY <1>2, <2>2 DEF IInv, Untold
  <2>4. \A i \in 1 .. todo'[u] : i \in 1 .. todo[u] /\ i \in 1 .. Len(layers) /\ i < todo[u]
    BY <1>1, <1>2, <1>3
  <2>5. \A i \in 1 .. todo'[u] : layers[i] # d
    BY <1>1, <1>2, <2>4, LayerFacts
  <2>6. \A i \in 1 .. todo'[u] : OwnMounted(layers[i])'
    BY <1>1, <1>3, <1>5, <2>2, <2>4, <2>5
  <2> QED
    BY <1>3, <1>5, <2>1, <2>3, <2>6 DEF Untold
<1>14. NothingLeft' /\ ParentTells'
  BY <1>3, <1>5, <1>8 DEF IInv, NothingLeft, ParentTells, UnmountLayer, Running
<1> QED
  BY <1>5, <1>9, <1>10, <1>11, <1>12, <1>13, <1>14 DEF IInv

-----------------------------------------------------------------------------
LEMMA NextIInv ==
  ASSUME IInv, [Next]_vars
  PROVE  IInv'
<1>1. CASE Main
  BY <1>1, MountROStep, PrepareStep, OverlayStep, PollStep, MountedStep, EnterLoopStep,
     MountROFailStep, WaitMountFailStep, ChmodFailStep, MountFailStep, SelectExitStep,
     MainUnmountedStep DEF Main
<1>2. CASE Watch \/ Wait
  BY <1>2, AddWatchStep, WatchPanicStep, UnmountedStep, WaitDoneStep, WaitUnmountedStep
     DEF Watch, Wait
<1>3. CASE \E u \in Unmounters : UnmountLayer(u)
  BY <1>3, UnmountLayerStep
<1>4. CASE Term \/ Umount \/ ReadFail \/ ParentSees \/ ParentError \/ ParentKills
  BY <1>4, TermStep, UmountStep, ReadFailStep, ParentSeesStep, ParentErrorStep,
     ParentKillsStep
<1>5. CASE UNCHANGED vars
  BY <1>5 DEF vars, goroutines, history, IInv, TypeOK, Shapes, Phases, Listed, Undone,
     Untold, NothingLeft, ParentTells, OwnMounted, FirstDir
<1> QED
  BY <1>1, <1>2, <1>3, <1>4, <1>5 DEF Next

(* Mount, watch, Wait and Unmount keep fs.layers and the kernel's stacks   *)
(* in step through every failure, signal and umount from outside.          *)
THEOREM Invariant == Spec => []IInv
BY InitIInv, NextIInv, PTL DEF Spec

(* Every variable keeps its type; no call of Unmount goes beyond fs.layers. *)
THEOREM TypeCorrect == Spec => []TypeOK
<1>1. IInv => TypeOK
  BY DEF IInv
<1> QED BY <1>1, Invariant, PTL

(* g8ufs.go, Mount and Unmount: a process that ends in order leaves none   *)
(* of its mounts behind, whatever step of Mount failed and however its two *)
(* calls of Unmount interleave with each other and with umount(8).         *)
THEOREM NothingIsLeft == Spec => []NothingLeft
<1>1. IInv => NothingLeft
  BY DEF IInv
<1> QED BY <1>1, Invariant, PTL

(* g8ufs.go, Unmount: as long as there was no umount(8) and no SIGTERM, the *)
(* process takes down only what it mounted, never an earlier mount.        *)
THEOREM OthersAreKept == Spec => []OthersKept
<1>1. IInv => OthersKept
  BY DEF IInv, Untold, OthersKept
<1> QED BY <1>1, Invariant, PTL

(* mount.go, the parent of a daemon: it says that the mount happened only  *)
(* once Mount got as far as the target, or because of someone else's mount. *)
THEOREM ParentTellsTruth == Spec => []ParentTells
<1>1. IInv => ParentTells
  BY DEF IInv
<1> QED BY <1>1, Invariant, PTL
=============================================================================
