----------------------------- MODULE RofsProofs -----------------------------
(***************************************************************************)
(* Theorems about the operations of the filesystem under reloads, for      *)
(* every set of threads, names and files, every number of edits and every  *)
(* length of the signal channel.                                           *)
(*                                                                         *)
(* What an operation may read is always among the stores of its window     *)
(* (Windowed), and what it has read so far comes from there (Seen); a      *)
(* window only grows while its operation runs.                             *)
(***************************************************************************)
EXTENDS Rofs, TLAPS, FiniteSetTheorems

(* Whoever is in an operation has seen the stores it could read now.       *)
Windowed ==
  \A t \in Threads :
    /\ pc[t] # "idle" => Stores \subseteq window[t]
    /\ pc[t] = "undefined" => \E a, b \in window[t] : a # b

(* What an operation took from the meta store it found in its window.      *)
Seen ==
  \A t \in Threads :
    /\ file[t] # None => file[t] \in During(t)
    /\ fd[t] # None => fd[t] \in During(t)
    /\ Answered(t, "OK") => attr[t] \in During(t)
    /\ Answered(t, "ENOENT") => None \in During(t)

IInv == TypeOK /\ Windowed /\ Seen

-----------------------------------------------------------------------------
LEMMA InitIInv == Init => IInv
<1> SUFFICES ASSUME Init PROVE IInv
  OBVIOUS
<1> USE ReloadAssumption, RofsAssumption
<1>1. ReloadTypeOK
  BY DEF Init, ReloadInit, ReloadTypeOK, Edits
<1>2. TypeOK
  BY <1>1 DEF Init, TypeOK
<1>3. Windowed
  BY DEF Init, Windowed
<1>4. Seen
  BY DEF Init, Seen, Answered
<1> QED
  BY <1>2, <1>3, <1>4 DEF IInv

LEMMA StoresType == TypeOK => Stores \subseteq Edits
BY DEF TypeOK, ReloadTypeOK, Stores

(* The signal channel and the loop keep their types.                       *)
LEMMA ReloadTypes == ReloadTypeOK /\ ReloadNext => ReloadTypeOK'
<1> SUFFICES ASSUME ReloadTypeOK, ReloadNext PROVE ReloadTypeOK'
  OBVIOUS
<1> USE ReloadAssumption DEF ReloadTypeOK, Edits
<1>1. CASE Edit
  BY <1>1 DEF Edit
<1>2. CASE Hup
  BY <1>2 DEF Hup, Notify
<1>3. CASE Term
  BY <1>3 DEF Term, Notify
<1>4. CASE Umount
  BY <1>4 DEF Umount
<1>5. CASE SelectHup
  BY <1>5 DEF SelectHup
<1>6. CASE SelectTerm
  <2>1. sig' \in Seq({"hup", "term"}) /\ Len(sig') <= SigBuffer
    BY <1>6 DEF SelectTerm
  <2>2. mounted' \in BOOLEAN
    BY <1>6 DEF SelectTerm
  <2> QED
    BY <1>6, <2>1, <2>2 DEF SelectTerm
<1>7. CASE SelectExit \/ NoLayers \/ ReadLayers \/ ReloadFail \/ Build \/ SetMetaStore
  BY <1>7 DEF SelectExit, NoLayers, ReadLayers, ReloadFail, Build, SetMetaStore
<1> QED
  BY <1>1, <1>2, <1>3, <1>4, <1>5, <1>6, <1>7 DEF ReloadNext, Loop


LEMMA TypeStep == TypeOK /\ [Next]_vars => TypeOK'
<1> SUFFICES ASSUME TypeOK, [Next]_vars PROVE TypeOK'
  OBVIOUS
<1> USE RofsAssumption
<1>1. CASE UNCHANGED vars
  BY <1>1 DEF vars, arg, reloadVars, TypeOK, ReloadTypeOK
<1>2. CASE ReloadStep
  <2>1. ReloadTypeOK'
    BY <1>2, ReloadTypes DEF TypeOK, ReloadStep
  <2>2. Stores' \subseteq Edits
    BY <2>1 DEF ReloadTypeOK, Stores
  <2>3. window' \in [Threads -> SUBSET Edits]
    BY <1>2, <2>2 DEF TypeOK, ReloadStep
  <2> QED
    BY <1>2, <2>1, <2>3 DEF TypeOK, ReloadStep, arg
<1>3. ASSUME NEW t \in Threads, Operation(t) PROVE TypeOK'
  <2>1. Stores \subseteq Edits
    BY StoresType
  <2>2. \A s \in Stores : Get(t, s) \in Files \cup {None}
    BY <2>1 DEF Get, TypeOK
  <2>3. UNCHANGED reloadVars => ReloadTypeOK'
    BY DEF TypeOK, ReloadTypeOK, reloadVars
  <2>4. ASSUME NEW n \in Names, NEW o \in {"getattr", "open", "look"}, Begin(t, o, n)
        PROVE  /\ op' \in [Threads -> {"none", "getattr", "open", "look"}]
               /\ name' \in [Threads -> Names]
               /\ {file', fd', attr'} \subseteq [Threads -> Files \cup {None}]
               /\ window' \in [Threads -> SUBSET Edits]
               /\ UNCHANGED reloadVars
    BY <2>1, <2>4 DEF Begin, TypeOK
  <2>5. ASSUME NEW n \in Names, GetAttr(t, n) PROVE TypeOK'
    BY <2>3, <2>4, <2>5 DEF GetAttr, TypeOK
  <2>6. ASSUME NEW n \in Names, OpenForWriting(t, n) PROVE TypeOK'
    BY <2>3, <2>4, <2>6 DEF OpenForWriting, Return, TypeOK
  <2>7. ASSUME NEW n \in Names, Open(t, n) PROVE TypeOK'
    BY <2>3, <2>4, <2>7 DEF Open, TypeOK
  <2>8. ASSUME NEW n \in Names, Look(t, n) PROVE TypeOK'
    BY <2>3, <2>4, <2>8 DEF Look, TypeOK
  <2>9. CASE OpenGet(t)
    BY <2>2, <2>3, <2>9 DEF OpenGet, Return, GoOn, arg, TypeOK
  <2>10. CASE Fetch(t)
    BY <2>3, <2>10 DEF Fetch, GoOn, arg, TypeOK
  <2>11. CASE AttrGet(t)
    BY <2>2, <2>3, <2>11 DEF AttrGet, Return, arg, TypeOK
  <2>12. CASE LookGet(t)
    BY <2>2, <2>3, <2>12 DEF LookGet, Return, arg, TypeOK
  <2>13. CASE Torn(t)
    BY <2>3, <2>13 DEF Torn, arg, TypeOK
  <2> QED
    BY <1>3, <2>5, <2>6, <2>7, <2>8, <2>9, <2>10, <2>11, <2>12, <2>13 DEF Operation
<1> QED
  BY <1>1, <1>2, <1>3 DEF Next

(* A step of an operation leaves the stores alone, and the windows of the  *)
(* others; a step of the loop lets every window that is open grow.         *)
LEMMA WindowedStep == TypeOK /\ Windowed /\ [Next]_vars => Windowed'
<1> SUFFICES ASSUME TypeOK, Windowed, [Next]_vars PROVE Windowed'
  OBVIOUS
<1>1. CASE UNCHANGED vars
  BY <1>1 DEF vars, reloadVars, Windowed, Stores
<1>2. CASE ReloadStep
  BY <1>2 DEF ReloadStep, Windowed, TypeOK
<1>3. ASSUME NEW t \in Threads, Operation(t) PROVE Windowed'
  <2>1. UNCHANGED reloadVars => Stores' = Stores
    BY DEF reloadVars, Stores
  <2>2. ASSUME NEW n \in Names, GetAttr(t, n) \/ OpenForWriting(t, n) \/ Open(t, n) \/ Look(t, n)
        PROVE  Windowed'
    BY <2>1, <2>2
       DEF GetAttr, OpenForWriting, Open, Look, Begin, Return, Windowed, TypeOK
  <2>3. CASE OpenGet(t) \/ Fetch(t) \/ AttrGet(t) \/ LookGet(t)
    BY <2>1, <2>3
       DEF OpenGet, Fetch, AttrGet, LookGet, Return, GoOn, Windowed, TypeOK
  <2>4. CASE Torn(t)
    <3>1. \E a, b \in window[t] : a # b
      BY <2>4 DEF Torn, Looking, Windowed
    <3> QED
      BY <2>1, <2>4, <3>1 DEF Torn, Looking, Windowed, TypeOK
  <2> QED
    BY <1>3, <2>2, <2>3, <2>4 DEF Operation
<1> QED
  BY <1>1, <1>2, <1>3 DEF Next

LEMMA SeenStep == IInv /\ [Next]_vars => Seen'
<1> SUFFICES ASSUME IInv, [Next]_vars, NEW u \in Threads
             PROVE  /\ (file[u] # None => file[u] \in During(u))'
                    /\ (fd[u] # None => fd[u] \in During(u))'
                    /\ (Answered(u, "OK") => attr[u] \in During(u))'
                    /\ (Answered(u, "ENOENT") => None \in During(u))'
  BY DEF Seen
<1>a. TypeOK /\ Windowed /\ Seen
  BY DEF IInv
<1>1. CASE UNCHANGED vars
  BY <1>1, <1>a DEF vars, arg, Seen, During, Answered
<1>2. CASE ReloadStep
  <2>1. During(u) \subseteq During(u)'
    BY <1>2, <1>a DEF ReloadStep, arg, During, TypeOK
  <2> QED
    BY <1>2, <1>a, <2>1 DEF ReloadStep, Seen, Answered
<1>3. ASSUME NEW t \in Threads, Operation(t), t # u
      PROVE  /\ file'[u] = file[u] /\ fd'[u] = fd[u] /\ attr'[u] = attr[u]
             /\ pc'[u] = pc[u] /\ ret'[u] = ret[u]
             /\ name'[u] = name[u] /\ window'[u] = window[u]
  BY <1>3, <1>a
     DEF Operation, GetAttr, OpenForWriting, Open, Look, Begin, OpenGet, Fetch,
         AttrGet, LookGet, Torn, Return, GoOn, arg, TypeOK
<1>4. CASE Operation(u)
  <2>1. Looking(u) => \A s \in Stores : Get(u, s) \in During(u)
    BY <1>a DEF Looking, Windowed, Get, During
  <2>2. UNCHANGED <<arg, window>> => During(u)' = During(u)
    BY DEF arg, During
  <2>3. ASSUME NEW n \in Names, GetAttr(u, n) \/ OpenForWriting(u, n) \/ Open(u, n) \/ Look(u, n)
        PROVE  /\ file'[u] = None /\ fd'[u] = None
               /\ ~Answered(u, "OK")' /\ ~Answered(u, "ENOENT")'
    BY <2>3, <1>a
       DEF GetAttr, OpenForWriting, Open, Look, Begin, Return, Answered, TypeOK
  <2>4. CASE OpenGet(u)
    BY <2>4, <2>1, <2>2, <1>a
       DEF OpenGet, Looking, Return, GoOn, Seen, Answered, TypeOK
  <2>5. CASE Fetch(u)
    BY <2>5, <2>2, <1>a DEF Fetch, GoOn, Seen, Answered, TypeOK
  <2>6. CASE AttrGet(u)
    BY <2>6, <2>1, <2>2, <1>a DEF AttrGet, Looking, Return, Seen, Answered, TypeOK
  <2>7. CASE LookGet(u)
    BY <2>7, <2>1, <2>2, <1>a DEF LookGet, Looking, Return, Seen, Answered, TypeOK
  <2>8. CASE Torn(u)
    BY <2>8, <2>2, <1>a DEF Torn, Seen, Answered, TypeOK
  <2> QED
    BY <1>4, <2>3, <2>4, <2>5, <2>6, <2>7, <2>8 DEF Operation
<1> QED
  BY <1>1, <1>2, <1>3, <1>4, <1>a DEF Next, Seen, During, Answered

(* rofs.go and reload of mount.go: types, what an operation may have read  *)
(* and what it has read, through every reload.                             *)
THEOREM Invariant == Spec => []IInv
<1>1. IInv /\ [Next]_vars => IInv'
  BY TypeStep, WindowedStep, SeenStep DEF IInv
<1> QED
  BY InitIInv, <1>1, PTL DEF Spec

-----------------------------------------------------------------------------
(* The signal channel, the loop and the operations keep their types.       *)
THEOREM TypeCorrect == Spec => []TypeOK
BY Invariant, PTL DEF IInv

(* Every answer comes from a store there was while the operation ran,      *)
(* through any number of reloads and with any number of threads.           *)
THEOREM AnswersAreOfTheirTime == Spec => []AnswersOfItsTime
<1>1. IInv => AnswersOfItsTime
  BY DEF IInv, Seen, AnswersOfItsTime
<1> QED
  BY Invariant, <1>1, PTL

(* Without a reload in between, the two looks of an Open agree, and no     *)
(* interface value is read in two halves.                                  *)
THEOREM LooksAgree == Spec => []AgreesWithoutReload
<1>1. IInv => AgreesWithoutReload
  <2> SUFFICES ASSUME IInv, NEW t \in Threads, Cardinality(window[t]) = 1
               PROVE  /\ Answered(t, "OK") /\ fd[t] # None => attr[t] = fd[t]
                      /\ Answered(t, "ENOENT") => fd[t] = None
                      /\ pc[t] # "undefined"
    BY DEF AgreesWithoutReload
  <2>1. window[t] \in SUBSET (0 .. MaxEdits)
    BY DEF IInv, TypeOK, Edits
  <2>2. IsFiniteSet(window[t])
    <3>1. 0 \in Int /\ MaxEdits \in Int
      BY ReloadAssumption
    <3>2. IsFiniteSet(0 .. MaxEdits)
      BY <3>1, FS_Interval, Zenon
    <3> QED
      BY <2>1, <3>2, FS_Subset, Zenon
  <2>3. PICK s : window[t] = {s}
    BY <2>2, FS_Singleton
  <2>4. During(t) = {Content[s][name[t]]}
    BY <2>3 DEF During
  <2> QED
    BY <2>3, <2>4 DEF IInv, Seen, Windowed
<1> QED
  BY Invariant, <1>1, PTL
=============================================================================
