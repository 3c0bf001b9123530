--------------------------- MODULE BlockDownload ---------------------------
(***************************************************************************)
(* What Downloader.Download promises its caller, without goroutines: it    *)
(* stores the file's own blocks, in any order, and returns once.  It       *)
(* returns nil only over a complete file; an error may leave any part of   *)
(* the file behind, and only a failed write may leave a torn block.        *)
(***************************************************************************)
EXTENDS Integers

CONSTANT MaxBlocks

Block   == 0 .. MaxBlocks - 1
Hole    == -1        (* a slot of the file that was never written          *)
Garbage == -2        (* bytes that are not those of any whole block        *)

VARIABLES
  d,           (* the Downloader: [blocks, blockSize, workers]             *)
  file,        (* what each block-sized slot of the output file holds      *)
  ret          (* what Download returned, "none" while it runs             *)

vars == <<d, file, ret>>

Errors == {"noBlocks", "noBlockSize", "block", "write"}

(* The bytes of block i are written as i itself, so a complete file holds  *)
(* block i in slot i.                                                      *)
Complete(f) == \A i \in Block : i < d.blocks => f[i] = i

Init ==
  /\ d \in [blocks : 0 .. MaxBlocks, blockSize : {0, 1}, workers : Nat]
  /\ file \in {[i \in Block |-> b] : b \in {Hole, Garbage}}
  /\ ret = "none"

Store(i) ==
  /\ ret = "none"
  /\ file' = [file EXCEPT ![i] = i]
  /\ UNCHANGED <<d, ret>>

(* A Seek or a Write of slot i fails: the slot is as it was, or torn.      *)
Break(i) ==
  /\ ret = "none"
  /\ file' \in {file, [file EXCEPT ![i] = Garbage]}
  /\ ret' = "write"
  /\ UNCHANGED d

Succeed ==
  /\ ret = "none"
  /\ d.blocks > 0 /\ d.blockSize > 0
  /\ Complete(file)
  /\ ret' = "ok"
  /\ UNCHANGED <<d, file>>

Fail ==
  /\ ret = "none"
  /\ ret' \in Errors \ {"write"}
  /\ ret' = "noBlocks" <=> d.blocks = 0
  /\ ret' = "noBlockSize" <=> d.blocks > 0 /\ d.blockSize = 0
  /\ UNCHANGED <<d, file>>

Return == Succeed \/ Fail \/ \E i \in Block : Break(i)

Next == Return \/ \E i \in Block : Store(i)

Safety == Init /\ [][Next]_vars

(* Download always returns, one way or another.                            *)
Spec == Safety /\ WF_vars(Return)
=============================================================================
