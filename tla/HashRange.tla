----------------------------- MODULE HashRange ------------------------------
(***************************************************************************)
(* storage/router/range.go: the hash ranges of a router.yaml.  NewRange    *)
(* turns "start" or "start:end", in hexadecimal digits, into bytes, and In *)
(* compares them with the first bytes of a block's key.                    *)
(*                                                                         *)
(* A digit is a number below Base, 16 in the code; a byte is two digits.   *)
(***************************************************************************)
EXTENDS Integers, Sequences, SequencesExt

CONSTANTS
  Base,
  MaxDigits,     (* bound on the digits of a start or an end               *)
  HashBytes      (* bytes of a block's key, 16 in the code                 *)

ASSUME HashRangeAssumption ==
  /\ Base \in Nat \ {0, 1} /\ HashBytes \in Nat
  /\ MaxDigits \in 1 .. 2 * HashBytes    (* no range is longer than a key  *)

Digit == 0 .. Base - 1
Byte  == 0 .. Base * Base - 1

DigitStrings == UNION {[1 .. n -> Digit] : n \in 1 .. MaxDigits}
Hashes == [1 .. HashBytes -> Byte]

NoEnd == <<>>

(* A range as it is written; without an end it is an exact match.          *)
Texts == [start : DigitStrings, end : DigitStrings \cup {NoEnd}]

-----------------------------------------------------------------------------
(* The conversions.                                                        *)

NoPad(s) == SubSeq(s, 1, 2 * (Len(s) \div 2))  (* slip: half a byte lost *)

(* HexToBytes makes an odd length even with a zero at the end.             *)
Pad(s) == IF Len(s) % 2 = 1 THEN Append(s, 0) ELSE s

HexToBytes(s) ==
  [i \in 1 .. Len(Pad(s)) \div 2 |-> Base * Pad(s)[2 * i - 1] + Pad(s)[2 * i]]

NewRange(t) ==
  LET start == HexToBytes(t.start)
      end   == HexToBytes(t.end)
      kind  == IF t.end = NoEnd THEN "exact"
               ELSE IF Len(start) # Len(end) THEN "invalid" ELSE "range"
  IN  [kind |-> kind, start |-> start, end |-> end]

(* bytes.Compare(a, b) < 0, for byte strings of one length.                *)
Before(a, b) ==
  \E i \in DOMAIN a : a[i] < b[i] /\ \A j \in 1 .. i - 1 : a[j] = b[j]

AfterEnd(r, head) == Before(r.end, head)

In(r, h) ==
  LET head == SubSeq(h, 1, Len(r.start))
  IN  IF r.kind = "exact" THEN Len(h) >= Len(r.start) /\ head = r.start
      ELSE ~Before(head, r.start) /\ ~AfterEnd(r, head)

-----------------------------------------------------------------------------
(* The ranges of docs/flists/router.md, in digits: an exact range matches  *)
(* the keys that begin with it, a range with an end those whose first      *)
(* digits lie between start and end.                                       *)

Number(digits) ==
  LET n[i \in 0 .. Len(digits)] ==
        IF i = 0 THEN 0 ELSE n[i - 1] * Base + digits[i]
  IN  n[Len(digits)]

Digits(h) ==
  [i \in 1 .. 2 * Len(h) |->
     LET b == h[(i + 1) \div 2] IN IF i % 2 = 1 THEN b \div Base ELSE b % Base]

Prefix(t, h) == SubSeq(Digits(h), 1, Len(t.start))

Meant(t, h) ==
  IF t.end = NoEnd THEN Prefix(t, h) = t.start
  ELSE /\ Number(t.start) <= Number(Prefix(t, h))
       /\ Number(Prefix(t, h)) <= Number(t.end)

WholeBytes(t) == Len(t.start) % 2 = 0 /\ Len(t.end) % 2 = 0

SameLength(t) == Len(t.end) \in {0, Len(t.start)}
=============================================================================
