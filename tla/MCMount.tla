------------------------------- MODULE MCMount -------------------------------
(* Small instances of Mount for TLC; the cfg files give the numbers.       *)
EXTENDS Mount
=============================================================================
