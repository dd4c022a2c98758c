------------------------------ MODULE MCWinBle ------------------------------
(* One device and two attempts to connect it: enough for attempts that       *)
(* overlap, for a radio reset under one of them, and for a late event of one *)
(* that meets the session of the other.                                      *)
EXTENDS WinBle

CONSTANT d1
=============================================================================
