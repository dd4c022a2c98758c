--------------------------- MODULE MCWinSubtitle ---------------------------
(* Two devices and two recordings: two of one device that overlap, or one of *)
(* each that share the overlay.                                              *)
EXTENDS WinSubtitle, TLC

CONSTANTS d1, d2

Alike == Permutations(Devices)
=============================================================================
