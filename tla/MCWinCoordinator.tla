-------------------------- MODULE MCWinCoordinator --------------------------
(* Two devices, two recordings: one callback or posted call of the first     *)
(* that comes when the second, or the other device, is at work.              *)
EXTENDS WinCoordinator, TLC

CONSTANTS d1, d2

Alike == Permutations(Devices)
=============================================================================
