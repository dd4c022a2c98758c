---------------------------- MODULE MCAsrClient ----------------------------
(* Three pieces of audio, and ids for a session on a new connection, one that *)
(* follows on it, and one more connection.                                   *)
EXTENDS AsrClient
=============================================================================
