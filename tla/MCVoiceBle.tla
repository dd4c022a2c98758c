----------------------------- MODULE MCVoiceBle -----------------------------
(* Audio and interval requests in behaviours of their own: they share nothing
   but the link. *)
EXTENDS VoiceBle

MCLoads == {{"audio", "control"}, {"interval"}}
MCMaxEvents == [l \in MCLoads |-> IF "interval" \in l THEN 1 ELSE 2]
=============================================================================
