-------------------------- MODULE MCAudioPipeline --------------------------
(***************************************************************************)
(* AudioPipeline on a small instance, for TLC.                             *)
(***************************************************************************)
EXTENDS AudioPipeline

=============================================================================
