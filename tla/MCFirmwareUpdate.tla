-------------------------- MODULE MCFirmwareUpdate --------------------------
(* Two transfers, so that the coroutine of the first outlives it. *)
EXTENDS FirmwareUpdate

MCTransfers == 1..2
=============================================================================
