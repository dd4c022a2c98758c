--------------------------- MODULE MCCoordinator ---------------------------
(* Small instances of Coordinator: one device. *)
EXTENDS Coordinator

MCDevices == {"a"}
=============================================================================
