--------------------------- MODULE MCSnapshotStore ---------------------------
(* The snapshot store for TLC; the configuration gives the bounds. *)
EXTENDS SnapshotStore
=============================================================================
