---------------------- MODULE MCCheckpointPublication ----------------------
(* Three preparations over two versions: an old, a returned and a new one. *)
EXTENDS CheckpointPublication
=============================================================================
