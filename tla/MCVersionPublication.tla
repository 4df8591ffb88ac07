------------------------ MODULE MCVersionPublication ------------------------
(* Two creations, the second of which waits for the first, over three      *)
(* versions.                                                               *)
EXTENDS VersionPublication
=============================================================================
