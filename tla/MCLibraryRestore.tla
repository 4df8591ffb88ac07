------------------------- MODULE MCLibraryRestore -------------------------
(* Three jobs out of restores of two recovery points, an archive creation,  *)
(* a backup and a retention.                                               *)
EXTENDS LibraryRestore
=============================================================================
