--------------------------- MODULE MCStorageReload ---------------------------
(* Two requests against a selection, an archive job and a restore.         *)
EXTENDS StorageReload
=============================================================================
