------------------------ MODULE MCStorageCoordinator ------------------------
(* Two writes, one of them made by an HTTP request, against two freezes.   *)
EXTENDS StorageCoordinator
=============================================================================
