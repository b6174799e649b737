-------------------------- MODULE MCStorageWatcher --------------------------
(* Instances of StorageWatcher for TLC. *)
EXTENDS StorageWatcher

CONSTANTS k1, k2, k3, v1
=============================================================================
