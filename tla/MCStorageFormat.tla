-------------------------- MODULE MCStorageFormat ---------------------------
(* The instances of StorageFormat that TLC checks: the server's role and the   *)
(* place of its metadata directory are given by the configuration files.        *)
EXTENDS StorageFormat
=============================================================================
