----------------------------- MODULE MCSyncPool -----------------------------
(* Instances of SyncPool for TLC: the .cfg files give its constants their values. *)
EXTENDS SyncPool
=============================================================================
