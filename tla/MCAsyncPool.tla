----------------------------- MODULE MCAsyncPool ----------------------------
(* Instances of AsyncPool for TLC: the .cfg files give its constants their values. *)
EXTENDS AsyncPool
=============================================================================
