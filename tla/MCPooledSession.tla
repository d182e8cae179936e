-------------------------- MODULE MCPooledSession --------------------------
(* Instances of PooledSession for TLC. *)
EXTENDS PooledSession

(* What a guard, a branch of the server or a property looks at.  Left out  *)
(* is what is written only: CAS_INFO, the number of a call, what the last  *)
(* call returned, what was carried out or reported on the connection.      *)
RequestsSeen ==
    [i \in DOMAIN reqs |-> <<reqs[i].no, reqs[i].fc, reqs[i].handle, reqs[i].start, reqs[i].auto>>]

ResponsesSeen ==
    [i \in DOMAIN resps |->
        <<resps[i].fc, resps[i].code, resps[i].sel, resps[i].total, resps[i].rows>>]

CallSeen == <<call.op, call.wait, call.handle, call.sel, call.total, call.rows>>

(* Once a call was broken off, no property asks any more, until the next   *)
(* connection, whose frames, work and handles these are; a Statement of    *)
(* another connection ends what is asked about handles.                    *)
PropertiesSee ==
    IF interrupted
    THEN workers # {}
    ELSE <<[i \in DOMAIN resps |-> resps[i].no], workers, careless, authors, holder,
           io_failed, foreign, IF foreign THEN {} ELSE abandoned>>

SessionView ==
    <<conn, auto_commit, stmts, CallSeen, up, RequestsSeen, ResponsesSeen, server, calls, sent,
      async, place, pool_closed, sessions, old, half, skewed, interrupted, PropertiesSee>>
=============================================================================
