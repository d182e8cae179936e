---------------------------- MODULE BoundedPool ----------------------------
(***************************************************************************)
(* What a connection pool of cubrid-pool promises its callers, without a   *)
(* lock, a queue order or a thread: a connection is lent to one caller at  *)
(* a time or kept for the next one, never both; what is lent, what is kept *)
(* and what is being opened never exceeds MaxSize; a closed pool keeps     *)
(* nothing and lends nothing it kept.  SyncPool and AsyncPool implement it.*)
(*                                                                         *)
(* `places' is the number PoolStatus::active_count shows.  A place  *)
(* that is taken but lends no connection is one being opened or, when      *)
(* Lossy, one that was lost: it stays counted for ever.                    *)
(***************************************************************************)
EXTENDS Integers, FiniteSets

CONSTANTS Conns,       \* identities of connections
          MaxSize,     \* PoolConfig::max_size
          Lossy        \* may a place stay counted once its connection is gone?

VARIABLES ready,       \* the pool's constructor has returned it
          lent,        \* connections handed out to callers
          kept,        \* connections waiting in the pool
          places,      \* places counted as in use
          closed       \* the pool was closed

vars == <<ready, lent, kept, places, closed>>

Init ==
    /\ ready = FALSE
    /\ lent = {}
    /\ kept = {}
    /\ places = 0
    /\ closed = FALSE

(* The constructor returns the pool with the connections it opened. *)
Start ==
    /\ ~ready
    /\ ready' = TRUE
    /\ kept' \subseteq Conns
    /\ Cardinality(kept') <= MaxSize
    /\ UNCHANGED <<lent, places, closed>>

(* A caller takes a place and starts to open a connection for it. *)
Reserve ==
    /\ ready
    /\ ~closed
    /\ kept = {}
    /\ places < MaxSize
    /\ places' = places + 1
    /\ UNCHANGED <<ready, lent, kept, closed>>

(* The connection of a reserved place is open and handed out. *)
Fill ==
    /\ ready
    /\ Cardinality(lent) < places
    /\ \E c \in Conns \ (lent \cup kept) : lent' = lent \cup {c}
    /\ UNCHANGED <<ready, kept, places, closed>>

(* A reserved place whose connection could not be opened is given up. *)
Release ==
    /\ ready
    /\ Cardinality(lent) < places
    /\ places' = places - 1
    /\ UNCHANGED <<ready, lent, kept, closed>>

(* A kept connection is handed out. *)
Reuse ==
    /\ ready
    /\ ~closed
    /\ \E c \in kept : kept' = kept \ {c} /\ lent' = lent \cup {c}
    /\ places' = places + 1
    /\ UNCHANGED <<ready, closed>>

(* A lent connection comes back to an open pool. *)
GiveBack ==
    /\ ready
    /\ ~closed
    /\ \E c \in lent : lent' = lent \ {c} /\ kept' = kept \cup {c}
    /\ places' = places - 1
    /\ UNCHANGED <<ready, closed>>

(* A lent connection is thrown away with its place. *)
Discard ==
    /\ ready
    /\ \E c \in lent : lent' = lent \ {c}
    /\ places' = places - 1
    /\ UNCHANGED <<ready, kept, closed>>

(* A lent connection is thrown away and its place stays counted. *)
Lose ==
    /\ Lossy
    /\ ready
    /\ \E c \in lent : lent' = lent \ {c}
    /\ UNCHANGED <<ready, kept, places, closed>>

(* The pool is closed, with the connections it kept. *)
Close ==
    /\ ready
    /\ closed' = TRUE
    /\ kept' = {}
    /\ UNCHANGED <<ready, lent, places>>

(* The pool's memory is freed: by then nothing is lent any more. *)
Free ==
    /\ ready
    /\ kept' = {}
    /\ lent' = {}
    /\ Cardinality(lent) <= 1
    /\ \/ places' = places - Cardinality(lent)
       \/ Lossy /\ places' = places
    /\ UNCHANGED <<ready, closed>>

Next ==
    \/ Start
    \/ Reserve
    \/ Fill
    \/ Release
    \/ Reuse
    \/ GiveBack
    \/ Discard
    \/ Lose
    \/ Close
    \/ Free

Spec == Init /\ [][Next]_vars
=============================================================================
