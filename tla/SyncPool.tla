------------------------------ MODULE SyncPool ------------------------------
(***************************************************************************)
(* The synchronous connection pool of cubrid-pool (SyncPool), used by      *)
(* several threads at once.                                                *)
(*                                                                         *)
(* A caller stands for one pooled connection's life: the call of get, the  *)
(* SyncPooledConnection it returns, and its drop (a thread that holds two  *)
(* connections is two callers).  Each action is one critical section of    *)
(* the pool's mutex, or one step a thread takes without it: get opens a    *)
(* new connection with the mutex released, and takes it again when that    *)
(* fails.                                                                  *)
(*                                                                         *)
(* `open' is the set of sockets this process has open to the database: it  *)
(* is what a leaked or doubly used connection shows up in.                 *)
(***************************************************************************)
EXTENDS Integers, Sequences, FiniteSets, Functions

CONSTANTS Callers,     \* uses of the pool that may overlap
          Conns,       \* identities of client connections
          NoConn,      \* a caller that has no connection
          MaxSize,     \* PoolConfig::max_size
          MinIdle      \* PoolConfig::min_idle

(* PoolConfig::validate: max_size > 0 and min_idle <= max_size. *)
ASSUME ConfigAssumption ==
    /\ MaxSize \in Nat \ {0}
    /\ MinIdle \in Nat
    /\ MinIdle <= MaxSize

ASSUME CallersAssumption == IsFiniteSet(Callers)

ASSUME NoConnAssumption == NoConn \notin Conns

VARIABLES
    (* The pool. *)
    phase,             \* "building" (in new), "alive", "gone" (SyncPool dropped)
    idle,              \* SyncPoolInner::idle
    active_count,      \* SyncPoolInner::active_count
    closed,            \* SyncPoolInner::closed
    (* Its callers. *)
    pc,                \* where each caller is
    held,              \* SyncPooledConnection::client
    outcome,           \* what the caller's last get returned
    (* The clients' sockets. *)
    open               \* clients whose conn is Some

vars == <<phase, idle, active_count, closed, pc, held, outcome, open>>

(* Callers that hold a SyncPooledConnection, and those inside or past get. *)
Holders == {p \in Callers : pc[p] = "holding"}

Busy == {p \in Callers : pc[p] # "free"}

(* Clients that exist: in the queue or with a caller. *)
Clients == Range(idle) \cup {held[p] : p \in Holders}

(* A connection that Client::connect can return is a new one. *)
Fresh == Conns \ (Clients \cup open)

TypeOK ==
    /\ phase \in {"building", "alive", "gone"}
    /\ idle \in Seq(Conns)
    /\ active_count \in Nat
    /\ closed \in BOOLEAN
    /\ pc \in [Callers -> {"free", "connecting", "failed", "holding"}]
    /\ held \in [Callers -> Conns \cup {NoConn}]
    /\ outcome \in [Callers -> {"none", "ok", "error", "closed", "exhausted"}]
    /\ open \subseteq Conns

Init ==
    /\ phase = "building"
    /\ idle = <<>>
    /\ active_count = 0
    /\ closed = FALSE
    /\ pc = [p \in Callers |-> "free"]
    /\ held = [p \in Callers |-> NoConn]
    /\ outcome = [p \in Callers |-> "none"]
    /\ open = {}

-----------------------------------------------------------------------------
(* SyncPool::new: min_idle connections, one after the other. *)

NewConnect ==
    /\ phase = "building"
    /\ Len(idle) < MinIdle
    /\ \E c \in Fresh :
          /\ idle' = Append(idle, c)
          /\ open' = open \cup {c}
    /\ UNCHANGED <<phase, active_count, closed, pc, held, outcome>>

(* One of them fails: `?' drops the clients opened so far, and dropping a  *)
(* client closes it.  The application may call new again.                  *)
NewError ==
    /\ phase = "building"
    /\ Len(idle) < MinIdle
    /\ idle' = <<>>
    /\ open' = open \ Range(idle)
    /\ UNCHANGED <<phase, active_count, closed, pc, held, outcome>>

NewDone ==
    /\ phase = "building"
    /\ Len(idle) = MinIdle
    /\ phase' = "alive"
    /\ UNCHANGED <<idle, active_count, closed, pc, held, outcome, open>>

-----------------------------------------------------------------------------
(* SyncPool::get *)

GetClosed(p) ==
    /\ phase = "alive"
    /\ pc[p] = "free"
    /\ closed
    /\ outcome' = [outcome EXCEPT ![p] = "closed"]
    /\ UNCHANGED <<phase, idle, active_count, closed, pc, held, open>>

(* Mutant of GetIdle: front() instead of pop_front(). *)
GetIdlePeeks(p) ==
    /\ phase = "alive"
    /\ pc[p] = "free"
    /\ ~closed
    /\ idle # <<>>
    /\ held' = [held EXCEPT ![p] = Head(idle)]
    /\ UNCHANGED idle
    /\ active_count' = active_count + 1
    /\ pc' = [pc EXCEPT ![p] = "holding"]
    /\ outcome' = [outcome EXCEPT ![p] = "ok"]
    /\ UNCHANGED <<phase, closed, open>>

GetIdle(p) ==
    /\ phase = "alive"
    /\ pc[p] = "free"
    /\ ~closed
    /\ idle # <<>>
    /\ held' = [held EXCEPT ![p] = Head(idle)]
    /\ idle' = Tail(idle)
    /\ active_count' = active_count + 1
    /\ pc' = [pc EXCEPT ![p] = "holding"]
    /\ outcome' = [outcome EXCEPT ![p] = "ok"]
    /\ UNCHANGED <<phase, closed, open>>

(* Mutant of GetReserve: `<=' in the comparison with max_size. *)
GetReserveOneMore(p) ==
    /\ phase = "alive"
    /\ pc[p] = "free"
    /\ ~closed
    /\ idle = <<>>
    /\ active_count + Len(idle) <= MaxSize
    /\ active_count' = active_count + 1
    /\ pc' = [pc EXCEPT ![p] = "connecting"]
    /\ UNCHANGED <<phase, idle, closed, held, outcome, open>>

(* Mutant of GetReserve: the place is not counted before the mutex is released. *)
GetReserveUncounted(p) ==
    /\ phase = "alive"
    /\ pc[p] = "free"
    /\ ~closed
    /\ idle = <<>>
    /\ active_count + Len(idle) < MaxSize
    /\ pc' = [pc EXCEPT ![p] = "connecting"]
    /\ UNCHANGED <<phase, idle, active_count, closed, held, outcome, open>>

(* Room is left: the place is counted, and the mutex released. *)
GetReserve(p) ==
    /\ phase = "alive"
    /\ pc[p] = "free"
    /\ ~closed
    /\ idle = <<>>
    /\ active_count + Len(idle) < MaxSize
    /\ active_count' = active_count + 1
    /\ pc' = [pc EXCEPT ![p] = "connecting"]
    /\ UNCHANGED <<phase, idle, closed, held, outcome, open>>

GetExhausted(p) ==
    /\ phase = "alive"
    /\ pc[p] = "free"
    /\ ~closed
    /\ idle = <<>>
    /\ active_count + Len(idle) >= MaxSize
    /\ outcome' = [outcome EXCEPT ![p] = "exhausted"]
    /\ UNCHANGED <<phase, idle, active_count, closed, pc, held, open>>

(* Client::connect returns, without the mutex. *)
ConnectOk(p) ==
    /\ pc[p] = "connecting"
    /\ \E c \in Fresh :
          /\ held' = [held EXCEPT ![p] = c]
          /\ open' = open \cup {c}
    /\ pc' = [pc EXCEPT ![p] = "holding"]
    /\ outcome' = [outcome EXCEPT ![p] = "ok"]
    /\ UNCHANGED <<phase, idle, active_count, closed>>

(* Mutant of ConnectError: the place is given up here and again in GetFailed. *)
ConnectErrorGivesUp(p) ==
    /\ pc[p] = "connecting"
    /\ pc' = [pc EXCEPT ![p] = "failed"]
    /\ active_count' = active_count - 1
    /\ UNCHANGED <<phase, idle, closed, held, outcome, open>>

ConnectError(p) ==
    /\ pc[p] = "connecting"
    /\ pc' = [pc EXCEPT ![p] = "failed"]
    /\ UNCHANGED <<phase, idle, active_count, closed, held, outcome, open>>

(* Mutant of GetFailed: the place of a failed connect is not given back. *)
GetFailedKeepsPlace(p) ==
    /\ pc[p] = "failed"
    /\ pc' = [pc EXCEPT ![p] = "free"]
    /\ outcome' = [outcome EXCEPT ![p] = "error"]
    /\ UNCHANGED <<phase, idle, active_count, closed, held, open>>

(* The mutex is taken again to give the place back. *)
GetFailed(p) ==
    /\ pc[p] = "failed"
    /\ active_count' = active_count - 1
    /\ pc' = [pc EXCEPT ![p] = "free"]
    /\ outcome' = [outcome EXCEPT ![p] = "error"]
    /\ UNCHANGED <<phase, idle, closed, held, open>>

-----------------------------------------------------------------------------
(* The life of a pooled connection *)

(* DerefMut lets the holder close the client itself. *)
ClientClose(p) ==
    /\ pc[p] = "holding"
    /\ held[p] \in open
    /\ open' = open \ {held[p]}
    /\ UNCHANGED <<phase, idle, active_count, closed, pc, held, outcome>>

(* No SyncPool and no pooled connection but p's refers to the pool. *)
LastReference(p) == phase = "gone" /\ Holders \ {p} = {}

(* Mutant of Drop: without the test of is_closed. *)
DropIgnoresDead(p) ==
    /\ pc[p] = "holding"
    /\ active_count' = active_count - 1
    /\ LET usable == ~closed
           back   == IF usable THEN Append(idle, held[p]) ELSE idle
           left   == IF usable THEN open ELSE open \ {held[p]}
       IN IF LastReference(p)
             THEN idle' = <<>> /\ open' = left \ Range(back)
             ELSE idle' = back /\ open' = left
    /\ held' = [held EXCEPT ![p] = NoConn]
    /\ pc' = [pc EXCEPT ![p] = "free"]
    /\ UNCHANGED <<phase, closed, outcome>>

(* Drop puts a usable client back into an open pool and drops (closes) any *)
(* other; with the last reference the pool goes too, and what it keeps.    *)
Drop(p) ==
    /\ pc[p] = "holding"
    /\ active_count' = active_count - 1
    /\ LET usable == ~closed /\ held[p] \in open
           back   == IF usable THEN Append(idle, held[p]) ELSE idle
           left   == IF usable THEN open ELSE open \ {held[p]}
       IN IF LastReference(p)
             THEN idle' = <<>> /\ open' = left \ Range(back)
             ELSE idle' = back /\ open' = left
    /\ held' = [held EXCEPT ![p] = NoConn]
    /\ pc' = [pc EXCEPT ![p] = "free"]
    /\ UNCHANGED <<phase, closed, outcome>>

-----------------------------------------------------------------------------
(* The pool's end *)

(* Mutant of Close: the queue is cleared, the clients are not closed. *)
CloseForgetsClients ==
    /\ phase = "alive"
    /\ closed' = TRUE
    /\ idle' = <<>>
    /\ UNCHANGED open
    /\ UNCHANGED <<phase, active_count, pc, held, outcome>>

(* SyncPool::close, all under the mutex. *)
Close ==
    /\ phase = "alive"
    /\ closed' = TRUE
    /\ idle' = <<>>
    /\ open' = open \ Range(idle)
    /\ UNCHANGED <<phase, active_count, pc, held, outcome>>

(* The SyncPool itself is dropped: get borrows it, so no get is under way. *)
(* The idle clients go with it unless a pooled connection refers to it.    *)
DropPool ==
    /\ phase = "alive"
    /\ Busy = Holders
    /\ phase' = "gone"
    /\ IF Holders = {}
          THEN idle' = <<>> /\ open' = open \ Range(idle)
          ELSE UNCHANGED <<idle, open>>
    /\ UNCHANGED <<active_count, closed, pc, held, outcome>>

-----------------------------------------------------------------------------

Next ==
    \/ NewConnect
    \/ NewError
    \/ NewDone
    \/ Close
    \/ DropPool
    \/ \E p \in Callers :
          \/ GetClosed(p)
          \/ GetIdle(p)
          \/ GetReserve(p)
          \/ GetExhausted(p)
          \/ ConnectOk(p)
          \/ ConnectError(p)
          \/ GetFailed(p)
          \/ ClientClose(p)
          \/ Drop(p)

Spec == Init /\ [][Next]_vars

(* Every thread runs on: a connect attempt returns (its timeout bounds it),*)
(* a mutex is obtained, and a caller drops its connection at some time.    *)
Fairness ==
    \A p \in Callers :
        /\ WF_vars(ConnectOk(p) \/ ConnectError(p))
        /\ WF_vars(GetFailed(p))
        /\ WF_vars(Drop(p))

FairSpec == Spec /\ Fairness

-----------------------------------------------------------------------------
(* Properties *)

(* PoolStatus::active_count is exactly the number of calls that own a      *)
(* place: connecting, failed and not yet back under the mutex, or holding. *)
(* With it, `active_count -= 1' in get and in Drop never underflows: no    *)
(* panic under the mutex, so the mutex is never poisoned.                  *)
ActiveCountExact == active_count = Cardinality(Busy)

(* However get, the failing connects, the drops and close interleave, the  *)
(* pool never counts more than max_size connections.                       *)
CapacityBound == active_count + Len(idle) <= MaxSize

(* The database never sees more than max_size sockets of this pool, those  *)
(* about to be opened included: the check in get and the connect outside   *)
(* the mutex cannot overshoot together.                                    *)
SocketBound ==
    Cardinality(open) + Cardinality({p \in Callers : pc[p] = "connecting"})
        <= MaxSize

(* A connection is with one caller or once in the queue, never both, never *)
(* twice.                                                                  *)
ExclusiveOwnership ==
    /\ IsInjective(idle)
    /\ \A p, q \in Holders : held[p] = held[q] => p = q
    /\ \A p \in Holders : held[p] \in Conns \ Range(idle)

(* The queue holds only clients that are not closed, so get hands out no   *)
(* client whose every call would fail with ConnectionClosed.               *)
IdleUsable == Range(idle) \subseteq open

(* Every open socket belongs to somebody who will close it.                *)
NoOrphanSocket == open \subseteq Clients

(* Once close has run the pool keeps nothing: a connection dropped after   *)
(* it, or racing with it, does not come back.                              *)
ClosedPoolEmpty == closed => idle = <<>>

(* Sockets and clients stay together whatever get, drop, close and the end *)
(* of the pool do to each other: no caller is handed a client that is      *)
(* closed, no socket is left behind, a closed pool keeps none.             *)
SocketsAccounted == IdleUsable /\ NoOrphanSocket /\ ClosedPoolEmpty

(* What holds with it at the pool's two ends: nobody uses a pool that new  *)
(* has not returned, and no get is under way once the SyncPool is dropped. *)
QuietEnds ==
    /\ phase = "building" => Busy = {} /\ ~closed /\ Len(idle) <= MinIdle
    /\ phase = "gone" => Busy = Holders

(* The inductive invariant of the pool. *)
IInv ==
    /\ TypeOK
    /\ ActiveCountExact
    /\ CapacityBound
    /\ ExclusiveOwnership
    /\ IdleUsable
    /\ NoOrphanSocket
    /\ ClosedPoolEmpty
    /\ QuietEnds

(* get answers PoolExhausted only if max_size places are really in use.    *)
ExhaustedOnlyWhenFull ==
    [][\A p \in Callers :
         outcome'[p] = "exhausted" /\ outcome[p] # "exhausted"
            => Cardinality(Busy) = MaxSize]_vars

(* After close, or once the SyncPool is dropped, every socket is closed as *)
(* soon as the callers let go: also the one a get was opening meanwhile.   *)
SocketsReleased == (closed \/ phase = "gone") ~> (open = {})

(* The pool keeps the promises of BoundedPool and loses no place.          *)
Abstract == INSTANCE BoundedPool WITH
    ready  <- phase # "building",
    lent   <- {held[p] : p \in Holders},
    kept   <- IF phase = "building" THEN {} ELSE Range(idle),
    places <- active_count,
    Lossy  <- FALSE

ImplementsBoundedPool == Abstract!Spec
=============================================================================
