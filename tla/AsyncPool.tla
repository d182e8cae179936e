----------------------------- MODULE AsyncPool -----------------------------
(***************************************************************************)
(* The asynchronous connection pool of cubrid-pool (AsyncPool).  It differs*)
(* from SyncPool in what a task may be suspended in:                       *)
(*   - close holds the tokio mutex across the await of every client's      *)
(*     close, so the other tasks wait for it (`draining');                 *)
(*   - dropping a pooled connection only spawns a task that returns it     *)
(*     later (`returning'), and a connection whose client is closed is     *)
(*     dropped without touching the pool;                                  *)
(*   - a future may be dropped at an await (a timeout, a select!): get     *)
(*     while it connects or waits for the mutex again, close while it      *)
(*     closes a client.                                                    *)
(*                                                                         *)
(* `lost' is not in the code: it counts the places that active_count keeps *)
(* although nobody will ever give them back.                               *)
(***************************************************************************)
EXTENDS Integers, Sequences, FiniteSets, Functions

CONSTANTS Callers,     \* uses of the pool that may overlap
          Conns,       \* identities of client connections
          NoConn,      \* a caller that has no connection
          MaxSize,     \* PoolConfig::max_size
          MinIdle,     \* PoolConfig::min_idle
          Cancels,     \* are get's and close's futures dropped half way?
          ClientCloses \* do holders call Client::close themselves?

(* PoolConfig::validate: max_size > 0 and min_idle <= max_size. *)
ASSUME ConfigAssumption ==
    /\ MaxSize \in Nat \ {0}
    /\ MinIdle \in Nat
    /\ MinIdle <= MaxSize

ASSUME CallersAssumption == IsFiniteSet(Callers)

ASSUME NoConnAssumption == NoConn \notin Conns

ASSUME UseAssumption == Cancels \in BOOLEAN /\ ClientCloses \in BOOLEAN

VARIABLES
    (* The pool. *)
    phase,             \* "building" (in new), "alive", "gone" (AsyncPool dropped)
    idle,              \* AsyncPoolInner::idle
    active_count,      \* AsyncPoolInner::active_count
    closed,            \* AsyncPoolInner::closed
    locked,            \* close holds the mutex
    draining,          \* what close's drain has not closed yet
    (* Its callers and the tasks their drops spawned. *)
    pc,                \* where each caller is
    held,              \* AsyncPooledConnection::client
    outcome,           \* what the caller's last get returned
    returning,         \* connections owned by a spawned return task
    lost,              \* places nobody will give back
    (* The clients' sockets. *)
    open               \* clients whose conn is Some

vars == <<phase, idle, active_count, closed, locked, draining, pc, held, outcome,
          returning, lost, open>>

Holders == {p \in Callers : pc[p] = "holding"}

Busy == {p \in Callers : pc[p] # "free"}

(* Clients that exist: in the queue, in close's drain, with a caller or in *)
(* a return task.                                                          *)
Clients ==
    Range(idle) \cup Range(draining) \cup {held[p] : p \in Holders} \cup returning

Fresh == Conns \ (Clients \cup open)

TypeOK ==
    /\ phase \in {"building", "alive", "gone"}
    /\ idle \in Seq(Conns)
    /\ active_count \in Nat
    /\ closed \in BOOLEAN
    /\ locked \in BOOLEAN
    /\ draining \in Seq(Conns)
    /\ pc \in [Callers -> {"free", "connecting", "failed", "holding"}]
    /\ held \in [Callers -> Conns \cup {NoConn}]
    /\ outcome \in [Callers -> {"none", "ok", "error", "closed", "exhausted"}]
    /\ returning \subseteq Conns
    /\ lost \in Nat
    /\ open \subseteq Conns

Init ==
    /\ phase = "building"
    /\ idle = <<>>
    /\ active_count = 0
    /\ closed = FALSE
    /\ locked = FALSE
    /\ draining = <<>>
    /\ pc = [p \in Callers |-> "free"]
    /\ held = [p \in Callers |-> NoConn]
    /\ outcome = [p \in Callers |-> "none"]
    /\ returning = {}
    /\ lost = 0
    /\ open = {}

-----------------------------------------------------------------------------
(* AsyncPool::new *)

NewConnect ==
    /\ phase = "building"
    /\ Len(idle) < MinIdle
    /\ \E c \in Fresh :
          /\ idle' = Append(idle, c)
          /\ open' = open \cup {c}
    /\ UNCHANGED <<phase, active_count, closed, locked, draining, pc, held, outcome,
                   returning, lost>>

(* A connect fails, or new's future is dropped in it: the clients opened   *)
(* so far are dropped with their sockets.                                  *)
NewError ==
    /\ phase = "building"
    /\ Len(idle) < MinIdle
    /\ idle' = <<>>
    /\ open' = open \ Range(idle)
    /\ UNCHANGED <<phase, active_count, closed, locked, draining, pc, held, outcome,
                   returning, lost>>

NewDone ==
    /\ phase = "building"
    /\ Len(idle) = MinIdle
    /\ phase' = "alive"
    /\ UNCHANGED <<idle, active_count, closed, locked, draining, pc, held, outcome,
                   returning, lost, open>>

-----------------------------------------------------------------------------
(* AsyncPool::get *)

(* get has the mutex: nobody else does, and the pool is there. *)
GetLocked(p) ==
    /\ phase = "alive"
    /\ ~locked
    /\ pc[p] = "free"

GetClosed(p) ==
    /\ GetLocked(p)
    /\ closed
    /\ outcome' = [outcome EXCEPT ![p] = "closed"]
    /\ UNCHANGED <<phase, idle, active_count, closed, locked, draining, pc, held,
                   returning, lost, open>>

(* Mutant of GetIdle: front() instead of pop_front(). *)
GetIdlePeeks(p) ==
    /\ GetLocked(p)
    /\ ~closed
    /\ idle # <<>>
    /\ held' = [held EXCEPT ![p] = Head(idle)]
    /\ UNCHANGED idle
    /\ active_count' = active_count + 1
    /\ pc' = [pc EXCEPT ![p] = "holding"]
    /\ outcome' = [outcome EXCEPT ![p] = "ok"]
    /\ UNCHANGED <<phase, closed, locked, draining, returning, lost, open>>

GetIdle(p) ==
    /\ GetLocked(p)
    /\ ~closed
    /\ idle # <<>>
    /\ held' = [held EXCEPT ![p] = Head(idle)]
    /\ idle' = Tail(idle)
    /\ active_count' = active_count + 1
    /\ pc' = [pc EXCEPT ![p] = "holding"]
    /\ outcome' = [outcome EXCEPT ![p] = "ok"]
    /\ UNCHANGED <<phase, closed, locked, draining, returning, lost, open>>

(* Mutant of GetReserve: `<=' in the comparison with max_size. *)
GetReserveOneMore(p) ==
    /\ GetLocked(p)
    /\ ~closed
    /\ idle = <<>>
    /\ active_count + Len(idle) <= MaxSize
    /\ active_count' = active_count + 1
    /\ pc' = [pc EXCEPT ![p] = "connecting"]
    /\ UNCHANGED <<phase, idle, closed, locked, draining, held, outcome, returning,
                   lost, open>>

(* Mutant of GetReserve: the place is not counted before the mutex is released. *)
GetReserveUncounted(p) ==
    /\ GetLocked(p)
    /\ ~closed
    /\ idle = <<>>
    /\ active_count + Len(idle) < MaxSize
    /\ pc' = [pc EXCEPT ![p] = "connecting"]
    /\ UNCHANGED <<phase, idle, active_count, closed, locked, draining, held, outcome, returning,
                   lost, open>>

GetReserve(p) ==
    /\ GetLocked(p)
    /\ ~closed
    /\ idle = <<>>
    /\ active_count + Len(idle) < MaxSize
    /\ active_count' = active_count + 1
    /\ pc' = [pc EXCEPT ![p] = "connecting"]
    /\ UNCHANGED <<phase, idle, closed, locked, draining, held, outcome, returning,
                   lost, open>>

GetExhausted(p) ==
    /\ GetLocked(p)
    /\ ~closed
    /\ idle = <<>>
    /\ active_count + Len(idle) >= MaxSize
    /\ outcome' = [outcome EXCEPT ![p] = "exhausted"]
    /\ UNCHANGED <<phase, idle, active_count, closed, locked, draining, pc, held,
                   returning, lost, open>>

(* Client::connect(..).await completes, without the mutex. *)
ConnectOk(p) ==
    /\ pc[p] = "connecting"
    /\ \E c \in Fresh :
          /\ held' = [held EXCEPT ![p] = c]
          /\ open' = open \cup {c}
    /\ pc' = [pc EXCEPT ![p] = "holding"]
    /\ outcome' = [outcome EXCEPT ![p] = "ok"]
    /\ UNCHANGED <<phase, idle, active_count, closed, locked, draining, returning, lost>>

ConnectError(p) ==
    /\ pc[p] = "connecting"
    /\ pc' = [pc EXCEPT ![p] = "failed"]
    /\ UNCHANGED <<phase, idle, active_count, closed, locked, draining, held, outcome,
                   returning, lost, open>>

(* Mutant of GetFailed: the place of a failed connect is not given back. *)
GetFailedKeepsPlace(p) ==
    /\ pc[p] = "failed"
    /\ ~locked
    /\ pc' = [pc EXCEPT ![p] = "free"]
    /\ outcome' = [outcome EXCEPT ![p] = "error"]
    /\ UNCHANGED <<phase, idle, active_count, closed, locked, draining, held, returning, lost, open>>

GetFailed(p) ==
    /\ pc[p] = "failed"
    /\ ~locked
    /\ active_count' = active_count - 1
    /\ pc' = [pc EXCEPT ![p] = "free"]
    /\ outcome' = [outcome EXCEPT ![p] = "error"]
    /\ UNCHANGED <<phase, idle, closed, locked, draining, held, returning, lost, open>>

(* The future of get is dropped while it connects, or while it waits for   *)
(* the mutex after a failed connect: no code runs that would give the      *)
(* place back.                                                             *)
GetCancelled(p) ==
    /\ Cancels
    /\ pc[p] \in {"connecting", "failed"}
    /\ pc' = [pc EXCEPT ![p] = "free"]
    /\ lost' = lost + 1
    /\ UNCHANGED <<phase, idle, active_count, closed, locked, draining, held, outcome,
                   returning, open>>

-----------------------------------------------------------------------------
(* The life of a pooled connection *)

ClientClose(p) ==
    /\ ClientCloses
    /\ pc[p] = "holding"
    /\ held[p] \in open
    /\ open' = open \ {held[p]}
    /\ UNCHANGED <<phase, idle, active_count, closed, locked, draining, pc, held,
                   outcome, returning, lost>>

(* No AsyncPool, no pooled connection but those of P, no return task but   *)
(* those of R refers to the pool.                                          *)
LastReference(P, R) ==
    phase = "gone" /\ Holders \subseteq P /\ returning \subseteq R

(* Drop of a connection whose client is closed: the early return. *)
DropDead(p) ==
    /\ pc[p] = "holding"
    /\ held[p] \notin open
    /\ held' = [held EXCEPT ![p] = NoConn]
    /\ pc' = [pc EXCEPT ![p] = "free"]
    /\ lost' = lost + 1
    /\ IF LastReference({p}, {})
          THEN idle' = <<>> /\ open' = open \ Range(idle)
          ELSE UNCHANGED <<idle, open>>
    /\ UNCHANGED <<phase, active_count, closed, locked, draining, outcome, returning>>

(* Mutant of DropSpawn: the place is given back here and again by the task. *)
DropSpawnCounts(p) ==
    /\ pc[p] = "holding"
    /\ held[p] \in open
    /\ returning' = returning \cup {held[p]}
    /\ held' = [held EXCEPT ![p] = NoConn]
    /\ pc' = [pc EXCEPT ![p] = "free"]
    /\ active_count' = active_count - 1
    /\ UNCHANGED <<phase, idle, closed, locked, draining, outcome, lost,
                   open>>

(* Drop of a usable connection: the task is spawned. *)
DropSpawn(p) ==
    /\ pc[p] = "holding"
    /\ held[p] \in open
    /\ returning' = returning \cup {held[p]}
    /\ held' = [held EXCEPT ![p] = NoConn]
    /\ pc' = [pc EXCEPT ![p] = "free"]
    /\ UNCHANGED <<phase, idle, active_count, closed, locked, draining, outcome, lost,
                   open>>

(* Mutant of Return: the task does not look at closed. *)
ReturnIgnoresClose(c) ==
    /\ c \in returning
    /\ ~locked
    /\ active_count' = active_count - 1
    /\ returning' = returning \ {c}
    /\ LET back == Append(idle, c)
           left == open
       IN IF LastReference({}, {c})
             THEN idle' = <<>> /\ open' = left \ Range(back)
             ELSE idle' = back /\ open' = left
    /\ UNCHANGED <<phase, closed, locked, draining, pc, held, outcome, lost>>

(* The task gets the mutex. *)
Return(c) ==
    /\ c \in returning
    /\ ~locked
    /\ active_count' = active_count - 1
    /\ returning' = returning \ {c}
    /\ LET back == IF closed THEN idle ELSE Append(idle, c)
           left == IF closed THEN open \ {c} ELSE open
       IN IF LastReference({}, {c})
             THEN idle' = <<>> /\ open' = left \ Range(back)
             ELSE idle' = back /\ open' = left
    /\ UNCHANGED <<phase, closed, locked, draining, pc, held, outcome, lost>>

-----------------------------------------------------------------------------
(* The pool's end *)

(* AsyncPool::close gets the mutex and starts to drain. *)
CloseStart ==
    /\ phase = "alive"
    /\ ~locked
    /\ closed' = TRUE
    /\ locked' = TRUE
    /\ draining' = idle
    /\ idle' = <<>>
    /\ UNCHANGED <<phase, active_count, pc, held, outcome, returning, lost, open>>

(* client.close().await for the next client. *)
CloseClient ==
    /\ locked
    /\ draining # <<>>
    /\ open' = open \ {Head(draining)}
    /\ draining' = Tail(draining)
    /\ UNCHANGED <<phase, idle, active_count, closed, locked, pc, held, outcome,
                   returning, lost>>

CloseDone ==
    /\ locked
    /\ draining = <<>>
    /\ locked' = FALSE
    /\ UNCHANGED <<phase, idle, active_count, closed, draining, pc, held, outcome,
                   returning, lost, open>>

(* Mutant of CloseCancelled: the rest of the clients is forgotten, not dropped. *)
CloseCancelledLeaks ==
    /\ Cancels
    /\ locked
    /\ draining # <<>>
    /\ UNCHANGED open
    /\ draining' = <<>>
    /\ locked' = FALSE
    /\ UNCHANGED <<phase, idle, active_count, closed, pc, held, outcome, returning, lost>>

(* The future of close is dropped in that await: the drain drops the rest  *)
(* of the clients, and the mutex is released.                              *)
CloseCancelled ==
    /\ Cancels
    /\ locked
    /\ draining # <<>>
    /\ open' = open \ Range(draining)
    /\ draining' = <<>>
    /\ locked' = FALSE
    /\ UNCHANGED <<phase, idle, active_count, closed, pc, held, outcome, returning, lost>>

(* The AsyncPool itself is dropped; get and close borrow it. *)
DropPool ==
    /\ phase = "alive"
    /\ Busy = Holders
    /\ ~locked
    /\ phase' = "gone"
    /\ IF Holders = {} /\ returning = {}
          THEN idle' = <<>> /\ open' = open \ Range(idle)
          ELSE UNCHANGED <<idle, open>>
    /\ UNCHANGED <<active_count, closed, locked, draining, pc, held, outcome, returning,
                   lost>>

-----------------------------------------------------------------------------

Next ==
    \/ NewConnect
    \/ NewError
    \/ NewDone
    \/ CloseStart
    \/ CloseClient
    \/ CloseDone
    \/ CloseCancelled
    \/ DropPool
    \/ \E c \in Conns : Return(c)
    \/ \E p \in Callers :
          \/ GetClosed(p)
          \/ GetIdle(p)
          \/ GetReserve(p)
          \/ GetExhausted(p)
          \/ ConnectOk(p)
          \/ ConnectError(p)
          \/ GetFailed(p)
          \/ GetCancelled(p)
          \/ ClientClose(p)
          \/ DropDead(p)
          \/ DropSpawn(p)

Spec == Init /\ [][Next]_vars

(* The runtime polls every task that can go on, the server lets a connect  *)
(* or a client's close complete, and a caller drops its connection at some *)
(* time.  Tokio's mutex is FIFO: a task that waits for it is not overtaken *)
(* for ever by calls of close, hence strong fairness where it is awaited.  *)
Fairness ==
    /\ WF_vars(CloseClient \/ CloseDone)
    /\ \A c \in Conns : SF_vars(Return(c))
    /\ \A p \in Callers :
          /\ WF_vars(ConnectOk(p) \/ ConnectError(p))
          /\ SF_vars(GetFailed(p))
          /\ WF_vars(DropDead(p) \/ DropSpawn(p))

FairSpec == Spec /\ Fairness

-----------------------------------------------------------------------------
(* Properties *)

(* active_count counts the callers that own a place, the return tasks that *)
(* have not run and the places lost, and nothing else; so no decrement     *)
(* underflows, and the two ways to lose a place are the only ones.         *)
ActiveCountExplained ==
    active_count = Cardinality(Busy) + Cardinality(returning) + lost

(* The database never sees more than max_size sockets of this pool, those  *)
(* being opened and those close has yet to close included.                 *)
SocketBound ==
    Cardinality(open) + Cardinality({p \in Callers : pc[p] = "connecting"})
        <= MaxSize

(* A connection has one owner: the queue, close's drain, a caller or a     *)
(* return task.                                                            *)
ExclusiveOwnership ==
    /\ IsInjective(idle \o draining)
    /\ \A p, q \in Holders : held[p] = held[q] => p = q
    /\ \A p \in Holders : held[p] \in Conns \ (Range(idle) \cup Range(draining) \cup returning)
    /\ returning \cap (Range(idle) \cup Range(draining)) = {}

(* The queue and the return tasks hold only clients that are not closed.   *)
IdleUsable == Range(idle) \cup returning \subseteq open

(* Every open socket belongs to somebody who will close it.                *)
NoOrphanSocket == open \subseteq Clients

(* A return task that runs after close, or that waited for it, does not    *)
(* bring its connection back.                                              *)
ClosedPoolEmpty == closed => idle = <<>>

(* Sockets and clients stay together whatever get, the return tasks, close *)
(* and futures dropped half way do to each other: nobody is handed a       *)
(* client that is closed, no socket is left behind, a closed pool keeps    *)
(* none.                                                                   *)
SocketsAccounted == IdleUsable /\ NoOrphanSocket /\ ClosedPoolEmpty

(* What is counted, kept and about to be closed fits into max_size.        *)
CapacityBound == active_count + Len(idle) + Len(draining) <= MaxSize

(* What holds around it: close alone has the mutex across awaits, and only *)
(* a live pool is closed; nobody uses a pool that new has not returned, and*)
(* no get is under way once the AsyncPool is dropped.                      *)
QuietEnds ==
    /\ locked => phase = "alive" /\ closed
    /\ ~locked => draining = <<>>
    /\ phase = "building" =>
          Busy = {} /\ returning = {} /\ lost = 0 /\ ~closed /\ Len(idle) <= MinIdle
    /\ phase = "gone" => Busy = Holders

(* Places are lost only where a future is dropped or a holder closes its   *)
(* client, and only the latter leaves a holder with a closed client.       *)
LossesExplained ==
    /\ Cancels \/ ClientCloses \/ lost = 0
    /\ ClientCloses \/ \A p \in Holders : held[p] \in open

(* The inductive invariant of the pool. *)
IInv ==
    /\ TypeOK
    /\ IsFiniteSet(returning)
    /\ ActiveCountExplained
    /\ CapacityBound
    /\ ExclusiveOwnership
    /\ SocketsAccounted
    /\ QuietEnds
    /\ LossesExplained

(* With nothing under way, active_count is the number of connections       *)
(* checked out, as PoolStatus documents it.                                *)
ActiveCountIsCheckedOut ==
    (Busy = Holders /\ returning = {}) => active_count = Cardinality(Holders)

(* get answers PoolExhausted only if max_size places are really in use.    *)
ExhaustedOnlyWhenFull ==
    [][\A p \in Callers :
         outcome'[p] = "exhausted" /\ outcome[p] # "exhausted"
            => Cardinality(Busy) + Cardinality(returning) = MaxSize]_vars

(* Even where futures are dropped and clients closed by their holders, get *)
(* answers PoolExhausted only for places in use, on their way back or lost *)
(* in one of the two known ways: never for a failed connect or a drop.     *)
ExhaustedExplained ==
    [][\A p \in Callers :
         outcome'[p] = "exhausted" /\ outcome[p] # "exhausted"
            => Cardinality(Busy) + Cardinality(returning) + lost = MaxSize]_vars

(* After close, or once the AsyncPool is dropped, every socket is closed   *)
(* as soon as the callers let go and the return tasks have run.            *)
SocketsReleased == (closed \/ phase = "gone") ~> (open = {})

(* The promises of BoundedPool, with places that may be lost.              *)
Abstract == INSTANCE BoundedPool WITH
    ready  <- phase # "building",
    lent   <- {held[p] : p \in Holders} \cup returning,
    kept   <- IF phase = "building" THEN {} ELSE Range(idle),
    places <- active_count,
    Lossy  <- Cancels \/ ClientCloses

ImplementsBoundedPool == Abstract!Spec
=============================================================================
