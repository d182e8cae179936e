-------------------------- MODULE AsyncPoolProofs --------------------------
(***************************************************************************)
(* Proofs about AsyncPool, for any number of callers and connections, any  *)
(* configuration that PoolConfig::validate accepts, with or without        *)
(* futures dropped at an await and clients closed by their holders.        *)
(***************************************************************************)
EXTENDS AsyncPool, SequenceLemmas

-----------------------------------------------------------------------------
(* Lemmas about callers, return tasks and the two queues *)

(* The sets of callers the pool's counter is compared with are finite.     *)
LEMMA BusyFinite ==
    /\ IsFiniteSet(Busy) /\ Cardinality(Busy) \in Nat
    /\ IsFiniteSet(Holders) /\ Cardinality(Holders) \in Nat
    /\ Holders \subseteq Busy
<1>1. Busy \subseteq Callers /\ Holders \subseteq Callers /\ Holders \subseteq Busy
  BY DEF Busy, Holders
<1>. QED  BY <1>1, CallersAssumption, FS_Subset, FS_CardinalityType

(* A caller that starts to use the pool is one more place.                 *)
LEMMA Enter ==
    ASSUME TypeOK, NEW p \in Callers, pc[p] = "free",
           NEW v \in {"connecting", "holding"},
           pc' = [pc EXCEPT ![p] = v]
    PROVE  /\ Busy' = Busy \cup {p}
           /\ Cardinality(Busy') = Cardinality(Busy) + 1
           /\ v = "holding" => Holders' = Holders \cup {p}
           /\ v = "connecting" => Holders' = Holders
           /\ p \notin Holders
<1>1. Busy' = Busy \cup {p} /\ p \notin Busy
  BY DEF Busy, TypeOK
<1>2. Cardinality(Busy') = Cardinality(Busy) + 1
  BY <1>1, BusyFinite, FS_AddElement
<1>3. v = "holding" => Holders' = Holders \cup {p}
  BY DEF Holders, TypeOK
<1>4. v = "connecting" => Holders' = Holders
  BY DEF Holders, TypeOK
<1>. QED  BY <1>1, <1>2, <1>3, <1>4, BusyFinite

(* A caller that is done with the pool is one caller less.                 *)
LEMMA Leave ==
    ASSUME TypeOK, NEW p \in Callers, pc[p] # "free",
           pc' = [pc EXCEPT ![p] = "free"]
    PROVE  /\ Busy' = Busy \ {p}
           /\ Cardinality(Busy') = Cardinality(Busy) - 1
           /\ Cardinality(Busy) >= 1
           /\ Holders' = Holders \ {p}
<1>1. Busy' = Busy \ {p} /\ p \in Busy
  BY DEF Busy, TypeOK
<1>2. Cardinality(Busy') = Cardinality(Busy) - 1
  BY <1>1, BusyFinite, FS_RemoveElement
<1>3. Cardinality(Busy) >= 1
  BY <1>1, BusyFinite, FS_EmptySet
<1>4. Holders' = Holders \ {p}
  BY DEF Holders, TypeOK
<1>. QED  BY <1>1, <1>2, <1>3, <1>4

(* The queue and close's drain are never both filled: what is injective is *)
(* the one that is.                                                        *)
LEMMA OneQueue ==
    ASSUME IInv
    PROVE  /\ ~locked => draining = <<>> /\ IsInjective(idle)
           /\ locked => idle = <<>> /\ IsInjective(draining)
           /\ Len(idle) \in Nat /\ Len(draining) \in Nat
           /\ Range(idle) \subseteq Conns /\ Range(draining) \subseteq Conns
<1>1. idle \in Seq(Conns) /\ draining \in Seq(Conns)
  BY DEF IInv, TypeOK
<1>2. <<>> \o draining = draining /\ idle \o <<>> = idle
  BY <1>1, ConcatEmptySeq
<1>3. (~locked => draining = <<>>) /\ (locked => idle = <<>>)
  BY DEF IInv, QuietEnds, SocketsAccounted, ClosedPoolEmpty
<1>4. (~locked => IsInjective(idle)) /\ (locked => IsInjective(draining))
  BY <1>2, <1>3 DEF IInv, ExclusiveOwnership, TypeOK
<1>. QED  BY <1>1, <1>3, <1>4, QueueFront

(* Conversely, one queue without repetitions is enough.                    *)
LEMMA OneQueueInjective ==
    ASSUME NEW s \in Seq(Conns), NEW t \in Seq(Conns), s = <<>> \/ t = <<>>,
           IsInjective(s), IsInjective(t)
    PROVE  IsInjective(s \o t)
<1>1. <<>> \o t = t /\ s \o <<>> = s
  BY ConcatEmptySeq
<1>. QED  BY <1>1

(* The counts are natural numbers.                                         *)
LEMMA Counts ==
    ASSUME IInv
    PROVE  /\ active_count \in Nat /\ lost \in Nat
           /\ Cardinality(Busy) \in Nat /\ Cardinality(returning) \in Nat
           /\ MaxSize \in Nat
  BY BusyFinite, FS_CardinalityType, ConfigAssumption DEF IInv, TypeOK

-----------------------------------------------------------------------------
(* The inductive invariant *)

(* The pool starts in a state that satisfies the inductive invariant.      *)
LEMMA InitInv == Init => IInv
<1>. SUFFICES ASSUME Init PROVE IInv
  OBVIOUS
<1>1. TypeOK
  BY QueueEmpty DEF Init, TypeOK
<1>2. Busy = {} /\ Holders = {}
  BY DEF Init, Busy, Holders
<1>3. IsFiniteSet(returning) /\ ActiveCountExplained
  BY <1>2, FS_EmptySet DEF Init, ActiveCountExplained
<1>4. CapacityBound
  BY QueueEmpty, ConfigAssumption DEF Init, CapacityBound
<1>5. ExclusiveOwnership
  BY <1>2, QueueEmpty, ConcatEmptySeq DEF Init, ExclusiveOwnership
<1>6. SocketsAccounted
  BY QueueEmpty DEF Init, SocketsAccounted, IdleUsable, NoOrphanSocket, ClosedPoolEmpty
<1>7. QuietEnds /\ LossesExplained
  BY <1>2, QueueEmpty, ConfigAssumption DEF Init, QuietEnds, LossesExplained
<1>. QED  BY <1>1, <1>3, <1>4, <1>5, <1>6, <1>7 DEF IInv

(* Steps that change no place, no owner and no socket.                     *)
LEMMA SameOwners ==
    ASSUME IInv, TypeOK',
           UNCHANGED <<phase, idle, active_count, closed, locked, draining, pc, held,
                       returning, lost, open>>
    PROVE  IInv'
<1>1. Busy' = Busy /\ Holders' = Holders /\ Clients' = Clients
  BY DEF Busy, Holders, Clients
<1>. QED
  BY <1>1 DEF IInv, ActiveCountExplained, CapacityBound, ExclusiveOwnership, QuietEnds,
              SocketsAccounted, IdleUsable, NoOrphanSocket, ClosedPoolEmpty, LossesExplained

(* new opens one more client.                                              *)
LEMMA NewConnectKeeps == ASSUME IInv, NewConnect PROVE IInv'
<1>1. PICK c \in Fresh : idle' = Append(idle, c) /\ open' = open \cup {c}
  BY DEF NewConnect
<1>2. /\ phase = "building" /\ Busy = {} /\ returning = {} /\ lost = 0
      /\ ~closed /\ ~locked /\ draining = <<>>
  BY DEF NewConnect, IInv, QuietEnds
<1>3. /\ c \in Conns /\ c \notin Range(idle) /\ c \notin open
      /\ idle' \in Seq(Conns)
      /\ Range(idle') = Range(idle) \cup {c}
      /\ Len(idle') = Len(idle) + 1
      /\ IsInjective(idle')
  BY <1>1, <1>2, OneQueue, QueuePush DEF Fresh, Clients, IInv, TypeOK
<1>4. Busy' = {} /\ Holders = {} /\ Holders' = {}
  BY <1>2, BusyFinite DEF NewConnect, Busy, Holders
<1>5. TypeOK'
  BY <1>1, <1>3 DEF NewConnect, IInv, TypeOK
<1>6. IsFiniteSet(returning') /\ ActiveCountExplained'
  BY <1>2, <1>4 DEF NewConnect, IInv, ActiveCountExplained
<1>7. CapacityBound' /\ Len(idle') <= MinIdle
  <2>1. active_count = 0
    BY <1>2, FS_EmptySet DEF IInv, ActiveCountExplained
  <2>. QED  BY <2>1, <1>2, <1>3, OneQueue, QueueEmpty, ConfigAssumption DEF NewConnect, CapacityBound
<1>8. ExclusiveOwnership'
  BY <1>2, <1>3, <1>4, QueueEmpty, OneQueueInjective DEF NewConnect, ExclusiveOwnership
<1>9. SocketsAccounted'
  BY <1>1, <1>2, <1>3, <1>4
  DEF NewConnect, IInv, SocketsAccounted, IdleUsable, NoOrphanSocket, ClosedPoolEmpty, Clients
<1>10. QuietEnds' /\ LossesExplained'
  BY <1>2, <1>4, <1>7 DEF NewConnect, QuietEnds, LossesExplained
<1>. QED  BY <1>5, <1>6, <1>7, <1>8, <1>9, <1>10 DEF IInv

(* Steps that empty the queue, and close what was in it, or leave it alone *)
(* together with everything but the pool's own life cycle.                 *)
LEMMA QueueCleared ==
    ASSUME IInv, TypeOK', idle' = <<>>, open' = open \ Range(idle),
           UNCHANGED <<active_count, closed, locked, draining, pc, held, returning, lost>>,
           QuietEnds', ~locked,
           Holders = {} /\ returning = {}
    PROVE  IInv'
<1>1. Busy' = Busy /\ Holders' = Holders /\ draining = <<>>
  BY OneQueue DEF Busy, Holders
<1>2. ActiveCountExplained' /\ IsFiniteSet(returning')
  BY <1>1 DEF IInv, ActiveCountExplained
<1>3. CapacityBound'
  BY <1>1, OneQueue, QueueEmpty, Counts DEF IInv, CapacityBound
<1>4. ExclusiveOwnership'
  BY <1>1, QueueEmpty, OneQueueInjective DEF ExclusiveOwnership
<1>5. SocketsAccounted'
  BY <1>1, QueueEmpty DEF IInv, SocketsAccounted, IdleUsable, NoOrphanSocket, ClosedPoolEmpty, Clients
<1>6. LossesExplained'
  BY <1>1 DEF IInv, LossesExplained
<1>. QED  BY <1>2, <1>3, <1>4, <1>5, <1>6 DEF IInv

(* new fails, or succeeds.                                                 *)
LEMMA NewEndsKeeps == ASSUME IInv, NewError \/ NewDone PROVE IInv'
<1>1. CASE NewError
  <2>1. Busy = {} /\ Holders = {} /\ returning = {} /\ ~locked
    BY <1>1, BusyFinite DEF NewError, IInv, QuietEnds
  <2>2. TypeOK'
    BY <1>1, QueueEmpty DEF NewError, IInv, TypeOK
  <2>3. QuietEnds'
    BY <1>1, QueueEmpty, ConfigAssumption DEF NewError, IInv, QuietEnds, Busy, Holders
  <2>. QED  BY <1>1, <2>1, <2>2, <2>3, QueueCleared DEF NewError
<1>2. CASE NewDone
  <2>1. Busy' = Busy /\ Holders' = Holders /\ Clients' = Clients
    BY <1>2 DEF NewDone, Busy, Holders, Clients
  <2>2. TypeOK' /\ QuietEnds'
    BY <1>2, <2>1 DEF NewDone, IInv, TypeOK, QuietEnds
  <2>. QED
    BY <1>2, <2>1, <2>2 DEF NewDone, IInv, ActiveCountExplained, CapacityBound, ExclusiveOwnership,
       SocketsAccounted, IdleUsable, NoOrphanSocket, ClosedPoolEmpty, LossesExplained
<1>. QED  BY <1>1, <1>2

(* get takes a client from the queue.                                      *)
LEMMA GetIdleKeeps == ASSUME IInv, NEW p \in Callers, GetIdle(p) PROVE IInv'
<1>1. /\ ~locked /\ draining = <<>> /\ draining' = <<>> /\ phase = "alive" /\ pc[p] = "free"
      /\ IsInjective(idle)
  BY OneQueue DEF GetIdle, GetLocked
<1>2. /\ Head(idle) \in Range(idle) /\ Head(idle) \in Conns
      /\ Range(idle') \subseteq Range(idle)
      /\ Range(idle) = Range(idle') \cup {Head(idle)}
      /\ idle' \in Seq(Conns)
      /\ Len(idle') = Len(idle) - 1
      /\ IsInjective(idle') /\ Head(idle) \notin Range(idle')
  BY <1>1, OneQueue, QueuePop DEF GetIdle, IInv, TypeOK
<1>3. /\ Busy' = Busy \cup {p}
      /\ Cardinality(Busy') = Cardinality(Busy) + 1
      /\ Holders' = Holders \cup {p}
      /\ p \notin Holders
  BY <1>1, Enter DEF GetIdle, IInv
<1>4. /\ held' = [held EXCEPT ![p] = Head(idle)] /\ held'[p] = Head(idle)
      /\ \A q \in Holders : held'[q] = held[q]
  BY <1>3 DEF GetIdle, IInv, TypeOK, Holders
<1>5. TypeOK'
  BY <1>2 DEF GetIdle, IInv, TypeOK
<1>6. IsFiniteSet(returning') /\ ActiveCountExplained'
  BY <1>3, Counts DEF GetIdle, IInv, ActiveCountExplained
<1>7. CapacityBound'
  BY <1>1, <1>2, OneQueue, Counts DEF GetIdle, IInv, CapacityBound
<1>8. ExclusiveOwnership'
  <2>1. IsInjective(idle' \o draining')
    BY <1>1, <1>2, QueueEmpty, OneQueueInjective
  <2>. QED  BY <2>1, <1>1, <1>2, <1>3, <1>4, QueueEmpty DEF GetIdle, IInv, ExclusiveOwnership
<1>9. Clients' = Clients
  BY <1>2, <1>3, <1>4 DEF GetIdle, Clients
<1>10. SocketsAccounted'
  BY <1>2, <1>9 DEF GetIdle, IInv, SocketsAccounted, IdleUsable, NoOrphanSocket, ClosedPoolEmpty
<1>11. QuietEnds'
  BY <1>1 DEF GetIdle, IInv, QuietEnds
<1>12. LossesExplained'
  BY <1>2, <1>3, <1>4 DEF GetIdle, IInv, LossesExplained, SocketsAccounted, IdleUsable
<1>. QED  BY <1>5, <1>6, <1>7, <1>8, <1>10, <1>11, <1>12 DEF IInv

(* get counts a place for the connection it is about to open.              *)
LEMMA GetReserveKeeps == ASSUME IInv, NEW p \in Callers, GetReserve(p) PROVE IInv'
<1>1. ~locked /\ draining = <<>> /\ phase = "alive" /\ pc[p] = "free"
  BY OneQueue DEF GetReserve, GetLocked
<1>2. Cardinality(Busy') = Cardinality(Busy) + 1 /\ Holders' = Holders
  BY <1>1, Enter DEF GetReserve, IInv
<1>3. TypeOK'
  BY DEF GetReserve, IInv, TypeOK
<1>4. IsFiniteSet(returning') /\ ActiveCountExplained'
  BY <1>2, Counts DEF GetReserve, IInv, ActiveCountExplained
<1>5. CapacityBound'
  BY <1>1, OneQueue, QueueEmpty, Counts DEF GetReserve, CapacityBound
<1>6. ExclusiveOwnership' /\ Clients' = Clients
  BY <1>2 DEF GetReserve, IInv, ExclusiveOwnership, Clients
<1>7. SocketsAccounted'
  BY <1>6 DEF GetReserve, IInv, SocketsAccounted, IdleUsable, NoOrphanSocket, ClosedPoolEmpty
<1>8. QuietEnds' /\ LossesExplained'
  BY <1>1, <1>2 DEF GetReserve, IInv, QuietEnds, LossesExplained
<1>. QED  BY <1>3, <1>4, <1>5, <1>6, <1>7, <1>8 DEF IInv

(* A connect that succeeds, without the mutex and even while close runs.   *)
LEMMA ConnectOkKeeps == ASSUME IInv, NEW p \in Callers, ConnectOk(p) PROVE IInv'
<1>1. PICK c \in Fresh : held' = [held EXCEPT ![p] = c] /\ open' = open \cup {c}
  BY DEF ConnectOk
<1>2. /\ c \in Conns /\ c \notin Range(idle) /\ c \notin Range(draining)
      /\ c \notin returning /\ c \notin open
      /\ \A q \in Holders : held[q] # c
  BY <1>1 DEF Fresh, Clients
<1>3. p \notin Holders /\ Holders' = Holders \cup {p} /\ Busy' = Busy /\ p \in Busy
  BY DEF ConnectOk, Holders, Busy, IInv, TypeOK
<1>4. held'[p] = c /\ \A q \in Holders : held'[q] = held[q]
  BY <1>1, <1>3 DEF IInv, TypeOK, Holders
<1>5. TypeOK'
  BY <1>1, <1>2 DEF ConnectOk, IInv, TypeOK
<1>6. IsFiniteSet(returning') /\ ActiveCountExplained' /\ CapacityBound'
  BY <1>3 DEF ConnectOk, IInv, ActiveCountExplained, CapacityBound
<1>7. ExclusiveOwnership'
  BY <1>2, <1>3, <1>4 DEF ConnectOk, IInv, ExclusiveOwnership
<1>8. Clients' = Clients \cup {c}
  BY <1>3, <1>4 DEF ConnectOk, Clients
<1>9. SocketsAccounted'
  BY <1>1, <1>8 DEF ConnectOk, IInv, SocketsAccounted, IdleUsable, NoOrphanSocket, ClosedPoolEmpty
<1>10. QuietEnds' /\ LossesExplained'
  BY <1>1, <1>3, <1>4 DEF ConnectOk, IInv, QuietEnds, LossesExplained
<1>. QED  BY <1>5, <1>6, <1>7, <1>9, <1>10 DEF IInv

(* A connect that fails; its get still owns the place.                     *)
LEMMA ConnectErrorKeeps == ASSUME IInv, NEW p \in Callers, ConnectError(p) PROVE IInv'
<1>1. Busy' = Busy /\ Holders' = Holders /\ TypeOK'
  BY DEF ConnectError, Busy, Holders, IInv, TypeOK
<1>2. Clients' = Clients
  BY <1>1 DEF ConnectError, Clients
<1>. QED
  BY <1>1, <1>2 DEF ConnectError, IInv, ActiveCountExplained, CapacityBound, ExclusiveOwnership,
     SocketsAccounted, IdleUsable, NoOrphanSocket, ClosedPoolEmpty, QuietEnds, LossesExplained

(* get ends without a connection: its place is given back, or lost with    *)
(* its future.                                                             *)
LEMMA GetEndsKeeps ==
    ASSUME IInv, NEW p \in Callers, GetFailed(p) \/ GetCancelled(p)
    PROVE  IInv'
<1>1. pc[p] \in {"connecting", "failed"} /\ pc' = [pc EXCEPT ![p] = "free"]
      /\ UNCHANGED <<phase, idle, closed, locked, draining, held, returning, open>>
  BY DEF GetFailed, GetCancelled
<1>2. /\ Cardinality(Busy') = Cardinality(Busy) - 1
      /\ Cardinality(Busy) >= 1
      /\ Busy' = Busy \ {p}
      /\ Holders' = Holders \ {p}
  BY <1>1, Leave DEF IInv
<1>3. p \notin Holders /\ p \in Busy
  BY <1>1 DEF Holders, Busy
<1>4. Holders' = Holders /\ Clients' = Clients
  BY <1>1, <1>2, <1>3 DEF Clients
<1>5. /\ ActiveCountExplained' /\ active_count' \in Nat /\ lost' \in Nat
      /\ active_count' <= active_count
  BY <1>1, <1>2, Counts DEF GetFailed, GetCancelled, IInv, ActiveCountExplained
<1>6. TypeOK'
  BY <1>1, <1>5 DEF GetFailed, GetCancelled, IInv, TypeOK
<1>7. CapacityBound'
  BY <1>1, <1>5, OneQueue, Counts DEF IInv, CapacityBound
<1>8. IsFiniteSet(returning') /\ ExclusiveOwnership' /\ SocketsAccounted'
  BY <1>1, <1>4 DEF IInv, ExclusiveOwnership, SocketsAccounted, IdleUsable, NoOrphanSocket,
                    ClosedPoolEmpty
<1>9. QuietEnds' /\ LossesExplained'
  BY <1>1, <1>2, <1>3, <1>4 DEF GetFailed, GetCancelled, IInv, QuietEnds, LossesExplained
<1>. QED  BY <1>5, <1>6, <1>7, <1>8, <1>9 DEF IInv

(* A holder closes its client.                                             *)
LEMMA ClientCloseKeeps == ASSUME IInv, NEW p \in Callers, ClientClose(p) PROVE IInv'
<1>1. p \in Holders /\ held[p] \notin Range(idle) /\ held[p] \notin returning
  BY DEF ClientClose, Holders, IInv, ExclusiveOwnership
<1>2. Busy' = Busy /\ Holders' = Holders /\ Clients' = Clients /\ TypeOK'
  BY DEF ClientClose, Busy, Holders, Clients, IInv, TypeOK
<1>3. SocketsAccounted'
  BY <1>1, <1>2 DEF ClientClose, IInv, SocketsAccounted, IdleUsable, NoOrphanSocket, ClosedPoolEmpty
<1>. QED
  BY <1>2, <1>3 DEF ClientClose, IInv, ActiveCountExplained, CapacityBound, ExclusiveOwnership,
     QuietEnds, LossesExplained

(* A holder drops its connection: its caller leaves, and nobody else has   *)
(* the client.                                                             *)
LEMMA HolderLeaves ==
    ASSUME IInv, NEW p \in Callers, pc[p] = "holding",
           pc' = [pc EXCEPT ![p] = "free"], held' = [held EXCEPT ![p] = NoConn]
    PROVE  /\ p \in Holders /\ phase # "building"
           /\ Busy' = Busy \ {p} /\ Holders' = Holders \ {p}
           /\ Cardinality(Busy') = Cardinality(Busy) - 1 /\ Cardinality(Busy) >= 1
           /\ held[p] \in Conns
           /\ held[p] \notin Range(idle) \cup Range(draining) \cup returning
           /\ \A q \in Holders' : held'[q] = held[q] /\ held[q] # held[p]
<1>1. p \in Holders /\ p \in Busy
  BY DEF Holders, Busy
<1>2. /\ Busy' = Busy \ {p} /\ Holders' = Holders \ {p}
      /\ Cardinality(Busy') = Cardinality(Busy) - 1 /\ Cardinality(Busy) >= 1
  BY Leave DEF IInv
<1>3. \A q \in Holders' : held'[q] = held[q] /\ held[q] # held[p]
  BY <1>1, <1>2 DEF IInv, ExclusiveOwnership, TypeOK, Holders
<1>4. held[p] \in Conns /\ held[p] \notin Range(idle) \cup Range(draining) \cup returning
  BY <1>1 DEF IInv, ExclusiveOwnership
<1>. QED  BY <1>1, <1>2, <1>3, <1>4 DEF IInv, QuietEnds

(* The drop of a closed client, the early return: its place is lost.       *)
LEMMA DropDeadKeeps == ASSUME IInv, NEW p \in Callers, DropDead(p) PROVE IInv'
<1>1. /\ p \in Holders /\ phase # "building"
      /\ Busy' = Busy \ {p} /\ Holders' = Holders \ {p}
      /\ Cardinality(Busy') = Cardinality(Busy) - 1 /\ Cardinality(Busy) >= 1
      /\ held[p] \in Conns
      /\ held[p] \notin Range(idle) \cup Range(draining) \cup returning
      /\ \A q \in Holders' : held'[q] = held[q] /\ held[q] # held[p]
  BY HolderLeaves DEF DropDead
<1>2. /\ held[p] \notin open /\ lost' = lost + 1
      /\ UNCHANGED <<phase, active_count, closed, locked, draining, returning>>
  BY DEF DropDead
<1>3. ActiveCountExplained' /\ IsFiniteSet(returning')
  BY <1>1, <1>2, Counts DEF IInv, ActiveCountExplained
<1>4. QuietEnds'
  <2>1. Len(idle') <= MinIdle \/ phase' # "building"
    BY <1>1, <1>2
  <2>. QED  BY <2>1, <1>1, <1>2 DEF IInv, QuietEnds
<1>5. LossesExplained' \/ ~ClientCloses
  BY DEF LossesExplained
<1>6. ClientCloses
  BY <1>1, <1>2 DEF IInv, LossesExplained
<1>7. CASE ~LastReference({p}, {})
  <2>1. UNCHANGED <<idle, open>>
    BY <1>7 DEF DropDead
  <2>2. TypeOK'
    BY <1>2, <2>1, Counts DEF DropDead, IInv, TypeOK
  <2>3. CapacityBound' /\ ExclusiveOwnership'
    BY <1>1, <1>2, <2>1 DEF IInv, CapacityBound, ExclusiveOwnership
  <2>4. Clients \subseteq Clients' \cup {held[p]}
    BY <1>1, <1>2, <2>1 DEF Clients
  <2>5. SocketsAccounted'
    BY <1>2, <2>1, <2>4 DEF IInv, SocketsAccounted, IdleUsable, NoOrphanSocket, ClosedPoolEmpty
  <2>. QED  BY <1>3, <1>4, <1>5, <1>6, <2>2, <2>3, <2>5 DEF IInv
<1>8. CASE LastReference({p}, {})
  <2>1. /\ idle' = <<>> /\ open' = open \ Range(idle) /\ phase = "gone"
        /\ Holders' = {} /\ returning = {} /\ ~locked /\ draining = <<>>
    BY <1>1, <1>8, OneQueue DEF DropDead, LastReference, IInv, QuietEnds
  <2>2. TypeOK'
    BY <1>2, <2>1, Counts, QueueEmpty DEF DropDead, IInv, TypeOK
  <2>3. CapacityBound'
    BY <1>2, <2>1, OneQueue, QueueEmpty, Counts DEF IInv, CapacityBound
  <2>4. ExclusiveOwnership'
    BY <1>2, <2>1, QueueEmpty, OneQueueInjective DEF ExclusiveOwnership
  <2>5. open \subseteq Range(idle) \cup {held[p]}
    BY <1>1, <2>1, QueueEmpty DEF IInv, SocketsAccounted, NoOrphanSocket, Clients
  <2>6. SocketsAccounted'
    BY <1>2, <2>1, <2>5, QueueEmpty DEF SocketsAccounted, IdleUsable, NoOrphanSocket, ClosedPoolEmpty
  <2>. QED  BY <1>3, <1>4, <1>5, <1>6, <2>2, <2>3, <2>4, <2>6 DEF IInv
<1>. QED  BY <1>7, <1>8

(* The drop of a usable client: a task takes it over.                      *)
LEMMA DropSpawnKeeps == ASSUME IInv, NEW p \in Callers, DropSpawn(p) PROVE IInv'
<1>1. /\ p \in Holders /\ phase # "building"
      /\ Busy' = Busy \ {p} /\ Holders' = Holders \ {p}
      /\ Cardinality(Busy') = Cardinality(Busy) - 1 /\ Cardinality(Busy) >= 1
      /\ held[p] \in Conns
      /\ held[p] \notin Range(idle) \cup Range(draining) \cup returning
      /\ \A q \in Holders' : held'[q] = held[q] /\ held[q] # held[p]
  BY HolderLeaves DEF DropSpawn
<1>2. /\ held[p] \in open /\ returning' = returning \cup {held[p]}
      /\ UNCHANGED <<phase, idle, active_count, closed, locked, draining, outcome, lost, open>>
  BY DEF DropSpawn
<1>3. IsFiniteSet(returning') /\ Cardinality(returning') = Cardinality(returning) + 1
  BY <1>1, <1>2, FS_AddElement DEF IInv
<1>4. ActiveCountExplained'
  BY <1>1, <1>2, <1>3, Counts DEF IInv, ActiveCountExplained
<1>5. TypeOK'
  BY <1>1, <1>2 DEF DropSpawn, IInv, TypeOK
<1>6. CapacityBound' /\ ExclusiveOwnership'
  BY <1>1, <1>2 DEF IInv, CapacityBound, ExclusiveOwnership
<1>7. Clients' = Clients
  BY <1>1, <1>2 DEF Clients
<1>8. SocketsAccounted'
  BY <1>2, <1>7 DEF IInv, SocketsAccounted, IdleUsable, NoOrphanSocket, ClosedPoolEmpty
<1>9. QuietEnds' /\ LossesExplained'
  BY <1>1, <1>2 DEF IInv, QuietEnds, LossesExplained
<1>. QED  BY <1>3, <1>4, <1>5, <1>6, <1>8, <1>9 DEF IInv

(* The return task: its place is given back, its client goes to the queue, *)
(* or is dropped if the pool is closed or nobody refers to it any more.    *)
LEMMA ReturnKeeps == ASSUME IInv, NEW c \in Conns, Return(c) PROVE IInv'
<1>. DEFINE back == IF closed THEN idle ELSE Append(idle, c)
            left == IF closed THEN open \ {c} ELSE open
<1>1. /\ c \in returning /\ ~locked /\ draining = <<>> /\ IsInjective(idle)
      /\ active_count' = active_count - 1 /\ returning' = returning \ {c}
      /\ UNCHANGED <<phase, closed, locked, draining, pc, held, outcome, lost>>
  BY OneQueue DEF Return
<1>2. /\ phase # "building" /\ c \notin Range(idle) /\ c \in open
      /\ \A q \in Holders : held[q] # c
  BY <1>1 DEF IInv, QuietEnds, ExclusiveOwnership, SocketsAccounted, IdleUsable
<1>3. Busy' = Busy /\ Holders' = Holders
  BY <1>1 DEF Busy, Holders
<1>4. /\ IsFiniteSet(returning')
      /\ Cardinality(returning') = Cardinality(returning) - 1
      /\ Cardinality(returning) >= 1
  <2>1. returning # {} /\ Cardinality(returning) # 0
    BY <1>1, FS_EmptySet DEF IInv
  <2>. QED  BY <1>1, <2>1, FS_RemoveElement, FS_CardinalityType DEF IInv
<1>5. ActiveCountExplained' /\ active_count >= 1 /\ active_count' \in Nat
  BY <1>1, <1>3, <1>4, Counts DEF IInv, ActiveCountExplained
<1>6. /\ back \in Seq(Conns) /\ Len(back) \in Nat /\ Len(back) <= Len(idle) + 1
      /\ IsInjective(back)
      /\ Range(back) = IF closed THEN Range(idle) ELSE Range(idle) \cup {c}
      /\ closed => back = <<>>
  <2>1. CASE closed
    BY <2>1, <1>1, OneQueue DEF IInv, TypeOK, SocketsAccounted, ClosedPoolEmpty
  <2>2. CASE ~closed
    <3>1. /\ Append(idle, c) \in Seq(Conns)
          /\ Len(Append(idle, c)) = Len(idle) + 1
          /\ Range(Append(idle, c)) = Range(idle) \cup {c}
          /\ IsInjective(Append(idle, c))
      BY <1>1, <1>2, QueuePush DEF IInv, TypeOK
    <3>2. back = Append(idle, c)
      BY <2>2
    <3>. QED  BY <2>2, <3>1, <3>2, OneQueue
  <2>. QED  BY <2>1, <2>2
<1>7. Range(back) \cup returning' \subseteq left /\ left \subseteq open
  BY <1>1, <1>2, <1>6, QueueEmpty DEF IInv, SocketsAccounted, IdleUsable
<1>8. left \subseteq Range(back) \cup {held[q] : q \in Holders} \cup returning'
  BY <1>1, <1>6, QueueEmpty DEF IInv, SocketsAccounted, NoOrphanSocket, Clients
<1>9. QuietEnds'
  BY <1>1, <1>2, <1>3 DEF IInv, QuietEnds
<1>10. CASE ~LastReference({}, {c})
  <2>1. idle' = back /\ open' = left
    BY <1>10 DEF Return
  <2>2. TypeOK'
    BY <1>1, <1>5, <1>6, <1>7, <2>1 DEF IInv, TypeOK
  <2>3. CapacityBound'
    BY <1>1, <1>5, <1>6, <2>1, OneQueue, QueueEmpty, Counts DEF IInv, CapacityBound
  <2>4. ExclusiveOwnership'
    <3>1. IsInjective(idle' \o draining')
      BY <1>1, <1>6, <2>1, QueueEmpty, OneQueueInjective
    <3>. QED  BY <3>1, <1>1, <1>2, <1>3, <1>6, <2>1, QueueEmpty DEF IInv, ExclusiveOwnership
  <2>5. Clients' = Range(back) \cup {held[q] : q \in Holders} \cup returning'
    BY <1>1, <1>3, <2>1, QueueEmpty DEF Clients
  <2>6. SocketsAccounted'
    BY <1>1, <1>6, <1>7, <1>8, <2>1, <2>5
    DEF SocketsAccounted, IdleUsable, NoOrphanSocket, ClosedPoolEmpty
  <2>7. LossesExplained'
    <3>1. \A q \in Holders : held[q] \in open => held[q] \in left
      BY <1>2
    <3>. QED  BY <3>1, <1>1, <1>3, <2>1 DEF IInv, LossesExplained
  <2>. QED  BY <1>4, <1>5, <1>9, <2>2, <2>3, <2>4, <2>6, <2>7 DEF IInv
<1>11. CASE LastReference({}, {c})
  <2>1. idle' = <<>> /\ open' = left \ Range(back) /\ Holders = {} /\ returning' = {}
    BY <1>1, <1>11 DEF Return, LastReference
  <2>2. open' = {}
    BY <1>8, <2>1
  <2>3. TypeOK'
    BY <1>1, <1>5, <2>1, <2>2, QueueEmpty DEF IInv, TypeOK
  <2>4. CapacityBound'
    BY <1>1, <1>5, <2>1, OneQueue, QueueEmpty, Counts DEF IInv, CapacityBound
  <2>5. ExclusiveOwnership'
    BY <1>1, <1>3, <2>1, QueueEmpty, OneQueueInjective DEF ExclusiveOwnership
  <2>6. SocketsAccounted' /\ LossesExplained'
    BY <1>1, <1>3, <2>1, <2>2, QueueEmpty
    DEF IInv, SocketsAccounted, IdleUsable, NoOrphanSocket, ClosedPoolEmpty, LossesExplained
  <2>. QED  BY <1>4, <1>5, <1>9, <2>3, <2>4, <2>5, <2>6 DEF IInv
<1>. QED  BY <1>10, <1>11

(* Steps of close: no place changes, and the two queues only shrink.       *)
LEMMA ClosingKeeps ==
    ASSUME IInv, TypeOK', closed' = TRUE,
           UNCHANGED <<phase, active_count, pc, held, returning, lost>>,
           phase = "alive",
           idle' = <<>>, IsInjective(draining'),
           Len(draining') <= Len(idle) + Len(draining),
           Range(draining') \subseteq Range(idle) \cup Range(draining),
           open' \subseteq open, open \subseteq open' \cup Range(idle) \cup Range(draining),
           open' \cap (Range(idle) \cup Range(draining)) \subseteq Range(draining'),
           ~locked' => draining' = <<>>
    PROVE  IInv'
<1>1. Busy' = Busy /\ Holders' = Holders
  BY DEF Busy, Holders
<1>2. ActiveCountExplained' /\ IsFiniteSet(returning')
  BY <1>1 DEF IInv, ActiveCountExplained
<1>3. CapacityBound'
  <2>1. Len(draining') \in Nat
    BY QueueFront DEF TypeOK
  <2>. QED  BY <2>1, OneQueue, QueueEmpty, Counts DEF IInv, CapacityBound
<1>4. ExclusiveOwnership'
  <2>1. IsInjective(idle' \o draining')
    BY QueueEmpty, OneQueueInjective DEF TypeOK
  <2>. QED  BY <2>1, <1>1, QueueEmpty DEF IInv, ExclusiveOwnership
<1>5. IdleUsable' /\ ClosedPoolEmpty'
  BY QueueEmpty DEF IInv, SocketsAccounted, IdleUsable, ClosedPoolEmpty, ExclusiveOwnership
<1>6. NoOrphanSocket'
  BY <1>1, QueueEmpty DEF IInv, SocketsAccounted, NoOrphanSocket, Clients
<1>7. QuietEnds'
  BY <1>1 DEF IInv, QuietEnds
<1>8. LossesExplained'
  BY <1>1 DEF IInv, LossesExplained, ExclusiveOwnership
<1>. QED  BY <1>2, <1>3, <1>4, <1>5, <1>6, <1>7, <1>8 DEF IInv, SocketsAccounted

(* close takes the queue over, closes client after client, and ends or is  *)
(* dropped in between.                                                     *)
LEMMA CloseKeeps ==
    ASSUME IInv, CloseStart \/ CloseClient \/ CloseDone \/ CloseCancelled
    PROVE  IInv'
<1>1. CASE CloseStart
  <2>1. TypeOK' /\ draining = <<>>
    BY <1>1, OneQueue, QueueEmpty DEF CloseStart, IInv, TypeOK
  <2>. QED  BY <1>1, <2>1, OneQueue, QueueEmpty, ClosingKeeps DEF CloseStart
<1>2. CASE CloseClient \/ CloseDone \/ CloseCancelled
  <2>1. locked /\ closed /\ phase = "alive" /\ idle = <<>> /\ IsInjective(draining)
    BY <1>2, OneQueue DEF CloseClient, CloseDone, CloseCancelled, IInv, QuietEnds
  <2>2. CASE CloseClient
    <3>1. /\ Head(draining) \in Range(draining)
          /\ draining' \in Seq(Conns)
          /\ Len(draining') = Len(draining) - 1
          /\ Range(draining) = Range(draining') \cup {Head(draining)}
          /\ IsInjective(draining')
      BY <2>1, <2>2, QueuePop DEF CloseClient, IInv, TypeOK
    <3>2. TypeOK'
      BY <2>2, <3>1 DEF CloseClient, IInv, TypeOK
    <3>3. Len(draining') <= Len(idle) + Len(draining)
      BY <3>1, OneQueue
    <3>. QED  BY <2>1, <2>2, <3>1, <3>2, <3>3, QueueEmpty, ClosingKeeps DEF CloseClient
  <2>3. CASE CloseDone
    <3>1. TypeOK'
      BY <2>3 DEF CloseDone, IInv, TypeOK
    <3>2. Len(draining') <= Len(idle) + Len(draining)
      BY <2>3, OneQueue DEF CloseDone
    <3>. QED  BY <2>1, <2>3, <3>1, <3>2, QueueEmpty, ClosingKeeps DEF CloseDone
  <2>4. CASE CloseCancelled
    <3>1. TypeOK'
      BY <2>4, QueueEmpty DEF CloseCancelled, IInv, TypeOK
    <3>2. Len(draining') <= Len(idle) + Len(draining)
      BY <2>4, OneQueue, QueueEmpty DEF CloseCancelled
    <3>. QED  BY <2>1, <2>4, <3>1, <3>2, QueueEmpty, ClosingKeeps DEF CloseCancelled
  <2>. QED  BY <1>2, <2>2, <2>3, <2>4
<1>. QED  BY <1>1, <1>2

(* The AsyncPool is dropped, alone or with connections still out.          *)
LEMMA DropPoolKeeps == ASSUME IInv, DropPool PROVE IInv'
<1>1. Busy' = Busy /\ Holders' = Holders
  BY DEF DropPool, Busy, Holders
<1>2. QuietEnds'
  BY <1>1 DEF DropPool, IInv, QuietEnds
<1>3. CASE Holders = {} /\ returning = {}
  <2>1. TypeOK'
    BY <1>3, QueueEmpty DEF DropPool, IInv, TypeOK
  <2>. QED  BY <1>2, <1>3, <2>1, QueueCleared DEF DropPool
<1>4. CASE ~(Holders = {} /\ returning = {})
  <2>1. UNCHANGED <<idle, open>> /\ TypeOK'
    BY <1>4 DEF DropPool, IInv, TypeOK
  <2>2. Clients' = Clients
    BY <1>1, <2>1 DEF DropPool, Clients
  <2>. QED
    BY <1>1, <1>2, <2>1, <2>2 DEF DropPool, IInv, ActiveCountExplained, CapacityBound,
       ExclusiveOwnership, SocketsAccounted, IdleUsable, NoOrphanSocket, ClosedPoolEmpty,
       LossesExplained
<1>. QED  BY <1>3, <1>4

(* Every step of the pool keeps the inductive invariant.                   *)
LEMMA NextInv == IInv /\ [Next]_vars => IInv'
<1>. SUFFICES ASSUME IInv, [Next]_vars PROVE IInv'
  OBVIOUS
<1>1. CASE NewConnect
  BY <1>1, NewConnectKeeps
<1>2. CASE NewError \/ NewDone
  BY <1>2, NewEndsKeeps
<1>3. CASE CloseStart \/ CloseClient \/ CloseDone \/ CloseCancelled
  BY <1>3, CloseKeeps
<1>4. CASE DropPool
  BY <1>4, DropPoolKeeps
<1>5. ASSUME NEW c \in Conns, Return(c) PROVE IInv'
  BY <1>5, ReturnKeeps
<1>6. ASSUME NEW p \in Callers, GetClosed(p) \/ GetExhausted(p) PROVE IInv'
  <2>1. TypeOK'
    BY <1>6 DEF GetClosed, GetExhausted, IInv, TypeOK
  <2>. QED  BY <1>6, <2>1, SameOwners DEF GetClosed, GetExhausted
<1>7. ASSUME NEW p \in Callers, GetIdle(p) PROVE IInv'
  BY <1>7, GetIdleKeeps
<1>8. ASSUME NEW p \in Callers, GetReserve(p) PROVE IInv'
  BY <1>8, GetReserveKeeps
<1>9. ASSUME NEW p \in Callers, ConnectOk(p) PROVE IInv'
  BY <1>9, ConnectOkKeeps
<1>10. ASSUME NEW p \in Callers, ConnectError(p) PROVE IInv'
  BY <1>10, ConnectErrorKeeps
<1>11. ASSUME NEW p \in Callers, GetFailed(p) \/ GetCancelled(p) PROVE IInv'
  BY <1>11, GetEndsKeeps
<1>12. ASSUME NEW p \in Callers, ClientClose(p) PROVE IInv'
  BY <1>12, ClientCloseKeeps
<1>13. ASSUME NEW p \in Callers, DropDead(p) PROVE IInv'
  BY <1>13, DropDeadKeeps
<1>14. ASSUME NEW p \in Callers, DropSpawn(p) PROVE IInv'
  BY <1>14, DropSpawnKeeps
<1>15. CASE UNCHANGED vars
  BY <1>15, SameOwners DEF vars, IInv, TypeOK
<1>. QED
  BY <1>1, <1>2, <1>3, <1>4, <1>5, <1>6, <1>7, <1>8, <1>9, <1>10, <1>11, <1>12, <1>13,
     <1>14, <1>15 DEF Next

-----------------------------------------------------------------------------
(* Connections lent: with a caller or with the task its drop spawned *)

Lent == {held[p] : p \in Holders} \cup returning

Kept == IF phase = "building" THEN {} ELSE Range(idle)

(* The connections lent are as many as their holders and the return tasks. *)
LEMMA LentCardinality ==
    ASSUME IInv
    PROVE  /\ IsFiniteSet(Lent)
           /\ Cardinality(Lent) = Cardinality(Holders) + Cardinality(returning)
<1>. DEFINE H == {held[p] : p \in Holders}
            f == [p \in Holders |-> held[p]]
<1>1. f \in Surjection(Holders, H) /\ f \in Injection(Holders, H)
  BY DEF Surjection, Injection, IsInjective, IInv, ExclusiveOwnership
<1>2. IsFiniteSet(H) /\ Cardinality(H) = Cardinality(Holders)
  BY <1>1, BusyFinite, FS_Surjection
<1>3. H \cap returning = {}
  BY DEF IInv, ExclusiveOwnership
<1>4. IsFiniteSet(returning)
  BY DEF IInv
<1>5. /\ IsFiniteSet(H \cup returning)
      /\ Cardinality(H \cup returning)
            = Cardinality(H) + Cardinality(returning) - Cardinality(H \cap returning)
  BY <1>2, <1>4, FS_Union
<1>6. Cardinality(H \cap returning) = 0
  BY <1>3, FS_EmptySet
<1>7. Lent = H \cup returning
  BY DEF Lent
<1>. HIDE DEF H
<1>. QED  BY <1>2, <1>5, <1>6, <1>7, BusyFinite, Counts

(* The callers that connect own places the holders do not.                 *)
LEMMA ConnectingCallers ==
    LET Connecting == {p \in Callers : pc[p] = "connecting"}
    IN  /\ Cardinality(Connecting) \in Nat
        /\ Cardinality(Holders) + Cardinality(Connecting) <= Cardinality(Busy)
<1>. DEFINE Connecting == {p \in Callers : pc[p] = "connecting"}
<1>1. Connecting \subseteq Busy /\ Holders \subseteq Busy /\ Holders \cap Connecting = {}
  BY DEF Busy, Holders
<1>2. IsFiniteSet(Connecting)
  BY <1>1, BusyFinite, FS_Subset
<1>3. Cardinality(Holders \cup Connecting)
        = Cardinality(Holders) + Cardinality(Connecting) - Cardinality(Holders \cap Connecting)
  BY <1>2, BusyFinite, FS_Union
<1>4. Cardinality(Holders \cap Connecting) = 0
  BY <1>1, FS_EmptySet
<1>5. Cardinality(Holders) \in Nat /\ Cardinality(Connecting) \in Nat
  BY <1>2, BusyFinite, FS_CardinalityType
<1>6. Holders \cup Connecting \in SUBSET Busy
  BY <1>1
<1>7. Cardinality(Holders \cup Connecting) <= Cardinality(Busy)
  BY <1>6, BusyFinite, FS_Subset
<1>. HIDE DEF Connecting
<1>8. /\ Cardinality(Connecting) \in Nat
      /\ Cardinality(Holders) + Cardinality(Connecting) <= Cardinality(Busy)
  BY <1>3, <1>4, <1>5, <1>7, BusyFinite
<1>. QED  BY <1>8 DEF Connecting

-----------------------------------------------------------------------------
(* The theorems *)

(* The inductive invariant holds in every state of every run of the pool.  *)
THEOREM Invariance == Spec => []IInv
<1>1. Init => IInv
  BY InitInv
<1>2. IInv /\ [Next]_vars => IInv'
  BY NextInv
<1>. QED  BY <1>1, <1>2, PTL DEF Spec

(* Type correctness; in particular active_count, a usize, stays a natural  *)
(* number: neither a failed get nor a return task makes it underflow.      *)
THEOREM TypeCorrect == Spec => []TypeOK
<1>1. IInv => TypeOK
  BY DEF IInv
<1>. QED  BY <1>1, Invariance, PTL

(* active_count is the callers that own a place, the return tasks that     *)
(* have not run and the places lost, whatever is dropped half way.         *)
THEOREM AccountingExplained == Spec => []ActiveCountExplained
<1>1. IInv => ActiveCountExplained
  BY DEF IInv
<1>. QED  BY <1>1, Invariance, PTL

(* No connection has two owners among the queue, close's drain, the        *)
(* callers and the return tasks.                                           *)
THEOREM OwnershipCorrect == Spec => []ExclusiveOwnership
<1>1. IInv => ExclusiveOwnership
  BY DEF IInv
<1>. QED  BY <1>1, Invariance, PTL

(* The queue and the return tasks keep only open clients, every open client*)
(* has an owner, and a closed pool keeps none.                             *)
THEOREM SocketsOwned == Spec => []SocketsAccounted
<1>1. IInv => SocketsAccounted
  BY DEF IInv
<1>. QED  BY <1>1, Invariance, PTL

(* The sockets open, about to be opened and about to be closed are never   *)
(* more than max_size, although places may be lost.                        *)
THEOREM SocketBoundCorrect == Spec => []SocketBound
<1>1. ASSUME IInv PROVE SocketBound
  <2>. DEFINE Connecting == {p \in Callers : pc[p] = "connecting"}
              Queued == Range(idle) \cup Range(draining)
  <2>1. IsFiniteSet(Queued) /\ Cardinality(Queued) <= Len(idle) + Len(draining)
    <3>1. /\ IsFiniteSet(Range(idle)) /\ Cardinality(Range(idle)) <= Len(idle)
          /\ IsFiniteSet(Range(draining)) /\ Cardinality(Range(draining)) <= Len(draining)
      BY <1>1, QueueCardinality DEF IInv, TypeOK
    <3>2. /\ IsFiniteSet(Queued)
          /\ Cardinality(Queued) = Cardinality(Range(idle)) + Cardinality(Range(draining))
                                     - Cardinality(Range(idle) \cap Range(draining))
      BY <3>1, FS_Union
    <3>3. IsFiniteSet(Range(idle) \cap Range(draining))
      BY <3>1, FS_Intersection
    <3>4. /\ Cardinality(Range(idle)) \in Nat /\ Cardinality(Range(draining)) \in Nat
          /\ Cardinality(Range(idle) \cap Range(draining)) \in Nat
          /\ Len(idle) \in Nat /\ Len(draining) \in Nat
      BY <1>1, <3>1, <3>3, OneQueue, FS_CardinalityType
    <3>. QED  BY <3>1, <3>2, <3>4
  <2>2. IsFiniteSet(Lent) /\ Cardinality(Lent) = Cardinality(Holders) + Cardinality(returning)
    BY <1>1, LentCardinality
  <2>3. /\ IsFiniteSet(open)
        /\ Cardinality(open) <= Cardinality(Queued) + Cardinality(Lent)
    <3>1. /\ IsFiniteSet(Queued \cup Lent)
          /\ Cardinality(Queued \cup Lent)
                = Cardinality(Queued) + Cardinality(Lent) - Cardinality(Queued \cap Lent)
      BY <2>1, <2>2, FS_Union
    <3>2. IsFiniteSet(Queued \cap Lent)
      BY <2>1, FS_Intersection
    <3>3. open \in SUBSET (Queued \cup Lent)
      BY <1>1 DEF IInv, SocketsAccounted, NoOrphanSocket, Clients, Lent
    <3>4. IsFiniteSet(open) /\ Cardinality(open) <= Cardinality(Queued \cup Lent)
      BY <3>1, <3>3, FS_Subset
    <3>5. /\ Cardinality(Queued \cap Lent) \in Nat /\ Cardinality(open) \in Nat
          /\ Cardinality(Queued) \in Nat /\ Cardinality(Lent) \in Nat
      BY <2>1, <2>2, <3>2, <3>4, FS_CardinalityType
    <3>. HIDE DEF Queued
    <3>. QED  BY <3>1, <3>4, <3>5
  <2>4. /\ Cardinality(Connecting) \in Nat
        /\ Cardinality(Holders) + Cardinality(Connecting) <= Cardinality(Busy)
    BY ConnectingCallers
  <2>5. Cardinality(open) \in Nat /\ Cardinality(Queued) \in Nat /\ Cardinality(Lent) \in Nat
    BY <2>1, <2>2, <2>3, FS_CardinalityType
  <2>6. Cardinality(Busy) + Cardinality(returning) + lost + Len(idle) + Len(draining) <= MaxSize
    BY <1>1 DEF IInv, ActiveCountExplained, CapacityBound
  <2>7. Cardinality(open) + Cardinality(Connecting) <= MaxSize
    <3>1. /\ Cardinality(Busy) \in Nat /\ Cardinality(Holders) \in Nat
          /\ Cardinality(returning) \in Nat /\ lost \in Nat /\ MaxSize \in Nat
          /\ Len(idle) \in Nat /\ Len(draining) \in Nat
      BY <1>1, Counts, OneQueue, BusyFinite
    <3>. DEFINE o == Cardinality(open)
                q == Cardinality(Queued)
                n == Len(idle) + Len(draining)
                c == Cardinality(Connecting)
                h == Cardinality(Holders)
                b == Cardinality(Busy)
                r == Cardinality(returning)
    <3>2. /\ o \in Nat /\ q \in Nat /\ n \in Nat /\ c \in Nat /\ h \in Nat /\ b \in Nat
          /\ r \in Nat
      BY <2>4, <2>5, <3>1
    <3>3. o <= q + (h + r) /\ q <= n
      BY <2>1, <2>2, <2>3
    <3>4. h + c <= b
      BY <2>4
    <3>5. b + r + lost + n <= MaxSize
      BY <2>6, <3>1
    <3>. HIDE DEF o, q, n, c, h, b, r
    <3>6. o + c <= MaxSize
      BY <3>1, <3>2, <3>3, <3>4, <3>5
    <3>. QED  BY <3>6 DEF o, c
  <2>. QED  BY <2>7 DEF SocketBound
<1>. QED  BY <1>1, Invariance, PTL

(* A step after which a caller's get has newly answered PoolExhausted was  *)
(* taken with all of max_size counted.                                     *)
LEMMA ExhaustedStep ==
    ASSUME IInv, Next, NEW p \in Callers,
           outcome'[p] = "exhausted", outcome[p] # "exhausted"
    PROVE  Cardinality(Busy) + Cardinality(returning) + lost = MaxSize
<1>1. PICK q \in Callers : GetExhausted(q)
  <2>1. ASSUME NEW q \in Callers,
               \/ GetClosed(q) \/ GetIdle(q) \/ GetReserve(q) \/ ConnectOk(q)
               \/ ConnectError(q) \/ GetFailed(q) \/ GetCancelled(q) \/ ClientClose(q)
               \/ DropDead(q) \/ DropSpawn(q)
        PROVE  FALSE
    BY <2>1 DEF IInv, TypeOK, GetClosed, GetIdle, GetReserve, ConnectOk, ConnectError,
       GetFailed, GetCancelled, ClientClose, DropDead, DropSpawn
  <2>2. ~(NewConnect \/ NewError \/ NewDone \/ CloseStart \/ CloseClient \/ CloseDone
          \/ CloseCancelled \/ DropPool \/ \E c \in Conns : Return(c))
    BY DEF NewConnect, NewError, NewDone, CloseStart, CloseClient, CloseDone,
       CloseCancelled, DropPool, Return
  <2>. QED  BY <2>1, <2>2 DEF Next
<1>2. active_count + Len(idle) >= MaxSize /\ idle = <<>>
  BY <1>1 DEF GetExhausted
<1>3. active_count >= MaxSize /\ active_count <= MaxSize
  BY <1>2, OneQueue, QueueEmpty, Counts DEF IInv, CapacityBound
<1>. QED  BY <1>3, Counts DEF IInv, ActiveCountExplained

(* get answers PoolExhausted only while max_size places are in use, on     *)
(* their way back or lost in one of the two known ways.                    *)
THEOREM ExhaustionExplained == Spec => ExhaustedExplained
<1>. DEFINE A == \A p \in Callers :
                    outcome'[p] = "exhausted" /\ outcome[p] # "exhausted"
                       => Cardinality(Busy) + Cardinality(returning) + lost = MaxSize
<1>1. ASSUME IInv, [Next]_vars PROVE [A]_vars
  BY <1>1, ExhaustedStep
<1>. QED  BY <1>1, Invariance, PTL DEF Spec, ExhaustedExplained

(* Where no future is dropped half way and no holder closes its client, no *)
(* place is lost: PoolExhausted means max_size connections in use.         *)
THEOREM ExhaustionJustified ==
    ASSUME ~Cancels, ~ClientCloses
    PROVE  Spec => ExhaustedOnlyWhenFull
<1>. DEFINE A == \A p \in Callers :
                    outcome'[p] = "exhausted" /\ outcome[p] # "exhausted"
                       => Cardinality(Busy) + Cardinality(returning) = MaxSize
<1>1. ASSUME IInv, [Next]_vars PROVE [A]_vars
  <2>1. lost = 0
    BY <1>1 DEF IInv, LossesExplained
  <2>. QED  BY <1>1, <2>1, ExhaustedStep, Counts
<1>. QED  BY <1>1, Invariance, PTL DEF Spec, ExhaustedOnlyWhenFull

-----------------------------------------------------------------------------
(* AsyncPool implements BoundedPool *)

(* Both modules count with the same operator of FiniteSets.                *)
LEMMA SameCardinality == \A S : Abstract!Cardinality(S) = Cardinality(S)
  BY DEF Abstract!Cardinality, Cardinality

(* A caller that connects owns a place without a connection.               *)
LEMMA PlaceToFill ==
    ASSUME IInv, NEW p \in Busy, p \notin Holders
    PROVE  Cardinality(Lent) < active_count
<1>1. Holders \in SUBSET Busy /\ Holders # Busy
  BY BusyFinite
<1>2. Cardinality(Holders) <= Cardinality(Busy) /\ Cardinality(Holders) # Cardinality(Busy)
  BY <1>1, BusyFinite, FS_Subset
<1>3. Cardinality(Holders) < Cardinality(Busy)
  BY <1>2, BusyFinite
<1>. QED  BY <1>3, BusyFinite, Counts, LentCardinality DEF IInv, ActiveCountExplained

(* A step that changes none of what the abstract pool shows is a stutter.  *)
LEMMA Stutters ==
    ASSUME (phase = "building") = (phase' = "building"), Lent' = Lent, Kept' = Kept,
           active_count' = active_count, closed' = closed
    PROVE  UNCHANGED Abstract!vars
  BY DEF Abstract!vars, Lent, Kept

(* The constructor returns the pool.                                       *)
LEMMA NewRefines ==
    ASSUME IInv, NewConnect \/ NewError \/ NewDone
    PROVE  [Abstract!Next]_(Abstract!vars)
<1>1. phase = "building" /\ UNCHANGED <<active_count, closed, pc, held, returning>>
  BY DEF NewConnect, NewError, NewDone
<1>2. Lent' = Lent
  BY <1>1 DEF Lent, Holders
<1>3. CASE NewConnect \/ NewError
  <2>1. phase' = phase /\ Kept' = Kept
    BY <1>1, <1>3 DEF NewConnect, NewError, Kept
  <2>. QED  BY <1>1, <1>2, <2>1, Stutters
<1>4. CASE NewDone
  <2>1. phase' = "alive" /\ Kept' = Range(idle) /\ Kept = {}
    BY <1>1, <1>4 DEF NewDone, Kept
  <2>2. Cardinality(Range(idle)) <= MaxSize
    <3>1. Len(idle) <= MaxSize /\ Len(idle) \in Nat
      BY <1>4, ConfigAssumption, OneQueue DEF NewDone
    <3>2. Cardinality(Range(idle)) <= Len(idle) /\ Cardinality(Range(idle)) \in Nat
      BY QueueCardinality, FS_CardinalityType DEF IInv, TypeOK
    <3>. QED  BY <3>1, <3>2, ConfigAssumption
  <2>3. Abstract!Start
    BY <1>1, <1>2, <2>1, <2>2, OneQueue, SameCardinality DEF Abstract!Start, Lent, Kept
  <2>. QED  BY <2>3 DEF Abstract!Next
<1>. QED  BY <1>3, <1>4

(* close shows when it takes the queue; what it does with its drain, and   *)
(* whether it gets to the end, nobody sees.                                *)
LEMMA CloseRefines ==
    ASSUME IInv, CloseStart \/ CloseClient \/ CloseDone \/ CloseCancelled
    PROVE  [Abstract!Next]_(Abstract!vars)
<1>1. UNCHANGED <<phase, active_count, pc, held, returning>>
  BY DEF CloseStart, CloseClient, CloseDone, CloseCancelled
<1>2. Lent' = Lent
  BY <1>1 DEF Lent, Holders
<1>3. CASE CloseStart
  <2>1. Kept' = {} /\ phase # "building"
    BY <1>3, QueueEmpty DEF CloseStart, Kept
  <2>2. Abstract!Close
    BY <1>1, <1>2, <1>3, <2>1 DEF CloseStart, Abstract!Close, Lent, Kept
  <2>. QED  BY <2>2 DEF Abstract!Next
<1>4. CASE CloseClient \/ CloseDone \/ CloseCancelled
  <2>1. UNCHANGED <<idle, closed>>
    BY <1>4 DEF CloseClient, CloseDone, CloseCancelled
  <2>2. Kept' = Kept
    BY <1>1, <2>1 DEF Kept
  <2>. QED  BY <1>1, <1>2, <2>1, <2>2, Stutters
<1>. QED  BY <1>3, <1>4

(* Dropping the AsyncPool frees the pool if nothing refers to it.          *)
LEMMA DropPoolRefines ==
    ASSUME IInv, DropPool
    PROVE  [Abstract!Next]_(Abstract!vars)
<1>1. /\ phase = "alive" /\ phase' = "gone"
      /\ UNCHANGED <<active_count, closed, pc, held, returning>>
  BY DEF DropPool
<1>2. Lent' = Lent
  BY <1>1 DEF Lent, Holders
<1>3. CASE Holders = {} /\ returning = {}
  <2>1. Lent = {} /\ Kept' = {} /\ Cardinality(Lent) = 0
    BY <1>1, <1>3, QueueEmpty, FS_EmptySet DEF DropPool, Lent, Kept
  <2>2. /\ active_count' = active_count - Abstract!Cardinality(Lent)
        /\ Abstract!Cardinality(Lent) <= 1
    BY <1>1, <2>1, SameCardinality, Counts
  <2>3. Abstract!Free
    BY <1>1, <1>2, <2>1, <2>2 DEF Abstract!Free, Lent, Kept
  <2>. QED  BY <2>3 DEF Abstract!Next
<1>4. CASE ~(Holders = {} /\ returning = {})
  <2>1. Kept' = Kept
    BY <1>1, <1>4 DEF DropPool, Kept
  <2>. QED  BY <1>1, <1>2, <2>1, Stutters
<1>. QED  BY <1>3, <1>4

(* A return task brings its connection back, throws it away with its place,*)
(* or frees the pool.                                                      *)
LEMMA ReturnRefines ==
    ASSUME IInv, NEW c \in Conns, Return(c)
    PROVE  [Abstract!Next]_(Abstract!vars)
<1>1. /\ c \in returning /\ phase # "building"
      /\ active_count' = active_count - 1 /\ returning' = returning \ {c}
      /\ UNCHANGED <<phase, closed, pc, held>>
  BY DEF Return, IInv, QuietEnds
<1>2. c \in Lent /\ Lent' = Lent \ {c}
  BY <1>1 DEF Lent, Holders, IInv, ExclusiveOwnership
<1>3. CASE LastReference({}, {c})
  <2>1. Holders = {} /\ returning = {c}
    BY <1>1, <1>3 DEF LastReference
  <2>2. Lent = {c}
    BY <2>1 DEF Lent
  <2>3. Lent' = {} /\ Cardinality(Lent) = 1
    BY <1>2, <2>2, FS_Singleton
  <2>4. Kept' = {}
    BY <1>3, QueueEmpty DEF Return, Kept
  <2>5. /\ active_count' = active_count - Abstract!Cardinality(Lent)
        /\ Abstract!Cardinality(Lent) <= 1
    BY <1>1, <2>3, SameCardinality
  <2>6. Abstract!Free
    BY <1>1, <2>3, <2>4, <2>5 DEF Abstract!Free, Lent, Kept
  <2>. QED  BY <2>6 DEF Abstract!Next
<1>4. CASE ~LastReference({}, {c}) /\ ~closed
  <2>1. idle' = Append(idle, c)
    BY <1>4 DEF Return
  <2>2. Kept' = Kept \cup {c}
    BY <1>1, <2>1, QueuePush DEF Kept, IInv, TypeOK
  <2>3. Abstract!GiveBack
    BY <1>1, <1>2, <1>4, <2>2 DEF Abstract!GiveBack, Lent, Kept
  <2>. QED  BY <2>3 DEF Abstract!Next
<1>5. CASE ~LastReference({}, {c}) /\ closed
  <2>1. Kept' = Kept
    BY <1>1, <1>5 DEF Return, Kept
  <2>2. Abstract!Discard
    BY <1>1, <1>2, <2>1 DEF Abstract!Discard, Lent, Kept
  <2>. QED  BY <2>2 DEF Abstract!Next
<1>. QED  BY <1>3, <1>4, <1>5

(* What get does with the mutex.                                           *)
LEMMA GetRefines ==
    ASSUME IInv, NEW p \in Callers, GetIdle(p) \/ GetReserve(p)
    PROVE  [Abstract!Next]_(Abstract!vars)
<1>1. /\ phase = "alive" /\ pc[p] = "free" /\ ~closed /\ TypeOK /\ ~locked
      /\ active_count' = active_count + 1
      /\ UNCHANGED <<phase, closed, returning>>
  BY DEF GetIdle, GetReserve, GetLocked, IInv
<1>2. CASE GetIdle(p)
  <2>1. /\ Head(idle) \in Range(idle)
        /\ Range(idle') = Range(idle) \ {Head(idle)}
    BY <1>1, <1>2, OneQueue, QueuePop DEF GetIdle, TypeOK
  <2>2. Holders' = Holders \cup {p} /\ p \notin Holders
    BY <1>1, <1>2, Enter DEF GetIdle
  <2>3. Lent' = Lent \cup {Head(idle)}
    BY <1>1, <1>2, <2>2 DEF GetIdle, Lent, TypeOK
  <2>4. Kept = Range(idle) /\ Kept' = Kept \ {Head(idle)}
    BY <1>1, <2>1 DEF Kept
  <2>5. Abstract!Reuse
    BY <1>1, <2>1, <2>3, <2>4 DEF Abstract!Reuse, Lent, Kept
  <2>. QED  BY <2>5 DEF Abstract!Next
<1>3. CASE GetReserve(p)
  <2>1. Holders' = Holders
    BY <1>1, <1>3, Enter DEF GetReserve
  <2>2. Lent' = Lent /\ Kept = {} /\ Kept' = {} /\ active_count < MaxSize
    BY <1>1, <1>3, <2>1, QueueEmpty, ConfigAssumption DEF GetReserve, Lent, Kept, TypeOK
  <2>3. Abstract!Reserve
    BY <1>1, <2>2 DEF Abstract!Reserve, Lent, Kept
  <2>. QED  BY <2>3 DEF Abstract!Next
<1>. QED  BY <1>2, <1>3

(* How a connect of get ends.                                              *)
LEMMA ConnectRefines ==
    ASSUME IInv, NEW p \in Callers,
           ConnectOk(p) \/ ConnectError(p) \/ GetFailed(p) \/ GetCancelled(p)
    PROVE  [Abstract!Next]_(Abstract!vars)
<1>1. /\ p \in Busy /\ p \notin Holders /\ TypeOK
      /\ UNCHANGED <<phase, idle, closed, returning>>
  BY DEF ConnectOk, ConnectError, GetFailed, GetCancelled, Busy, Holders, IInv
<1>2. phase # "building" /\ Cardinality(Lent) < active_count /\ Kept' = Kept
  BY <1>1, PlaceToFill DEF IInv, QuietEnds, Kept
<1>3. CASE ConnectOk(p)
  <2>1. PICK c \in Fresh : held' = [held EXCEPT ![p] = c]
    BY <1>3 DEF ConnectOk
  <2>2. Holders' = Holders \cup {p}
    BY <1>1, <1>3 DEF ConnectOk, Holders, TypeOK
  <2>3. Lent' = Lent \cup {c}
    BY <1>1, <2>1, <2>2 DEF Lent, TypeOK
  <2>4. c \in Conns \ (Lent \cup Kept)
    BY <1>2, <2>1 DEF Fresh, Clients, Lent, Kept
  <2>5. Abstract!Fill
    BY <1>1, <1>2, <1>3, <2>3, <2>4, SameCardinality DEF ConnectOk, Abstract!Fill, Lent, Kept
  <2>. QED  BY <2>5 DEF Abstract!Next
<1>4. CASE ConnectError(p) \/ GetFailed(p) \/ GetCancelled(p)
  <2>1. Holders' = Holders /\ held' = held
    BY <1>1, <1>4 DEF ConnectError, GetFailed, GetCancelled, Holders, TypeOK
  <2>2. Lent' = Lent
    BY <1>1, <2>1 DEF Lent
  <2>3. CASE GetFailed(p)
    <3>1. Abstract!Release
      BY <1>1, <1>2, <2>2, <2>3, SameCardinality DEF GetFailed, Abstract!Release, Lent, Kept
    <3>. QED  BY <3>1 DEF Abstract!Next
  <2>4. CASE ConnectError(p) \/ GetCancelled(p)
    BY <1>1, <1>2, <2>2, <2>4, Stutters DEF ConnectError, GetCancelled
  <2>. QED  BY <1>4, <2>3, <2>4
<1>. QED  BY <1>3, <1>4

(* A drop hands its connection to a task, or loses the place with it.      *)
LEMMA DropRefines ==
    ASSUME IInv, NEW p \in Callers, DropDead(p) \/ DropSpawn(p)
    PROVE  [Abstract!Next]_(Abstract!vars)
<1>1. /\ p \in Holders /\ p \in Busy /\ TypeOK
      /\ held[p] \in Lent
      /\ UNCHANGED <<phase, active_count, closed>>
  BY DEF DropDead, DropSpawn, Holders, Busy, IInv, Lent
<1>2. phase # "building"
  BY <1>1 DEF IInv, QuietEnds
<1>3. Holders' = Holders \ {p} /\ \A q \in Holders' : held'[q] = held[q]
  BY <1>1, Leave DEF DropDead, DropSpawn, TypeOK, Holders
<1>4. held[p] \notin returning /\ \A q \in Holders' : held[q] # held[p]
  BY <1>1, <1>3 DEF IInv, ExclusiveOwnership
<1>5. CASE DropSpawn(p)
  <2>1. returning' = returning \cup {held[p]} /\ idle' = idle
    BY <1>5 DEF DropSpawn
  <2>2. Lent' = Lent /\ Kept' = Kept
    BY <1>1, <1>3, <2>1 DEF Lent, Kept
  <2>. QED  BY <1>1, <2>2, Stutters
<1>6. CASE DropDead(p)
  <2>1. ClientCloses
    BY <1>1, <1>6 DEF DropDead, IInv, LossesExplained
  <2>2. returning' = returning /\ Lent' = Lent \ {held[p]}
    BY <1>1, <1>3, <1>4, <1>6 DEF DropDead, Lent
  <2>3. CASE LastReference({p}, {})
    <3>1. Holders = {p} /\ returning = {}
      BY <1>1, <2>3 DEF LastReference
    <3>2. Lent = {held[p]}
      BY <3>1 DEF Lent
    <3>3. Lent' = {} /\ Abstract!Cardinality(Lent) <= 1
      <4>1. Lent' = {} /\ Cardinality(Lent) = 1
        BY <2>2, <3>2, FS_Singleton
      <4>. QED  BY <4>1, SameCardinality
    <3>4. Kept' = {}
      BY <1>6, <2>3, QueueEmpty DEF DropDead, Kept
    <3>5. Abstract!Free
      BY <1>1, <1>2, <2>1, <3>3, <3>4 DEF Abstract!Free, Lent, Kept
    <3>. QED  BY <3>5 DEF Abstract!Next
  <2>4. CASE ~LastReference({p}, {})
    <3>1. Kept' = Kept
      BY <1>1, <1>6, <2>4 DEF DropDead, Kept
    <3>2. Abstract!Lose
      BY <1>1, <1>2, <2>1, <2>2, <3>1 DEF Abstract!Lose, Lent, Kept
    <3>. QED  BY <3>2 DEF Abstract!Next
  <2>. QED  BY <2>3, <2>4
<1>. QED  BY <1>5, <1>6

(* Every step of the pool is a step of the abstract pool or a stutter.     *)
LEMMA NextRefines ==
    ASSUME IInv, [Next]_vars
    PROVE  [Abstract!Next]_(Abstract!vars)
<1>1. CASE NewConnect \/ NewError \/ NewDone
  BY <1>1, NewRefines
<1>2. CASE CloseStart \/ CloseClient \/ CloseDone \/ CloseCancelled
  BY <1>2, CloseRefines
<1>3. CASE DropPool
  BY <1>3, DropPoolRefines
<1>4. ASSUME NEW c \in Conns, Return(c)
      PROVE  [Abstract!Next]_(Abstract!vars)
  BY <1>4, ReturnRefines
<1>5. ASSUME NEW p \in Callers, GetIdle(p) \/ GetReserve(p)
      PROVE  [Abstract!Next]_(Abstract!vars)
  BY <1>5, GetRefines
<1>6. ASSUME NEW p \in Callers,
             ConnectOk(p) \/ ConnectError(p) \/ GetFailed(p) \/ GetCancelled(p)
      PROVE  [Abstract!Next]_(Abstract!vars)
  BY <1>6, ConnectRefines
<1>7. ASSUME NEW p \in Callers, DropDead(p) \/ DropSpawn(p)
      PROVE  [Abstract!Next]_(Abstract!vars)
  BY <1>7, DropRefines
<1>8. ASSUME NEW p \in Callers, GetClosed(p) \/ GetExhausted(p) \/ ClientClose(p)
      PROVE  [Abstract!Next]_(Abstract!vars)
  <2>1. UNCHANGED <<phase, idle, active_count, closed, pc, held, returning>>
    BY <1>8 DEF GetClosed, GetExhausted, ClientClose
  <2>2. Lent' = Lent /\ Kept' = Kept
    BY <2>1 DEF Lent, Kept, Holders
  <2>. QED  BY <2>1, <2>2, Stutters
<1>9. CASE UNCHANGED vars
  <2>1. Lent' = Lent /\ Kept' = Kept
    BY <1>9 DEF vars, Lent, Kept, Holders
  <2>. QED  BY <1>9, <2>1, Stutters DEF vars
<1>. QED  BY <1>1, <1>2, <1>3, <1>4, <1>5, <1>6, <1>7, <1>8, <1>9 DEF Next

(* AsyncPool keeps every promise of BoundedPool, and loses a place only    *)
(* where a future is dropped at an await or a holder closes its client:    *)
(* the spawned return tasks and close's drain are invisible.               *)
THEOREM Refinement == Spec => ImplementsBoundedPool
<1>1. Init => Abstract!Init
  BY DEF Init, Abstract!Init, Holders
<1>2. IInv /\ [Next]_vars => [Abstract!Next]_(Abstract!vars)
  BY NextRefines
<1>. QED  BY <1>1, <1>2, Invariance, PTL DEF Spec, ImplementsBoundedPool, Abstract!Spec
=============================================================================
