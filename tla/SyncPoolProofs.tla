--------------------------- MODULE SyncPoolProofs ---------------------------
(***************************************************************************)
(* Proofs about SyncPool, for any number of callers, connections, any      *)
(* max_size and any min_idle that PoolConfig::validate accepts.            *)
(***************************************************************************)
EXTENDS SyncPool, SequenceLemmas

-----------------------------------------------------------------------------
(* Lemmas about the callers *)
(* The sets of callers the pool's counter is compared with are finite.     *)
LEMMA BusyFinite ==
    /\ IsFiniteSet(Busy) /\ Cardinality(Busy) \in Nat
    /\ IsFiniteSet(Holders) /\ Cardinality(Holders) \in Nat
    /\ Holders \subseteq Busy
<1>1. Busy \subseteq Callers /\ Holders \subseteq Callers /\ Holders \subseteq Busy
  BY DEF Busy, Holders
<1>. QED  BY <1>1, CallersAssumption, FS_Subset, FS_CardinalityType

(* A caller that starts to use the pool is one more place.                 *)
LEMMA Enter ==
    ASSUME TypeOK, NEW p \in Callers, pc[p] = "free",
           NEW v \in {"connecting", "holding"},
           pc' = [pc EXCEPT ![p] = v]
    PROVE  /\ Busy' = Busy \cup {p}
           /\ Cardinality(Busy') = Cardinality(Busy) + 1
           /\ v = "holding" => Holders' = Holders \cup {p}
           /\ v = "connecting" => Holders' = Holders
           /\ p \notin Holders
<1>1. Busy' = Busy \cup {p} /\ p \notin Busy
  BY DEF Busy, TypeOK
<1>2. Cardinality(Busy') = Cardinality(Busy) + 1
  BY <1>1, BusyFinite, FS_AddElement
<1>3. v = "holding" => Holders' = Holders \cup {p}
  BY DEF Holders, TypeOK
<1>4. v = "connecting" => Holders' = Holders
  BY DEF Holders, TypeOK
<1>. QED  BY <1>1, <1>2, <1>3, <1>4, BusyFinite

(* A caller that is done with the pool is one place less.                  *)
LEMMA Leave ==
    ASSUME TypeOK, NEW p \in Callers, pc[p] # "free",
           pc' = [pc EXCEPT ![p] = "free"]
    PROVE  /\ Busy' = Busy \ {p}
           /\ Cardinality(Busy') = Cardinality(Busy) - 1
           /\ Cardinality(Busy) >= 1
           /\ Holders' = Holders \ {p}
<1>1. Busy' = Busy \ {p} /\ p \in Busy
  BY DEF Busy, TypeOK
<1>2. Cardinality(Busy') = Cardinality(Busy) - 1
  BY <1>1, BusyFinite, FS_RemoveElement
<1>3. Cardinality(Busy) >= 1
  BY <1>1, BusyFinite, FS_EmptySet
<1>4. Holders' = Holders \ {p}
  BY DEF Holders, TypeOK
<1>. QED  BY <1>1, <1>2, <1>3, <1>4

-----------------------------------------------------------------------------
(* The inductive invariant *)

(* The pool starts in a state that satisfies the inductive invariant.      *)
LEMMA InitInv == Init => IInv
<1>. SUFFICES ASSUME Init PROVE IInv
  OBVIOUS
<1>1. TypeOK
  BY QueueEmpty DEF Init, TypeOK
<1>2. Busy = {} /\ Holders = {}
  BY DEF Init, Busy, Holders
<1>3. ActiveCountExact
  BY <1>2, FS_EmptySet DEF Init, ActiveCountExact
<1>4. CapacityBound
  BY QueueEmpty, ConfigAssumption DEF Init, CapacityBound
<1>5. ExclusiveOwnership
  BY <1>2, QueueEmpty DEF Init, ExclusiveOwnership
<1>6. IdleUsable /\ NoOrphanSocket /\ ClosedPoolEmpty
  BY QueueEmpty DEF Init, IdleUsable, NoOrphanSocket, ClosedPoolEmpty
<1>7. QuietEnds
  BY <1>2, QueueEmpty, ConfigAssumption DEF Init, QuietEnds
<1>. QED  BY <1>1, <1>3, <1>4, <1>5, <1>6, <1>7 DEF IInv

(* Steps that change no place, no owner and no socket.                     *)
LEMMA SameOwners ==
    ASSUME IInv, UNCHANGED <<phase, idle, active_count, closed, pc, held, open>>,
           TypeOK'
    PROVE  IInv'
<1>1. Busy' = Busy /\ Holders' = Holders /\ Clients' = Clients
  BY DEF Busy, Holders, Clients
<1>. QED
  BY <1>1 DEF IInv, ActiveCountExact, CapacityBound, ExclusiveOwnership,
              IdleUsable, NoOrphanSocket, ClosedPoolEmpty, QuietEnds

(* Steps that touch the queue and the sockets only, no caller.             *)
LEMMA SameCallers ==
    ASSUME IInv, UNCHANGED <<active_count, pc, held, outcome>>,
           TypeOK',
           Len(idle') <= Len(idle) \/ (Busy = {} /\ Len(idle') <= MaxSize),
           IsInjective(idle'),
           \A q \in Holders : held[q] \notin Range(idle'),
           IdleUsable', NoOrphanSocket', ClosedPoolEmpty', QuietEnds'
    PROVE  IInv'
<1>1. Busy' = Busy /\ Holders' = Holders
  BY DEF Busy, Holders
<1>2. ActiveCountExact'
  BY <1>1 DEF IInv, ActiveCountExact
<1>3. CapacityBound'
  <2>1. Len(idle) \in Nat /\ Len(idle') \in Nat
    BY QueueFront DEF IInv, TypeOK
  <2>2. Busy = {} => active_count = 0
    BY FS_EmptySet DEF IInv, ActiveCountExact
  <2>. QED  BY <2>1, <2>2, ConfigAssumption DEF IInv, CapacityBound, TypeOK
<1>4. ExclusiveOwnership'
  BY <1>1 DEF IInv, ExclusiveOwnership
<1>. QED  BY <1>2, <1>3, <1>4 DEF IInv

(* Every step of the pool keeps the inductive invariant.                   *)
LEMMA NextInv == IInv /\ [Next]_vars => IInv'
<1>. SUFFICES ASSUME IInv, [Next]_vars PROVE IInv'
  OBVIOUS
<1>. USE DEF IInv
<1>a. /\ Len(idle) \in Nat
      /\ Range(idle) \subseteq Conns
      /\ \A c \in Conns : Append(idle, c) \in Seq(Conns)
  BY QueueFront, QueuePush DEF TypeOK
<1>1. CASE NewConnect
  <2>1. PICK c \in Fresh : idle' = Append(idle, c) /\ open' = open \cup {c}
    BY <1>1 DEF NewConnect
  <2>2. c \in Conns /\ c \notin Range(idle) /\ c \notin open
        /\ Range(idle') = Range(idle) \cup {c}
        /\ Len(idle') = Len(idle) + 1
        /\ IsInjective(idle')
    BY <2>1, QueuePush DEF Fresh, Clients, TypeOK, ExclusiveOwnership
  <2>3. Busy = {} /\ Holders = {} /\ Busy' = {} /\ Holders' = {}
    BY <1>1, BusyFinite DEF NewConnect, QuietEnds, Busy, Holders
  <2>4. TypeOK'
    BY <1>1, <2>1, <2>2, <1>a DEF NewConnect, TypeOK
  <2>5. IdleUsable' /\ NoOrphanSocket' /\ ClosedPoolEmpty' /\ QuietEnds'
    BY <1>1, <2>1, <2>2, <2>3, <1>a, ConfigAssumption
    DEF NewConnect, IdleUsable, NoOrphanSocket, ClosedPoolEmpty, QuietEnds, Clients
  <2>6. Len(idle') <= MaxSize
    BY <1>1, <2>2, <1>a, ConfigAssumption DEF NewConnect
  <2>. QED  BY <1>1, <2>2, <2>3, <2>4, <2>5, <2>6, SameCallers DEF NewConnect
<1>2. CASE NewError
  <2>1. Busy = {} /\ Holders = {} /\ Busy' = {} /\ Holders' = {}
    BY <1>2, BusyFinite DEF NewError, QuietEnds, Busy, Holders
  <2>2. TypeOK' /\ Len(idle') <= Len(idle) /\ IsInjective(idle') /\ Range(idle') = {}
    BY <1>2, QueueEmpty, <1>a DEF NewError, TypeOK
  <2>3. IdleUsable' /\ NoOrphanSocket' /\ ClosedPoolEmpty' /\ QuietEnds'
    BY <1>2, <2>1, <2>2, QueueEmpty, ConfigAssumption
    DEF NewError, IdleUsable, NoOrphanSocket, ClosedPoolEmpty, QuietEnds, Clients
  <2>4. UNCHANGED <<active_count, pc, held, outcome>>
    BY <1>2 DEF NewError
  <2>. QED  BY <2>2, <2>3, <2>4, SameCallers
<1>3. CASE NewDone
  <2>1. TypeOK' /\ QuietEnds'
    BY <1>3 DEF NewDone, TypeOK, QuietEnds
  <2>2. IdleUsable' /\ NoOrphanSocket' /\ ClosedPoolEmpty'
    BY <1>3 DEF NewDone, IdleUsable, NoOrphanSocket, ClosedPoolEmpty, Clients, Holders
  <2>3. \A q \in Holders : held[q] \notin Range(idle')
    BY <1>3 DEF NewDone, ExclusiveOwnership
  <2>4. UNCHANGED <<active_count, pc, held, outcome>> /\ Len(idle') <= Len(idle) /\ IsInjective(idle')
    BY <1>3, <1>a DEF NewDone, ExclusiveOwnership
  <2>. QED  BY <2>1, <2>2, <2>3, <2>4, SameCallers
<1>4. CASE Close
  <2>1. TypeOK' /\ Len(idle') <= Len(idle) /\ IsInjective(idle') /\ Range(idle') = {}
    BY <1>4, QueueEmpty, <1>a DEF Close, TypeOK
  <2>2. Holders' = Holders /\ Busy' = Busy
    BY <1>4 DEF Close, Holders, Busy
  <2>3. IdleUsable' /\ NoOrphanSocket' /\ ClosedPoolEmpty' /\ QuietEnds'
    BY <1>4, <2>1, <2>2
    DEF Close, IdleUsable, NoOrphanSocket, ClosedPoolEmpty, QuietEnds, Clients
  <2>4. UNCHANGED <<active_count, pc, held, outcome>>
    BY <1>4 DEF Close
  <2>. QED  BY <2>1, <2>3, <2>4, SameCallers
<1>5. CASE DropPool
  <2>1. Holders' = Holders /\ Busy' = Busy
    BY <1>5 DEF DropPool, Holders, Busy
  <2>2. CASE Holders = {}
    <3>1. TypeOK' /\ Len(idle') <= Len(idle) /\ IsInjective(idle') /\ Range(idle') = {}
      BY <1>5, <2>2, QueueEmpty, <1>a DEF DropPool, TypeOK
    <3>2. IdleUsable' /\ NoOrphanSocket' /\ ClosedPoolEmpty' /\ QuietEnds'
      BY <1>5, <2>1, <2>2, <3>1
      DEF DropPool, IdleUsable, NoOrphanSocket, ClosedPoolEmpty, QuietEnds, Clients
    <3>3. UNCHANGED <<active_count, pc, held, outcome>>
      BY <1>5 DEF DropPool
    <3>. QED  BY <3>1, <3>2, <3>3, SameCallers
  <2>3. CASE Holders # {}
    <3>1. TypeOK' /\ QuietEnds' /\ UNCHANGED <<idle, open>>
      BY <1>5, <2>1, <2>3 DEF DropPool, TypeOK, QuietEnds
    <3>2. IdleUsable' /\ NoOrphanSocket' /\ ClosedPoolEmpty'
      BY <1>5, <2>1, <3>1 DEF DropPool, IdleUsable, NoOrphanSocket, ClosedPoolEmpty, Clients
    <3>3. \A q \in Holders : held[q] \notin Range(idle')
      BY <3>1 DEF ExclusiveOwnership
    <3>4. UNCHANGED <<active_count, pc, held, outcome>> /\ Len(idle') <= Len(idle) /\ IsInjective(idle')
      BY <1>5, <3>1, <1>a DEF DropPool, ExclusiveOwnership
    <3>. QED  BY <3>1, <3>2, <3>3, <3>4, SameCallers
  <2>. QED  BY <2>2, <2>3
<1>6. CASE UNCHANGED vars
  BY <1>6, SameOwners DEF vars, TypeOK
<1>7. ASSUME NEW p \in Callers, GetClosed(p) PROVE IInv'
  BY <1>7, SameOwners DEF GetClosed, TypeOK
<1>8. ASSUME NEW p \in Callers, GetExhausted(p) PROVE IInv'
  BY <1>8, SameOwners DEF GetExhausted, TypeOK
<1>9. ASSUME NEW p \in Callers, GetIdle(p) PROVE IInv'
  <2>1. /\ Head(idle) \in Range(idle)
        /\ Range(idle') \subseteq Range(idle)
        /\ Range(idle) = Range(idle') \cup {Head(idle)}
        /\ idle' \in Seq(Conns)
        /\ Len(idle') = Len(idle) - 1
        /\ IsInjective(idle') /\ Head(idle) \notin Range(idle')
    BY <1>9, QueuePop DEF GetIdle, TypeOK, ExclusiveOwnership
  <2>2. /\ Busy' = Busy \cup {p}
        /\ Cardinality(Busy') = Cardinality(Busy) + 1
        /\ Holders' = Holders \cup {p}
        /\ p \notin Holders
    BY <1>9, Enter DEF GetIdle
  <2>3. held' = [held EXCEPT ![p] = Head(idle)] /\ held'[p] = Head(idle)
    BY <1>9 DEF GetIdle, TypeOK
  <2>4. TypeOK'
    BY <1>9, <2>1, <1>a DEF GetIdle, TypeOK
  <2>5. ActiveCountExact'
    BY <1>9, <2>2 DEF GetIdle, ActiveCountExact
  <2>6. CapacityBound'
    BY <1>9, <2>1, <1>a, ConfigAssumption DEF GetIdle, CapacityBound, TypeOK
  <2>7. ExclusiveOwnership'
    BY <2>1, <2>2, <2>3, <1>a DEF ExclusiveOwnership, TypeOK
  <2>8. Clients' = Clients
    BY <2>1, <2>2, <2>3 DEF Clients, TypeOK
  <2>9. IdleUsable' /\ NoOrphanSocket' /\ ClosedPoolEmpty'
    BY <1>9, <2>1, <2>8 DEF GetIdle, IdleUsable, NoOrphanSocket, ClosedPoolEmpty
  <2>10. QuietEnds'
    BY <1>9 DEF GetIdle, QuietEnds
  <2>. QED  BY <2>4, <2>5, <2>6, <2>7, <2>9, <2>10
<1>10. ASSUME NEW p \in Callers, GetReserve(p) PROVE IInv'
  <2>1. /\ Cardinality(Busy') = Cardinality(Busy) + 1
        /\ Holders' = Holders
    BY <1>10, Enter DEF GetReserve
  <2>2. TypeOK'
    BY <1>10 DEF GetReserve, TypeOK
  <2>3. ActiveCountExact' /\ CapacityBound'
    BY <1>10, <2>1, <1>a, ConfigAssumption
    DEF GetReserve, ActiveCountExact, CapacityBound, TypeOK
  <2>4. ExclusiveOwnership' /\ Clients' = Clients
    BY <1>10, <2>1 DEF GetReserve, ExclusiveOwnership, Clients
  <2>5. IdleUsable' /\ NoOrphanSocket' /\ ClosedPoolEmpty' /\ QuietEnds'
    BY <1>10, <2>4 DEF GetReserve, IdleUsable, NoOrphanSocket, ClosedPoolEmpty, QuietEnds
  <2>. QED  BY <2>2, <2>3, <2>4, <2>5
<1>11. ASSUME NEW p \in Callers, ConnectOk(p) PROVE IInv'
  <2>1. PICK c \in Fresh : held' = [held EXCEPT ![p] = c] /\ open' = open \cup {c}
    BY <1>11 DEF ConnectOk
  <2>2. /\ c \in Conns /\ c \notin Range(idle) /\ c \notin open
        /\ \A q \in Holders : held[q] # c
    BY <2>1 DEF Fresh, Clients
  <2>3. p \notin Holders /\ Holders' = Holders \cup {p} /\ Busy' = Busy /\ p \in Busy
    BY <1>11 DEF ConnectOk, Holders, Busy, TypeOK
  <2>4. TypeOK'
    BY <1>11, <2>1, <2>2 DEF ConnectOk, TypeOK
  <2>5. ActiveCountExact' /\ CapacityBound' /\ ClosedPoolEmpty'
    BY <1>11, <2>3 DEF ConnectOk, ActiveCountExact, CapacityBound, ClosedPoolEmpty
  <2>6. ExclusiveOwnership'
    BY <1>11, <2>1, <2>2, <2>3 DEF ConnectOk, ExclusiveOwnership, TypeOK
  <2>7. Clients' = Clients \cup {c}
    BY <1>11, <2>1, <2>3 DEF ConnectOk, Clients, TypeOK
  <2>8. IdleUsable' /\ NoOrphanSocket'
    BY <1>11, <2>1, <2>7 DEF ConnectOk, IdleUsable, NoOrphanSocket
  <2>9. QuietEnds'
    BY <1>11, <2>3 DEF ConnectOk, QuietEnds
  <2>. QED  BY <2>4, <2>5, <2>6, <2>8, <2>9
<1>12. ASSUME NEW p \in Callers, ConnectError(p) PROVE IInv'
  <2>1. Busy' = Busy /\ Holders' = Holders /\ TypeOK'
    BY <1>12 DEF ConnectError, Busy, Holders, TypeOK
  <2>2. Clients' = Clients
    BY <1>12, <2>1 DEF ConnectError, Clients
  <2>. QED
    BY <1>12, <2>1, <2>2 DEF ConnectError, ActiveCountExact, CapacityBound,
       ExclusiveOwnership, IdleUsable, NoOrphanSocket, ClosedPoolEmpty, QuietEnds
<1>13. ASSUME NEW p \in Callers, GetFailed(p) PROVE IInv'
  <2>1. /\ Cardinality(Busy') = Cardinality(Busy) - 1
        /\ Cardinality(Busy) >= 1
        /\ Busy' = Busy \ {p}
        /\ Holders' = Holders \ {p}
    BY <1>13, Leave DEF GetFailed
  <2>2. p \notin Holders /\ p \in Busy
    BY <1>13 DEF GetFailed, Holders, Busy
  <2>3. Holders' = Holders /\ Clients' = Clients
    BY <1>13, <2>1, <2>2 DEF GetFailed, Clients
  <2>4. ActiveCountExact' /\ active_count >= 1
    BY <1>13, <2>1, BusyFinite DEF GetFailed, ActiveCountExact
  <2>5. TypeOK' /\ CapacityBound'
    BY <1>13, <2>4, <1>a, ConfigAssumption DEF GetFailed, TypeOK, CapacityBound
  <2>6. ExclusiveOwnership' /\ IdleUsable' /\ NoOrphanSocket' /\ ClosedPoolEmpty'
    BY <1>13, <2>3 DEF GetFailed, ExclusiveOwnership, IdleUsable, NoOrphanSocket,
                       ClosedPoolEmpty
  <2>7. QuietEnds'
    BY <1>13, <2>1, <2>2 DEF GetFailed, QuietEnds
  <2>. QED  BY <2>4, <2>5, <2>6, <2>7
<1>14. ASSUME NEW p \in Callers, ClientClose(p) PROVE IInv'
  <2>1. p \in Holders /\ held[p] \notin Range(idle)
    BY <1>14 DEF ClientClose, Holders, ExclusiveOwnership
  <2>2. TypeOK' /\ Holders' = Holders
    BY <1>14 DEF ClientClose, TypeOK, Holders
  <2>3. \A q \in Holders : held[q] \notin Range(idle')
    BY <1>14 DEF ClientClose, ExclusiveOwnership
  <2>4. IdleUsable' /\ NoOrphanSocket' /\ ClosedPoolEmpty' /\ QuietEnds'
    BY <1>14, <2>1, <2>2 DEF ClientClose, IdleUsable, NoOrphanSocket, ClosedPoolEmpty,
       QuietEnds, Clients, Busy
  <2>5. UNCHANGED <<active_count, pc, held, outcome>> /\ Len(idle') <= Len(idle) /\ IsInjective(idle')
    BY <1>14, <1>a DEF ClientClose, ExclusiveOwnership
  <2>. QED  BY <2>2, <2>3, <2>4, <2>5, SameCallers
<1>15. ASSUME NEW p \in Callers, Drop(p) PROVE IInv'
  <2>. DEFINE usable == ~closed /\ held[p] \in open
              back   == IF usable THEN Append(idle, held[p]) ELSE idle
              left   == IF usable THEN open ELSE open \ {held[p]}
  <2>1. /\ Cardinality(Busy') = Cardinality(Busy) - 1
        /\ Cardinality(Busy) >= 1
        /\ Busy' = Busy \ {p}
        /\ Holders' = Holders \ {p}
    BY <1>15, Leave DEF Drop
  <2>2. p \in Holders /\ held[p] \in Conns /\ held[p] \notin Range(idle)
    BY <1>15 DEF Drop, Holders, ExclusiveOwnership
  <2>3. \A q \in Holders' : /\ q \in Holders /\ q # p
                            /\ held'[q] = held[q] /\ held[q] # held[p]
    BY <1>15, <2>1, <2>2 DEF Drop, ExclusiveOwnership, TypeOK, Holders
  <2>4. /\ back \in Seq(Conns)
        /\ Len(back) \in Nat
        /\ Len(back) <= Len(idle) + 1
        /\ IsInjective(back)
        /\ Range(back) = IF usable THEN Range(idle) \cup {held[p]} ELSE Range(idle)
        /\ closed => back = <<>>
    <3>1. CASE usable
      <4>1. back = Append(idle, held[p]) /\ ~closed
        BY <3>1
      <4>2. /\ Append(idle, held[p]) \in Seq(Conns)
            /\ Len(Append(idle, held[p])) = Len(idle) + 1
            /\ Range(Append(idle, held[p])) = Range(idle) \cup {held[p]}
            /\ IsInjective(Append(idle, held[p]))
        BY <2>2, QueuePush DEF ExclusiveOwnership, TypeOK
      <4>. QED  BY <3>1, <4>1, <4>2, <1>a
    <3>2. CASE ~usable
      <4>1. back = idle
        BY <3>2
      <4>. QED  BY <3>2, <4>1, <1>a DEF ExclusiveOwnership, TypeOK, ClosedPoolEmpty
    <3>. QED  BY <3>1, <3>2
  <2>5. ActiveCountExact' /\ active_count >= 1
    BY <1>15, <2>1, BusyFinite DEF Drop, ActiveCountExact
  <2>6. Range(back) \subseteq left /\ left \subseteq open
    BY <2>2, <2>4 DEF IdleUsable
  <2>7. left \subseteq Range(back) \cup {held[q] : q \in Holders \ {p}}
    BY <2>2, <2>4 DEF NoOrphanSocket, Clients
  <2>8. QuietEnds'
    <3>1. phase # "building" /\ phase' = phase
      BY <1>15, <2>2, BusyFinite DEF Drop, QuietEnds
    <3>. QED  BY <3>1, <2>1 DEF QuietEnds
  <2>9. CASE ~LastReference(p)
    <3>1. idle' = back /\ open' = left
      BY <1>15, <2>9 DEF Drop
    <3>2. TypeOK'
      BY <1>15, <3>1, <2>4, <2>5, <2>6 DEF Drop, TypeOK
    <3>3. CapacityBound'
      BY <1>15, <3>1, <2>4, <2>5, <1>a, ConfigAssumption DEF Drop, CapacityBound, TypeOK
    <3>4. ExclusiveOwnership'
      BY <3>1, <2>2, <2>3, <2>4 DEF ExclusiveOwnership
    <3>5. Clients' = Range(back) \cup {held[q] : q \in Holders \ {p}}
      BY <3>1, <2>1, <2>3 DEF Clients
    <3>6. IdleUsable' /\ NoOrphanSocket'
      BY <3>1, <3>5, <2>6, <2>7 DEF IdleUsable, NoOrphanSocket
    <3>7. ClosedPoolEmpty'
      BY <1>15, <3>1, <2>4 DEF Drop, ClosedPoolEmpty
    <3>. QED  BY <2>5, <2>8, <3>2, <3>3, <3>4, <3>6, <3>7
  <2>10. CASE LastReference(p)
    <3>1. idle' = <<>> /\ open' = left \ Range(back)
      BY <1>15, <2>10 DEF Drop
    <3>2. Holders' = {}
      BY <2>1, <2>10 DEF LastReference
    <3>3. open' = {}
      BY <3>1, <3>2, <2>1, <2>7
    <3>4. TypeOK'
      BY <1>15, <3>1, <3>3, <2>5, QueueEmpty DEF Drop, TypeOK
    <3>5. CapacityBound'
      BY <1>15, <3>1, <2>5, <1>a, QueueEmpty, ConfigAssumption
      DEF Drop, CapacityBound, TypeOK
    <3>6. ExclusiveOwnership' /\ IdleUsable' /\ NoOrphanSocket' /\ ClosedPoolEmpty'
      BY <3>1, <3>2, <3>3, QueueEmpty
      DEF ExclusiveOwnership, IdleUsable, NoOrphanSocket, ClosedPoolEmpty
    <3>. QED  BY <2>5, <2>8, <3>4, <3>5, <3>6
  <2>. QED  BY <2>9, <2>10
<1>. QED
  BY <1>1, <1>2, <1>3, <1>4, <1>5, <1>6, <1>7, <1>8, <1>9, <1>10, <1>11, <1>12,
     <1>13, <1>14, <1>15 DEF Next

-----------------------------------------------------------------------------
(* The theorems *)

(* The inductive invariant holds in every state of every run of the pool.  *)
THEOREM Invariance == Spec => []IInv
<1>1. Init => IInv
  BY InitInv
<1>2. IInv /\ [Next]_vars => IInv'
  BY NextInv
<1>. QED  BY <1>1, <1>2, PTL DEF Spec

(* Type correctness; in particular active_count, a usize, stays a natural  *)
(* number: none of the pool's decrements underflows.                       *)
THEOREM TypeCorrect == Spec => []TypeOK
<1>1. IInv => TypeOK
  BY DEF IInv
<1>. QED  BY <1>1, Invariance, PTL

(* active_count counts the callers that own a place, whatever the order of *)
(* their gets, failing connects and drops.                                 *)
THEOREM AccountingCorrect == Spec => []ActiveCountExact
<1>1. IInv => ActiveCountExact
  BY DEF IInv
<1>. QED  BY <1>1, Invariance, PTL

(* The pool never counts more than max_size connections.                   *)
THEOREM CapacityCorrect == Spec => []CapacityBound
<1>1. IInv => CapacityBound
  BY DEF IInv
<1>. QED  BY <1>1, Invariance, PTL

(* No connection is lent twice, or lent while it is in the queue.          *)
THEOREM OwnershipCorrect == Spec => []ExclusiveOwnership
<1>1. IInv => ExclusiveOwnership
  BY DEF IInv
<1>. QED  BY <1>1, Invariance, PTL

(* The queue keeps only clients that are open, every open client has an    *)
(* owner, and a closed pool keeps none.                                    *)
THEOREM SocketsOwned == Spec => []SocketsAccounted
<1>1. IInv => SocketsAccounted
  BY DEF IInv, SocketsAccounted
<1>. QED  BY <1>1, Invariance, PTL

(* The sockets open or about to be opened are never more than max_size.    *)
THEOREM SocketBoundCorrect == Spec => []SocketBound
<1>1. ASSUME IInv PROVE SocketBound
  <2>. DEFINE Lent == {held[p] : p \in Holders}
              Connecting == {p \in Callers : pc[p] = "connecting"}
  <2>1. IsFiniteSet(Range(idle)) /\ Cardinality(Range(idle)) <= Len(idle)
    BY <1>1, QueueCardinality DEF IInv, TypeOK
  <2>2. IsFiniteSet(Lent) /\ Cardinality(Lent) <= Cardinality(Holders)
    <3>1. [p \in Holders |-> held[p]] \in Surjection(Holders, Lent)
      BY DEF Surjection
    <3>. QED  BY <3>1, BusyFinite, FS_Surjection
  <2>3. /\ IsFiniteSet(open)
        /\ Cardinality(open) <= Cardinality(Range(idle)) + Cardinality(Lent)
    <3>1. /\ IsFiniteSet(Range(idle) \cup Lent)
          /\ Cardinality(Range(idle) \cup Lent)
                = Cardinality(Range(idle)) + Cardinality(Lent)
                  - Cardinality(Range(idle) \cap Lent)
      BY <2>1, <2>2, FS_Union
    <3>2. IsFiniteSet(Range(idle) \cap Lent)
      BY <2>1, FS_Intersection
    <3>3. open \in SUBSET (Range(idle) \cup Lent)
      BY <1>1 DEF IInv, NoOrphanSocket, Clients
    <3>4. IsFiniteSet(open) /\ Cardinality(open) <= Cardinality(Range(idle) \cup Lent)
      BY <3>1, <3>3, FS_Subset
    <3>5. Cardinality(Range(idle) \cap Lent) \in Nat /\ Cardinality(open) \in Nat
          /\ Cardinality(Range(idle)) \in Nat /\ Cardinality(Lent) \in Nat
      BY <2>1, <2>2, <3>2, <3>4, FS_CardinalityType
    <3>. QED  BY <3>1, <3>4, <3>5
  <2>4. /\ IsFiniteSet(Connecting)
        /\ Cardinality(Holders) + Cardinality(Connecting) <= Cardinality(Busy)
    <3>1. Connecting \subseteq Busy /\ Holders \subseteq Busy /\ Holders \cap Connecting = {}
      BY DEF Busy, Holders
    <3>2. IsFiniteSet(Connecting)
      BY <3>1, BusyFinite, FS_Subset
    <3>3. Cardinality(Holders \cup Connecting)
            = Cardinality(Holders) + Cardinality(Connecting)
      <4>1. Cardinality(Holders \cup Connecting)
              = Cardinality(Holders) + Cardinality(Connecting)
                - Cardinality(Holders \cap Connecting)
        BY <3>2, BusyFinite, FS_Union
      <4>2. Cardinality(Holders \cap Connecting) = 0
        BY <3>1, FS_EmptySet
      <4>3. Cardinality(Holders) \in Nat /\ Cardinality(Connecting) \in Nat
        BY <3>2, BusyFinite, FS_CardinalityType
      <4>. QED  BY <4>1, <4>2, <4>3
    <3>4. Holders \cup Connecting \in SUBSET Busy
      BY <3>1
    <3>5. Cardinality(Holders \cup Connecting) <= Cardinality(Busy)
      BY <3>4, BusyFinite, FS_Subset
    <3>. QED  BY <3>2, <3>3, <3>5
  <2>5. /\ Cardinality(open) \in Nat /\ Cardinality(Range(idle)) \in Nat
        /\ Cardinality(Lent) \in Nat /\ Cardinality(Holders) \in Nat
        /\ Cardinality(Connecting) \in Nat /\ Cardinality(Busy) \in Nat
        /\ Len(idle) \in Nat
    BY <1>1, <2>1, <2>2, <2>3, <2>4, BusyFinite, FS_CardinalityType, QueueFront
    DEF IInv, TypeOK
  <2>6. Cardinality(Busy) + Len(idle) <= MaxSize
    BY <1>1 DEF IInv, ActiveCountExact, CapacityBound
  <2>7. Cardinality(open) + Cardinality(Connecting) <= MaxSize
    <3>. HIDE DEF Lent, Connecting
    <3>. QED  BY <2>1, <2>2, <2>3, <2>4, <2>5, <2>6, ConfigAssumption
  <2>. QED  BY <2>7 DEF SocketBound
<1>. QED  BY <1>1, Invariance, PTL

(* get answers PoolExhausted only while max_size callers own a place.      *)
THEOREM ExhaustionJustified == Spec => ExhaustedOnlyWhenFull
<1>. DEFINE A == \A p \in Callers :
                    outcome'[p] = "exhausted" /\ outcome[p] # "exhausted"
                       => Cardinality(Busy) = MaxSize
<1>1. ASSUME IInv, [Next]_vars PROVE [A]_vars
  <2>1. SUFFICES ASSUME Next, NEW p \in Callers,
                        outcome'[p] = "exhausted", outcome[p] # "exhausted"
                 PROVE  Cardinality(Busy) = MaxSize
    BY <1>1
  <2>2. PICK q \in Callers : GetExhausted(q)
    <3>1. ASSUME NEW q \in Callers,
                 \/ GetClosed(q) \/ GetIdle(q) \/ GetReserve(q) \/ ConnectOk(q)
                 \/ ConnectError(q) \/ GetFailed(q) \/ ClientClose(q) \/ Drop(q)
          PROVE  FALSE
      BY <1>1, <2>1, <3>1 DEF IInv, TypeOK, GetClosed, GetIdle, GetReserve, ConnectOk,
         ConnectError, GetFailed, ClientClose, Drop
    <3>2. ~(NewConnect \/ NewError \/ NewDone \/ Close \/ DropPool)
      BY <2>1 DEF NewConnect, NewError, NewDone, Close, DropPool
    <3>. QED  BY <2>1, <3>1, <3>2 DEF Next
  <2>3. active_count + Len(idle) >= MaxSize /\ idle = <<>>
    BY <2>2 DEF GetExhausted
  <2>4. active_count + Len(idle) <= MaxSize /\ active_count = Cardinality(Busy)
    BY <1>1 DEF IInv, CapacityBound, ActiveCountExact
  <2>. QED  BY <1>1, <2>3, <2>4, ConfigAssumption, QueueEmpty DEF IInv, TypeOK
<1>. QED  BY <1>1, Invariance, PTL DEF Spec, ExhaustedOnlyWhenFull

-----------------------------------------------------------------------------
(* SyncPool implements BoundedPool *)

Lent == {held[p] : p \in Holders}

Kept == IF phase = "building" THEN {} ELSE Range(idle)

(* Both modules count with the same operator of FiniteSets.                *)
LEMMA SameCardinality == \A S : Abstract!Cardinality(S) = Cardinality(S)
  BY DEF Abstract!Cardinality, Cardinality

(* The connections lent are as many as their holders.                      *)
LEMMA LentCardinality ==
    ASSUME IInv
    PROVE  IsFiniteSet(Lent) /\ Cardinality(Lent) = Cardinality(Holders)
<1>. DEFINE f == [p \in Holders |-> held[p]]
<1>1. f \in Surjection(Holders, Lent) /\ f \in Injection(Holders, Lent)
  BY DEF Surjection, Injection, IsInjective, Lent, IInv, ExclusiveOwnership
<1>. QED  BY <1>1, BusyFinite, FS_Surjection

(* A caller that connects owns a place without a connection.               *)
LEMMA PlaceToFill ==
    ASSUME IInv, NEW p \in Busy, p \notin Holders
    PROVE  Cardinality(Lent) < active_count
<1>1. Holders \in SUBSET Busy /\ Holders # Busy
  BY BusyFinite
<1>2. Cardinality(Holders) <= Cardinality(Busy) /\ Cardinality(Holders) # Cardinality(Busy)
  BY <1>1, BusyFinite, FS_Subset
<1>. QED  BY <1>2, BusyFinite, LentCardinality DEF IInv, ActiveCountExact

(* A step that changes none of what the abstract pool shows is a stutter.  *)
LEMMA Stutters ==
    ASSUME (phase = "building") = (phase' = "building"), Lent' = Lent, Kept' = Kept,
           active_count' = active_count, closed' = closed
    PROVE  UNCHANGED Abstract!vars
  BY DEF Abstract!vars, Lent, Kept

(* Every step of the pool is a step of the abstract pool or a stutter.     *)
LEMMA NextRefines ==
    ASSUME IInv, [Next]_vars
    PROVE  [Abstract!Next]_(Abstract!vars)
<1>. USE DEF IInv
<1>a. Len(idle) \in Nat /\ Range(idle) \subseteq Conns /\ idle \in Seq(Conns)
  BY QueueFront DEF TypeOK
<1>1. CASE NewConnect \/ NewError
  <2>1. phase = "building" /\ UNCHANGED <<phase, active_count, closed, pc, held>>
    BY <1>1 DEF NewConnect, NewError
  <2>2. Lent' = Lent /\ Kept' = Kept
    BY <2>1 DEF Lent, Kept, Holders
  <2>. QED  BY <2>1, <2>2, Stutters
<1>2. CASE NewDone
  <2>1. /\ phase = "building" /\ phase' = "alive"
        /\ UNCHANGED <<idle, active_count, closed, pc, held>>
    BY <1>2 DEF NewDone
  <2>2. Lent' = Lent /\ Kept' = Range(idle)
    BY <2>1 DEF Lent, Kept, Holders
  <2>3. Cardinality(Range(idle)) <= MaxSize
    <3>1. Len(idle) <= MaxSize
      BY <1>2, ConfigAssumption, <1>a DEF NewDone
    <3>2. Cardinality(Range(idle)) <= Len(idle) /\ Cardinality(Range(idle)) \in Nat
      BY <1>a, QueueCardinality, FS_CardinalityType
    <3>. QED  BY <3>1, <3>2, <1>a, ConfigAssumption
  <2>4. Abstract!Start
    BY <2>1, <2>2, <2>3, <1>a, SameCardinality DEF Abstract!Start, Lent, Kept
  <2>. QED  BY <2>4 DEF Abstract!Next
<1>3. CASE Close
  <2>1. Lent' = Lent /\ Kept' = {}
    BY <1>3, QueueEmpty DEF Close, Lent, Kept, Holders
  <2>2. Abstract!Close
    BY <1>3, <2>1 DEF Close, Abstract!Close, Lent, Kept
  <2>. QED  BY <2>2 DEF Abstract!Next
<1>4. CASE DropPool
  <2>1. Holders' = Holders /\ Lent' = Lent /\ phase # "building" /\ phase' # "building"
    BY <1>4 DEF DropPool, Lent, Holders
  <2>2. CASE Holders = {}
    <3>1. Lent = {} /\ Kept' = {} /\ Cardinality(Lent) = 0
      BY <1>4, <2>2, QueueEmpty, FS_EmptySet DEF DropPool, Lent, Kept
    <3>2. /\ active_count' = active_count - Abstract!Cardinality(Lent)
          /\ Abstract!Cardinality(Lent) <= 1
          /\ closed' = closed
      BY <1>4, <3>1, SameCardinality DEF DropPool, TypeOK
    <3>3. Abstract!Free
      BY <2>1, <3>1, <3>2 DEF Abstract!Free, Lent, Kept
    <3>. QED  BY <3>3 DEF Abstract!Next
  <2>3. CASE Holders # {}
    <3>1. Kept' = Kept
      BY <1>4, <2>1, <2>3 DEF DropPool, Kept
    <3>. QED  BY <1>4, <2>1, <3>1, Stutters DEF DropPool
  <2>. QED  BY <2>2, <2>3
<1>5. CASE UNCHANGED vars
  <2>1. Lent' = Lent /\ Kept' = Kept
    BY <1>5 DEF vars, Lent, Kept, Holders
  <2>. QED  BY <1>5, <2>1, Stutters DEF vars
<1>6. ASSUME NEW p \in Callers, GetClosed(p) \/ GetExhausted(p) \/ ClientClose(p)
      PROVE  [Abstract!Next]_(Abstract!vars)
  <2>1. UNCHANGED <<phase, idle, active_count, closed, pc, held>>
    BY <1>6 DEF GetClosed, GetExhausted, ClientClose
  <2>2. Lent' = Lent /\ Kept' = Kept
    BY <2>1 DEF Lent, Kept, Holders
  <2>. QED  BY <2>1, <2>2, Stutters
<1>7. ASSUME NEW p \in Callers, GetIdle(p)
      PROVE  [Abstract!Next]_(Abstract!vars)
  <2>1. /\ Head(idle) \in Range(idle)
        /\ Range(idle') = Range(idle) \ {Head(idle)}
    BY <1>7, <1>a, QueuePop DEF GetIdle, ExclusiveOwnership
  <2>2. Holders' = Holders \cup {p} /\ p \notin Holders
    BY <1>7, Enter DEF GetIdle
  <2>3. Lent' = Lent \cup {Head(idle)}
    BY <1>7, <2>2 DEF GetIdle, Lent, TypeOK
  <2>4. Kept = Range(idle) /\ Kept' = Kept \ {Head(idle)}
    BY <1>7, <2>1 DEF GetIdle, Kept
  <2>5. Abstract!Reuse
    BY <1>7, <2>1, <2>3, <2>4 DEF GetIdle, Abstract!Reuse, Lent, Kept
  <2>. QED  BY <2>5 DEF Abstract!Next
<1>8. ASSUME NEW p \in Callers, GetReserve(p)
      PROVE  [Abstract!Next]_(Abstract!vars)
  <2>1. Holders' = Holders
    BY <1>8, Enter DEF GetReserve
  <2>2. Lent' = Lent /\ Kept = {} /\ Kept' = {} /\ active_count < MaxSize
    BY <1>8, <2>1, QueueEmpty, ConfigAssumption DEF GetReserve, Lent, Kept, TypeOK
  <2>3. Abstract!Reserve
    BY <1>8, <2>2 DEF GetReserve, Abstract!Reserve, Lent, Kept
  <2>. QED  BY <2>3 DEF Abstract!Next
<1>9. ASSUME NEW p \in Callers, ConnectOk(p)
      PROVE  [Abstract!Next]_(Abstract!vars)
  <2>1. PICK c \in Fresh : held' = [held EXCEPT ![p] = c]
    BY <1>9 DEF ConnectOk
  <2>2. p \in Busy /\ p \notin Holders /\ Holders' = Holders \cup {p} /\ phase # "building"
    BY <1>9 DEF ConnectOk, Busy, Holders, TypeOK, QuietEnds
  <2>3. Lent' = Lent \cup {c}
    BY <2>1, <2>2 DEF Lent, TypeOK
  <2>4. c \in Conns \ (Lent \cup Kept) /\ Kept' = Kept
    BY <1>9, <2>1, <2>2 DEF ConnectOk, Fresh, Clients, Lent, Kept
  <2>5. Cardinality(Lent) < active_count
    BY <2>2, PlaceToFill
  <2>6. Abstract!Fill
    BY <1>9, <2>2, <2>3, <2>4, <2>5, SameCardinality DEF ConnectOk, Abstract!Fill, Lent, Kept
  <2>. QED  BY <2>6 DEF Abstract!Next
<1>10. ASSUME NEW p \in Callers, ConnectError(p)
       PROVE  [Abstract!Next]_(Abstract!vars)
  <2>1. Holders' = Holders
    BY <1>10 DEF ConnectError, Holders, TypeOK
  <2>2. Lent' = Lent /\ Kept' = Kept
    BY <1>10, <2>1 DEF ConnectError, Lent, Kept
  <2>. QED  BY <1>10, <2>2, Stutters DEF ConnectError
<1>11. ASSUME NEW p \in Callers, GetFailed(p)
       PROVE  [Abstract!Next]_(Abstract!vars)
  <2>1. p \in Busy /\ p \notin Holders /\ phase # "building"
    BY <1>11 DEF GetFailed, Busy, Holders, QuietEnds
  <2>2. Holders' = Holders
    BY <1>11, <2>1, Leave DEF GetFailed
  <2>3. Lent' = Lent /\ Kept' = Kept
    BY <1>11, <2>2 DEF GetFailed, Lent, Kept
  <2>4. Cardinality(Lent) < active_count
    BY <2>1, PlaceToFill
  <2>5. Abstract!Release
    BY <1>11, <2>1, <2>3, <2>4, SameCardinality DEF GetFailed, Abstract!Release, Lent, Kept
  <2>. QED  BY <2>5 DEF Abstract!Next
<1>12. ASSUME NEW p \in Callers, Drop(p)
       PROVE  [Abstract!Next]_(Abstract!vars)
  <2>1. p \in Holders /\ phase # "building" /\ phase' = phase
    BY <1>12, BusyFinite DEF Drop, Holders, Busy, QuietEnds
  <2>2. Holders' = Holders \ {p}
    BY <1>12, Leave DEF Drop
  <2>3. held[p] \in Lent /\ held[p] \in Conns /\ Lent' = Lent \ {held[p]}
    BY <1>12, <2>1, <2>2 DEF Drop, Lent, ExclusiveOwnership, TypeOK, Holders
  <2>4. CASE LastReference(p)
    <3>1. Lent = {held[p]} /\ Lent' = {} /\ Cardinality(Lent) = 1
      <4>1. Holders = {p}
        BY <2>1, <2>4 DEF LastReference
      <4>2. Lent = {held[p]}
        BY <4>1 DEF Lent
      <4>. QED  BY <4>2, <2>3, FS_Singleton
    <3>2. Kept' = {}
      BY <1>12, <2>4, QueueEmpty DEF Drop, Kept
    <3>3. /\ active_count' = active_count - Abstract!Cardinality(Lent)
          /\ Abstract!Cardinality(Lent) <= 1
          /\ closed' = closed
      BY <1>12, <3>1, SameCardinality DEF Drop, TypeOK
    <3>4. Abstract!Free
      BY <2>1, <3>1, <3>2, <3>3 DEF Abstract!Free, Lent, Kept
    <3>. QED  BY <3>4 DEF Abstract!Next
  <2>5. CASE ~LastReference(p) /\ ~closed /\ held[p] \in open
    <3>1. idle' = Append(idle, held[p])
      BY <1>12, <2>5 DEF Drop
    <3>2. Kept' = Kept \cup {held[p]}
      BY <3>1, <2>1, <2>3, <1>a, QueuePush DEF Kept
    <3>3. Abstract!GiveBack
      BY <1>12, <2>1, <2>3, <2>5, <3>2 DEF Drop, Abstract!GiveBack, Lent, Kept
    <3>. QED  BY <3>3 DEF Abstract!Next
  <2>6. CASE ~LastReference(p) /\ ~(~closed /\ held[p] \in open)
    <3>1. Kept' = Kept
      BY <1>12, <2>1, <2>6 DEF Drop, Kept
    <3>2. Abstract!Discard
      BY <1>12, <2>1, <2>3, <3>1 DEF Drop, Abstract!Discard, Lent, Kept
    <3>. QED  BY <3>2 DEF Abstract!Next
  <2>. QED  BY <2>4, <2>5, <2>6
<1>. QED
  BY <1>1, <1>2, <1>3, <1>4, <1>5, <1>6, <1>7, <1>8, <1>9, <1>10, <1>11, <1>12 DEF Next

(* SyncPool keeps every promise of BoundedPool, without losing a place:    *)
(* its queue, its mutex and its connects outside the mutex are invisible.  *)
THEOREM Refinement == Spec => ImplementsBoundedPool
<1>1. Init => Abstract!Init
  BY DEF Init, Abstract!Init, Holders
<1>2. IInv /\ [Next]_vars => [Abstract!Next]_(Abstract!vars)
  BY NextRefines
<1>. QED  BY <1>1, <1>2, Invariance, PTL DEF Spec, ImplementsBoundedPool, Abstract!Spec
=============================================================================
