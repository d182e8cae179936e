------------------------ MODULE PooledSessionProofs ------------------------
(***************************************************************************)
(* Proofs about PooledSession, for any number of callers, connections,     *)
(* calls and rows: what one caller of the pool leaves behind never reaches *)
(* the next, as long as no call was broken off on the connection.  The     *)
(* invariant of a session and the lemmas about its steps are those of      *)
(* ClientSessionProofs.                                                    *)
(***************************************************************************)
EXTENDS PooledSession, ClientSessionProofs

-----------------------------------------------------------------------------
(* The inductive invariant *)

(* A call is under way only on a lent connection, a frame half read only   *)
(* during a call; whatever breaks a call off leaves its mark on the session.*)
PlaceInStep ==
    /\ old \subseteq [handle : Nat, sel : BOOLEAN]
    /\ half => call.wait # "none" /\ ~skewed
    /\ call.op # "none" => place = "lent"
    /\ interrupted => io_failed
    /\ skewed => interrupted

(* Every request has its author, and a client whose stream ended under it  *)
(* has none waiting.                                                       *)
AuthorsInStep ==
    /\ holder \in Callers \cup {"none"}
    /\ authors \in Seq(Callers \cup {"none"})
    /\ Len(authors) = Len(reqs)
    /\ conn /\ ~up => reqs = <<>>

(* Where nothing was broken off, a failure means that the stream has ended, *)
(* and what the server has yet to do is the holder's.                      *)
WorkInStep ==
    ~interrupted =>
        /\ io_failed => ~up /\ reqs = <<>>
        /\ reqs # <<>> /\ Head(reqs).fc # "CON_CLOSE" => Head(authors) = holder
        /\ workers \subseteq careless \cup {holder}
        /\ place # "lent" => workers \subseteq careless

(* The inductive invariant: that of the session, whose handles are owned   *)
(* until a Statement of another connection is used on it.                  *)
PInv ==
    /\ SessionInv
    /\ ~foreign => HandlesOwned
    /\ PlaceInStep
    /\ AuthorsInStep
    /\ WorkInStep

-----------------------------------------------------------------------------
(* Lemmas about the requests and their authors *)

(* What push_back leaves at the front.                                     *)
LEMMA PushFront ==
    ASSUME NEW S, NEW s \in Seq(S), NEW x \in S
    PROVE  /\ Append(s, x) # <<>>
           /\ s = <<>> => Head(Append(s, x)) = x
           /\ s # <<>> => Head(Append(s, x)) = Head(s)
  OBVIOUS

LEMMA LastTyped ==
    ASSUME NEW S, NEW s \in Seq(S), NEW x, Append(s, x) \in Seq(S)
    PROVE  x \in S
<1>1. Append(s, x)[Len(s) + 1] = x /\ Len(Append(s, x)) = Len(s) + 1
  OBVIOUS
<1>2. Len(s) + 1 \in 1 .. Len(Append(s, x))
  BY <1>1
<1>. QED  BY <1>1, <1>2

(* The next request is one of those that wait.                             *)
LEMMA FrontOf ==
    ASSUME SessionInv, AuthorsInStep
    PROVE  /\ reqs # <<>> => /\ Head(reqs) \in Range(reqs) /\ authors # <<>>
                             /\ Tail(authors) \in Seq(Callers \cup {"none"})
                             /\ Len(Tail(authors)) = Len(Tail(reqs))
                             /\ Head(authors) \in Callers \cup {"none"}
           /\ reqs = <<>> => authors = <<>>
<1>1. /\ authors \in Seq(Callers \cup {"none"}) /\ Len(authors) = Len(reqs)
      /\ reqs \in Seq(Requests)
  BY Typing DEF AuthorsInStep
<1>2. ASSUME reqs # <<>> PROVE authors # <<>>
  BY <1>1, <1>2
<1>3. ASSUME reqs = <<>> PROVE authors = <<>>
  BY <1>1, <1>3
<1>4. ASSUME reqs # <<>>
      PROVE  /\ Head(reqs) \in Range(reqs)
             /\ Tail(authors) \in Seq(Callers \cup {"none"})
             /\ Len(Tail(authors)) = Len(Tail(reqs))
             /\ Head(authors) \in Callers \cup {"none"}
  <2>1. Head(reqs) \in Range(reqs) /\ Len(Tail(reqs)) = Len(reqs) - 1
    BY <1>1, <1>4, QueuePop
  <2>2. /\ Tail(authors) \in Seq(Callers \cup {"none"}) /\ Len(Tail(authors)) = Len(authors) - 1
        /\ Head(authors) \in Range(authors)
    BY <1>1, <1>2, <1>4, QueuePop
  <2>3. Head(authors) \in Callers \cup {"none"}
    BY <1>1, <2>2, QueueFront
  <2>. QED  BY <1>1, <2>1, <2>2, <2>3
<1>. QED  BY <1>2, <1>3, <1>4

(* Between calls only CON_CLOSE can wait for the server, unless a call was *)
(* broken off.                                                             *)
LEMMA RestQuiet ==
    ASSUME PInv, call.op = "none", ~interrupted
    PROVE  /\ \A r \in Range(reqs) : r.fc = "CON_CLOSE"
           /\ up => reqs = <<>>
<1>1. CASE io_failed
  BY <1>1, QueueEmpty DEF PInv, WorkInStep
<1>2. CASE ~io_failed /\ up
  BY <1>2, AtRest, QueueEmpty DEF PInv
<1>3. CASE ~io_failed /\ ~up
  BY <1>3 DEF PInv, SessionInv, StreamInStep
<1>. QED  BY <1>1, <1>2, <1>3

(* What a step of the client that is not a close does to the stream. *)
Moves ==
    /\ conn' = conn /\ up' = up
    /\ io_failed => io_failed'
    /\ io_failed' => io_failed \/ (conn /\ ~up)
    /\ \/ sent' = sent /\ reqs' = reqs
       \/ up /\ sent' = sent + 1 /\ \E q : reqs' = Append(reqs, q)

(* The holder's step: what it sends is the holder's.                       *)
LEMMA HolderSends ==
    ASSUME PInv, SessionInv', Moves,
           authors' = IF sent' = sent THEN authors ELSE Append(authors, holder),
           UNCHANGED <<holder, place, workers, careless, interrupted>>
    PROVE  AuthorsInStep' /\ WorkInStep'
<1>1. /\ reqs \in Seq(Requests) /\ reqs' \in Seq(Requests) /\ sent \in Nat
      /\ authors \in Seq(Callers \cup {"none"}) /\ Len(authors) = Len(reqs)
      /\ holder \in Callers \cup {"none"}
  BY Typing DEF PInv, AuthorsInStep, SessionInv, TypeOK
<1>2. CASE sent' = sent /\ reqs' = reqs
  <2>1. authors' = authors
    BY <1>2
  <2>2. AuthorsInStep'
    BY <1>2, <2>1 DEF PInv, AuthorsInStep, Moves
  <2>3. WorkInStep'
    BY <1>2, <2>1 DEF PInv, AuthorsInStep, WorkInStep, Moves
  <2>. QED  BY <2>2, <2>3
<1>3. CASE up /\ sent' = sent + 1 /\ \E q : reqs' = Append(reqs, q)
  <2>1. PICK q : reqs' = Append(reqs, q)
    BY <1>3
  <2>2. q \in Requests
    BY <1>1, <2>1, LastTyped
  <2>3. authors' = Append(authors, holder)
    BY <1>1, <1>3
  <2>4. /\ Len(reqs') = Len(reqs) + 1 /\ Len(authors') = Len(authors) + 1
        /\ authors' \in Seq(Callers \cup {"none"})
    BY <1>1, <2>1, <2>2, <2>3, QueuePush
  <2>5. AuthorsInStep'
    BY <1>1, <1>3, <2>4 DEF AuthorsInStep, Moves
  <2>6. ASSUME ~interrupted PROVE ~io_failed /\ ~io_failed'
    BY <1>3, <2>6 DEF PInv, WorkInStep, Moves
  <2>7. ASSUME ~interrupted, Head(reqs').fc # "CON_CLOSE" PROVE Head(authors') = holder
    <3>1. CASE reqs = <<>>
      <4>1. authors = <<>>
        BY <3>1, FrontOf DEF PInv
      <4>. QED  BY <1>1, <2>3, <4>1, PushFront
    <3>2. CASE reqs # <<>>
      <4>1. Head(reqs') = Head(reqs) /\ authors # <<>>
        BY <1>1, <2>1, <2>2, <3>2, PushFront, FrontOf DEF PInv
      <4>2. Head(authors') = Head(authors)
        BY <1>1, <2>3, <4>1, PushFront
      <4>. QED  BY <2>7, <3>2, <4>1, <4>2 DEF PInv, WorkInStep
    <3>. QED  BY <3>1, <3>2
  <2>8. WorkInStep'
    BY <2>6, <2>7 DEF PInv, WorkInStep
  <2>. QED  BY <2>5, <2>8
<1>. QED  BY <1>2, <1>3 DEF Moves

(* A step of the holder's client, whose Statement it is or not.            *)
LEMMA ClientDoesKeeps ==
    ASSUME PInv, SessionInv', Moves, ~foreign' => HandlesOwned', place = "lent", ~half',
           authors' = IF sent' = sent THEN authors ELSE Append(authors, holder),
           UNCHANGED <<pool, skewed, workers, careless, interrupted>>, old' \subseteq old
    PROVE  PInv'
<1>1. UNCHANGED <<holder, place>>
  BY DEF pool
<1>2. AuthorsInStep' /\ WorkInStep'
  BY <1>1, HolderSends
<1>3. PlaceInStep'
  BY <1>1 DEF PInv, PlaceInStep, Moves
<1>. QED  BY <1>2, <1>3 DEF PInv

-----------------------------------------------------------------------------
(* The holder's calls *)

(* A call starts: its request is sent, or it returns an error.             *)
LEMMA StartMoves ==
    ASSUME SessionInv, NEW op, NEW c, NEW q, Start(op, c, q)
    PROVE  Moves
<1>1. /\ conn' = conn
      /\ \/ conn /\ SendFramed(q, [c EXCEPT !.op = op, !.no = q.no])
         \/ conn /\ SendFails([c EXCEPT !.op = op, !.no = q.no])
         \/ UNCHANGED <<up, reqs, sent, io_failed, io_reported>>
  BY DEF Start
<1>. QED  BY <1>1 DEF SendFramed, SendFails, Moves

(* close_query_handle.                                                     *)
LEMMA CleaningMoves ==
    ASSUME NEW c, NEW handle, conn, conn' = conn, CloseQueryHandle(c, handle)
    PROVE  Moves
  BY DEF CloseQueryHandle, SendFramed, Moves

(* The next round of fetch_remaining.                                      *)
LEMMA FetchingMoves ==
    ASSUME NEW c, conn, conn' = conn, FetchNext(c)
    PROVE  Moves
  BY DEF FetchNext, SendFramed, SendFails, Moves

LEMMA FinishingMoves ==
    ASSUME NEW c, conn, conn' = conn, FinishQuery(c)
    PROVE  Moves
<1>1. CASE CloseQueryHandle(c, c.handle)
  BY <1>1, CleaningMoves
<1>2. CASE UNCHANGED <<up, reqs, sent, io_failed, io_reported>>
  BY <1>2 DEF Moves
<1>. QED  BY <1>1, <1>2 DEF FinishQuery

(* The calls of a client and its own Statements that keep the connection.  *)
LEMMA CallMoves ==
    ASSUME SessionInv,
           \/ StartExecute \/ StartQuery \/ StartPrepare \/ StartPing
           \/ \E t \in {"commit", "rollback"} : StartEndTran(t)
           \/ SetAutoCommit
           \/ \E s : StartStmtExecute(s) \/ StartStmtQuery(s) \/ StmtCloseSends(s) \/ StmtDrop(s)
    PROVE  Moves /\ call.op = "none"
<1>1. CASE SetAutoCommit \/ \E s : StmtDrop(s)
  BY <1>1 DEF SetAutoCommit, StmtDrop, stream, Moves
<1>2. ASSUME NEW s, StmtCloseSends(s) PROVE Moves /\ call.op = "none"
  <2>1. conn' = conn /\ call.op = "none"
    BY <1>2 DEF StmtCloseSends
  <2>2. \/ /\ conn
           /\ \E c : CloseQueryHandle(c, s.handle)
        \/ UNCHANGED <<up, reqs, sent, io_failed, io_reported>>
    BY <1>2 DEF StmtCloseSends
  <2>3. CASE UNCHANGED <<up, reqs, sent, io_failed, io_reported>>
    BY <2>1, <2>3 DEF Moves
  <2>. QED  BY <2>1, <2>2, <2>3, CleaningMoves
<1>3. CASE \/ StartExecute \/ StartQuery \/ StartPrepare \/ StartPing
           \/ \E t \in {"commit", "rollback"} : StartEndTran(t)
           \/ \E s : StartStmtExecute(s) \/ StartStmtQuery(s)
  <2>1. PICK op, c, q : Start(op, c, q)
    BY <1>3 DEF StartExecute, StartQuery, StartPrepare, StartPing, StartEndTran,
       StartStmtExecute, StartStmtQuery
  <2>2. call.op = "none"
    BY <2>1 DEF Start
  <2>. QED  BY <2>1, <2>2, StartMoves
<1>. QED  BY <1>1, <1>2, <1>3

(* Between calls no frame is half read.                                    *)
LEMMA NotHalf == ASSUME PInv, call.op = "none" PROVE ~half
  BY DEF PInv, PlaceInStep, SessionInv, TypeOK

(* A call of the holder's.                                                 *)
LEMMA HeldKeeps ==
    ASSUME PInv, Kept, Moves, call.op = "none", place = "lent",
           authors' = IF sent' = sent THEN authors ELSE Append(authors, holder),
           UNCHANGED <<pool, skewed, workers, careless, interrupted>>,
           UNCHANGED <<half, old, foreign>>
    PROVE  PInv'
<1>1. ~half' /\ (~foreign' => HandlesOwned') /\ SessionInv'
  BY NotHalf DEF PInv, Kept
<1>. QED  BY <1>1, ClientDoesKeeps

LEMMA CallsKeep ==
    ASSUME PInv,
           \/ Execute \/ Query \/ Prepare \/ Commit \/ Rollback \/ Ping \/ ChangeAutoCommit
           \/ \E s \in stmts : \/ StatementExecute(s) \/ StatementQueryWith(s)
                               \/ StatementClose(s) \/ StatementDropped(s)
    PROVE  PInv'
<1>. DEFINE A == \/ StartExecute \/ StartQuery \/ StartPrepare \/ StartPing
                 \/ \E t \in {"commit", "rollback"} : StartEndTran(t)
                 \/ SetAutoCommit
                 \/ \E s \in stmts : \/ StartStmtExecute(s) \/ StartStmtQuery(s)
                                     \/ StmtClose(s) \/ StmtDrop(s)
<1>1. /\ place = "lent" /\ A
      /\ authors' = IF sent' = sent THEN authors ELSE Append(authors, holder)
      /\ UNCHANGED <<pool, skewed, workers, careless, interrupted>>
      /\ UNCHANGED <<half, old, foreign>>
  BY DEF Execute, Query, Prepare, Commit, Rollback, Ping, ChangeAutoCommit, StatementExecute,
     StatementQueryWith, StatementClose, StatementDropped, Held, ClientDoes
<1>2. SessionInv
  BY DEF PInv
<1>3. Kept
  BY <1>1, <1>2, StartsKeep, LocalKeeps, StmtCloseKeeps
<1>4. Moves /\ call.op = "none"
  BY <1>1, <1>2, CallMoves DEF StmtClose
<1>. QED  BY <1>1, <1>3, <1>4, HeldKeeps

(* Statements of another connection: the requests are as good as any, but  *)
(* the handles are no longer accounted for.                                *)
LEMMA ForeignKeeps ==
    ASSUME PInv, NEW s \in old, ForeignExecute(s) \/ ForeignClose(s)
    PROVE  PInv'
<1>1. SessionInv /\ s \in [handle : Nat, sel : BOOLEAN]
  BY DEF PInv, PlaceInStep
<1>2. /\ place = "lent" /\ foreign' = TRUE /\ half' = half /\ old' \subseteq old
      /\ authors' = IF sent' = sent THEN authors ELSE Append(authors, holder)
      /\ UNCHANGED <<pool, skewed, workers, careless, interrupted>>
  BY DEF ForeignExecute, ForeignClose, ClientDoes
<1>3. \/ StartStmtExecute(s) \/ StartStmtQuery(s)
      \/ StmtCloseSends(s) /\ UNCHANGED stmts
  BY DEF ForeignExecute, ForeignClose, ClientDoes
<1>4. Moves /\ call.op = "none"
  BY <1>1, <1>3, CallMoves
<1>5. SessionInv'
  BY <1>1, <1>3, StartStmtKeeps, StmtCloseSendsKeeps DEF Kept
<1>. QED  BY <1>2, <1>4, <1>5, NotHalf, ClientDoesKeeps

-----------------------------------------------------------------------------
(* Reading the answer *)

(* `?' on an error, or a call that returns.                                *)
LEMMA ReturnMoves ==
    ASSUME conn' = conn, CallFails \/ UNCHANGED <<up, reqs, sent, io_failed, io_reported>>
    PROVE  Moves
  BY DEF CallFails, Moves

(* The call goes on, or returns.                                           *)
LEMMA RecvMoves ==
    ASSUME SessionInv, ClientStep
    PROVE  Moves /\ call.wait # "none"
<1>1. call.wait # "none" /\ conn' = conn
  BY DEF ClientStep, RecvPrepareAndExecute, PrepareAndExecuteRead, RecvExecute, ExecuteRead,
     RecvFetch, FetchRead, RecvPrepare, PrepareRead, RecvEndTran, RecvVersion, SimpleRead,
     RecvCloseHandle, CloseHandleRead, RecvFramed
<1>2. conn
  BY <1>1, UnderWay
<1>3. \/ CallFails
      \/ UNCHANGED <<up, reqs, sent, io_failed, io_reported>>
      \/ \E c : FetchNext(c)
      \/ \E c : FinishQuery(c)
      \/ \E c, handle : CloseQueryHandle(c, handle)
  <2>1. CASE RecvPrepareAndExecute
    BY <2>1 DEF RecvPrepareAndExecute, PrepareAndExecuteRead
  <2>2. CASE RecvExecute
    BY <2>2 DEF RecvExecute, ExecuteRead
  <2>3. CASE RecvFetch
    BY <2>3 DEF RecvFetch, FetchRead
  <2>4. CASE RecvPrepare \/ RecvEndTran \/ RecvVersion \/ RecvCloseHandle
    BY <2>4 DEF RecvPrepare, PrepareRead, RecvEndTran, RecvVersion, SimpleRead,
       RecvCloseHandle, CloseHandleRead
  <2>. QED  BY <2>1, <2>2, <2>3, <2>4 DEF ClientStep
<1>4. CASE CallFails \/ UNCHANGED <<up, reqs, sent, io_failed, io_reported>>
  BY <1>1, <1>4, ReturnMoves
<1>5. ASSUME NEW c, FetchNext(c) PROVE Moves
  BY <1>1, <1>2, <1>5, FetchingMoves
<1>6. ASSUME NEW c, FinishQuery(c) PROVE Moves
  BY <1>1, <1>2, <1>6, FinishingMoves
<1>7. ASSUME NEW c, NEW handle, CloseQueryHandle(c, handle) PROVE Moves
  BY <1>1, <1>2, <1>7, CleaningMoves
<1>. QED  BY <1>1, <1>3, <1>4, <1>5, <1>6, <1>7

(* The first read of a frame, or the second.                               *)
LEMMA ReceivesKeep == ASSUME PInv, Receives PROVE PInv'
<1>1. CASE RecvLength
  <2>1. /\ UNCHANGED <<vars, pool, old, skewed, authors, traces>>
        /\ half' = TRUE /\ call.wait # "none" /\ ~skewed
    BY <1>1 DEF RecvLength
  <2>2. /\ UNCHANGED <<conn, cas_info, auto_commit, stmts, call, up, reqs, resps, handles, tran>>
        /\ UNCHANGED <<calls, sent, done, last, io_failed, io_reported, abandoned>>
        /\ UNCHANGED <<place, holder, workers, careless, interrupted, foreign>>
    BY <2>1 DEF vars, client, stream, server, history, pool, traces
  <2>3. Kept
    BY <2>2, StutterKeeps DEF PInv, Forgets
  <2>4. AuthorsInStep' /\ WorkInStep'
    BY <2>1, <2>2 DEF PInv, AuthorsInStep, WorkInStep
  <2>5. PlaceInStep'
    BY <2>1, <2>2 DEF PInv, PlaceInStep
  <2>. QED  BY <2>2, <2>3, <2>4, <2>5 DEF PInv, Kept
<1>2. CASE ~RecvLength
  <2>1. /\ ClientStep /\ half' = FALSE
        /\ authors' = IF sent' = sent THEN authors ELSE Append(authors, holder)
        /\ UNCHANGED <<pool, skewed, workers, careless, interrupted>>
        /\ UNCHANGED <<old, foreign>>
    BY <1>2 DEF Receives, ReceivePrepareAndExecute, ReceiveExecute, ReceiveFetch, ReceivePrepare,
       ReceiveEndTran, ReceiveVersion, ReceiveCloseHandle, Receive, ClientDoes, ClientStep
  <2>2. SessionInv
    BY DEF PInv
  <2>3. Kept
    BY <2>1, <2>2, RecvPrepareAndExecuteKeeps, RecvExecuteKeeps, RecvFetchKeeps,
       RecvPrepareKeeps, RecvSimpleKeeps, RecvCloseHandleKeeps DEF ClientStep
  <2>4. Moves /\ call.wait # "none"
    BY <2>1, <2>2, RecvMoves
  <2>5. place = "lent"
    BY <2>2, <2>4, UnderWay DEF PInv, PlaceInStep
  <2>. QED  BY <2>1, <2>3, <2>4, <2>5, ClientDoesKeeps DEF PInv, Kept
<1>. QED  BY <1>1, <1>2

-----------------------------------------------------------------------------
(* Calls that are broken off *)

(* Once something has failed, types and frames are all there is to keep.   *)
LEMMA GivenUp ==
    ASSUME io_failed', TypeOK', FramesSound'
    PROVE  SessionInv' /\ HandlesOwned'
  BY DEF SessionInv, StreamInStep, CallInStep, OkMeansDone, CasInfoKnown, CasInfoSent,
         HandlesOwned, Live

(* A call is broken off: what was sent and what has come stay in the       *)
(* stream.                                                                 *)
LEMMA BrokenOff ==
    ASSUME PInv, call' = NoCall, io_failed', interrupted', ~half', last' \in Results,
           io_reported' \in BOOLEAN, abandoned' \subseteq Nat \ {0},
           resps' \in Seq(Responses), Range(resps') \subseteq Range(resps),
           UNCHANGED <<conn, cas_info, auto_commit, stmts, up, reqs, handles, tran, calls,
                       sent, done>>,
           UNCHANGED <<place, holder, old, authors>>
    PROVE  PInv'
<1>1. SessionInv
  BY DEF PInv
<1>2. /\ \A r \in Range(reqs') \cup Range(resps') \cup done' : r.no <= sent'
      /\ call' \in Calls /\ call'.op = "none" /\ call'.wait = "none"
  <2>1. call' \in Calls /\ call'.op = "none" /\ call'.wait = "none"
    BY EmptySeq DEF NoCall, Calls
  <2>. QED  BY <1>1, <2>1, Typing
<1>3. TypeOK'
  BY <1>1, <1>2 DEF SessionInv, TypeOK
<1>4. FramesSound'
  BY <1>1, <1>2 DEF SessionInv, FramesSound
<1>5. SessionInv' /\ HandlesOwned'
  BY <1>3, <1>4, GivenUp
<1>6. PlaceInStep'
  BY <1>2 DEF PInv, PlaceInStep
<1>7. AuthorsInStep' /\ WorkInStep'
  BY DEF PInv, AuthorsInStep, WorkInStep
<1>. QED  BY <1>5, <1>6, <1>7 DEF PInv

(* A read that failed ends the call, and hides it or not.                  *)
LEMMA FailedRead ==
    ASSUME SessionInv, ReadFails
    PROVE  /\ call' = NoCall /\ last' \in Results /\ io_failed'
           /\ io_reported' \in BOOLEAN /\ abandoned' \subseteq Nat \ {0}
           /\ UNCHANGED <<conn, cas_info, auto_commit, stmts, up, reqs, resps, handles, tran,
                          calls, sent, done>>
<1>1. call \in Calls /\ io_reported \in BOOLEAN /\ abandoned \subseteq Nat \ {0}
  BY DEF SessionInv, TypeOK
<1>2. Orphans \subseteq Nat \ {0}
  BY <1>1 DEF Orphans, Calls
<1>3. \A status \in {"ok", "io_error"} : Return(call, status) => call' = NoCall /\ last' \in Results
  BY <1>1 DEF Return, Results, Calls
<1>. QED  BY <1>1, <1>2, <1>3 DEF ReadFails, stream, server

(* A failed read, a timeout in a frame, a dropped future.                  *)
LEMMA BreaksOffKeep ==
    ASSUME PInv, ReceiveFails \/ TimeoutInFrame \/ Cancel
    PROVE  PInv'
<1>1. SessionInv /\ resps \in Seq(Responses) /\ last \in Results
  BY Typing DEF PInv
<1>2. CASE ReceiveFails \/ TimeoutInFrame
  <2>1. /\ ReadFails /\ interrupted' = TRUE /\ half' = FALSE
        /\ UNCHANGED <<place, holder, old, authors>>
    BY <1>2 DEF ReceiveFails, RecvFails, TimeoutInFrame, pool
  <2>. QED  BY <1>1, <2>1, FailedRead, BrokenOff
<1>3. CASE Cancel
  <2>1. /\ interrupted' = TRUE /\ half' = FALSE /\ io_failed' = TRUE /\ call' = NoCall
        /\ UNCHANGED <<conn, cas_info, auto_commit, stmts, up, reqs, resps, handles, tran, calls,
                       sent, done>>
        /\ UNCHANGED <<last, io_reported, abandoned, place, holder, old, authors>>
    BY <1>3 DEF Cancel, stream, server, pool
  <2>2. io_reported \in BOOLEAN /\ abandoned \subseteq Nat \ {0}
    BY <1>1 DEF SessionInv, TypeOK
  <2>. QED  BY <1>1, <2>1, <2>2, BrokenOff
<1>. QED  BY <1>2, <1>3

-----------------------------------------------------------------------------
(* Reading inside a frame *)

(* What a call may do with what it read. *)
GoesOn(c) ==
    \/ /\ Return(c, "ok") \/ Return(c, "error")
       /\ UNCHANGED <<up, reqs, sent, io_failed, io_reported>>
    \/ FetchNext(c)
    \/ FinishQuery(c)
    \/ \E h \in Nat \ {0} : CloseQueryHandle(c, h)

LEMMA NonsenseTyped ==
    ASSUME NEW res \in Nonsense
    PROVE  /\ res.ok \in BOOLEAN /\ res.cas = 0 /\ res.handle \in Nat /\ res.sel \in BOOLEAN
           /\ res.total \in Nat /\ res.rows \in Seq(Nat)
<1>1. \A n \in 0 .. FetchSize : RowsFrom(1, n) \in Seq(Nat)
  BY BoundsAssumption, RowsTyped
<1>2. CASE res = Failed
  BY <1>2, EmptySeq DEF Failed
<1>3. ASSUME NEW h \in NonsenseHandles, NEW total \in 0 .. MaxRows, NEW n \in 0 .. FetchSize,
             res = [ok |-> TRUE, cas |-> 0, handle |-> h, sel |-> total > 0, total |-> total,
                    rows |-> RowsFrom(1, n)]
      PROVE  /\ res.ok \in BOOLEAN /\ res.cas = 0 /\ res.handle \in Nat /\ res.sel \in BOOLEAN
             /\ res.total \in Nat /\ res.rows \in Seq(Nat)
  <2>1. h \in Nat /\ total \in Nat /\ (total > 0) \in BOOLEAN
    BY PoolAssumption, BoundsAssumption
  <2>. QED  BY <1>1, <1>3, <2>1
<1>. QED  BY <1>2, <1>3 DEF Nonsense

(* The call goes on with nonsense of the right types, and a Statement made *)
(* of it is one like any other.                                            *)
LEMMA NonsenseGoesOn ==
    ASSUME SessionInv, call.wait # "none", ReadsNonsense
    PROVE  /\ \E c \in Calls : c.op = call.op /\ GoesOn(c)
           /\ cas_info' = cas_info \/ cas_info' = 0
           /\ stmts' \subseteq [handle : Nat, sel : BOOLEAN] /\ abandoned' \subseteq Nat \ {0}
           /\ UNCHANGED <<conn, auto_commit, handles, tran, calls, done>>
<1>1. /\ call \in Calls /\ stmts \subseteq [handle : Nat, sel : BOOLEAN]
      /\ abandoned \subseteq Nat \ {0}
  BY DEF SessionInv, TypeOK
<1>2. Orphans \subseteq Nat \ {0}
  BY <1>1 DEF Orphans, Calls
<1>3. CASE call.wait = "PREPARE_AND_EXECUTE" /\ PrepareAndExecuteRead(Nonsense)
  <2>1. PICK res \in Nonsense :
          \/ ~res.ok /\ CallFails /\ UNCHANGED abandoned
          \/ /\ res.ok
             /\ cas_info' = res.cas
             /\ LET c == [call EXCEPT !.handle = res.handle, !.sel = res.sel,
                                      !.total = res.total, !.rows = res.rows]
                IN IF call.op = "query" /\ NeedsMore(c)
                      THEN /\ FetchNext(c)
                           /\ abandoned' = abandoned \cup
                                (IF up \/ res.handle = 0 THEN {} ELSE {res.handle})
                      ELSE /\ IF call.op = "query" THEN FinishQuery(c)
                              ELSE IF res.handle > 0 THEN CloseQueryHandle(c, res.handle)
                              ELSE /\ Return(c, "ok")
                                   /\ UNCHANGED <<up, reqs, sent, io_failed, io_reported>>
                           /\ UNCHANGED abandoned
    BY <1>3 DEF PrepareAndExecuteRead
  <2>. DEFINE c == [call EXCEPT !.handle = res.handle, !.sel = res.sel,
                                !.total = res.total, !.rows = res.rows]
  <2>2. UNCHANGED <<conn, auto_commit, stmts, handles, tran, calls, done>>
    BY <1>3 DEF PrepareAndExecuteRead, server
  <2>3. /\ res.cas = 0 /\ res.handle \in Nat /\ c \in Calls /\ c.op = call.op
    BY <1>1, NonsenseTyped DEF Calls
  <2>4. CASE ~res.ok
    BY <1>1, <2>1, <2>2, <2>4 DEF CallFails, GoesOn
  <2>5. CASE res.ok
    <3>1. \/ FetchNext(c)
          \/ FinishQuery(c)
          \/ res.handle > 0 /\ CloseQueryHandle(c, res.handle)
          \/ Return(c, "ok") /\ UNCHANGED <<up, reqs, sent, io_failed, io_reported>>
      BY <2>1, <2>5
    <3>2. cas_info' = 0 /\ abandoned' \subseteq abandoned \cup ({res.handle} \ {0})
      BY <2>1, <2>3, <2>5
    <3>. HIDE DEF c
    <3>3. GoesOn(c)
      BY <2>3, <3>1 DEF GoesOn
    <3>. QED  BY <1>1, <2>2, <2>3, <3>2, <3>3
  <2>. QED  BY <2>3, <2>4, <2>5, NonsenseTyped
<1>4. CASE call.wait = "EXECUTE" /\ ExecuteRead(Nonsense)
  <2>1. PICK res \in Nonsense :
          \/ ~res.ok /\ CallFails
          \/ /\ res.ok
             /\ cas_info' = res.cas
             /\ LET c == [call EXCEPT !.total = res.total, !.rows = res.rows]
                IN IF call.op = "stmt_query" /\ NeedsMore(c) THEN FetchNext(c)
                   ELSE /\ Return(c, "ok")
                        /\ UNCHANGED <<up, reqs, sent, io_failed, io_reported>>
    BY <1>4 DEF ExecuteRead
  <2>. DEFINE c == [call EXCEPT !.total = res.total, !.rows = res.rows]
  <2>2. UNCHANGED <<conn, auto_commit, stmts, handles, tran, calls, done, abandoned>>
    BY <1>4 DEF ExecuteRead, server
  <2>3. res.cas = 0 /\ c \in Calls /\ c.op = call.op
    BY <1>1, NonsenseTyped DEF Calls
  <2>4. \/ CallFails
        \/ cas_info' = 0 /\ GoesOn(c)
    BY <2>1, <2>3 DEF GoesOn
  <2>5. CASE CallFails
    BY <1>1, <2>2, <2>5 DEF CallFails, GoesOn
  <2>6. CASE ~CallFails
    BY <1>1, <2>2, <2>3, <2>4, <2>6
  <2>. QED  BY <2>5, <2>6
<1>5. CASE call.wait = "FETCH" /\ FetchRead(Nonsense)
  <2>1. PICK res \in Nonsense :
          \/ ~res.ok /\ CallFails /\ abandoned' = abandoned \cup Orphans
          \/ /\ res.ok
             /\ cas_info' = res.cas
             /\ LET c == [call EXCEPT !.rows = @ \o res.rows]
                IN IF res.rows # <<>> /\ NeedsMore(c)
                      THEN /\ FetchNext(c)
                           /\ abandoned' = abandoned \cup (IF up THEN {} ELSE Orphans)
                      ELSE /\ FinishQuery(c)
                           /\ UNCHANGED abandoned
    BY <1>5 DEF FetchRead
  <2>. DEFINE c == [call EXCEPT !.rows = @ \o res.rows]
  <2>2. UNCHANGED <<conn, auto_commit, stmts, handles, tran, calls, done>>
    BY <1>5 DEF FetchRead, server
  <2>3. res.cas = 0 /\ c \in Calls /\ c.op = call.op
    <3>1. call.rows \in Seq(Nat) /\ res.rows \in Seq(Nat) /\ res.cas = 0
      BY <1>1, NonsenseTyped DEF Calls
    <3>2. call.rows \o res.rows \in Seq(Nat)
      BY <3>1, ConcatProperties
    <3>. QED  BY <1>1, <3>1, <3>2 DEF Calls
  <2>4. /\ abandoned' \subseteq abandoned \cup Orphans
        /\ CallFails \/ (cas_info' = 0 /\ GoesOn(c))
    BY <2>1, <2>3 DEF GoesOn
  <2>5. CASE CallFails
    BY <1>1, <1>2, <2>2, <2>4, <2>5 DEF CallFails, GoesOn
  <2>6. CASE ~CallFails
    BY <1>1, <1>2, <2>2, <2>3, <2>4, <2>6
  <2>. QED  BY <2>5, <2>6
<1>6. CASE call.wait = "PREPARE" /\ PrepareRead(Nonsense)
  <2>1. PICK res \in Nonsense :
          \/ ~res.ok /\ CallFails /\ UNCHANGED stmts
          \/ /\ res.ok
             /\ cas_info' = res.cas
             /\ stmts' = stmts \cup {[handle |-> res.handle, sel |-> res.sel]}
             /\ Return(call, "ok")
             /\ UNCHANGED <<up, reqs, sent, io_failed, io_reported>>
    BY <1>6 DEF PrepareRead
  <2>2. UNCHANGED <<conn, auto_commit, handles, tran, calls, done, abandoned>>
    BY <1>6 DEF PrepareRead, server
  <2>3. res.cas = 0 /\ [handle |-> res.handle, sel |-> res.sel] \in [handle : Nat, sel : BOOLEAN]
    BY NonsenseTyped
  <2>. QED  BY <1>1, <2>1, <2>2, <2>3 DEF CallFails, GoesOn
<1>7. CASE SimpleRead(Nonsense)
  BY <1>1, <1>7, NonsenseTyped DEF SimpleRead, server, CallFails, GoesOn
<1>8. CASE CloseHandleRead
  BY <1>1, <1>8 DEF CloseHandleRead, server, GoesOn
<1>. QED  BY <1>3, <1>4, <1>5, <1>6, <1>7, <1>8 DEF ReadsNonsense

(* Once a call has been broken off, nonsense leaves the session as         *)
(* well-formed as an answer does.                                          *)
LEMMA NonsenseKeeps ==
    ASSUME SessionInv, io_failed, call.wait # "none", ReadsNonsense,
           resps' \in Seq(Responses), Range(resps') \subseteq Range(resps)
    PROVE  SessionInv' /\ io_failed' /\ Moves
<1>1. PICK c \in Calls : c.op = call.op /\ GoesOn(c)
  BY NonsenseGoesOn
<1>2. /\ cas_info' \in 0 .. sent
      /\ stmts' \subseteq [handle : Nat, sel : BOOLEAN] /\ abandoned' \subseteq Nat \ {0}
      /\ UNCHANGED <<conn, auto_commit, handles, tran, calls, done>>
  BY NonsenseGoesOn, Typing
<1>3. Ready(c) /\ Succeeded(c) /\ conn
  BY <1>1, <1>2, UnderWay DEF Ready, Succeeded
<1>4. io_failed \in BOOLEAN /\ io_reported \in BOOLEAN /\ calls' \in 0 .. MaxCalls
  BY <1>2 DEF SessionInv, TypeOK
<1>5. StreamKept /\ io_failed' /\ Moves
  <2>1. CASE /\ Return(c, "ok") \/ Return(c, "error")
             /\ UNCHANGED <<up, reqs, sent, io_failed, io_reported>>
    BY <1>2, <1>3, <1>4, <2>1, ReturnNow DEF Moves
  <2>2. CASE FetchNext(c)
    BY <1>2, <1>3, <2>2, FetchingOn, FetchingMoves DEF Moves
  <2>3. CASE FinishQuery(c)
    BY <1>2, <1>3, <2>3, Finishing, FinishingMoves DEF Moves
  <2>4. CASE \E h \in Nat \ {0} : CloseQueryHandle(c, h)
    BY <1>2, <1>3, <2>4, CleaningUp, CleaningMoves DEF Moves
  <2>. QED  BY <1>1, <2>1, <2>2, <2>3, <2>4 DEF GoesOn
<1>. QED  BY <1>2, <1>4, <1>5, KeepsAll

(* What is left of the answers after a read inside a frame.                *)
LEMMA Swallowed ==
    ASSUME resps \in Seq(Responses), NEW n \in 0 .. Len(resps),
           resps' = SubSeq(resps, n + 1, Len(resps))
    PROVE  resps' \in Seq(Responses) /\ Range(resps') \subseteq Range(resps)
<1>1. /\ resps' \in Seq(Responses) /\ Len(resps') = Len(resps) - n
      /\ \A i \in 1 .. Len(resps) - n : resps'[i] = resps[n + i]
  OBVIOUS
<1>2. DOMAIN resps' = 1 .. (Len(resps) - n) /\ DOMAIN resps = 1 .. Len(resps)
  BY <1>1, LenProperties
<1>3. \A i \in 1 .. Len(resps) - n : n + i \in DOMAIN resps
  BY <1>2
<1>. QED  BY <1>1, <1>2, <1>3 DEF Range

(* A read inside a frame.                                                  *)
LEMMA SkewedKeeps == ASSUME PInv, ReceiveSkewed PROVE PInv'
<1>1. /\ call.wait # "none" /\ skewed
      /\ authors' = IF sent' = sent THEN authors ELSE Append(authors, holder)
      /\ UNCHANGED <<place, holder, old, half, workers, careless, interrupted, foreign>>
  BY DEF ReceiveSkewed, pool, traces
<1>2. /\ SessionInv /\ io_failed /\ interrupted /\ ~half /\ place = "lent"
      /\ last \in Results /\ io_reported \in BOOLEAN /\ abandoned \subseteq Nat \ {0}
      /\ resps \in Seq(Responses)
  BY <1>1, UnderWay DEF PInv, PlaceInStep, SessionInv, TypeOK
<1>3. CASE resps' = <<>> /\ UNCHANGED <<skewed, client, up, reqs, server, history>>
  <2>1. /\ UNCHANGED <<conn, cas_info, auto_commit, stmts, call, up, reqs, handles, tran>>
        /\ UNCHANGED <<calls, sent, done, last, io_failed, io_reported, abandoned, skewed>>
    BY <1>3 DEF client, server, history
  <2>2. resps' \in Seq(Responses) /\ Range(resps') = {}
    BY <1>3, QueueEmpty
  <2>3. SessionInv' /\ HandlesOwned'
    <3>1. TypeOK'
      BY <1>2, <2>1, <2>2 DEF SessionInv, TypeOK
    <3>2. FramesSound'
      BY <1>2, <2>1, <2>2 DEF SessionInv, FramesSound
    <3>. QED  BY <1>2, <2>1, <3>1, <3>2, GivenUp
  <2>4. Moves
    BY <2>1 DEF Moves
  <2>5. PlaceInStep'
    BY <1>1, <2>1 DEF PInv, PlaceInStep
  <2>. QED  BY <1>1, <2>3, <2>4, <2>5, HolderSends DEF PInv
<1>4. CASE \E n \in 0 .. Len(resps) : resps' = SubSeq(resps, n + 1, Len(resps))
  <2>1. resps' \in Seq(Responses) /\ Range(resps') \subseteq Range(resps)
    BY <1>2, <1>4, Swallowed
  <2>2. CASE ReadPanics
    <3>1. /\ call' = NoCall
          /\ UNCHANGED <<conn, cas_info, auto_commit, stmts, up, reqs, handles, tran>>
          /\ UNCHANGED <<calls, sent, done, last, io_failed, io_reported, abandoned>>
      BY <2>2 DEF ReadPanics, server, history
    <3>2. authors' = authors
      BY <1>1, <3>1
    <3>. QED  BY <1>1, <1>2, <2>1, <3>1, <3>2, BrokenOff
  <2>3. CASE ReadsNonsense
    <3>1. SessionInv' /\ io_failed' /\ Moves
      BY <1>1, <1>2, <2>1, <2>3, NonsenseKeeps
    <3>2. HandlesOwned'
      BY <3>1 DEF HandlesOwned, Live
    <3>3. AuthorsInStep' /\ WorkInStep'
      BY <1>1, <3>1, HolderSends
    <3>4. PlaceInStep'
      BY <1>1, <1>2, <3>1 DEF PInv, PlaceInStep
    <3>. QED  BY <3>1, <3>2, <3>3, <3>4 DEF PInv
  <2>4. CASE resps' = <<>> /\ UNCHANGED <<skewed, client, up, reqs, server, history>>
    BY <1>3, <2>4
  <2>. QED  BY <2>2, <2>3, <2>4 DEF ReceiveSkewed
<1>. QED  BY <1>3, <1>4 DEF ReceiveSkewed

(* A future dropped in the middle of write_all: part of a request is on    *)
(* its way, and whoever wrote it has gone.                                 *)
LEMMA CancelWriteKeeps == ASSUME PInv, CancelWrite PROVE PInv'
<1>. DEFINE q == BuildRequest("CUT", sent + 1, cas_info)
<1>1. /\ call.op = "none" /\ conn /\ up /\ calls < MaxCalls /\ sent < MaxSent
      /\ calls' = calls + 1 /\ sent' = sent + 1 /\ reqs' = Append(reqs, q)
      /\ authors' = Append(authors, holder) /\ io_failed' = TRUE /\ interrupted' = TRUE
      /\ UNCHANGED <<conn, cas_info, auto_commit, stmts, call, up, resps, handles, tran, done>>
      /\ UNCHANGED <<last, io_reported, abandoned, place, holder, old, half, skewed>>
  BY DEF CancelWrite, client, server, pool
<1>2. SessionInv
  BY DEF PInv
<1>3. q \in Requests /\ q.no = sent + 1
  <2>1. sent + 1 \in Nat \ {0} /\ cas_info \in Nat
    BY <1>2, Typing
  <2>. QED  BY <2>1 DEF BuildRequest, Requests
<1>. HIDE DEF q
<1>4. reqs' \in Seq(Requests) /\ Range(reqs') = Range(reqs) \cup {q} /\ Len(reqs') = Len(reqs) + 1
  BY <1>1, <1>2, <1>3, Typing, QueuePush
<1>5. \A r \in Range(reqs') \cup Range(resps') \cup done' : r.no <= sent'
  BY <1>1, <1>2, <1>3, <1>4, Typing
<1>6. /\ sent' \in 0 .. MaxSent /\ calls' \in 0 .. MaxCalls /\ cas_info' \in 0 .. sent'
      /\ DOMAIN handles' \subseteq 1 .. sent'
  BY <1>1, <1>2, BoundsAssumption, Typing DEF SessionInv, TypeOK
<1>7. TypeOK'
  BY <1>1, <1>2, <1>4, <1>5, <1>6 DEF SessionInv, TypeOK
<1>8. FramesSound'
  BY <1>1, <1>2 DEF SessionInv, FramesSound
<1>9. SessionInv' /\ HandlesOwned'
  BY <1>1, <1>7, <1>8, GivenUp
<1>10. PlaceInStep' /\ WorkInStep'
  BY <1>1 DEF PInv, PlaceInStep, WorkInStep
<1>11. AuthorsInStep'
  <2>1. /\ authors \in Seq(Callers \cup {"none"}) /\ holder \in Callers \cup {"none"}
        /\ Len(authors) = Len(reqs)
    BY DEF PInv, AuthorsInStep
  <2>2. authors' \in Seq(Callers \cup {"none"}) /\ Len(authors') = Len(authors) + 1
    BY <1>1, <2>1, QueuePush
  <2>. QED  BY <1>1, <1>4, <2>1, <2>2 DEF AuthorsInStep
<1>. QED  BY <1>9, <1>10, <1>11 DEF PInv

-----------------------------------------------------------------------------
(* The server *)

(* The next request is carried out: where nothing was broken off, it is    *)
(* the holder's, and the only one.                                         *)
LEMMA ServeKeeps ==
    ASSUME PInv, Serve(ServerStep) \/ Serve(ServerRefuses)
    PROVE  PInv'
<1>1. /\ ServerStep \/ ServerRefuses
      /\ authors' = Tail(authors)
      /\ workers' \subseteq workers \cup {Head(authors)}
      /\ UNCHANGED <<place, holder, old, half, skewed, careless, interrupted, foreign>>
  BY DEF Serve, pool
<1>2. SessionInv
  BY DEF PInv
<1>3. Kept
  BY <1>1, <1>2, ServePrepareAndExecuteKeeps, ServePrepareKeeps, ServeExecuteKeeps,
     ServeFetchKeeps, ServeCloseHandleKeeps, ServeSimpleKeeps, ServerRefusesKeeps DEF ServerStep
<1>4. /\ reqs # <<>> /\ reqs' = Tail(reqs) /\ Head(reqs).fc # "CON_CLOSE"
      /\ UNCHANGED <<conn, call, up, io_failed>>
  BY <1>1 DEF ServerStep, ServePrepareAndExecute, ServePrepare, ServeExecute, ServeFetch,
     ServeCloseHandle, ServeEndTran, ServeVersion, ServerRefuses, Serves, Unaffected, client
<1>5. PlaceInStep'
  BY <1>1, <1>4 DEF PInv, PlaceInStep
<1>6. AuthorsInStep'
  BY <1>1, <1>2, <1>4, FrontOf DEF PInv, AuthorsInStep
<1>7. WorkInStep'
  <2>1. SUFFICES ASSUME ~interrupted PROVE WorkInStep'
    BY <1>1 DEF WorkInStep
  <2>2. ~io_failed /\ Head(authors) = holder
    BY <1>4, <2>1 DEF PInv, WorkInStep
  <2>3. Len(reqs) = 1 /\ Head(reqs).fc = call.wait /\ Head(reqs) \in Range(reqs) /\ up
    BY <1>2, <1>4, <2>2, ServingLive DEF Live
  <2>4. reqs' = <<>>
    <3>1. reqs' \in Seq(Requests) /\ Len(reqs') = Len(reqs) - 1
      BY <1>2, <1>4, Typing, QueuePop
    <3>. QED  BY <2>3, <3>1
  <2>5. place = "lent"
    <3>1. call.wait # "none"
      <4>1. Len(reqs) + Len(resps) = IF call.wait = "none" THEN 0 ELSE 1
        BY <1>2, <2>2, <2>3 DEF SessionInv, StreamInStep
      <4>2. Len(resps) \in Nat
        BY <1>2, Typing
      <4>. QED  BY <2>3, <4>1, <4>2
    <3>. QED  BY <1>2, <3>1, UnderWay DEF PInv, PlaceInStep
  <2>6. workers' \subseteq careless' \cup {holder'}
    BY <1>1, <2>1, <2>2 DEF PInv, WorkInStep
  <2>. QED  BY <1>1, <1>4, <2>2, <2>4, <2>5, <2>6 DEF WorkInStep
<1>. QED  BY <1>1, <1>3, <1>5, <1>6, <1>7 DEF PInv, Kept

(* The stream ends, at either end or in between.                           *)
LEMMA EndsKeep ==
    ASSUME PInv, ServeCut \/ SessionHangsUp \/ StreamBreaks
    PROVE  PInv'
<1>1. LinkBreaks \/ HungUp
  BY DEF ServeCut, SessionHangsUp, StreamBreaks, ServerHangsUp, HungUp
<1>2. Kept
  BY <1>1, BreakKeeps DEF PInv
<1>3. /\ authors' = <<>> /\ reqs' = <<>> /\ up' = FALSE
      /\ workers' = {} \/ workers' = workers
      /\ UNCHANGED <<place, holder, old, half, skewed, careless, interrupted, foreign>>
  BY DEF ServeCut, SessionHangsUp, StreamBreaks, LinkBreaks, ServerHangsUp, pool, traces
<1>4. UNCHANGED <<call, io_failed>>
  BY <1>1 DEF LinkBreaks, HungUp, client, history
<1>5. PlaceInStep'
  BY <1>3, <1>4 DEF PInv, PlaceInStep
<1>6. AuthorsInStep'
  <2>1. authors' \in Seq(Callers \cup {"none"}) /\ Len(authors') = Len(reqs')
    BY <1>3, QueueEmpty
  <2>. QED  BY <1>3, <2>1 DEF PInv, AuthorsInStep
<1>7. WorkInStep'
  BY <1>3, <1>4 DEF PInv, WorkInStep
<1>. QED  BY <1>2, <1>3, <1>5, <1>6, <1>7 DEF PInv, Kept

-----------------------------------------------------------------------------
(* The pool *)

(* The last request of a client, if it sends one. *)
LastWords ==
    \/ /\ up /\ sent < MaxSent
       /\ reqs' = Append(reqs, WriteConClose(sent + 1, cas_info)) /\ sent' = sent + 1
    \/ UNCHANGED <<reqs, sent>>

(* Who works for whom after a step between calls. *)
WorkOwned ==
    ~interrupted => /\ workers \subseteq careless' \cup {holder'}
                    /\ place' # "lent" => workers \subseteq careless'

(* A client is closed or dropped, by its holder or by the pool.            *)
LEMMA ClosedKeeps ==
    ASSUME PInv, Kept, call.op = "none", conn' = FALSE, up' = FALSE, LastWords, WorkOwned,
           NEW who \in Callers \cup {"none"}, holder' \in Callers \cup {"none"},
           authors' = IF sent' = sent THEN authors ELSE Append(authors, who),
           UNCHANGED <<call, io_failed, workers, old, half, skewed, interrupted, foreign>>
    PROVE  PInv'
<1>1. /\ SessionInv /\ reqs \in Seq(Requests) /\ sent \in Nat
      /\ authors \in Seq(Callers \cup {"none"}) /\ Len(authors) = Len(reqs)
  BY Typing DEF PInv, AuthorsInStep
<1>2. PlaceInStep'
  BY DEF PInv, PlaceInStep
<1>3. CASE UNCHANGED <<reqs, sent>>
  <2>1. authors' = authors
    BY <1>3
  <2>2. AuthorsInStep'
    BY <1>1, <1>3, <2>1 DEF AuthorsInStep
  <2>3. WorkInStep'
    <3>1. ASSUME ~interrupted, reqs # <<>> PROVE Head(reqs).fc = "CON_CLOSE"
      BY <1>1, <3>1, FrontOf, RestQuiet DEF PInv
    <3>. QED  BY <1>3, <3>1 DEF PInv, WorkInStep, WorkOwned
  <2>. QED  BY <1>2, <2>2, <2>3 DEF PInv, Kept
<1>4. CASE /\ up /\ sent < MaxSent
           /\ reqs' = Append(reqs, WriteConClose(sent + 1, cas_info)) /\ sent' = sent + 1
  <2>. DEFINE q == WriteConClose(sent + 1, cas_info)
  <2>1. q \in Requests /\ q.fc = "CON_CLOSE"
    <3>1. sent + 1 \in Nat \ {0} /\ cas_info \in Nat
      BY <1>1, Typing
    <3>2. Writes(q, "CON_CLOSE", sent + 1, cas_info)
      BY <3>1, Written
    <3>. QED  BY <3>2 DEF Writes
  <2>2. reqs' = Append(reqs, q)
    BY <1>4
  <2>. HIDE DEF q
  <2>3. authors' = Append(authors, who)
    BY <1>1, <1>4
  <2>4. /\ Len(reqs') = Len(reqs) + 1 /\ Len(authors') = Len(authors) + 1
        /\ authors' \in Seq(Callers \cup {"none"})
    BY <1>1, <2>1, <2>2, <2>3, QueuePush
  <2>5. AuthorsInStep'
    BY <1>1, <2>4 DEF AuthorsInStep
  <2>6. ASSUME ~interrupted PROVE ~io_failed /\ Head(reqs').fc = "CON_CLOSE"
    <3>1. reqs = <<>> /\ ~io_failed
      BY <1>4, <2>6, RestQuiet DEF PInv, WorkInStep
    <3>2. Head(reqs') = q
      BY <1>1, <2>1, <2>2, <3>1, PushFront
    <3>. QED  BY <2>1, <3>1, <3>2
  <2>7. WorkInStep'
    BY <2>6 DEF WorkInStep, WorkOwned
  <2>. QED  BY <1>2, <2>5, <2>7 DEF PInv, Kept
<1>. QED  BY <1>3, <1>4 DEF LastWords

(* The connection changes hands, and nothing else.                         *)
LEMMA HandedOver ==
    ASSUME PInv, call.op = "none", holder' \in Callers \cup {"none"}, Forgets, WorkOwned,
           UNCHANGED <<conn, cas_info, auto_commit, stmts, call, up, reqs, resps, handles, tran>>,
           UNCHANGED <<calls, sent, done, io_failed, io_reported, abandoned>>,
           UNCHANGED <<old, half, skewed, authors, workers, interrupted, foreign>>
    PROVE  PInv'
<1>1. Kept
  BY StutterKeeps DEF PInv
<1>2. PlaceInStep' /\ AuthorsInStep'
  BY DEF PInv, PlaceInStep, AuthorsInStep
<1>3. WorkInStep'
  <2>1. ASSUME ~interrupted, reqs # <<>> PROVE Head(reqs).fc = "CON_CLOSE"
    BY <2>1, FrontOf, RestQuiet DEF PInv
  <2>. QED  BY <2>1 DEF PInv, WorkInStep, WorkOwned
<1>. QED  BY <1>1, <1>2, <1>3 DEF PInv, Kept

(* get with an idle client.                                                *)
LEMMA GetIdleKeeps == ASSUME PInv, NEW c \in Callers, GetIdle(c) PROVE PInv'
<1>1. /\ place = "idle" /\ place' = "lent" /\ holder' = c
      /\ UNCHANGED <<conn, cas_info, auto_commit, stmts, call, up, reqs, resps, handles, tran>>
      /\ UNCHANGED <<calls, sent, done, last, io_failed, io_reported, abandoned>>
      /\ UNCHANGED <<old, half, skewed, authors, workers, careless, interrupted, foreign>>
  BY DEF GetIdle, vars, client, stream, server, history, traces
<1>2. call.op = "none"
  BY <1>1 DEF PInv, PlaceInStep
<1>3. WorkOwned
  BY <1>1 DEF PInv, WorkInStep, WorkOwned
<1>. QED  BY <1>1, <1>2, <1>3, HandedOver DEF Forgets

(* get connects: a new session, in which nothing has happened.             *)
LEMMA GetNewKeeps == ASSUME PInv, NEW c \in Callers, GetNew(c) PROVE PInv'
<1>1. /\ place = "none" /\ place' = "lent" /\ holder' = c /\ Opened
  BY DEF GetNew
<1>2. /\ DOMAIN handles = {} /\ reqs = <<>>
      /\ conn' = TRUE /\ up' = TRUE /\ cas_info' = 0 /\ auto_commit' = DsnAutoCommit
      /\ resps' = <<>> /\ sent' = 0 /\ done' = {} /\ abandoned' = {} /\ stmts' = {}
      /\ io_failed' = FALSE /\ io_reported' = FALSE /\ last' = NoResult
      /\ old' = old \cup stmts /\ skewed' = FALSE /\ workers' = {} /\ interrupted' = FALSE
      /\ UNCHANGED <<call, reqs, handles, tran, calls, half, authors>>
  BY <1>1 DEF Opened, server
<1>3. SessionInv /\ call.op = "none" /\ call.wait = "none" /\ ~half
  BY <1>1, AtRest, NotHalf DEF PInv, PlaceInStep
<1>4. /\ Range(reqs') = {} /\ Range(resps') = {} /\ Len(reqs') = 0 /\ Len(resps') = 0
      /\ reqs' \in Seq(Requests) /\ resps' \in Seq(Responses)
  BY <1>2, QueueEmpty
<1>5. last' \in Results /\ last'.status = "none"
  BY <1>2, EmptySeq DEF NoResult, Results
<1>6. TypeOK'
  <2>1. /\ sent' \in 0 .. MaxSent /\ cas_info' \in 0 .. sent'
        /\ \A r \in Range(reqs') \cup Range(resps') \cup done' : r.no <= sent'
    BY <1>2, <1>4, BoundsAssumption
  <2>2. /\ DOMAIN handles' \subseteq 1 .. sent'
        /\ \A h \in DOMAIN handles' : handles'[h] \in [sel : BOOLEAN, total : 0 .. MaxRows]
    BY <1>2
  <2>. QED  BY <1>2, <1>3, <1>4, <1>5, <2>1, <2>2, PoolAssumption DEF SessionInv, TypeOK
<1>7. FramesSound' /\ StreamInStep' /\ CallInStep' /\ OkMeansDone' /\ CasInfoKnown' /\ CasInfoSent'
  BY <1>2, <1>3, <1>4, <1>5
     DEF FramesSound, StreamInStep, CallInStep, OkMeansDone, CasInfoKnown, CasInfoSent,
         FirstCodes, FunctionCodes
<1>8. HandlesOwned'
  <2>1. Known' = {} /\ Passing' = {}
    BY <1>2, <1>3 DEF Known, Passing
  <2>. QED  BY <1>2, <1>4, <2>1 DEF HandlesOwned
<1>9. PlaceInStep'
  BY <1>1, <1>2, <1>3 DEF PInv, PlaceInStep, SessionInv, TypeOK
<1>10. AuthorsInStep' /\ WorkInStep'
  BY <1>1, <1>2, <1>4 DEF PInv, AuthorsInStep, WorkInStep
<1>. QED  BY <1>6, <1>7, <1>8, <1>9, <1>10 DEF PInv, SessionInv

(* The connection returns to the pool: to its queue, or to be dropped.     *)
LEMMA DropConnKeeps == ASSUME PInv, DropConn PROVE PInv'
<1>1. /\ place = "lent" /\ call.op = "none" /\ holder' = "none" /\ Forgets
      /\ careless' = careless \cup workers
      /\ UNCHANGED <<handles, tran, calls, done, io_failed, io_reported, abandoned>>
      /\ UNCHANGED <<old, half, skewed, workers, interrupted, foreign>>
  BY DEF DropConn, server, Forgets
<1>2. WorkOwned
  BY <1>1 DEF WorkOwned
<1>3. CASE UNCHANGED <<conn, cas_info, auto_commit, stmts, call, up, reqs, resps, sent, authors>>
  BY <1>1, <1>2, <1>3, HandedOver
<1>4. CASE /\ conn /\ conn' = FALSE /\ up' = FALSE /\ LastWords /\ resps' = <<>>
           /\ authors' = IF sent' = sent THEN authors ELSE Append(authors, holder)
           /\ UNCHANGED <<cas_info, auto_commit, stmts, call>>
  <2>1. Kept
    BY <1>1, <1>4, ClosingKeeps DEF LastWords, PInv
  <2>2. holder \in Callers \cup {"none"}
    BY DEF PInv, AuthorsInStep
  <2>. QED  BY <1>1, <1>2, <1>4, <2>1, <2>2, ClosedKeeps
<1>. QED  BY <1>3, <1>4 DEF DropConn, DropClient, client, stream, LastWords

(* close of the pool, and close by the holder.                             *)
LEMMA ClosesKeep == ASSUME PInv, PoolClose \/ CloseClient PROVE PInv'
<1>1. CASE Close /\ (PoolClose \/ CloseClient)
  <2>1. Kept
    BY <1>1, CloseKeeps DEF PInv
  <2>2. /\ call.op = "none" /\ conn' = FALSE /\ up' = FALSE /\ LastWords
        /\ UNCHANGED <<call, io_failed>>
    BY <1>1 DEF Close, LastWords
  <2>3. /\ UNCHANGED <<holder, workers, careless, old, half, skewed, interrupted, foreign>>
        /\ place' = place \/ (place = "idle" /\ place' = "none")
        /\ \E who \in {holder, "none"} :
              authors' = IF sent' = sent THEN authors ELSE Append(authors, who)
    BY <1>1 DEF Close, PoolClose, CloseClient, Held, ClientDoes, pool, traces, vars, client
  <2>4. WorkOwned /\ holder \in Callers \cup {"none"}
    BY <2>3 DEF PInv, WorkInStep, WorkOwned, AuthorsInStep
  <2>. QED  BY <2>1, <2>2, <2>3, <2>4, ClosedKeeps
<1>2. CASE PoolClose /\ place # "idle"
  <2>1. UNCHANGED <<vars, holder, place, authors, old, half, skewed, traces>>
    BY <1>2 DEF PoolClose
  <2>2. Kept
    BY <2>1, StutterKeeps DEF PInv, vars, client, stream, server, history, Forgets
  <2>3. PlaceInStep' /\ AuthorsInStep' /\ WorkInStep'
    BY <2>1 DEF PInv, PlaceInStep, AuthorsInStep, WorkInStep, vars, client, stream, server,
       history, traces
  <2>. QED  BY <2>1, <2>2, <2>3 DEF PInv, Kept, traces
<1>. QED  BY <1>1, <1>2 DEF PoolClose, CloseClient, Held, ClientDoes

-----------------------------------------------------------------------------
(* The invariant, and what follows from it *)

LEMMA PInitInv == PInit => PInv
<1>1. SUFFICES ASSUME PInit PROVE PInv
  OBVIOUS
<1>2. /\ Init /\ place = "lent" /\ half = FALSE /\ skewed = FALSE /\ old = {} /\ authors = <<>>
      /\ workers = {} /\ interrupted = FALSE /\ holder \in Callers
  <2>1. (CHOOSE c \in Callers : TRUE) \in Callers
    BY PoolAssumption
  <2>. QED  BY <1>1, <2>1 DEF PInit
<1>3. SessionInv /\ HandlesOwned
  BY <1>2, InitInv DEF IInv
<1>4. reqs = <<>> /\ io_failed = FALSE /\ call.op = "none"
  BY <1>2 DEF Init, NoCall
<1>5. PlaceInStep /\ WorkInStep
  BY <1>2, <1>4 DEF PlaceInStep, WorkInStep
<1>6. AuthorsInStep
  BY <1>2, <1>4, QueueEmpty DEF AuthorsInStep
<1>. QED  BY <1>3, <1>5, <1>6 DEF PInv

LEMMA PStutterKeeps == ASSUME PInv, UNCHANGED pvars PROVE PInv'
<1>1. UNCHANGED <<vars, holder, place, authors, old, half, skewed, traces>>
  BY DEF pvars, pool
<1>2. Kept
  BY <1>1, StutterKeeps DEF PInv, vars, client, stream, server, history, Forgets
<1>3. PlaceInStep' /\ AuthorsInStep' /\ WorkInStep'
  BY <1>1 DEF PInv, PlaceInStep, AuthorsInStep, WorkInStep, vars, client, stream, server,
     history, traces
<1>. QED  BY <1>1, <1>2, <1>3 DEF PInv, Kept, traces

LEMMA PNextInv == PInv /\ [PNext]_pvars => PInv'
<1>1. SUFFICES ASSUME PInv, [PNext]_pvars PROVE PInv'
  OBVIOUS
<1>2. CASE \E c \in Callers : GetIdle(c) \/ GetNew(c)
  BY <1>1, <1>2, GetIdleKeeps, GetNewKeeps
<1>3. CASE DropConn \/ PoolClose \/ CloseClient
  BY <1>1, <1>3, DropConnKeeps, ClosesKeep
<1>4. CASE \/ Execute \/ Query \/ Prepare \/ Commit \/ Rollback \/ Ping \/ ChangeAutoCommit
           \/ \E s \in stmts : \/ StatementExecute(s) \/ StatementQueryWith(s)
                               \/ StatementClose(s) \/ StatementDropped(s)
  BY <1>1, <1>4, CallsKeep
<1>5. CASE \E s \in old : ForeignExecute(s) \/ ForeignClose(s)
  BY <1>1, <1>5, ForeignKeeps
<1>6. CASE Receives
  BY <1>1, <1>6, ReceivesKeep
<1>7. CASE ReceiveSkewed \/ ReceiveFails \/ TimeoutInFrame \/ Cancel
  BY <1>1, <1>7, SkewedKeeps, BreaksOffKeep
<1>8. CASE CancelWrite
  BY <1>1, <1>8, CancelWriteKeeps
<1>9. CASE Serve(ServerStep) \/ Serve(ServerRefuses)
  BY <1>1, <1>9, ServeKeeps
<1>10. CASE ServeCut \/ SessionHangsUp \/ StreamBreaks
  BY <1>1, <1>10, EndsKeep
<1>11. CASE UNCHANGED pvars
  BY <1>1, <1>11, PStutterKeeps
<1>. QED
  BY <1>1, <1>2, <1>3, <1>4, <1>5, <1>6, <1>7, <1>8, <1>9, <1>10, <1>11 DEF PNext

(* Every reachable state of a pooled connection satisfies the inductive    *)
(* invariant.                                                              *)
THEOREM PooledInvariance == PSpec => []PInv
  BY PInitInv, PNextInv, PTL DEF PSpec

(* Every step of pool, callers, client and server keeps the session        *)
(* well-formed, also when a call was broken off, cut, or took the inside   *)
(* of a frame for its answer: for any handle it then read, the Statement   *)
(* it returned, the rows it counted, the FETCH and the CLOSE_REQ_HANDLE it *)
(* sent are such as any answer may lead to, and none leaves a call waiting *)
(* that has not started, or one without a connection.                      *)
THEOREM PooledTypeCorrect == PSpec => []TypeOK
<1>1. PInv => TypeOK
  BY DEF PInv, SessionInv
<1>. QED  BY PooledInvariance, <1>1, PTL

(* However many callers get, use, drop and close pooled connections: as    *)
(* long as no call was broken off on this one, recv_framed reads the       *)
(* answer to the holder's own newest request, and nobody leaves a frame,   *)
(* or part of one, to the next holder.                                     *)
THEOREM AnswersAreOwn == PSpec => []OwnAnswers
<1>1. ASSUME PInv PROVE OwnAnswers
  BY <1>1, SessionInStep DEF PInv, PlaceInStep, OwnAnswers
<1>. QED  BY PooledInvariance, <1>1, PTL

(* What the holder commits is the holder's own work, or what an earlier    *)
(* holder left uncommitted when it returned the connection, as long as no  *)
(* call was broken off on it.                                              *)
THEOREM TransactionsOfHolder == PSpec => []WorkOfHolder
<1>1. PInv => WorkOfHolder
  BY DEF PInv, WorkInStep, WorkOfHolder
<1>. QED  BY PooledInvariance, <1>1, PTL

(* As long as Statements are used on the connection they were prepared on  *)
(* and no call was broken off, whoever holds the connection finds the      *)
(* Statements' handles open, and no others but the known leaks.            *)
THEOREM StatementsAlwaysResolve == PSpec => []StatementsResolve
<1>1. ASSUME PInv PROVE StatementsResolve
  BY <1>1, OwnedResolve DEF PInv, StatementsResolve
<1>. QED  BY PooledInvariance, <1>1, PTL
=============================================================================
