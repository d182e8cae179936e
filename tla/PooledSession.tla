--------------------------- MODULE PooledSession ---------------------------
(***************************************************************************)
(* A pooled connection: the client of either crate, lent by its pool to    *)
(* one caller after another.  The calls and the frames are those of        *)
(* ClientSession, since cubrid-tokio's client is cubrid-client's with      *)
(* awaits.  What is added is what breaks a call in the middle, and what    *)
(* the next caller then finds:                                             *)
(*                                                                         *)
(*   - a frame is read in two parts, length and body.  The future of an    *)
(*     asynchronous call may be dropped at any await, and a blocking read  *)
(*     may time out, after the length too: then the next read takes the    *)
(*     body for a length, and whatever its parser makes of what it finds   *)
(*     is stored, returned and acted upon.  A dropped write leaves part of *)
(*     a request;                                                          *)
(*   - the pool lends a connection again as it came back, unless its       *)
(*     client was closed: with an open transaction, an unread answer, a    *)
(*     changed auto_commit, handles nobody will close, a dead socket;      *)
(*   - Statements outlive the connection they were prepared on, and handle *)
(*     numbers start again on the next one.                                *)
(*                                                                         *)
(* Other places of the pool do not matter here: one connection at a time.  *)
(***************************************************************************)
EXTENDS ClientSession

CONSTANTS Callers,     \* callers of the pool
          DsnAutoCommit, \* Dsn::auto_commit of its connection string
          MaxSessions, \* bound: connections opened in the place's stead
          MaxRequests, \* the most requests of one call
          NonsenseHandles \* bound: handles read inside a frame

ASSUME PoolAssumption ==
    /\ Callers # {} /\ "none" \notin Callers
    /\ DsnAutoCommit \in BOOLEAN /\ MaxSessions \in Nat \ {0}
    /\ NonsenseHandles \subseteq Nat

VARIABLES
    async,             \* cubrid-tokio and AsyncPool, or the blocking crates
    place,             \* the client is "idle" in the queue, "lent", or there is "none"
    holder,            \* who holds it
    pool_closed,       \* closed of SyncPoolInner and AsyncPoolInner
    half,              \* recv_framed has read a frame's length but not its body
    skewed,            \* the stream is left inside a frame
    old,               \* Statements prepared on earlier connections
    (* Only for the bounds and the properties *)
    sessions,          \* connections opened
    authors,           \* who sent each request of reqs
    workers,           \* whose work is in the open transaction
    careless,          \* who returned it with work of theirs not committed
    interrupted,       \* a call was broken off on this connection
    foreign            \* a Statement of another connection was used on it

pool == <<async, place, holder, pool_closed, sessions>>
traces == <<workers, careless, interrupted, foreign>>

pvars == <<vars, pool, old, half, skewed, authors, traces>>

(* One of the callers has the first connection; which one, does not matter. *)
PInit ==
    /\ Init
    /\ async \in BOOLEAN
    /\ auto_commit = DsnAutoCommit
    /\ place = "lent"
    /\ holder = CHOOSE c \in Callers : TRUE
    /\ pool_closed = FALSE
    /\ half = FALSE
    /\ skewed = FALSE
    /\ old = {}
    /\ sessions = 1
    /\ authors = <<>>
    /\ workers = {}
    /\ careless = {}
    /\ interrupted = FALSE
    /\ foreign = FALSE

-----------------------------------------------------------------------------
(* The pool *)

(* Mutant of GetIdle: the client stays in the queue. *)
GetIdleShared(c) ==
    /\ ~pool_closed
    /\ place \in {"idle", "lent"}
    /\ call.op = "none"
    /\ place' = "lent"
    /\ holder' = c
    /\ UNCHANGED <<vars, async, pool_closed, sessions, old, half, skewed, authors, traces>>

(* get with an idle client: it is lent as it is. *)
GetIdle(c) ==
    /\ ~pool_closed
    /\ place = "idle"
    /\ place' = "lent"
    /\ holder' = c
    /\ UNCHANGED <<vars, async, pool_closed, sessions, old, half, skewed, authors, traces>>

(* A new connection, with its own stream and its own server; by then the   *)
(* old one, with which it shares nothing, has ended.                       *)
Opened ==
    /\ DOMAIN handles = {} /\ tran = "none" /\ reqs = <<>>
    /\ conn' = TRUE
    /\ up' = TRUE
    /\ cas_info' = 0
    /\ auto_commit' = DsnAutoCommit
    /\ resps' = <<>>
    /\ sent' = 0
    /\ done' = {}
    /\ abandoned' = {}
    /\ io_failed' = FALSE
    /\ io_reported' = FALSE
    /\ last' = NoResult
    /\ stmts' = {}
    /\ old' = old \cup stmts
    /\ skewed' = FALSE
    /\ workers' = {}
    /\ careless' = {}
    /\ interrupted' = FALSE
    /\ foreign' = FALSE
    /\ UNCHANGED <<call, reqs, server, calls, async, pool_closed, half, authors>>

(* get with no idle client: it connects. *)
GetNew(c) ==
    /\ ~pool_closed
    /\ place = "none"
    /\ sessions < MaxSessions
    /\ sessions' = sessions + 1
    /\ place' = "lent"
    /\ holder' = c
    /\ Opened

(* Mutant of DropClient: the socket stays open. *)
DropClientLeaks ==
    \/ ~conn /\ UNCHANGED <<client, stream, sent>>
    \/ /\ conn
       /\ conn' = FALSE
       /\ UNCHANGED <<cas_info, auto_commit, stmts, call, stream, sent>>

(* The client is dropped: cubrid-client's Drop closes it, cubrid-tokio's   *)
(* socket is closed without a word.                                        *)
DropClient ==
    \/ ~conn /\ UNCHANGED <<client, stream, sent>>
    \/ /\ conn
       /\ conn' = FALSE
       /\ up' = FALSE
       /\ IF ~async /\ up /\ sent < MaxSent
             THEN /\ reqs' = Append(reqs, WriteConClose(sent + 1, cas_info))
                  /\ sent' = sent + 1
             ELSE UNCHANGED <<reqs, sent>>
       /\ resps' = <<>>
       /\ UNCHANGED <<cas_info, auto_commit, stmts, call>>

(* A pooled connection is dropped, and its return task run: the client     *)
(* goes back to the queue, or is dropped if it is closed or the pool is.   *)
DropConn ==
    /\ place = "lent"
    /\ call.op = "none"
    /\ holder' = "none"
    /\ careless' = careless \cup workers
    /\ last' = NoResult
    /\ IF conn /\ ~pool_closed
          THEN place' = "idle" /\ UNCHANGED <<client, stream, sent, authors>>
          ELSE /\ place' = "none"
               /\ DropClient
               /\ authors' = IF sent' = sent THEN authors ELSE Append(authors, holder)
    /\ UNCHANGED <<server, calls, done, io_failed, io_reported, abandoned, async, pool_closed, sessions, old, half, skewed, workers,
                   interrupted, foreign>>

(* close of the pool: an idle client is closed, a lent one when it returns. *)
PoolClose ==
    /\ ~pool_closed
    /\ pool_closed' = TRUE
    /\ IF place = "idle"
          THEN /\ place' = "none"
               /\ Close
               /\ authors' = IF sent' = sent THEN authors ELSE Append(authors, "none")
          ELSE UNCHANGED <<vars, place, authors>>
    /\ UNCHANGED <<async, holder, sessions, old, half, skewed, traces>>

-----------------------------------------------------------------------------
(* The holder's calls *)

(* A step of the client: what it sends is the holder's. *)
ClientDoes(A) ==
    /\ A
    /\ authors' = IF sent' = sent THEN authors ELSE Append(authors, holder)
    /\ UNCHANGED <<pool, skewed, workers, careless, interrupted>>

(* Only the holder of the pooled connection can call its client. *)
Held(A) == place = "lent" /\ ClientDoes(A) /\ UNCHANGED <<half, old, foreign>>

(* Bound: a call starts if all its requests may still be sent. *)
Room == sent + MaxRequests <= MaxSent

Execute == Room /\ Held(StartExecute)

Query == Room /\ Held(StartQuery)

Prepare == Room /\ Held(StartPrepare)

Commit == Room /\ Held(StartEndTran("commit"))

Rollback == Room /\ Held(StartEndTran("rollback"))

Ping == Room /\ Held(StartPing)

ChangeAutoCommit == Held(SetAutoCommit)

CloseClient == Held(Close)

StatementExecute(s) == Room /\ Held(StartStmtExecute(s))

StatementQueryWith(s) == Room /\ Held(StartStmtQuery(s))

StatementClose(s) == Room /\ Held(StmtClose(s))

StatementDropped(s) == Held(StmtDrop(s))

(* A Statement of another connection: nothing in it tells. *)
ForeignExecute(s) ==
    /\ Room
    /\ place = "lent"
    /\ ClientDoes(StartStmtExecute(s) \/ StartStmtQuery(s))
    /\ foreign' = TRUE
    /\ UNCHANGED <<half, old>>

ForeignClose(s) ==
    /\ Room
    /\ place = "lent"
    /\ ClientDoes(StmtCloseSends(s) /\ UNCHANGED stmts)
    /\ foreign' = TRUE
    /\ old' = old \ {s}
    /\ UNCHANGED half

-----------------------------------------------------------------------------
(* Reading the answer *)

(* recv_framed, the first read: the length. *)
RecvLength ==
    /\ call.wait # "none"
    /\ resps # <<>>
    /\ ~half /\ ~skewed
    /\ half' = TRUE
    /\ UNCHANGED <<vars, pool, old, skewed, authors, traces>>

(* The second read: the body.  The call goes on or returns. *)
Receive(A) == half /\ half' = FALSE /\ ClientDoes(A) /\ UNCHANGED <<old, foreign>>

ReceivePrepareAndExecute == Receive(RecvPrepareAndExecute)

ReceiveExecute == Receive(RecvExecute)

ReceiveFetch == Receive(RecvFetch)

ReceivePrepare == Receive(RecvPrepare)

ReceiveEndTran == Receive(RecvEndTran)

ReceiveVersion == Receive(RecvVersion)

ReceiveCloseHandle == Receive(RecvCloseHandle)

(* What a parser may make of the inside of a frame: an error, or a result  *)
(* that answers nothing, with any handle and any number of rows of any     *)
(* total.  CAS_INFO 0 is that of no answer.                                *)
Nonsense ==
    {Failed} \cup
    {[ok |-> TRUE, cas |-> 0, handle |-> h, sel |-> total > 0, total |-> total,
      rows |-> RowsFrom(1, n)] :
        h \in NonsenseHandles, total \in 0 .. MaxRows, n \in 0 .. FetchSize}

(* The call goes on with that as with any answer: it stores the CAS_INFO,  *)
(* returns a Statement or rows, asks for more rows, closes the handle, ... *)
ReadsNonsense ==
    \/ call.wait = "PREPARE_AND_EXECUTE" /\ PrepareAndExecuteRead(Nonsense)
    \/ call.wait = "EXECUTE" /\ ExecuteRead(Nonsense)
    \/ call.wait = "FETCH" /\ FetchRead(Nonsense)
    \/ call.wait = "PREPARE" /\ PrepareRead(Nonsense)
    \/ call.wait \in {"END_TRAN", "GET_DB_VERSION"} /\ SimpleRead(Nonsense)
    \/ call.wait = "CLOSE_REQ_HANDLE" /\ CloseHandleRead

(* ... or panics: Vec::with_capacity of a negative count. *)
ReadPanics ==
    /\ call.wait \in {"PREPARE_AND_EXECUTE", "EXECUTE", "FETCH", "PREPARE"}
    /\ call' = NoCall
    /\ UNCHANGED <<conn, cas_info, auto_commit, stmts, up, reqs, server, history>>

(* Inside a frame, four bytes of a body are taken for a length: the read   *)
(* may end in that body, or swallow any number of frames, and what follows *)
(* may or may not begin a frame; or it takes all there is and waits on.    *)
ReceiveSkewed ==
    /\ call.wait # "none"
    /\ skewed
    /\ resps # <<>>
    /\ \/ /\ \E n \in 0 .. Len(resps) :
                /\ resps' = SubSeq(resps, n + 1, Len(resps))
                /\ skewed' \in IF n = 0 THEN {TRUE} ELSE BOOLEAN
          /\ ReadsNonsense \/ ReadPanics
       \/ /\ resps' = <<>>
          /\ UNCHANGED <<skewed, client, up, reqs, server, history>>
    /\ authors' = IF sent' = sent THEN authors ELSE Append(authors, holder)
    /\ UNCHANGED <<pool, old, half, traces>>

(* Mutant of ReceiveFails: the end of the stream is taken for no bytes yet. *)
ReceiveFailsOnTimeout ==
    /\ up
    /\ RecvFails
    /\ ~async
    /\ half' = FALSE
    /\ interrupted' = TRUE
    /\ UNCHANGED <<pool, old, skewed, authors, workers, careless, foreign>>

(* The stream is broken; or, in the blocking client, the answer is late.   *)
ReceiveFails ==
    /\ RecvFails
    /\ ~up \/ ~async
    /\ half' = FALSE
    /\ interrupted' = TRUE
    /\ UNCHANGED <<pool, old, skewed, authors, workers, careless, foreign>>

(* The blocking client's read of the body times out. *)
TimeoutInFrame ==
    /\ ~async
    /\ half
    /\ half' = FALSE
    /\ skewed' = TRUE
    /\ ReadFails
    /\ interrupted' = TRUE
    /\ UNCHANGED <<pool, old, authors, workers, careless, foreign>>

(* The future of a call is dropped while it waits for the answer, or       *)
(* between the two reads.                                                  *)
Cancel ==
    /\ async
    /\ call.op # "none"
    /\ call' = NoCall
    /\ half' = FALSE
    /\ skewed' = (skewed \/ half)
    /\ io_failed' = TRUE
    /\ interrupted' = TRUE
    /\ UNCHANGED <<conn, cas_info, auto_commit, stmts, stream, server, calls, sent, done, last,
                   io_reported, abandoned, pool, old, authors, workers, careless, foreign>>

(* The future is dropped in the middle of write_all. *)
CancelWrite ==
    /\ async
    /\ place = "lent"
    /\ call.op = "none"
    /\ conn /\ up
    /\ calls < MaxCalls /\ sent < MaxSent
    /\ calls' = calls + 1
    /\ sent' = sent + 1
    /\ reqs' = Append(reqs, BuildRequest("CUT", sent + 1, cas_info))
    /\ authors' = Append(authors, holder)
    /\ io_failed' = TRUE
    /\ interrupted' = TRUE
    /\ UNCHANGED <<client, up, resps, server, done, last, io_reported, abandoned, pool,
                   old, half, skewed, workers, careless, foreign>>

-----------------------------------------------------------------------------
(* The server *)

(* Work joins the transaction until it is ended, by whoever. *)
Serve(A) ==
    /\ A
    /\ authors' = Tail(authors)
    /\ workers' = IF tran' = "none" THEN {}
                  ELSE IF /\ Head(reqs).fc \in {"PREPARE_AND_EXECUTE", "EXECUTE"}
                          /\ [no |-> Head(reqs).no, fc |-> Head(reqs).fc] \in done'
                       THEN workers \cup {Head(authors)}
                       ELSE workers
    /\ UNCHANGED <<pool, old, half, skewed, careless, interrupted, foreign>>

(* What follows a cut request completes it to nonsense: the server hangs up. *)
ServeCut ==
    /\ reqs # <<>>
    /\ Head(reqs).fc = "CUT"
    /\ Len(reqs) > 1 \/ ~up
    /\ up' = FALSE
    /\ reqs' = <<>>
    /\ handles' = <<>>
    /\ tran' = "none"
    /\ authors' = <<>>
    /\ workers' = {}
    /\ UNCHANGED <<client, resps, history, pool, old, half, skewed, careless, interrupted, foreign>>

SessionHangsUp ==
    /\ ServerHangsUp
    /\ authors' = <<>>
    /\ workers' = {}
    /\ UNCHANGED <<pool, old, half, skewed, careless, interrupted, foreign>>

(* The socket dies, under a call, between two or in the queue, where the   *)
(* pool does not notice.                                                   *)
StreamBreaks ==
    /\ LinkBreaks
    /\ authors' = <<>>
    /\ UNCHANGED <<pool, old, half, skewed, traces>>

-----------------------------------------------------------------------------

Receives ==
    \/ RecvLength
    \/ ReceivePrepareAndExecute
    \/ ReceiveExecute
    \/ ReceiveFetch
    \/ ReceivePrepare
    \/ ReceiveEndTran
    \/ ReceiveVersion
    \/ ReceiveCloseHandle

PNext ==
    \/ \E c \in Callers : GetIdle(c) \/ GetNew(c)
    \/ DropConn
    \/ PoolClose
    \/ Execute \/ Query \/ Prepare \/ Commit \/ Rollback \/ Ping
    \/ ChangeAutoCommit
    \/ CloseClient
    \/ \E s \in stmts : \/ StatementExecute(s)
                        \/ StatementQueryWith(s)
                        \/ StatementClose(s)
                        \/ StatementDropped(s)
    \/ \E s \in old : ForeignExecute(s) \/ ForeignClose(s)
    \/ Receives
    \/ ReceiveSkewed
    \/ ReceiveFails
    \/ TimeoutInFrame
    \/ Cancel
    \/ CancelWrite
    \/ Serve(ServerStep)
    \/ Serve(ServerRefuses)
    \/ ServeCut
    \/ SessionHangsUp
    \/ StreamBreaks

PSpec == PInit /\ [][PNext]_pvars

(* Peer and runtime make progress; nothing makes a late frame come in time *)
(* or a skewed stream end well.                                            *)
PFairness ==
    /\ WF_pvars(Receives \/ (~up /\ ReceiveFails))
    /\ WF_pvars(Serve(ServerStep) \/ ServeCut \/ SessionHangsUp)

PFairSpec == PSpec /\ PFairness

-----------------------------------------------------------------------------
(* Properties *)

(* Whatever earlier holders did, and on every connection anew: as long as  *)
(* no call has been broken off on it, the frame a call reads answers its   *)
(* own request, and no part of a frame is left behind.                     *)
OwnAnswers ==
    ~interrupted =>
        /\ InStep
        /\ ~skewed
        /\ half => call.wait # "none"

(* What the holder commits or rolls back is the holder's: as long as no    *)
(* call was broken off, others have work in the open transaction only if   *)
(* it was there when they returned the connection.                         *)
WorkOfHolder == ~interrupted => workers \subseteq careless \cup {holder}

(* A Statement names what was prepared, and nothing else is left open, as  *)
(* long as Statements are used on the connection they were prepared on and *)
(* no call was broken off: not even the pool's other callers close it.     *)
StatementsResolve ==
    ~interrupted /\ ~foreign => HandlesAccounted /\ StatementsUsable

(* A call on a connection where none was broken off returns: no timeout    *)
(* bounds an asynchronous wait, but the server answers or hangs up.        *)
UndisturbedCallsReturn ==
    call.op # "none" /\ ~interrupted ~> call.op = "none"

(* A client that was closed, or dropped by a closed pool, with or without  *)
(* CON_CLOSE, leaves nothing open on the server, half-sent requests or not.*)
SessionsEnd == ~conn ~> (DOMAIN handles = {} /\ workers = {})
=============================================================================
