--------------------------- MODULE ClientSession ---------------------------
(***************************************************************************)
(* One cubrid_client::Client, the Statements prepared with it, its TCP     *)
(* stream and the CAS process at the other end.                            *)
(*                                                                         *)
(* The client runs one call at a time (every method takes &mut self): it   *)
(* sends a request, waits for one frame and either goes on (the next       *)
(* FETCH, the CLOSE_REQ_HANDLE of the cleanup) or returns.  The server     *)
(* answers the requests in order.  A read may time out although the answer *)
(* is only late: then it stays in the stream, and the client, which keeps  *)
(* its connection, reads it as the answer to a later request.              *)
(*                                                                         *)
(* The server is not part of the repository: it is modelled by what the    *)
(* client expects of it.                                                   *)
(***************************************************************************)
EXTENDS CasProtocol, FiniteSets, Functions

CONSTANTS MaxCalls,    \* bound: calls made on the connection
          MaxSent,     \* bound: requests sent on it
          MaxRows,     \* bound: rows of a result
          FetchSize,   \* DEFAULT_FETCH_SIZE
          Timeouts,    \* may a read time out before the answer is there?
          ServerErrors,\* may the server answer with an error code?
          Drops        \* do callers drop a Statement without closing it?

ASSUME BoundsAssumption ==
    /\ MaxCalls \in Nat
    /\ MaxSent \in Nat
    /\ MaxRows \in Nat
    /\ FetchSize \in Nat \ {0}

ASSUME SwitchAssumption ==
    Timeouts \in BOOLEAN /\ ServerErrors \in BOOLEAN /\ Drops \in BOOLEAN

VARIABLES
    (* Client *)
    conn,              \* Client::conn is Some
    cas_info,          \* Connection::cas_info
    auto_commit,       \* Client::auto_commit
    stmts,             \* Statements that are neither closed nor dropped
    call,              \* the call under way and what it has read so far
    (* The stream *)
    up,                \* both ends can still talk
    reqs,              \* requests the server has not read
    resps,             \* frames the client has not read
    (* Server *)
    handles,           \* open statement handles, with their results
    tran,              \* "none" or "open"
    (* Only for the bounds and the properties *)
    calls,             \* calls made
    sent,              \* requests sent
    done,              \* requests the server carried out, and what they asked for
    last,              \* the last call that returned, and what
    io_failed,         \* some read or write failed or was given up
    io_reported,       \* ... and a call returned it
    abandoned          \* handles nobody will close

client == <<conn, cas_info, auto_commit, stmts, call>>
stream == <<up, reqs, resps>>
server == <<handles, tran>>
history == <<calls, sent, done, last, io_failed, io_reported, abandoned>>

vars == <<client, stream, server, history>>

NoCall == [op |-> "none", wait |-> "none", no |-> 0, handle |-> 0, sel |-> FALSE,
           total |-> 0, rows |-> <<>>]

NoResult == [op |-> "none", status |-> "none", no |-> 0, total |-> 0, rows |-> <<>>]

(* A result of n rows is the sequence of its row numbers. *)
RowsFrom(start, n) == [i \in 1 .. n |-> start + i - 1]

SmallerOf(m, n) == IF m < n THEN m ELSE n

Operations ==
    {"execute", "query", "prepare", "stmt_execute", "stmt_query", "stmt_close", "commit",
     "rollback", "ping"}

Calls ==
    [op : Operations \cup {"none"}, wait : (FunctionCodes \ {"CON_CLOSE"}) \cup {"none"},
     no : Nat, handle : Nat, sel : BOOLEAN, total : Nat, rows : Seq(Nat)]

Results ==
    [op : Operations \cup {"none"}, status : {"none", "ok", "error", "io_error", "closed"},
     no : Nat, total : Nat, rows : Seq(Nat)]

TypeOK ==
    /\ conn \in BOOLEAN
    /\ cas_info \in 0 .. sent
    /\ auto_commit \in BOOLEAN
    /\ stmts \subseteq [handle : Nat, sel : BOOLEAN]
    /\ call \in Calls
    /\ (call.op = "none") = (call.wait = "none")
    /\ up \in BOOLEAN
    /\ reqs \in Seq(Requests)
    /\ resps \in Seq(Responses)
    /\ \A r \in Range(reqs) \cup Range(resps) \cup done : r.no <= sent
    /\ DOMAIN handles \subseteq 1 .. sent
    /\ \A h \in DOMAIN handles : handles[h] \in [sel : BOOLEAN, total : 0 .. MaxRows]
    /\ tran \in {"none", "open"}
    /\ calls \in 0 .. MaxCalls
    /\ sent \in 0 .. MaxSent
    /\ done \subseteq [no : Nat \ {0}, fc : FunctionCodes]
    /\ last \in Results
    /\ io_failed \in BOOLEAN
    /\ io_reported \in BOOLEAN
    /\ abandoned \subseteq Nat \ {0}

(* Client::connect has succeeded: OpenDatabase brought the first CAS_INFO. *)
Init ==
    /\ conn = TRUE
    /\ cas_info = 0
    /\ auto_commit \in BOOLEAN
    /\ stmts = {}
    /\ call = NoCall
    /\ up = TRUE
    /\ reqs = <<>>
    /\ resps = <<>>
    /\ handles = <<>>
    /\ tran = "none"
    /\ calls = 0
    /\ sent = 0
    /\ done = {}
    /\ last = NoResult
    /\ io_failed = FALSE
    /\ io_reported = FALSE
    /\ abandoned = {}

-----------------------------------------------------------------------------
(* What every call does *)

(* The call returns. *)
Return(c, status) ==
    /\ call' = NoCall
    /\ last' = [op |-> c.op, status |-> status, no |-> c.no, total |-> c.total,
                rows |-> c.rows]

(* send_framed: the request is on its way, and the call waits for a frame. *)
SendFramed(req, c) ==
    /\ sent < MaxSent
    /\ up
    /\ reqs' = Append(reqs, req)
    /\ sent' = sent + 1
    /\ call' = [c EXCEPT !.wait = req.fc]
    /\ UNCHANGED <<up, last, io_failed, io_reported>>

(* send_framed on a broken stream: `?' returns the error. *)
SendFails(c) ==
    /\ ~up
    /\ io_failed' = TRUE
    /\ io_reported' = TRUE
    /\ Return(c, "io_error")
    /\ UNCHANGED <<up, reqs, sent>>

(* A call starts with its first request.  conn_mut refuses it, before      *)
(* anything else, once the connection is closed.                           *)
Start(op, c, req) ==
    /\ call.op = "none"
    /\ calls < MaxCalls
    /\ calls' = calls + 1
    /\ LET begun == [c EXCEPT !.op = op, !.no = req.no]
       IN \/ conn /\ (SendFramed(req, begun) \/ SendFails(begun))
          \/ /\ ~conn
             /\ Return(begun, "closed")
             /\ UNCHANGED <<up, reqs, sent, io_failed, io_reported>>
    /\ UNCHANGED <<conn, cas_info, auto_commit, stmts, resps, server, done, abandoned>>

(* recv_framed: the next frame of the stream, whatever it answers. *)
RecvFramed(wait) ==
    /\ call.wait = wait
    /\ resps # <<>>
    /\ resps' = Tail(resps)

-----------------------------------------------------------------------------
(* The calls *)

StartExecute ==
    Start("execute", NoCall, WritePrepareAndExecute(sent + 1, auto_commit, cas_info))

(* last_insert_id is a query too. *)
StartQuery ==
    Start("query", NoCall, WritePrepareAndExecute(sent + 1, auto_commit, cas_info))

StartPrepare ==
    Start("prepare", NoCall, WritePrepare(sent + 1, auto_commit, cas_info))

(* Statement::execute and Statement::query_with without parameters; with   *)
(* parameters they are Client::execute and Client::query.                  *)
StartStmtExecute(s) ==
    Start("stmt_execute", [NoCall EXCEPT !.handle = s.handle, !.sel = s.sel],
          WriteExecute(sent + 1, s.handle, auto_commit, cas_info))

StartStmtQuery(s) ==
    Start("stmt_query", [NoCall EXCEPT !.handle = s.handle, !.sel = s.sel],
          WriteExecute(sent + 1, s.handle, auto_commit, cas_info))

StartEndTran(t) ==
    Start(t, NoCall, WriteEndTran(sent + 1, t, cas_info))

StartPing ==
    Start("ping", NoCall, WriteGetDbVersion(sent + 1, auto_commit, cas_info))

(* Mutant of CloseQueryHandle: the answer is not read. *)
CloseQueryHandleNoRead(c, handle) ==
    /\ sent < MaxSent
    /\ up
    /\ reqs' = Append(reqs, WriteCloseReqHandle(sent + 1, handle, cas_info'))
    /\ sent' = sent + 1
    /\ Return(c, "ok")
    /\ UNCHANGED <<up, io_failed, io_reported>>

(* close_query_handle: best effort.  If the request cannot be sent the     *)
(* call that wanted it returns as if it had been.                          *)
CloseQueryHandle(c, handle) ==
    \/ SendFramed(WriteCloseReqHandle(sent + 1, handle, cas_info'), c)
    \/ /\ ~up
       /\ io_failed' = TRUE
       /\ Return(c, "ok")
       /\ UNCHANGED <<up, reqs, sent, io_reported>>

StmtCloseSends(s) ==
    /\ call.op = "none"
    /\ calls < MaxCalls
    /\ calls' = calls + 1
    /\ UNCHANGED <<conn, cas_info, auto_commit, resps, server, done, abandoned>>
    /\ LET c == [NoCall EXCEPT !.op = "stmt_close", !.no = sent + 1, !.handle = s.handle]
       IN IF conn /\ s.handle > 0
             THEN CloseQueryHandle(c, s.handle)
             ELSE /\ Return(c, "ok")
                  /\ UNCHANGED <<up, reqs, sent, io_failed, io_reported>>

(* Statement::close: the Statement is closed before the request is sent. *)
StmtClose(s) == StmtCloseSends(s) /\ stmts' = stmts \ {s}

(* A Statement that goes out of scope: it has no Drop. *)
StmtDrop(s) ==
    /\ Drops
    /\ call.op = "none"
    /\ stmts' = stmts \ {s}
    /\ abandoned' = abandoned \cup ({s.handle} \ {0})
    /\ UNCHANGED <<conn, cas_info, auto_commit, call, stream, server, calls, sent, done,
                   last, io_failed, io_reported>>

SetAutoCommit ==
    /\ call.op = "none"
    /\ calls < MaxCalls
    /\ calls' = calls + 1
    /\ auto_commit' = ~auto_commit
    /\ UNCHANGED <<conn, cas_info, stmts, call, stream, server, sent, done, last,
                   io_failed, io_reported, abandoned>>

(* Mutant of Close: the connection is given up without a word to the server. *)
CloseForgetsStream ==
    /\ call.op = "none"
    /\ conn
    /\ conn' = FALSE
    /\ UNCHANGED <<up, reqs, sent, resps>>
    /\ UNCHANGED <<cas_info, auto_commit, stmts, call, server, calls, done, last,
                   io_failed, io_reported, abandoned>>

(* Client::close and Drop: CON_CLOSE, best effort, and the stream is shut. *)
Close ==
    /\ call.op = "none"
    /\ conn
    /\ conn' = FALSE
    /\ IF up /\ sent < MaxSent
          THEN /\ reqs' = Append(reqs, WriteConClose(sent + 1, cas_info))
               /\ sent' = sent + 1
          ELSE UNCHANGED <<reqs, sent>>
    /\ up' = FALSE
    /\ resps' = <<>>
    /\ UNCHANGED <<cas_info, auto_commit, stmts, call, server, calls, done, last,
                   io_failed, io_reported, abandoned>>

-----------------------------------------------------------------------------
(* The frame a call waits for *)

(* `?' on an error code or on a frame that does not parse. *)
CallFails ==
    /\ Return(call, "error")
    /\ UNCHANGED <<up, reqs, sent, io_failed, io_reported, cas_info>>

(* The cursor of fetch_remaining: more rows are needed. *)
NeedsMore(c) == c.sel /\ Len(c.rows) < c.total

(* The next round of fetch_remaining: its `?' ends the call, and what was  *)
(* opened for it stays open.                                               *)
FetchNext(c) ==
    \/ SendFramed(WriteFetch(sent + 1, c.handle, Len(c.rows), cas_info'), c)
    \/ SendFails(c)

(* Mutant of FinishQuery: the handle is left open. *)
FinishQueryLeaks(c) ==
    Return(c, "ok") /\ UNCHANGED <<up, reqs, sent, io_failed, io_reported>>

(* Mutant of FinishQuery: query_with closes the Statement's handle too. *)
FinishQueryClosesAll(c) ==
    IF c.handle > 0
    THEN CloseQueryHandle(c, c.handle)
    ELSE Return(c, "ok") /\ UNCHANGED <<up, reqs, sent, io_failed, io_reported>>

(* query closes the handle it opened; query_with leaves the Statement's.   *)
FinishQuery(c) ==
    IF c.op = "query" /\ c.handle > 0
    THEN CloseQueryHandle(c, c.handle)
    ELSE Return(c, "ok") /\ UNCHANGED <<up, reqs, sent, io_failed, io_reported>>

(* Handles that are open for the call alone, when it ends in an error. *)
Orphans == IF call.op = "query" /\ call.handle > 0 THEN {call.handle} ELSE {}

(* What a call does with what its parser made of the bytes it read, one of *)
(* `results'.                                                              *)
PrepareAndExecuteRead(results) ==
    /\ \E res \in results :
          \/ /\ ~res.ok
             /\ CallFails
             /\ UNCHANGED abandoned
          \/ /\ res.ok
             /\ cas_info' = res.cas
             /\ LET c == [call EXCEPT !.handle = res.handle, !.sel = res.sel,
                                      !.total = res.total, !.rows = res.rows]
                IN IF call.op = "query" /\ NeedsMore(c)
                      THEN /\ FetchNext(c)
                           /\ abandoned' = abandoned \cup
                                (IF up \/ res.handle = 0 THEN {} ELSE {res.handle})
                      ELSE /\ IF call.op = "query" THEN FinishQuery(c)
                              ELSE IF res.handle > 0 THEN CloseQueryHandle(c, res.handle)
                              ELSE /\ Return(c, "ok")
                                   /\ UNCHANGED <<up, reqs, sent, io_failed, io_reported>>
                           /\ UNCHANGED abandoned
    /\ UNCHANGED <<conn, auto_commit, stmts, server, calls, done>>

RecvPrepareAndExecute ==
    /\ RecvFramed("PREPARE_AND_EXECUTE")
    /\ PrepareAndExecuteRead(ParsePrepareAndExecute(Head(resps)))

ExecuteRead(results) ==
    /\ \E res \in results :
          \/ ~res.ok /\ CallFails
          \/ /\ res.ok
             /\ cas_info' = res.cas
             /\ LET c == [call EXCEPT !.total = res.total, !.rows = res.rows]
                IN IF call.op = "stmt_query" /\ NeedsMore(c) THEN FetchNext(c)
                   ELSE /\ Return(c, "ok")
                        /\ UNCHANGED <<up, reqs, sent, io_failed, io_reported>>
    /\ UNCHANGED <<conn, auto_commit, stmts, server, calls, done, abandoned>>

RecvExecute == RecvFramed("EXECUTE") /\ ExecuteRead(ParseExecute(Head(resps)))

(* Mutant of FetchRead: fetched_count is not advanced. *)
FetchReadStuck(results) ==
    /\ \E res \in results :
          \/ /\ ~res.ok
             /\ CallFails
             /\ abandoned' = abandoned \cup Orphans
          \/ /\ res.ok
             /\ cas_info' = res.cas
             /\ IF res.rows # <<>> /\ NeedsMore(call)
                   THEN /\ FetchNext(call)
                        /\ abandoned' = abandoned \cup (IF up THEN {} ELSE Orphans)
                   ELSE /\ FinishQuery(call)
                        /\ UNCHANGED abandoned
    /\ UNCHANGED <<conn, auto_commit, stmts, server, calls, done>>

FetchRead(results) ==
    /\ \E res \in results :
          \/ /\ ~res.ok
             /\ CallFails
             /\ abandoned' = abandoned \cup Orphans
          \/ /\ res.ok
             /\ cas_info' = res.cas
             /\ LET c == [call EXCEPT !.rows = @ \o res.rows]
                IN IF res.rows # <<>> /\ NeedsMore(c)
                      THEN /\ FetchNext(c)
                           /\ abandoned' = abandoned \cup (IF up THEN {} ELSE Orphans)
                      ELSE /\ FinishQuery(c)
                           /\ UNCHANGED abandoned
    /\ UNCHANGED <<conn, auto_commit, stmts, server, calls, done>>

RecvFetch == RecvFramed("FETCH") /\ FetchRead(ParseFetch(Head(resps)))

PrepareRead(results) ==
    /\ \E res \in results :
          \/ ~res.ok /\ CallFails /\ UNCHANGED stmts
          \/ /\ res.ok
             /\ cas_info' = res.cas
             /\ stmts' = stmts \cup {[handle |-> res.handle, sel |-> res.sel]}
             /\ Return(call, "ok")
             /\ UNCHANGED <<up, reqs, sent, io_failed, io_reported>>
    /\ UNCHANGED <<conn, auto_commit, server, calls, done, abandoned>>

RecvPrepare == RecvFramed("PREPARE") /\ PrepareRead(ParsePrepare(Head(resps)))

(* Mutant of SimpleRead: set_cas_info is missing. *)
SimpleReadForgets(results) ==
    /\ \E res \in results :
          \/ ~res.ok /\ CallFails
          \/ /\ res.ok
             /\ UNCHANGED cas_info
             /\ Return(call, "ok")
             /\ UNCHANGED <<up, reqs, sent, io_failed, io_reported>>
    /\ UNCHANGED <<conn, auto_commit, stmts, server, calls, done, abandoned>>

(* end_tran and ping *)
SimpleRead(results) ==
    /\ \E res \in results :
          \/ ~res.ok /\ CallFails
          \/ /\ res.ok
             /\ cas_info' = res.cas
             /\ Return(call, "ok")
             /\ UNCHANGED <<up, reqs, sent, io_failed, io_reported>>
    /\ UNCHANGED <<conn, auto_commit, stmts, server, calls, done, abandoned>>

RecvEndTran == RecvFramed("END_TRAN") /\ SimpleRead(ParseSimple(Head(resps)))

RecvVersion == RecvFramed("GET_DB_VERSION") /\ SimpleRead(ParseGetDbVersion(Head(resps)))

(* close_query_handle reads one frame and forgets it, CAS_INFO and all. *)
CloseHandleRead ==
    /\ Return(call, "ok")
    /\ UNCHANGED <<conn, cas_info, auto_commit, stmts, up, reqs, server, calls, sent, done,
                   io_failed, io_reported, abandoned>>

RecvCloseHandle == RecvFramed("CLOSE_REQ_HANDLE") /\ CloseHandleRead

(* Mutant of RecvFails: the call neither goes on nor returns. *)
RecvFailsHalfway ==
    /\ call.wait # "none"
    /\ resps = <<>>
    /\ ~up \/ Timeouts
    /\ io_failed' = TRUE
    /\ IF call.wait = "CLOSE_REQ_HANDLE"
          THEN Return(call, "ok") /\ UNCHANGED <<io_reported, abandoned>>
          ELSE /\ call' = [call EXCEPT !.wait = "none"]
               /\ UNCHANGED last
               /\ io_reported' = TRUE
               /\ abandoned' = abandoned \cup Orphans
    /\ UNCHANGED <<conn, cas_info, auto_commit, stmts, stream, server, calls, sent, done>>

(* A read fails.  The client keeps its connection; only the cleanup hides  *)
(* the error.                                                              *)
ReadFails ==
    /\ io_failed' = TRUE
    /\ IF call.wait = "CLOSE_REQ_HANDLE"
          THEN Return(call, "ok") /\ UNCHANGED <<io_reported, abandoned>>
          ELSE /\ Return(call, "io_error")
               /\ io_reported' = TRUE
               /\ abandoned' = abandoned \cup Orphans
    /\ UNCHANGED <<conn, cas_info, auto_commit, stmts, stream, server, calls, sent, done>>

(* The stream is broken, or the read timed out before a frame came. *)
RecvFails ==
    /\ call.wait # "none"
    /\ resps = <<>>
    /\ ~up \/ Timeouts
    /\ ReadFails

-----------------------------------------------------------------------------
(* The server, one request at a time *)

(* A fresh handle is named by the request that opened it. *)
OpenHandle(h, result) ==
    [x \in DOMAIN handles \cup {h} |-> IF x = h THEN result ELSE handles[x]]

(* The work of a statement is committed with it, or joins the transaction. *)
AfterWork(req) == IF req.auto THEN "none" ELSE "open"

Serves(fc) ==
    /\ reqs # <<>>
    /\ Head(reqs).fc = fc
    /\ reqs' = Tail(reqs)

(* A frame sent to a client that has shut the stream goes nowhere. *)
Answer(resp) ==
    /\ resps' = IF up THEN Append(resps, resp) ELSE resps
    /\ done' = IF resp.code >= 0 THEN done \cup {[no |-> resp.no, fc |-> resp.fc]} ELSE done

Unaffected ==
    UNCHANGED <<client, up, calls, sent, last, io_failed, io_reported, abandoned>>

(* Any request may be refused with an error code, and then does nothing. *)
ServerRefuses ==
    /\ ServerErrors
    /\ reqs # <<>>
    /\ Head(reqs).fc \in FunctionCodes \ {"CON_CLOSE", "CLOSE_REQ_HANDLE"}
    /\ reqs' = Tail(reqs)
    /\ Answer(Response(Head(reqs), -1))
    /\ UNCHANGED server
    /\ Unaffected

(* A SELECT's answer carries the first rows.  For other statements there   *)
(* are none, and the server need not keep a handle.                        *)
ServePrepareAndExecute ==
    /\ Serves("PREPARE_AND_EXECUTE")
    /\ LET req == Head(reqs)
       IN /\ \/ \E total \in 0 .. MaxRows :
                \E n \in {0, SmallerOf(total, FetchSize)} :
                   /\ handles' = OpenHandle(req.no, [sel |-> TRUE, total |-> total])
                   /\ Answer([Response(req, req.no) EXCEPT
                                !.sel = TRUE, !.total = total, !.rows = RowsFrom(1, n)])
             \/ \E h \in {0, req.no} :
                   /\ handles' = IF h = 0 THEN handles
                                 ELSE OpenHandle(h, [sel |-> FALSE, total |-> 0])
                   /\ Answer(Response(req, h))
          /\ tran' = AfterWork(req)
    /\ Unaffected

ServePrepare ==
    /\ Serves("PREPARE")
    /\ LET req == Head(reqs)
       IN \E sel \in BOOLEAN : \E total \in IF sel THEN 0 .. MaxRows ELSE {0} :
             /\ handles' = OpenHandle(req.no, [sel |-> sel, total |-> total])
             /\ Answer([Response(req, req.no) EXCEPT !.sel = sel])
    /\ UNCHANGED tran
    /\ Unaffected

ServeExecute ==
    /\ Serves("EXECUTE")
    /\ LET req == Head(reqs)
       IN IF req.handle \in DOMAIN handles
             THEN LET total == handles[req.handle].total
                  IN /\ \E n \in {0, SmallerOf(total, FetchSize)} :
                           Answer([Response(req, total) EXCEPT !.rows = RowsFrom(1, n)])
                     /\ tran' = AfterWork(req)
             ELSE Answer(Response(req, -1)) /\ UNCHANGED tran
    /\ UNCHANGED handles
    /\ Unaffected

(* Rows from the start position on; a faulty server may send none. *)
ServeFetch ==
    /\ Serves("FETCH")
    /\ LET req == Head(reqs)
       IN IF req.handle \in DOMAIN handles
             THEN LET rest == handles[req.handle].total - req.start + 1
                      n    == IF rest < 0 THEN 0 ELSE SmallerOf(rest, FetchSize)
                  IN \E k \in IF ServerErrors THEN {0, n} ELSE {n} :
                        Answer([Response(req, 0) EXCEPT !.rows = RowsFrom(req.start, k)])
             ELSE Answer(Response(req, -1))
    /\ UNCHANGED server
    /\ Unaffected

ServeCloseHandle ==
    /\ Serves("CLOSE_REQ_HANDLE")
    /\ LET req == Head(reqs)
       IN /\ handles' = [h \in DOMAIN handles \ {req.handle} |-> handles[h]]
          /\ Answer(Response(req, IF req.handle \in DOMAIN handles THEN 0 ELSE -1))
    /\ UNCHANGED tran
    /\ Unaffected

ServeEndTran ==
    /\ Serves("END_TRAN")
    /\ tran' = "none"
    /\ Answer(Response(Head(reqs), 0))
    /\ UNCHANGED handles
    /\ Unaffected

ServeVersion ==
    /\ Serves("GET_DB_VERSION")
    /\ Answer(Response(Head(reqs), 0))
    /\ UNCHANGED server
    /\ Unaffected

(* CON_CLOSE, or the end of the stream: the session's handles are freed    *)
(* and its transaction is rolled back.                                     *)
ServerHangsUp ==
    /\ IF reqs # <<>> THEN Head(reqs).fc = "CON_CLOSE" ELSE ~up
    /\ up \/ reqs # <<>> \/ DOMAIN handles # {} \/ tran # "none"
    /\ up' = FALSE
    /\ reqs' = <<>>
    /\ handles' = <<>>
    /\ tran' = "none"
    /\ UNCHANGED <<client, resps, history>>

(* The server or the network breaks the connection; what was not read by   *)
(* the server is lost, what it has answered may still be read.             *)
LinkBreaks ==
    /\ up
    /\ up' = FALSE
    /\ reqs' = <<>>
    /\ \E k \in 0 .. Len(resps) : resps' = SubSeq(resps, 1, k)
    /\ UNCHANGED <<client, server, history>>

-----------------------------------------------------------------------------

ClientStep ==
    \/ RecvPrepareAndExecute
    \/ RecvExecute
    \/ RecvFetch
    \/ RecvPrepare
    \/ RecvEndTran
    \/ RecvVersion
    \/ RecvCloseHandle

ServerStep ==
    \/ ServePrepareAndExecute
    \/ ServePrepare
    \/ ServeExecute
    \/ ServeFetch
    \/ ServeCloseHandle
    \/ ServeEndTran
    \/ ServeVersion

Next ==
    \/ StartExecute
    \/ StartQuery
    \/ StartPrepare
    \/ StartPing
    \/ \E t \in {"commit", "rollback"} : StartEndTran(t)
    \/ \E s \in stmts : \/ StartStmtExecute(s)
                        \/ StartStmtQuery(s)
                        \/ StmtClose(s)
                        \/ StmtDrop(s)
    \/ SetAutoCommit
    \/ Close
    \/ ClientStep
    \/ RecvFails
    \/ ServerStep
    \/ ServerRefuses
    \/ ServerHangsUp
    \/ LinkBreaks

Spec == Init /\ [][Next]_vars

(* The server answers or hangs up; the client reads what is there.         *)
Fairness ==
    /\ WF_vars(ClientStep \/ (~up /\ RecvFails))
    /\ WF_vars(ServerStep \/ ServerHangsUp)

FairSpec == Spec /\ Fairness

-----------------------------------------------------------------------------
(* Properties *)

(* While no read or write has failed, client and server agree on which     *)
(* frame answers which request: at rest nothing is left in the stream, and *)
(* a call waits for exactly one frame, that of its newest request.         *)
InStep ==
    ~io_failed /\ up =>
        /\ Len(reqs) + Len(resps) = IF call.wait = "none" THEN 0 ELSE 1
        /\ \A i \in DOMAIN reqs : reqs[i].no = sent /\ reqs[i].fc = call.wait
        /\ \A i \in DOMAIN resps : resps[i].no = sent /\ resps[i].fc = call.wait

CarriedOut(no) == \E d \in done : d.no = no

(* A call returns Ok only if the server carried out its request, as long   *)
(* as no read or write has failed on the connection.                       *)
OkMeansDone ==
    last.status = "ok" /\ last.op # "stmt_close" /\ ~io_failed => CarriedOut(last.no)

(* All rows are returned, once each and in order, by a server that sends   *)
(* what it has: the batches of PREPARE_AND_EXECUTE or EXECUTE and of the   *)
(* FETCHes fit together at every size of result.                           *)
RowsComplete ==
    last.op \in {"query", "stmt_query"} /\ last.status = "ok" /\ ~io_failed =>
        last.rows = RowsFrom(1, last.total)

(* Between calls the server holds the handles of the live Statements and   *)
(* those of the two known leaks: a Statement dropped without close, and a  *)
(* query whose FETCH failed.                                               *)
HandlesAccounted ==
    call.op = "none" /\ conn /\ up /\ ~io_failed =>
        DOMAIN handles = {s.handle : s \in stmts} \cup abandoned

(* commit returns Ok only if the transaction was committed, on a           *)
(* connection on which no call has reported an I/O error.                  *)
CommitMeansCommitted ==
    last.op = "commit" /\ last.status = "ok" /\ ~io_reported => CarriedOut(last.no)

(* A request carries the CAS_INFO of the newest answer, in FETCH rounds and *)
(* cleanups too, with two exceptions: close_query_handle drops that of its *)
(* own answer, and an error's is dropped with it.                          *)
CasInfoEchoed ==
    ~io_failed => \A i \in DOMAIN reqs : \A d \in done :
        d.no < reqs[i].no /\ d.fc # "CLOSE_REQ_HANDLE" => d.no <= reqs[i].cas

(* No Statement's handle is closed under it.                               *)
StatementsUsable ==
    conn /\ up /\ ~io_failed => \A s \in stmts : s.handle \in DOMAIN handles

(* Every call returns: FETCH rounds make progress, and the bound on the    *)
(* requests is never what stops them.                                      *)
CallsReturn == call.op # "none" ~> call.op = "none"

(* Once the client is closed or dropped, the server frees the session's    *)
(* handles and ends its transaction.                                       *)
SessionEnds == ~conn ~> (DOMAIN handles = {} /\ tran = "none")
=============================================================================
