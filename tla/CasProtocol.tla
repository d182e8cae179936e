---------------------------- MODULE CasProtocol ----------------------------
(***************************************************************************)
(* The frames of the CAS protocol as cubrid-protocol builds and parses     *)
(* them, with the payload abstracted to what a session's correctness turns *)
(* on: the function code, CAS_INFO, the response code, the statement       *)
(* handle, row counts and positions.                                       *)
(*                                                                         *)
(* A response frame does not say which request it answers: `no', the       *)
(* number of the request on its connection, is there for the properties    *)
(* only, and no parser looks at it.                                        *)
(***************************************************************************)
EXTENDS Integers, Sequences

FunctionCodes ==
    {"PREPARE_AND_EXECUTE", "PREPARE", "EXECUTE", "FETCH", "CLOSE_REQ_HANDLE", "END_TRAN",
     "GET_DB_VERSION", "CON_CLOSE"}

(* "CUT" is the beginning of a request whose write was given up. *)
Requests ==
    [fc : FunctionCodes \cup {"CUT"}, no : Nat \ {0}, cas : Nat, handle : Nat, start : Nat,
     auto : BOOLEAN, tran : {"none", "commit", "rollback"}]

Responses ==
    [fc : FunctionCodes, no : Nat \ {0}, cas : Nat, code : Int, sel : BOOLEAN, total : Nat,
     rows : Seq(Nat)]

-----------------------------------------------------------------------------
(* Requests *)

(* PacketWriter::build_request: the header carries the given CAS_INFO. *)
BuildRequest(fc, no, cas) ==
    [fc |-> fc, no |-> no, cas |-> cas, handle |-> 0, start |-> 0,
     auto |-> FALSE, tran |-> "none"]

WritePrepareAndExecute(no, auto, cas) ==
    [BuildRequest("PREPARE_AND_EXECUTE", no, cas) EXCEPT !.auto = auto]

WritePrepare(no, auto, cas) ==
    [BuildRequest("PREPARE", no, cas) EXCEPT !.auto = auto]

WriteExecute(no, handle, auto, cas) ==
    [BuildRequest("EXECUTE", no, cas) EXCEPT !.handle = handle, !.auto = auto]

(* Mutant of WriteFetch: the position of the last row read, not of the next. *)
WriteFetchAgain(no, handle, current_tuple_count, cas) ==
    [BuildRequest("FETCH", no, cas) EXCEPT
        !.handle = handle, !.start = current_tuple_count]

(* Rows are numbered from 1: after n rows the next one is n + 1. *)
WriteFetch(no, handle, current_tuple_count, cas) ==
    [BuildRequest("FETCH", no, cas) EXCEPT
        !.handle = handle, !.start = current_tuple_count + 1]

WriteCloseReqHandle(no, handle, cas) ==
    [BuildRequest("CLOSE_REQ_HANDLE", no, cas) EXCEPT !.handle = handle]

WriteEndTran(no, tran, cas) ==
    [BuildRequest("END_TRAN", no, cas) EXCEPT !.tran = tran]

WriteGetDbVersion(no, auto, cas) ==
    [BuildRequest("GET_DB_VERSION", no, cas) EXCEPT !.auto = auto]

WriteConClose(no, cas) == BuildRequest("CON_CLOSE", no, cas)

-----------------------------------------------------------------------------
(* Responses: `code' is negative for an error; else it is the handle for   *)
(* PREPARE and PREPARE_AND_EXECUTE, the row count for EXECUTE.             *)

Response(req, code) ==
    [fc |-> req.fc, no |-> req.no, cas |-> req.no, code |-> code,
     sel |-> FALSE, total |-> 0, rows |-> <<>>]

(* What a parser returns: an error, or what it read. *)
Failed == [ok |-> FALSE, cas |-> 0, handle |-> 0, sel |-> FALSE, total |-> 0, rows |-> <<>>]

Read(r) ==
    [ok |-> TRUE, cas |-> r.cas, handle |-> r.code, sel |-> r.sel,
     total |-> r.total, rows |-> r.rows]

(* A frame of another kind: the first four bytes are its code whatever the *)
(* kind, the rest is read as something it is not.                          *)
Misread(r) == [Read(r) EXCEPT !.sel = FALSE, !.total = 0, !.rows = <<>>]

(* Answers that end after the code: every parser that reads on rejects them.*)
Short(r) == r.fc \in {"CLOSE_REQ_HANDLE", "END_TRAN"}

(* The set of results a parser of fc's answers may produce from frame r:   *)
(* the bytes of a long frame of another kind may or may not line up.       *)
ParseAs(fc, r) ==
    IF r.code < 0 \/ (Short(r) /\ r.fc # fc) THEN {Failed}
    ELSE IF r.fc = fc THEN {Read(r)} ELSE {Failed, Misread(r)}

ParsePrepareAndExecute(r) == ParseAs("PREPARE_AND_EXECUTE", r)

(* The answer to PREPARE_AND_EXECUTE begins like the one to PREPARE. *)
ParsePrepare(r) ==
    IF r.fc = "PREPARE_AND_EXECUTE" /\ r.code >= 0
    THEN {Read(r)} ELSE ParseAs("PREPARE", r)

(* The code is the total row count. *)
ParseExecute(r) ==
    {IF res.ok THEN [res EXCEPT !.total = r.code, !.handle = 0] ELSE res :
        res \in ParseAs("EXECUTE", r)}

ParseFetch(r) == ParseAs("FETCH", r)

(* Any frame without an error code will do: what follows is the version. *)
ParseGetDbVersion(r) ==
    IF r.code >= 0 /\ Short(r) THEN {Read(r)} ELSE ParseAs("GET_DB_VERSION", r)

(* Mutant of ParseSimple: the response code is not looked at. *)
ParseSimpleBlind(r) == {Read(r)}

(* parse_simple_response looks at the code only. *)
ParseSimple(r) == IF r.code < 0 THEN {Failed} ELSE {Read(r)}
=============================================================================
