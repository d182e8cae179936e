------------------------ MODULE ClientSessionProofs ------------------------
(***************************************************************************)
(* Proofs about ClientSession, for any number of calls, requests and rows, *)
(* any fetch size, with or without late answers, error answers and         *)
(* Statements dropped without close.                                       *)
(***************************************************************************)
EXTENDS ClientSession, SequenceLemmas

-----------------------------------------------------------------------------
(* The inductive invariant *)

(* Requests a call starts with. *)
FirstCodes == FunctionCodes \ {"CON_CLOSE", "FETCH", "CLOSE_REQ_HANDLE"}

(* What every frame on its way to the client satisfies; and a closed client *)
(* has no stream and no call.                                              *)
FramesSound ==
    /\ \A r \in Range(resps) :
          /\ r.cas = r.no
          /\ r.code >= 0 => [no |-> r.no, fc |-> r.fc] \in done
          /\ r.fc = "PREPARE" => r.code # 0
    /\ ~conn => ~up /\ call.op = "none"

(* InStep, with what is left of it once the stream is broken: an answer    *)
(* that can still be read is that of the call's newest request, and only   *)
(* CON_CLOSE can be waiting for the server.                                *)
StreamInStep ==
    ~io_failed =>
        /\ Len(resps) <= 1
        /\ \A r \in Range(resps) : r.no = sent /\ r.fc = call.wait
        /\ up => /\ Len(reqs) + Len(resps) = IF call.wait = "none" THEN 0 ELSE 1
                 /\ \A r \in Range(reqs) : r.no = sent /\ r.fc = call.wait
        /\ ~up => \A r \in Range(reqs) : r.fc = "CON_CLOSE"

(* A call waits for its first answer, or that one was a success. *)
CallInStep ==
    ~io_failed =>
        /\ call.wait \in FirstCodes => call.no = sent
        /\ call.wait \in {"FETCH", "CLOSE_REQ_HANDLE"} /\ call.op # "stmt_close"
              => CarriedOut(call.no)

(* The client knows the CAS_INFO of every success but the one it has yet to *)
(* read.                                                                   *)
CasInfoKnown ==
    ~io_failed /\ up =>
        \A d \in done : d.fc # "CLOSE_REQ_HANDLE" =>
            \/ d.no <= cas_info
            \/ \E r \in Range(resps) : r.no = d.no /\ r.fc = d.fc /\ r.code >= 0

(* CasInfoEchoed, about the set of requests. *)
CasInfoSent ==
    ~io_failed => \A r \in Range(reqs) : \A d \in done :
        d.no < r.no /\ d.fc # "CLOSE_REQ_HANDLE" => d.no <= r.cas

(* Handles that somebody knows after the call under way. *)
Known == {s.handle : s \in stmts} \cup abandoned

(* The handle that is open for the call under way alone. *)
Passing ==
    IF call.wait = "FETCH" /\ call.op = "query" THEN {call.handle} \ {0}
    ELSE IF call.wait = "CLOSE_REQ_HANDLE" THEN {r.handle : r \in Range(reqs)}
    ELSE IF call.wait \in {"PREPARE", "PREPARE_AND_EXECUTE"}
         THEN {r.code : r \in Range(resps)} \cap (Nat \ {0})
    ELSE {}

Live == conn /\ up /\ ~io_failed

(* HandlesAccounted in the middle of a call too; no two Statements share a *)
(* handle, and a request that may open one finds its number unused.        *)
HandlesOwned ==
    Live =>
        /\ DOMAIN handles = Known \cup Passing
        /\ Known \cap Passing = {}
        /\ \A s, t \in stmts : s.handle = t.handle => s = t
        /\ \A s \in stmts : s.handle \notin abandoned
        /\ \A r \in Range(reqs) : r.no \notin DOMAIN handles

(* All of the invariant but the handles. *)
SessionInv ==
    /\ TypeOK
    /\ FramesSound
    /\ StreamInStep
    /\ CallInStep
    /\ OkMeansDone
    /\ CasInfoKnown
    /\ CasInfoSent

(* The inductive invariant. *)
IInv == SessionInv /\ HandlesOwned

(* What a step keeps: the first part for itself, the handles with its help. *)
Kept == SessionInv' /\ (HandlesOwned => HandlesOwned')

-----------------------------------------------------------------------------
(* Lemmas about the frames *)

(* A result of a parser is typed, and a success only of a frame without an *)
(* error code.                                                             *)
Reads(res, r) ==
    /\ res.ok \in BOOLEAN
    /\ res.ok => /\ r.code \in Nat
                 /\ res.cas = r.cas /\ res.handle \in Nat
                 /\ res.sel \in BOOLEAN /\ res.total \in Nat /\ res.rows \in Seq(Nat)

(* A frame taken for what it is.                                           *)
LEMMA ReadSound ==
    ASSUME NEW r \in Responses
    PROVE  /\ Failed.ok = FALSE /\ Read(r).ok = TRUE
           /\ r.code \in Int /\ (r.code >= 0 => r.code \in Nat)
           /\ Read(r).cas = r.cas /\ Read(r).handle = r.code /\ Read(r).sel = r.sel
           /\ Read(r).total = r.total /\ Read(r).rows = r.rows
           /\ Reads(Failed, r)
           /\ r.code >= 0 => Reads(Read(r), r)
<1>1. r.code \in Int /\ r.sel \in BOOLEAN /\ r.total \in Nat /\ r.rows \in Seq(Nat)
  BY DEF Responses
<1>2. /\ Read(r).ok = TRUE /\ Read(r).cas = r.cas /\ Read(r).handle = r.code
      /\ Read(r).sel = r.sel /\ Read(r).total = r.total /\ Read(r).rows = r.rows
      /\ Failed.ok = FALSE
  BY DEF Read, Failed
<1>3. Reads(Failed, r)
  BY <1>2 DEF Reads
<1>4. r.code >= 0 => r.code \in Nat
  BY <1>1
<1>5. r.code >= 0 => Reads(Read(r), r)
  <2>1. SUFFICES ASSUME r.code \in Nat PROVE Reads(Read(r), r)
    BY <1>4
  <2>2. /\ Read(r).ok = TRUE /\ Read(r).cas = r.cas /\ Read(r).handle \in Nat
        /\ Read(r).sel \in BOOLEAN /\ Read(r).total \in Nat /\ Read(r).rows \in Seq(Nat)
    BY <1>1, <1>2, <2>1
  <2>. QED  BY <2>1, <2>2, Zenon DEF Reads
<1>. QED  BY <1>1, <1>2, <1>3, <1>4, <1>5

(* What a parser returns of a frame is typed; it succeeds only on a frame  *)
(* without an error code, and always on such a frame of its own kind.      *)
LEMMA ParseAsSound ==
    ASSUME NEW fc, NEW r \in Responses, NEW res \in ParseAs(fc, r)
    PROVE  /\ res.ok \in BOOLEAN
           /\ res.ok => /\ r.code \in Nat
                        /\ res.cas = r.cas /\ res.handle = r.code
                        /\ res.sel \in BOOLEAN /\ res.total \in Nat /\ res.rows \in Seq(Nat)
           /\ r.fc = fc => res = IF r.code < 0 THEN Failed ELSE Read(r)
<1>1. CASE res = Failed
  BY <1>1 DEF Failed, ParseAs, Responses, Read, Misread
<1>2. CASE res = Read(r) /\ r.code >= 0
  BY <1>2 DEF Read, Responses
<1>3. CASE res = Misread(r) /\ r.code >= 0 /\ r.fc # fc
  BY <1>3, EmptySeq DEF Misread, Read, Responses
<1>. QED  BY <1>1, <1>2, <1>3 DEF ParseAs, Responses

LEMMA ParsePrepareAndExecuteSound ==
    ASSUME NEW r \in Responses, NEW res \in ParsePrepareAndExecute(r)
    PROVE  /\ Reads(res, r) /\ (res.ok => res.handle = r.code)
           /\ r.fc = "PREPARE_AND_EXECUTE" => res = IF r.code < 0 THEN Failed ELSE Read(r)
  BY ParseAsSound DEF ParsePrepareAndExecute, Reads

LEMMA ParseFetchSound ==
    ASSUME NEW r \in Responses, NEW res \in ParseFetch(r)
    PROVE  /\ Reads(res, r)
           /\ r.fc = "FETCH" => res = IF r.code < 0 THEN Failed ELSE Read(r)
  BY ParseAsSound DEF ParseFetch, Reads

LEMMA ParsePrepareSound ==
    ASSUME NEW r \in Responses, NEW res \in ParsePrepare(r)
    PROVE  /\ Reads(res, r) /\ (res.ok => res.handle = r.code)
           /\ r.fc = "PREPARE" => res = IF r.code < 0 THEN Failed ELSE Read(r)
<1>1. CASE r.fc = "PREPARE_AND_EXECUTE" /\ r.code >= 0
  <2>1. res = Read(r)
    BY <1>1 DEF ParsePrepare
  <2>. QED  BY <1>1, <2>1, ReadSound
<1>2. CASE ~(r.fc = "PREPARE_AND_EXECUTE" /\ r.code >= 0)
  BY <1>2, ParseAsSound DEF ParsePrepare, Reads
<1>. QED  BY <1>1, <1>2

LEMMA ParseExecuteSound ==
    ASSUME NEW r \in Responses, NEW res \in ParseExecute(r)
    PROVE  /\ Reads(res, r) /\ (res.ok => res.total = r.code)
           /\ r.fc = "EXECUTE" => /\ res.ok <=> r.code >= 0
                                  /\ res.ok => res.rows = r.rows
<1>1. PICK raw \in ParseAs("EXECUTE", r) :
         res = IF raw.ok THEN [raw EXCEPT !.total = r.code, !.handle = 0] ELSE raw
  BY DEF ParseExecute
<1>2. raw = Failed \/ raw = Read(r) \/ raw = Misread(r)
  BY DEF ParseAs
<1>3. CASE ~raw.ok
  <2>1. res = raw
    BY <1>1, <1>3
  <2>. QED  BY <1>3, <2>1, ParseAsSound DEF Reads, Failed, Read, Responses
<1>4. CASE raw.ok
  <2>1. res = [raw EXCEPT !.total = r.code, !.handle = 0]
    BY <1>1, <1>4
  <2>2. res.ok = raw.ok /\ res.cas = raw.cas /\ res.sel = raw.sel /\ res.rows = raw.rows
        /\ res.total = r.code /\ res.handle = 0
    BY <1>2, <2>1 DEF Failed, Read, Misread
  <2>3. Reads(raw, r) /\ (r.fc = "EXECUTE" => raw = IF r.code < 0 THEN Failed ELSE Read(r))
    BY ParseAsSound DEF Reads
  <2>4. Reads(res, r)
    BY <1>4, <2>2, <2>3 DEF Reads
  <2>5. ASSUME r.fc = "EXECUTE" PROVE r.code >= 0 /\ res.rows = r.rows
    <3>1. ~(r.code < 0)
      BY <1>4, <2>3, <2>5, ReadSound
    <3>2. raw.rows = r.rows
      BY <2>3, <2>5, <3>1, ReadSound
    <3>3. r.code \in Int
      BY DEF Responses
    <3>. QED  BY <2>2, <3>1, <3>2, <3>3
  <2>. QED  BY <1>4, <2>2, <2>4, <2>5
<1>. QED  BY <1>3, <1>4

LEMMA ParseVersionSound ==
    ASSUME NEW r \in Responses, NEW res \in ParseGetDbVersion(r)
    PROVE  /\ Reads(res, r)
           /\ r.fc = "GET_DB_VERSION" => res = IF r.code < 0 THEN Failed ELSE Read(r)
<1>1. CASE r.code >= 0 /\ Short(r)
  <2>1. res = Read(r) /\ r.fc # "GET_DB_VERSION"
    BY <1>1 DEF ParseGetDbVersion, Short
  <2>. QED  BY <1>1, <2>1, ReadSound
<1>2. CASE ~(r.code >= 0 /\ Short(r))
  BY <1>2, ParseAsSound DEF ParseGetDbVersion, Reads
<1>. QED  BY <1>1, <1>2

LEMMA ParseSimpleSound ==
    ASSUME NEW r \in Responses, NEW res \in ParseSimple(r)
    PROVE  Reads(res, r) /\ res = IF r.code < 0 THEN Failed ELSE Read(r)
<1>1. res = IF r.code < 0 THEN Failed ELSE Read(r)
  BY DEF ParseSimple
<1>2. r.code < 0 \/ r.code >= 0
  BY DEF Responses
<1>. QED  BY <1>1, <1>2, ReadSound

-----------------------------------------------------------------------------
(* Lemmas about the stream *)

(* Numbers and records of a state.                                         *)
LEMMA Typing ==
    ASSUME SessionInv
    PROVE  /\ sent \in Nat /\ cas_info \in Nat /\ cas_info <= sent /\ MaxSent \in Nat
           /\ reqs \in Seq(Requests) /\ resps \in Seq(Responses)
           /\ Len(reqs) \in Nat /\ Len(resps) \in Nat
           /\ Range(reqs) \subseteq Requests /\ Range(resps) \subseteq Responses
           /\ \A r \in Range(reqs) : r.no \in Nat /\ r.no <= sent /\ r.cas \in Nat
           /\ \A r \in Range(resps) : r.no \in Nat \ {0} /\ r.no <= sent /\ r.code \in Int
           /\ \A d \in done : d.no \in Nat /\ d.no <= sent
           /\ call \in Calls /\ last \in Results
<1>1. /\ sent \in Nat /\ cas_info \in Nat /\ cas_info <= sent /\ MaxSent \in Nat
      /\ reqs \in Seq(Requests) /\ resps \in Seq(Responses)
      /\ call \in Calls /\ last \in Results
  BY BoundsAssumption DEF SessionInv, TypeOK
<1>2. /\ Len(reqs) \in Nat /\ Len(resps) \in Nat
      /\ Range(reqs) \subseteq Requests /\ Range(resps) \subseteq Responses
  BY <1>1, QueueFront
<1>3. \A r \in Range(reqs) : r.no \in Nat /\ r.no <= sent /\ r.cas \in Nat
  BY <1>2 DEF SessionInv, TypeOK, Requests
<1>4. \A r \in Range(resps) : r.no \in Nat \ {0} /\ r.no <= sent /\ r.code \in Int
  BY <1>2 DEF SessionInv, TypeOK, Responses
<1>5. \A d \in done : d.no \in Nat /\ d.no <= sent
  BY DEF SessionInv, TypeOK
<1>. QED  BY <1>1, <1>2, <1>3, <1>4, <1>5

(* At rest, and as long as nothing failed, the stream is empty, and the    *)
(* client knows the newest CAS_INFO.                                       *)
LEMMA AtRest ==
    ASSUME SessionInv, call.op = "none"
    PROVE  /\ call.wait = "none"
           /\ ~io_failed => resps = <<>>
           /\ ~io_failed /\ up => reqs = <<>>
           /\ ~io_failed /\ up => \A d \in done : d.fc # "CLOSE_REQ_HANDLE" => d.no <= cas_info
<1>1. call.wait = "none"
  BY DEF SessionInv, TypeOK
<1>2. ASSUME ~io_failed PROVE resps = <<>>
  <2>1. \A r \in Range(resps) : r.fc = "none"
    BY <1>1, <1>2 DEF SessionInv, StreamInStep
  <2>2. "none" \notin FunctionCodes
    BY DEF FunctionCodes
  <2>3. Range(resps) = {}
    BY <2>1, <2>2, Typing DEF Responses
  <2>. QED  BY <2>3, Typing, QueuePop
<1>3. ASSUME ~io_failed, up PROVE reqs = <<>>
  <2>1. Len(reqs) + Len(resps) = 0
    BY <1>1, <1>3 DEF SessionInv, StreamInStep
  <2>2. Len(reqs) = 0
    BY <2>1, Typing
  <2>. QED  BY <2>2, Typing
<1>4. ASSUME ~io_failed, up
      PROVE  \A d \in done : d.fc # "CLOSE_REQ_HANDLE" => d.no <= cas_info
  BY <1>2, <1>4, QueueEmpty DEF SessionInv, CasInfoKnown
<1>. QED  BY <1>1, <1>2, <1>3, <1>4

(* The next frame.                                                         *)
LEMMA Reading ==
    ASSUME SessionInv, call.wait # "none", resps # <<>>, resps' = Tail(resps)
    PROVE  LET r == Head(resps) IN
           /\ r \in Range(resps) /\ r \in Responses
           /\ r.no \in Nat /\ r.no <= sent /\ r.cas = r.no /\ r.code \in Int
           /\ resps' \in Seq(Responses) /\ Range(resps') \subseteq Range(resps)
           /\ r.code >= 0 => [no |-> r.no, fc |-> r.fc] \in done
           /\ ~io_failed => /\ Range(resps) = {r} /\ resps' = <<>>
                            /\ r.no = sent /\ r.fc = call.wait
                            /\ up => reqs = <<>>
           /\ ~io_failed /\ up => \A d \in done : d.fc # "CLOSE_REQ_HANDLE" =>
                                    \/ d.no <= cas_info
                                    \/ d.no = r.no /\ d.fc = r.fc /\ r.code >= 0
<1>. DEFINE r == Head(resps)
<1>1. /\ r \in Range(resps)
      /\ resps' \in Seq(Responses) /\ Range(resps') \subseteq Range(resps)
      /\ Range(resps) = Range(resps') \cup {r}
      /\ Len(resps') = Len(resps) - 1
  BY Typing, QueuePop
<1>2. /\ r \in Responses /\ r.no \in Nat /\ r.no <= sent /\ r.code \in Int /\ r.cas = r.no
      /\ r.code >= 0 => [no |-> r.no, fc |-> r.fc] \in done
  BY <1>1, Typing DEF SessionInv, FramesSound
<1>3. ASSUME ~io_failed
      PROVE  /\ Range(resps) = {r} /\ resps' = <<>>
             /\ r.no = sent /\ r.fc = call.wait
             /\ up => reqs = <<>>
  <2>1. Len(resps) <= 1 /\ r.no = sent /\ r.fc = call.wait
    BY <1>1, <1>3 DEF SessionInv, StreamInStep
  <2>2. Len(resps') = 0 /\ Len(resps) = 1
    BY <1>1, <2>1, Typing, QueueFront
  <2>3. resps' = <<>>
    BY <1>1, <2>2
  <2>4. ASSUME up PROVE reqs = <<>>
    <3>1. Len(reqs) + Len(resps) = 1
      BY <1>3, <2>4 DEF SessionInv, StreamInStep
    <3>2. Len(reqs) = 0
      BY <2>2, <3>1, Typing
    <3>. QED  BY <3>2, Typing
  <2>5. Range(resps) = {r}
    BY <1>1, <2>3, QueueEmpty
  <2>. QED  BY <2>1, <2>3, <2>4, <2>5
<1>4. ASSUME ~io_failed, up
      PROVE  \A d \in done : d.fc # "CLOSE_REQ_HANDLE" =>
                \/ d.no <= cas_info
                \/ d.no = r.no /\ d.fc = r.fc /\ r.code >= 0
  BY <1>3, <1>4 DEF SessionInv, CasInfoKnown
<1>. QED  BY <1>1, <1>2, <1>3, <1>4

(* A request is sent; what was in the stream was read before.              *)
LEMMA Sending ==
    ASSUME SessionInv, NEW q \in Requests, up, sent < MaxSent,
           q.no = sent + 1, q.cas = cas_info', q.fc = call'.wait,
           reqs' = Append(reqs, q), sent' = sent + 1,
           UNCHANGED <<conn, up, done, last, io_failed>>,
           resps' \in Seq(Responses), Range(resps') \subseteq Range(resps),
           ~io_failed => reqs = <<>> /\ resps' = <<>>,
           ~io_failed => \A d \in done : d.fc # "CLOSE_REQ_HANDLE" => d.no <= cas_info',
           conn, q.fc # "none"
    PROVE  /\ reqs' \in Seq(Requests)
           /\ \A r \in Range(reqs') \cup Range(resps') \cup done' : r.no <= sent'
           /\ FramesSound' /\ StreamInStep' /\ OkMeansDone' /\ CasInfoKnown' /\ CasInfoSent'
           /\ ~io_failed => Range(reqs') = {q}
<1>1. /\ reqs' \in Seq(Requests) /\ Range(reqs') = Range(reqs) \cup {q}
      /\ Len(reqs') = Len(reqs) + 1
  BY Typing, QueuePush
<1>2. \A r \in Range(reqs') \cup Range(resps') \cup done' : r.no <= sent'
  BY <1>1, Typing
<1>3. FramesSound'
  BY DEF SessionInv, FramesSound
<1>4. ~io_failed => Range(reqs') = {q} /\ Range(resps') = {} /\ Len(reqs') = 1 /\ Len(resps') = 0
  BY <1>1, QueueEmpty
<1>5. StreamInStep'
  BY <1>4 DEF StreamInStep
<1>6. OkMeansDone'
  BY DEF SessionInv, OkMeansDone, CarriedOut
<1>7. CasInfoKnown'
  BY DEF CasInfoKnown
<1>8. CasInfoSent'
  BY <1>4 DEF CasInfoSent
<1>. QED  BY <1>1, <1>2, <1>3, <1>4, <1>5, <1>6, <1>7, <1>8

(* A call returns, and sends no more.                                      *)
LEMMA Returning ==
    ASSUME SessionInv, call' = NoCall, UNCHANGED <<conn, up, reqs, sent, done>>,
           resps' \in Seq(Responses), Range(resps') \subseteq Range(resps),
           io_failed' \in BOOLEAN, io_failed => io_failed',
           ~io_failed' => resps' = <<>> /\ (up => reqs = <<>>),
           ~io_failed' /\ up => \A d \in done : d.fc # "CLOSE_REQ_HANDLE" => d.no <= cas_info'
    PROVE  /\ \A r \in Range(reqs') \cup Range(resps') \cup done' : r.no <= sent'
           /\ FramesSound' /\ StreamInStep' /\ CallInStep' /\ CasInfoKnown' /\ CasInfoSent'
           /\ call' \in Calls /\ call'.op = "none" /\ call'.wait = "none" /\ Passing' = {}
<1>1. call' \in Calls /\ call'.op = "none" /\ call'.wait = "none"
  BY EmptySeq DEF NoCall, Calls, FunctionCodes
<1>2. \A r \in Range(reqs') \cup Range(resps') \cup done' : r.no <= sent'
  BY Typing
<1>3. FramesSound'
  BY <1>1 DEF SessionInv, FramesSound
<1>4. ~io_failed' => Range(resps') = {} /\ Len(resps') = 0
  BY QueueEmpty
<1>5. StreamInStep'
  BY <1>1, <1>4, QueueEmpty DEF SessionInv, StreamInStep
<1>6. CallInStep' /\ Passing' = {}
  BY <1>1 DEF CallInStep, Passing, FirstCodes, FunctionCodes
<1>7. CasInfoKnown' /\ CasInfoSent'
  BY DEF SessionInv, CasInfoKnown, CasInfoSent
<1>. QED  BY <1>1, <1>2, <1>3, <1>5, <1>6, <1>7

(* The server answers a request.                                           *)
LEMMA Serving ==
    ASSUME SessionInv, NEW a \in Responses, reqs # <<>>, reqs' = Tail(reqs),
           Head(reqs).fc # "CON_CLOSE",
           a.no = Head(reqs).no, a.fc = Head(reqs).fc, a.cas = a.no,
           a.fc = "PREPARE" => a.code # 0,
           Answer(a), Unaffected
    PROVE  /\ reqs' \in Seq(Requests) /\ resps' \in Seq(Responses)
           /\ \A r \in Range(reqs') \cup Range(resps') \cup done' : r.no <= sent'
           /\ done' \subseteq [no : Nat \ {0}, fc : FunctionCodes]
           /\ FramesSound' /\ StreamInStep' /\ CallInStep' /\ OkMeansDone'
           /\ CasInfoKnown' /\ CasInfoSent'
           /\ Live' => /\ Live /\ Range(reqs) = {Head(reqs)} /\ Range(reqs') = {}
                       /\ Range(resps) = {} /\ Range(resps') = {a}
                       /\ Head(reqs).fc = call.wait /\ Head(reqs).no = sent
<1>. DEFINE q == Head(reqs)
<1>1. /\ q \in Range(reqs) /\ q \in Requests
      /\ reqs' \in Seq(Requests) /\ Range(reqs') \subseteq Range(reqs)
      /\ Range(reqs) = Range(reqs') \cup {q}
      /\ Len(reqs') = Len(reqs) - 1 /\ Len(reqs) > 0
  BY Typing, QueuePop, QueueFront
<1>2. UNCHANGED <<conn, cas_info, call, up, sent, last, io_failed, stmts, abandoned>>
  BY DEF Unaffected, client
<1>3. /\ resps' \in Seq(Responses)
      /\ ~up => resps' = resps
      /\ up => Range(resps') = Range(resps) \cup {a} /\ Len(resps') = Len(resps) + 1
  BY Typing, QueuePush DEF Answer
<1>4. /\ done \subseteq done'
      /\ \A d \in done' : d \in done \/ (d = [no |-> a.no, fc |-> a.fc] /\ a.code >= 0)
      /\ a.code >= 0 => [no |-> a.no, fc |-> a.fc] \in done'
  BY DEF Answer
<1>5. a.no \in Nat \ {0} /\ a.no <= sent /\ a.fc \in FunctionCodes /\ a.code \in Int
  BY <1>1, Typing DEF Responses
<1>6. done' \subseteq [no : Nat \ {0}, fc : FunctionCodes]
  BY <1>4, <1>5 DEF SessionInv, TypeOK
<1>7. \A r \in Range(reqs') \cup Range(resps') \cup done' : r.no <= sent'
  <2>1. \A r \in Range(reqs') \cup Range(resps') : r.no <= sent'
    BY <1>1, <1>2, <1>3, <1>5, Typing
  <2>2. \A d \in done' : d.no <= sent'
    BY <1>2, <1>4, <1>5, Typing
  <2>. QED  BY <2>1, <2>2
<1>8. FramesSound'
  <2>1. \A r \in Range(resps') : r \in Range(resps) \/ r = a
    BY <1>3
  <2>. QED  BY <1>2, <1>4, <2>1 DEF SessionInv, FramesSound
<1>9. ASSUME ~io_failed
      PROVE  /\ up /\ Len(reqs) = 1 /\ Len(resps) = 0 /\ Range(reqs) = {q}
             /\ reqs' = <<>> /\ resps = <<>> /\ q.no = sent /\ q.fc = call.wait
             /\ Range(resps') = {a} /\ Len(resps') = 1
             /\ Range(resps) = {} /\ Range(reqs') = {}
  <2>1. up /\ q.no = sent /\ q.fc = call.wait
    BY <1>1, <1>9 DEF SessionInv, StreamInStep
  <2>2. Len(reqs) + Len(resps) <= 1
    BY <1>9, <2>1, Typing DEF SessionInv, StreamInStep
  <2>3. Len(reqs) = 1 /\ Len(resps) = 0 /\ Len(reqs') = 0
    BY <1>1, <2>2, Typing
  <2>4. resps = <<>> /\ reqs' = <<>>
    BY <1>1, <2>3, Typing
  <2>5. Range(reqs') = {} /\ Range(resps) = {}
    BY <2>4, QueueEmpty
  <2>6. Range(reqs) = {q} /\ Range(resps') = {a} /\ Len(resps') = 1
    BY <1>1, <1>3, <2>1, <2>3, <2>5
  <2>. QED  BY <2>1, <2>3, <2>4, <2>5, <2>6
<1>10. StreamInStep'
  <2>1. ASSUME ~io_failed PROVE call.wait # "none"
    BY <1>5, <1>9, <2>1 DEF FunctionCodes
  <2>2. ~io_failed => Len(reqs') = 0 /\ a.no = sent /\ a.fc = call.wait
    BY <1>9
  <2>3. ~io_failed => /\ up /\ Len(resps') = 1 /\ Range(reqs') = {}
                      /\ \A r \in Range(resps') : r = a
    BY <1>9
  <2>4. call' = call /\ up' = up /\ sent' = sent /\ io_failed' = io_failed
    BY <1>2
  <2>5. ASSUME ~io_failed PROVE Len(reqs') + Len(resps') = 1
    <3>1. Len(reqs') = 0 /\ Len(resps') = 1
      BY <2>2, <2>3, <2>5
    <3>. QED  BY <3>1
  <2>. QED  BY <2>1, <2>2, <2>3, <2>4, <2>5 DEF StreamInStep
<1>11. CallInStep' /\ OkMeansDone'
  BY <1>2, <1>4 DEF SessionInv, CallInStep, OkMeansDone, CarriedOut
<1>12. CasInfoKnown'
  <2>1. ASSUME ~io_failed, up, NEW d \in done', d.fc # "CLOSE_REQ_HANDLE"
        PROVE  \/ d.no <= cas_info
               \/ \E r \in Range(resps') : r.no = d.no /\ r.fc = d.fc /\ r.code >= 0
    <3>1. CASE d \in done
      BY <1>9, <2>1, <3>1, QueueEmpty DEF SessionInv, CasInfoKnown
    <3>2. CASE d = [no |-> a.no, fc |-> a.fc] /\ a.code >= 0
      BY <1>9, <2>1, <3>2
    <3>. QED  BY <1>4, <3>1, <3>2
  <2>. QED  BY <1>2, <2>1 DEF CasInfoKnown
<1>13. CasInfoSent'
  BY <1>2, <1>9, QueueEmpty DEF CasInfoSent
<1>. QED
  BY <1>1, <1>2, <1>3, <1>6, <1>7, <1>8, <1>9, <1>10, <1>11, <1>12, <1>13 DEF Live

(* Steps that leave all handles where they are.                            *)
LEMMA HandlesKept ==
    ASSUME SessionInv,
           Live' => /\ Live /\ Passing' = Passing
                    /\ DOMAIN handles' = DOMAIN handles
                    /\ stmts' = stmts /\ abandoned' = abandoned
                    /\ \A r \in Range(reqs') : r \in Range(reqs) \/ r.no = sent + 1
    PROVE  HandlesOwned => HandlesOwned'
<1>1. sent + 1 \notin DOMAIN handles
  BY Typing DEF SessionInv, TypeOK
<1>. QED  BY <1>1 DEF HandlesOwned, Known

-----------------------------------------------------------------------------
(* Starting a call *)

(* What every request has: its type, its function code, its number and the *)
(* CAS_INFO it was given.                                                  *)
Writes(q, fc, no, cas) == q \in Requests /\ q.fc = fc /\ q.no = no /\ q.cas = cas

LEMMA Written ==
    ASSUME NEW no \in Nat \ {0}, NEW cas \in Nat, NEW auto \in BOOLEAN, NEW handle \in Nat,
           NEW n \in Nat, NEW t \in {"commit", "rollback"}
    PROVE  /\ Writes(WritePrepareAndExecute(no, auto, cas), "PREPARE_AND_EXECUTE", no, cas)
           /\ Writes(WritePrepare(no, auto, cas), "PREPARE", no, cas)
           /\ Writes(WriteExecute(no, handle, auto, cas), "EXECUTE", no, cas)
           /\ Writes(WriteFetch(no, handle, n, cas), "FETCH", no, cas)
           /\ Writes(WriteCloseReqHandle(no, handle, cas), "CLOSE_REQ_HANDLE", no, cas)
           /\ Writes(WriteEndTran(no, t, cas), "END_TRAN", no, cas)
           /\ Writes(WriteGetDbVersion(no, auto, cas), "GET_DB_VERSION", no, cas)
           /\ Writes(WriteConClose(no, cas), "CON_CLOSE", no, cas)
           /\ WriteCloseReqHandle(no, handle, cas).handle = handle
           /\ WriteFetch(no, handle, n, cas).handle = handle
           /\ WriteFetch(no, handle, n, cas).start = n + 1
<1>1. Writes(WritePrepareAndExecute(no, auto, cas), "PREPARE_AND_EXECUTE", no, cas)
  BY DEF WritePrepareAndExecute, BuildRequest, Writes, Requests, FunctionCodes
<1>2. Writes(WritePrepare(no, auto, cas), "PREPARE", no, cas)
  BY DEF WritePrepare, BuildRequest, Writes, Requests, FunctionCodes
<1>3. Writes(WriteExecute(no, handle, auto, cas), "EXECUTE", no, cas)
  BY DEF WriteExecute, BuildRequest, Writes, Requests, FunctionCodes
<1>4. Writes(WriteFetch(no, handle, n, cas), "FETCH", no, cas)
  <2>1. n + 1 \in Nat
    OBVIOUS
  <2>. QED  BY <2>1 DEF WriteFetch, BuildRequest, Writes, Requests, FunctionCodes
<1>5. Writes(WriteCloseReqHandle(no, handle, cas), "CLOSE_REQ_HANDLE", no, cas)
  BY DEF WriteCloseReqHandle, BuildRequest, Writes, Requests, FunctionCodes
<1>6. Writes(WriteEndTran(no, t, cas), "END_TRAN", no, cas)
  BY DEF WriteEndTran, BuildRequest, Writes, Requests, FunctionCodes
<1>7. Writes(WriteGetDbVersion(no, auto, cas), "GET_DB_VERSION", no, cas)
  BY DEF WriteGetDbVersion, BuildRequest, Writes, Requests, FunctionCodes
<1>8. Writes(WriteConClose(no, cas), "CON_CLOSE", no, cas)
  BY DEF WriteConClose, BuildRequest, Writes, Requests, FunctionCodes
<1>9. /\ WriteCloseReqHandle(no, handle, cas).handle = handle
      /\ WriteFetch(no, handle, n, cas).handle = handle
      /\ WriteFetch(no, handle, n, cas).start = n + 1
  BY DEF WriteCloseReqHandle, WriteFetch, BuildRequest
<1>. QED  BY <1>1, <1>2, <1>3, <1>4, <1>5, <1>6, <1>7, <1>8, <1>9

(* A call starts: its first request is sent, or it returns an error.       *)
LEMMA StartKeeps ==
    ASSUME SessionInv, NEW op \in Operations \ {"stmt_close"}, NEW c \in Calls,
           NEW q \in Requests, q.fc \in FirstCodes, q.no = sent + 1, q.cas = cas_info,
           Start(op, c, q)
    PROVE  Kept
<1>. DEFINE begun == [c EXCEPT !.op = op, !.no = q.no]
<1>1. /\ call.op = "none" /\ calls' \in 0 .. MaxCalls
      /\ UNCHANGED <<conn, cas_info, auto_commit, stmts, resps, handles, tran, done, abandoned>>
  BY BoundsAssumption DEF Start, SessionInv, TypeOK, server
<1>2. /\ begun \in Calls /\ begun.op = op /\ begun.no = sent + 1
  BY DEF Calls, Requests
<1>3. /\ call.wait = "none"
      /\ ~io_failed => resps = <<>>
      /\ ~io_failed /\ up => reqs = <<>>
      /\ ~io_failed /\ up => \A d \in done : d.fc # "CLOSE_REQ_HANDLE" => d.no <= cas_info
  BY <1>1, AtRest
<1>4. CASE conn /\ SendFramed(q, begun)
  <2>1. /\ up /\ sent < MaxSent /\ reqs' = Append(reqs, q) /\ sent' = sent + 1
        /\ UNCHANGED <<up, last, io_failed, io_reported>>
        /\ call' = [begun EXCEPT !.wait = q.fc]
    BY <1>4 DEF SendFramed
  <2>2. /\ call' \in Calls /\ call'.op = op /\ call'.wait = q.fc /\ call'.no = sent'
        /\ op # "none" /\ op # "stmt_close" /\ q.fc # "none"
    <3>1. q.fc \in FunctionCodes \ {"CON_CLOSE"} /\ q.fc # "none" /\ op # "none"
      BY DEF FirstCodes, FunctionCodes, Operations
    <3>. HIDE DEF begun
    <3>2. call' \in Calls /\ call'.op = begun.op /\ call'.wait = q.fc /\ call'.no = begun.no
      BY <1>2, <2>1, <3>1 DEF Calls
    <3>. QED  BY <1>2, <2>1, <3>1, <3>2
  <2>3. /\ reqs' \in Seq(Requests)
        /\ \A r \in Range(reqs') \cup Range(resps') \cup done' : r.no <= sent'
        /\ FramesSound' /\ StreamInStep' /\ OkMeansDone' /\ CasInfoKnown' /\ CasInfoSent'
        /\ ~io_failed => Range(reqs') = {q}
    BY <1>1, <1>3, <1>4, <2>1, <2>2, Typing, Sending
  <2>4. CallInStep'
    BY <2>2 DEF CallInStep, FirstCodes
  <2>5. TypeOK'
    BY <1>1, <1>4, <2>1, <2>2, <2>3, Typing DEF SessionInv, TypeOK
  <2>6. HandlesOwned => HandlesOwned'
    <3>1. ASSUME Live' PROVE Live /\ Passing = {} /\ Passing' = {} /\ Range(reqs') = {q}
      BY <1>1, <1>3, <2>1, <2>2, <2>3, <3>1, QueueEmpty DEF Live, Passing, FirstCodes
    <3>. QED  BY <1>1, <3>1, HandlesKept
  <2>. QED  BY <2>3, <2>4, <2>5, <2>6 DEF SessionInv, Kept
<1>5. CASE (conn /\ SendFails(begun)) \/ (~conn /\ Return(begun, "closed") /\ UNCHANGED <<up, reqs, sent, io_failed, io_reported>>)
  <2>1. /\ UNCHANGED <<up, reqs, sent>> /\ call' = NoCall
        /\ io_failed' \in BOOLEAN /\ io_reported' \in BOOLEAN /\ (io_failed => io_failed')
        /\ ~io_failed' => ~conn
    BY <1>5 DEF SendFails, Return, SessionInv, TypeOK
  <2>2. last' \in Results /\ last'.status # "ok"
    <3>. HIDE DEF begun
    <3>. QED  BY <1>2, <1>5 DEF SendFails, Return, Results, Calls
  <2>3. ~conn => ~up
    BY DEF SessionInv, FramesSound
  <2>4. /\ \A r \in Range(reqs') \cup Range(resps') \cup done' : r.no <= sent'
        /\ FramesSound' /\ StreamInStep' /\ CallInStep' /\ CasInfoKnown' /\ CasInfoSent'
        /\ call' \in Calls /\ call'.op = "none" /\ call'.wait = "none" /\ Passing' = {}
    BY <1>1, <1>3, <2>1, <2>3, Typing, Returning
  <2>5. OkMeansDone'
    BY <2>2 DEF OkMeansDone
  <2>6. TypeOK'
    BY <1>1, <2>1, <2>2, <2>4, Typing DEF SessionInv, TypeOK
  <2>7. HandlesOwned => HandlesOwned'
    BY <1>1, <2>1 DEF HandlesOwned, Live
  <2>. QED  BY <2>4, <2>5, <2>6, <2>7 DEF SessionInv, Kept
<1>. QED  BY <1>4, <1>5 DEF Start

(* The calls that start with EXECUTE: any Statement's handle may be in it. *)
LEMMA StartStmtKeeps ==
    ASSUME SessionInv, NEW s \in [handle : Nat, sel : BOOLEAN],
           StartStmtExecute(s) \/ StartStmtQuery(s)
    PROVE  Kept
<1>. DEFINE q == WriteExecute(sent + 1, s.handle, auto_commit, cas_info)
            c == [NoCall EXCEPT !.handle = s.handle, !.sel = s.sel]
<1>1. s.handle \in Nat /\ s.sel \in BOOLEAN
  OBVIOUS
<1>2. sent + 1 \in Nat \ {0} /\ cas_info \in Nat /\ auto_commit \in BOOLEAN
  BY Typing DEF SessionInv, TypeOK
<1>3. Writes(q, "EXECUTE", sent + 1, cas_info)
  BY <1>1, <1>2, Written
<1>4. c \in Calls
  <2>1. NoCall \in Calls
    BY EmptySeq DEF NoCall, Calls
  <2>. QED  BY <1>1, <2>1 DEF Calls
<1>5. Start("stmt_execute", c, q) \/ Start("stmt_query", c, q)
  BY DEF StartStmtExecute, StartStmtQuery
<1>6. /\ {"stmt_execute", "stmt_query"} \subseteq Operations \ {"stmt_close"}
      /\ "EXECUTE" \in FirstCodes
  BY DEF Operations, FirstCodes, FunctionCodes
<1>. HIDE DEF q, c
<1>. QED  BY <1>3, <1>4, <1>5, <1>6, StartKeeps DEF Writes

(* The calls that start with a request of their own.                       *)
LEMMA StartsKeep ==
    ASSUME SessionInv,
           \/ StartExecute \/ StartQuery \/ StartPrepare \/ StartPing
           \/ \E t \in {"commit", "rollback"} : StartEndTran(t)
           \/ \E s \in stmts : StartStmtExecute(s) \/ StartStmtQuery(s)
    PROVE  Kept
<1>1. sent + 1 \in Nat \ {0} /\ cas_info \in Nat /\ auto_commit \in BOOLEAN
  BY Typing DEF SessionInv, TypeOK
<1>2. /\ {"execute", "query", "prepare", "ping", "commit", "rollback", "stmt_execute",
          "stmt_query"} \subseteq Operations \ {"stmt_close"}
      /\ {"PREPARE_AND_EXECUTE", "PREPARE", "EXECUTE", "END_TRAN", "GET_DB_VERSION"}
            \subseteq FirstCodes
  BY DEF Operations, FirstCodes, FunctionCodes
<1>3. NoCall \in Calls
  BY EmptySeq DEF NoCall, Calls
<1>4. CASE StartExecute \/ StartQuery
  <2>. DEFINE q == WritePrepareAndExecute(sent + 1, auto_commit, cas_info)
  <2>1. Writes(q, "PREPARE_AND_EXECUTE", sent + 1, cas_info)
    BY <1>1, Written
  <2>2. Start("execute", NoCall, q) \/ Start("query", NoCall, q)
    BY <1>4 DEF StartExecute, StartQuery
  <2>. HIDE DEF q
  <2>. QED  BY <1>2, <1>3, <2>1, <2>2, StartKeeps DEF Writes
<1>5. CASE StartPrepare
  <2>. DEFINE q == WritePrepare(sent + 1, auto_commit, cas_info)
  <2>1. Writes(q, "PREPARE", sent + 1, cas_info)
    BY <1>1, Written
  <2>2. Start("prepare", NoCall, q)
    BY <1>5 DEF StartPrepare
  <2>. HIDE DEF q
  <2>. QED  BY <1>2, <1>3, <2>1, <2>2, StartKeeps DEF Writes
<1>6. CASE StartPing
  <2>. DEFINE q == WriteGetDbVersion(sent + 1, auto_commit, cas_info)
  <2>1. Writes(q, "GET_DB_VERSION", sent + 1, cas_info)
    BY <1>1, Written
  <2>2. Start("ping", NoCall, q)
    BY <1>6 DEF StartPing
  <2>. HIDE DEF q
  <2>. QED  BY <1>2, <1>3, <2>1, <2>2, StartKeeps DEF Writes
<1>7. ASSUME NEW t \in {"commit", "rollback"}, StartEndTran(t) PROVE Kept
  <2>. DEFINE q == WriteEndTran(sent + 1, t, cas_info)
  <2>1. Writes(q, "END_TRAN", sent + 1, cas_info)
    BY <1>1, Written
  <2>2. Start(t, NoCall, q)
    BY <1>7 DEF StartEndTran
  <2>. HIDE DEF q
  <2>. QED  BY <1>2, <1>3, <2>1, <2>2, StartKeeps DEF Writes
<1>8. ASSUME NEW s \in stmts, StartStmtExecute(s) \/ StartStmtQuery(s) PROVE Kept
  <2>1. s \in [handle : Nat, sel : BOOLEAN]
    BY DEF SessionInv, TypeOK
  <2>. QED  BY <1>8, <2>1, StartStmtKeeps
<1>. QED  BY <1>4, <1>5, <1>6, <1>7, <1>8

-----------------------------------------------------------------------------
(* Going on with a call *)

(* What a call has when there is nothing more to read: it may send, or     *)
(* return.                                                                 *)
Ready(c) ==
    /\ c \in Calls /\ c.op # "none" /\ conn /\ UNCHANGED <<conn, done>>
    /\ resps' \in Seq(Responses) /\ Range(resps') \subseteq Range(resps)
    /\ ~io_failed => resps' = <<>> /\ (up => reqs = <<>>)
    /\ cas_info' \in 0 .. sent
    /\ ~io_failed /\ up => \A d \in done : d.fc # "CLOSE_REQ_HANDLE" => d.no <= cas_info'

(* The request that the call is about was carried out. *)
Succeeded(c) == ~io_failed /\ c.op # "stmt_close" => CarriedOut(c.no)

(* The parts of the invariant that do not speak of handles, after the step.*)
StreamKept ==
    /\ reqs' \in Seq(Requests) /\ resps' \in Seq(Responses)
    /\ \A r \in Range(reqs') \cup Range(resps') \cup done' : r.no <= sent'
    /\ sent' \in 0 .. MaxSent /\ sent <= sent' /\ cas_info' \in 0 .. sent'
    /\ call' \in Calls /\ (call'.op = "none") = (call'.wait = "none")
    /\ last' \in Results /\ io_failed' \in BOOLEAN /\ io_reported' \in BOOLEAN
    /\ UNCHANGED <<conn, up, done>>
    /\ FramesSound' /\ StreamInStep' /\ CallInStep' /\ OkMeansDone'
    /\ CasInfoKnown' /\ CasInfoSent'

(* All of it, if the rest is typed.                                        *)
LEMMA KeepsAll ==
    ASSUME SessionInv, StreamKept, UNCHANGED <<auto_commit, handles, tran>>,
           calls' \in 0 .. MaxCalls,
           stmts' \subseteq [handle : Nat, sel : BOOLEAN], abandoned' \subseteq Nat \ {0}
    PROVE  SessionInv'
<1>1. DOMAIN handles' \subseteq 1 .. sent'
  BY Typing DEF SessionInv, TypeOK, StreamKept
<1>2. TypeOK'
  BY <1>1 DEF SessionInv, TypeOK, StreamKept
<1>. QED  BY <1>2 DEF SessionInv, StreamKept

(* The call sends another request.                                         *)
LEMMA SendMore ==
    ASSUME SessionInv, NEW c, Ready(c), Succeeded(c),
           NEW q \in Requests, q.fc \in {"FETCH", "CLOSE_REQ_HANDLE"},
           q.no = sent + 1, q.cas = cas_info', SendFramed(q, c)
    PROVE  /\ StreamKept /\ up
           /\ call'.op = c.op /\ call'.handle = c.handle /\ call'.wait = q.fc
           /\ call'.sel = c.sel /\ call'.total = c.total /\ call'.rows = c.rows
           /\ last' = last /\ io_failed' = io_failed /\ sent' = sent + 1
           /\ ~io_failed => Range(reqs') = {q}
<1>1. /\ up /\ sent < MaxSent /\ reqs' = Append(reqs, q) /\ sent' = sent + 1
      /\ UNCHANGED <<up, last, io_failed, io_reported>>
      /\ call' = [c EXCEPT !.wait = q.fc]
  BY DEF SendFramed
<1>2. /\ call' \in Calls /\ call'.op = c.op /\ call'.wait = q.fc /\ call'.no = c.no
      /\ call'.handle = c.handle /\ call'.sel = c.sel /\ call'.total = c.total
      /\ call'.rows = c.rows
  BY <1>1 DEF Ready, Calls, FunctionCodes
<1>3. q.fc # "none"
  OBVIOUS
<1>4. /\ reqs' \in Seq(Requests)
      /\ \A r \in Range(reqs') \cup Range(resps') \cup done' : r.no <= sent'
      /\ FramesSound' /\ StreamInStep' /\ OkMeansDone' /\ CasInfoKnown' /\ CasInfoSent'
      /\ ~io_failed => Range(reqs') = {q}
  BY <1>1, <1>2, <1>3, Sending DEF Ready
<1>5. CallInStep'
  BY <1>1, <1>2 DEF CallInStep, FirstCodes, Ready, Succeeded, CarriedOut
<1>6. sent' \in 0 .. MaxSent /\ sent <= sent' /\ cas_info' \in 0 .. sent'
  BY <1>1, Typing DEF Ready
<1>7. call'.op # "none" /\ call'.wait # "none"
  BY <1>2, <1>3 DEF Ready
<1>8. io_failed' \in BOOLEAN /\ io_reported' \in BOOLEAN /\ last' \in Results
  BY <1>1 DEF SessionInv, TypeOK
<1>. QED
  BY <1>1, <1>2, <1>4, <1>5, <1>6, <1>7, <1>8 DEF StreamKept, Ready

(* The call returns: Ok, or an error.                                      *)
LEMMA ReturnNow ==
    ASSUME SessionInv, NEW c, Ready(c), NEW status \in {"ok", "error", "io_error"}, Return(c, status),
           status = "ok" => Succeeded(c), UNCHANGED <<up, reqs, sent>>,
           io_failed' \in BOOLEAN, io_failed => io_failed', io_reported' \in BOOLEAN
    PROVE  /\ StreamKept /\ call'.op = "none" /\ call'.wait = "none" /\ Passing' = {}
           /\ last'.op = c.op /\ last'.status = status
           /\ last'.total = c.total /\ last'.rows = c.rows
<1>1. /\ call' = NoCall /\ last' \in Results
      /\ last'.op = c.op /\ last'.status = status /\ last'.no = c.no
      /\ last'.total = c.total /\ last'.rows = c.rows
  BY DEF Return, Ready, Calls, Results
<1>2. /\ \A r \in Range(reqs') \cup Range(resps') \cup done' : r.no <= sent'
      /\ FramesSound' /\ StreamInStep' /\ CallInStep' /\ CasInfoKnown' /\ CasInfoSent'
      /\ call' \in Calls /\ call'.op = "none" /\ call'.wait = "none" /\ Passing' = {}
  BY <1>1, Returning DEF Ready
<1>3. OkMeansDone'
  BY <1>1 DEF OkMeansDone, Ready, Succeeded, CarriedOut
<1>4. sent' \in 0 .. MaxSent /\ sent <= sent' /\ cas_info' \in 0 .. sent'
  BY Typing DEF Ready, SessionInv, TypeOK
<1>5. reqs' \in Seq(Requests)
  BY Typing
<1>. QED  BY <1>1, <1>2, <1>3, <1>4, <1>5 DEF StreamKept, Ready

(* close_query_handle: it sends, or the call returns Ok all the same.      *)
LEMMA CleaningUp ==
    ASSUME SessionInv, NEW c, Ready(c), Succeeded(c), NEW handle \in Nat \ {0}, CloseQueryHandle(c, handle)
    PROVE  /\ StreamKept
           /\ Live' => /\ Live /\ Passing' = {handle}
                       /\ \A r \in Range(reqs') : r.no = sent + 1
<1>. DEFINE q == WriteCloseReqHandle(sent + 1, handle, cas_info')
<1>1. Writes(q, "CLOSE_REQ_HANDLE", sent + 1, cas_info') /\ q.handle = handle
  <2>1. sent + 1 \in Nat \ {0} /\ cas_info' \in Nat /\ handle \in Nat
    BY Typing DEF Ready
  <2>2. Writes(q, "CLOSE_REQ_HANDLE", sent + 1, cas_info')
    BY <2>1, Written
  <2>3. q.handle = handle
    BY DEF WriteCloseReqHandle, BuildRequest
  <2>. QED  BY <2>2, <2>3
<1>2. CASE SendFramed(q, c)
  <2>. HIDE DEF q
  <2>1. /\ StreamKept /\ up /\ call'.op = c.op /\ call'.wait = "CLOSE_REQ_HANDLE"
        /\ io_failed' = io_failed
        /\ ~io_failed => Range(reqs') = {q}
    BY <1>1, <1>2, SendMore DEF Writes
  <2>2. Live' => Live /\ Range(reqs') = {q}
    BY <2>1 DEF Live, Ready
  <2>3. Live' => Passing' = {handle}
    BY <1>1, <2>1, <2>2 DEF Passing
  <2>. QED  BY <1>1, <2>1, <2>2, <2>3 DEF Writes
<1>3. CASE ~SendFramed(q, c)
  <2>1. /\ ~up /\ io_failed' = TRUE /\ Return(c, "ok") /\ UNCHANGED <<up, reqs, sent, io_reported>>
    BY <1>3 DEF CloseQueryHandle
  <2>2. StreamKept
    BY <2>1, ReturnNow DEF SessionInv, TypeOK
  <2>. QED  BY <2>1, <2>2 DEF Live
<1>. QED  BY <1>2, <1>3

(* The next round of fetch_remaining: it sends, or the call returns the    *)
(* error.                                                                  *)
LEMMA FetchingOn ==
    ASSUME SessionInv, NEW c, Ready(c), Succeeded(c), FetchNext(c)
    PROVE  /\ StreamKept
           /\ ~up => io_failed'
           /\ Live' => /\ Live
                       /\ Passing' = IF c.op = "query" THEN {c.handle} \ {0} ELSE {}
                       /\ \A r \in Range(reqs') : r.no = sent + 1
<1>. DEFINE q == WriteFetch(sent + 1, c.handle, Len(c.rows), cas_info')
<1>1. Writes(q, "FETCH", sent + 1, cas_info')
  <2>1. sent + 1 \in Nat \ {0} /\ cas_info' \in Nat /\ c.handle \in Nat /\ c.rows \in Seq(Nat)
    BY Typing DEF Ready, Calls
  <2>2. Len(c.rows) \in Nat
    BY <2>1, LenProperties
  <2>. QED  BY <2>1, <2>2, Written
<1>2. CASE SendFramed(q, c)
  <2>. HIDE DEF q
  <2>1. /\ StreamKept /\ up /\ call'.op = c.op /\ call'.wait = "FETCH"
        /\ call'.handle = c.handle /\ io_failed' = io_failed
        /\ ~io_failed => Range(reqs') = {q}
    BY <1>1, <1>2, SendMore DEF Writes
  <2>2. Live' => Live /\ Range(reqs') = {q}
    BY <2>1 DEF Live, Ready
  <2>3. Passing' = IF c.op = "query" THEN {c.handle} \ {0} ELSE {}
    BY <2>1 DEF Passing
  <2>. QED  BY <1>1, <2>1, <2>2, <2>3 DEF Writes
<1>3. CASE ~SendFramed(q, c)
  <2>1. /\ io_failed' = TRUE /\ io_reported' = TRUE
        /\ Return(c, "io_error") /\ UNCHANGED <<up, reqs, sent>>
    BY <1>3 DEF FetchNext, SendFails
  <2>2. StreamKept
    BY <2>1, ReturnNow DEF SessionInv, TypeOK
  <2>. QED  BY <2>1, <2>2 DEF Live
<1>. QED  BY <1>2, <1>3

(* The call returns Ok.                                                    *)
LEMMA ReturnOk ==
    ASSUME SessionInv, NEW c, Ready(c), Succeeded(c), Return(c, "ok"),
           UNCHANGED <<up, reqs, sent, io_failed, io_reported>>
    PROVE  /\ StreamKept
           /\ Live' => Live /\ Passing' = {} /\ Range(reqs') = Range(reqs)
<1>1. StreamKept /\ Passing' = {}
  BY ReturnNow DEF SessionInv, TypeOK
<1>. QED  BY <1>1 DEF Live, Ready

-----------------------------------------------------------------------------
(* Steps between calls, and the stream's end *)

(* Statement::close, of any Statement: what it sends and returns.          *)
LEMMA StmtCloseSendsKeeps ==
    ASSUME SessionInv, NEW s \in [handle : Nat, sel : BOOLEAN], StmtCloseSends(s),
           stmts' \subseteq stmts
    PROVE  /\ SessionInv'
           /\ call.op = "none" /\ UNCHANGED <<conn, handles, abandoned>>
           /\ Live' => /\ Live
                       /\ Passing' = {s.handle} \ {0}
                       /\ \A r \in Range(reqs') : r.no = sent + 1
<1>. DEFINE c == [NoCall EXCEPT !.op = "stmt_close", !.no = sent + 1, !.handle = s.handle]
<1>1. /\ call.op = "none" /\ calls' \in 0 .. MaxCalls
      /\ UNCHANGED <<conn, cas_info, auto_commit, resps, handles, tran, done, abandoned>>
  BY BoundsAssumption DEF StmtCloseSends, SessionInv, TypeOK, server
<1>2. /\ call.wait = "none"
      /\ ~io_failed => resps = <<>>
      /\ ~io_failed /\ up => reqs = <<>>
      /\ ~io_failed /\ up => \A d \in done : d.fc # "CLOSE_REQ_HANDLE" => d.no <= cas_info
  BY <1>1, AtRest
<1>3. s.handle \in Nat /\ stmts' \subseteq [handle : Nat, sel : BOOLEAN] /\ abandoned' \subseteq Nat \ {0}
  BY <1>1 DEF SessionInv, TypeOK
<1>4. c \in Calls /\ c.op = "stmt_close"
  <2>1. sent + 1 \in Nat /\ <<>> \in Seq(Nat)
    BY Typing, QueueEmpty
  <2>. QED  BY <1>3, <2>1 DEF NoCall, Calls, Operations
<1>5. CASE conn /\ s.handle > 0
  <2>1. CloseQueryHandle(c, s.handle)
    BY <1>5 DEF StmtCloseSends
  <2>. HIDE DEF c
  <2>2. Ready(c) /\ Succeeded(c)
    BY <1>1, <1>2, <1>4, <1>5, Typing DEF Ready, Succeeded
  <2>3. s.handle \in Nat \ {0}
    BY <1>3, <1>5
  <2>4. /\ StreamKept
        /\ Live' => /\ Live /\ Passing' = {s.handle}
                    /\ \A r \in Range(reqs') : r.no = sent + 1
    BY <2>1, <2>2, <2>3, CleaningUp
  <2>5. SessionInv'
    BY <1>1, <1>3, <2>4, KeepsAll
  <2>. QED  BY <1>1, <2>3, <2>4, <2>5
<1>6. CASE ~(conn /\ s.handle > 0)
  <2>1. Return(c, "ok") /\ UNCHANGED <<up, reqs, sent, io_failed, io_reported>>
    BY <1>6 DEF StmtCloseSends
  <2>2. call' = NoCall /\ last' \in Results /\ last'.op = "stmt_close"
    <3>. HIDE DEF c
    <3>. QED  BY <1>4, <2>1 DEF Return, Results, Calls
  <2>3. io_failed' \in BOOLEAN /\ io_reported' \in BOOLEAN
    BY <2>1 DEF SessionInv, TypeOK
  <2>4. /\ \A r \in Range(reqs') \cup Range(resps') \cup done' : r.no <= sent'
        /\ FramesSound' /\ StreamInStep' /\ CallInStep' /\ CasInfoKnown' /\ CasInfoSent'
        /\ call' \in Calls /\ call'.op = "none" /\ call'.wait = "none" /\ Passing' = {}
    BY <1>1, <1>2, <2>1, <2>2, <2>3, Typing, Returning
  <2>5. OkMeansDone'
    BY <2>2 DEF OkMeansDone
  <2>6. StreamKept
    BY <1>1, <2>1, <2>2, <2>3, <2>4, <2>5, Typing DEF StreamKept, SessionInv, TypeOK
  <2>7. SessionInv'
    BY <1>1, <1>3, <2>6, KeepsAll
  <2>8. Live' => Live /\ s.handle = 0 /\ Range(reqs') = {}
    <3>1. Live' => Live /\ s.handle = 0
      BY <1>1, <1>3, <1>6, <2>1 DEF Live
    <3>. QED  BY <1>2, <2>1, <3>1, QueueEmpty DEF Live
  <2>. QED  BY <1>1, <2>4, <2>7, <2>8
<1>. QED  BY <1>5, <1>6

(* Statement::close, of a Statement of this connection.                    *)
LEMMA StmtCloseKeeps ==
    ASSUME SessionInv, NEW s \in stmts, StmtClose(s)
    PROVE  Kept
<1>1. s \in [handle : Nat, sel : BOOLEAN] /\ StmtCloseSends(s) /\ stmts' = stmts \ {s}
  BY DEF StmtClose, SessionInv, TypeOK
<1>2. /\ SessionInv'
      /\ call.op = "none" /\ UNCHANGED <<conn, handles, abandoned>>
      /\ Live' => /\ Live
                  /\ Passing' = {s.handle} \ {0}
                  /\ \A r \in Range(reqs') : r.no = sent + 1
  BY <1>1, StmtCloseSendsKeeps
<1>3. ASSUME HandlesOwned, Live
      PROVE  /\ DOMAIN handles = Known /\ s.handle # 0
             /\ Known = Known' \cup {s.handle} /\ s.handle \notin Known'
  <2>1. Passing = {} /\ DOMAIN handles = Known
    BY <1>2, <1>3, AtRest DEF Passing, HandlesOwned
  <2>2. s.handle \in DOMAIN handles
    BY <2>1 DEF Known
  <2>3. s.handle # 0
    BY <2>2, Typing DEF SessionInv, TypeOK
  <2>4. Known = Known' \cup {s.handle} /\ s.handle \notin Known'
    BY <1>1, <1>2, <1>3 DEF Known, HandlesOwned
  <2>. QED  BY <2>1, <2>3, <2>4
<1>4. ASSUME HandlesOwned PROVE HandlesOwned'
  <2>1. sent + 1 \notin DOMAIN handles
    BY Typing DEF SessionInv, TypeOK
  <2>2. ASSUME Live' PROVE DOMAIN handles' = Known' \cup Passing' /\ Known' \cap Passing' = {}
    BY <1>2, <1>3, <1>4, <2>2
  <2>. QED  BY <1>1, <1>2, <1>4, <2>1, <2>2 DEF HandlesOwned
<1>. QED  BY <1>2, <1>4 DEF Kept

(* A Statement goes out of scope, or set_auto_commit is called.            *)
LEMMA LocalKeeps ==
    ASSUME SessionInv, SetAutoCommit \/ \E s \in stmts : StmtDrop(s)
    PROVE  Kept
<1>1. /\ UNCHANGED <<conn, cas_info, call, up, reqs, resps, handles, tran, sent, done, last,
                     io_failed, io_reported>>
      /\ calls' \in 0 .. MaxCalls /\ auto_commit' \in BOOLEAN /\ call.op = "none"
  <2>1. CASE SetAutoCommit
    BY <2>1, BoundsAssumption DEF SetAutoCommit, stream, server, SessionInv, TypeOK
  <2>2. ASSUME NEW s \in stmts, StmtDrop(s)
        PROVE  /\ UNCHANGED <<conn, cas_info, auto_commit, call, up, reqs, resps, handles, tran,
                              calls, sent, done, last, io_failed, io_reported>>
               /\ call.op = "none"
    BY <2>2 DEF StmtDrop, stream, server
  <2>. QED  BY <2>1, <2>2 DEF SessionInv, TypeOK
<1>2. FramesSound' /\ StreamInStep' /\ CallInStep' /\ OkMeansDone' /\ CasInfoKnown' /\ CasInfoSent'
  BY <1>1 DEF SessionInv, FramesSound, StreamInStep, CallInStep, OkMeansDone, CarriedOut, CasInfoKnown,
     CasInfoSent
<1>3. Passing = {} /\ Passing' = {}
  BY <1>1, AtRest DEF Passing
<1>4. CASE SetAutoCommit
  <2>1. UNCHANGED <<stmts, abandoned>>
    BY <1>4 DEF SetAutoCommit
  <2>2. TypeOK'
    BY <1>1, <2>1 DEF SessionInv, TypeOK
  <2>3. HandlesOwned => HandlesOwned'
    BY <1>1, <1>3, <2>1, HandlesKept DEF Live
  <2>. QED  BY <1>2, <2>2, <2>3 DEF SessionInv, Kept
<1>5. ASSUME NEW s \in stmts, StmtDrop(s) PROVE Kept
  <2>1. stmts' = stmts \ {s} /\ abandoned' = abandoned \cup ({s.handle} \ {0})
    BY <1>5 DEF StmtDrop
  <2>2. TypeOK'
    BY <1>1, <2>1 DEF SessionInv, TypeOK
  <2>3. ASSUME HandlesOwned PROVE HandlesOwned'
    <3>1. ASSUME Live' PROVE Live /\ Known' = Known
      <4>1. Live
        BY <1>1, <3>1 DEF Live
      <4>2. s.handle \in DOMAIN handles
        BY <2>3, <4>1 DEF HandlesOwned, Known
      <4>3. s.handle # 0
        BY <4>2, Typing DEF SessionInv, TypeOK
      <4>. QED  BY <2>1, <4>1, <4>3 DEF Known
    <3>2. ASSUME Live' PROVE \A t \in stmts' : t.handle \notin abandoned'
      BY <2>1, <2>3, <3>1, <3>2 DEF HandlesOwned
    <3>. QED  BY <1>1, <1>3, <2>1, <2>3, <3>1, <3>2 DEF HandlesOwned
  <2>. QED  BY <1>2, <2>2, <2>3 DEF SessionInv, Kept
<1>. QED  BY <1>4, <1>5

(* Between calls nothing is left of the last one but what it returned.     *)
Forgets == last' = last \/ last' = NoResult

LEMMA ForgetsSound ==
    ASSUME SessionInv, Forgets, io_failed' = io_failed, done' = done
    PROVE  last' \in Results /\ OkMeansDone'
<1>1. NoResult \in Results /\ NoResult.status = "none"
  BY EmptySeq DEF NoResult, Results
<1>2. last \in Results
  BY Typing
<1>. QED  BY <1>1, <1>2 DEF Forgets, SessionInv, OkMeansDone, CarriedOut

(* The client lets go of its stream, with a CON_CLOSE or without.          *)
LEMMA ClosingKeeps ==
    ASSUME SessionInv, call.op = "none", conn' = FALSE, up' = FALSE, resps' = <<>>,
           \/ /\ up /\ sent < MaxSent
              /\ reqs' = Append(reqs, WriteConClose(sent + 1, cas_info)) /\ sent' = sent + 1
           \/ UNCHANGED <<reqs, sent>>,
           Forgets,
           UNCHANGED <<cas_info, auto_commit, stmts, call, handles, tran, calls, done,
                       io_failed, io_reported, abandoned>>
    PROVE  Kept
<1>. DEFINE q == WriteConClose(sent + 1, cas_info)
<1>1. /\ call.op = "none" /\ conn' = FALSE /\ up' = FALSE /\ resps' = <<>>
      /\ UNCHANGED <<cas_info, auto_commit, stmts, call, handles, tran, calls, done,
                     io_failed, io_reported, abandoned>>
      /\ last' \in Results /\ OkMeansDone'
  BY ForgetsSound
<1>2. Writes(q, "CON_CLOSE", sent + 1, cas_info)
  <2>1. sent + 1 \in Nat \ {0} /\ cas_info \in Nat
    BY Typing
  <2>. QED  BY <2>1, Written
<1>. HIDE DEF q
<1>3. /\ call.wait = "none"
      /\ ~io_failed /\ up => reqs = <<>>
      /\ ~io_failed /\ up => \A d \in done : d.fc # "CLOSE_REQ_HANDLE" => d.no <= cas_info
  BY <1>1, AtRest
<1>4. /\ reqs' \in Seq(Requests) /\ sent' \in 0 .. MaxSent /\ sent <= sent'
      /\ \/ up /\ Range(reqs') = Range(reqs) \cup {q} /\ sent' = sent + 1
         \/ Range(reqs') = Range(reqs) /\ sent' = sent
  <2>1. CASE up /\ sent < MaxSent /\ reqs' = Append(reqs, q) /\ sent' = sent + 1
    BY <1>2, <2>1, Typing, QueuePush DEF Writes
  <2>2. CASE UNCHANGED <<reqs, sent>>
    BY <2>2, Typing DEF SessionInv, TypeOK
  <2>. QED  BY <2>1, <2>2 DEF q
<1>5. resps' \in Seq(Responses) /\ Range(resps') = {} /\ Len(resps') = 0
  BY <1>1, QueueEmpty
<1>6. \A r \in Range(reqs') \cup Range(resps') \cup done' : r.no <= sent'
  BY <1>1, <1>2, <1>4, <1>5, Typing DEF Writes
<1>7. DOMAIN handles' \subseteq 1 .. sent' /\ cas_info' \in 0 .. sent'
  BY <1>1, <1>4, Typing DEF SessionInv, TypeOK
<1>8. TypeOK'
  BY <1>1, <1>4, <1>5, <1>6, <1>7 DEF SessionInv, TypeOK
<1>9. FramesSound' /\ CallInStep' /\ CasInfoKnown' /\ HandlesOwned'
  BY <1>1, <1>3, <1>5 DEF FramesSound, CallInStep, CasInfoKnown,
     HandlesOwned, Live, FirstCodes, FunctionCodes
<1>10. StreamInStep'
  <2>1. ASSUME ~io_failed PROVE \A r \in Range(reqs') : r.fc = "CON_CLOSE"
    <3>1. \A r \in Range(reqs) : r.fc = "CON_CLOSE"
      BY <1>3, <2>1, QueueEmpty DEF SessionInv, StreamInStep
    <3>. QED  BY <1>2, <1>4, <3>1 DEF Writes
  <2>. QED  BY <1>1, <1>5, <2>1 DEF StreamInStep
<1>11. CasInfoSent'
  <2>1. ASSUME ~io_failed, NEW r \in Range(reqs'), NEW d \in done,
               d.no < r.no, d.fc # "CLOSE_REQ_HANDLE"
        PROVE  d.no <= r.cas
    <3>1. CASE r \in Range(reqs)
      BY <2>1, <3>1 DEF SessionInv, CasInfoSent
    <3>2. CASE up /\ r = q
      BY <1>2, <1>3, <2>1, <3>2 DEF Writes
    <3>. QED  BY <1>4, <3>1, <3>2
  <2>. QED  BY <1>1, <2>1 DEF CasInfoSent
<1>. QED  BY <1>1, <1>8, <1>9, <1>10, <1>11 DEF SessionInv, Kept

(* Client::close and Drop.                                                 *)
LEMMA CloseKeeps == ASSUME SessionInv, Close PROVE Kept
<1>1. /\ call.op = "none" /\ conn' = FALSE /\ up' = FALSE /\ resps' = <<>> /\ Forgets
      /\ UNCHANGED <<cas_info, auto_commit, stmts, call, handles, tran, calls, done,
                     io_failed, io_reported, abandoned>>
  BY DEF Close, server, Forgets
<1>2. \/ /\ up /\ sent < MaxSent
         /\ reqs' = Append(reqs, WriteConClose(sent + 1, cas_info)) /\ sent' = sent + 1
      \/ UNCHANGED <<reqs, sent>>
  BY DEF Close
<1>. QED  BY <1>1, <1>2, ClosingKeeps

(* The server ends the session. *)
HungUp ==
    /\ up' = FALSE /\ reqs' = <<>> /\ handles' = <<>> /\ tran' = "none"
    /\ UNCHANGED <<client, resps, history>>

(* The stream breaks, or the server hangs up.                              *)
LEMMA BreakKeeps == ASSUME SessionInv, LinkBreaks \/ HungUp PROVE Kept
<1>1. /\ UNCHANGED <<conn, cas_info, auto_commit, stmts, call, calls, sent, done, last,
                     io_failed, io_reported, abandoned>>
      /\ up' = FALSE /\ reqs' = <<>>
  BY DEF LinkBreaks, HungUp, client, history
<1>2. /\ resps' \in Seq(Responses) /\ Range(resps') \subseteq Range(resps)
      /\ Len(resps') <= Len(resps)
  <2>1. CASE HungUp
    BY <2>1, Typing DEF HungUp
  <2>2. CASE LinkBreaks
    <3>1. PICK k \in 0 .. Len(resps) : resps' = SubSeq(resps, 1, k)
      BY <2>2 DEF LinkBreaks
    <3>2. /\ resps' \in Seq(Responses) /\ Len(resps') = k
          /\ \A i \in 1 .. k : resps'[i] = resps[i]
      BY <3>1, Typing, SubSeqProperties
    <3>3. DOMAIN resps' = 1 .. k /\ DOMAIN resps = 1 .. Len(resps)
      BY <3>2, Typing, LenProperties
    <3>4. Range(resps') \subseteq Range(resps)
      BY <3>2, <3>3, Typing DEF Range
    <3>. QED  BY <3>2, <3>4, Typing
  <2>. QED  BY <2>1, <2>2
<1>3. Range(reqs') = {} /\ reqs' \in Seq(Requests)
  BY <1>1, QueueEmpty
<1>4. /\ DOMAIN handles' \subseteq 1 .. sent'
      /\ \A h \in DOMAIN handles' : handles'[h] \in [sel : BOOLEAN, total : 0 .. MaxRows]
      /\ tran' \in {"none", "open"}
  <2>1. CASE HungUp
    <3>1. handles' = <<>> /\ tran' = "none"
      BY <2>1 DEF HungUp
    <3>2. DOMAIN handles' = {}
      BY <3>1
    <3>. QED  BY <3>1, <3>2
  <2>2. CASE LinkBreaks
    BY <1>1, <2>2 DEF LinkBreaks, server, SessionInv, TypeOK
  <2>. QED  BY <2>1, <2>2
<1>5. \A r \in Range(reqs') \cup Range(resps') \cup done' : r.no <= sent'
  BY <1>1, <1>2, <1>3, Typing
<1>6. TypeOK'
  BY <1>1, <1>2, <1>3, <1>4, <1>5 DEF SessionInv, TypeOK
<1>7. Len(resps') <= 1 \/ io_failed
  BY <1>2, Typing, QueueFront DEF SessionInv, StreamInStep
<1>8. FramesSound' /\ StreamInStep' /\ CallInStep' /\ OkMeansDone'
  BY <1>1, <1>2, <1>3, <1>7 DEF SessionInv, FramesSound, StreamInStep, CallInStep, OkMeansDone, CarriedOut
<1>9. CasInfoKnown' /\ CasInfoSent' /\ HandlesOwned'
  BY <1>1, <1>3 DEF CasInfoKnown, CasInfoSent, HandlesOwned, Live
<1>. QED  BY <1>6, <1>8, <1>9 DEF SessionInv, Kept

-----------------------------------------------------------------------------
(* Reading an answer *)

(* A call under way has a connection and a request it waits for.           *)
LEMMA UnderWay ==
    ASSUME SessionInv, call.wait # "none"
    PROVE  /\ call \in Calls /\ call.op # "none" /\ conn
           /\ ~io_failed /\ call.wait \in FirstCodes => call.no = sent
           /\ call.wait \in {"FETCH", "CLOSE_REQ_HANDLE"} => Succeeded(call)
<1>1. call.op # "none"
  BY DEF SessionInv, TypeOK
<1>. QED  BY <1>1, Typing DEF SessionInv, FramesSound, CallInStep, Succeeded

(* The answer is an error code: the call returns it.                       *)
LEMMA FailsNow ==
    ASSUME SessionInv, call.wait # "none", resps # <<>>, resps' = Tail(resps),
           CallFails, UNCHANGED <<conn, done>>,
           ~io_failed => Head(resps).code < 0
    PROVE  /\ StreamKept
           /\ Live' => /\ Live /\ Passing' = {} /\ Range(reqs') = Range(reqs)
                       /\ Head(resps).code < 0 /\ Range(resps) = {Head(resps)}
<1>1. Ready(call)
  <2>1. ASSUME ~io_failed, up, NEW d \in done, d.fc # "CLOSE_REQ_HANDLE"
        PROVE  d.no <= cas_info
    <3>1. \/ d.no <= cas_info
          \/ Head(resps).code >= 0
      BY <2>1, Reading
    <3>2. Head(resps).code \in Int /\ Head(resps).code < 0
      BY <2>1, Reading
    <3>. QED  BY <3>1, <3>2
  <2>2. /\ resps' \in Seq(Responses) /\ Range(resps') \subseteq Range(resps)
        /\ ~io_failed => resps' = <<>> /\ (up => reqs = <<>>)
    BY Reading
  <2>3. cas_info' = cas_info /\ cas_info' \in 0 .. sent
    BY Typing DEF CallFails
  <2>. QED  BY <2>1, <2>2, <2>3, UnderWay DEF Ready
<1>2. /\ Return(call, "error") /\ UNCHANGED <<up, reqs, sent, io_failed, io_reported>>
  BY DEF CallFails
<1>3. StreamKept /\ Passing' = {}
  BY <1>1, <1>2, ReturnNow DEF SessionInv, TypeOK
<1>4. ~io_failed => Range(resps) = {Head(resps)}
  BY Reading
<1>. QED  BY <1>2, <1>3, <1>4 DEF Live

(* The answer was read and has a CAS_INFO: the call may go on.             *)
LEMMA ReadyNow ==
    ASSUME SessionInv, call.wait # "none", resps # <<>>, resps' = Tail(resps),
           UNCHANGED <<conn, done>>, cas_info' = Head(resps).cas, Head(resps).code \in Nat,
           NEW c \in Calls, c.op = call.op, c.no = call.no
    PROVE  Ready(c) /\ Succeeded(c)
<1>. DEFINE r == Head(resps)
<1>1. /\ r.no \in Nat /\ r.no <= sent /\ r.cas = r.no
      /\ resps' \in Seq(Responses) /\ Range(resps') \subseteq Range(resps)
      /\ [no |-> r.no, fc |-> r.fc] \in done
      /\ ~io_failed => resps' = <<>> /\ r.no = sent /\ (up => reqs = <<>>) /\ r.fc = call.wait
  BY Reading
<1>2. cas_info' \in 0 .. sent /\ (~io_failed => cas_info' = sent)
  BY <1>1, Typing
<1>3. Ready(c)
  BY <1>1, <1>2, UnderWay, Typing DEF Ready
<1>4. Succeeded(c)
  <2>1. CASE call.wait \in {"FETCH", "CLOSE_REQ_HANDLE"}
    BY <2>1, UnderWay DEF Succeeded
  <2>2. CASE call.wait \notin {"FETCH", "CLOSE_REQ_HANDLE"}
    <3>1. call.wait \in FirstCodes
      BY <2>2, Typing DEF FirstCodes, Calls
    <3>2. ~io_failed => call.no = r.no
      BY <1>1, <3>1, UnderWay
    <3>. QED  BY <1>1, <3>2 DEF Succeeded, CarriedOut
  <2>. QED  BY <2>1, <2>2
<1>. QED  BY <1>3, <1>4

(* query cleans up behind itself; query_with does not.                     *)
LEMMA Finishing ==
    ASSUME SessionInv, NEW c, Ready(c), Succeeded(c), FinishQuery(c)
    PROVE  /\ StreamKept
           /\ Live' => /\ Live
                       /\ Passing' = IF c.op = "query" THEN {c.handle} \ {0} ELSE {}
                       /\ \A r \in Range(reqs') : r \in Range(reqs) \/ r.no = sent + 1
<1>1. c.handle \in Nat
  BY DEF Ready, Calls
<1>2. CASE c.op = "query" /\ c.handle > 0
  <2>1. CloseQueryHandle(c, c.handle) /\ c.handle \in Nat \ {0}
    BY <1>1, <1>2 DEF FinishQuery
  <2>2. /\ StreamKept
        /\ Live' => /\ Live /\ Passing' = {c.handle}
                    /\ \A r \in Range(reqs') : r.no = sent + 1
    BY <2>1, CleaningUp
  <2>. QED  BY <1>2, <2>1, <2>2
<1>3. CASE ~(c.op = "query" /\ c.handle > 0)
  <2>1. Return(c, "ok") /\ UNCHANGED <<up, reqs, sent, io_failed, io_reported>>
    BY <1>3 DEF FinishQuery
  <2>2. /\ StreamKept
        /\ Live' => Live /\ Passing' = {} /\ Range(reqs') = Range(reqs)
    BY <2>1, ReturnOk
  <2>. QED  BY <1>1, <1>3, <2>2
<1>. QED  BY <1>2, <1>3

(* The answer to PREPARE_AND_EXECUTE.                                      *)
LEMMA RecvPrepareAndExecuteKeeps == ASSUME SessionInv, RecvPrepareAndExecute PROVE Kept
<1>. DEFINE r == Head(resps)
<1>1. /\ call.wait = "PREPARE_AND_EXECUTE" /\ call.wait # "none"
      /\ resps # <<>> /\ resps' = Tail(resps)
      /\ UNCHANGED <<conn, auto_commit, stmts, handles, tran, calls, done>>
      /\ calls' \in 0 .. MaxCalls /\ stmts' \subseteq [handle : Nat, sel : BOOLEAN]
  BY DEF RecvPrepareAndExecute, PrepareAndExecuteRead, RecvFramed, server, SessionInv, TypeOK
<1>2. /\ r \in Responses /\ r.code \in Int
      /\ ~io_failed => Range(resps) = {r} /\ r.fc = call.wait
  BY <1>1, Reading
<1>3. PICK res \in ParsePrepareAndExecute(r) :
         \/ ~res.ok /\ CallFails /\ UNCHANGED abandoned
         \/ /\ res.ok
            /\ cas_info' = res.cas
            /\ LET c == [call EXCEPT !.handle = res.handle, !.sel = res.sel,
                                     !.total = res.total, !.rows = res.rows]
               IN IF call.op = "query" /\ NeedsMore(c)
                     THEN /\ FetchNext(c)
                          /\ abandoned' = abandoned \cup
                               (IF up \/ res.handle = 0 THEN {} ELSE {res.handle})
                     ELSE /\ IF call.op = "query" THEN FinishQuery(c)
                             ELSE IF res.handle > 0 THEN CloseQueryHandle(c, res.handle)
                             ELSE /\ Return(c, "ok")
                                  /\ UNCHANGED <<up, reqs, sent, io_failed, io_reported>>
                          /\ UNCHANGED abandoned
  BY DEF RecvPrepareAndExecute, PrepareAndExecuteRead
<1>4. /\ Reads(res, r) /\ (res.ok => res.handle = r.code)
      /\ r.fc = "PREPARE_AND_EXECUTE" => res = IF r.code < 0 THEN Failed ELSE Read(r)
  BY <1>2, ParsePrepareAndExecuteSound
<1>5. abandoned \subseteq Nat \ {0}
  BY DEF SessionInv, TypeOK
<1>6. Live => Passing = {r.code} \cap (Nat \ {0})
  BY <1>1, <1>2 DEF Live, Passing
<1>7. CASE ~res.ok
  <2>1. CallFails /\ UNCHANGED abandoned
    BY <1>3, <1>7
  <2>2. ~io_failed => r.code < 0
    BY <1>1, <1>2, <1>4, <1>7, ReadSound
  <2>3. /\ StreamKept
        /\ Live' => Live /\ Passing' = {} /\ Range(reqs') = Range(reqs) /\ r.code < 0
    BY <1>1, <2>1, <2>2, FailsNow
  <2>4. Live' => Passing = {}
    BY <1>2, <1>6, <2>3
  <2>5. HandlesOwned => HandlesOwned'
    BY <1>1, <2>1, <2>3, <2>4, HandlesKept
  <2>. QED  BY <1>1, <1>5, <2>1, <2>3, <2>5, KeepsAll DEF Kept
<1>8. CASE res.ok
  <2>. DEFINE c == [call EXCEPT !.handle = res.handle, !.sel = res.sel,
                                !.total = res.total, !.rows = res.rows]
  <2>1. /\ r.code \in Nat /\ cas_info' = r.cas /\ res.handle = r.code
        /\ res.sel \in BOOLEAN /\ res.total \in Nat /\ res.rows \in Seq(Nat)
    BY <1>3, <1>4, <1>8 DEF Reads
  <2>2. c \in Calls /\ c.op = call.op /\ c.no = call.no /\ c.handle = r.code
    BY <2>1, Typing DEF Calls
  <2>3. \/ /\ call.op = "query" /\ FetchNext(c)
           /\ abandoned' = abandoned \cup (IF up \/ res.handle = 0 THEN {} ELSE {res.handle})
        \/ call.op = "query" /\ FinishQuery(c) /\ UNCHANGED abandoned
        \/ /\ call.op # "query" /\ res.handle > 0 /\ CloseQueryHandle(c, res.handle)
           /\ UNCHANGED abandoned
        \/ /\ call.op # "query" /\ ~(res.handle > 0) /\ Return(c, "ok")
           /\ UNCHANGED <<up, reqs, sent, io_failed, io_reported, abandoned>>
    BY <1>3, <1>8
  <2>. HIDE DEF c
  <2>4. Ready(c) /\ Succeeded(c)
    BY <1>1, <2>1, <2>2, ReadyNow
  <2>5. /\ StreamKept
        /\ Live' => /\ Live /\ Passing' = {r.code} \ {0} /\ abandoned' = abandoned
                    /\ \A q \in Range(reqs') : q \in Range(reqs) \/ q.no = sent + 1
    <3>1. CASE call.op = "query" /\ FetchNext(c)
      <4>1. /\ StreamKept
            /\ Live' => /\ Live /\ Passing' = {c.handle} \ {0}
                        /\ \A q \in Range(reqs') : q.no = sent + 1
        BY <2>2, <2>4, <3>1, FetchingOn
      <4>2. Live => abandoned' = abandoned
        BY <2>3, <3>1 DEF Live
      <4>. QED  BY <2>2, <4>1, <4>2
    <3>2. CASE call.op = "query" /\ FinishQuery(c) /\ UNCHANGED abandoned
      BY <2>2, <2>4, <3>2, Finishing
    <3>3. CASE call.op # "query" /\ res.handle > 0 /\ CloseQueryHandle(c, res.handle) /\ UNCHANGED abandoned
      <4>1. res.handle \in Nat \ {0}
        BY <2>1, <3>3
      <4>2. /\ StreamKept
            /\ Live' => /\ Live /\ Passing' = {res.handle}
                        /\ \A q \in Range(reqs') : q.no = sent + 1
        BY <2>4, <3>3, <4>1, CleaningUp
      <4>. QED  BY <2>1, <3>3, <4>1, <4>2
    <3>4. CASE /\ call.op # "query" /\ ~(res.handle > 0) /\ Return(c, "ok")
               /\ UNCHANGED <<up, reqs, sent, io_failed, io_reported, abandoned>>
      <4>1. StreamKept /\ (Live' => Live /\ Passing' = {} /\ Range(reqs') = Range(reqs))
        BY <2>4, <3>4, ReturnOk
      <4>2. r.code = 0
        BY <2>1, <3>4
      <4>. QED  BY <3>4, <4>1, <4>2
    <3>. QED  BY <2>3, <3>1, <3>2, <3>3, <3>4
  <2>6. Live' => Passing' = Passing
    BY <1>6, <2>1, <2>5
  <2>7. HandlesOwned => HandlesOwned'
    BY <1>1, <2>5, <2>6, HandlesKept
  <2>8. abandoned' \subseteq Nat \ {0}
    BY <1>5, <2>1, <2>3
  <2>. QED  BY <1>1, <2>5, <2>7, <2>8, KeepsAll DEF Kept
<1>. QED  BY <1>4, <1>7, <1>8

(* The answer to EXECUTE.                                                  *)
LEMMA RecvExecuteKeeps == ASSUME SessionInv, RecvExecute PROVE Kept
<1>. DEFINE r == Head(resps)
<1>1. /\ call.wait = "EXECUTE" /\ call.wait # "none"
      /\ resps # <<>> /\ resps' = Tail(resps)
      /\ UNCHANGED <<conn, auto_commit, stmts, handles, tran, calls, done, abandoned>>
      /\ calls' \in 0 .. MaxCalls /\ stmts' \subseteq [handle : Nat, sel : BOOLEAN]
      /\ abandoned' \subseteq Nat \ {0}
  BY DEF RecvExecute, ExecuteRead, RecvFramed, server, SessionInv, TypeOK
<1>2. r \in Responses /\ r.code \in Int /\ (~io_failed => r.fc = call.wait)
  BY <1>1, Reading
<1>3. PICK res \in ParseExecute(r) :
         \/ ~res.ok /\ CallFails
         \/ /\ res.ok
            /\ cas_info' = res.cas
            /\ LET c == [call EXCEPT !.total = res.total, !.rows = res.rows]
               IN IF call.op = "stmt_query" /\ NeedsMore(c) THEN FetchNext(c)
                  ELSE /\ Return(c, "ok")
                       /\ UNCHANGED <<up, reqs, sent, io_failed, io_reported>>
  BY DEF RecvExecute, ExecuteRead
<1>4. Reads(res, r) /\ (r.fc = "EXECUTE" => (res.ok <=> r.code >= 0))
  BY <1>2, ParseExecuteSound
<1>5. Passing = {}
  BY <1>1 DEF Passing
<1>6. /\ StreamKept
      /\ Live' => /\ Live /\ Passing' = {}
                  /\ \A q \in Range(reqs') : q \in Range(reqs) \/ q.no = sent + 1
  <2>1. CASE ~res.ok
    <3>1. CallFails
      BY <1>3, <2>1
    <3>2. ~io_failed => r.code < 0
      BY <1>1, <1>2, <1>4, <2>1
    <3>. QED  BY <1>1, <3>1, <3>2, FailsNow
  <2>2. CASE res.ok
    <3>. DEFINE c == [call EXCEPT !.total = res.total, !.rows = res.rows]
    <3>1. r.code \in Nat /\ cas_info' = r.cas /\ res.total \in Nat /\ res.rows \in Seq(Nat)
      BY <1>3, <1>4, <2>2 DEF Reads
    <3>2. c \in Calls /\ c.op = call.op /\ c.no = call.no
      BY <3>1, Typing DEF Calls
    <3>3. \/ call.op = "stmt_query" /\ FetchNext(c)
          \/ Return(c, "ok") /\ UNCHANGED <<up, reqs, sent, io_failed, io_reported>>
      BY <1>3, <2>2
    <3>. HIDE DEF c
    <3>4. Ready(c) /\ Succeeded(c)
      BY <1>1, <3>1, <3>2, ReadyNow
    <3>5. CASE call.op = "stmt_query" /\ FetchNext(c)
      BY <3>2, <3>4, <3>5, FetchingOn
    <3>6. CASE Return(c, "ok") /\ UNCHANGED <<up, reqs, sent, io_failed, io_reported>>
      BY <3>4, <3>6, ReturnOk
    <3>. QED  BY <3>3, <3>5, <3>6
  <2>. QED  BY <1>4, <2>1, <2>2
<1>7. HandlesOwned => HandlesOwned'
  BY <1>1, <1>5, <1>6, HandlesKept
<1>. QED  BY <1>1, <1>6, <1>7, KeepsAll DEF Kept

(* The answer to FETCH.                                                    *)
LEMMA RecvFetchKeeps == ASSUME SessionInv, RecvFetch PROVE Kept
<1>. DEFINE r == Head(resps)
<1>1. /\ call.wait = "FETCH" /\ call.wait # "none"
      /\ resps # <<>> /\ resps' = Tail(resps)
      /\ UNCHANGED <<conn, auto_commit, stmts, handles, tran, calls, done>>
      /\ calls' \in 0 .. MaxCalls /\ stmts' \subseteq [handle : Nat, sel : BOOLEAN]
  BY DEF RecvFetch, FetchRead, RecvFramed, server, SessionInv, TypeOK
<1>2. r \in Responses /\ r.code \in Int /\ (~io_failed => r.fc = call.wait)
  BY <1>1, Reading
<1>3. PICK res \in ParseFetch(r) :
         \/ ~res.ok /\ CallFails /\ abandoned' = abandoned \cup Orphans
         \/ /\ res.ok
            /\ cas_info' = res.cas
            /\ LET c == [call EXCEPT !.rows = @ \o res.rows]
               IN IF res.rows # <<>> /\ NeedsMore(c)
                     THEN /\ FetchNext(c)
                          /\ abandoned' = abandoned \cup (IF up THEN {} ELSE Orphans)
                     ELSE /\ FinishQuery(c)
                          /\ UNCHANGED abandoned
  BY DEF RecvFetch, FetchRead
<1>4. Reads(res, r) /\ (r.fc = "FETCH" => res = IF r.code < 0 THEN Failed ELSE Read(r))
  BY <1>2, ParseFetchSound
<1>5. Passing = (IF call.op = "query" THEN {call.handle} \ {0} ELSE {}) /\ Orphans = Passing
  <2>1. call.handle \in Nat
    BY Typing DEF Calls
  <2>2. Passing = (IF call.op = "query" THEN {call.handle} \ {0} ELSE {})
    BY <1>1 DEF Passing
  <2>3. CASE call.op = "query" /\ call.handle > 0
    <3>1. Orphans = {call.handle} /\ call.handle # 0
      BY <2>1, <2>3 DEF Orphans
    <3>. QED  BY <2>2, <2>3, <3>1
  <2>4. CASE ~(call.op = "query" /\ call.handle > 0)
    <3>1. Orphans = {} /\ (call.op = "query" => call.handle = 0)
      BY <2>1, <2>4 DEF Orphans
    <3>. QED  BY <2>2, <3>1
  <2>. QED  BY <2>3, <2>4
<1>6. abandoned \subseteq Nat \ {0} /\ abandoned' \subseteq Nat \ {0}
  BY <1>3, <1>5, Typing DEF SessionInv, TypeOK, Calls
<1>7. CASE ~res.ok
  <2>1. CallFails /\ abandoned' = abandoned \cup Passing
    BY <1>3, <1>5, <1>7
  <2>2. ~io_failed => r.code < 0
    BY <1>1, <1>2, <1>4, <1>7, ReadSound
  <2>3. StreamKept /\ (Live' => Live /\ Passing' = {} /\ Range(reqs') = Range(reqs))
    BY <1>1, <2>1, <2>2, FailsNow
  <2>4. ASSUME HandlesOwned PROVE HandlesOwned'
    <3>1. Known' = Known \cup Passing
      BY <1>1, <2>1 DEF Known
    <3>2. ASSUME Live' PROVE \A s \in stmts' : s.handle \notin abandoned'
      <4>1. \A s \in stmts : s.handle \in Known
        BY DEF Known
      <4>. QED  BY <1>1, <2>1, <2>3, <2>4, <3>2, <4>1 DEF HandlesOwned
    <3>. QED  BY <1>1, <2>3, <2>4, <3>1, <3>2 DEF HandlesOwned
  <2>. QED  BY <1>1, <1>6, <2>3, <2>4, KeepsAll DEF Kept
<1>8. CASE res.ok
  <2>. DEFINE c == [call EXCEPT !.rows = @ \o res.rows]
  <2>1. r.code \in Nat /\ cas_info' = r.cas /\ res.rows \in Seq(Nat)
    BY <1>3, <1>4, <1>8 DEF Reads
  <2>2. c \in Calls /\ c.op = call.op /\ c.no = call.no /\ c.handle = call.handle
    <3>1. call.rows \in Seq(Nat)
      BY Typing DEF Calls
    <3>2. call.rows \o res.rows \in Seq(Nat)
      BY <2>1, <3>1, ConcatProperties
    <3>. QED  BY <3>2, Typing DEF Calls
  <2>3. \/ FetchNext(c) /\ abandoned' = abandoned \cup (IF up THEN {} ELSE Orphans)
        \/ FinishQuery(c) /\ UNCHANGED abandoned
    BY <1>3, <1>8
  <2>. HIDE DEF c
  <2>4. Ready(c) /\ Succeeded(c)
    BY <1>1, <2>1, <2>2, ReadyNow
  <2>5. /\ StreamKept
        /\ Live' => /\ Live /\ Passing' = Passing /\ abandoned' = abandoned
                    /\ \A q \in Range(reqs') : q \in Range(reqs) \/ q.no = sent + 1
    <3>1. CASE FetchNext(c) /\ abandoned' = abandoned \cup (IF up THEN {} ELSE Orphans)
      <4>1. /\ StreamKept
            /\ Live' => /\ Live /\ Passing' = Passing
                        /\ \A q \in Range(reqs') : q.no = sent + 1
        BY <1>5, <2>2, <2>4, <3>1, FetchingOn
      <4>2. Live => abandoned' = abandoned
        BY <3>1 DEF Live
      <4>. QED  BY <4>1, <4>2
    <3>2. CASE FinishQuery(c) /\ UNCHANGED abandoned
      BY <1>5, <2>2, <2>4, <3>2, Finishing
    <3>. QED  BY <2>3, <3>1, <3>2
  <2>6. HandlesOwned => HandlesOwned'
    BY <1>1, <2>5, HandlesKept
  <2>. QED  BY <1>1, <1>6, <2>5, <2>6, KeepsAll DEF Kept
<1>. QED  BY <1>4, <1>7, <1>8

(* The answer to PREPARE: a new Statement.                                 *)
LEMMA RecvPrepareKeeps == ASSUME SessionInv, RecvPrepare PROVE Kept
<1>. DEFINE r == Head(resps)
<1>1. /\ call.wait = "PREPARE" /\ call.wait # "none"
      /\ resps # <<>> /\ resps' = Tail(resps)
      /\ UNCHANGED <<conn, auto_commit, handles, tran, calls, done, abandoned>>
      /\ calls' \in 0 .. MaxCalls /\ stmts \subseteq [handle : Nat, sel : BOOLEAN]
      /\ abandoned' \subseteq Nat \ {0}
  BY DEF RecvPrepare, PrepareRead, RecvFramed, server, SessionInv, TypeOK
<1>2. /\ r \in Responses /\ r.code \in Int /\ r \in Range(resps)
      /\ ~io_failed => r.fc = call.wait /\ Range(resps) = {r}
  BY <1>1, Reading
<1>3. PICK res \in ParsePrepare(r) :
         \/ ~res.ok /\ CallFails /\ UNCHANGED stmts
         \/ /\ res.ok
            /\ cas_info' = res.cas
            /\ stmts' = stmts \cup {[handle |-> res.handle, sel |-> res.sel]}
            /\ Return(call, "ok")
            /\ UNCHANGED <<up, reqs, sent, io_failed, io_reported>>
  BY DEF RecvPrepare, PrepareRead
<1>4. /\ Reads(res, r) /\ (res.ok => res.handle = r.code)
      /\ r.fc = "PREPARE" => res = IF r.code < 0 THEN Failed ELSE Read(r)
  BY <1>2, ParsePrepareSound
<1>5. Live => Passing = {r.code} \cap (Nat \ {0})
  BY <1>1, <1>2 DEF Live, Passing
<1>6. CASE ~res.ok
  <2>1. CallFails /\ UNCHANGED stmts
    BY <1>3, <1>6
  <2>2. ~io_failed => r.code < 0
    BY <1>1, <1>2, <1>4, <1>6, ReadSound
  <2>3. /\ StreamKept
        /\ Live' => Live /\ Passing' = {} /\ Range(reqs') = Range(reqs) /\ r.code < 0
    BY <1>1, <2>1, <2>2, FailsNow
  <2>4. Live' => Passing = {}
    BY <1>2, <1>5, <2>3
  <2>5. HandlesOwned => HandlesOwned'
    BY <1>1, <2>1, <2>3, <2>4, HandlesKept
  <2>. QED  BY <1>1, <2>1, <2>3, <2>5, KeepsAll DEF Kept
<1>7. CASE res.ok
  <2>. DEFINE s == [handle |-> r.code, sel |-> res.sel]
  <2>1. /\ r.code \in Nat /\ cas_info' = r.cas /\ res.sel \in BOOLEAN
        /\ stmts' = stmts \cup {s}
        /\ Return(call, "ok") /\ UNCHANGED <<up, reqs, sent, io_failed, io_reported>>
    BY <1>3, <1>4, <1>7 DEF Reads
  <2>2. Ready(call) /\ Succeeded(call)
    BY <1>1, <2>1, Typing, ReadyNow
  <2>3. StreamKept /\ (Live' => Live /\ Passing' = {} /\ Range(reqs') = Range(reqs))
    BY <2>1, <2>2, ReturnOk
  <2>4. stmts' \subseteq [handle : Nat, sel : BOOLEAN]
    BY <1>1, <2>1
  <2>5. ASSUME HandlesOwned PROVE HandlesOwned'
    <3>1. SUFFICES ASSUME Live'
                   PROVE  /\ DOMAIN handles' = Known' \cup Passing'
                          /\ Known' \cap Passing' = {}
                          /\ \A t, u \in stmts' : t.handle = u.handle => t = u
                          /\ \A t \in stmts' : t.handle \notin abandoned'
                          /\ \A q \in Range(reqs') : q.no \notin DOMAIN handles'
      BY DEF HandlesOwned
    <3>2. Live /\ Passing' = {} /\ Range(reqs') = Range(reqs)
      BY <2>3, <3>1
    <3>3. r.code # 0
      BY <1>1, <1>2, <3>2 DEF Live, SessionInv, FramesSound
    <3>4. Passing = {r.code} /\ s.handle = r.code
      BY <1>5, <2>1, <3>2, <3>3
    <3>5. Known' = Known \cup {r.code}
      BY <1>1, <2>1, <3>4 DEF Known
    <3>6. r.code \notin Known
      BY <2>5, <3>2, <3>4 DEF HandlesOwned
    <3>7. r.code \notin abandoned /\ \A t \in stmts : t.handle # r.code
      BY <3>6 DEF Known
    <3>. HIDE DEF s
    <3>8. \A t, u \in stmts' : t.handle = u.handle => t = u
      BY <2>1, <2>5, <3>2, <3>4, <3>7 DEF HandlesOwned
    <3>9. \A t \in stmts' : t.handle \notin abandoned'
      BY <1>1, <2>1, <2>5, <3>2, <3>4, <3>7 DEF HandlesOwned
    <3>. QED  BY <1>1, <2>5, <3>2, <3>4, <3>5, <3>8, <3>9 DEF HandlesOwned
  <2>. QED  BY <1>1, <2>3, <2>4, <2>5, KeepsAll DEF Kept
<1>. QED  BY <1>4, <1>6, <1>7

(* The answers that carry nothing: to END_TRAN and to GET_DB_VERSION.      *)
LEMMA RecvSimpleKeeps == ASSUME SessionInv, RecvEndTran \/ RecvVersion PROVE Kept
<1>. DEFINE r == Head(resps)
<1>1. /\ call.wait \in {"END_TRAN", "GET_DB_VERSION"} /\ call.wait # "none"
      /\ resps # <<>> /\ resps' = Tail(resps)
      /\ UNCHANGED <<conn, auto_commit, stmts, handles, tran, calls, done, abandoned>>
      /\ calls' \in 0 .. MaxCalls /\ stmts' \subseteq [handle : Nat, sel : BOOLEAN]
      /\ abandoned' \subseteq Nat \ {0}
  BY DEF RecvEndTran, RecvVersion, SimpleRead, RecvFramed, server, SessionInv, TypeOK
<1>2. r \in Responses /\ r.code \in Int /\ (~io_failed => r.fc = call.wait)
  BY <1>1, Reading
<1>3. \/ CallFails /\ (~io_failed => r.code < 0)
      \/ /\ r.code \in Nat /\ cas_info' = r.cas
         /\ Return(call, "ok") /\ UNCHANGED <<up, reqs, sent, io_failed, io_reported>>
  <2>1. CASE RecvEndTran
    <3>1. PICK res \in ParseSimple(r) :
             \/ ~res.ok /\ CallFails
             \/ /\ res.ok
                /\ cas_info' = res.cas
                /\ Return(call, "ok")
                /\ UNCHANGED <<up, reqs, sent, io_failed, io_reported>>
      BY <2>1 DEF RecvEndTran, SimpleRead
    <3>2. Reads(res, r) /\ res = IF r.code < 0 THEN Failed ELSE Read(r)
      BY <1>2, ParseSimpleSound
    <3>3. ~res.ok => r.code < 0
      BY <1>2, <3>2, ReadSound
    <3>. QED  BY <3>1, <3>2, <3>3 DEF Reads
  <2>2. CASE RecvVersion
    <3>1. PICK res \in ParseGetDbVersion(r) :
             \/ ~res.ok /\ CallFails
             \/ /\ res.ok
                /\ cas_info' = res.cas
                /\ Return(call, "ok")
                /\ UNCHANGED <<up, reqs, sent, io_failed, io_reported>>
      BY <2>2 DEF RecvVersion, SimpleRead
    <3>2. /\ Reads(res, r)
          /\ r.fc = "GET_DB_VERSION" => res = IF r.code < 0 THEN Failed ELSE Read(r)
      BY <1>2, ParseVersionSound
    <3>3. call.wait = "GET_DB_VERSION"
      BY <2>2 DEF RecvVersion, SimpleRead, RecvFramed
    <3>4. ~res.ok /\ ~io_failed => r.code < 0
      BY <1>2, <3>2, <3>3, ReadSound
    <3>. QED  BY <3>1, <3>2, <3>4 DEF Reads
  <2>. QED  BY <2>1, <2>2
<1>4. StreamKept /\ (Live' => Live /\ Passing' = {} /\ Range(reqs') = Range(reqs))
  <2>1. CASE CallFails /\ (~io_failed => r.code < 0)
    BY <1>1, <2>1, FailsNow
  <2>2. CASE /\ r.code \in Nat /\ cas_info' = r.cas
             /\ Return(call, "ok") /\ UNCHANGED <<up, reqs, sent, io_failed, io_reported>>
    <3>1. Ready(call) /\ Succeeded(call)
      BY <1>1, <2>2, Typing, ReadyNow
    <3>. QED  BY <2>2, <3>1, ReturnOk
  <2>. QED  BY <1>3, <2>1, <2>2
<1>5. Passing = {}
  BY <1>1 DEF Passing
<1>6. HandlesOwned => HandlesOwned'
  BY <1>1, <1>4, <1>5, HandlesKept
<1>. QED  BY <1>1, <1>4, <1>6, KeepsAll DEF Kept

(* close_query_handle reads its answer and drops it.                       *)
LEMMA RecvCloseHandleKeeps == ASSUME SessionInv, RecvCloseHandle PROVE Kept
<1>. DEFINE r == Head(resps)
<1>1. /\ call.wait = "CLOSE_REQ_HANDLE" /\ call.wait # "none"
      /\ resps # <<>> /\ resps' = Tail(resps) /\ Return(call, "ok")
      /\ UNCHANGED <<conn, cas_info, auto_commit, stmts, up, reqs, handles, tran, calls, sent,
                     done, io_failed, io_reported, abandoned>>
      /\ calls' \in 0 .. MaxCalls /\ stmts' \subseteq [handle : Nat, sel : BOOLEAN]
      /\ abandoned' \subseteq Nat \ {0}
  BY DEF RecvCloseHandle, CloseHandleRead, RecvFramed, server, SessionInv, TypeOK
<1>2. /\ resps' \in Seq(Responses) /\ Range(resps') \subseteq Range(resps)
      /\ ~io_failed => /\ resps' = <<>> /\ r.fc = "CLOSE_REQ_HANDLE"
                       /\ up => reqs = <<>>
      /\ ~io_failed /\ up => \A d \in done : d.fc # "CLOSE_REQ_HANDLE" =>
                               d.no <= cas_info \/ d.fc = r.fc
  BY <1>1, Reading
<1>3. Ready(call) /\ Succeeded(call)
  BY <1>1, <1>2, UnderWay, Typing DEF Ready
<1>4. StreamKept /\ (Live' => Live /\ Passing' = {} /\ Range(reqs') = Range(reqs))
  BY <1>1, <1>3, ReturnOk
<1>5. Live => Passing = {}
  BY <1>1, <1>2, QueueEmpty DEF Passing, Live
<1>6. HandlesOwned => HandlesOwned'
  BY <1>1, <1>4, <1>5, HandlesKept
<1>. QED  BY <1>1, <1>4, <1>6, KeepsAll DEF Kept

(* The read fails.                                                         *)
LEMMA RecvFailsKeeps == ASSUME SessionInv, RecvFails PROVE Kept
<1>1. /\ call.wait # "none" /\ resps = <<>> /\ io_failed' = TRUE
      /\ UNCHANGED <<conn, cas_info, auto_commit, stmts, up, reqs, resps, handles, tran, calls,
                     sent, done>>
      /\ calls' \in 0 .. MaxCalls /\ stmts' \subseteq [handle : Nat, sel : BOOLEAN]
  BY DEF RecvFails, ReadFails, stream, server, SessionInv, TypeOK
<1>2. PICK status \in {"ok", "io_error"} : Return(call, status)
  BY DEF RecvFails, ReadFails
<1>3. io_reported' \in BOOLEAN /\ abandoned' \subseteq Nat \ {0}
  <2>1. call.handle \in Nat
    BY Typing DEF Calls
  <2>2. Orphans \subseteq Nat \ {0}
    BY <2>1 DEF Orphans
  <2>3. \/ UNCHANGED <<io_reported, abandoned>>
        \/ io_reported' = TRUE /\ abandoned' = abandoned \cup Orphans
    BY DEF RecvFails, ReadFails
  <2>4. io_reported \in BOOLEAN /\ abandoned \subseteq Nat \ {0}
    BY DEF SessionInv, TypeOK
  <2>. QED  BY <2>2, <2>3, <2>4
<1>4. call' = NoCall /\ last' \in Results
  BY <1>2, Typing DEF Return, Results, Calls
<1>5. /\ \A r \in Range(reqs') \cup Range(resps') \cup done' : r.no <= sent'
      /\ FramesSound' /\ StreamInStep' /\ CallInStep' /\ CasInfoKnown' /\ CasInfoSent'
      /\ call' \in Calls /\ call'.op = "none" /\ call'.wait = "none"
  BY <1>1, <1>4, Typing, Returning
<1>6. OkMeansDone' /\ HandlesOwned'
  BY <1>1 DEF OkMeansDone, HandlesOwned, Live
<1>7. StreamKept
  BY <1>1, <1>3, <1>4, <1>5, <1>6, Typing DEF StreamKept, SessionInv, TypeOK
<1>. QED  BY <1>1, <1>3, <1>6, <1>7, KeepsAll DEF Kept

-----------------------------------------------------------------------------
(* The server's steps *)

(* Handles are named by requests, and keep what they were opened for.      *)
HandlesTyped(hs) ==
    /\ DOMAIN hs \subseteq 1 .. sent
    /\ \A h \in DOMAIN hs : hs[h] \in [sel : BOOLEAN, total : 0 .. MaxRows]

(* The handle an answer tells the client about. *)
Told(a) == {a.code} \cap (Nat \ {0})

(* An answer names its request, and only PREPARE and PREPARE_AND_EXECUTE   *)
(* open a handle, the one the answer tells.                                *)
LEMMA ServedKeeps ==
    ASSUME SessionInv, NEW a \in Responses, reqs # <<>>, reqs' = Tail(reqs),
           Head(reqs).fc # "CON_CLOSE",
           a.no = Head(reqs).no, a.fc = Head(reqs).fc, a.cas = a.no,
           a.fc = "PREPARE" => a.code # 0,
           Answer(a), Unaffected, tran' \in {"none", "open"}, HandlesTyped(handles'),
           a.fc \in {"PREPARE", "PREPARE_AND_EXECUTE"} =>
              DOMAIN handles' = DOMAIN handles \cup Told(a) /\ Told(a) \subseteq {a.no},
           a.fc = "CLOSE_REQ_HANDLE" => DOMAIN handles' = DOMAIN handles \ {Head(reqs).handle},
           a.fc \notin {"PREPARE", "PREPARE_AND_EXECUTE", "CLOSE_REQ_HANDLE"} =>
              DOMAIN handles' = DOMAIN handles
    PROVE  Kept
<1>. DEFINE q == Head(reqs)
<1>1. /\ reqs' \in Seq(Requests) /\ resps' \in Seq(Responses)
      /\ \A r \in Range(reqs') \cup Range(resps') \cup done' : r.no <= sent'
      /\ done' \subseteq [no : Nat \ {0}, fc : FunctionCodes]
      /\ FramesSound' /\ StreamInStep' /\ CallInStep' /\ OkMeansDone'
      /\ CasInfoKnown' /\ CasInfoSent'
      /\ Live' => /\ Live /\ Range(reqs) = {q} /\ Range(reqs') = {}
                  /\ Range(resps) = {} /\ Range(resps') = {a}
                  /\ q.fc = call.wait /\ q.no = sent
  BY Serving
<1>2. /\ UNCHANGED <<conn, cas_info, auto_commit, stmts, call, up, calls, sent, last>>
      /\ UNCHANGED <<io_failed, io_reported, abandoned>>
  BY DEF Unaffected, client
<1>3. ASSUME HandlesOwned PROVE HandlesOwned'
  <2>1. SUFFICES ASSUME Live' PROVE HandlesOwned'
    BY DEF HandlesOwned
  <2>2. /\ Live /\ Range(reqs) = {q} /\ Range(reqs') = {} /\ Range(resps) = {}
        /\ Range(resps') = {a} /\ a.fc = call.wait
    BY <1>1, <2>1
  <2>3. Known' = Known /\ call' = call /\ stmts' = stmts /\ abandoned' = abandoned
    BY <1>2 DEF Known
  <2>4. /\ DOMAIN handles = Known \cup Passing
        /\ Known \cap Passing = {}
        /\ \A s, t \in stmts : s.handle = t.handle => s = t
        /\ \A s \in stmts : s.handle \notin abandoned
        /\ q.no \notin DOMAIN handles
    BY <1>3, <2>2 DEF HandlesOwned
  <2>5. DOMAIN handles' = Known \cup Passing' /\ Known \cap Passing' = {}
    <3>1. CASE a.fc \in {"PREPARE", "PREPARE_AND_EXECUTE"}
      <4>1. Passing = {} /\ Passing' = Told(a)
        BY <2>2, <2>3, <3>1 DEF Passing, Told
      <4>. QED  BY <2>4, <3>1, <4>1
    <3>2. CASE a.fc = "CLOSE_REQ_HANDLE"
      <4>1. Passing = {q.handle} /\ Passing' = {}
        BY <2>2, <2>3, <3>2 DEF Passing
      <4>. QED  BY <2>4, <3>2, <4>1
    <3>3. CASE a.fc \notin {"PREPARE", "PREPARE_AND_EXECUTE", "CLOSE_REQ_HANDLE"}
      <4>1. Passing' = Passing
        BY <2>2, <2>3, <3>3 DEF Passing
      <4>. QED  BY <2>4, <3>3, <4>1
    <3>. QED  BY <3>1, <3>2, <3>3
  <2>. QED  BY <2>2, <2>3, <2>4, <2>5 DEF HandlesOwned
<1>4. TypeOK'
  BY <1>1, <1>2 DEF SessionInv, TypeOK, HandlesTyped
<1>. QED  BY <1>1, <1>3, <1>4 DEF SessionInv, Kept

(* The request at the front of the queue.                                  *)
LEMMA NextRequest ==
    ASSUME SessionInv, reqs # <<>>
    PROVE  /\ Head(reqs) \in Requests /\ Head(reqs) \in Range(reqs)
           /\ Head(reqs).no \in Nat \ {0} /\ Head(reqs).no \in 1 .. sent
           /\ Head(reqs).handle \in Nat /\ Head(reqs).start \in Nat
           /\ AfterWork(Head(reqs)) \in {"none", "open"}
           /\ HandlesTyped(handles)
<1>1. Head(reqs) \in Range(reqs)
  BY Typing, QueuePop
<1>2. Head(reqs) \in Requests /\ Head(reqs).no <= sent /\ sent \in Nat
  BY <1>1, Typing
<1>3. /\ Head(reqs).no \in Nat \ {0} /\ Head(reqs).handle \in Nat
      /\ Head(reqs).start \in Nat
  BY <1>2 DEF Requests
<1>4. Head(reqs).no \in 1 .. sent
  BY <1>2, <1>3
<1>5. HandlesTyped(handles)
  BY DEF SessionInv, TypeOK, HandlesTyped
<1>. QED  BY <1>1, <1>2, <1>3, <1>4, <1>5 DEF AfterWork

LEMMA RowsTyped ==
    ASSUME NEW start \in Nat, NEW n \in Nat
    PROVE  RowsFrom(start, n) \in Seq(Nat) /\ Len(RowsFrom(start, n)) = n
<1>1. \A i \in 1 .. n : start + i - 1 \in Nat
  OBVIOUS
<1>. QED  BY <1>1 DEF RowsFrom

(* An answer is a frame that names its request. *)
Names(a, q, code) ==
    a \in Responses /\ a.no = q.no /\ a.fc = q.fc /\ a.cas = a.no /\ a.code = code

(* The answers the server gives name their requests.                       *)
LEMMA Answered ==
    ASSUME NEW q \in Requests, q.fc # "CUT", NEW code \in Int
    PROVE  /\ Names(Response(q, code), q, code)
           /\ \A rows \in Seq(Nat) : Names([Response(q, code) EXCEPT !.rows = rows], q, code)
           /\ \A sel \in BOOLEAN : Names([Response(q, code) EXCEPT !.sel = sel], q, code)
           /\ \A sel \in BOOLEAN, total \in Nat, rows \in Seq(Nat) :
                 Names([Response(q, code) EXCEPT !.sel = sel, !.total = total, !.rows = rows],
                       q, code)
<1>1. q.no \in Nat \ {0} /\ q.fc \in FunctionCodes
  BY DEF Requests
<1>2. Names(Response(q, code), q, code)
  BY <1>1, EmptySeq DEF Response, Responses, Names
<1>3. \A rows \in Seq(Nat) : Names([Response(q, code) EXCEPT !.rows = rows], q, code)
  BY <1>1 DEF Response, Responses, Names
<1>4. \A sel \in BOOLEAN : Names([Response(q, code) EXCEPT !.sel = sel], q, code)
  BY <1>1, EmptySeq DEF Response, Responses, Names
<1>5. \A sel \in BOOLEAN, total \in Nat, rows \in Seq(Nat) :
         Names([Response(q, code) EXCEPT !.sel = sel, !.total = total, !.rows = rows], q, code)
  BY <1>1 DEF Response, Responses, Names
<1>. QED  BY <1>2, <1>3, <1>4, <1>5

LEMMA HandleOpened ==
    ASSUME NEW h \in 1 .. sent, NEW result \in [sel : BOOLEAN, total : 0 .. MaxRows],
           HandlesTyped(handles)
    PROVE  /\ DOMAIN OpenHandle(h, result) = DOMAIN handles \cup {h}
           /\ HandlesTyped(OpenHandle(h, result))
  BY DEF OpenHandle, HandlesTyped

(* Answers that leave every handle as it is.                               *)
LEMMA AnswerOnly ==
    ASSUME SessionInv, NEW code \in Int, NEW rows \in Seq(Nat),
           NEW a \in {Response(Head(reqs), code), [Response(Head(reqs), code) EXCEPT !.rows = rows]},
           reqs # <<>>, reqs' = Tail(reqs),
           \/ Head(reqs).fc \in {"EXECUTE", "FETCH", "END_TRAN", "GET_DB_VERSION"}
           \/ Head(reqs).fc \notin {"CUT", "CON_CLOSE", "CLOSE_REQ_HANDLE"} /\ code < 0,
           Answer(a), Unaffected, tran' \in {"none", "open"}, UNCHANGED handles
    PROVE  Kept
<1>1. Head(reqs) \in Requests /\ HandlesTyped(handles')
  BY NextRequest DEF HandlesTyped
<1>2. a \in Responses /\ a.no = Head(reqs).no /\ a.fc = Head(reqs).fc /\ a.cas = a.no /\ a.code = code
  <2>1. /\ Names(Response(Head(reqs), code), Head(reqs), code)
        /\ Names([Response(Head(reqs), code) EXCEPT !.rows = rows], Head(reqs), code)
    BY <1>1, Answered, Zenon
  <2>2. Names(a, Head(reqs), code)
    BY <2>1
  <2>. QED  BY <2>2 DEF Names
<1>3. ASSUME code < 0 PROVE Told(a) = {} /\ code # 0
  BY <1>2, <1>3 DEF Told
<1>4. /\ a.fc = "PREPARE" => a.code # 0
      /\ Head(reqs).fc # "CON_CLOSE" /\ a.fc # "CLOSE_REQ_HANDLE"
      /\ a.fc \in {"PREPARE", "PREPARE_AND_EXECUTE"} =>
            DOMAIN handles' = DOMAIN handles \cup Told(a) /\ Told(a) \subseteq {a.no}
      /\ DOMAIN handles' = DOMAIN handles
  BY <1>2, <1>3
<1>. QED  BY <1>1, <1>2, <1>4, ServedKeeps

(* A request is refused.                                                   *)
LEMMA ServerRefusesKeeps == ASSUME SessionInv, ServerRefuses PROVE Kept
<1>1. /\ reqs # <<>> /\ reqs' = Tail(reqs) /\ Unaffected /\ UNCHANGED handles
      /\ Head(reqs).fc \notin {"CUT", "CON_CLOSE", "CLOSE_REQ_HANDLE"}
      /\ Answer(Response(Head(reqs), -1)) /\ tran' \in {"none", "open"}
  BY DEF ServerRefuses, FunctionCodes, server, SessionInv, TypeOK
<1>2. -1 \in Int /\ -1 < 0 /\ <<>> \in Seq(Nat)
  BY QueueEmpty
<1>. QED  BY <1>1, <1>2, AnswerOnly

(* END_TRAN and GET_DB_VERSION.                                            *)
LEMMA ServeSimpleKeeps == ASSUME SessionInv, ServeEndTran \/ ServeVersion PROVE Kept
<1>1. /\ reqs # <<>> /\ reqs' = Tail(reqs) /\ Unaffected /\ UNCHANGED handles
      /\ Head(reqs).fc \in {"EXECUTE", "FETCH", "END_TRAN", "GET_DB_VERSION"}
      /\ Answer(Response(Head(reqs), 0)) /\ tran' \in {"none", "open"}
  BY DEF ServeEndTran, ServeVersion, Serves, server, SessionInv, TypeOK
<1>2. 0 \in Int /\ <<>> \in Seq(Nat)
  BY QueueEmpty
<1>. QED  BY <1>1, <1>2, AnswerOnly

(* EXECUTE: the rows of the statement's result, or an error when the handle *)
(* is not open.                                                            *)
LEMMA ServeExecuteKeeps == ASSUME SessionInv, ServeExecute PROVE Kept
<1>. DEFINE q == Head(reqs)
<1>1. /\ reqs # <<>> /\ reqs' = Tail(reqs) /\ Unaffected /\ UNCHANGED handles
      /\ q.fc \in {"EXECUTE", "FETCH", "END_TRAN", "GET_DB_VERSION"}
  BY DEF ServeExecute, Serves
<1>2. AfterWork(q) \in {"none", "open"} /\ HandlesTyped(handles)
  BY <1>1, NextRequest
<1>3. CASE q.handle \in DOMAIN handles
  <2>. DEFINE total == handles[q.handle].total
  <2>1. total \in Nat
    BY <1>2, <1>3, BoundsAssumption DEF HandlesTyped
  <2>2. PICK n \in {0, SmallerOf(total, FetchSize)} :
           Answer([Response(q, total) EXCEPT !.rows = RowsFrom(1, n)])
    BY <1>3 DEF ServeExecute
  <2>3. tran' \in {"none", "open"}
    BY <1>2, <1>3 DEF ServeExecute
  <2>. HIDE DEF total
  <2>4. n \in Nat
    BY <2>1, BoundsAssumption DEF SmallerOf
  <2>5. RowsFrom(1, n) \in Seq(Nat) /\ total \in Int
    BY <2>1, <2>4, RowsTyped
  <2>. QED  BY <1>1, <2>2, <2>3, <2>5, AnswerOnly
<1>4. CASE q.handle \notin DOMAIN handles
  <2>1. Answer(Response(q, -1)) /\ tran' \in {"none", "open"}
    BY <1>4 DEF ServeExecute, SessionInv, TypeOK
  <2>2. -1 \in Int /\ <<>> \in Seq(Nat)
    BY QueueEmpty
  <2>. QED  BY <1>1, <2>1, <2>2, AnswerOnly
<1>. QED  BY <1>3, <1>4

(* FETCH: rows from the start position on.                                 *)
LEMMA ServeFetchKeeps == ASSUME SessionInv, ServeFetch PROVE Kept
<1>. DEFINE q == Head(reqs)
<1>1. /\ reqs # <<>> /\ reqs' = Tail(reqs) /\ Unaffected /\ UNCHANGED handles
      /\ q.fc \in {"EXECUTE", "FETCH", "END_TRAN", "GET_DB_VERSION"}
      /\ tran' \in {"none", "open"}
  BY DEF ServeFetch, Serves, server, SessionInv, TypeOK
<1>2. q.start \in Nat /\ HandlesTyped(handles)
  BY <1>1, NextRequest
<1>3. CASE q.handle \in DOMAIN handles
  <2>. DEFINE rest == handles[q.handle].total - q.start + 1
              n    == IF rest < 0 THEN 0 ELSE SmallerOf(rest, FetchSize)
  <2>1. handles[q.handle].total \in Nat
    BY <1>2, <1>3, BoundsAssumption DEF HandlesTyped
  <2>2. rest \in Int
    BY <1>2, <2>1
  <2>3. PICK k \in IF ServerErrors THEN {0, n} ELSE {n} :
           Answer([Response(q, 0) EXCEPT !.rows = RowsFrom(q.start, k)])
    BY <1>3 DEF ServeFetch
  <2>. HIDE DEF rest
  <2>4. n \in Nat
    BY <2>2, BoundsAssumption DEF SmallerOf
  <2>. HIDE DEF n
  <2>5. k \in Nat
    BY <2>3, <2>4
  <2>6. RowsFrom(q.start, k) \in Seq(Nat) /\ 0 \in Int
    BY <1>2, <2>5, RowsTyped
  <2>. QED  BY <1>1, <2>3, <2>6, AnswerOnly
<1>4. CASE q.handle \notin DOMAIN handles
  <2>1. Answer(Response(q, -1))
    BY <1>4 DEF ServeFetch
  <2>2. -1 \in Int /\ <<>> \in Seq(Nat)
    BY QueueEmpty
  <2>. QED  BY <1>1, <2>1, <2>2, AnswerOnly
<1>. QED  BY <1>3, <1>4

(* CLOSE_REQ_HANDLE: one handle less.                                      *)
LEMMA ServeCloseHandleKeeps == ASSUME SessionInv, ServeCloseHandle PROVE Kept
<1>. DEFINE q == Head(reqs)
            code == IF q.handle \in DOMAIN handles THEN 0 ELSE -1
            a == Response(q, code)
<1>1. /\ reqs # <<>> /\ reqs' = Tail(reqs) /\ Unaffected
      /\ q.fc = "CLOSE_REQ_HANDLE" /\ Answer(a) /\ tran' \in {"none", "open"}
      /\ handles' = [h \in DOMAIN handles \ {q.handle} |-> handles[h]]
  BY DEF ServeCloseHandle, Serves, SessionInv, TypeOK
<1>2. HandlesTyped(handles) /\ q \in Requests
  BY <1>1, NextRequest
<1>3. DOMAIN handles' = DOMAIN handles \ {q.handle} /\ HandlesTyped(handles')
  BY <1>1, <1>2 DEF HandlesTyped
<1>4. code \in Int
  OBVIOUS
<1>. HIDE DEF code
<1>5. a \in Responses /\ a.no = q.no /\ a.fc = q.fc /\ a.cas = a.no
  <2>1. Names(a, q, code)
    BY <1>1, <1>2, <1>4, Answered
  <2>. QED  BY <2>1 DEF Names
<1>. HIDE DEF a
<1>. QED  BY <1>1, <1>3, <1>5, ServedKeeps

(* PREPARE_AND_EXECUTE: a new handle, named by its request, or none.       *)
LEMMA ServePrepareAndExecuteKeeps == ASSUME SessionInv, ServePrepareAndExecute PROVE Kept
<1>. DEFINE q == Head(reqs)
<1>1. /\ reqs # <<>> /\ reqs' = Tail(reqs) /\ Unaffected
      /\ q.fc = "PREPARE_AND_EXECUTE" /\ tran' = AfterWork(q)
  BY DEF ServePrepareAndExecute, Serves
<1>2. /\ q \in Requests /\ q.no \in Nat \ {0} /\ q.no \in 1 .. sent
      /\ AfterWork(q) \in {"none", "open"} /\ HandlesTyped(handles)
  BY <1>1, NextRequest
<1>3. \/ \E total \in 0 .. MaxRows :
         \E n \in {0, SmallerOf(total, FetchSize)} :
            /\ handles' = OpenHandle(q.no, [sel |-> TRUE, total |-> total])
            /\ Answer([Response(q, q.no) EXCEPT
                         !.sel = TRUE, !.total = total, !.rows = RowsFrom(1, n)])
      \/ \E h \in {0, q.no} :
            /\ handles' = IF h = 0 THEN handles
                          ELSE OpenHandle(h, [sel |-> FALSE, total |-> 0])
            /\ Answer(Response(q, h))
  BY DEF ServePrepareAndExecute
<1>4. CASE \E total \in 0 .. MaxRows :
           \E n \in {0, SmallerOf(total, FetchSize)} :
              /\ handles' = OpenHandle(q.no, [sel |-> TRUE, total |-> total])
              /\ Answer([Response(q, q.no) EXCEPT
                           !.sel = TRUE, !.total = total, !.rows = RowsFrom(1, n)])
  <2>a. PICK total \in 0 .. MaxRows :
           \E n \in {0, SmallerOf(total, FetchSize)} :
              /\ handles' = OpenHandle(q.no, [sel |-> TRUE, total |-> total])
              /\ Answer([Response(q, q.no) EXCEPT
                           !.sel = TRUE, !.total = total, !.rows = RowsFrom(1, n)])
    BY <1>4
  <2>1. PICK n \in {0, SmallerOf(total, FetchSize)} :
           /\ handles' = OpenHandle(q.no, [sel |-> TRUE, total |-> total])
           /\ Answer([Response(q, q.no) EXCEPT
                        !.sel = TRUE, !.total = total, !.rows = RowsFrom(1, n)])
    BY <2>a
  <2>. DEFINE a == [Response(q, q.no) EXCEPT
                      !.sel = TRUE, !.total = total, !.rows = RowsFrom(1, n)]
  <2>2. n \in Nat /\ total \in Nat
    BY BoundsAssumption DEF SmallerOf
  <2>3. RowsFrom(1, n) \in Seq(Nat)
    BY <2>2, RowsTyped
  <2>4. a \in Responses /\ a.no = q.no /\ a.fc = q.fc /\ a.cas = a.no /\ a.code = q.no
    <3>1. q.no \in Int
      BY <1>2
    <3>2. Names(a, q, q.no)
      BY <1>1, <1>2, <2>2, <2>3, <3>1, Answered
    <3>. QED  BY <3>2 DEF Names
  <2>5. DOMAIN handles' = DOMAIN handles \cup {q.no} /\ HandlesTyped(handles')
    <3>1. [sel |-> TRUE, total |-> total] \in [sel : BOOLEAN, total : 0 .. MaxRows]
      OBVIOUS
    <3>2. HandlesTyped(OpenHandle(q.no, [sel |-> TRUE, total |-> total]))
      BY <1>2, <3>1, HandleOpened
    <3>3. DOMAIN OpenHandle(q.no, [sel |-> TRUE, total |-> total]) = DOMAIN handles \cup {q.no}
      BY <1>2, <3>1, HandleOpened
    <3>. QED  BY <2>1, <3>2, <3>3
  <2>6. Answer(a)
    BY <2>1
  <2>. HIDE DEF a
  <2>7. Told(a) = {a.no}
    BY <1>2, <2>4 DEF Told
  <2>. QED  BY <1>1, <1>2, <2>4, <2>5, <2>6, <2>7, ServedKeeps
<1>5. CASE \E h \in {0, q.no} :
              /\ handles' = IF h = 0 THEN handles
                            ELSE OpenHandle(h, [sel |-> FALSE, total |-> 0])
              /\ Answer(Response(q, h))
  <2>1. PICK h \in {0, q.no} :
              /\ handles' = IF h = 0 THEN handles
                            ELSE OpenHandle(h, [sel |-> FALSE, total |-> 0])
              /\ Answer(Response(q, h))
    BY <1>5
  <2>. DEFINE a == Response(q, h)
  <2>2. h \in Nat
    BY <1>2
  <2>3. a \in Responses /\ a.no = q.no /\ a.fc = q.fc /\ a.cas = a.no /\ a.code = h
    <3>1. h \in Int
      BY <2>2
    <3>2. Names(a, q, h)
      BY <1>1, <1>2, <3>1, Answered
    <3>. QED  BY <3>2 DEF Names
  <2>. HIDE DEF a
  <2>4. Told(a) = {h} \ {0} /\ Told(a) \subseteq {a.no}
    BY <1>2, <2>2, <2>3 DEF Told
  <2>5. DOMAIN handles' = DOMAIN handles \cup Told(a) /\ HandlesTyped(handles')
    <3>1. CASE h = 0
      <4>1. handles' = handles /\ Told(a) = {}
        BY <2>1, <2>4, <3>1
      <4>. QED  BY <1>2, <4>1
    <3>2. CASE h # 0
      <4>1. h = q.no /\ handles' = OpenHandle(h, [sel |-> FALSE, total |-> 0]) /\ Told(a) = {h}
        BY <2>1, <2>4, <3>2
      <4>2. [sel |-> FALSE, total |-> 0] \in [sel : BOOLEAN, total : 0 .. MaxRows]
        BY BoundsAssumption
      <4>3. /\ DOMAIN OpenHandle(h, [sel |-> FALSE, total |-> 0]) = DOMAIN handles \cup {h}
            /\ HandlesTyped(OpenHandle(h, [sel |-> FALSE, total |-> 0]))
        BY <1>2, <4>1, <4>2, HandleOpened
      <4>. QED  BY <4>1, <4>3
    <3>. QED  BY <3>1, <3>2
  <2>6. Answer(a)
    BY <2>1 DEF a
  <2>. QED  BY <1>1, <1>2, <2>3, <2>4, <2>5, <2>6, ServedKeeps
<1>. QED  BY <1>3, <1>4, <1>5

(* PREPARE: a new handle, named by its request.                            *)
LEMMA ServePrepareKeeps == ASSUME SessionInv, ServePrepare PROVE Kept
<1>. DEFINE q == Head(reqs)
<1>1. /\ reqs # <<>> /\ reqs' = Tail(reqs) /\ Unaffected
      /\ q.fc = "PREPARE" /\ tran' \in {"none", "open"}
  BY DEF ServePrepare, Serves, SessionInv, TypeOK
<1>2. /\ q \in Requests /\ q.no \in Nat \ {0} /\ q.no \in 1 .. sent /\ HandlesTyped(handles)
  BY <1>1, NextRequest
<1>3. PICK sel \in BOOLEAN, total \in 0 .. MaxRows :
         /\ handles' = OpenHandle(q.no, [sel |-> sel, total |-> total])
         /\ Answer([Response(q, q.no) EXCEPT !.sel = sel])
  BY BoundsAssumption DEF ServePrepare
<1>. DEFINE a == [Response(q, q.no) EXCEPT !.sel = sel]
<1>4. a \in Responses /\ a.no = q.no /\ a.fc = q.fc /\ a.cas = a.no /\ a.code = q.no
  <2>1. q.no \in Int
    BY <1>2
  <2>2. Names(a, q, q.no)
    BY <1>1, <1>2, <2>1, Answered
  <2>. QED  BY <2>2 DEF Names
<1>5. DOMAIN handles' = DOMAIN handles \cup {q.no} /\ HandlesTyped(handles')
  <2>1. [sel |-> sel, total |-> total] \in [sel : BOOLEAN, total : 0 .. MaxRows]
    OBVIOUS
  <2>2. /\ DOMAIN OpenHandle(q.no, [sel |-> sel, total |-> total]) = DOMAIN handles \cup {q.no}
        /\ HandlesTyped(OpenHandle(q.no, [sel |-> sel, total |-> total]))
    BY <1>2, <2>1, HandleOpened
  <2>. QED  BY <1>3, <2>2
<1>6. Answer(a)
  BY <1>3
<1>. HIDE DEF a
<1>7. Told(a) = {a.no} /\ a.code # 0
  BY <1>2, <1>4 DEF Told
<1>. QED  BY <1>1, <1>4, <1>5, <1>6, <1>7, ServedKeeps

-----------------------------------------------------------------------------
(* The invariant, and what follows from it *)

(* The invariant's sets of frames are the sequences of InStep.             *)
LEMMA SessionInStep == ASSUME SessionInv PROVE InStep
<1>1. /\ \A i \in DOMAIN reqs : reqs[i] \in Range(reqs)
      /\ \A i \in DOMAIN resps : resps[i] \in Range(resps)
  BY DEF Range
<1>. QED  BY <1>1 DEF SessionInv, StreamInStep, InStep

(* Between calls no handle is open for a call alone.                       *)
LEMMA OwnedResolve ==
    ASSUME SessionInv, HandlesOwned
    PROVE  HandlesAccounted /\ StatementsUsable
<1>1. ASSUME call.op = "none", conn, up, ~io_failed
      PROVE  DOMAIN handles = {s.handle : s \in stmts} \cup abandoned
  <2>1. Passing = {}
    BY <1>1, AtRest DEF Passing
  <2>. QED  BY <1>1, <2>1 DEF HandlesOwned, Live, Known
<1>2. StatementsUsable
  <2>1. \A s \in stmts : s.handle \in Known
    BY DEF Known
  <2>. QED  BY <2>1 DEF HandlesOwned, StatementsUsable, Live
<1>. QED  BY <1>1, <1>2 DEF HandlesAccounted

LEMMA InitInv == Init => IInv
<1>1. SUFFICES ASSUME Init PROVE IInv
  OBVIOUS
<1>2. /\ reqs = <<>> /\ resps = <<>> /\ Range(reqs) = {} /\ Range(resps) = {}
      /\ Len(reqs) = 0 /\ Len(resps) = 0 /\ DOMAIN handles = {}
  BY <1>1, QueueEmpty DEF Init
<1>3. /\ call \in Calls /\ call.op = "none" /\ call.wait = "none" /\ last \in Results
      /\ last.status = "none"
  BY <1>1, EmptySeq DEF Init, NoCall, NoResult, Calls, Results, FunctionCodes
<1>4. TypeOK
  <2>1. /\ reqs \in Seq(Requests) /\ resps \in Seq(Responses) /\ tran \in {"none", "open"}
        /\ cas_info \in 0 .. sent /\ calls \in 0 .. MaxCalls /\ sent \in 0 .. MaxSent
    BY <1>1, QueueEmpty, BoundsAssumption DEF Init
  <2>2. /\ conn \in BOOLEAN /\ auto_commit \in BOOLEAN /\ up \in BOOLEAN /\ io_failed \in BOOLEAN
        /\ io_reported \in BOOLEAN /\ stmts = {} /\ done = {} /\ abandoned = {}
    BY <1>1 DEF Init
  <2>3. \A r \in Range(reqs) \cup Range(resps) \cup done : r.no <= sent
    BY <1>2, <2>2
  <2>4. /\ DOMAIN handles \subseteq 1 .. sent
        /\ \A h \in DOMAIN handles : handles[h] \in [sel : BOOLEAN, total : 0 .. MaxRows]
    BY <1>2
  <2>. QED  BY <1>3, <2>1, <2>2, <2>3, <2>4 DEF TypeOK
<1>5. FramesSound /\ StreamInStep /\ CallInStep /\ OkMeansDone /\ CasInfoKnown /\ CasInfoSent
  BY <1>1, <1>2, <1>3
     DEF Init, FramesSound, StreamInStep, CallInStep, OkMeansDone, CasInfoKnown, CasInfoSent,
         FirstCodes, FunctionCodes
<1>6. Known = {} /\ Passing = {}
  BY <1>1, <1>3 DEF Init, Known, Passing
<1>7. HandlesOwned
  BY <1>1, <1>2, <1>6 DEF Init, HandlesOwned
<1>. QED  BY <1>4, <1>5, <1>7 DEF IInv, SessionInv

(* Nothing happens on the connection.                                      *)
LEMMA StutterKeeps ==
    ASSUME SessionInv, Forgets,
           UNCHANGED <<conn, cas_info, auto_commit, stmts, call, up, reqs, resps, handles, tran>>,
           UNCHANGED <<calls, sent, done, io_failed, io_reported, abandoned>>
    PROVE  Kept
<1>1. last' \in Results /\ OkMeansDone'
  BY ForgetsSound
<1>2. Known' = Known /\ Passing' = Passing /\ (Live' <=> Live)
  BY DEF Known, Passing, Live
<1>3. TypeOK' /\ FramesSound' /\ StreamInStep' /\ CallInStep'
  BY <1>1 DEF SessionInv, TypeOK, FramesSound, StreamInStep, CallInStep, CarriedOut
<1>4. CasInfoKnown' /\ CasInfoSent'
  BY DEF SessionInv, CasInfoKnown, CasInfoSent
<1>5. HandlesOwned => HandlesOwned'
  BY <1>2 DEF HandlesOwned
<1>. QED  BY <1>1, <1>3, <1>4, <1>5 DEF SessionInv, Kept

LEMMA NextInv == IInv /\ [Next]_vars => IInv'
<1>1. SUFFICES ASSUME SessionInv, [Next]_vars PROVE Kept
  BY DEF IInv, Kept
<1>2. CASE \/ StartExecute \/ StartQuery \/ StartPrepare \/ StartPing
           \/ \E t \in {"commit", "rollback"} : StartEndTran(t)
           \/ \E s \in stmts : StartStmtExecute(s) \/ StartStmtQuery(s)
  BY <1>1, <1>2, StartsKeep
<1>3. CASE \E s \in stmts : StmtClose(s)
  BY <1>1, <1>3, StmtCloseKeeps
<1>4. CASE SetAutoCommit \/ \E s \in stmts : StmtDrop(s)
  BY <1>1, <1>4, LocalKeeps
<1>5. CASE Close
  BY <1>1, <1>5, CloseKeeps
<1>6. CASE ClientStep \/ RecvFails
  BY <1>1, <1>6, RecvPrepareAndExecuteKeeps, RecvExecuteKeeps, RecvFetchKeeps, RecvPrepareKeeps,
     RecvSimpleKeeps, RecvCloseHandleKeeps, RecvFailsKeeps DEF ClientStep
<1>7. CASE ServerStep \/ ServerRefuses
  BY <1>1, <1>7, ServePrepareAndExecuteKeeps, ServePrepareKeeps, ServeExecuteKeeps,
     ServeFetchKeeps, ServeCloseHandleKeeps, ServeSimpleKeeps, ServerRefusesKeeps DEF ServerStep
<1>8. CASE LinkBreaks \/ ServerHangsUp
  BY <1>1, <1>8, BreakKeeps DEF HungUp, ServerHangsUp
<1>9. CASE UNCHANGED vars
  BY <1>1, <1>9, StutterKeeps DEF vars, client, stream, server, history, Forgets
<1>. QED  BY <1>1, <1>2, <1>3, <1>4, <1>5, <1>6, <1>7, <1>8, <1>9 DEF Next

(* Every reachable state of the session satisfies the inductive invariant. *)
THEOREM Invariance == Spec => []IInv
  BY InitInv, NextInv, PTL DEF Spec

(* Every step keeps client, stream and server well-formed, whatever was    *)
(* misread after a late answer.                                            *)
THEOREM TypeCorrect == Spec => []TypeOK
<1>1. IInv => TypeOK
  BY DEF IInv, SessionInv
<1>. QED  BY Invariance, <1>1, PTL

(* As long as no read or write failed, send_framed and recv_framed stay in *)
(* step: nothing is left in the stream between calls, and a call waits for *)
(* one frame, the answer to its newest request.                            *)
THEOREM StreamsInStep == Spec => []InStep
<1>1. IInv => InStep
  BY SessionInStep DEF IInv
<1>. QED  BY Invariance, <1>1, PTL

(* A call returns Ok only if the server carried out its request, as long   *)
(* as no read or write failed.                                             *)
THEOREM OkIsDone == Spec => []OkMeansDone
<1>1. IInv => OkMeansDone
  BY DEF IInv, SessionInv
<1>. QED  BY Invariance, <1>1, PTL

(* Between calls the server's handles are those of the Statements and of   *)
(* the two known leaks: a Statement dropped, a query whose FETCH failed.   *)
THEOREM HandlesCorrect == Spec => []HandlesAccounted
<1>1. IInv => HandlesAccounted
  BY OwnedResolve DEF IInv
<1>. QED  BY Invariance, <1>1, PTL

(* A request carries the CAS_INFO of the newest success but those of       *)
(* close_query_handle, in FETCH rounds and cleanups too.                   *)
THEOREM CasInfoCorrect == Spec => []CasInfoEchoed
<1>1. ASSUME IInv PROVE CasInfoEchoed
  <2>1. \A i \in DOMAIN reqs : reqs[i] \in Range(reqs)
    BY DEF Range
  <2>. QED  BY <1>1, <2>1 DEF IInv, SessionInv, CasInfoSent, CasInfoEchoed
<1>. QED  BY Invariance, <1>1, PTL

(* query and close_query_handle never close the handle of a live Statement. *)
THEOREM StatementsStayUsable == Spec => []StatementsUsable
<1>1. IInv => StatementsUsable
  BY OwnedResolve DEF IInv
<1>. QED  BY Invariance, <1>1, PTL

-----------------------------------------------------------------------------
(* Complete results *)

(* Which call waits for which answer. *)
OpInStep ==
    /\ call.wait = "PREPARE_AND_EXECUTE" => call.op \in {"execute", "query"}
    /\ call.wait = "EXECUTE" => call.op \in {"stmt_execute", "stmt_query"}
    /\ call.wait = "FETCH" => call.op \in {"query", "stmt_query"}
    /\ call.wait = "CLOSE_REQ_HANDLE" => call.op # "stmt_query"
    /\ call.wait \in {"PREPARE", "END_TRAN", "GET_DB_VERSION"} =>
          call.op \notin {"query", "stmt_query"}

(* The first rows of a result, in order. *)
InOrder(rows) == rows = RowsFrom(1, Len(rows))

(* What the call has read so far: with FETCH, not all; in the cleanup, all. *)
RowsRead ==
    ~io_failed =>
        /\ call.wait = "FETCH" =>
              call.sel /\ InOrder(call.rows) /\ Len(call.rows) < call.total
        /\ call.wait = "CLOSE_REQ_HANDLE" /\ call.op = "query" =>
              call.rows = RowsFrom(1, call.total)

(* What the next answer adds: the rows that follow, and at least one in a  *)
(* FETCH round.                                                            *)
RowsToRead ==
    ~io_failed => \A r \in Range(resps) : r.code >= 0 =>
        /\ r.fc = "PREPARE_AND_EXECUTE" =>
              InOrder(r.rows) /\ Len(r.rows) <= r.total /\ (~r.sel => r.total = 0)
        /\ r.fc = "EXECUTE" =>
              InOrder(r.rows) /\ Len(r.rows) <= r.code /\ (~call.sel => r.code = 0)
        /\ r.fc = "FETCH" =>
              /\ r.rows = RowsFrom(Len(call.rows) + 1, Len(r.rows))
              /\ Len(r.rows) > 0
              /\ Len(call.rows) + Len(r.rows) <= call.total

(* What the client asks for: the call's own handle, the first row missing. *)
RowsAskedFor ==
    ~io_failed => \A q \in Range(reqs) :
        /\ q.fc = "EXECUTE" => q.handle = call.handle
        /\ q.fc = "FETCH" => q.handle = call.handle /\ q.start = Len(call.rows) + 1

(* What the client knows about a Statement is what the server keeps. *)
StatementsInStep ==
    Live =>
        /\ \A h \in DOMAIN handles : ~handles[h].sel => handles[h].total = 0
        /\ \A s \in stmts : handles[s.handle].sel = s.sel

(* What the call knows, or is about to read, about its handle. *)
HandleInStep ==
    Live =>
        /\ call.wait = "EXECUTE" =>
              call.handle \in DOMAIN handles /\ handles[call.handle].sel = call.sel
        /\ call.wait = "FETCH" =>
              call.handle \in DOMAIN handles /\ handles[call.handle].total = call.total
        /\ \A r \in Range(resps) : r.code >= 0 =>
              /\ r.fc = "PREPARE" => handles[r.code].sel = r.sel
              /\ r.fc = "PREPARE_AND_EXECUTE" /\ r.sel =>
                    r.code \in DOMAIN handles /\ handles[r.code].total = r.total
              /\ r.fc = "EXECUTE" => handles[call.handle].total = r.code

(* The inductive invariant of a server that sends what it has. *)
RowsInv ==
    /\ OpInStep
    /\ RowsRead
    /\ RowsToRead
    /\ RowsAskedFor
    /\ StatementsInStep
    /\ HandleInStep
    /\ RowsComplete

(* Batches fit together.                                                   *)
LEMMA Batches ==
    ASSUME NEW m \in Nat, NEW k \in Nat
    PROVE  RowsFrom(1, m) \o RowsFrom(m + 1, k) = RowsFrom(1, m + k)
<1>. DEFINE s == RowsFrom(1, m)
            t == RowsFrom(m + 1, k)
            u == RowsFrom(1, m + k)
<1>1. /\ s \in Seq(Nat) /\ Len(s) = m /\ t \in Seq(Nat) /\ Len(t) = k
      /\ u \in Seq(Nat) /\ Len(u) = m + k
  <2>1. 1 \in Nat /\ m + 1 \in Nat /\ m + k \in Nat
    OBVIOUS
  <2>2. s \in Seq(Nat) /\ Len(s) = m
    BY <2>1, RowsTyped
  <2>3. t \in Seq(Nat) /\ Len(t) = k
    BY <2>1, RowsTyped
  <2>4. u \in Seq(Nat) /\ Len(u) = m + k
    BY <2>1, RowsTyped
  <2>. QED  BY <2>2, <2>3, <2>4
<1>2. /\ \A i \in 1 .. m : s[i] = i
      /\ \A i \in 1 .. k : t[i] = m + i
      /\ \A i \in 1 .. m + k : u[i] = i
  BY DEF RowsFrom
<1>. HIDE DEF s, t, u
<1>3. /\ s \o t \in Seq(Nat) /\ Len(s \o t) = m + k
      /\ \A i \in 1 .. m + k : (s \o t)[i] = IF i <= m THEN s[i] ELSE t[i - m]
  BY <1>1, ConcatProperties
<1>4. \A i \in 1 .. m + k : (s \o t)[i] = u[i]
  <2>1. TAKE i \in 1 .. m + k
  <2>2. CASE i <= m
    BY <1>2, <1>3, <2>2
  <2>3. CASE ~(i <= m)
    <3>1. i - m \in 1 .. k /\ m + (i - m) = i
      BY <2>3
    <3>. QED  BY <1>2, <1>3, <2>3, <3>1
  <2>. QED  BY <2>2, <2>3
<1>5. s \o t = u
  BY <1>1, <1>3, <1>4, SeqEqual
<1>. QED  BY <1>5 DEF s, t, u

(* Once a read or write has failed, only the calls' order is left.         *)
LEMMA RowsOnceFailed ==
    ASSUME io_failed', OpInStep'
    PROVE  RowsInv'
  BY DEF RowsInv, RowsRead, RowsToRead, RowsAskedFor, StatementsInStep, HandleInStep,
         RowsComplete, Live

(* Between calls nothing is asked for or read.                             *)
LEMMA RowsAtRest ==
    ASSUME SessionInv', call'.wait = "none", StatementsInStep', RowsComplete'
    PROVE  RowsInv'
<1>1. OpInStep' /\ RowsRead'
  BY DEF OpInStep, RowsRead
<1>2. ~io_failed' => \A r \in Range(resps') : r.fc = "none"
  BY DEF SessionInv, StreamInStep
<1>3. ~io_failed' => \A q \in Range(reqs') : q.fc = "none" \/ q.fc = "CON_CLOSE"
  BY DEF SessionInv, StreamInStep
<1>4. RowsToRead' /\ RowsAskedFor'
  BY <1>2, <1>3 DEF RowsToRead, RowsAskedFor
<1>5. HandleInStep'
  BY <1>2 DEF HandleInStep, Live
<1>. QED  BY <1>1, <1>4, <1>5 DEF RowsInv

(* A call returns its rows.                                                *)
LEMMA RowsReturned ==
    ASSUME SessionInv', StatementsInStep', NEW c, NEW status, Return(c, status),
           ~io_failed' /\ status = "ok" /\ c.op \in {"query", "stmt_query"} =>
              c.rows = RowsFrom(1, c.total)
    PROVE  RowsInv'
<1>1. call'.wait = "none"
  BY DEF Return, NoCall
<1>2. RowsComplete'
  BY DEF Return, RowsComplete
<1>. QED  BY <1>1, <1>2, RowsAtRest

(* A request is the only frame in the stream.                              *)
LEMMA OneFrame ==
    ASSUME SessionInv, HandlesOwned, SessionInv', NEW c \in Calls, NEW q \in Requests, q.fc # "CON_CLOSE", SendFramed(q, c)
    PROVE  /\ call'.wait = q.fc /\ call'.op = c.op /\ call'.handle = c.handle
           /\ call'.sel = c.sel /\ call'.total = c.total /\ call'.rows = c.rows
           /\ up /\ last' = last /\ io_failed' = io_failed
           /\ ~io_failed => Range(reqs') = {q} /\ Range(resps') = {}
<1>1. /\ up /\ up' /\ reqs' = Append(reqs, q) /\ UNCHANGED <<last, io_failed>>
      /\ call' = [c EXCEPT !.wait = q.fc]
  BY DEF SendFramed
<1>2. /\ call'.wait = q.fc /\ call'.op = c.op /\ call'.handle = c.handle
      /\ call'.sel = c.sel /\ call'.total = c.total /\ call'.rows = c.rows
  BY <1>1 DEF Calls
<1>3. ASSUME ~io_failed PROVE Range(reqs') = {q} /\ Range(resps') = {}
  <2>1. Len(reqs') = Len(reqs) + 1 /\ Range(reqs') = Range(reqs) \cup {q}
    BY <1>1, Typing, QueuePush
  <2>2. Len(reqs') + Len(resps') <= 1
    BY <1>1, <1>3 DEF SessionInv, StreamInStep
  <2>3. resps' \in Seq(Responses) /\ Len(resps') \in Nat
    BY QueueFront DEF SessionInv, TypeOK
  <2>4. Len(reqs) = 0 /\ Len(resps') = 0
    BY <2>1, <2>2, <2>3, Typing
  <2>5. reqs = <<>> /\ resps' = <<>>
    BY <2>3, <2>4, Typing
  <2>. QED  BY <2>1, <2>5, QueueEmpty
<1>. QED  BY <1>1, <1>2, <1>3

(* The call asks for the rows it has not read.                             *)
LEMMA RowsFetched ==
    ASSUME SessionInv, HandlesOwned, SessionInv', RowsInv, StatementsInStep', NEW c \in Calls, FetchNext(c),
           c.op \in {"query", "stmt_query"},
           ~io_failed => c.sel /\ InOrder(c.rows) /\ Len(c.rows) < c.total,
           Live' => c.handle \in DOMAIN handles' /\ handles'[c.handle].total = c.total
    PROVE  RowsInv'
<1>. DEFINE q == WriteFetch(sent + 1, c.handle, Len(c.rows), cas_info')
<1>1. Writes(q, "FETCH", sent + 1, cas_info') /\ q.handle = c.handle /\ q.start = Len(c.rows) + 1
  <2>1. sent + 1 \in Nat \ {0} /\ c.handle \in Nat /\ c.rows \in Seq(Nat)
    BY Typing DEF Calls
  <2>2. Len(c.rows) \in Nat
    BY <2>1, LenProperties
  <2>3. cas_info' \in Nat
    BY DEF SessionInv, TypeOK
  <2>4. Writes(q, "FETCH", sent + 1, cas_info')
    BY <2>1, <2>2, <2>3, Written
  <2>. QED  BY <2>4 DEF WriteFetch, BuildRequest
<1>2. CASE SendFramed(q, c)
  <2>. HIDE DEF q
  <2>1. /\ call'.wait = "FETCH" /\ call'.op = c.op /\ call'.handle = c.handle
        /\ call'.sel = c.sel /\ call'.total = c.total /\ call'.rows = c.rows
        /\ last' = last /\ io_failed' = io_failed
        /\ ~io_failed => Range(reqs') = {q} /\ Range(resps') = {}
    BY <1>1, <1>2, OneFrame DEF Writes
  <2>2. OpInStep'
    BY <2>1 DEF OpInStep
  <2>3. RowsRead'
    BY <2>1 DEF RowsRead, InOrder
  <2>4. RowsToRead' /\ RowsAskedFor'
    BY <1>1, <2>1 DEF RowsToRead, RowsAskedFor
  <2>5. HandleInStep'
    BY <2>1 DEF HandleInStep, Live
  <2>6. RowsComplete'
    BY <2>1 DEF RowsInv, RowsComplete
  <2>. QED  BY <2>2, <2>3, <2>4, <2>5, <2>6 DEF RowsInv
<1>3. CASE ~SendFramed(q, c)
  <2>1. io_failed' /\ Return(c, "io_error")
    BY <1>3 DEF FetchNext, SendFails
  <2>2. OpInStep'
    BY <2>1 DEF Return, NoCall, OpInStep
  <2>. QED  BY <2>1, <2>2, RowsOnceFailed
<1>. QED  BY <1>2, <1>3

(* The cleanup is sent: the rows are there.                                *)
LEMMA RowsCleanup ==
    ASSUME SessionInv, HandlesOwned, SessionInv', RowsInv, StatementsInStep', NEW c \in Calls, NEW handle \in Nat,
           CloseQueryHandle(c, handle), c.op # "stmt_query",
           ~io_failed /\ c.op = "query" => c.rows = RowsFrom(1, c.total)
    PROVE  RowsInv'
<1>. DEFINE q == WriteCloseReqHandle(sent + 1, handle, cas_info')
<1>1. Writes(q, "CLOSE_REQ_HANDLE", sent + 1, cas_info')
  <2>1. sent + 1 \in Nat \ {0}
    BY Typing
  <2>2. cas_info' \in Nat
    BY DEF SessionInv, TypeOK
  <2>. QED  BY <2>1, <2>2, Written
<1>2. CASE SendFramed(q, c)
  <2>. HIDE DEF q
  <2>1. /\ call'.wait = "CLOSE_REQ_HANDLE" /\ call'.op = c.op
        /\ call'.total = c.total /\ call'.rows = c.rows
        /\ last' = last /\ io_failed' = io_failed
        /\ ~io_failed => Range(reqs') = {q} /\ Range(resps') = {}
    BY <1>1, <1>2, OneFrame DEF Writes
  <2>2. OpInStep' /\ RowsRead'
    BY <2>1 DEF OpInStep, RowsRead
  <2>3. RowsToRead' /\ RowsAskedFor'
    BY <1>1, <2>1 DEF RowsToRead, RowsAskedFor, Writes
  <2>4. HandleInStep'
    BY <2>1 DEF HandleInStep, Live
  <2>5. RowsComplete'
    BY <2>1 DEF RowsInv, RowsComplete
  <2>. QED  BY <2>2, <2>3, <2>4, <2>5 DEF RowsInv
<1>3. CASE ~SendFramed(q, c)
  <2>1. io_failed' /\ Return(c, "ok")
    BY <1>3 DEF CloseQueryHandle
  <2>2. OpInStep'
    BY <2>1 DEF Return, NoCall, OpInStep
  <2>. QED  BY <2>1, <2>2, RowsOnceFailed
<1>. QED  BY <1>2, <1>3

(* Steps that leave the handles and the Statements alone.                  *)
LEMMA StatementsStay ==
    ASSUME RowsInv, UNCHANGED <<conn, up, stmts, handles>>, io_failed => io_failed'
    PROVE  StatementsInStep'
  BY DEF RowsInv, StatementsInStep, Live

(* A call starts.                                                          *)
LEMMA StartRows ==
    ASSUME SessionInv, HandlesOwned, SessionInv', RowsInv, NEW op \in Operations, NEW c \in Calls, NEW q \in Requests,
           Start(op, c, q), q.fc \in FirstCodes,
           q.fc = "PREPARE_AND_EXECUTE" => op \in {"execute", "query"},
           q.fc = "EXECUTE" =>
              /\ op \in {"stmt_execute", "stmt_query"} /\ q.handle = c.handle
              /\ \E s \in stmts : s.handle = c.handle /\ s.sel = c.sel,
           q.fc \notin {"PREPARE_AND_EXECUTE", "EXECUTE"} => op \notin {"query", "stmt_query"}
    PROVE  RowsInv'
<1>. DEFINE begun == [c EXCEPT !.op = op, !.no = q.no]
<1>1. /\ UNCHANGED <<conn, stmts, resps, handles>>
      /\ \/ conn /\ (SendFramed(q, begun) \/ SendFails(begun))
         \/ Return(begun, "closed") /\ UNCHANGED <<up, reqs, sent, io_failed>>
  BY DEF Start, server
<1>2. begun \in Calls /\ begun.op = op /\ begun.handle = c.handle /\ begun.sel = c.sel
  BY DEF Calls, Requests
<1>. HIDE DEF begun
<1>3. CASE conn /\ SendFramed(q, begun)
  <2>0. q.fc # "CON_CLOSE" /\ q.fc # "FETCH" /\ q.fc # "CLOSE_REQ_HANDLE"
    BY DEF FirstCodes
  <2>1. /\ call'.wait = q.fc /\ call'.op = op /\ call'.handle = c.handle /\ call'.sel = c.sel
        /\ up /\ last' = last /\ io_failed' = io_failed
        /\ ~io_failed => Range(reqs') = {q} /\ Range(resps') = {}
    BY <1>2, <1>3, <2>0, OneFrame
  <2>2. up' = up
    BY <1>3 DEF SendFramed
  <2>3. OpInStep' /\ RowsRead'
    BY <2>0, <2>1 DEF OpInStep, RowsRead
  <2>4. RowsToRead' /\ RowsAskedFor'
    BY <2>0, <2>1 DEF RowsToRead, RowsAskedFor
  <2>5. HandleInStep'
    <3>1. ASSUME Live', q.fc = "EXECUTE"
          PROVE  c.handle \in DOMAIN handles /\ handles[c.handle].sel = c.sel
      <4>1. PICK s \in stmts : s.handle = c.handle /\ s.sel = c.sel
        BY <3>1
      <4>2. Live
        BY <1>1, <2>1, <2>2, <3>1 DEF Live
      <4>3. s.handle \in DOMAIN handles
        BY <4>2 DEF SessionInv, HandlesOwned, Known
      <4>4. handles[s.handle].sel = s.sel
        BY <4>2 DEF RowsInv, StatementsInStep
      <4>. QED  BY <4>1, <4>3, <4>4
    <3>. QED  BY <1>1, <2>0, <2>1, <3>1 DEF HandleInStep, Live
  <2>6. StatementsInStep' /\ RowsComplete'
    BY <1>1, <2>1, <2>2, StatementsStay DEF RowsInv, RowsComplete
  <2>. QED  BY <2>3, <2>4, <2>5, <2>6 DEF RowsInv
<1>4. CASE conn /\ SendFails(begun)
  <2>1. io_failed' /\ OpInStep'
    BY <1>4 DEF SendFails, Return, NoCall, OpInStep
  <2>. QED  BY <2>1, RowsOnceFailed
<1>5. CASE Return(begun, "closed") /\ UNCHANGED <<up, reqs, sent, io_failed>>
  <2>1. StatementsInStep'
    BY <1>1, <1>5, StatementsStay
  <2>. QED  BY <1>5, <2>1, RowsReturned
<1>. QED  BY <1>1, <1>3, <1>4, <1>5

LEMMA StartsRows ==
    ASSUME SessionInv, HandlesOwned, SessionInv', RowsInv,
           \/ StartExecute \/ StartQuery \/ StartPrepare \/ StartPing
           \/ \E t \in {"commit", "rollback"} : StartEndTran(t)
           \/ \E s \in stmts : StartStmtExecute(s) \/ StartStmtQuery(s)
    PROVE  RowsInv'
<1>1. sent + 1 \in Nat \ {0} /\ cas_info \in Nat /\ auto_commit \in BOOLEAN
  BY Typing DEF SessionInv, TypeOK
<1>2. /\ {"execute", "query", "prepare", "ping", "commit", "rollback", "stmt_execute",
          "stmt_query"} \subseteq Operations
      /\ {"PREPARE_AND_EXECUTE", "PREPARE", "EXECUTE", "END_TRAN", "GET_DB_VERSION"}
            \subseteq FirstCodes
  BY DEF Operations, FirstCodes, FunctionCodes
<1>3. NoCall \in Calls
  BY EmptySeq DEF NoCall, Calls
<1>4. CASE StartExecute \/ StartQuery
  <2>. DEFINE q == WritePrepareAndExecute(sent + 1, auto_commit, cas_info)
  <2>1. Writes(q, "PREPARE_AND_EXECUTE", sent + 1, cas_info)
    BY <1>1, Written
  <2>2. Start("execute", NoCall, q) \/ Start("query", NoCall, q)
    BY <1>4 DEF StartExecute, StartQuery
  <2>. HIDE DEF q
  <2>. QED  BY <1>2, <1>3, <2>1, <2>2, StartRows DEF Writes
<1>5. CASE StartPrepare
  <2>. DEFINE q == WritePrepare(sent + 1, auto_commit, cas_info)
  <2>1. Writes(q, "PREPARE", sent + 1, cas_info)
    BY <1>1, Written
  <2>2. Start("prepare", NoCall, q)
    BY <1>5 DEF StartPrepare
  <2>. HIDE DEF q
  <2>. QED  BY <1>2, <1>3, <2>1, <2>2, StartRows DEF Writes
<1>6. CASE StartPing
  <2>. DEFINE q == WriteGetDbVersion(sent + 1, auto_commit, cas_info)
  <2>1. Writes(q, "GET_DB_VERSION", sent + 1, cas_info)
    BY <1>1, Written
  <2>2. Start("ping", NoCall, q)
    BY <1>6 DEF StartPing
  <2>. HIDE DEF q
  <2>. QED  BY <1>2, <1>3, <2>1, <2>2, StartRows DEF Writes
<1>7. ASSUME NEW t \in {"commit", "rollback"}, StartEndTran(t) PROVE RowsInv'
  <2>. DEFINE q == WriteEndTran(sent + 1, t, cas_info)
  <2>1. Writes(q, "END_TRAN", sent + 1, cas_info)
    BY <1>1, Written
  <2>2. Start(t, NoCall, q)
    BY <1>7 DEF StartEndTran
  <2>. HIDE DEF q
  <2>. QED  BY <1>2, <1>3, <2>1, <2>2, StartRows DEF Writes
<1>8. ASSUME NEW s \in stmts, StartStmtExecute(s) \/ StartStmtQuery(s) PROVE RowsInv'
  <2>. DEFINE q == WriteExecute(sent + 1, s.handle, auto_commit, cas_info)
              c == [NoCall EXCEPT !.handle = s.handle, !.sel = s.sel]
  <2>1. s.handle \in Nat /\ s.sel \in BOOLEAN
    BY DEF SessionInv, TypeOK
  <2>2. Writes(q, "EXECUTE", sent + 1, cas_info)
    BY <1>1, <2>1, Written
  <2>3. c \in Calls /\ c.handle = s.handle /\ c.sel = s.sel
    BY <1>3, <2>1 DEF Calls
  <2>4. Start("stmt_execute", c, q) \/ Start("stmt_query", c, q)
    BY <1>8 DEF StartStmtExecute, StartStmtQuery
  <2>5. q.handle = c.handle
    BY <2>3 DEF WriteExecute, BuildRequest
  <2>. HIDE DEF q, c
  <2>. QED  BY <1>2, <2>2, <2>3, <2>4, <2>5, StartRows DEF Writes
<1>. QED  BY <1>4, <1>5, <1>6, <1>7, <1>8

(* Statement::close.                                                       *)
LEMMA StmtCloseRows ==
    ASSUME SessionInv, HandlesOwned, SessionInv', RowsInv, NEW s \in stmts, StmtClose(s)
    PROVE  RowsInv'
<1>. DEFINE c == [NoCall EXCEPT !.op = "stmt_close", !.no = sent + 1, !.handle = s.handle]
<1>1. /\ stmts' = stmts \ {s} /\ UNCHANGED <<conn, handles>>
      /\ \/ CloseQueryHandle(c, s.handle)
         \/ Return(c, "ok") /\ UNCHANGED <<up, reqs, sent, io_failed>>
  BY DEF StmtClose, StmtCloseSends, server
<1>2. s.handle \in Nat /\ sent + 1 \in Nat
  BY Typing DEF SessionInv, TypeOK
<1>3. c \in Calls /\ c.op = "stmt_close"
  BY <1>2, EmptySeq DEF NoCall, Calls, Operations
<1>. HIDE DEF c
<1>4. UNCHANGED up /\ (io_failed => io_failed')
  BY <1>1 DEF CloseQueryHandle, SendFramed
<1>5. StatementsInStep'
  BY <1>1, <1>4 DEF RowsInv, StatementsInStep, Live
<1>6. CASE CloseQueryHandle(c, s.handle)
  BY <1>2, <1>3, <1>5, <1>6, RowsCleanup
<1>7. CASE Return(c, "ok")
  BY <1>3, <1>5, <1>7, RowsReturned
<1>. QED  BY <1>1, <1>6, <1>7

(* Between calls: set_auto_commit, a Statement dropped, Client::close.     *)
LEMMA LocalRows ==
    ASSUME SessionInv, HandlesOwned, SessionInv', RowsInv, SetAutoCommit \/ Close \/ \E s \in stmts : StmtDrop(s)
    PROVE  RowsInv'
<1>1. call.op = "none" /\ UNCHANGED <<call, handles, last, io_failed>> /\ stmts' \subseteq stmts
  BY DEF SetAutoCommit, Close, StmtDrop, server
<1>2. Live' => Live
  BY DEF SetAutoCommit, Close, StmtDrop, stream, Live
<1>3. call'.wait = "none"
  BY <1>1 DEF SessionInv, TypeOK
<1>4. StatementsInStep' /\ RowsComplete'
  BY <1>1, <1>2 DEF RowsInv, StatementsInStep, RowsComplete
<1>. QED  BY <1>3, <1>4, RowsAtRest

(* The stream breaks: what is left to read does not change.                *)
LEMMA BreakRows ==
    ASSUME SessionInv, HandlesOwned, SessionInv', RowsInv, LinkBreaks \/ ServerHangsUp
    PROVE  RowsInv'
<1>1. up' = FALSE /\ reqs' = <<>> /\ UNCHANGED <<call, last, io_failed>>
  BY DEF LinkBreaks, ServerHangsUp, client, history
<1>2. Range(resps') \subseteq Range(resps)
  <2>1. CASE UNCHANGED resps
    BY <2>1
  <2>2. CASE \E k \in 0 .. Len(resps) : resps' = SubSeq(resps, 1, k)
    <3>1. PICK k \in 0 .. Len(resps) : resps' = SubSeq(resps, 1, k)
      BY <2>2
    <3>2. DOMAIN resps = 1 .. Len(resps) /\ DOMAIN resps' = 1 .. k
      BY <3>1, Typing
    <3>3. \A i \in 1 .. k : resps'[i] = resps[i] /\ i \in DOMAIN resps
      BY <3>1, <3>2, Typing
    <3>. QED  BY <3>2, <3>3 DEF Range
  <2>. QED  BY <2>1, <2>2 DEF LinkBreaks, ServerHangsUp
<1>3. ~Live'
  BY <1>1 DEF Live
<1>4. OpInStep' /\ RowsRead' /\ RowsComplete'
  BY <1>1 DEF RowsInv, OpInStep, RowsRead, RowsComplete
<1>5. RowsToRead'
  BY <1>1, <1>2 DEF RowsInv, RowsToRead
<1>6. RowsAskedFor'
  BY <1>1, QueueEmpty DEF RowsAskedFor
<1>7. StatementsInStep' /\ HandleInStep'
  BY <1>3 DEF StatementsInStep, HandleInStep
<1>. QED  BY <1>4, <1>5, <1>6, <1>7 DEF RowsInv

(* A call returns an error.                                                *)
LEMMA FailsRows ==
    ASSUME SessionInv', RowsInv, CallFails, UNCHANGED <<conn, stmts, handles>>
    PROVE  RowsInv'
<1>1. Return(call, "error") /\ UNCHANGED <<up, io_failed>>
  BY DEF CallFails
<1>2. StatementsInStep'
  BY <1>1, StatementsStay
<1>. QED  BY <1>1, <1>2, RowsReturned

(* A batch that leaves nothing to read completes the result.               *)
LEMMA LastBatch ==
    ASSUME NEW c \in Calls, InOrder(c.rows), Len(c.rows) <= c.total, ~NeedsMore(c),
           ~c.sel => c.total = 0
    PROVE  c.rows = RowsFrom(1, c.total)
<1>1. c.total \in Nat /\ c.rows \in Seq(Nat) /\ c.sel \in BOOLEAN
  BY DEF Calls
<1>2. Len(c.rows) \in Nat
  BY <1>1, LenProperties
<1>3. Len(c.rows) = c.total
  BY <1>1, <1>2 DEF NeedsMore
<1>. QED  BY <1>3 DEF InOrder

(* fetch_remaining is over: the cleanup, or the end of the call.           *)
LEMMA FinishRows ==
    ASSUME SessionInv, HandlesOwned, SessionInv', RowsInv, StatementsInStep', NEW c \in Calls, FinishQuery(c),
           c.op \in {"query", "stmt_query"},
           ~io_failed => c.rows = RowsFrom(1, c.total)
    PROVE  RowsInv'
<1>1. CASE c.op = "query" /\ c.handle > 0
  <2>1. CloseQueryHandle(c, c.handle) /\ c.handle \in Nat /\ c.op # "stmt_query"
    BY <1>1 DEF FinishQuery, Calls
  <2>. QED  BY <2>1, RowsCleanup
<1>2. CASE ~(c.op = "query" /\ c.handle > 0)
  <2>1. Return(c, "ok") /\ UNCHANGED io_failed
    BY <1>2 DEF FinishQuery
  <2>. QED  BY <2>1, RowsReturned
<1>. QED  BY <1>1, <1>2

(* What the client's own steps leave alone.                                *)
LEMMA FinishStays ==
    ASSUME NEW c, FinishQuery(c) \/ FetchNext(c) \/ \E h \in Nat : CloseQueryHandle(c, h)
    PROVE  UNCHANGED up /\ (io_failed => io_failed')
<1>1. ASSUME NEW h, CloseQueryHandle(c, h) PROVE UNCHANGED up /\ (io_failed => io_failed')
  BY <1>1 DEF CloseQueryHandle, SendFramed
<1>2. CASE FetchNext(c)
  BY <1>2 DEF FetchNext, SendFramed, SendFails
<1>3. CASE FinishQuery(c)
  BY <1>1, <1>3 DEF FinishQuery
<1>. QED  BY <1>1, <1>2, <1>3

(* The first rows of a query, or the result of an execute.                 *)
LEMMA RecvPrepareAndExecuteRows ==
    ASSUME SessionInv, HandlesOwned, SessionInv', RowsInv, RecvPrepareAndExecute
    PROVE  RowsInv'
<1>. DEFINE r == Head(resps)
<1>1. /\ call.wait = "PREPARE_AND_EXECUTE" /\ call.wait # "none" /\ resps # <<>>
      /\ resps' = Tail(resps) /\ UNCHANGED <<conn, stmts, handles>>
      /\ call.op \in {"execute", "query"}
  BY DEF RecvPrepareAndExecute, PrepareAndExecuteRead, RecvFramed, server, RowsInv, OpInStep
<1>2. r \in Responses /\ r \in Range(resps) /\ (~io_failed => r.fc = call.wait)
  BY <1>1, Reading
<1>3. PICK res \in ParsePrepareAndExecute(r) :
          \/ /\ ~res.ok
             /\ CallFails
          \/ /\ res.ok
             /\ LET c == [call EXCEPT !.handle = res.handle, !.sel = res.sel,
                                      !.total = res.total, !.rows = res.rows]
                IN IF call.op = "query" /\ NeedsMore(c)
                      THEN FetchNext(c)
                      ELSE IF call.op = "query" THEN FinishQuery(c)
                              ELSE IF res.handle > 0 THEN CloseQueryHandle(c, res.handle)
                              ELSE /\ Return(c, "ok")
                                   /\ UNCHANGED <<up, reqs, sent, io_failed, io_reported>>
  BY DEF RecvPrepareAndExecute, PrepareAndExecuteRead
<1>4. /\ Reads(res, r) /\ (res.ok => res.handle = r.code)
      /\ r.fc = "PREPARE_AND_EXECUTE" => res = IF r.code < 0 THEN Failed ELSE Read(r)
  BY <1>2, ParsePrepareAndExecuteSound
<1>5. CASE ~res.ok
  BY <1>1, <1>3, <1>5, FailsRows
<1>6. CASE res.ok
  <2>. DEFINE c == [call EXCEPT !.handle = res.handle, !.sel = res.sel,
                                !.total = res.total, !.rows = res.rows]
  <2>1. /\ c \in Calls /\ c.op = call.op /\ c.handle = res.handle /\ c.sel = res.sel
        /\ c.total = res.total /\ c.rows = res.rows
    BY <1>4, <1>6, Typing DEF Reads, Calls
  <2>2. IF call.op = "query" /\ NeedsMore(c) THEN FetchNext(c)
        ELSE IF call.op = "query" THEN FinishQuery(c)
        ELSE IF res.handle > 0 THEN CloseQueryHandle(c, res.handle)
        ELSE Return(c, "ok") /\ UNCHANGED <<up, reqs, sent, io_failed, io_reported>>
    BY <1>3, <1>6
  <2>. HIDE DEF c
  <2>3. r.code \in Nat /\ res.handle \in Nat
    BY <1>4, <1>6 DEF Reads
  <2>4. ASSUME ~io_failed
        PROVE  /\ InOrder(c.rows) /\ Len(c.rows) <= c.total /\ (~c.sel => c.total = 0)
               /\ Live /\ c.sel => c.handle \in DOMAIN handles /\ handles[c.handle].total = c.total
    <3>1. res = Read(r) /\ r.fc = "PREPARE_AND_EXECUTE" /\ r.code >= 0
      BY <1>1, <1>2, <1>4, <1>6, <2>3, <2>4
    <3>2. c.rows = r.rows /\ c.total = r.total /\ c.sel = r.sel /\ c.handle = r.code
      BY <1>2, <2>1, <3>1, ReadSound
    <3>3. InOrder(r.rows) /\ Len(r.rows) <= r.total /\ (~r.sel => r.total = 0)
      BY <1>2, <2>4, <3>1 DEF RowsInv, RowsToRead
    <3>4. Live /\ r.sel => r.code \in DOMAIN handles /\ handles[r.code].total = r.total
      BY <1>2, <3>1 DEF RowsInv, HandleInStep
    <3>. QED  BY <3>2, <3>3, <3>4
  <2>5. UNCHANGED up /\ (io_failed => io_failed')
    BY <2>2, <2>3, FinishStays
  <2>6. StatementsInStep' /\ (Live' => Live)
    BY <1>1, <2>5, StatementsStay DEF Live
  <2>7. CASE call.op = "query" /\ NeedsMore(c)
    <3>1. FetchNext(c)
      BY <2>2, <2>7
    <3>2. c.sel /\ Len(c.rows) < c.total
      BY <2>7 DEF NeedsMore
    <3>3. Live' => c.handle \in DOMAIN handles' /\ handles'[c.handle].total = c.total
      BY <1>1, <2>4, <2>6, <3>2 DEF Live
    <3>4. c.op \in {"query", "stmt_query"}
      BY <2>1, <2>7
    <3>. QED  BY <2>1, <2>4, <2>6, <3>1, <3>2, <3>3, <3>4, RowsFetched
  <2>8. CASE call.op = "query" /\ ~NeedsMore(c)
    <3>1. FinishQuery(c) /\ c.op \in {"query", "stmt_query"}
      BY <2>1, <2>2, <2>8
    <3>2. ~io_failed => c.rows = RowsFrom(1, c.total)
      BY <2>1, <2>4, <2>8, LastBatch
    <3>. QED  BY <2>1, <2>6, <3>1, <3>2, FinishRows
  <2>9. CASE call.op # "query" /\ res.handle > 0
    BY <1>1, <2>1, <2>2, <2>3, <2>6, <2>9, RowsCleanup
  <2>10. CASE call.op # "query" /\ ~(res.handle > 0)
    <3>1. Return(c, "ok") /\ c.op \notin {"query", "stmt_query"}
      BY <1>1, <2>1, <2>2, <2>10
    <3>. QED  BY <2>6, <3>1, RowsReturned
  <2>. QED  BY <2>7, <2>8, <2>9, <2>10
<1>. QED  BY <1>3, <1>5, <1>6

(* The first rows of a Statement's result.                                 *)
LEMMA RecvExecuteRows == ASSUME SessionInv, HandlesOwned, SessionInv', RowsInv, RecvExecute PROVE RowsInv'
<1>. DEFINE r == Head(resps)
<1>1. /\ call.wait = "EXECUTE" /\ call.wait # "none" /\ resps # <<>>
      /\ resps' = Tail(resps) /\ UNCHANGED <<conn, stmts, handles>>
      /\ call.op \in {"stmt_execute", "stmt_query"}
  BY DEF RecvExecute, ExecuteRead, RecvFramed, server, RowsInv, OpInStep
<1>2. r \in Responses /\ r \in Range(resps) /\ (~io_failed => r.fc = call.wait)
  BY <1>1, Reading
<1>3. PICK res \in ParseExecute(r) :
          \/ ~res.ok /\ CallFails
          \/ /\ res.ok
             /\ LET c == [call EXCEPT !.total = res.total, !.rows = res.rows]
                IN IF call.op = "stmt_query" /\ NeedsMore(c) THEN FetchNext(c)
                   ELSE /\ Return(c, "ok")
                        /\ UNCHANGED <<up, reqs, sent, io_failed, io_reported>>
  BY DEF RecvExecute, ExecuteRead
<1>4. /\ Reads(res, r) /\ (res.ok => res.total = r.code)
      /\ r.fc = "EXECUTE" => (res.ok => res.rows = r.rows)
  BY <1>2, ParseExecuteSound
<1>5. CASE ~res.ok
  BY <1>1, <1>3, <1>5, FailsRows
<1>6. CASE res.ok
  <2>. DEFINE c == [call EXCEPT !.total = res.total, !.rows = res.rows]
  <2>1. /\ c \in Calls /\ c.op = call.op /\ c.handle = call.handle /\ c.sel = call.sel
        /\ c.total = res.total /\ c.rows = res.rows
    BY <1>4, <1>6, Typing DEF Reads, Calls
  <2>2. IF call.op = "stmt_query" /\ NeedsMore(c) THEN FetchNext(c)
        ELSE Return(c, "ok") /\ UNCHANGED <<up, reqs, sent, io_failed, io_reported>>
    BY <1>3, <1>6
  <2>. HIDE DEF c
  <2>3. r.code \in Nat
    BY <1>4, <1>6 DEF Reads
  <2>4. ASSUME ~io_failed
        PROVE  /\ InOrder(c.rows) /\ Len(c.rows) <= c.total /\ (~c.sel => c.total = 0)
               /\ Live => c.handle \in DOMAIN handles /\ handles[c.handle].total = c.total
    <3>1. r.fc = "EXECUTE" /\ r.code >= 0
      BY <1>1, <1>2, <2>3, <2>4
    <3>2. c.rows = r.rows /\ c.total = r.code
      BY <1>4, <1>6, <2>1, <3>1
    <3>3. InOrder(r.rows) /\ Len(r.rows) <= r.code /\ (~call.sel => r.code = 0)
      BY <1>2, <2>4, <3>1 DEF RowsInv, RowsToRead
    <3>4. Live => call.handle \in DOMAIN handles /\ handles[call.handle].total = r.code
      BY <1>1, <1>2, <3>1 DEF RowsInv, HandleInStep
    <3>. QED  BY <2>1, <3>2, <3>3, <3>4
  <2>5. UNCHANGED up /\ (io_failed => io_failed')
    BY <2>2, FinishStays
  <2>6. StatementsInStep' /\ (Live' => Live)
    BY <1>1, <2>5, StatementsStay DEF Live
  <2>7. CASE call.op = "stmt_query" /\ NeedsMore(c)
    <3>1. FetchNext(c)
      BY <2>2, <2>7
    <3>2. c.sel /\ Len(c.rows) < c.total
      BY <2>7 DEF NeedsMore
    <3>3. Live' => c.handle \in DOMAIN handles' /\ handles'[c.handle].total = c.total
      BY <1>1, <2>4, <2>6 DEF Live
    <3>4. c.op \in {"query", "stmt_query"}
      BY <2>1, <2>7
    <3>. QED  BY <2>1, <2>4, <2>6, <3>1, <3>2, <3>3, <3>4, RowsFetched
  <2>8. CASE ~(call.op = "stmt_query" /\ NeedsMore(c))
    <3>1. Return(c, "ok") /\ UNCHANGED io_failed
      BY <2>2, <2>8
    <3>2. ~io_failed /\ c.op \in {"query", "stmt_query"} => c.rows = RowsFrom(1, c.total)
      BY <1>1, <2>1, <2>4, <2>8, LastBatch
    <3>. QED  BY <2>6, <3>1, <3>2, RowsReturned
  <2>. QED  BY <2>7, <2>8
<1>. QED  BY <1>3, <1>5, <1>6

(* A further batch.                                                        *)
LEMMA RecvFetchRows == ASSUME SessionInv, HandlesOwned, SessionInv', RowsInv, RecvFetch PROVE RowsInv'
<1>. DEFINE r == Head(resps)
<1>1. /\ call.wait = "FETCH" /\ call.wait # "none" /\ resps # <<>>
      /\ resps' = Tail(resps) /\ UNCHANGED <<conn, stmts, handles>>
      /\ call.op \in {"query", "stmt_query"}
  BY DEF RecvFetch, FetchRead, RecvFramed, server, RowsInv, OpInStep
<1>2. r \in Responses /\ r \in Range(resps) /\ (~io_failed => r.fc = call.wait)
  BY <1>1, Reading
<1>3. PICK res \in ParseFetch(r) :
         \/ ~res.ok /\ CallFails
         \/ /\ res.ok
            /\ LET c == [call EXCEPT !.rows = @ \o res.rows]
               IN IF res.rows # <<>> /\ NeedsMore(c) THEN FetchNext(c) ELSE FinishQuery(c)
  BY DEF RecvFetch, FetchRead
<1>4. Reads(res, r) /\ (r.fc = "FETCH" => res = IF r.code < 0 THEN Failed ELSE Read(r))
  BY <1>2, ParseFetchSound
<1>5. CASE ~res.ok
  BY <1>1, <1>3, <1>5, FailsRows
<1>6. CASE res.ok
  <2>. DEFINE c == [call EXCEPT !.rows = @ \o res.rows]
  <2>0. r.code \in Nat /\ res.rows \in Seq(Nat) /\ call.rows \in Seq(Nat)
    BY <1>4, <1>6, Typing DEF Reads, Calls
  <2>1. /\ c \in Calls /\ c.op = call.op /\ c.handle = call.handle /\ c.sel = call.sel
        /\ c.total = call.total /\ c.rows = call.rows \o res.rows
    <3>1. call.rows \o res.rows \in Seq(Nat)
      BY <2>0, ConcatProperties
    <3>. QED  BY <3>1, Typing DEF Calls
  <2>2. IF res.rows # <<>> /\ NeedsMore(c) THEN FetchNext(c) ELSE FinishQuery(c)
    BY <1>3, <1>6
  <2>. HIDE DEF c
  <2>3. ASSUME ~io_failed
        PROVE  /\ InOrder(c.rows) /\ Len(c.rows) <= c.total /\ c.sel /\ res.rows # <<>>
               /\ Live => c.handle \in DOMAIN handles /\ handles[c.handle].total = c.total
    <3>. DEFINE m == Len(call.rows)
                k == Len(r.rows)
    <3>1. res = Read(r) /\ r.fc = "FETCH" /\ r.code >= 0
      BY <1>1, <1>2, <1>4, <1>6, <2>0, <2>3
    <3>2. res.rows = r.rows
      BY <1>2, <3>1, ReadSound
    <3>3. m \in Nat /\ k \in Nat
      BY <2>0, <3>2, LenProperties
    <3>4. call.sel /\ call.rows = RowsFrom(1, m)
      BY <1>1, <2>3 DEF RowsInv, RowsRead, InOrder
    <3>5. r.rows = RowsFrom(m + 1, k) /\ k > 0 /\ m + k <= call.total
      BY <1>2, <2>3, <3>1 DEF RowsInv, RowsToRead
    <3>6. Live => call.handle \in DOMAIN handles /\ handles[call.handle].total = call.total
      BY <1>1 DEF RowsInv, HandleInStep
    <3>7. res.rows # <<>>
      BY <3>2, <3>3, <3>5, QueueEmpty
    <3>. HIDE DEF m, k
    <3>8. c.rows = RowsFrom(1, m + k)
      <4>1. RowsFrom(1, m) \o RowsFrom(m + 1, k) = RowsFrom(1, m + k)
        BY <3>3, Batches
      <4>. QED  BY <2>1, <3>2, <3>4, <3>5, <4>1
    <3>9. Len(c.rows) = m + k
      <4>1. m + k \in Nat /\ 1 \in Nat
        BY <3>3
      <4>. QED  BY <3>8, <4>1, RowsTyped
    <3>. QED  BY <2>1, <3>4, <3>5, <3>6, <3>7, <3>8, <3>9 DEF InOrder
  <2>4. UNCHANGED up /\ (io_failed => io_failed')
    BY <2>2, FinishStays
  <2>5. StatementsInStep' /\ (Live' => Live)
    BY <1>1, <2>4, StatementsStay DEF Live
  <2>6. CASE res.rows # <<>> /\ NeedsMore(c)
    <3>1. FetchNext(c) /\ c.sel /\ Len(c.rows) < c.total
      BY <2>2, <2>6 DEF NeedsMore
    <3>2. Live' => c.handle \in DOMAIN handles' /\ handles'[c.handle].total = c.total
      BY <1>1, <2>3, <2>5 DEF Live
    <3>3. c.op \in {"query", "stmt_query"}
      BY <1>1, <2>1
    <3>. QED  BY <2>1, <2>3, <2>5, <3>1, <3>2, <3>3, RowsFetched
  <2>7. CASE ~(res.rows # <<>> /\ NeedsMore(c))
    <3>1. FinishQuery(c) /\ c.op \in {"query", "stmt_query"}
      BY <1>1, <2>1, <2>2, <2>7
    <3>2. ~io_failed => c.rows = RowsFrom(1, c.total)
      BY <2>1, <2>3, <2>7, LastBatch
    <3>. QED  BY <2>1, <2>5, <3>1, <3>2, FinishRows
  <2>. QED  BY <2>6, <2>7
<1>. QED  BY <1>3, <1>5, <1>6

(* A new Statement.                                                        *)
LEMMA RecvPrepareRows == ASSUME SessionInv, HandlesOwned, SessionInv', RowsInv, RecvPrepare PROVE RowsInv'
<1>. DEFINE r == Head(resps)
<1>1. /\ call.wait = "PREPARE" /\ call.wait # "none" /\ resps # <<>>
      /\ resps' = Tail(resps) /\ UNCHANGED <<conn, handles>>
      /\ call.op \notin {"query", "stmt_query"}
  BY DEF RecvPrepare, PrepareRead, RecvFramed, server, RowsInv, OpInStep
<1>2. r \in Responses /\ r \in Range(resps) /\ (~io_failed => r.fc = call.wait)
  BY <1>1, Reading
<1>3. PICK res \in ParsePrepare(r) :
         \/ ~res.ok /\ CallFails /\ UNCHANGED stmts
         \/ /\ res.ok
            /\ stmts' = stmts \cup {[handle |-> res.handle, sel |-> res.sel]}
            /\ Return(call, "ok") /\ UNCHANGED <<up, io_failed>>
  BY DEF RecvPrepare, PrepareRead
<1>4. Reads(res, r) /\ (r.fc = "PREPARE" => res = IF r.code < 0 THEN Failed ELSE Read(r))
  BY <1>2, ParsePrepareSound
<1>5. CASE ~res.ok
  BY <1>1, <1>3, <1>5, FailsRows
<1>6. CASE res.ok
  <2>1. /\ stmts' = stmts \cup {[handle |-> res.handle, sel |-> res.sel]}
        /\ Return(call, "ok") /\ UNCHANGED <<up, io_failed>>
    BY <1>3, <1>6
  <2>2. ASSUME Live PROVE handles[res.handle].sel = res.sel
    <3>1. r.code >= 0 /\ r.fc = "PREPARE" /\ res = Read(r)
      BY <1>1, <1>2, <1>4, <1>6, <2>2 DEF Live, Reads
    <3>2. res.handle = r.code /\ res.sel = r.sel
      BY <1>2, <3>1, ReadSound
    <3>3. handles[r.code].sel = r.sel
      BY <1>2, <2>2, <3>1 DEF RowsInv, HandleInStep
    <3>. QED  BY <3>2, <3>3
  <2>3. StatementsInStep'
    BY <1>1, <2>1, <2>2 DEF RowsInv, StatementsInStep, Live
  <2>. QED  BY <1>1, <2>1, <2>3, RowsReturned
<1>. QED  BY <1>3, <1>5, <1>6

(* commit, rollback and ping return no rows; the cleanup of a query comes  *)
(* after its last batch.                                                   *)
LEMMA RecvOtherRows ==
    ASSUME SessionInv, HandlesOwned, SessionInv', RowsInv, RecvEndTran \/ RecvVersion \/ RecvCloseHandle
    PROVE  RowsInv'
<1>1. /\ UNCHANGED <<conn, stmts, handles>>
      /\ CallFails \/ (Return(call, "ok") /\ UNCHANGED <<up, io_failed>>)
  BY DEF RecvEndTran, RecvVersion, SimpleRead, RecvCloseHandle, CloseHandleRead, server
<1>2. ~io_failed /\ call.op \in {"query", "stmt_query"} => call.rows = RowsFrom(1, call.total)
  BY DEF RecvEndTran, RecvVersion, SimpleRead, RecvCloseHandle, CloseHandleRead, RecvFramed,
     RowsInv, OpInStep, RowsRead
<1>3. CASE CallFails
  BY <1>1, <1>3, FailsRows
<1>4. CASE Return(call, "ok") /\ UNCHANGED <<up, io_failed>>
  BY <1>1, <1>2, <1>4, StatementsStay, RowsReturned
<1>. QED  BY <1>1, <1>3, <1>4

LEMMA RecvFailsRows == ASSUME RowsInv, RecvFails PROVE RowsInv'
<1>1. io_failed' /\ call' = NoCall
  BY DEF RecvFails, ReadFails, Return
<1>2. OpInStep'
  BY <1>1 DEF NoCall, OpInStep
<1>. QED  BY <1>1, <1>2, RowsOnceFailed

-----------------------------------------------------------------------------
(* The rows a server sends *)

(* What an answer must satisfy for the rows to fit.                        *)
Fits(a) ==
    /\ a.fc = "PREPARE_AND_EXECUTE" =>
          InOrder(a.rows) /\ Len(a.rows) <= a.total /\ (~a.sel => a.total = 0)
    /\ a.fc = "EXECUTE" =>
          InOrder(a.rows) /\ Len(a.rows) <= a.code /\ (~call.sel => a.code = 0)
    /\ a.fc = "FETCH" =>
          /\ a.rows = RowsFrom(Len(call.rows) + 1, Len(a.rows))
          /\ Len(a.rows) > 0
          /\ Len(call.rows) + Len(a.rows) <= call.total

(* ... and what the server keeps must agree with it. *)
Agrees(a, hs) ==
    /\ a.fc = "PREPARE" => hs[a.code].sel = a.sel
    /\ a.fc = "PREPARE_AND_EXECUTE" /\ a.sel =>
          a.code \in DOMAIN hs /\ hs[a.code].total = a.total
    /\ a.fc = "EXECUTE" => hs[call.handle].total = a.code

(* A request that is served while nothing has failed is the newest, of a   *)
(* live connection.                                                        *)
LEMMA ServingLive ==
    ASSUME SessionInv, reqs # <<>>, Head(reqs).fc # "CON_CLOSE", ~io_failed
    PROVE  /\ Live /\ Head(reqs) \in Range(reqs) /\ Head(reqs).fc = call.wait
           /\ Len(reqs) = 1 /\ Range(resps) = {} /\ resps = <<>>
<1>1. Head(reqs) \in Range(reqs) /\ Len(reqs) > 0
  BY Typing, QueuePop, QueueFront
<1>2. up /\ Head(reqs).fc = call.wait
  BY <1>1 DEF SessionInv, StreamInStep
<1>3. Len(reqs) + Len(resps) <= 1
  BY <1>2 DEF SessionInv, StreamInStep
<1>4. Len(reqs) = 1 /\ Len(resps) = 0
  <2>1. Len(reqs) \in Nat /\ Len(resps) \in Nat
    BY Typing
  <2>2. \A x, y \in Nat : x > 0 /\ x + y <= 1 => x = 1 /\ y = 0
    OBVIOUS
  <2>. QED  BY <1>1, <1>3, <2>1, <2>2, Zenon
<1>5. resps = <<>>
  BY <1>4, Typing
<1>. QED  BY <1>1, <1>2, <1>4, <1>5, QueueEmpty DEF SessionInv, FramesSound, Live

(* An answer whose rows fit keeps the invariant.                           *)
LEMMA ServedRows ==
    ASSUME SessionInv, HandlesOwned, SessionInv', RowsInv, NEW a \in Responses, reqs # <<>>, reqs' = Tail(reqs),
           Head(reqs).fc # "CON_CLOSE", Answer(a), Unaffected,
           Live => /\ a.code >= 0 => Fits(a) /\ Agrees(a, handles')
                   /\ \A h \in DOMAIN handles' : ~handles'[h].sel => handles'[h].total = 0
                   /\ \A s \in stmts : handles'[s.handle].sel = s.sel
                   /\ call.wait = "EXECUTE" =>
                         call.handle \in DOMAIN handles' /\ handles'[call.handle].sel = call.sel
                   /\ call.wait = "FETCH" =>
                         /\ call.handle \in DOMAIN handles'
                         /\ handles'[call.handle].total = call.total
    PROVE  RowsInv'
<1>1. UNCHANGED <<conn, stmts, call, up, last, io_failed>>
  BY DEF Unaffected, client
<1>2. OpInStep'
  BY <1>1 DEF RowsInv, OpInStep
<1>3. CASE io_failed
  BY <1>1, <1>2, <1>3, RowsOnceFailed
<1>4. CASE ~io_failed
  <2>1. Live /\ Len(reqs) = 1 /\ resps = <<>>
    BY <1>4, ServingLive
  <2>2. Range(resps') = {a}
    <3>1. resps' = Append(resps, a)
      BY <2>1 DEF Answer, Live
    <3>2. Range(Append(resps, a)) = Range(resps) \cup {a}
      BY Typing, QueuePush
    <3>3. Range(resps) = {}
      BY <2>1, QueueEmpty
    <3>. QED  BY <3>1, <3>2, <3>3
  <2>3. Range(reqs') = {}
    <3>1. reqs' \in Seq(Requests) /\ Len(reqs') = 0
      BY <2>1, Typing, QueuePop
    <3>2. reqs' = <<>>
      BY <3>1
    <3>. QED  BY <3>2, QueueEmpty
  <2>4. RowsRead' /\ RowsComplete' /\ RowsAskedFor'
    BY <1>1, <2>3 DEF RowsInv, RowsRead, RowsComplete, RowsAskedFor
  <2>5. RowsToRead'
    BY <1>1, <2>1, <2>2 DEF RowsToRead, Fits
  <2>6. StatementsInStep'
    BY <1>1, <2>1 DEF StatementsInStep
  <2>7. HandleInStep'
    BY <1>1, <2>1, <2>2 DEF HandleInStep, Agrees
  <2>. QED  BY <1>2, <2>4, <2>5, <2>6, <2>7 DEF RowsInv
<1>. QED  BY <1>3, <1>4

(* Answers that open and close nothing.                                    *)
LEMMA AnswerRows ==
    ASSUME SessionInv, HandlesOwned, SessionInv', RowsInv, NEW a \in Responses, reqs # <<>>, reqs' = Tail(reqs),
           Head(reqs).fc # "CON_CLOSE", Answer(a), Unaffected, UNCHANGED handles,
           a.fc = Head(reqs).fc, a.fc \notin {"PREPARE", "PREPARE_AND_EXECUTE"},
           Live /\ a.code >= 0 => Fits(a) /\ Agrees(a, handles)
    PROVE  RowsInv'
<1>1. Live => /\ \A h \in DOMAIN handles' : ~handles'[h].sel => handles'[h].total = 0
              /\ \A s \in stmts : handles'[s.handle].sel = s.sel
  BY DEF RowsInv, StatementsInStep
<1>2. Live => /\ call.wait = "EXECUTE" =>
                    call.handle \in DOMAIN handles' /\ handles'[call.handle].sel = call.sel
              /\ call.wait = "FETCH" =>
                    /\ call.handle \in DOMAIN handles'
                    /\ handles'[call.handle].total = call.total
  BY DEF RowsInv, HandleInStep
<1>3. Live /\ a.code >= 0 => Fits(a) /\ Agrees(a, handles')
  OBVIOUS
<1>. QED  BY <1>1, <1>2, <1>3, ServedRows

(* END_TRAN and GET_DB_VERSION.                                            *)
LEMMA ServeSimpleRows ==
    ASSUME SessionInv, HandlesOwned, SessionInv', RowsInv, ServeEndTran \/ ServeVersion
    PROVE  RowsInv'
<1>. DEFINE a == Response(Head(reqs), 0)
<1>1. /\ reqs # <<>> /\ reqs' = Tail(reqs) /\ Unaffected /\ UNCHANGED handles
      /\ Head(reqs).fc \in {"END_TRAN", "GET_DB_VERSION"} /\ Answer(a)
  BY DEF ServeEndTran, ServeVersion, Serves, server
<1>2. a \in Responses /\ a.fc = Head(reqs).fc
  <2>1. Head(reqs) \in Requests
    BY <1>1, NextRequest
  <2>2. 0 \in Int
    OBVIOUS
  <2>3. Names(a, Head(reqs), 0)
    BY <1>1, <2>1, <2>2, Answered
  <2>. QED  BY <2>3 DEF Names
<1>. HIDE DEF a
<1>3. Fits(a) /\ Agrees(a, handles)
  BY <1>1, <1>2 DEF Fits, Agrees
<1>. QED  BY <1>1, <1>2, <1>3, AnswerRows

(* EXECUTE sends the first rows, or none of them.                          *)
LEMMA ServeExecuteRows == ASSUME SessionInv, HandlesOwned, SessionInv', RowsInv, ServeExecute PROVE RowsInv'
<1>. DEFINE q == Head(reqs)
<1>1. /\ reqs # <<>> /\ reqs' = Tail(reqs) /\ Unaffected /\ UNCHANGED handles
      /\ q.fc = "EXECUTE"
  BY DEF ServeExecute, Serves
<1>2. q \in Requests /\ HandlesTyped(handles) /\ q \in Range(reqs)
  BY <1>1, NextRequest
<1>3. CASE q.handle \in DOMAIN handles
  <2>. DEFINE total == handles[q.handle].total
  <2>1. total \in Nat
    BY <1>2, <1>3, BoundsAssumption DEF HandlesTyped
  <2>2. PICK n \in {0, SmallerOf(total, FetchSize)} :
           Answer([Response(q, total) EXCEPT !.rows = RowsFrom(1, n)])
    BY <1>3 DEF ServeExecute
  <2>. HIDE DEF total
  <2>3. n \in Nat /\ n <= total
    BY <2>1, BoundsAssumption DEF SmallerOf
  <2>4. RowsFrom(1, n) \in Seq(Nat) /\ Len(RowsFrom(1, n)) = n /\ total \in Int
    BY <2>1, <2>3, RowsTyped
  <2>. DEFINE a == [Response(q, total) EXCEPT !.rows = RowsFrom(1, n)]
  <2>5. a \in Responses /\ a.fc = q.fc /\ a.code = total /\ a.rows = RowsFrom(1, n)
    <3>1. Names(a, q, total)
      BY <1>1, <1>2, <2>4, Answered
    <3>2. a.rows = RowsFrom(1, n)
      BY DEF Response
    <3>. QED  BY <3>1, <3>2 DEF Names
  <2>6. Answer(a)
    BY <2>2
  <2>. HIDE DEF a
  <2>7. ASSUME Live PROVE Fits(a) /\ Agrees(a, handles)
    <3>1. q.fc = call.wait /\ call.wait = "EXECUTE"
      BY <1>1, <2>7, ServingLive DEF Live
    <3>2. q.handle = call.handle
      BY <1>1, <1>2, <2>7 DEF RowsInv, RowsAskedFor, Live
    <3>3. handles[call.handle].sel = call.sel /\ call.handle \in DOMAIN handles
      BY <2>7, <3>1 DEF RowsInv, HandleInStep
    <3>4. ~call.sel => total = 0
      BY <2>7, <3>2, <3>3 DEF RowsInv, StatementsInStep, total
    <3>5. InOrder(a.rows) /\ Len(a.rows) <= a.code
      BY <2>3, <2>4, <2>5 DEF InOrder
    <3>6. Fits(a)
      BY <1>1, <2>5, <3>4, <3>5 DEF Fits
    <3>7. Agrees(a, handles)
      BY <1>1, <2>5, <3>2 DEF Agrees, total
    <3>. QED  BY <3>6, <3>7
  <2>. QED  BY <1>1, <2>5, <2>6, <2>7, AnswerRows
<1>4. CASE q.handle \notin DOMAIN handles
  <2>. DEFINE a == Response(q, -1)
  <2>1. Answer(a)
    BY <1>4 DEF ServeExecute
  <2>2. a \in Responses /\ a.fc = q.fc /\ a.code = -1
    <3>1. -1 \in Int
      OBVIOUS
    <3>2. Names(a, q, -1)
      BY <1>1, <1>2, <3>1, Answered
    <3>. QED  BY <3>2 DEF Names
  <2>. HIDE DEF a
  <2>3. ~(a.code >= 0)
    BY <2>2
  <2>. QED  BY <1>1, <2>1, <2>2, <2>3, AnswerRows
<1>. QED  BY <1>3, <1>4

(* FETCH sends the rows that follow, and at least one.                     *)
LEMMA ServeFetchRows ==
    ASSUME SessionInv, HandlesOwned, SessionInv', RowsInv, ~ServerErrors, ServeFetch
    PROVE  RowsInv'
<1>. DEFINE q == Head(reqs)
<1>1. /\ reqs # <<>> /\ reqs' = Tail(reqs) /\ Unaffected /\ UNCHANGED handles
      /\ q.fc = "FETCH"
  BY DEF ServeFetch, Serves, server
<1>2. q \in Requests /\ HandlesTyped(handles) /\ q \in Range(reqs) /\ q.start \in Nat
  BY <1>1, NextRequest
<1>3. CASE q.handle \in DOMAIN handles
  <2>. DEFINE rest == handles[q.handle].total - q.start + 1
              n    == IF rest < 0 THEN 0 ELSE SmallerOf(rest, FetchSize)
              a    == [Response(q, 0) EXCEPT !.rows = RowsFrom(q.start, n)]
  <2>1. handles[q.handle].total \in Nat
    BY <1>2, <1>3, BoundsAssumption DEF HandlesTyped
  <2>2. rest \in Int
    BY <1>2, <2>1
  <2>3. Answer(a)
    BY <1>3 DEF ServeFetch
  <2>. HIDE DEF rest
  <2>4. n \in Nat /\ (rest > 0 => n > 0 /\ n <= rest)
    BY <2>2, BoundsAssumption DEF SmallerOf
  <2>. HIDE DEF n
  <2>5. RowsFrom(q.start, n) \in Seq(Nat) /\ Len(RowsFrom(q.start, n)) = n /\ 0 \in Int
    BY <1>2, <2>4, RowsTyped
  <2>6. a \in Responses /\ a.fc = q.fc /\ a.rows = RowsFrom(q.start, n)
    <3>1. Names(a, q, 0)
      BY <1>1, <1>2, <2>5, Answered
    <3>2. a.rows = RowsFrom(q.start, n)
      BY DEF Response
    <3>. QED  BY <3>1, <3>2 DEF Names
  <2>. HIDE DEF a
  <2>7. ASSUME Live PROVE Fits(a) /\ Agrees(a, handles)
    <3>1. q.fc = call.wait /\ call.wait = "FETCH"
      BY <1>1, <2>7, ServingLive DEF Live
    <3>2. q.handle = call.handle /\ q.start = Len(call.rows) + 1
      BY <1>1, <1>2, <2>7 DEF RowsInv, RowsAskedFor, Live
    <3>3. handles[call.handle].total = call.total
      BY <2>7, <3>1 DEF RowsInv, HandleInStep
    <3>4. Len(call.rows) < call.total
      BY <2>7, <3>1 DEF RowsInv, RowsRead, Live
    <3>5. call.total \in Nat /\ Len(call.rows) \in Nat
      BY Typing, LenProperties DEF Calls
    <3>6. rest = call.total - Len(call.rows)
      BY <3>2, <3>3, <3>5 DEF rest
    <3>7. n > 0 /\ Len(call.rows) + n <= call.total
      BY <2>4, <3>4, <3>5, <3>6
    <3>8. Fits(a)
      BY <1>1, <2>5, <2>6, <3>2, <3>7 DEF Fits
    <3>9. Agrees(a, handles)
      BY <1>1, <2>6 DEF Agrees
    <3>. QED  BY <3>8, <3>9
  <2>. QED  BY <1>1, <2>3, <2>6, <2>7, AnswerRows
<1>4. CASE q.handle \notin DOMAIN handles
  <2>. DEFINE a == Response(q, -1)
  <2>1. Answer(a)
    BY <1>4 DEF ServeFetch
  <2>2. a \in Responses /\ a.fc = q.fc /\ a.code = -1
    <3>1. -1 \in Int
      OBVIOUS
    <3>2. Names(a, q, -1)
      BY <1>1, <1>2, <3>1, Answered
    <3>. QED  BY <3>2 DEF Names
  <2>. HIDE DEF a
  <2>3. ~(a.code >= 0)
    BY <2>2
  <2>. QED  BY <1>1, <2>1, <2>2, <2>3, AnswerRows
<1>. QED  BY <1>3, <1>4

(* CLOSE_REQ_HANDLE closes no Statement's handle.                          *)
LEMMA ServeCloseHandleRows ==
    ASSUME SessionInv, HandlesOwned, SessionInv', RowsInv, ServeCloseHandle
    PROVE  RowsInv'
<1>. DEFINE q == Head(reqs)
            code == IF q.handle \in DOMAIN handles THEN 0 ELSE -1
            a == Response(q, code)
<1>1. /\ reqs # <<>> /\ reqs' = Tail(reqs) /\ Unaffected
      /\ q.fc = "CLOSE_REQ_HANDLE" /\ Answer(a)
      /\ handles' = [h \in DOMAIN handles \ {q.handle} |-> handles[h]]
  BY DEF ServeCloseHandle, Serves
<1>2. q \in Requests /\ q \in Range(reqs)
  BY <1>1, NextRequest
<1>3. code \in Int
  OBVIOUS
<1>. HIDE DEF code
<1>4. a \in Responses /\ a.fc = q.fc
  <2>1. Names(a, q, code)
    BY <1>1, <1>2, <1>3, Answered
  <2>. QED  BY <2>1 DEF Names
<1>. HIDE DEF a
<1>5. ASSUME Live
      PROVE  /\ call.wait = "CLOSE_REQ_HANDLE"
             /\ \A h \in DOMAIN handles' : ~handles'[h].sel => handles'[h].total = 0
             /\ \A s \in stmts : handles'[s.handle].sel = s.sel
  <2>1. call.wait = "CLOSE_REQ_HANDLE"
    BY <1>1, <1>5, ServingLive DEF Live
  <2>2. q.handle \in Passing
    BY <1>2, <2>1 DEF Passing
  <2>3. \A s \in stmts : s.handle \in DOMAIN handles \ {q.handle}
    BY <1>5, <2>2 DEF SessionInv, HandlesOwned, Known
  <2>4. \A h \in DOMAIN handles \ {q.handle} : handles'[h] = handles[h]
    BY <1>1
  <2>. QED  BY <1>1, <1>5, <2>1, <2>3, <2>4 DEF RowsInv, StatementsInStep
<1>6. Fits(a) /\ Agrees(a, handles')
  BY <1>1, <1>4 DEF Fits, Agrees
<1>. QED  BY <1>1, <1>4, <1>5, <1>6, ServedRows

(* A fresh handle changes nothing for the Statements.                      *)
LEMMA OpenedRows ==
    ASSUME SessionInv, HandlesOwned, RowsInv, Live, NEW q \in Range(reqs),
           NEW result \in [sel : BOOLEAN, total : 0 .. MaxRows], ~result.sel => result.total = 0,
           handles' = OpenHandle(q.no, result)
    PROVE  /\ \A h \in DOMAIN handles' : ~handles'[h].sel => handles'[h].total = 0
           /\ \A s \in stmts : handles'[s.handle].sel = s.sel
           /\ q.no \in DOMAIN handles' /\ handles'[q.no] = result
<1>1. /\ DOMAIN handles' = DOMAIN handles \cup {q.no} /\ handles'[q.no] = result
      /\ \A h \in DOMAIN handles : h # q.no => handles'[h] = handles[h]
  BY DEF OpenHandle
<1>2. q.no \notin DOMAIN handles /\ \A s \in stmts : s.handle \in DOMAIN handles
  BY DEF HandlesOwned, Known
<1>3. /\ \A h \in DOMAIN handles : ~handles[h].sel => handles[h].total = 0
      /\ \A s \in stmts : handles[s.handle].sel = s.sel
  BY DEF RowsInv, StatementsInStep
<1>4. \A h \in DOMAIN handles : handles'[h] = handles[h]
  BY <1>1, <1>2
<1>. QED  BY <1>1, <1>2, <1>3, <1>4

(* PREPARE tells whether the statement is a SELECT.                        *)
LEMMA ServePrepareRows == ASSUME SessionInv, HandlesOwned, SessionInv', RowsInv, ServePrepare PROVE RowsInv'
<1>. DEFINE q == Head(reqs)
<1>1. reqs # <<>> /\ reqs' = Tail(reqs) /\ Unaffected /\ q.fc = "PREPARE"
  BY DEF ServePrepare, Serves
<1>2. q \in Requests /\ q \in Range(reqs) /\ q.no \in Int
  BY <1>1, NextRequest
<1>3. PICK sel \in BOOLEAN, total \in 0 .. MaxRows :
         /\ handles' = OpenHandle(q.no, [sel |-> sel, total |-> total])
         /\ Answer([Response(q, q.no) EXCEPT !.sel = sel])
         /\ ~sel => total = 0
  BY BoundsAssumption DEF ServePrepare
<1>. DEFINE a == [Response(q, q.no) EXCEPT !.sel = sel]
            result == [sel |-> sel, total |-> total]
<1>4. a \in Responses /\ a.fc = q.fc /\ a.code = q.no /\ a.sel = sel
  <2>1. Names(a, q, q.no)
    BY <1>1, <1>2, Answered
  <2>2. a.sel = sel
    BY DEF Response
  <2>. QED  BY <2>1, <2>2 DEF Names
<1>5. Answer(a)
  BY <1>3
<1>6. /\ result \in [sel : BOOLEAN, total : 0 .. MaxRows]
      /\ result.sel = sel /\ result.total = total
      /\ handles' = OpenHandle(q.no, result)
  BY <1>3
<1>. HIDE DEF a, result
<1>7. ASSUME Live
      PROVE  /\ call.wait = "PREPARE" /\ Fits(a) /\ Agrees(a, handles')
             /\ \A h \in DOMAIN handles' : ~handles'[h].sel => handles'[h].total = 0
             /\ \A s \in stmts : handles'[s.handle].sel = s.sel
  <2>1. call.wait = "PREPARE"
    BY <1>1, <1>7, ServingLive DEF Live
  <2>2. /\ \A h \in DOMAIN handles' : ~handles'[h].sel => handles'[h].total = 0
        /\ \A s \in stmts : handles'[s.handle].sel = s.sel
        /\ handles'[q.no] = result
    BY <1>2, <1>3, <1>6, <1>7, OpenedRows
  <2>3. Fits(a) /\ Agrees(a, handles')
    BY <1>1, <1>4, <1>6, <2>2 DEF Fits, Agrees
  <2>. QED  BY <2>1, <2>2, <2>3
<1>. QED  BY <1>1, <1>4, <1>5, <1>7, ServedRows

(* PREPARE_AND_EXECUTE sends the first rows of a SELECT, or none of them.  *)
LEMMA ServePrepareAndExecuteRows ==
    ASSUME SessionInv, HandlesOwned, SessionInv', RowsInv, ServePrepareAndExecute
    PROVE  RowsInv'
<1>. DEFINE q == Head(reqs)
<1>1. reqs # <<>> /\ reqs' = Tail(reqs) /\ Unaffected /\ q.fc = "PREPARE_AND_EXECUTE"
  BY DEF ServePrepareAndExecute, Serves
<1>2. q \in Requests /\ q \in Range(reqs) /\ q.no \in Int
  BY <1>1, NextRequest
<1>3. Live => call.wait = "PREPARE_AND_EXECUTE"
  BY <1>1, ServingLive DEF Live
<1>4. ASSUME NEW total \in 0 .. MaxRows, NEW n \in {0, SmallerOf(total, FetchSize)},
             handles' = OpenHandle(q.no, [sel |-> TRUE, total |-> total]),
             Answer([Response(q, q.no) EXCEPT
                       !.sel = TRUE, !.total = total, !.rows = RowsFrom(1, n)])
      PROVE  RowsInv'
  <2>. DEFINE a == [Response(q, q.no) EXCEPT
                      !.sel = TRUE, !.total = total, !.rows = RowsFrom(1, n)]
              result == [sel |-> TRUE, total |-> total]
  <2>1. n \in Nat /\ total \in Nat /\ n <= total
    BY BoundsAssumption DEF SmallerOf
  <2>2. RowsFrom(1, n) \in Seq(Nat) /\ Len(RowsFrom(1, n)) = n
    BY <2>1, RowsTyped
  <2>3. /\ a \in Responses /\ a.fc = q.fc /\ a.code = q.no
        /\ a.sel = TRUE /\ a.total = total /\ a.rows = RowsFrom(1, n)
    <3>1. Names(a, q, q.no)
      BY <1>1, <1>2, <2>1, <2>2, Answered
    <3>2. a.sel = TRUE /\ a.total = total /\ a.rows = RowsFrom(1, n)
      BY DEF Response
    <3>. QED  BY <3>1, <3>2 DEF Names
  <2>4. Answer(a)
    BY <1>4
  <2>5. /\ result \in [sel : BOOLEAN, total : 0 .. MaxRows]
        /\ result.sel = TRUE /\ result.total = total
        /\ handles' = OpenHandle(q.no, result)
    BY <1>4
  <2>. HIDE DEF a, result
  <2>6. ASSUME Live
        PROVE  /\ Agrees(a, handles')
               /\ \A h \in DOMAIN handles' : ~handles'[h].sel => handles'[h].total = 0
               /\ \A s \in stmts : handles'[s.handle].sel = s.sel
    <3>1. /\ \A h \in DOMAIN handles' : ~handles'[h].sel => handles'[h].total = 0
          /\ \A s \in stmts : handles'[s.handle].sel = s.sel
          /\ q.no \in DOMAIN handles' /\ handles'[q.no] = result
      BY <1>2, <2>5, <2>6, OpenedRows
    <3>2. Agrees(a, handles')
      BY <1>1, <2>3, <2>5, <3>1 DEF Agrees
    <3>. QED  BY <3>1, <3>2
  <2>7. Fits(a)
    BY <1>1, <2>1, <2>2, <2>3 DEF Fits, InOrder
  <2>. QED  BY <1>1, <1>3, <2>3, <2>4, <2>6, <2>7, ServedRows
<1>5. ASSUME NEW h \in {0, q.no},
             handles' = IF h = 0 THEN handles ELSE OpenHandle(h, [sel |-> FALSE, total |-> 0]),
             Answer(Response(q, h))
      PROVE  RowsInv'
  <2>. DEFINE a == Response(q, h)
              result == [sel |-> FALSE, total |-> 0]
  <2>1. /\ a \in Responses /\ a.fc = q.fc
        /\ a.sel = FALSE /\ a.total = 0 /\ a.rows = <<>>
    <3>1. h \in Int
      BY <1>2
    <3>2. Names(a, q, h)
      BY <1>1, <1>2, <3>1, Answered
    <3>3. a.sel = FALSE /\ a.total = 0 /\ a.rows = <<>>
      BY DEF Response
    <3>. QED  BY <3>2, <3>3 DEF Names
  <2>2. Answer(a)
    BY <1>5
  <2>3. /\ result \in [sel : BOOLEAN, total : 0 .. MaxRows]
        /\ result.sel = FALSE /\ result.total = 0
        /\ handles' = IF h = 0 THEN handles ELSE OpenHandle(h, result)
    BY <1>5, BoundsAssumption
  <2>. HIDE DEF a, result
  <2>4. ASSUME Live
        PROVE  /\ \A x \in DOMAIN handles' : ~handles'[x].sel => handles'[x].total = 0
               /\ \A s \in stmts : handles'[s.handle].sel = s.sel
    <3>1. CASE h = 0
      <4>1. handles' = handles
        BY <2>3, <3>1
      <4>. QED  BY <2>4, <4>1 DEF RowsInv, StatementsInStep
    <3>2. CASE h # 0
      <4>1. handles' = OpenHandle(q.no, result)
        BY <2>3, <3>2
      <4>. QED  BY <1>2, <2>3, <2>4, <4>1, OpenedRows
    <3>. QED  BY <3>1, <3>2
  <2>5. Fits(a) /\ Agrees(a, handles')
    <3>1. RowsFrom(1, 0) = <<>>
      BY RowsTyped
    <3>2. InOrder(a.rows) /\ Len(a.rows) = 0
      BY <2>1, <3>1, QueueEmpty DEF InOrder
    <3>. QED  BY <1>1, <2>1, <3>2 DEF Fits, Agrees
  <2>. QED  BY <1>1, <1>3, <2>1, <2>2, <2>4, <2>5, ServedRows
<1>. QED  BY <1>4, <1>5 DEF ServePrepareAndExecute

-----------------------------------------------------------------------------

LEMMA InitRows == Init => RowsInv
<1>1. SUFFICES ASSUME Init PROVE RowsInv
  OBVIOUS
<1>2. Range(reqs) = {} /\ Range(resps) = {} /\ DOMAIN handles = {} /\ stmts = {}
  BY <1>1, QueueEmpty DEF Init
<1>3. call.wait = "none" /\ last.status = "none"
  BY <1>1 DEF Init, NoCall, NoResult
<1>. QED
  BY <1>2, <1>3 DEF RowsInv, OpInStep, RowsRead, RowsToRead, RowsAskedFor, StatementsInStep,
     HandleInStep, RowsComplete

LEMMA StutterRows == ASSUME RowsInv, UNCHANGED vars PROVE RowsInv'
<1>1. UNCHANGED <<conn, stmts, call, up, reqs, resps, handles, last, io_failed>>
  BY DEF vars, client, stream, server, history
<1>2. Live' <=> Live
  BY <1>1 DEF Live
<1>3. OpInStep' /\ RowsRead' /\ RowsToRead' /\ RowsAskedFor' /\ RowsComplete'
  BY <1>1 DEF RowsInv, OpInStep, RowsRead, RowsToRead, RowsAskedFor, RowsComplete, InOrder
<1>4. StatementsInStep' /\ HandleInStep'
  BY <1>1, <1>2 DEF RowsInv, StatementsInStep, HandleInStep
<1>. QED  BY <1>3, <1>4 DEF RowsInv

LEMMA NextRows ==
    ASSUME ~ServerErrors
    PROVE  IInv /\ IInv' /\ RowsInv /\ [Next]_vars => RowsInv'
<1>1. SUFFICES ASSUME SessionInv, HandlesOwned, SessionInv', RowsInv, [Next]_vars PROVE RowsInv'
  BY DEF IInv
<1>2. CASE \/ StartExecute \/ StartQuery \/ StartPrepare \/ StartPing
           \/ \E t \in {"commit", "rollback"} : StartEndTran(t)
           \/ \E s \in stmts : StartStmtExecute(s) \/ StartStmtQuery(s)
  BY <1>1, <1>2, StartsRows
<1>3. CASE \E s \in stmts : StmtClose(s)
  BY <1>1, <1>3, StmtCloseRows
<1>4. CASE SetAutoCommit \/ Close \/ \E s \in stmts : StmtDrop(s)
  BY <1>1, <1>4, LocalRows
<1>5. CASE ClientStep \/ RecvFails
  BY <1>1, <1>5, RecvPrepareAndExecuteRows, RecvExecuteRows, RecvFetchRows, RecvPrepareRows,
     RecvOtherRows, RecvFailsRows DEF ClientStep
<1>6. CASE ServerStep
  BY <1>1, <1>6, ServePrepareAndExecuteRows, ServePrepareRows, ServeExecuteRows,
     ServeFetchRows, ServeCloseHandleRows, ServeSimpleRows DEF ServerStep
<1>7. CASE LinkBreaks \/ ServerHangsUp
  BY <1>1, <1>7, BreakRows
<1>8. CASE UNCHANGED vars
  BY <1>1, <1>8, StutterRows
<1>. QED  BY <1>1, <1>2, <1>3, <1>4, <1>5, <1>6, <1>7, <1>8 DEF Next, ServerRefuses

(* A query returns every row of its result once and in order, whatever the *)
(* sizes of result and batch, from a server that sends what it has: the    *)
(* rows of PREPARE_AND_EXECUTE or EXECUTE and those of fetch_remaining's   *)
(* rounds fit together.                                                    *)
THEOREM ResultsComplete ==
    ASSUME ~ServerErrors
    PROVE  Spec => []RowsComplete
<1>1. Init => IInv /\ RowsInv
  BY InitInv, InitRows
<1>2. IInv /\ RowsInv /\ [Next]_vars => (IInv /\ RowsInv)'
  BY NextInv, NextRows
<1>3. RowsInv => RowsComplete
  BY DEF RowsInv
<1>. QED  BY <1>1, <1>2, <1>3, PTL DEF Spec
=============================================================================
