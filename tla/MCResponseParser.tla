-------------------------- MODULE MCResponseParser --------------------------
(* Packets for TLC: answers, laid out as response.rs, codec.rs and their   *)
(* tests have them, whole, cut short and with one byte changed, each with  *)
(* what its reader should make of it; and the requests and parameters the  *)
(* client writes, with what they should hold.                              *)
EXTENDS ResponseParser

Cas == <<1, 2, 3, 255>>
Text(s) == WriteInt(Len(s) + 1) \o s \o <<0>>
Response(code, rest) == Cas \o WriteInt(code) \o rest

(* One value of each variant: its type, its bytes and what they mean. *)
Samples ==
    {[t |-> 8,  b |-> <<255, 255, 255, 254>>, v |-> [variant |-> "Int", v |-> -2]],
     [t |-> 9,  b |-> <<128, 1>>, v |-> [variant |-> "Short", v |-> -32767]],
     [t |-> 21, b |-> <<0, 0, 0, 0, 0, 0, 1, 0>>,
                v |-> [variant |-> "Long", v |-> <<0, 0, 0, 0, 0, 0, 1, 0>>]],
     [t |-> 11, b |-> <<63, 128, 0, 0>>,
                v |-> [variant |-> "Float", v |-> <<63, 128, 0, 0>>]],
     [t |-> 10, b |-> <<64, 0, 0, 0, 0, 0, 0, 0>>,
                v |-> [variant |-> "Double", v |-> <<64, 0, 0, 0, 0, 0, 0, 0>>]],
     [t |-> 13, b |-> <<7, 232, 0, 2, 0, 29>>,
                v |-> [variant |-> "Date", v |-> <<2024, 2, 29>>]],
     [t |-> 14, b |-> <<0, 23, 0, 59, 0, 58>>,
                v |-> [variant |-> "Time", v |-> <<23, 59, 58>>]],
     [t |-> 15, b |-> <<7, 232, 0, 1, 0, 2, 0, 3, 0, 4, 0, 5>>,
                v |-> [variant |-> "Timestamp", v |-> <<2024, 1, 2, 3, 4, 5>>]],
     [t |-> 22, b |-> <<7, 232, 0, 1, 0, 2, 0, 3, 0, 4, 0, 5, 3, 231>>,
                v |-> [variant |-> "Datetime", v |-> <<2024, 1, 2, 3, 4, 5, 999>>]],
     [t |-> 2,  b |-> <<195, 169, 39, 0>>, v |-> [variant |-> "String", v |-> <<195, 169, 39>>]],
     [t |-> 7,  b |-> <<49, 0>>, v |-> [variant |-> "String", v |-> <<49>>]],
     [t |-> 6,  b |-> <<170, 0>>, v |-> [variant |-> "Bytes", v |-> <<170, 0>>]],
     [t |-> 18, b |-> <<1, 2, 3>>, v |-> [variant |-> "Bytes", v |-> <<1, 2, 3>>]]}

NullCell == [variant |-> "Null", v |-> <<>>]

(* A cell as it is sent: plain, with its type, and NULL in its two forms. *)
Plain(x) == WriteInt(Len(x.b)) \o x.b
Typed(x) == WriteInt(Len(x.b) + 1) \o <<x.t>> \o x.b

RowOf(i, cells) == WriteInt(i) \o WriteFiller(8) \o FlattenSeq(cells)

(* A column of type t, in the old form of one type byte or the new of two. *)
Column(t, old) ==
    (IF old THEN <<t>> ELSE <<128, t>>) \o <<0, 2>> \o WriteInt(10) \o Text(<<97, 98>>)
    \o Text(<<>>) \o WriteInt(0) \o <<1>> \o Text(<<48>>) \o <<0, 1, 1, 0, 0, 1, 0>>

Meta(t) ==
    [column |-> [type |-> t, scale |-> 2, precision |-> 10,
                 names |-> <<<<97, 98>>, <<>>, <<>>>>],
     default |-> <<48>>, flags |-> <<TRUE, FALSE, TRUE, TRUE, TRUE>>]

PreparedBody(st, ts) ==
    WriteInt(0) \o <<st>> \o WriteInt(2) \o <<0>> \o WriteInt(Len(ts))
    \o FlattenSeq([i \in DOMAIN ts |-> Column(ts[i], i % 2 = 1)])

InfoBytes(st, n) == <<st>> \o WriteInt(n) \o <<1, 2, 3, 4, 5, 6, 7, 8>> \o WriteFiller(8)
InfoOf(st, n) == [stmt |-> st, count |-> n, oid |-> <<1, 2, 3, 4, 5, 6, 7, 8>>]

Extras(proto) ==
    (IF proto > 1 THEN <<0>> ELSE <<>>) \o (IF proto > 4 THEN WriteInt(-1) ELSE <<>>)

Typeds(ts) == [i \in DOMAIN ts |-> [type |-> ts[i]]]

Arg(parser, proto, st, ts) ==
    [parser |-> parser, proto |-> proto, stmt |-> st, cols |-> Typeds(ts)]

Want(how, r, s, ts, rs) ==
    [kind |-> "whole", pc |-> how, result |-> [r |-> r, s |-> s, c |-> Typeds(ts), t |-> rs]]

Base(code) == [NoResult EXCEPT !.cas = Cas, !.code = code]

(* PREPARE_AND_EXECUTE of a SELECT with two columns and two rows. *)
SelectPacket(x, y, proto) ==
    LET ts == <<x.t, y.t>> IN
    [data |-> Response(7, PreparedBody(21, ts) \o WriteInt(2) \o <<0>> \o WriteInt(1)
                \o InfoBytes(21, 2) \o Extras(proto) \o WriteInt(0) \o WriteInt(2)
                \o RowOf(1, <<Plain(x), Plain(y)>>) \o RowOf(2, <<WriteInt(-1), Plain(y)>>)),
     arg |-> Arg("prepare_and_execute", proto, 127, <<>>),
     want |-> Want("ok", [Base(7) EXCEPT !.bind = 2, !.total = 2,
                                !.metas = <<Meta(x.t), Meta(y.t)>>, !.infos = <<InfoOf(21, 2)>>],
                   21, ts, <<<<x.v, y.v>>, <<NullCell, y.v>>>>)]

(* PREPARE_AND_EXECUTE of another statement: two infos, no rows. *)
UpdatePacket(proto) ==
    [data |-> Response(0, PreparedBody(22, <<>>) \o WriteInt(3) \o <<0>> \o WriteInt(2)
                \o InfoBytes(22, 3) \o InfoBytes(200, -1) \o Extras(proto)),
     arg |-> Arg("prepare_and_execute", proto, 127, <<>>),
     want |-> Want("ok", [Base(0) EXCEPT !.bind = 2, !.total = 3,
                                !.infos = <<InfoOf(22, 3), InfoOf(127, -1)>>], 22, <<>>, <<>>)]

PreparePacket(x, y) ==
    [data |-> Response(5, PreparedBody(21, <<x.t, y.t>>)),
     arg |-> Arg("prepare", 0, 127, <<>>),
     want |-> Want("ok", [Base(5) EXCEPT !.bind = 2, !.metas = <<Meta(x.t), Meta(y.t)>>],
                   21, <<x.t, y.t>>, <<>>)]

(* EXECUTE of a SELECT that was prepared; the columns are known. *)
ExecutePacket(x, proto) ==
    [data |-> Response(3, <<0>> \o WriteInt(1) \o InfoBytes(21, 3) \o Extras(proto)
                \o WriteInt(0) \o WriteInt(1) \o RowOf(1, <<Plain(x)>>)),
     arg |-> Arg("execute", proto, 21, <<x.t>>),
     want |-> Want("ok", [Base(3) EXCEPT !.total = 3, !.infos = <<InfoOf(21, 3)>>],
                   21, <<x.t>>, <<<<x.v>>>>)]

(* FETCH of the rows of a CALL: every cell brings its type. *)
CallPacket(x, y) ==
    LET unknown == WriteInt(3) \o <<99, 8, 9>> IN
    [data |-> Response(0, WriteInt(2) \o RowOf(1, <<Typed(x), Typed(y)>>)
                \o RowOf(2, <<WriteInt(1) \o <<0>>, unknown>>)),
     arg |-> Arg("fetch", 0, 24, <<0, y.t>>),
     want |-> Want("ok", Base(0), 24, <<0, y.t>>,
                   <<<<x.v, y.v>>, <<NullCell, [variant |-> "Bytes", v |-> <<8, 9>>]>>>>)]

(* FETCH of a column of type NULL, and of no column. *)
FetchPackets ==
    {[data |-> Response(0, WriteInt(1) \o RowOf(1, <<Typed(x)>>)),
      arg |-> Arg("fetch", 0, 21, <<0>>),
      want |-> Want("ok", Base(0), 21, <<0>>, <<<<x.v>>>>)] : x \in Samples}
    \cup {[data |-> Response(0, WriteInt(n)), arg |-> Arg("fetch", 0, 21, ts),
           want |-> Want("ok", Base(0), 21, ts, <<>>)] :
              n \in {0, -3}, ts \in {<<>>, <<8>>}}

Ends ==
    {[data |-> Response(3, <<52, 50, 0>>), arg |-> Arg("last_insert_id", 0, 127, <<>>),
      want |-> Want("ok", [Base(3) EXCEPT !.text = <<52, 50>>], 127, <<>>, <<>>)],
     [data |-> Response(0, <<>>), arg |-> Arg("last_insert_id", 0, 127, <<>>),
      want |-> Want("ok", Base(0), 127, <<>>, <<>>)],
     [data |-> Response(0, <<49, 49, 46, 52, 0>>), arg |-> Arg("db_version", 0, 127, <<>>),
      want |-> Want("ok", [Base(0) EXCEPT !.text = <<49, 49, 46, 52>>], 127, <<>>, <<>>)],
     [data |-> Response(0, <<0, 0, 0, 0, 71>> \o WriteFiller(11) \o WriteInt(77)),
      arg |-> Arg("open_database", 0, 127, <<>>),
      want |-> Want("ok", [Base(0) EXCEPT !.bind = 7, !.total = 77], 127, <<>>, <<>>)],
     [data |-> Response(0, <<>>), arg |-> Arg("simple", 0, 127, <<>>),
      want |-> Want("ok", Base(0), 127, <<>>, <<>>)]}
    \cup {[data |-> Response(-1, WriteInt(-493) \o <<110, 111, 0>>),
           arg |-> Arg(p, 7, 127, <<>>),
           want |-> Want("server_error", [Base(-493) EXCEPT !.text = <<110, 111>>],
                         127, <<>>, <<>>)] :
              p \in Parsers \ {"request", "bind", "open_request"}}

(* Requests and the arguments in them. *)
Requested(bytes, fc, args) ==
    [data |-> bytes, arg |-> Arg("request", 0, 127, <<>>),
     want |-> Want("ok", [Base(fc) EXCEPT !.args = args], 127, <<>>, <<>>)]

Sql == <<65, 66>>
I(v) == ToBytes(v, 4)
Params == <<[variant |-> "Null", v |-> <<>>], [variant |-> "Bool", v |-> TRUE],
            [variant |-> "Short", v |-> -2], [variant |-> "Int", v |-> 258],
            [variant |-> "Long", v |-> <<1, 2, 3, 4, 5, 6, 7, 8>>],
            [variant |-> "Float", v |-> <<1, 2, 3, 4>>],
            [variant |-> "Double", v |-> <<1, 2, 3, 4, 5, 6, 7, 8>>],
            [variant |-> "String", v |-> <<65>>], [variant |-> "Bytes", v |-> <<9, 0>>],
            [variant |-> "Date", v |-> <<2024, 1, 2>>], [variant |-> "Time", v |-> <<3, 4, 5>>],
            [variant |-> "Timestamp", v |-> <<2024, 1, 2, 3, 4, 5>>],
            [variant |-> "Datetime", v |-> <<2024, 1, 2, 3, 4, 5, 6>>]>>
Sent == <<<<>>, <<9, 0, 1>>, <<9, 255, 254>>, <<8, 0, 0, 1, 2>>,
          <<21, 1, 2, 3, 4, 5, 6, 7, 8>>, <<11, 1, 2, 3, 4>>,
          <<12, 1, 2, 3, 4, 5, 6, 7, 8>>, <<2, 65, 0>>, <<6, 9, 0>>,
          <<22, 7, 232, 0, 1, 0, 2, 0, 0, 0, 0, 0, 0, 0, 0>>,
          <<14, 0, 0, 0, 0, 0, 0, 0, 3, 0, 4, 0, 5, 0, 0>>,
          <<15, 7, 232, 0, 1, 0, 2, 0, 3, 0, 4, 0, 5, 0, 0>>,
          <<22, 7, 232, 0, 1, 0, 2, 0, 3, 0, 4, 0, 5, 0, 6>>>>
SentBytes == FlattenSeq([i \in DOMAIN Sent |-> I(Len(Sent[i])) \o Sent[i]])

(* A parameter has the form of a cell of a CALL, and read_value makes of it*)
(* what it was, but for a boolean, which is a short by then, and a date,   *)
(* which is a datetime.  Times and timestamps are left out: a parameter has*)
(* seven shorts from the year on, a cell three from the hour, or six.      *)
ReadBack(p) ==
    CASE p.variant = "Bool" -> [variant |-> "Short", v |-> Flag(p.v)]
      [] p.variant = "Date" -> [variant |-> "Datetime", v |-> p.v \o <<0, 0, 0, 0>>]
      [] OTHER -> p

ParamPackets ==
    {[data |-> Response(0, WriteInt(1) \o RowOf(1, <<EncodeOneParam(Params[i])>>)),
      arg |-> Arg("fetch", 0, 24, <<0>>),
      want |-> Want("ok", Base(0), 24, <<0>>, <<<<ReadBack(Params[i])>>>>)] :
          i \in {k \in DOMAIN Params : Params[k].variant \notin {"Time", "Timestamp"}}}

Requests ==
    {Requested(PrepareAndExecuteRequest(Sql, TRUE, Cas), 41,
        <<I(3), Sql \o <<0>>, <<0>>, <<1>>, <<2>>, I(0), I(0), <<>>, I(0) \o I(0), I(0)>>),
     Requested(PrepareRequest(Sql, FALSE, Cas), 2, <<Sql \o <<0>>, <<0>>, <<0>>>>),
     Requested(FetchRequest(7, 100, 100, Cas), 8, <<I(7), I(101), I(100), <<0>>, I(0)>>),
     Requested(CloseReqHandleRequest(7, Cas), 6, <<I(7)>>),
     Requested(GetLastInsertIdRequest(Cas), 40, <<>>),
     Requested(EndTranRequest(2, Cas), 1, <<<<2>>>>),
     Requested(GetDbVersionRequest(TRUE, Cas), 15, <<<<1>>>>),
     Requested(ConCloseRequest(Cas), 31, <<>>)}
    \cup {Requested(ExecuteRequest(7, st, ps, FALSE, Cas), 3,
            <<I(7), <<0>>, I(0), I(0), IF ps = <<>> THEN <<>> ELSE SentBytes,
              <<IF st = 21 THEN 1 ELSE 0>>, <<0>>, <<1>>, I(0) \o I(0), I(0)>>) :
                st \in {20, 21}, ps \in {<<>>, Params}}
    \cup {[data |-> EncodeBindParams(Params), arg |-> Arg("bind", 0, 127, <<>>),
           want |-> Want("ok", [NoResult EXCEPT !.args = Sent], 127, <<>>, <<>>)],
          [data |-> OpenDatabaseRequest(<<100>>, <<117, 115>>, [i \in 1 .. 40 |-> 112]),
           arg |-> Arg("open_request", 0, 127, <<>>),
           want |-> Want("ok", [NoResult EXCEPT !.args =
                            <<<<100>>, <<117, 115>>, [i \in 1 .. 32 |-> 112]>>], 127, <<>>, <<>>)]}

(* Columns and rows in every pair of types; some of each for the rest. *)
Of(t) == CHOOSE x \in Samples : x.t = t
Main ==
    {SelectPacket(Of(2), Of(8), 7), UpdatePacket(7), PreparePacket(Of(8), Of(6)),
     ExecutePacket(Of(8), 7), CallPacket(Of(2), Of(8))}
Whole ==
    {SelectPacket(x, y, 7) : x \in Samples, y \in Samples}
    \cup {SelectPacket(Of(2), Of(8), p) : p \in {1, 2, 4, 5}}
    \cup {UpdatePacket(p) : p \in {0, 1, 3, 7}}
    \cup {PreparePacket(x, Of(8)) : x \in Samples}
    \cup {ExecutePacket(x, p) : x \in Samples, p \in {1, 7}}
    \cup {CallPacket(x, Of(8)) : x \in Samples} \cup {CallPacket(Of(8), x) : x \in Samples}
    \cup FetchPackets \cup Ends \cup Requests \cup ParamPackets

CutAt(m, n) == [m EXCEPT !.data = SubSeq(m.data, 1, n), !.want.kind = "cut"]
Changed(m, i, b) == [m EXCEPT !.data[i] = b, !.want.kind = "changed"]

Packets ==
    Whole
    \cup UNION {{CutAt(m, n) : n \in 0 .. Len(m.data) - 1} : m \in Main}
    \cup UNION {{Changed(m, i, b) : i \in DOMAIN m.data, b \in {0, 1, 128, 255}} : m \in Main}

(* A count of columns or of result infos that is below zero. *)
NegativeCounts ==
    {[data |-> Response(7, WriteInt(0) \o <<21>> \o WriteInt(0) \o <<0>> \o WriteInt(-1)),
      arg |-> Arg("prepare", 7, 127, <<>>), want |-> [kind |-> "changed"]],
     [data |-> Response(0, <<0>> \o WriteInt(-1)),
      arg |-> Arg("execute", 7, 21, <<8>>), want |-> [kind |-> "changed"]]}
=============================================================================
