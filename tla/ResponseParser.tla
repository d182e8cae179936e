--------------------------- MODULE ResponseParser ---------------------------
(***************************************************************************)
(* The parsers of response.rs and handshake.rs at work on one packet, byte *)
(* by byte: each takes its fields off a PacketReader and stops at the first*)
(* one that is not there (`?').  One action is one group of fields that    *)
(* stands together on the wire; the loops over columns, result infos, rows *)
(* and cells are iterated by the actions.                                  *)
(*                                                                         *)
(* The same reader stands for the CAS at the other end, which takes the    *)
(* requests apart: a function code, then arguments, each after its length. *)
(***************************************************************************)
EXTENDS Wire

CONSTANT Inputs   \* packets: [data, arg, want], `want' for the properties only

Byte == 0 .. 255
Parsers == {"prepare_and_execute", "prepare", "execute", "fetch", "last_insert_id",
            "db_version", "open_database", "simple", "request", "bind", "open_request"}

(* arg: the parser called, proto_version, and the columns and statement    *)
(* type that parse_execute and parse_fetch are given.                      *)
ASSUME InputsAssumption ==
    \A m \in Inputs :
        /\ m.data \in Seq(Byte)
        /\ m.arg.parser \in Parsers
        /\ m.arg.proto \in Nat
        /\ m.arg.stmt \in Byte
        /\ m.arg.cols \in Seq([type : DataTypes])

VARIABLES
    data, arg, want,   \* the packet and how it is read; never change
    pos,               \* PacketReader::pos
    pc,                \* what is read next, or how the parser returned
    left,              \* columns, result infos, rows or bytes still to be read
    col,               \* the column being read
    stmt, cols,        \* statement type and column types for parse_row_data
    rows, row,         \* rows read, and the one being read
    tuple_count,       \* the rows announced
    res                \* the rest of the result

vars == <<data, arg, want, pos, pc, left, col, stmt, cols, rows, row, tuple_count, res>>

Returned == {"ok", "error", "server_error", "panic"}
Stages == {"head", "read_error", "prepared", "column", "column_names", "counts", "info",
           "inline", "fetched", "row", "cell", "id", "version", "session", "request",
           "args", "open_request"}

NoColumn == [type |-> 0, scale |-> 0, precision |-> 0, names |-> <<>>]

NoResult == [cas |-> <<>>, code |-> 0, bind |-> 0, total |-> 0, metas |-> <<>>,
             infos |-> <<>>, text |-> <<>>, args |-> <<>>]

Init ==
    /\ \E m \in Inputs : data = m.data /\ arg = m.arg /\ want = m.want
    /\ pos = 0
    /\ pc = CASE arg.parser = "request" -> "request"
              [] arg.parser = "bind" -> "args"
              [] arg.parser = "open_request" -> "open_request"
              [] OTHER -> "head"
    /\ left = 0
    /\ col = NoColumn
    /\ stmt = arg.stmt
    /\ cols = arg.cols
    /\ rows = <<>>
    /\ row = <<>>
    /\ tuple_count = 0
    /\ res = NoResult

-----------------------------------------------------------------------------
(* The reader *)

Remaining == Len(data) - pos

(* n bytes from offset k after pos on. *)
Bytes(k, n) == SubSeq(data, pos + k + 1, pos + k + n)

ByteAt(k) == data[pos + k + 1]

IntAt(k) == IntOf([i \in 1 .. SIZE_INT |-> data[pos + k + i]])

TextAt(k, n) == Stripped(Bytes(k, n))

(* from_utf8 accepts the text. *)
GoodText(k, n) == ValidUtf8(TextAt(k, n))

input == <<data, arg, want>>
header == <<stmt, cols, col>>
body == <<rows, row, tuple_count>>

(* The parser returns an error where it is. *)
Fails(how) ==
    /\ pc' = how
    /\ UNCHANGED <<input, pos, left, header, body, res>>

(* ensure(n) does not hold. *)
Eof(n) == Remaining < n /\ Fails("error")

(* ensure(n) holds, and the reader goes n bytes on. *)
Takes(n, next) ==
    /\ Remaining >= n
    /\ pos' = pos + n
    /\ pc' = next
    /\ UNCHANGED input

-----------------------------------------------------------------------------
(* The beginning of every response *)

(* What follows the response code. *)
Body(code) ==
    IF code < 0 THEN "read_error"
    ELSE CASE arg.parser \in {"prepare_and_execute", "prepare"} -> "prepared"
           [] arg.parser = "execute" -> "counts"
           [] arg.parser = "fetch" -> "fetched"
           [] arg.parser = "last_insert_id" /\ code > 0 -> "id"
           [] arg.parser = "db_version" -> "version"
           [] arg.parser = "open_database" -> "session"
           [] OTHER -> "ok"

(* parse_cas_info and the response code. *)
ResponseCode ==
    /\ pc = "head"
    /\ \/ Eof(SIZE_CAS_INFO + SIZE_INT)
       \/ /\ Takes(SIZE_CAS_INFO + SIZE_INT, Body(IntAt(SIZE_CAS_INFO)))
          /\ res' = [res EXCEPT !.cas = Bytes(0, SIZE_CAS_INFO),
                                !.code = IntAt(SIZE_CAS_INFO)]
          /\ left' = IF pc' = "id" THEN IntAt(SIZE_CAS_INFO) ELSE 0
          /\ UNCHANGED <<header, body>>

(* read_error: a code and a message that fills the packet. *)
ReadError ==
    /\ pc = "read_error"
    /\ \/ Eof(SIZE_INT)
       \/ Remaining >= SIZE_INT /\ ~GoodText(SIZE_INT, Remaining - SIZE_INT) /\ Fails("error")
       \/ /\ Takes(Remaining, "server_error")
          /\ Remaining >= SIZE_INT
          /\ GoodText(SIZE_INT, Remaining - SIZE_INT)
          /\ res' = [res EXCEPT !.code = IntAt(0),
                                !.text = TextAt(SIZE_INT, Remaining - SIZE_INT)]
          /\ UNCHANGED <<left, header, body>>

(* A text of n bytes that ends the response. *)
LastText(n) ==
    \/ Eof(n)
    \/ Remaining >= n /\ ~GoodText(0, n) /\ Fails("error")
    \/ /\ Takes(n, "ok")
       /\ GoodText(0, n)
       /\ res' = [res EXCEPT !.text = TextAt(0, n)]
       /\ UNCHANGED <<left, header, body>>

(* parse_get_last_insert_id: the code is the length. *)
InsertId == pc = "id" /\ LastText(left)

(* parse_get_db_version: all the rest. *)
Version == pc = "version" /\ LastText(Remaining)

(* parse_open_database: broker info, with the protocol version in six bits *)
(* of its fifth byte, and the session.                                     *)
Session ==
    /\ pc = "session"
    /\ \/ Eof(SIZE_BROKER_INFO + SIZE_INT)
       \/ /\ Takes(SIZE_BROKER_INFO + SIZE_INT, "ok")
          /\ res' = [res EXCEPT !.bind = ByteAt(4) % 64, !.total = IntAt(SIZE_BROKER_INFO)]
          /\ UNCHANGED <<left, header, body>>

-----------------------------------------------------------------------------
(* Columns *)

(* Vec::with_capacity panics on a negative count: `as usize' is enormous.  *)
Counted(count, next) == IF count < 0 THEN "panic" ELSE next

(* Cache lifetime, statement type, bind count, updatable, column count. *)
Prepared ==
    /\ pc = "prepared"
    /\ \/ Eof(14)
       \/ /\ Takes(14, Counted(IntAt(10), "column"))
          /\ stmt' = StatementType(ByteAt(4))
          /\ cols' = <<>>
          /\ left' = IntAt(10)
          /\ res' = [res EXCEPT !.bind = IntAt(5)]
          /\ UNCHANGED <<col, body>>

(* The high bit of a type byte says that the type is in the next one. *)
TypeBytes == IF Remaining > 0 /\ ByteAt(0) >= 128 THEN 2 ELSE 1

ColumnType ==
    /\ pc = "column"
    /\ left > 0
    /\ \/ Eof(TypeBytes + SIZE_SHORT + SIZE_INT)
       \/ /\ Remaining >= TypeBytes
          /\ ByteAt(TypeBytes - 1) \notin DataTypes
          /\ Fails("error")
       \/ /\ Takes(TypeBytes + SIZE_SHORT + SIZE_INT, "column_names")
          /\ ByteAt(TypeBytes - 1) \in DataTypes
          /\ col' = [type |-> ByteAt(TypeBytes - 1), scale |-> ShortOf(Bytes(TypeBytes, 2)),
                     precision |-> IntAt(TypeBytes + SIZE_SHORT), names |-> <<>>]
          /\ UNCHANGED <<left, stmt, cols, body, res>>

(* name, real_name, table_name: a length and a text. *)
ColumnName ==
    /\ pc = "column_names"
    /\ Len(col.names) < 3
    /\ \/ Eof(SIZE_INT)
       \/ /\ Remaining >= SIZE_INT
          /\ LET n == AsUsize(IntAt(0))
             IN \/ Eof(SIZE_INT + n)
                \/ /\ Remaining >= SIZE_INT + n
                   /\ ~GoodText(SIZE_INT, n)
                   /\ Fails("error")
                \/ /\ Takes(SIZE_INT + n, pc)
                   /\ GoodText(SIZE_INT, n)
                   /\ col' = [col EXCEPT !.names = Append(@, TextAt(SIZE_INT, n))]
                   /\ UNCHANGED <<left, stmt, cols, body, res>>

(* is_nullable, the default, seven flags of which four are kept. *)
ColumnFlags ==
    /\ pc = "column_names"
    /\ Len(col.names) = 3
    /\ \/ Eof(1 + SIZE_INT)
       \/ /\ Remaining >= 1 + SIZE_INT
          /\ LET n == AsUsize(IntAt(1))
             IN \/ Eof(1 + SIZE_INT + n + 7)
                \/ /\ Remaining >= 1 + SIZE_INT + n
                   /\ ~GoodText(1 + SIZE_INT, n)
                   /\ Fails("error")
                \/ /\ Takes(1 + SIZE_INT + n + 7, "column")
                   /\ GoodText(1 + SIZE_INT, n)
                   /\ cols' = Append(cols, [type |-> col.type])
                   /\ res' = [res EXCEPT !.metas = Append(@,
                                [column |-> col, default |-> TextAt(1 + SIZE_INT, n),
                                 flags |-> [k \in 1 .. 5 |->
                                    ByteAt(<<0, 5 + n, 6 + n, 7 + n, 10 + n>>[k]) = 1]])]
                   /\ left' = left - 1
                   /\ UNCHANGED <<stmt, col, body>>

(* parse_column_metadata returns. *)
ColumnsDone ==
    /\ pc = "column"
    /\ left = 0
    /\ Takes(0, IF arg.parser = "prepare" THEN "ok" ELSE "counts")
    /\ UNCHANGED <<left, header, body, res>>

-----------------------------------------------------------------------------
(* Results *)

(* The total (the response code of an EXECUTE), cache_reusable, the number *)
(* of result infos.                                                        *)
Counts ==
    /\ pc = "counts"
    /\ LET k == IF arg.parser = "execute" THEN 0 ELSE SIZE_INT
       IN \/ Eof(k + 1 + SIZE_INT)
          \/ /\ Takes(k + 1 + SIZE_INT, Counted(IntAt(k + 1), "info"))
             /\ left' = IntAt(k + 1)
             /\ res' = [res EXCEPT !.total = IF k = 0 THEN res.code ELSE IntAt(0)]
             /\ UNCHANGED <<header, body>>

(* Mutant of Info: the bytes are not checked for. *)
InfoUnchecked ==
    /\ pc = "info"
    /\ left > 0
    /\ pos' = pos + 1 + SIZE_INT + SIZE_OID + 2 * SIZE_INT
    /\ left' = left - 1
    /\ UNCHANGED <<input, pc, header, body, res>>

(* Statement type, row count, OID, cache time. *)
Info ==
    /\ pc = "info"
    /\ left > 0
    /\ \/ Eof(1 + SIZE_INT + SIZE_OID + 2 * SIZE_INT)
       \/ /\ Takes(1 + SIZE_INT + SIZE_OID + 2 * SIZE_INT, pc)
          /\ res' = [res EXCEPT !.infos = Append(@,
                        [stmt |-> StatementType(ByteAt(0)), count |-> IntAt(1),
                         oid |-> Bytes(1 + SIZE_INT, SIZE_OID)])]
          /\ left' = left - 1
          /\ UNCHANGED <<header, body>>

(* includes_column_info and shard_id, by protocol version. *)
InfosDone ==
    /\ pc = "info"
    /\ left = 0
    /\ LET n == (IF arg.proto > 1 THEN 1 ELSE 0) + (IF arg.proto > 4 THEN SIZE_INT ELSE 0)
       IN Eof(n) \/ (Takes(n, "inline") /\ UNCHANGED <<left, header, body, res>>)

(* Only parse_prepare_and_execute reads the rows of a result without       *)
(* columns.                                                                *)
RowsOrDone(n) ==
    IF n > 0 /\ (cols # <<>> \/ arg.parser = "prepare_and_execute") THEN "row" ELSE "ok"

(* A SELECT's first rows, if the packet goes on. *)
Inline ==
    /\ pc = "inline"
    /\ \/ /\ IsSelect(stmt)
          /\ Takes(2 * SIZE_INT, RowsOrDone(IntAt(SIZE_INT)))
          /\ tuple_count' = IntAt(SIZE_INT)
          /\ left' = IntAt(SIZE_INT)
          /\ UNCHANGED <<header, rows, row, res>>
       \/ /\ ~IsSelect(stmt) \/ Remaining < 2 * SIZE_INT
          /\ Takes(0, "ok")
          /\ UNCHANGED <<left, header, body, res>>

(* parse_fetch *)
Fetched ==
    /\ pc = "fetched"
    /\ \/ Eof(SIZE_INT)
       \/ /\ Takes(SIZE_INT, RowsOrDone(IntAt(0)))
          /\ tuple_count' = IntAt(0)
          /\ left' = IntAt(0)
          /\ UNCHANGED <<header, rows, row, res>>

-----------------------------------------------------------------------------
(* parse_row_data *)

(* Mutant of Row: the loop also ends where the packet does. *)
RowLenient ==
    /\ pc = "row"
    /\ left > 0
    /\ \/ Remaining < SIZE_INT + SIZE_OID /\ Fails("ok")
       \/ /\ Takes(SIZE_INT + SIZE_OID, "cell")
          /\ row' = <<>>
          /\ UNCHANGED <<left, header, rows, tuple_count, res>>

(* The row's index and OID. *)
Row ==
    /\ pc = "row"
    /\ left > 0
    /\ \/ Eof(SIZE_INT + SIZE_OID)
       \/ /\ Takes(SIZE_INT + SIZE_OID, "cell")
          /\ row' = <<>>
          /\ UNCHANGED <<left, header, rows, tuple_count, res>>

(* Mutant of RowDone: rows are counted twice. *)
RowDoneTwice ==
    /\ pc = "cell"
    /\ Len(row) = Len(cols)
    /\ rows' = Append(rows, row)
    /\ left' = IF left > 1 THEN left - 2 ELSE 0
    /\ Takes(0, "row")
    /\ UNCHANGED <<header, row, tuple_count, res>>

RowDone ==
    /\ pc = "cell"
    /\ Len(row) = Len(cols)
    /\ rows' = Append(rows, row)
    /\ left' = left - 1
    /\ Takes(0, "row")
    /\ UNCHANGED <<header, row, tuple_count, res>>

RowsDone ==
    /\ pc = "row"
    /\ left = 0
    /\ Takes(0, "ok")
    /\ UNCHANGED <<left, header, body, res>>

(* The cells of a CALL, and those of a column of type NULL, begin with the *)
(* type of the value.                                                      *)
Tagged == IsCall(stmt) \/ cols[Len(row) + 1].type = DataType.Null

AddCell(n, value) ==
    /\ Takes(n, pc)
    /\ row' = Append(row, value)
    /\ UNCHANGED <<left, header, rows, tuple_count, res>>

(* Mutant of CellValue: the size sent is taken for the size of the value,  *)
(* type code included.                                                     *)
CellValueWithTag(k, type, size) ==
    LET variant == IF type \in DataTypes THEN Variant[type] ELSE "Bytes"
        n == IF variant \in {"String", "Bytes"} THEN size + k - SIZE_INT ELSE FixedSize[variant]
    IN \/ Eof(k + n)
       \/ Remaining >= k + n /\ variant = "String" /\ ~GoodText(k, n) /\ Fails("error")
       \/ /\ Remaining >= k + n
          /\ variant = "String" => GoodText(k, n)
          /\ AddCell(k + n, ValueOf(variant, Bytes(k, n)))

(* read_value: a text or raw bytes take the size announced, every other    *)
(* value its own.  A value of unknown type stays raw.                      *)
CellValue(k, type, size) ==
    LET variant == IF type \in DataTypes THEN Variant[type] ELSE "Bytes"
        n == IF variant \in {"String", "Bytes"} THEN size ELSE FixedSize[variant]
    IN \/ Eof(k + n)
       \/ Remaining >= k + n /\ variant = "String" /\ ~GoodText(k, n) /\ Fails("error")
       \/ /\ Remaining >= k + n
          /\ variant = "String" => GoodText(k, n)
          /\ AddCell(k + n, ValueOf(variant, Bytes(k, n)))

(* A size of zero or less is NULL; a tag with nothing after it too. *)
Cell ==
    /\ pc = "cell"
    /\ Len(row) < Len(cols)
    /\ \/ Eof(SIZE_INT)
       \/ /\ Remaining >= SIZE_INT
          /\ LET size == IntAt(0)
             IN \/ size <= 0 /\ AddCell(SIZE_INT, NullValue)
                \/ /\ size > 0 /\ ~Tagged
                   /\ CellValue(SIZE_INT, cols[Len(row) + 1].type, size)
                \/ /\ size > 0 /\ Tagged
                   /\ \/ Eof(SIZE_INT + 1)
                      \/ size = 1 /\ AddCell(SIZE_INT + 1, NullValue)
                      \/ /\ size > 1 /\ Remaining >= SIZE_INT + 1
                         /\ CellValue(SIZE_INT + 1, ByteAt(SIZE_INT), size - 1)

-----------------------------------------------------------------------------
(* The CAS reads a request *)

(* A frame holds as many bytes as its header says. *)
Request ==
    /\ pc = "request"
    /\ \/ Eof(SIZE_INT + SIZE_CAS_INFO + 1)
       \/ /\ Takes(SIZE_INT + SIZE_CAS_INFO + 1,
                   IF IntAt(0) = Remaining - SIZE_INT - SIZE_CAS_INFO THEN "args" ELSE "error")
          /\ res' = [res EXCEPT !.cas = Bytes(SIZE_INT, SIZE_CAS_INFO),
                                !.code = ByteAt(SIZE_INT + SIZE_CAS_INFO)]
          /\ UNCHANGED <<left, header, body>>

(* Arguments, and bind parameters inside one, each after its length. *)
Argument ==
    /\ pc = "args"
    /\ \/ Remaining = 0 /\ Fails("ok")
       \/ Remaining > 0 /\ Eof(SIZE_INT)
       \/ /\ Remaining >= SIZE_INT
          /\ LET n == AsUsize(IntAt(0))
             IN \/ Eof(SIZE_INT + n)
                \/ /\ Takes(SIZE_INT + n, pc)
                   /\ res' = [res EXCEPT !.args = Append(@, Bytes(SIZE_INT, n))]
                   /\ UNCHANGED <<left, header, body>>

(* The three names at their places in the fixed layout of OpenDatabase. *)
OpenRequest ==
    /\ pc = "open_request"
    /\ \/ Eof(628)
       \/ /\ Takes(628, "ok")
          /\ res' = [res EXCEPT !.args = <<TextAt(0, 32), TextAt(32, 32), TextAt(64, 32)>>]
          /\ UNCHANGED <<left, header, body>>

-----------------------------------------------------------------------------

Next ==
    \/ ResponseCode \/ ReadError \/ InsertId \/ Version \/ Session
    \/ Prepared \/ ColumnType \/ ColumnName \/ ColumnFlags \/ ColumnsDone
    \/ Counts \/ Info \/ InfosDone \/ Inline \/ Fetched
    \/ Row \/ Cell \/ RowDone \/ RowsDone
    \/ Request \/ Argument \/ OpenRequest

Spec == Init /\ [][Next]_vars

-----------------------------------------------------------------------------
(* Properties *)

(* The reader never leaves the packet: every index and every slice it      *)
(* takes is inside data, whatever the packet says about itself, and no     *)
(* count of what is left goes below zero except on the way to a panic.     *)
TypeOK ==
    /\ data \in Seq(Byte)
    /\ arg.parser \in Parsers
    /\ pos \in 0 .. Len(data)
    /\ pc \in Stages \cup Returned
    /\ left \in Int
    /\ left < 0 => pc \in Returned
    /\ stmt \in Byte
    /\ cols \in Seq([type : DataTypes])
    /\ col.type \in DataTypes
    /\ Len(col.names) \in 0 .. 3
    /\ Len(rows) \in Nat
    /\ Len(row) \in Nat
    /\ tuple_count \in Int

(* What fetch_remaining and every reader of a QueryResult rely on: a parser*)
(* that succeeds returns as many rows as it announces in tuple_count, each *)
(* with one cell per column; or none, if there are no columns.             *)
RowsMatchHeader ==
    /\ \A i \in DOMAIN rows : Len(rows[i]) = Len(cols)
    /\ pc = "ok" =>
          \/ Len(rows) = (IF tuple_count > 0 THEN tuple_count ELSE 0)
          \/ rows = <<>> /\ cols = <<>>

(* How the counts of what is left and the cells of the row being read      *)
(* relate to the header; with it the two above are inductive.              *)
LoopsInStep ==
    /\ pc = "column_names" => left > 0
    /\ pc \in {"row", "cell"} => left >= 0 /\ Len(rows) + left = tuple_count
    /\ pc = "cell" => left > 0 /\ Len(row) <= Len(cols)
    /\ pc \notin {"row", "cell"} \cup Returned => rows = <<>> /\ tuple_count = 0

(* Fields are read in the order, the width and the form in which they were *)
(* written, and nothing is left over: an answer laid out as the parsers of *)
(* response.rs and their tests have it, a request as request.rs has it, and*)
(* a parameter, where a cell of its type is laid out alike.                *)
RoundTrip ==
    pc \in Returned /\ want.kind = "whole" =>
        /\ pc = want.pc
        /\ pos = Len(data)
        /\ [r |-> res, s |-> stmt, c |-> cols, t |-> rows] = want.result

(* An answer that was cut short is refused, unless only the rows that came *)
(* with it are missing: then none are returned, and the rest is complete.  *)
CutNoticed ==
    pc = "ok" /\ want.kind = "cut" =>
        /\ rows = <<>>
        /\ tuple_count = 0
        /\ res.metas = want.result.r.metas
        /\ res.infos = want.result.r.infos

(* The parsers return a result or an error, as response.rs promises.       *)
NoPanic == pc # "panic"
=============================================================================
