------------------------ MODULE ResponseParserProofs ------------------------
(***************************************************************************)
(* For every packet, whatever it claims: the reader stays inside it, and a *)
(* parser that succeeds returns the rows it announces, one cell per column.*)
(***************************************************************************)
EXTENDS ResponseParser, TLAPS

(* Names, cells and rows are kept in sequences, of whatever elements. *)
Lists == \E S : col.names \in Seq(S) /\ row \in Seq(S) /\ rows \in Seq(Seq(S))

(* The inductive invariant: the rows read and those left make up the count *)
(* that was announced, and the row being read is never too long.           *)
IInv == TypeOK /\ Lists /\ RowsMatchHeader /\ LoopsInStep

-----------------------------------------------------------------------------
(* What the reader takes off the packet *)

(* Four bytes make an integer. *)
LEMMA IntOfInt ==
    ASSUME NEW bs, \A i \in 1 .. 4 : bs[i] \in Byte
    PROVE  IntOf(bs) \in Int
<1>1. /\ bs[1] \in Int /\ bs[2] \in Int /\ bs[3] \in Int /\ bs[4] \in Int
  BY DEF Byte
<1>2. Signed(bs[1]) \in Int
  BY <1>1 DEF Signed
<1> QED
  BY <1>1, <1>2 DEF IntOf

(* An integer read inside the packet is one. *)
LEMMA IntAtInt ==
    ASSUME TypeOK, NEW k \in Nat, Remaining >= k + 4
    PROVE  IntAt(k) \in Int
<1>1. \A i \in 1 .. 4 : data[pos + k + i] \in Byte
  BY DEF TypeOK, Remaining
<1> QED
  BY <1>1, IntOfInt DEF IntAt, SIZE_INT

(* A byte inside the packet is a byte. *)
LEMMA ByteAtByte ==
    ASSUME TypeOK, NEW k \in Nat, Remaining > k
    PROVE  ByteAt(k) \in Byte
  BY DEF TypeOK, Remaining, ByteAt

(* A length read off the packet is a natural number, however it is cast. *)
LEMMA AsUsizeNat ==
    ASSUME NEW v \in Int
    PROVE  AsUsize(v) \in Nat
  BY UsizeAssumption DEF AsUsize

(* An error leaves everything as it is. *)
LEMMA FailsKeeps ==
    ASSUME IInv, Fails("error")
    PROVE  IInv'
  BY DEF IInv, TypeOK, Lists, RowsMatchHeader, LoopsInStep, Fails, input, header, body,
         Returned, Stages

(* So does the end of the packet. *)
LEMMA EofKeeps ==
    ASSUME IInv, NEW n, Eof(n)
    PROVE  IInv'
  BY FailsKeeps DEF Eof

(* Reading on inside the packet, with the tables and the rows left alone,  *)
(* keeps the invariant if the next stage is not one of the rows'.          *)
LEMMA TakesKeeps ==
    ASSUME IInv, NEW n \in Nat, 
           NEW next \in (Stages \ {"row", "cell", "column_names"}) \cup Returned,
           Takes(n, next), UNCHANGED <<left, header, body>>,
           pc \notin {"row", "cell"} \cup Returned
    PROVE  IInv'
<1>1. pos' \in 0 .. Len(data)'
  BY DEF IInv, TypeOK, Takes, Remaining, input
<1>2. TypeOK'
  BY <1>1 DEF IInv, TypeOK, Takes, input, header, body, Returned, Stages
<1>3. Lists'
  BY DEF IInv, Lists, header, body
<1>4. RowsMatchHeader' /\ LoopsInStep'
  BY DEF IInv, RowsMatchHeader, LoopsInStep, TypeOK, Takes, header, body, Returned
<1> QED
  BY <1>2, <1>3, <1>4 DEF IInv

-----------------------------------------------------------------------------
(* The beginning of a response, and requests *)

(* Every response code leads to a stage before the rows, or to a return. *)
LEMMA BodyStage ==
    ASSUME NEW code
    PROVE  Body(code) \in (Stages \ {"row", "cell", "column_names"}) \cup Returned
  BY DEF Body, Stages, Returned

LEMMA ReadErrorKeeps == ASSUME IInv, ReadError PROVE IInv'
<1>1. CASE Eof(SIZE_INT) \/ Fails("error")
  BY <1>1, EofKeeps, FailsKeeps
<1>2. CASE ~ (Eof(SIZE_INT) \/ Fails("error"))
  <2>1. /\ pc = "read_error"
        /\ Takes(Remaining, "server_error")
        /\ Remaining >= 4
        /\ UNCHANGED <<left, header, body>>
    BY <1>2 DEF ReadError, SIZE_INT
  <2>2. Remaining \in Nat
    BY DEF IInv, TypeOK, Remaining
  <2> QED
    BY <2>1, <2>2, TakesKeeps DEF Returned, Stages
<1> QED
  BY <1>1, <1>2

LEMMA LastTextKeeps ==
    ASSUME IInv, NEW n \in Nat, LastText(n), pc \in {"id", "version"}
    PROVE  IInv'
<1>1. CASE Eof(n) \/ Fails("error")
  BY <1>1, EofKeeps, FailsKeeps
<1>2. CASE ~ (Eof(n) \/ Fails("error"))
  <2>1. Takes(n, "ok") /\ UNCHANGED <<left, header, body>>
    BY <1>2 DEF LastText
  <2> QED
    BY <2>1, TakesKeeps DEF Returned, Stages
<1> QED
  BY <1>1, <1>2

LEMMA SessionKeeps == ASSUME IInv, Session PROVE IInv'
<1>1. CASE Eof(SIZE_BROKER_INFO + SIZE_INT)
  BY <1>1, EofKeeps
<1>2. CASE ~ Eof(SIZE_BROKER_INFO + SIZE_INT)
  <2>1. pc = "session" /\ Takes(20, "ok") /\ UNCHANGED <<left, header, body>>
    BY <1>2 DEF Session, SIZE_BROKER_INFO, SIZE_INT
  <2> QED
    BY <2>1, TakesKeeps DEF Returned, Stages
<1> QED
  BY <1>1, <1>2

LEMMA RequestKeeps == ASSUME IInv, Request PROVE IInv'
<1>1. CASE Eof(SIZE_INT + SIZE_CAS_INFO + 1)
  BY <1>1, EofKeeps
<1>2. CASE ~ Eof(SIZE_INT + SIZE_CAS_INFO + 1)
  <2>1. /\ pc = "request"
        /\ Takes(9, "args") \/ Takes(9, "error")
        /\ UNCHANGED <<left, header, body>>
    BY <1>2 DEF Request, SIZE_INT, SIZE_CAS_INFO
  <2> QED
    BY <2>1, TakesKeeps DEF Returned, Stages
<1> QED
  BY <1>1, <1>2

LEMMA ArgumentKeeps == ASSUME IInv, Argument PROVE IInv'
<1> DEFINE n == AsUsize(IntAt(0))
<1> HIDE DEF n
<1>1. CASE Eof(SIZE_INT) \/ Eof(SIZE_INT + n)
  BY <1>1, EofKeeps
<1>2. CASE Remaining = 0 /\ Fails("ok")
  BY <1>2 DEF Argument, IInv, TypeOK, Lists, RowsMatchHeader, LoopsInStep, Fails, input, header,
              body, Returned, Stages
<1>3. CASE ~ (Eof(SIZE_INT) \/ Eof(SIZE_INT + n)) /\ ~ (Remaining = 0 /\ Fails("ok"))
  <2>1. /\ pc = "args"
        /\ Remaining >= 4
        /\ Takes(4 + n, pc)
        /\ UNCHANGED <<left, header, body>>
    BY <1>3 DEF Argument, SIZE_INT, n
  <2>2. n \in Nat
    BY <2>1, IntAtInt, AsUsizeNat DEF n, IInv
  <2> QED
    BY <2>1, <2>2, TakesKeeps DEF Returned, Stages
<1> QED
  BY <1>1, <1>2, <1>3

LEMMA OpenRequestKeeps == ASSUME IInv, OpenRequest PROVE IInv'
<1>1. CASE Eof(628)
  BY <1>1, EofKeeps
<1>2. CASE ~ Eof(628)
  <2>1. pc = "open_request" /\ Takes(628, "ok") /\ UNCHANGED <<left, header, body>>
    BY <1>2 DEF OpenRequest
  <2> QED
    BY <2>1, TakesKeeps DEF Returned, Stages
<1> QED
  BY <1>1, <1>2

-----------------------------------------------------------------------------
(* Columns and results *)

(* Before the rows a step may change the tables as long as they keep their *)
(* types and a negative count ends the parse.                              *)
LEMMA TablesKeep ==
    ASSUME IInv, NEW n \in Nat, NEW next \in (Stages \ {"row", "cell"}) \cup Returned,
           Takes(n, next), UNCHANGED body, pc \notin {"row", "cell"} \cup Returned,
           left' \in Int, left' < 0 => next \in Returned,
           next = "column_names" => left' > 0, stmt' \in Byte,
           cols' \in Seq([type : DataTypes]), col'.type \in DataTypes,
           \E S : col'.names \in Seq(S), Len(col'.names) \in 0 .. 3
    PROVE  IInv'
<1>1. pos' \in 0 .. Len(data)'
  BY DEF IInv, TypeOK, Takes, Remaining, input
<1>2. rows = <<>> /\ tuple_count = 0 /\ rows' = <<>> /\ tuple_count' = 0 /\ row' = row
  BY DEF IInv, LoopsInStep, body
<1>3. TypeOK'
  BY <1>1, <1>2 DEF IInv, TypeOK, Takes, input, Returned, Stages, body
<1>4. Lists'
  <2>1. PICK S : row \in Seq(S)
    BY DEF IInv, Lists
  <2>2. PICK T : col'.names \in Seq(T)
    OBVIOUS
  <2>3. /\ col'.names \in Seq(S \cup T)
        /\ row' \in Seq(S \cup T)
        /\ rows' \in Seq(Seq(S \cup T))
    BY <2>1, <2>2, <1>2
  <2> QED
    BY <2>3 DEF Lists
<1>5. RowsMatchHeader' /\ LoopsInStep'
  <2>1. pc' = next /\ pc' \notin {"row", "cell"}
    BY DEF Takes, Returned
  <2>2. Len(rows') = 0 /\ DOMAIN rows' = {}
    BY <1>2
  <2>3. RowsMatchHeader'
    BY <1>2, <2>2 DEF RowsMatchHeader
  <2>4. LoopsInStep'
    BY <1>2, <2>1 DEF LoopsInStep
  <2> QED
    BY <2>3, <2>4
<1> QED
  BY <1>3, <1>4, <1>5 DEF IInv

(* The statement type read from a byte is a byte. *)
LEMMA StatementTypeByte == ASSUME NEW b PROVE StatementType(b) \in Byte
  BY DEF StatementType, Byte

LEMMA ResponseCodeKeeps == ASSUME IInv, ResponseCode PROVE IInv'
<1>1. CASE Eof(SIZE_CAS_INFO + SIZE_INT)
  BY <1>1, EofKeeps
<1>2. CASE ~ Eof(SIZE_CAS_INFO + SIZE_INT)
  <2> DEFINE code == IntAt(4)
  <2>1. /\ pc = "head"
        /\ Takes(8, Body(code))
        /\ left' = IF pc' = "id" THEN code ELSE 0
        /\ UNCHANGED <<header, body>>
    BY <1>2 DEF ResponseCode, SIZE_CAS_INFO, SIZE_INT
  <2>2. Remaining >= 4 + 4 /\ pc' = Body(code)
    BY <2>1 DEF Takes
  <2>3. code \in Int
    BY <2>2, IntAtInt DEF IInv
  <2> HIDE DEF code
  <2>4. left' \in Nat
    BY <2>1, <2>2, <2>3 DEF Body
  <2>5. /\ stmt' \in Byte /\ cols' \in Seq([type : DataTypes]) /\ UNCHANGED body
        /\ \E S : col'.names \in Seq(S)
        /\ col'.type \in DataTypes /\ Len(col'.names) \in 0 .. 3
    BY <2>1 DEF IInv, TypeOK, Lists, header
  <2>6. /\ Body(code) \in (Stages \ {"row", "cell"}) \cup Returned
        /\ Body(code) # "column_names"
        /\ pc \notin {"row", "cell"} \cup Returned
    BY <2>1, BodyStage DEF Returned
  <2>7. left' \in Int /\ ~ (left' < 0)
    BY <2>4
  <2> QED
    BY <2>1, <2>5, <2>6, <2>7, TablesKeep
<1> QED
  BY <1>1, <1>2

LEMMA PreparedKeeps == ASSUME IInv, Prepared PROVE IInv'
<1>1. CASE Eof(14)
  BY <1>1, EofKeeps
<1>2. CASE ~ Eof(14)
  <2>1. /\ pc = "prepared"
        /\ Takes(14, Counted(IntAt(10), "column"))
        /\ Remaining >= 14
        /\ stmt' = StatementType(ByteAt(4))
        /\ cols' = <<>>
        /\ left' = IntAt(10)
        /\ UNCHANGED <<col, body>>
    BY <1>2 DEF Prepared, Takes
  <2>2. IntAt(10) \in Int
    BY <2>1, IntAtInt DEF IInv
  <2>3. /\ Counted(IntAt(10), "column") \in {"column", "panic"}
        /\ left' < 0 => Counted(IntAt(10), "column") = "panic"
    BY <2>1, <2>2 DEF Counted
  <2>4. stmt' \in Byte
    BY <2>1, StatementTypeByte
  <2>5. /\ col' = col /\ cols' \in Seq([type : DataTypes]) /\ UNCHANGED body
        /\ \E S : col'.names \in Seq(S)
        /\ col'.type \in DataTypes /\ Len(col'.names) \in 0 .. 3
    BY <2>1 DEF IInv, TypeOK, Lists
  <2> QED
    BY <2>1, <2>2, <2>3, <2>4, <2>5, TablesKeep DEF Returned, Stages
<1> QED
  BY <1>1, <1>2

LEMMA ColumnTypeKeeps == ASSUME IInv, ColumnType PROVE IInv'
<1>1. CASE Eof(TypeBytes + SIZE_SHORT + SIZE_INT) \/ Fails("error")
  BY <1>1, EofKeeps, FailsKeeps
<1>2. CASE ~ (Eof(TypeBytes + SIZE_SHORT + SIZE_INT) \/ Fails("error"))
  <2>1. /\ pc = "column"
        /\ Takes(TypeBytes + 2 + 4, "column_names")
        /\ col'.type \in DataTypes
        /\ col'.names = <<>>
        /\ UNCHANGED <<left, stmt, cols, body>>
    BY <1>2 DEF ColumnType, SIZE_SHORT, SIZE_INT
  <2>2. TypeBytes + 2 + 4 \in Nat
    BY DEF TypeBytes
  <2>3. left' \in Int /\ ~ (left' < 0) /\ stmt' \in Byte /\ cols' \in Seq([type : DataTypes])
        /\ UNCHANGED body
    BY <2>1 DEF IInv, TypeOK, Returned
  <2>4. left' > 0
    BY <2>1 DEF ColumnType
  <2>5. col'.names \in Seq({}) /\ Len(col'.names) \in 0 .. 3
    BY <2>1
  <2> QED
    BY <2>1, <2>2, <2>3, <2>4, <2>5, TablesKeep DEF Returned, Stages
<1> QED
  BY <1>1, <1>2

LEMMA ColumnNameKeeps == ASSUME IInv, ColumnName PROVE IInv'
<1> DEFINE n == AsUsize(IntAt(0))
<1> HIDE DEF n
<1>1. CASE Eof(SIZE_INT) \/ Eof(SIZE_INT + n) \/ Fails("error")
  BY <1>1, EofKeeps, FailsKeeps
<1>2. CASE ~ (Eof(SIZE_INT) \/ Eof(SIZE_INT + n) \/ Fails("error"))
  <2>1. /\ pc = "column_names"
        /\ Len(col.names) < 3
        /\ Remaining >= 4
        /\ Takes(4 + n, pc)
        /\ col' = [col EXCEPT !.names = Append(@, TextAt(4, n))]
        /\ UNCHANGED <<left, stmt, cols, body>>
    BY <1>2 DEF ColumnName, SIZE_INT, n
  <2>2. 4 + n \in Nat
    BY <2>1, IntAtInt, AsUsizeNat DEF n, IInv
  <2>3. left' \in Int /\ ~ (left' < 0) /\ stmt' \in Byte /\ cols' \in Seq([type : DataTypes])
        /\ UNCHANGED body
    BY <2>1 DEF IInv, TypeOK, Returned
  <2>4. PICK S : col.names \in Seq(S)
    BY DEF IInv, Lists
  <2>5. /\ col'.names = Append(col.names, TextAt(4, n))
        /\ col'.type \in DataTypes
    BY <2>1 DEF IInv, TypeOK
  <2>6. /\ col'.names \in Seq(S \cup {TextAt(4, n)})
        /\ Len(col'.names) = Len(col.names) + 1
    BY <2>4, <2>5
  <2>7. Len(col'.names) \in 0 .. 3
    BY <2>1, <2>6 DEF IInv, TypeOK
  <2>8. left' > 0
    BY <2>1 DEF IInv, LoopsInStep
  <2> QED
    BY <2>8, <2>1, <2>2, <2>3, <2>5, <2>6, <2>7, TablesKeep DEF Returned, Stages
<1> QED
  BY <1>1, <1>2

LEMMA ColumnFlagsKeeps == ASSUME IInv, ColumnFlags PROVE IInv'
<1> DEFINE n == AsUsize(IntAt(1))
<1> HIDE DEF n
<1>1. CASE Eof(1 + SIZE_INT) \/ Eof(1 + SIZE_INT + n + 7) \/ Fails("error")
  BY <1>1, EofKeeps, FailsKeeps
<1>2. CASE ~ (Eof(1 + SIZE_INT) \/ Eof(1 + SIZE_INT + n + 7) \/ Fails("error"))
  <2> DEFINE k == 1 + 4 + n + 7
  <2> HIDE DEF k
  <2>1. /\ pc = "column_names"
        /\ Remaining >= 5
        /\ Takes(k, "column")
        /\ cols' = Append(cols, [type |-> col.type])
        /\ left' = left - 1
        /\ UNCHANGED <<stmt, col, body>>
    BY <1>2 DEF ColumnFlags, SIZE_INT, n, k
  <2>2. k \in Nat
    <3>1. Remaining >= 1 + 4 /\ 1 \in Nat
      BY <2>1
    <3>2. IntAt(1) \in Int
      BY <3>1, IntAtInt DEF IInv
    <3> QED
      BY <3>2, AsUsizeNat DEF n, k
  <2>3. left' \in Int /\ ~ (left' < 0) /\ stmt' \in Byte
    BY <2>1 DEF IInv, TypeOK, LoopsInStep
  <2>4. cols' \in Seq([type : DataTypes])
    BY <2>1 DEF IInv, TypeOK
  <2>5. /\ col' = col /\ UNCHANGED body
        /\ \E S : col'.names \in Seq(S)
        /\ col'.type \in DataTypes /\ Len(col'.names) \in 0 .. 3
    BY <2>1 DEF IInv, TypeOK, Lists
  <2> QED
    BY <2>1, <2>2, <2>3, <2>4, <2>5, TablesKeep DEF Returned, Stages
<1> QED
  BY <1>1, <1>2

LEMMA ColumnsDoneKeeps == ASSUME IInv, ColumnsDone PROVE IInv'
<1>1. /\ pc = "column"
      /\ Takes(0, "ok") \/ Takes(0, "counts")
      /\ UNCHANGED <<left, header, body>>
  BY DEF ColumnsDone
<1> QED
  BY <1>1, TakesKeeps DEF Returned, Stages

LEMMA CountsKeeps == ASSUME IInv, Counts PROVE IInv'
<1> DEFINE k == IF arg.parser = "execute" THEN 0 ELSE SIZE_INT
<1>1. k \in {0, 4}
  BY DEF SIZE_INT
<1> HIDE DEF k
<1>2. CASE Eof(k + 1 + SIZE_INT)
  BY <1>2, EofKeeps
<1>3. CASE ~ Eof(k + 1 + SIZE_INT)
  <2> DEFINE n == k + 1 + 4
             count == IntAt(k + 1)
  <2>1. /\ pc = "counts"
        /\ Takes(n, Counted(count, "info"))
        /\ left' = count
        /\ UNCHANGED <<header, body>>
    BY <1>3 DEF Counts, k, SIZE_INT
  <2>2. Remaining >= (k + 1) + 4 /\ k + 1 \in Nat /\ n \in Nat
    BY <1>1, <2>1 DEF Takes
  <2>3. count \in Int
    BY <2>2, IntAtInt DEF IInv
  <2> HIDE DEF n, count
  <2>4. /\ Counted(count, "info") \in {"info", "panic"}
        /\ left' < 0 => Counted(count, "info") = "panic"
    BY <2>1, <2>3 DEF Counted
  <2>5. /\ stmt' \in Byte /\ cols' \in Seq([type : DataTypes]) /\ UNCHANGED body
        /\ \E S : col'.names \in Seq(S)
        /\ col'.type \in DataTypes /\ Len(col'.names) \in 0 .. 3
    BY <2>1 DEF IInv, TypeOK, Lists, header
  <2> QED
    BY <2>1, <2>2, <2>3, <2>4, <2>5, TablesKeep DEF Returned, Stages
<1> QED
  BY <1>2, <1>3

LEMMA InfoKeeps == ASSUME IInv, Info PROVE IInv'
<1>1. CASE Eof(1 + SIZE_INT + SIZE_OID + 2 * SIZE_INT)
  BY <1>1, EofKeeps
<1>2. CASE ~ Eof(1 + SIZE_INT + SIZE_OID + 2 * SIZE_INT)
  <2>1. /\ pc = "info"
        /\ left > 0
        /\ Takes(21, "info")
        /\ left' = left - 1
        /\ UNCHANGED <<header, body>>
    BY <1>2 DEF Info, SIZE_INT, SIZE_OID
  <2>2. left' \in Int /\ ~ (left' < 0)
    BY <2>1 DEF IInv, TypeOK
  <2>3. /\ stmt' \in Byte /\ cols' \in Seq([type : DataTypes]) /\ UNCHANGED body
        /\ \E S : col'.names \in Seq(S)
        /\ col'.type \in DataTypes /\ Len(col'.names) \in 0 .. 3
    BY <2>1 DEF IInv, TypeOK, Lists, header
  <2>4. /\ "info" \in (Stages \ {"row", "cell"}) \cup Returned
        /\ pc \notin {"row", "cell"} \cup Returned
    BY <2>1 DEF Returned, Stages
  <2> QED
    BY <2>1, <2>2, <2>3, <2>4, TablesKeep
<1> QED
  BY <1>1, <1>2

LEMMA InfosDoneKeeps == ASSUME IInv, InfosDone PROVE IInv'
<1> DEFINE n == (IF arg.proto > 1 THEN 1 ELSE 0) + (IF arg.proto > 4 THEN SIZE_INT ELSE 0)
<1>1. n \in Nat
  BY DEF SIZE_INT
<1>2. /\ pc = "info"
      /\ Eof(n) \/ (Takes(n, "inline") /\ UNCHANGED <<left, header, body>>)
  BY DEF InfosDone
<1> HIDE DEF n
<1> QED
  BY <1>1, <1>2, EofKeeps, TakesKeeps DEF Returned, Stages

-----------------------------------------------------------------------------
(* Rows *)

(* The header of the rows announces c of them and none is read yet. *)
LEMMA RowsBegin ==
    ASSUME IInv, NEW n \in Nat, NEW c \in Int, Takes(n, RowsOrDone(c)), tuple_count' = c,
           left' = c, UNCHANGED <<header, rows, row>>, pc \in {"inline", "fetched"}
    PROVE  IInv'
<1>1. rows = <<>> /\ rows' = <<>> /\ Len(rows') = 0 /\ DOMAIN rows' = {}
  BY DEF IInv, LoopsInStep, Returned
<1>2. /\ pc' \in {"row", "ok"}
      /\ pc' = "row" => c > 0
      /\ pc' = "ok" => c <= 0 \/ cols = <<>>
  BY DEF Takes, RowsOrDone
<1>3. TypeOK'
  <2>1. pos' \in 0 .. Len(data)'
    BY DEF IInv, TypeOK, Takes, Remaining, input
  <2> QED
    BY <1>1, <1>2, <2>1 DEF IInv, TypeOK, Takes, input, header, Returned, Stages
<1>4. Lists'
  BY DEF IInv, Lists, header
<1>5. RowsMatchHeader'
  BY <1>1, <1>2 DEF RowsMatchHeader, header
<1>6. LoopsInStep'
  BY <1>1, <1>2 DEF LoopsInStep, Returned
<1> QED
  BY <1>3, <1>4, <1>5, <1>6 DEF IInv

LEMMA InlineKeeps == ASSUME IInv, Inline PROVE IInv'
<1>1. CASE /\ IsSelect(stmt)
           /\ Takes(2 * SIZE_INT, RowsOrDone(IntAt(SIZE_INT)))
           /\ tuple_count' = IntAt(SIZE_INT)
           /\ left' = IntAt(SIZE_INT)
           /\ UNCHANGED <<header, rows, row, res>>
  <2>1. Takes(8, RowsOrDone(IntAt(4))) /\ tuple_count' = IntAt(4) /\ left' = IntAt(4)
    BY <1>1 DEF SIZE_INT
  <2>2. Remaining >= 4 + 4
    BY <2>1 DEF Takes
  <2>3. IntAt(4) \in Int
    BY <2>2, IntAtInt DEF IInv
  <2> QED
    BY <1>1, <2>1, <2>3, RowsBegin DEF Inline
<1>2. CASE Takes(0, "ok") /\ UNCHANGED <<left, header, body, res>>
  BY <1>2, TakesKeeps DEF Inline, Returned, Stages
<1> QED
  BY <1>1, <1>2 DEF Inline

LEMMA FetchedKeeps == ASSUME IInv, Fetched PROVE IInv'
<1>1. CASE Eof(SIZE_INT)
  BY <1>1, EofKeeps
<1>2. CASE ~ Eof(SIZE_INT)
  <2>1. /\ Takes(4, RowsOrDone(IntAt(0))) /\ tuple_count' = IntAt(0) /\ left' = IntAt(0)
        /\ UNCHANGED <<header, rows, row>>
        /\ pc = "fetched"
    BY <1>2 DEF Fetched, SIZE_INT
  <2>2. Remaining >= 0 + 4
    BY <2>1 DEF Takes
  <2>3. IntAt(0) \in Int
    BY <2>2, IntAtInt DEF IInv
  <2> QED
    BY <2>1, <2>3, RowsBegin
<1> QED
  BY <1>1, <1>2

LEMMA RowKeeps == ASSUME IInv, Row PROVE IInv'
<1>1. CASE Eof(SIZE_INT + SIZE_OID)
  BY <1>1, EofKeeps
<1>2. CASE ~ Eof(SIZE_INT + SIZE_OID)
  <2>1. /\ pc = "row"
        /\ left > 0
        /\ Takes(12, "cell")
        /\ row' = <<>>
        /\ UNCHANGED <<left, header, rows, tuple_count>>
    BY <1>2 DEF Row, SIZE_INT, SIZE_OID
  <2>2. pos' \in 0 .. Len(data)'
    BY <2>1 DEF IInv, TypeOK, Takes, Remaining, input
  <2>3. Len(row') = 0
    BY <2>1
  <2>4. TypeOK'
    BY <2>1, <2>2, <2>3 DEF IInv, TypeOK, Takes, input, header, Returned, Stages
  <2>5. Lists'
    <3>1. PICK S : col.names \in Seq(S) /\ rows \in Seq(Seq(S))
      BY DEF IInv, Lists
    <3>2. col'.names \in Seq(S) /\ rows' \in Seq(Seq(S)) /\ row' \in Seq(S)
      BY <2>1, <3>1 DEF header
    <3> QED
      BY <3>2 DEF Lists
  <2>6. RowsMatchHeader' /\ LoopsInStep'
    BY <2>1, <2>3 DEF IInv, TypeOK, RowsMatchHeader, LoopsInStep, Takes, header, Returned
  <2> QED
    BY <2>4, <2>5, <2>6 DEF IInv
<1> QED
  BY <1>1, <1>2

LEMMA RowDoneKeeps == ASSUME IInv, RowDone PROVE IInv'
<1>1. /\ pc = "cell"
      /\ Len(row) = Len(cols)
      /\ rows' = Append(rows, row)
      /\ left' = left - 1
      /\ Takes(0, "row")
      /\ UNCHANGED <<header, row, tuple_count>>
  BY DEF RowDone
<1>2. PICK S : col.names \in Seq(S) /\ row \in Seq(S) /\ rows \in Seq(Seq(S))
  BY DEF IInv, Lists
<1>3. /\ rows' \in Seq(Seq(S))
      /\ Len(rows') = Len(rows) + 1
      /\ \A i \in DOMAIN rows' : rows'[i] = IF i = Len(rows) + 1 THEN row ELSE rows[i]
      /\ \A i \in DOMAIN rows' : i # Len(rows) + 1 => i \in DOMAIN rows
  BY <1>1, <1>2
<1>4. TypeOK'
  BY <1>1, <1>3 DEF IInv, TypeOK, LoopsInStep, Takes, input, header, Returned, Stages
<1>5. Lists'
  BY <1>1, <1>2, <1>3 DEF Lists, header
<1>6. RowsMatchHeader'
  BY <1>1, <1>3 DEF IInv, RowsMatchHeader, Takes, header
<1>7. LoopsInStep'
  <2>1. /\ left \in Int /\ left > 0 /\ Len(rows) \in Nat
        /\ Len(rows) + left = tuple_count
    BY <1>1 DEF IInv, TypeOK, LoopsInStep
  <2>2. left' >= 0 /\ Len(rows') + left' = tuple_count' /\ pc' = "row"
    BY <1>1, <1>3, <2>1 DEF Takes
  <2> QED
    BY <2>2 DEF LoopsInStep
<1> QED
  BY <1>4, <1>5, <1>6, <1>7 DEF IInv

LEMMA RowsDoneKeeps == ASSUME IInv, RowsDone PROVE IInv'
<1>1. pc = "row" /\ left = 0 /\ Takes(0, "ok") /\ UNCHANGED <<left, header, body>>
  BY DEF RowsDone
<1>2. TypeOK'
  BY <1>1 DEF IInv, TypeOK, Takes, input, header, body, Returned, Stages
<1>3. Lists'
  BY <1>1 DEF IInv, Lists, header, body
<1>4. RowsMatchHeader' /\ LoopsInStep'
  BY <1>1 DEF IInv, TypeOK, RowsMatchHeader, LoopsInStep, Takes, header, body, Returned
<1> QED
  BY <1>2, <1>3, <1>4 DEF IInv

(* One more cell in a row that lacks one. *)
LEMMA AddCellKeeps ==
    ASSUME IInv, NEW n \in Nat, NEW value, AddCell(n, value), pc = "cell",
           Len(row) < Len(cols)
    PROVE  IInv'
<1>1. /\ Takes(n, "cell")
      /\ row' = Append(row, value)
      /\ UNCHANGED <<left, header, rows, tuple_count>>
  BY DEF AddCell
<1>2. PICK S : col.names \in Seq(S) /\ row \in Seq(S) /\ rows \in Seq(Seq(S))
  BY DEF IInv, Lists
<1> DEFINE T == S \cup {value}
<1>3. row' \in Seq(T) /\ Len(row') = Len(row) + 1
  BY <1>1, <1>2
<1>4. pos' \in 0 .. Len(data)'
  BY <1>1 DEF IInv, TypeOK, Takes, Remaining, input
<1>5. TypeOK'
  BY <1>1, <1>3, <1>4 DEF IInv, TypeOK, Takes, input, header, Returned, Stages
<1>6. Lists'
  <2>1. rows' \in Seq(Seq(T)) /\ col'.names \in Seq(T)
    BY <1>1, <1>2 DEF header
  <2> QED
    BY <1>3, <2>1 DEF Lists
<1>7. RowsMatchHeader' /\ LoopsInStep'
  BY <1>1, <1>3 DEF IInv, TypeOK, RowsMatchHeader, LoopsInStep, Takes, header, Returned
<1> QED
  BY <1>5, <1>6, <1>7 DEF IInv

(* read_value takes a size that is not negative. *)
LEMMA CellValueKeeps ==
    ASSUME IInv, NEW k \in Nat, NEW type, NEW size \in Nat, CellValue(k, type, size),
           pc = "cell", Len(row) < Len(cols)
    PROVE  IInv'
<1> DEFINE variant == IF type \in DataTypes THEN Variant[type] ELSE "Bytes"
           n == IF variant \in {"String", "Bytes"} THEN size ELSE FixedSize[variant]
<1>1. n \in Nat
  <2>1. CASE variant \in {"String", "Bytes"}
    BY <2>1
  <2>2. CASE variant \notin {"String", "Bytes"}
    <3>1. variant \in {"Null", "Int", "Short", "Long", "Float", "Double", "Date", "Time",
                       "Timestamp", "Datetime"}
      BY <2>2 DEF Variant
    <3>2. FixedSize[variant] \in Nat
      BY <3>1 DEF FixedSize, SIZE_INT, SIZE_SHORT, SIZE_LONG, SIZE_FLOAT, SIZE_DOUBLE,
                  SIZE_DATETIME
    <3> QED
      BY <2>2, <3>2
  <2> QED
    BY <2>1, <2>2
<1>2. Eof(k + n) \/ Fails("error") \/ AddCell(k + n, ValueOf(variant, Bytes(k, n)))
  BY DEF CellValue
<1> HIDE DEF variant, n
<1> QED
  BY <1>1, <1>2, EofKeeps, FailsKeeps, AddCellKeeps

LEMMA CellKeeps == ASSUME IInv, Cell PROVE IInv'
<1>1. CASE Eof(SIZE_INT) \/ Eof(SIZE_INT + 1)
  BY <1>1, EofKeeps
<1>2. CASE ~ (Eof(SIZE_INT) \/ Eof(SIZE_INT + 1))
  <2> DEFINE size == IntAt(0)
  <2>1. pc = "cell" /\ Len(row) < Len(cols) /\ Remaining >= 0 + 4
    BY <1>2 DEF Cell, SIZE_INT
  <2>2. size \in Int
    BY <2>1, IntAtInt DEF IInv
  <2>3. \/ AddCell(4, NullValue)
        \/ AddCell(4 + 1, NullValue)
        \/ size > 0 /\ \E type : CellValue(4, type, size)
        \/ size > 1 /\ \E type : CellValue(4 + 1, type, size - 1)
    BY <1>2 DEF Cell, SIZE_INT
  <2> HIDE DEF size
  <2>4. 4 + 1 \in Nat /\ (size > 0 => size \in Nat) /\ (size > 1 => size - 1 \in Nat)
    BY <2>2
  <2> QED
    BY <2>1, <2>3, <2>4, AddCellKeeps, CellValueKeeps
<1> QED
  BY <1>1, <1>2

-----------------------------------------------------------------------------

LEMMA InitHolds == Init => IInv
<1> SUFFICES ASSUME Init PROVE IInv
  OBVIOUS
<1>1. PICK m \in Inputs : data = m.data /\ arg = m.arg /\ want = m.want
  BY DEF Init
<1>2. /\ data \in Seq(Byte)
      /\ arg.parser \in Parsers
      /\ arg.stmt \in Byte
      /\ arg.cols \in Seq([type : DataTypes])
  BY <1>1, InputsAssumption
<1>3. pc \in {"request", "args", "open_request", "head"}
  BY DEF Init
<1>4. col.type \in DataTypes /\ col.names = <<>>
  BY DEF Init, NoColumn, DataTypes
<1>5. TypeOK
  BY <1>2, <1>3, <1>4 DEF Init, TypeOK, Stages
<1>6. Lists
  <2>1. col.names \in Seq({}) /\ row \in Seq({}) /\ rows \in Seq(Seq({}))
    BY <1>4 DEF Init
  <2> QED
    BY <2>1 DEF Lists
<1>7. RowsMatchHeader /\ LoopsInStep
  BY <1>3 DEF Init, RowsMatchHeader, LoopsInStep
<1> QED
  BY <1>5, <1>6, <1>7 DEF IInv

LEMMA NextKeeps == IInv /\ [Next]_vars => IInv'
<1> SUFFICES ASSUME IInv, [Next]_vars PROVE IInv'
  OBVIOUS
<1>1. CASE InsertId
  <2>1. pc = "id" /\ LastText(left)
    BY <1>1 DEF InsertId
  <2>2. left \in Nat
    BY <2>1 DEF IInv, TypeOK, Returned
  <2> QED
    BY <2>1, <2>2, LastTextKeeps
<1>2. CASE Version
  <2>1. Remaining \in Nat
    BY DEF IInv, TypeOK, Remaining
  <2> QED
    BY <1>2, <2>1, LastTextKeeps DEF Version
<1>3. CASE UNCHANGED vars
  BY <1>3 DEF vars, IInv, TypeOK, Lists, RowsMatchHeader, LoopsInStep
<1> QED
  BY <1>1, <1>2, <1>3, ResponseCodeKeeps, ReadErrorKeeps, SessionKeeps, PreparedKeeps,
     ColumnTypeKeeps, ColumnNameKeeps, ColumnFlagsKeeps, ColumnsDoneKeeps, CountsKeeps,
     InfoKeeps, InfosDoneKeeps, InlineKeeps, FetchedKeeps, RowKeeps, CellKeeps,
     RowDoneKeeps, RowsDoneKeeps, RequestKeeps, ArgumentKeeps, OpenRequestKeeps DEF Next

(* The reader never leaves the packet, whatever the packet says. *)
THEOREM ReaderStaysInside == Spec => []TypeOK
<1>1. IInv => TypeOK
  BY DEF IInv
<1> QED
  BY <1>1, InitHolds, NextKeeps, PTL DEF Spec

(* A parser that succeeds returns the rows it announces, one cell per      *)
(* column.                                                                 *)
THEOREM RowsAreComplete == Spec => []RowsMatchHeader
<1>1. IInv => RowsMatchHeader
  BY DEF IInv
<1> QED
  BY <1>1, InitHolds, NextKeeps, PTL DEF Spec
=============================================================================
