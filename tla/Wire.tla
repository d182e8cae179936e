-------------------------------- MODULE Wire --------------------------------
(***************************************************************************)
(* The bytes of the CAS protocol: PacketWriter and the values a            *)
(* PacketReader takes off a packet (codec.rs), the codes of data and       *)
(* statement types (constants.rs) and the requests built from them         *)
(* (request.rs, handshake.rs).  A packet is a sequence of bytes.  A long   *)
(* and a float stay the bytes they are: only their place matters here.     *)
(***************************************************************************)
EXTENDS Integers, Sequences, SequencesExt

CONSTANT UsizeTop      \* what a negative length becomes with `as usize': more
                       \* than any packet has bytes

ASSUME UsizeAssumption == UsizeTop \in Nat

AsUsize(v) == IF v < 0 THEN UsizeTop ELSE v

-----------------------------------------------------------------------------
(* Sizes and codes *)

SIZE_BYTE == 1
SIZE_SHORT == 2
SIZE_INT == 4
SIZE_LONG == 8
SIZE_FLOAT == 4
SIZE_DOUBLE == 8
SIZE_DATETIME == 14
SIZE_CAS_INFO == 4
SIZE_OID == 8
SIZE_BROKER_INFO == 16

(* The codes of the column types. *)
DataType ==
    [Null |-> 0, Char |-> 1, String |-> 2, NChar |-> 3, VarNChar |-> 4, Bit |-> 5,
     VarBit |-> 6, Numeric |-> 7, Int |-> 8, Short |-> 9, Monetary |-> 10, Float |-> 11,
     Double |-> 12, Date |-> 13, Time |-> 14, Timestamp |-> 15, Set |-> 16,
     Multiset |-> 17, Sequence |-> 18, Object |-> 19, Bigint |-> 21, Datetime |-> 22,
     Blob |-> 23, Clob |-> 24, Enum |-> 25]

(* DataType::from_u8 knows these bytes; there is no 20. *)
DataTypes == (0 .. 19) \cup (21 .. 25)

(* The variant of Value that read_value makes of each type: those not      *)
(* listed are returned as raw bytes.                                       *)
Variant ==
    [t \in DataTypes |->
        CASE t = DataType.Null -> "Null"
          [] t = DataType.Int -> "Int"
          [] t = DataType.Short -> "Short"
          [] t = DataType.Bigint -> "Long"
          [] t = DataType.Float -> "Float"
          [] t \in {DataType.Monetary, DataType.Double} -> "Double"
          [] t = DataType.Date -> "Date"
          [] t = DataType.Time -> "Time"
          [] t = DataType.Timestamp -> "Timestamp"
          [] t = DataType.Datetime -> "Datetime"
          [] t \in (DataType.Char .. DataType.VarNChar)
                    \cup {DataType.Numeric, DataType.Enum} -> "String"
          [] OTHER -> "Bytes"]

(* The bytes read_value takes, whatever the size sent with the value says. *)
FixedSize ==
    [Null |-> 0, Int |-> SIZE_INT, Short |-> SIZE_SHORT, Long |-> SIZE_LONG,
     Float |-> SIZE_FLOAT, Double |-> SIZE_DOUBLE, Date |-> 3 * SIZE_SHORT,
     Time |-> 3 * SIZE_SHORT, Timestamp |-> 6 * SIZE_SHORT, Datetime |-> SIZE_DATETIME]

(* StatementType: from_u8 makes Unknown (0x7F) of every other byte. *)
Select == 21
StatementType(b) == IF b \in (0 .. 24) \cup {126} THEN b ELSE 127
IsSelect(stmt) == stmt = Select
IsCall(stmt) == stmt \in {24, 126}

-----------------------------------------------------------------------------
(* Big-endian integers and texts *)

ToBytes(v, n) == [i \in 1 .. n |-> (v \div 256 ^ (n - i)) % 256]

Signed(b) == IF b >= 128 THEN b - 256 ELSE b

(* from_be_bytes of two's complement: the first byte carries the sign. *)
ShortOf(bs) == Signed(bs[1]) * 256 + bs[2]
IntOf(bs) == ((Signed(bs[1]) * 256 + bs[2]) * 256 + bs[3]) * 256 + bs[4]

Shorts(bs) == [i \in 1 .. Len(bs) \div 2 |-> ShortOf(<<bs[2 * i - 1], bs[2 * i]>>)]

(* The text without the zero bytes at its end. *)
Stripped(bs) == SubSeq(bs, 1, SelectLastInSeq(bs, LAMBDA b : b # 0))

(* The length a first byte of UTF-8 announces, 0 for one that cannot be. *)
Utf8Length(b) ==
    CASE b < 128 -> 1
      [] b \in 194 .. 223 -> 2
      [] b \in 224 .. 239 -> 3
      [] b \in 240 .. 244 -> 4
      [] OTHER -> 0

(* What may follow it: no overlong forms, no surrogates. *)
Utf8Second(b) ==
    CASE b = 224 -> 160 .. 191
      [] b = 237 -> 128 .. 159
      [] b = 240 -> 144 .. 191
      [] b = 244 -> 128 .. 143
      [] OTHER -> 128 .. 191

ValidUtf8(bs) ==
    LET from[i \in 1 .. Len(bs) + 1] ==
            i <= Len(bs) =>
                LET n == Utf8Length(bs[i])
                IN /\ n > 0
                   /\ i + n - 1 <= Len(bs)
                   /\ n > 1 => bs[i + 1] \in Utf8Second(bs[i])
                   /\ \A j \in i + 2 .. i + n - 1 : bs[j] \in 128 .. 191
                   /\ from[i + n]
    IN from[1]

(* The Value of the given variant that stands in bs. *)
ValueOf(variant, bs) ==
    [variant |-> variant,
     v |-> CASE variant = "Int" -> IntOf(bs)
             [] variant = "Short" -> ShortOf(bs)
             [] variant \in {"Date", "Time", "Timestamp", "Datetime"} -> Shorts(bs)
             [] variant = "String" -> Stripped(bs)
             [] OTHER -> bs]

NullValue == ValueOf("Null", <<>>)

-----------------------------------------------------------------------------
(* PacketWriter: what each method appends *)

WriteInt(v) == ToBytes(v, SIZE_INT)
WriteShorts(vs) == FlattenSeq([i \in DOMAIN vs |-> ToBytes(vs[i], SIZE_SHORT)])
WriteFiller(n) == [i \in 1 .. n |-> 0]

WriteFixedString(s, n) ==
    IF Len(s) >= n THEN SubSeq(s, 1, n) ELSE s \o WriteFiller(n - Len(s))

WriteNullTermString(s) == WriteInt(Len(s) + 1) \o s \o <<0>>
AddByte(b) == WriteInt(SIZE_BYTE) \o <<b>>
AddInt(v) == WriteInt(SIZE_INT) \o WriteInt(v)
AddBytes(bs) == WriteInt(Len(bs)) \o bs
AddCacheTime == WriteInt(SIZE_LONG) \o WriteInt(0) \o WriteInt(0)

Flag(b) == IF b THEN 1 ELSE 0

(* build_header and build_request: the length counts the payload only. *)
Framed(payload, cas) == WriteInt(Len(payload)) \o cas \o payload

-----------------------------------------------------------------------------
(* Bind parameters *)

(* A size, which counts the type code too; the code; the value. *)
Param(size, type, bytes) == WriteInt(1 + size) \o <<type>> \o bytes

EncodeOneParam(p) ==
    CASE p.variant = "Null" -> WriteInt(0)
      [] p.variant = "Bool" ->
            Param(SIZE_SHORT, DataType.Short, ToBytes(Flag(p.v), SIZE_SHORT))
      [] p.variant = "Short" -> Param(SIZE_SHORT, DataType.Short, ToBytes(p.v, SIZE_SHORT))
      [] p.variant = "Int" -> Param(SIZE_INT, DataType.Int, WriteInt(p.v))
      [] p.variant = "Long" -> Param(SIZE_LONG, DataType.Bigint, p.v)
      [] p.variant = "Float" -> Param(SIZE_FLOAT, DataType.Float, p.v)
      [] p.variant = "Double" -> Param(SIZE_DOUBLE, DataType.Double, p.v)
      [] p.variant = "String" -> Param(Len(p.v) + 1, DataType.String, p.v \o <<0>>)
      [] p.variant = "Bytes" -> Param(Len(p.v), DataType.VarBit, p.v)
      [] p.variant = "Date" ->
            Param(SIZE_DATETIME, DataType.Datetime, WriteShorts(p.v \o <<0, 0, 0, 0>>))
      [] p.variant = "Time" ->
            Param(SIZE_DATETIME, DataType.Time, WriteShorts(<<0, 0, 0>> \o p.v \o <<0>>))
      [] p.variant = "Timestamp" ->
            Param(SIZE_DATETIME, DataType.Timestamp, WriteShorts(p.v \o <<0>>))
      [] p.variant = "Datetime" -> Param(SIZE_DATETIME, DataType.Datetime, WriteShorts(p.v))

EncodeBindParams(ps) == FlattenSeq([i \in DOMAIN ps |-> EncodeOneParam(ps[i])])

-----------------------------------------------------------------------------
(* Requests *)

PrepareAndExecuteRequest(sql, auto, cas) ==
    Framed(<<41>> \o AddInt(3) \o WriteNullTermString(sql) \o AddByte(0)
           \o AddByte(Flag(auto)) \o AddByte(2) \o AddInt(0) \o AddInt(0) \o WriteInt(0)
           \o AddCacheTime \o AddInt(0), cas)

PrepareRequest(sql, auto, cas) ==
    Framed(<<2>> \o WriteNullTermString(sql) \o AddByte(0) \o AddByte(Flag(auto)), cas)

(* With no parameters the argument is a bare zero length.  bind_mode_count *)
(* and the fetch flag, both written raw, make one more argument.           *)
ExecuteRequest(handle, stmt, params, auto, cas) ==
    Framed(<<3>> \o AddInt(handle) \o AddByte(0) \o AddInt(0) \o AddInt(0)
           \o (IF params = <<>> THEN WriteInt(0) ELSE AddBytes(EncodeBindParams(params)))
           \o WriteInt(1) \o <<Flag(IsSelect(stmt))>> \o AddByte(Flag(auto)) \o AddByte(1)
           \o AddCacheTime \o AddInt(0), cas)

FetchRequest(handle, current_tuple_count, size, cas) ==
    Framed(<<8>> \o AddInt(handle) \o AddInt(current_tuple_count + 1) \o AddInt(size)
           \o AddByte(0) \o AddInt(0), cas)

CloseReqHandleRequest(handle, cas) == Framed(<<6>> \o AddInt(handle), cas)

GetLastInsertIdRequest(cas) == Framed(<<40>>, cas)

EndTranRequest(tran, cas) == Framed(<<1>> \o AddByte(tran), cas)

GetDbVersionRequest(auto, cas) == Framed(<<15>> \o AddByte(Flag(auto)), cas)

ConCloseRequest(cas) == Framed(<<31>>, cas)

(* OpenDatabase is not framed. *)
OpenDatabaseRequest(db, user, password) ==
    WriteFixedString(db, 32) \o WriteFixedString(user, 32)
    \o WriteFixedString(password, 32) \o WriteFiller(512) \o WriteFiller(20)
=============================================================================
