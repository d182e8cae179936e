-------------------------------- MODULE Dsn --------------------------------
(***************************************************************************)
(* Dsn::parse: what a connection string says.                              *)
(*                                                                         *)
(* A text is a sequence of characters; a run of characters that the parser *)
(* never looks into ("cubrid://", "timeout", "33000") is one element.      *)
(* Numerals are the runs that u16 and u64 parse, and their values.         *)
(***************************************************************************)
EXTENDS Integers, Sequences, SequencesExt

CONSTANTS Numerals,    \* decimal texts, and the numbers they are
          Escapes      \* pairs of hex digits, and the characters they are

(* No numeral and no hex digit splits a DSN. *)
ASSUME NumeralsAssumption ==
    /\ DOMAIN Numerals \subseteq STRING
    /\ \A n \in DOMAIN Numerals :
          n \notin {"@", ":", "?", "/"} /\ Numerals[n] \in Nat

ASSUME EscapesAssumption ==
    /\ DOMAIN Escapes \subseteq Seq(STRING)
    /\ \A pair \in DOMAIN Escapes :
          Len(pair) = 2 /\ \A n \in 1 .. 2 : pair[n] \notin {"%", ":", "?", "@", "/"}

-----------------------------------------------------------------------------

(* str::find and str::rfind: a position, or 0. *)
Find(s, c) == SelectInSeq(s, LAMBDA x : x = c)
RFind(s, c) == SelectLastInSeq(s, LAMBDA x : x = c)

Before(s, n) == SubSeq(s, 1, n - 1)
After(s, n) == SubSeq(s, n + 1, Len(s))

(* str::split *)
Split(s, c) ==
    FoldLeft(LAMBDA parts, x : IF x = c THEN Append(parts, <<>>)
                               ELSE [parts EXCEPT ![Len(parts)] = Append(@, x)],
             <<<<>>>>, s)

(* str::parse *)
IsNumber(s) == Len(s) = 1 /\ s[1] \in DOMAIN Numerals

Number(s) == Numerals[s[1]]

(* Two hex digits behind a `%'. *)
IsEscape(s, i) ==
    s[i] = "%" /\ i + 2 <= Len(s) /\ SubSeq(s, i + 1, i + 2) \in DOMAIN Escapes

(* percent_decode: an escape that is cut short or not hexadecimal stays. *)
PercentDecode(s) ==
    LET from[i \in 1 .. Len(s) + 3] ==
            IF i > Len(s) THEN <<>>
            ELSE IF IsEscape(s, i) THEN <<Escapes[SubSeq(s, i + 1, i + 2)]>> \o from[i + 3]
            ELSE <<s[i]>> \o from[i + 1]
    IN from[1]

-----------------------------------------------------------------------------

(* Dsn::default *)
Default ==
    [ok |-> TRUE, host |-> <<"localhost">>, port |-> 33000, database |-> <<>>, user |-> <<>>,
     password |-> <<>>, auto_commit |-> TRUE, timeout |-> 30]

Invalid == [Default EXCEPT !.ok = FALSE]

(* user[:password] *)
WithUser(dsn, info) ==
    LET colon == Find(info, ":")
    IN IF colon = 0 THEN [dsn EXCEPT !.user = PercentDecode(info)]
       ELSE [dsn EXCEPT !.user = PercentDecode(Before(info, colon)),
                        !.password = PercentDecode(After(info, colon))]

(* A u16. *)
WithPort(dsn, s) ==
    IF IsNumber(s) /\ Number(s) < 65536 THEN [dsn EXCEPT !.port = Number(s)] ELSE Invalid

WithHost(dsn, s) == IF s = <<>> THEN dsn ELSE [dsn EXCEPT !.host = s]

(* host[:port], or [address][:port] with colons in the address. *)
WithHostPort(dsn, s) ==
    IF s # <<>> /\ s[1] = "["
    THEN LET end == Find(s, "]")
             host == [dsn EXCEPT !.host = SubSeq(s, 2, end - 1)]
         IN IF end = 0 THEN Invalid
            ELSE IF end < Len(s) /\ s[end + 1] = ":" THEN WithPort(host, After(s, end + 1))
            ELSE host
    ELSE LET colon == RFind(s, ":")
         IN IF colon = 0 THEN WithHost(dsn, s)
            ELSE WithPort(WithHost(dsn, Before(s, colon)), After(s, colon))

(* autocommit=... and timeout=...; others are ignored. *)
WithOption(dsn, param) ==
    LET eq == Find(param, "=")
        key == Before(param, eq)
        val == After(param, eq)
    IN IF eq = 0 \/ ~dsn.ok THEN dsn
       ELSE IF key = <<"autocommit">>
            THEN [dsn EXCEPT !.auto_commit = val \in {<<"true">>, <<"1">>, <<"yes">>}]
       ELSE IF key = <<"timeout">>
            THEN IF IsNumber(val) THEN [dsn EXCEPT !.timeout = Number(val)] ELSE Invalid
       ELSE dsn

(* Mutant of SplitUser: the first `@' ends the user. *)
SplitUserFirst(main) == Find(main, "@")

(* Where the user ends: the last `@'. *)
SplitUser(main) == RFind(main, "@")

(* host_and_db: the first `/' ends host and port, and a database follows. *)
WithPlace(dsn, place) ==
    LET slash == Find(place, "/")
    IN IF slash = 0 \/ After(place, slash) = <<>> THEN Invalid
       ELSE WithHostPort([dsn EXCEPT !.database = After(place, slash)], Before(place, slash))

WithOptions(dsn, options) == FoldLeft(WithOption, dsn, Split(options, "&"))

(* Dsn::parse: options are cut off first, then the user, then the database. *)
Parse(text) ==
    LET rest == Tail(text)
        mark == Find(rest, "?")
        main == IF mark = 0 THEN rest ELSE Before(rest, mark)
        at == SplitUser(main)
        user == IF at = 0 THEN Default ELSE WithUser(Default, Before(main, at))
        place == WithPlace(user, After(main, at))
    IN IF text = <<>> \/ text[1] # "cubrid://" THEN Invalid
       ELSE IF mark = 0 THEN place
       ELSE WithOptions(place, After(rest, mark))

-----------------------------------------------------------------------------
(* How a DSN is written, for the property. *)

EscapedChar(c, reserved) ==
    IF c \in reserved THEN <<"%">> \o (CHOOSE pair \in DOMAIN Escapes : Escapes[pair] = c)
    ELSE <<c>>

Escaped(s, reserved) == FlattenSeq([n \in DOMAIN s |-> EscapedChar(s[n], reserved)])
=============================================================================
