--------------------------- MODULE HandshakeProofs ---------------------------
(* Theorems about Handshake, for every set of DSNs, of ports and of answers. *)
EXTENDS Handshake, SequenceLemmas

(* A number that is a port survives the cast to u16. *)
LEMMA CastKeepsPorts ==
    ASSUME NEW n \in Nat, n < PortSpace
    PROVE  n % PortSpace = n
  BY PortsAssumption

(* The zeros and the ports are numbers of 16 bits. *)
LEMMA Numbers ==
    /\ 0 \in 0 .. PortSpace - 1
    /\ \A p \in CasPorts \cup {BrokerPort} :
          p \in 0 .. PortSpace - 1 /\ p \in 1 .. PortSpace - 1 /\ p # 0
  BY PortsAssumption

(* connect starts with nothing open and nothing told. *)
LEMMA InitInv == Init => IInv
<1>. SUFFICES ASSUME Init PROVE IInv
  OBVIOUS
<1>1. TypeOK
  <2>1. async \in BOOLEAN /\ gone \in BOOLEAN
    BY DEF Init
  <2>2. conn \in 0 .. PortSpace - 1 /\ redirect_port \in Int /\ cas_info \in 0 .. PortSpace - 1
    BY Numbers DEF Init
  <2>3. open \subseteq 1 .. PortSpace - 1 /\ told \subseteq 1 .. PortSpace - 1
    BY DEF Init
  <2>. QED  BY <2>1, <2>2, <2>3 DEF Init, TypeOK
<1>2. CredentialsToCas
  BY DEF Init, CredentialsToCas
<1>3. ConnectedOrNothing
  BY DEF Init, ConnectedOrNothing, Ended
<1>4. Progress
  BY DEF Init, Progress, Ended
<1>. QED  BY <1>1, <1>2, <1>3, <1>4 DEF IInv

(* An early return or a dropped future keeps the invariant: it closes the  *)
(* sockets and tells nobody anything.                                      *)
LEMMA EndInv ==
    ASSUME IInv, NEW how \in Ended \ {"ok"}, End(how)
    PROVE  IInv'
  BY PortsAssumption
     DEF End, settings, IInv, TypeOK, CredentialsToCas, ConnectedOrNothing, Progress, Ended

(* A fresh connection is the only one open. *)
LEMMA ConnectToInv ==
    ASSUME IInv, NEW port \in CasPorts \cup {BrokerPort}, NEW next,
           ConnectTo(port, next), told = {},
           \/ next = "exchange" /\ port = BrokerPort
           \/ next = "open_database" /\ redirect_port > 0 /\ port = redirect_port % PortSpace
    PROVE  IInv'
<1>1. port # 0
  BY Numbers
<1>2. TypeOK'
  BY Numbers DEF ConnectTo, settings, IInv, TypeOK, Ended
<1>3. CredentialsToCas'
  BY DEF ConnectTo, CredentialsToCas
<1>4. ConnectedOrNothing'
  BY <1>1 DEF ConnectTo, ConnectedOrNothing, Ended
<1>5. Progress'
  BY <1>1 DEF ConnectTo, Progress, Ended
<1>. QED  BY <1>2, <1>3, <1>4, <1>5 DEF IInv

(* Every step of connect and of the other end keeps the invariant. *)
LEMMA NextInv == IInv /\ [Next]_vars => IInv'
<1>. SUFFICES ASSUME IInv, [Next]_vars PROVE IInv'
  OBVIOUS
<1>. USE PortsAssumption DEF settings
<1>0. CASE ParseDsn
  BY <1>0 DEF ParseDsn, IInv, TypeOK, CredentialsToCas, ConnectedOrNothing, Progress, Ended
<1>1. CASE Connect
  <2>1. CASE ConnectTo(BrokerPort, "exchange")
    BY <1>1, <2>1, ConnectToInv DEF Connect, IInv, Progress
  <2>2. CASE End("error")
    BY <2>2, EndInv DEF Ended
  <2>. QED  BY <1>1, <2>1, <2>2 DEF Connect
<1>2. CASE WriteClientInfoExchange
  <2>1. CASE WriteRaw("exchange", "read_port") /\ UNCHANGED told
    BY <1>2, <2>1 DEF WriteClientInfoExchange, WriteRaw, IInv, TypeOK, CredentialsToCas,
                      ConnectedOrNothing, Progress, Ended
  <2>2. CASE End("error")
    BY <2>2, EndInv DEF Ended
  <2>. QED  BY <1>2, <2>1, <2>2 DEF WriteClientInfoExchange
<1>3. CASE ParseClientInfoExchange
  <2>1. answer.code \in Int /\ told = {} /\ conn = BrokerPort
    BY <1>3 DEF ParseClientInfoExchange, IInv, Progress, Ended
  <2>. QED  BY <1>3, <2>1 DEF ParseClientInfoExchange, IInv, TypeOK, CredentialsToCas,
                              ConnectedOrNothing, Progress, Ended
<1>4. CASE Reconnect
  <2>1. CASE ConnectTo(redirect_port % PortSpace, "open_database")
    <3>1. redirect_port % PortSpace \in CasPorts \cup {BrokerPort}
      BY <2>1 DEF ConnectTo
    <3>2. told = {} /\ redirect_port > 0
      BY <1>4 DEF Reconnect, IInv, Progress
    <3>. QED  BY <2>1, <3>1, <3>2, ConnectToInv
  <2>2. CASE End("error")
    BY <2>2, EndInv DEF Ended
  <2>. QED  BY <1>4, <2>1, <2>2 DEF Reconnect
<1>5. CASE WriteOpenDatabase
  <2>1. CASE WriteRaw("open_database", "read_open") /\ told' = told \cup {conn}
    <3>1. told' = {conn} /\ conn \in 1 .. PortSpace - 1
      <4>1. told = {} /\ conn # 0 /\ conn \in 0 .. PortSpace - 1
        BY <1>5 DEF WriteOpenDatabase, IInv, TypeOK, Progress
      <4>. QED  BY <2>1, <4>1
    <3>2. \/ redirect_port = 0 /\ conn = BrokerPort
          \/ redirect_port > 0 /\ conn = redirect_port
          \/ redirect_port >= PortSpace
      <4>1. \/ redirect_port = 0 /\ conn = BrokerPort
            \/ redirect_port > 0 /\ conn = redirect_port % PortSpace
        BY <1>5 DEF WriteOpenDatabase, IInv, Progress
      <4>2. redirect_port \in Int /\ PortSpace \in Nat
        BY DEF IInv, TypeOK
      <4>3. CASE redirect_port > 0 /\ redirect_port < PortSpace
        <5>1. redirect_port % PortSpace = redirect_port
          BY <4>2, <4>3, CastKeepsPorts
        <5>. QED  BY <4>1, <4>3, <5>1
      <4>. QED  BY <4>1, <4>2, <4>3
    <3>3. CredentialsToCas'
      BY <2>1, <3>1, <3>2 DEF CredentialsToCas, WriteRaw
    <3>. QED  BY <1>5, <2>1, <3>1, <3>3
              DEF WriteOpenDatabase, WriteRaw, IInv, TypeOK, ConnectedOrNothing, Progress,
                  Ended
  <2>2. CASE End("error")
    BY <2>2, EndInv DEF Ended
  <2>. QED  BY <1>5, <2>1, <2>2 DEF WriteOpenDatabase
<1>6. CASE ParseOpenDatabase
  <2>1. CASE answer.code < 0 /\ End("error")
    BY <2>1, EndInv DEF Ended
  <2>2. CASE ~(answer.code < 0 /\ End("error"))
    <3>1. answer.from = conn
      BY <1>6 DEF ParseOpenDatabase, IInv, Progress, Ended
    <3>. QED  BY <1>6, <2>2, <3>1 DEF ParseOpenDatabase, IInv, TypeOK, CredentialsToCas,
                                      ConnectedOrNothing, Progress, Ended
  <2>. QED  BY <2>1, <2>2
<1>7. CASE ReadFails
  BY <1>7, EndInv DEF ReadFails, Ended
<1>8. CASE Cancelled
  BY <1>8, EndInv DEF Cancelled, Ended
<1>9. CASE BrokerAnswers
  <2>1. answer' \in [code : Int, from : {conn}]
    BY <1>9 DEF BrokerAnswers
  <2>. QED  BY <1>9, <2>1 DEF BrokerAnswers, IInv, TypeOK, CredentialsToCas,
                              ConnectedOrNothing, Progress, Ended
<1>10. CASE CasAnswers
  <2>1. answer' \in [code : Int, from : {conn}]
    BY <1>10 DEF CasAnswers
  <2>. QED  BY <1>10, <2>1 DEF CasAnswers, IInv, TypeOK, CredentialsToCas,
                               ConnectedOrNothing, Progress, Ended
<1>11. CASE HangsUp
  BY <1>11 DEF HangsUp, IInv, TypeOK, CredentialsToCas, ConnectedOrNothing, Progress, Ended
<1>12. CASE UNCHANGED vars
  BY <1>12 DEF vars, IInv, TypeOK, CredentialsToCas, ConnectedOrNothing, Progress, Ended
<1>. QED  BY <1>0, <1>1, <1>2, <1>3, <1>4, <1>5, <1>6, <1>7, <1>8, <1>9, <1>10, <1>11, <1>12
          DEF Next, ClientStep

(* The invariant holds throughout every connect, blocking or asynchronous. *)
THEOREM Invariance == Spec => []IInv
<1>. QED  BY InitInv, NextInv, PTL DEF Spec

(* connect_with_dsn sends user and password only where the broker pointed, *)
(* whatever the broker answers, as long as it answers with a port.         *)
THEOREM CredentialsSafe == Spec => []CredentialsToCas
<1>1. IInv => CredentialsToCas
  BY DEF IInv
<1>. QED  BY <1>1, Invariance, PTL

(* connect_with_dsn ends with one socket and its CAS_INFO, or with none.   *)
THEOREM ConnectsOrCleansUp == Spec => []ConnectedOrNothing
<1>1. IInv => ConnectedOrNothing
  BY DEF IInv
<1>. QED  BY <1>1, Invariance, PTL

-----------------------------------------------------------------------------
(* Dsn::parse: percent_decode undoes the escaping *)

(* What percent_decode makes of a text from position i on, if g says what  *)
(* it makes of the rest.                                                   *)
DecodedFrom(s, g, i) ==
    IF i > Len(s) THEN <<>>
    ELSE IF IsEscape(s, i) THEN <<Escapes[SubSeq(s, i + 1, i + 2)]>> \o g[i + 3]
    ELSE <<s[i]>> \o g[i + 1]

(* The recursion of percent_decode has a solution, built from the end.     *)
LEMMA DecodeUnrolls ==
    ASSUME NEW s, Len(s) \in Nat
    PROVE  \E g : /\ PercentDecode(s) = g[1]
                  /\ \A i \in 1 .. Len(s) + 3 : g[i] = DecodedFrom(s, g, i)
<1>. DEFINE L == Len(s) + 3
            Solved(g, n) == /\ g = [i \in 1 .. L |-> g[i]]
                            /\ \A i \in 1 .. L : i + n > L => g[i] = DecodedFrom(s, g, i)
            S == {n \in Nat : \E g : Solved(g, n)}
<1>1. 0 \in S
  <2>1. Solved([i \in 1 .. L |-> <<>>], 0)
    OBVIOUS
  <2>. QED  BY <2>1
<1>2. ASSUME NEW n \in 0 .. L - 1, n \in S PROVE n + 1 \in S
  <2>1. PICK g : Solved(g, n)
    BY <1>2
  <2>. DEFINE x == DecodedFrom(s, g, L - n)
              h == [i \in 1 .. L |-> IF i = L - n THEN x ELSE g[i]]
  <2>2. L - n \in 1 .. L /\ L \in Nat /\ n + 1 \in Nat
    OBVIOUS
  <2>. HIDE DEF x
  <2>3. h = [i \in 1 .. L |-> h[i]] /\ h[L - n] = x /\ \A i \in 1 .. L : i # L - n => h[i] = g[i]
    BY <2>2
  <2>. HIDE DEF h
  <2>4. ASSUME NEW i \in 1 .. L, i + (n + 1) > L PROVE h[i] = DecodedFrom(s, h, i)
    <3>1. i <= Len(s) => h[i + 1] = g[i + 1] /\ h[i + 3] = g[i + 3]
      BY <2>2, <2>3, <2>4
    <3>2. DecodedFrom(s, h, i) = DecodedFrom(s, g, i)
      BY <3>1 DEF DecodedFrom
    <3>3. CASE i = L - n
      BY <2>3, <3>2, <3>3 DEF x
    <3>4. CASE i # L - n
      BY <2>1, <2>2, <2>3, <2>4, <3>2, <3>4
    <3>. QED  BY <3>3, <3>4
  <2>5. Solved(h, n + 1)
    BY <2>3, <2>4
  <2>. QED  BY <2>2, <2>5
<1>3. L \in S
  <2>1. L \in Nat
    OBVIOUS
  <2>. HIDE DEF S, L
  <2>. QED  BY <1>1, <1>2, <2>1, SetInduction
<1>4. PICK g : Solved(g, L)
  BY <1>3
<1>5. \A i \in 1 .. L : g[i] = DecodedFrom(s, g, i)
  BY <1>4
<1>. DEFINE Rec(f) == f = [i \in 1 .. Len(s) + 3 |-> DecodedFrom(s, f, i)]
            from == CHOOSE f : Rec(f)
<1>6. Rec(g)
  BY <1>4, <1>5, Zenon
<1>7. Rec(from)
  BY <1>6
<1>8. PercentDecode(s) = from[1]
  BY DEF PercentDecode, DecodedFrom
<1>9. \A i \in 1 .. Len(s) + 3 : from[i] = DecodedFrom(s, from, i)
  <2>. HIDE DEF from
  <2>. QED  BY <1>7
<1>. QED  BY <1>8, <1>9

(* A writer may escape every character there is an escape for, and must    *)
(* escape the percent sign and what ends user and password.                *)
Escaping(reserved) == {"%", ":", "?"} \subseteq reserved /\ reserved \subseteq Range(Escapes)

(* The escape sign and the hex digits are characters.                      *)
Texts(Chars) == {"%"} \subseteq Chars /\ DOMAIN Escapes \subseteq Seq(Chars)

(* A character is written as itself or as three, no separator among them.  *)
LEMMA EscapedCharFacts ==
    ASSUME NEW Chars, Texts(Chars), NEW reserved, Escaping(reserved), NEW c \in Chars
    PROVE  /\ EscapedChar(c, reserved) \in Seq(Chars)
           /\ \A n \in 1 .. Len(EscapedChar(c, reserved)) :
                 EscapedChar(c, reserved)[n] \notin {":", "?"}
           /\ c \notin reserved => EscapedChar(c, reserved) = <<c>> /\ c # "%"
           /\ c \in reserved => \E pair \in DOMAIN Escapes :
                 /\ Escapes[pair] = c /\ pair \in Seq(Chars) /\ Len(pair) = 2
                 /\ Len(EscapedChar(c, reserved)) = 3 /\ EscapedChar(c, reserved)[1] = "%"
                 /\ EscapedChar(c, reserved)[2] = pair[1] /\ EscapedChar(c, reserved)[3] = pair[2]
<1>1. CASE c \notin reserved
  <2>1. EscapedChar(c, reserved) = <<c>> /\ c \notin {"%", ":", "?"}
    BY <1>1 DEF EscapedChar, Escaping
  <2>2. <<c>> \in Seq(Chars) /\ Len(<<c>>) = 1 /\ <<c>>[1] = c
    OBVIOUS
  <2>3. \A n \in 1 .. 1 : <<c>>[n] = c
    BY <2>2
  <2>. QED  BY <1>1, <2>1, <2>2, <2>3
<1>2. CASE c \in reserved
  <2>1. \E pair \in DOMAIN Escapes : Escapes[pair] = c
    BY <1>2 DEF Escaping, Range
  <2>. DEFINE pair == CHOOSE pair \in DOMAIN Escapes : Escapes[pair] = c
  <2>2. pair \in DOMAIN Escapes /\ Escapes[pair] = c
    BY <2>1
  <2>3. EscapedChar(c, reserved) = <<"%">> \o pair
    BY <1>2 DEF EscapedChar
  <2>. HIDE DEF pair
  <2>4. pair \in Seq(Chars) /\ Len(pair) = 2 /\ \A n \in 1 .. 2 : pair[n] \notin {":", "?"}
    BY <2>2, EscapesAssumption DEF Texts
  <2>5. "%" \in Chars
    BY DEF Texts
  <2>6. /\ <<"%">> \o pair \in Seq(Chars) /\ Len(<<"%">> \o pair) = 1 + Len(pair)
        /\ (<<"%">> \o pair)[1] = "%"
        /\ \A n \in 1 .. Len(pair) : (<<"%">> \o pair)[1 + n] = pair[n]
    <3>1. pair \in Seq(Chars) /\ "%" \in Chars
      BY <2>4, <2>5
    <3>. QED  BY <3>1, Prepended
  <2>. DEFINE e == <<"%">> \o pair
  <2>. HIDE DEF e
  <2>7. /\ e \in Seq(Chars) /\ Len(e) = 3 /\ \A n \in 1 .. 3 : e[n] \notin {":", "?"}
        /\ e[1] = "%" /\ e[2] = pair[1] /\ e[3] = pair[2]
    <3>1. e \in Seq(Chars) /\ Len(e) = 3 /\ e[1] = "%" /\ \A n \in 1 .. 2 : e[1 + n] = pair[n]
      BY <2>4, <2>6 DEF e
    <3>2. \A n \in 1 .. 3 : n = 1 \/ (n - 1 \in 1 .. 2 /\ n = 1 + (n - 1))
      OBVIOUS
    <3>3. 1 \in 1 .. 2 /\ 2 \in 1 .. 2
      OBVIOUS
    <3>4. e[2] = pair[1] /\ e[3] = pair[2]
      BY <3>1, <3>3
    <3>. QED  BY <2>4, <3>1, <3>2, <3>4
  <2>8. EscapedChar(c, reserved) = e
    BY <2>3 DEF e
  <2>. QED  BY <1>2, <2>2, <2>4, <2>7, <2>8
<1>. QED  BY <1>1, <1>2

(* One more character of a text is one more escaped.                       *)
LEMMA EscapedGrows ==
    ASSUME NEW Chars, Texts(Chars), NEW reserved, Escaping(reserved), NEW s \in Seq(Chars),
           NEW n \in Nat, n < Len(s)
    PROVE  /\ Escaped(SubSeq(s, 1, n), reserved) \in Seq(Chars)
           /\ Escaped(SubSeq(s, 1, n + 1), reserved)
                = Escaped(SubSeq(s, 1, n), reserved) \o EscapedChar(s[n + 1], reserved)
<1>. DEFINE E(m) == [j \in 1 .. m |-> EscapedChar(s[j], reserved)]
<1>1. \A m \in 0 .. Len(s) :
         DOMAIN SubSeq(s, 1, m) = 1 .. m /\ \A j \in 1 .. m : SubSeq(s, 1, m)[j] = s[j]
  OBVIOUS
<1>2. \A m \in 0 .. Len(s) : Escaped(SubSeq(s, 1, m), reserved) = FlattenSeq(E(m))
  <2>. TAKE m \in 0 .. Len(s)
  <2>1. [j \in DOMAIN SubSeq(s, 1, m) |-> EscapedChar(SubSeq(s, 1, m)[j], reserved)] = E(m)
    BY <1>1
  <2>. QED  BY <2>1 DEF Escaped
<1>3. \A j \in 1 .. Len(s) : EscapedChar(s[j], reserved) \in Seq(Chars)
  <2>. TAKE j \in 1 .. Len(s)
  <2>1. s[j] \in Chars
    OBVIOUS
  <2>. QED  BY <2>1, EscapedCharFacts
<1>4. /\ E(n) \in [1 .. n -> Seq(Chars)] /\ E(n + 1) \in [1 .. n + 1 -> Seq(Chars)]
      /\ \A m \in 1 .. n : E(n)[m] = E(n + 1)[m]
      /\ E(n + 1)[n + 1] = EscapedChar(s[n + 1], reserved)
  <2>1. \A m \in 1 .. n + 1 : m \in 1 .. Len(s)
    OBVIOUS
  <2>2. \A m \in 1 .. n : m \in 1 .. n + 1
    OBVIOUS
  <2>3. n + 1 \in 1 .. n + 1
    OBVIOUS
  <2>. QED  BY <1>3, <2>1, <2>2, <2>3
<1>. HIDE DEF E
<1>5. /\ E(n) \in Seq(Seq(Chars)) /\ E(n + 1)[n + 1] \in Seq(Chars)
      /\ E(n + 1) = Append(E(n), E(n + 1)[n + 1])
  BY <1>4, OneMore
<1>6. n \in 0 .. Len(s) /\ n + 1 \in 0 .. Len(s)
  OBVIOUS
<1>7. /\ FlattenSeq(E(n)) \in Seq(Chars)
      /\ FlattenSeq(Append(E(n), E(n + 1)[n + 1])) = FlattenSeq(E(n)) \o E(n + 1)[n + 1]
  BY <1>5, FlattenAppend, Zenon
<1>. QED  BY <1>2, <1>4, <1>5, <1>6, <1>7

(* Nothing is written for no text.                                         *)
LEMMA EscapedEmpty == \A s, reserved : Escaped(SubSeq(s, 1, 0), reserved) = <<>>
<1>. TAKE s, reserved
<1>1. SubSeq(s, 1, 0) = <<>>
  BY SubSeqEmpty
<1>2. [n \in DOMAIN <<>> |-> EscapedChar(<<>>[n], reserved)] = <<>>
  OBVIOUS
<1>. QED  BY <1>1, <1>2 DEF Escaped, FlattenSeq

(* What is written holds nothing that ends a user or a password.           *)
LEMMA EscapedClean ==
    ASSUME NEW Chars, Texts(Chars), NEW reserved, Escaping(reserved), NEW s \in Seq(Chars)
    PROVE  \A m \in 0 .. Len(s) :
              /\ Escaped(SubSeq(s, 1, m), reserved) \in Seq(Chars)
              /\ \A n \in 1 .. Len(Escaped(SubSeq(s, 1, m), reserved)) :
                    Escaped(SubSeq(s, 1, m), reserved)[n] \notin {":", "?"}
<1>. DEFINE P(m) == Escaped(SubSeq(s, 1, m), reserved)
            Clean(t) == t \in Seq(Chars) /\ \A n \in 1 .. Len(t) : t[n] \notin {":", "?"}
            S == {m \in Nat : m > Len(s) \/ Clean(P(m))}
<1>1. \A t, u : Clean(t) /\ Clean(u) => Clean(t \o u)
  <2>. SUFFICES ASSUME NEW t, NEW u, Clean(t), Clean(u) PROVE Clean(t \o u)
    OBVIOUS
  <2>1. /\ t \o u \in Seq(Chars) /\ Len(t \o u) = Len(t) + Len(u)
        /\ Len(t) \in Nat /\ Len(u) \in Nat
        /\ \A i \in 1 .. Len(t) : (t \o u)[i] = t[i]
        /\ \A i \in 1 .. Len(u) : (t \o u)[Len(t) + i] = u[i]
    BY ConcatElements
  <2>2. ASSUME NEW n \in 1 .. Len(t \o u) PROVE (t \o u)[n] \notin {":", "?"}
    <3>1. n \in 1 .. Len(t) \/ (n - Len(t) \in 1 .. Len(u) /\ n = Len(t) + (n - Len(t)))
      BY <2>1
    <3>2. CASE n \in 1 .. Len(t)
      BY <2>1, <3>2
    <3>3. CASE n - Len(t) \in 1 .. Len(u) /\ n = Len(t) + (n - Len(t))
      BY <2>1, <3>3
    <3>. QED  BY <3>1, <3>2, <3>3
  <2>. QED  BY <2>1, <2>2
<1>2. P(0) = <<>>
  BY EscapedEmpty
<1>3. Clean(<<>>)
  OBVIOUS
<1>4. ASSUME NEW m \in 0 .. Len(s) PROVE Clean(P(m))
  <2>1. 0 \in S
    BY <1>2, <1>3
  <2>2. ASSUME NEW n \in 0 .. m - 1, n \in S PROVE n + 1 \in S
    <3>1. n \in Nat /\ n < Len(s) /\ n + 1 \in 1 .. Len(s) /\ n + 1 \in Nat /\ Len(s) \in Nat
      OBVIOUS
    <3>2. P(n + 1) = P(n) \o EscapedChar(s[n + 1], reserved)
      BY <3>1, EscapedGrows
    <3>3. s[n + 1] \in Chars
      BY <3>1
    <3>4. Clean(EscapedChar(s[n + 1], reserved))
      BY <3>3, EscapedCharFacts
    <3>. HIDE DEF P, Clean
    <3>5. Clean(P(n))
      BY <2>2, <3>1
    <3>6. Clean(P(n + 1))
      BY <1>1, <3>2, <3>4, <3>5
    <3>. QED  BY <3>1, <3>6
  <2>3. m \in Nat /\ ~(m > Len(s))
    OBVIOUS
  <2>. HIDE DEF P, Clean
  <2>4. m \in S
    <3>. HIDE DEF S
    <3>. QED  BY <2>1, <2>2, <2>3, SetInduction
  <2>. QED  BY <2>3, <2>4
<1>. QED  BY <1>4

(* percent_decode undoes the escaping: at every character written, what is *)
(* decoded from there on is what was to be written from there on.          *)
LEMMA DecodeEscaped ==
    ASSUME NEW Chars, Texts(Chars), NEW reserved, Escaping(reserved), NEW s \in Seq(Chars)
    PROVE  PercentDecode(Escaped(s, reserved)) = s
<1>. DEFINE N == Len(s)
            P(m) == Escaped(SubSeq(s, 1, m), reserved)
            E == P(N)
<1>1. SubSeq(s, 1, N) = s /\ N \in Nat
  OBVIOUS
<1>2. \A m \in 0 .. N : P(m) \in Seq(Chars)
  BY EscapedClean
<1>3. E \in Seq(Chars) /\ Len(E) \in Nat
  BY <1>1, <1>2
<1>4. PICK g : /\ PercentDecode(E) = g[1]
               /\ \A i \in 1 .. Len(E) + 3 : g[i] = DecodedFrom(E, g, i)
  BY <1>3, DecodeUnrolls
<1>. DEFINE Tails(k) == SubSeq(s, N - k + 1, N)
            Step(k) == /\ \E R \in Seq(Chars) : E = P(N - k) \o R
                       /\ g[Len(P(N - k)) + 1] = Tails(k)
            S == {k \in Nat : k > N \/ Step(k)}
<1>5. 0 \in S
  <2>1. E = P(N - 0) \o <<>> /\ <<>> \in Seq(Chars)
    BY <1>1, <1>3
  <2>2. Tails(0) = <<>>
    BY <1>1, SubSeqEmpty
  <2>3. Len(E) + 1 \in 1 .. Len(E) + 3 /\ Len(E) + 1 > Len(E) /\ N - 0 = N
    BY <1>1, <1>3
  <2>4. g[Len(E) + 1] = <<>>
    BY <1>4, <2>3 DEF DecodedFrom
  <2>. HIDE DEF Tails, P
  <2>. QED  BY <2>1, <2>2, <2>3, <2>4
<1>6. ASSUME NEW k \in 0 .. N - 1, k \in S PROVE k + 1 \in S
  <2>. DEFINE m == N - (k + 1)
              c == s[m + 1]
              piece == EscapedChar(c, reserved)
  <2>1. /\ m \in Nat /\ m < N /\ m + 1 = N - k /\ m + 1 \in 1 .. N /\ m \in 0 .. N
        /\ k \in Nat /\ k + 1 \in Nat /\ ~(k > N)
    BY <1>1
  <2>2. P(m + 1) = P(m) \o piece
    BY <2>1, EscapedGrows
  <2>3. c \in Chars
    BY <2>1
  <2>4. /\ piece \in Seq(Chars)
        /\ c \notin reserved => piece = <<c>> /\ c # "%"
        /\ c \in reserved => \E pair \in DOMAIN Escapes :
              /\ Escapes[pair] = c /\ pair \in Seq(Chars) /\ Len(pair) = 2
              /\ Len(piece) = 3 /\ piece[1] = "%" /\ piece[2] = pair[1] /\ piece[3] = pair[2]
    <3>. HIDE DEF c
    <3>1. piece \in Seq(Chars)
      BY <2>3, EscapedCharFacts
    <3>2. c \notin reserved => piece = <<c>> /\ c # "%"
      BY <2>3, EscapedCharFacts
    <3>3. c \in reserved => \E pair \in DOMAIN Escapes :
              /\ Escapes[pair] = c /\ pair \in Seq(Chars) /\ Len(pair) = 2
              /\ Len(piece) = 3 /\ piece[1] = "%" /\ piece[2] = pair[1] /\ piece[3] = pair[2]
      BY <2>3, EscapedCharFacts
    <3>. QED  BY <3>1, <3>2, <3>3
  <2>5. P(m) \in Seq(Chars)
    BY <1>2, <2>1
  <2>6. Tails(k + 1) = <<c>> \o Tails(k)
    <3>1. /\ m + 1 = N - (k + 1) + 1 /\ m + 2 = N - k + 1
      BY <2>1
    <3>2. SubSeq(s, m + 1, N) = <<s[m + 1]>> \o SubSeq(s, m + 2, N)
      BY <1>1, <2>1
    <3>. QED  BY <3>1, <3>2
  <2>. HIDE DEF P, piece, c, Tails, N
  <2>7. PICK R \in Seq(Chars) : E = P(m + 1) \o R
    BY <1>6, <2>1
  <2>8. E = P(m) \o (piece \o R) /\ piece \o R \in Seq(Chars)
    <3>1. piece \in Seq(Chars) /\ R \in Seq(Chars)
      BY <2>4
    <3>2. piece \o R \in Seq(Chars)
      BY <3>1, ConcatElements
    <3>3. (P(m) \o piece) \o R = P(m) \o (piece \o R)
      <4>. HIDE DEF m
      <4>1. P(m) \in Seq(Chars) /\ piece \in Seq(Chars) /\ R \in Seq(Chars)
        BY <2>5, <3>1
      <4>. QED  BY <4>1, ConcatAssociative
    <3>. QED  BY <2>2, <2>7, <3>2, <3>3
  <2>9. g[Len(P(m + 1)) + 1] = Tails(k)
    BY <1>6, <2>1
  <2>. DEFINE i == Len(P(m)) + 1
  <2>10. Len(P(m + 1)) + 1 = i + Len(piece) /\ Len(P(m)) \in Nat
    <3>. HIDE DEF m
    <3>1. P(m) \in Seq(Chars) /\ piece \in Seq(Chars)
      BY <2>4, <2>5
    <3>2. Len(P(m) \o piece) = Len(P(m)) + Len(piece) /\ Len(P(m)) \in Nat /\ Len(piece) \in Nat
      BY <3>1, ConcatElements
    <3>3. Len(P(m + 1)) = Len(P(m) \o piece)
      BY <2>2
    <3>. DEFINE a == Len(P(m))
                b == Len(piece)
    <3>4. a \in Nat /\ b \in Nat /\ Len(P(m + 1)) = a + b
      BY <3>2, <3>3
    <3>. HIDE DEF a, b
    <3>5. Len(P(m + 1)) + 1 = (a + 1) + b
      BY <3>4
    <3>. QED  BY <3>2, <3>5 DEF a, b
  <2>11. g[i] = <<c>> \o Tails(k)
    <3>1. /\ Len(E) = Len(P(m)) + Len(piece) + Len(R) /\ Len(R) \in Nat /\ Len(piece) \in Nat
          /\ \A j \in 1 .. Len(piece) : E[Len(P(m)) + j] = piece[j]
      <4>1. /\ Len(piece \o R) = Len(piece) + Len(R) /\ Len(R) \in Nat /\ Len(piece) \in Nat
            /\ \A j \in 1 .. Len(piece) : (piece \o R)[j] = piece[j]
        BY <2>4, ConcatElements
      <4>2. /\ Len(E) = Len(P(m)) + Len(piece \o R)
            /\ \A j \in 1 .. Len(piece \o R) : E[Len(P(m)) + j] = (piece \o R)[j]
        BY <2>5, <2>8, ConcatElements
      <4>3. \A j \in 1 .. Len(piece) : j \in 1 .. Len(piece \o R)
        BY <4>1
      <4>. HIDE DEF E
      <4>. QED  BY <2>10, <4>1, <4>2, <4>3
    <3>. HIDE DEF E
    <3>2. CASE c \notin reserved
      <4>1. Len(piece) = 1 /\ piece[1] = c /\ c # "%"
        BY <2>4, <3>2
      <4>2. E[i] = c /\ i \in 1 .. Len(E) + 3 /\ ~(i > Len(E)) /\ ~IsEscape(E, i)
        BY <2>10, <3>1, <4>1 DEF IsEscape
      <4>3. g[i] = <<c>> \o g[i + 1]
        BY <1>4, <4>2 DEF DecodedFrom
      <4>. QED  BY <2>9, <2>10, <4>1, <4>3
    <3>3. CASE c \in reserved
      <4>1. PICK pair \in DOMAIN Escapes :
              /\ Escapes[pair] = c /\ pair \in Seq(Chars) /\ Len(pair) = 2
              /\ Len(piece) = 3 /\ piece[1] = "%" /\ piece[2] = pair[1] /\ piece[3] = pair[2]
        BY <2>4, <3>3
      <4>2. Len(piece) = 3 /\ piece[1] = "%" /\ piece[2] = pair[1] /\ piece[3] = pair[2]
        BY <4>1
      <4>3. /\ E[i] = "%" /\ E[i + 1] = pair[1] /\ E[i + 2] = pair[2] /\ i + 2 <= Len(E)
            /\ i \in 1 .. Len(E) + 3 /\ ~(i > Len(E)) /\ i \in Nat
        BY <2>10, <3>1, <4>2
      <4>4. SubSeq(E, i + 1, i + 2) = pair
        <5>1. E \in Seq(Chars) /\ Len(E) \in Nat
          BY <1>3
        <5>2. SubSeq(E, i + 1, i + 2) = <<E[i + 1], E[i + 2]>>
          <6>. HIDE DEF i
          <6>1. E[i + 1] \in Chars /\ E[i + 2] \in Chars
            BY <4>3, <5>1
          <6>. DEFINE t == SubSeq(E, i + 1, i + 2)
          <6>2. t \in Seq(Chars) /\ Len(t) = 2 /\ t[1] = E[i + 1] /\ t[2] = E[i + 2]
            BY <4>3, <5>1
          <6>. HIDE DEF t
          <6>3. t = <<t[1], t[2]>>
            BY <6>2
          <6>. QED  BY <6>2, <6>3 DEF t
        <5>3. pair = <<pair[1], pair[2]>>
          BY <4>1
        <5>. QED  BY <4>3, <5>2, <5>3
      <4>5. IsEscape(E, i)
        BY <4>3, <4>4 DEF IsEscape
      <4>6. g[i] = <<Escapes[pair]>> \o g[i + 3]
        BY <1>4, <4>3, <4>4, <4>5 DEF DecodedFrom
      <4>. QED  BY <2>9, <2>10, <4>1, <4>2, <4>6
    <3>. QED  BY <3>2, <3>3
  <2>12. Step(k + 1)
    <3>. HIDE DEF E
    <3>1. \E Q \in Seq(Chars) : E = P(m) \o Q
      BY <2>8
    <3>. QED  BY <2>6, <2>11, <3>1
  <2>. HIDE DEF Step
  <2>. QED  BY <2>1, <2>12
<1>7. N \in S
  <2>. HIDE DEF S, N
  <2>. QED  BY <1>1, <1>5, <1>6, SetInduction
<1>8. Step(N)
  <2>1. ~(N > N)
    BY <1>1
  <2>. HIDE DEF Step, N
  <2>. QED  BY <1>7, <2>1
<1>9. P(N - N) = <<>> /\ N - N = 0 /\ N - N + 1 = 1
  BY <1>1, EscapedEmpty
<1>10. g[1] = s
  <2>1. Len(P(N - N)) + 1 = 1
    BY <1>9
  <2>2. Tails(N) = s
    BY <1>1, <1>9
  <2>3. g[Len(P(N - N)) + 1] = Tails(N)
    BY <1>8
  <2>. HIDE DEF P, Tails, N
  <2>. QED  BY <2>1, <2>2, <2>3
<1>. QED  BY <1>1, <1>4, <1>10

-----------------------------------------------------------------------------
(* Dsn::parse: find and rfind split a text where it was joined *)

(* find: the first occurrence.                                             *)
LEMMA FindFirst ==
    ASSUME NEW S, NEW s \in Seq(S), NEW c, NEW n \in 1 .. Len(s),
           s[n] = c, \A m \in 1 .. n - 1 : s[m] # c
    PROVE  Find(s, c) = n
<1>. DEFINE I == {m \in 1 .. Len(s) : s[m] = c}
<1>1. Find(s, c) = IF I # {} THEN Min(I) ELSE 0
  BY DEF Find, SelectInSeq
<1>2. n \in I /\ \A m \in I : n =< m
  OBVIOUS
<1>3. \A x \in I : (\A y \in I : x =< y) => x = n
  BY <1>2
<1>. HIDE DEF I
<1>4. Min(I) = n
  BY <1>2, <1>3 DEF Min
<1>. QED  BY <1>1, <1>2, <1>4

(* What does not occur is found nowhere.                                   *)
LEMMA FindNone ==
    ASSUME NEW S, NEW s \in Seq(S), NEW c, \A m \in 1 .. Len(s) : s[m] # c
    PROVE  Find(s, c) = 0 /\ RFind(s, c) = 0
  BY DEF Find, SelectInSeq, RFind, SelectLastInSeq

(* rfind: the last occurrence.                                             *)
LEMMA FindLast ==
    ASSUME NEW S, NEW s \in Seq(S), NEW c, NEW n \in 1 .. Len(s),
           s[n] = c, \A m \in n + 1 .. Len(s) : s[m] # c
    PROVE  RFind(s, c) = n
<1>. DEFINE I == {m \in 1 .. Len(s) : s[m] = c}
<1>1. RFind(s, c) = IF I # {} THEN Max(I) ELSE 0
  BY DEF RFind, SelectLastInSeq
<1>2. n \in I /\ \A m \in I : n >= m
  OBVIOUS
<1>3. \A x \in I : (\A y \in I : x >= y) => x = n
  BY <1>2
<1>. HIDE DEF I
<1>4. Max(I) = n
  BY <1>2, <1>3 DEF Max
<1>. QED  BY <1>1, <1>2, <1>4

(* A text in which a character does not occur.                             *)
Without(s, c) == \A n \in 1 .. Len(s) : s[n] # c

(* Two texts and a character between them. *)
Joined(s, c, t) == (s \o <<c>>) \o t

(* Where the characters of a joined text are.                              *)
LEMMA JoinedElements ==
    ASSUME NEW Chars, NEW s \in Seq(Chars), NEW c \in Chars, NEW t \in Seq(Chars)
    PROVE  /\ Joined(s, c, t) \in Seq(Chars)
           /\ Len(s) \in Nat /\ Len(t) \in Nat /\ Len(Joined(s, c, t)) = Len(s) + 1 + Len(t)
           /\ \A n \in 1 .. Len(s) : Joined(s, c, t)[n] = s[n]
           /\ Joined(s, c, t)[Len(s) + 1] = c
           /\ \A n \in 1 .. Len(t) : Joined(s, c, t)[Len(s) + 1 + n] = t[n]
<1>. DEFINE q == <<c>>
            p == s \o q
<1>1. q \in Seq(Chars) /\ Len(q) = 1 /\ q[1] = c /\ 1 \in 1 .. 1
  OBVIOUS
<1>. HIDE DEF q
<1>2. /\ p \in Seq(Chars) /\ Len(p) = Len(s) + Len(q) /\ Len(s) \in Nat
      /\ \A i \in 1 .. Len(s) : p[i] = s[i]
      /\ \A i \in 1 .. Len(q) : p[Len(s) + i] = q[i]
  <2>1. s \in Seq(Chars) /\ q \in Seq(Chars)
    BY <1>1
  <2>. QED  BY <2>1, ConcatElements
<1>3. p[Len(s) + 1] = c /\ Len(p) = Len(s) + 1
  BY <1>1, <1>2
<1>. HIDE DEF p
<1>4. /\ p \o t \in Seq(Chars) /\ Len(p \o t) = Len(p) + Len(t) /\ Len(t) \in Nat
      /\ \A i \in 1 .. Len(p) : (p \o t)[i] = p[i]
      /\ \A i \in 1 .. Len(t) : (p \o t)[Len(p) + i] = t[i]
  <2>1. p \in Seq(Chars) /\ t \in Seq(Chars)
    BY <1>2
  <2>. QED  BY <2>1, ConcatElements
<1>5. Joined(s, c, t) = p \o t
  BY DEF Joined, p, q
<1>6. \A n \in 1 .. Len(s) : n \in 1 .. Len(p)
  BY <1>2, <1>3
<1>7. Len(s) + 1 \in 1 .. Len(p)
  BY <1>2, <1>3
<1>. DEFINE j == Joined(s, c, t)
<1>8. j = p \o t
  BY <1>5
<1>. HIDE DEF j
<1>9. /\ j \in Seq(Chars) /\ Len(j) = Len(s) + 1 + Len(t) /\ Len(t) \in Nat
      /\ \A i \in 1 .. Len(p) : j[i] = p[i]
      /\ \A i \in 1 .. Len(t) : j[Len(s) + 1 + i] = t[i]
  BY <1>3, <1>4, <1>8
<1>10. j[Len(s) + 1] = c /\ \A n \in 1 .. Len(s) : j[n] = s[n]
  BY <1>2, <1>3, <1>6, <1>7, <1>9
<1>. QED  BY <1>2, <1>9, <1>10 DEF j

(* What find and rfind see in a text with a character in its middle. *)
LEMMA JoinedSplits ==
    ASSUME NEW Chars, NEW s \in Seq(Chars), NEW c \in Chars, NEW t \in Seq(Chars)
    PROVE  /\ Before(Joined(s, c, t), Len(s) + 1) = s
           /\ After(Joined(s, c, t), Len(s) + 1) = t
           /\ Without(s, c) => Find(Joined(s, c, t), c) = Len(s) + 1
           /\ Without(t, c) => RFind(Joined(s, c, t), c) = Len(s) + 1
           /\ \A d : Without(s, d) /\ d # c /\ Without(t, d) => Without(Joined(s, c, t), d)
<1>. DEFINE j == Joined(s, c, t)
            l == Len(s)
            r == Len(t)
<1>1. /\ j \in Seq(Chars) /\ l \in Nat /\ r \in Nat /\ Len(j) = l + 1 + r
      /\ \A n \in 1 .. l : j[n] = s[n]
      /\ j[l + 1] = c
      /\ \A n \in 1 .. r : j[l + 1 + n] = t[n]
  <2>1. j \in Seq(Chars) /\ l \in Nat /\ r \in Nat /\ Len(j) = l + 1 + r
    BY JoinedElements
  <2>2. \A n \in 1 .. l : j[n] = s[n]
    BY JoinedElements
  <2>3. j[l + 1] = c
    BY JoinedElements
  <2>4. \A n \in 1 .. r : j[l + 1 + n] = t[n]
    BY JoinedElements
  <2>. QED  BY <2>1, <2>2, <2>3, <2>4, Zenon
<1>2. /\ s \in Seq(Chars) /\ l = Len(s) /\ t \in Seq(Chars) /\ r = Len(t)
  OBVIOUS
<1>. HIDE DEF j, l, r
<1>3. Before(j, l + 1) = s
  <2>1. l + 1 - 1 = l /\ \A n \in 1 .. l : n \in 1 .. Len(j)
    BY <1>1
  <2>. DEFINE b == SubSeq(j, 1, l)
  <2>2. b \in Seq(Chars) /\ Len(b) = l /\ \A n \in 1 .. l : b[n] = j[n]
    BY <1>1, <2>1
  <2>3. Before(j, l + 1) = SubSeq(j, 1, l + 1 - 1)
    BY <1>1 DEF Before
  <2>4. Before(j, l + 1) = b
    BY <2>1, <2>3, Zenon
  <2>. HIDE DEF b
  <2>5. b = s
    BY <1>1, <1>2, <2>2, SeqEqual
  <2>. QED  BY <2>4, <2>5
<1>4. After(j, l + 1) = t
  <2>. DEFINE f == l + 1 + 1
              b == SubSeq(j, f, Len(j))
  <2>1. /\ f \in Int /\ Len(j) \in Int /\ f <= Len(j) <=> 1 <= r
        /\ \A i \in f .. Len(j) : j[i] \in Chars
    BY <1>1
  <2>2. /\ r >= 1 => Len(j) - f + 1 = r
        /\ r = 0 => ~(f <= Len(j))
        /\ f \in Int /\ Len(j) \in Int
        /\ \A n \in 1 .. r : f + n - 1 = l + 1 + n /\ n \in 1 .. Len(j) - f + 1
    BY <1>1
  <2>. HIDE DEF f
  <2>3. /\ b \in Seq(Chars) /\ Len(b) = IF f <= Len(j) THEN Len(j) - f + 1 ELSE 0
        /\ \A n \in 1 .. Len(j) - f + 1 : b[n] = j[f + n - 1]
    BY <2>1, <2>2, SubSeqProperties
  <2>. HIDE DEF b
  <2>4. Len(b) = r
    BY <1>1, <2>1, <2>2, <2>3
  <2>5. \A n \in 1 .. r : b[n] = t[n]
    BY <1>1, <2>2, <2>3
  <2>6. b = t
    BY <1>1, <1>2, <2>3, <2>4, <2>5, SeqEqual
  <2>7. After(j, l + 1) = b
    BY DEF After, b, f
  <2>. QED  BY <2>6, <2>7
<1>5. Without(s, c) => Find(j, c) = l + 1
  <2>1. l + 1 \in 1 .. Len(j) /\ \A m \in 1 .. (l + 1) - 1 : m \in 1 .. l
    BY <1>1
  <2>2. Without(s, c) => \A m \in 1 .. (l + 1) - 1 : j[m] # c
    BY <1>1, <1>2, <2>1 DEF Without
  <2>. QED  BY <1>1, <2>1, <2>2, FindFirst
<1>6. ASSUME NEW d, Without(t, d), NEW m \in (l + 1) + 1 .. Len(j) PROVE j[m] # d
  <2>. DEFINE n == m - (l + 1)
  <2>1. n \in 1 .. r /\ m = l + 1 + n
    BY <1>1
  <2>. HIDE DEF n
  <2>2. j[m] = t[n]
    BY <1>1, <2>1
  <2>. QED  BY <1>2, <1>6, <2>1, <2>2 DEF Without
<1>7. Without(t, c) => RFind(j, c) = l + 1
  <2>1. l + 1 \in 1 .. Len(j)
    BY <1>1
  <2>. QED  BY <1>1, <1>6, <2>1, FindLast
<1>8. ASSUME NEW d, Without(s, d), d # c, Without(t, d) PROVE Without(j, d)
  <2>. SUFFICES ASSUME NEW n \in 1 .. Len(j) PROVE j[n] # d
    BY DEF Without
  <2>1. n \in 1 .. l \/ n = l + 1 \/ n \in (l + 1) + 1 .. Len(j)
    BY <1>1
  <2>2. CASE n \in 1 .. l
    BY <1>1, <1>2, <1>8, <2>2 DEF Without
  <2>3. CASE n = l + 1
    BY <1>1, <1>8, <2>3
  <2>4. CASE n \in (l + 1) + 1 .. Len(j)
    BY <1>6, <1>8, <2>4
  <2>. QED  BY <2>1, <2>2, <2>3, <2>4
<1>. QED  BY <1>3, <1>4, <1>5, <1>7, <1>8 DEF j, l

(* The scheme is taken off, and what follows is split where it was joined. *)
LEMMA SchemeTaken ==
    ASSUME NEW Chars, "cubrid://" \in Chars, NEW rest \in Seq(Chars)
    PROVE  /\ <<"cubrid://">> \o rest # <<>>
           /\ (<<"cubrid://">> \o rest)[1] = "cubrid://"
           /\ Tail(<<"cubrid://">> \o rest) = rest
<1>. DEFINE q == <<"cubrid://">>
            text == q \o rest
<1>1. q \in Seq(Chars) /\ Len(q) = 1 /\ q[1] = "cubrid://"
  OBVIOUS
<1>. HIDE DEF q
<1>2. /\ text \in Seq(Chars) /\ Len(text) = Len(q) + Len(rest) /\ Len(rest) \in Nat
      /\ \A i \in 1 .. Len(q) : text[i] = q[i]
      /\ \A i \in 1 .. Len(rest) : text[Len(q) + i] = rest[i]
  <2>1. q \in Seq(Chars) /\ rest \in Seq(Chars)
    BY <1>1
  <2>. QED  BY <2>1, ConcatElements
<1>. HIDE DEF text
<1>3. text # <<>> /\ text[1] = "cubrid://"
  BY <1>1, <1>2
<1>4. Tail(text) \in Seq(Chars) /\ Len(Tail(text)) = Len(rest)
  BY <1>1, <1>2, <1>3
<1>5. \A i \in 1 .. Len(rest) : Tail(text)[i] = rest[i]
  <2>. TAKE i \in 1 .. Len(rest)
  <2>1. Tail(text)[i] = text[i + 1]
    BY <1>1, <1>2, <1>3
  <2>2. text[1 + i] = rest[i] /\ i + 1 = 1 + i
    BY <1>1, <1>2
  <2>. QED  BY <2>1, <2>2
<1>6. Tail(text) = rest
  BY <1>4, <1>5, SeqEqual
<1>. QED  BY <1>3, <1>6 DEF text, q

(* Options are cut off at the first `?', the user at the last `@'.         *)
LEMMA ParseSplits ==
    ASSUME NEW Chars, {"cubrid://", "@", "?"} \subseteq Chars,
           NEW info \in Seq(Chars), NEW place \in Seq(Chars), NEW options \in Seq(Chars),
           Without(info, "?"), Without(place, "?"), Without(place, "@")
    PROVE  /\ Parse(<<"cubrid://">> \o Joined(info, "@", place))
                = WithPlace(WithUser(Default, info), place)
           /\ Parse(<<"cubrid://">> \o Joined(Joined(info, "@", place), "?", options))
                = WithOptions(WithPlace(WithUser(Default, info), place), options)
<1>. DEFINE main == Joined(info, "@", place)
            rest == Joined(main, "?", options)
<1>0. "cubrid://" \in Chars /\ "@" \in Chars /\ "?" \in Chars
  OBVIOUS
<1>1. main \in Seq(Chars) /\ Len(info) \in Nat
  BY <1>0, JoinedElements
<1>2. /\ Before(main, Len(info) + 1) = info /\ After(main, Len(info) + 1) = place
      /\ RFind(main, "@") = Len(info) + 1 /\ Without(main, "?")
  <2>1. Before(main, Len(info) + 1) = info /\ After(main, Len(info) + 1) = place
    BY <1>0, JoinedSplits
  <2>2. RFind(main, "@") = Len(info) + 1
    BY <1>0, JoinedSplits
  <2>3. Without(main, "?")
    BY <1>0, JoinedSplits
  <2>. QED  BY <2>1, <2>2, <2>3
<1>. HIDE DEF main
<1>3. rest \in Seq(Chars) /\ Len(main) \in Nat
  BY <1>0, <1>1, JoinedElements
<1>4. /\ Before(rest, Len(main) + 1) = main /\ After(rest, Len(main) + 1) = options
      /\ Find(rest, "?") = Len(main) + 1
  <2>1. Before(rest, Len(main) + 1) = main /\ After(rest, Len(main) + 1) = options
    BY <1>0, <1>1, JoinedSplits
  <2>2. Find(rest, "?") = Len(main) + 1
    BY <1>0, <1>1, <1>2, JoinedSplits
  <2>. QED  BY <2>1, <2>2
<1>. HIDE DEF rest
<1>5. Find(main, "?") = 0
  BY <1>1, <1>2, FindNone DEF Without
<1>6. /\ WithPlace(IF SplitUser(main) = 0 THEN Default
                   ELSE WithUser(Default, Before(main, SplitUser(main))),
                   After(main, SplitUser(main)))
           = WithPlace(WithUser(Default, info), place)
  <2>1. SplitUser(main) = Len(info) + 1 /\ Len(info) + 1 # 0
    BY <1>1, <1>2 DEF SplitUser
  <2>. QED  BY <1>2, <2>1
<1>7. Parse(<<"cubrid://">> \o main) = WithPlace(WithUser(Default, info), place)
  <2>. DEFINE text == <<"cubrid://">> \o main
  <2>1. text # <<>> /\ text[1] = "cubrid://" /\ Tail(text) = main
    BY <1>0, <1>1, SchemeTaken
  <2>. HIDE DEF text
  <2>2. Parse(text) = WithPlace(WithUser(Default, info), place)
    BY <1>5, <1>6, <2>1 DEF Parse
  <2>. QED  BY <2>2 DEF text
<1>8. Parse(<<"cubrid://">> \o rest)
         = WithOptions(WithPlace(WithUser(Default, info), place), options)
  <2>. DEFINE text == <<"cubrid://">> \o rest
  <2>1. text # <<>> /\ text[1] = "cubrid://" /\ Tail(text) = rest
    BY <1>0, <1>3, SchemeTaken
  <2>2. Find(rest, "?") # 0 /\ Before(rest, Find(rest, "?")) = main
        /\ After(rest, Find(rest, "?")) = options
    BY <1>3, <1>4
  <2>. HIDE DEF text
  <2>3. Parse(text) = WithOptions(WithPlace(WithUser(Default, info), place), options)
    BY <1>6, <2>1, <2>2 DEF Parse
  <2>. QED  BY <2>3 DEF text
<1>. QED  BY <1>7, <1>8 DEF main, rest

(* A user, or a user and a password, as a DSN has them.                    *)
Account(user, reserved) == Escaped(user, reserved)
AccountWithPassword(user, password, reserved) ==
    Joined(Escaped(user, reserved), ":", Escaped(password, reserved))

(* What Dsn::parse should make of them.                                    *)
Named(user) == [Default EXCEPT !.user = user]
Trusted(user, password) == [Default EXCEPT !.user = user, !.password = password]

(* What is escaped holds no separator and is decoded to what it was.       *)
LEMMA EscapedFacts ==
    ASSUME NEW Chars, Texts(Chars), NEW reserved, Escaping(reserved), NEW s \in Seq(Chars)
    PROVE  /\ Escaped(s, reserved) \in Seq(Chars)
           /\ Without(Escaped(s, reserved), ":") /\ Without(Escaped(s, reserved), "?")
           /\ PercentDecode(Escaped(s, reserved)) = s
<1>1. Len(s) \in 0 .. Len(s) /\ SubSeq(s, 1, Len(s)) = s
  OBVIOUS
<1>2. /\ Escaped(SubSeq(s, 1, Len(s)), reserved) \in Seq(Chars)
      /\ \A n \in 1 .. Len(Escaped(SubSeq(s, 1, Len(s)), reserved)) :
            Escaped(SubSeq(s, 1, Len(s)), reserved)[n] \notin {":", "?"}
  BY <1>1, EscapedClean
<1>3. PercentDecode(Escaped(s, reserved)) = s
  BY DecodeEscaped
<1>. QED  BY <1>1, <1>2, <1>3 DEF Without

(* A user alone is read as it was before it was escaped.                   *)
LEMMA NameRead ==
    ASSUME NEW Chars, Texts(Chars), NEW reserved, Escaping(reserved)
    PROVE  \A user \in Seq(Chars) :
              /\ Account(user, reserved) \in Seq(Chars)
              /\ Without(Account(user, reserved), "?")
              /\ WithUser(Default, Account(user, reserved)) = Named(user)
<1>. TAKE user \in Seq(Chars)
<1>. DEFINE U == Escaped(user, reserved)
<1>1. U \in Seq(Chars) /\ Without(U, ":") /\ Without(U, "?") /\ PercentDecode(U) = user
  BY EscapedFacts
<1>. HIDE DEF U
<1>2. Find(U, ":") = 0
  BY <1>1, FindNone DEF Without
<1>3. WithUser(Default, U) = Named(user)
  BY <1>1, <1>2 DEF WithUser, Named
<1>. QED  BY <1>1, <1>3 DEF Account, U

(* So are a user and a password.                                           *)
LEMMA PasswordRead ==
    ASSUME NEW Chars, Texts(Chars), ":" \in Chars, NEW reserved, Escaping(reserved)
    PROVE  \A user, password \in Seq(Chars) :
              /\ AccountWithPassword(user, password, reserved) \in Seq(Chars)
              /\ Without(AccountWithPassword(user, password, reserved), "?")
              /\ WithUser(Default, AccountWithPassword(user, password, reserved))
                   = Trusted(user, password)
<1>. TAKE user, password \in Seq(Chars)
<1>. DEFINE U == Escaped(user, reserved)
            W == Escaped(password, reserved)
            info == Joined(U, ":", W)
<1>1. U \in Seq(Chars) /\ Without(U, ":") /\ Without(U, "?") /\ PercentDecode(U) = user
  BY EscapedFacts
<1>2. W \in Seq(Chars) /\ Without(W, "?") /\ PercentDecode(W) = password
  BY EscapedFacts
<1>. HIDE DEF U, W
<1>3. info \in Seq(Chars)
  BY <1>1, <1>2, JoinedElements
<1>4. Without(info, "?")
  BY <1>1, <1>2, JoinedSplits
<1>5. Find(info, ":") = Len(U) + 1 /\ Len(U) \in Nat
  BY <1>1, <1>2, JoinedSplits
<1>6. Before(info, Len(U) + 1) = U /\ After(info, Len(U) + 1) = W
  BY <1>1, <1>2, JoinedSplits
<1>. HIDE DEF info
<1>7. WithUser(Default, info) = Trusted(user, password)
  <2>1. Find(info, ":") # 0
    BY <1>5
  <2>. QED  BY <1>1, <1>2, <1>5, <1>6, <2>1 DEF WithUser, Trusted
<1>. QED  BY <1>3, <1>4, <1>7 DEF AccountWithPassword, U, W, info

-----------------------------------------------------------------------------
(* Dsn::parse: host, port and database are found where they were put *)

(* The characters of a DSN, and the runs of them the Dsn module takes as   *)
(* one (that the separators are strings is nothing the provers know).      *)
TextChars == STRING \cup {"cubrid://", "%", ":", "@", "?", "/", "[", "]"}

(* Every text a DSN is put together from is one of TextChars.              *)
LEMMA TextCharsFacts ==
    /\ {"cubrid://", ":", "@", "?", "/"} \subseteq TextChars
    /\ ":" \in TextChars /\ "/" \in TextChars /\ "[" \in TextChars /\ "]" \in TextChars
    /\ DOMAIN Numerals \subseteq TextChars
    /\ Texts(TextChars)
<1>1. /\ STRING \subseteq TextChars
      /\ {"cubrid://", "%", ":", "@", "?", "/", "[", "]"} \subseteq TextChars
  BY DEF TextChars
<1>2. Seq(STRING) \subseteq Seq(TextChars)
  BY <1>1, SeqMonotonic
<1>. QED  BY <1>1, <1>2, EscapesAssumption, NumeralsAssumption DEF Texts

(* Nothing that ends host and port, the user or the options.               *)
Inner(s) == Without(s, "/") /\ Without(s, "@") /\ Without(s, "?")

(* A host, which may be left out, or an address that needs brackets.       *)
PlainHost(h) == Inner(h) /\ (h = <<>> \/ h[1] # "[")
Address(a) == Inner(a) /\ Without(a, "]")

(* The numerals that u16 holds.                                            *)
PortNumerals == {n \in DOMAIN Numerals : Numerals[n] < 65536}

(* A database name that ends neither the user nor the main part.           *)
DatabaseName(d) == d # <<>> /\ Without(d, "@") /\ Without(d, "?")

(* An address in brackets, and what is behind them.                        *)
Bracketed(address, behind) == Joined(<<"[">> \o address, "]", behind)

(* A host that is left out is this machine.                                *)
HostOf(h) == IF h = <<>> THEN Default.host ELSE h

(* hp is a way to write host and port: [host][:port] or [address][:port]   *)
(* with brackets of its own.                                               *)
Locates(hp, host, port) ==
    \/ PlainHost(hp) /\ Without(hp, ":") /\ host = HostOf(hp) /\ port = Default.port
    \/ \E h \in Seq(TextChars), n \in PortNumerals :
          PlainHost(h) /\ hp = Joined(h, ":", <<n>>) /\ host = HostOf(h) /\ port = Numerals[n]
    \/ \E a \in Seq(TextChars) :
          Address(a) /\ hp = Bracketed(a, <<>>) /\ host = a /\ port = Default.port
    \/ \E a \in Seq(TextChars), n \in PortNumerals :
          Address(a) /\ hp = Bracketed(a, <<":", n>>) /\ host = a /\ port = Numerals[n]

(* What a DSN without options says.                                        *)
Saying(user, password, host, port, database) ==
    [ok |-> TRUE, host |-> host, port |-> port, database |-> database, user |-> user,
     password |-> password, auto_commit |-> TRUE, timeout |-> 30]

(* The records Dsn::parse goes through are equal if their fields are.      *)
Records(S) ==
    [ok : BOOLEAN, host : S, port : S, database : S, user : S, password : S,
     auto_commit : BOOLEAN, timeout : Nat]

(* Two such records with the same fields are the same record.              *)
LEMMA FieldsEqual ==
    ASSUME NEW S, NEW l \in Records(S), NEW m \in Records(S),
           l.ok = m.ok, l.host = m.host, l.port = m.port, l.database = m.database,
           l.user = m.user, l.password = m.password, l.auto_commit = m.auto_commit,
           l.timeout = m.timeout
    PROVE  l = m
  BY DEF Records

(* What result.host = ... leaves.                                          *)
LEMMA HostSet ==
    ASSUME NEW user, NEW password, NEW host, NEW port, NEW database, NEW x
    PROVE  [Saying(user, password, host, port, database) EXCEPT !.host = x]
             = Saying(user, password, x, port, database)
<1>. DEFINE S == {user, password, host, port, database, x}
            l == [Saying(user, password, host, port, database) EXCEPT !.host = x]
            m == Saying(user, password, x, port, database)
<1>1. /\ user \in S /\ password \in S /\ host \in S /\ port \in S /\ database \in S
      /\ x \in S
  OBVIOUS
<1>. HIDE DEF S
<1>2. l \in Records(S) /\ m \in Records(S)
  BY <1>1 DEF Saying, Records
<1>3. /\ l.ok = m.ok /\ l.host = m.host /\ l.port = m.port /\ l.database = m.database
      /\ l.user = m.user /\ l.password = m.password /\ l.auto_commit = m.auto_commit
      /\ l.timeout = m.timeout
  BY <1>2 DEF Saying, Records
<1>. HIDE DEF l, m
<1>4. l = m
  BY <1>2, <1>3, FieldsEqual
<1>. QED  BY <1>4 DEF l, m

(* What result.port = ... leaves.                                          *)
LEMMA PortSet ==
    ASSUME NEW user, NEW password, NEW host, NEW port, NEW database, NEW x
    PROVE  [Saying(user, password, host, port, database) EXCEPT !.port = x]
             = Saying(user, password, host, x, database)
<1>. DEFINE S == {user, password, host, port, database, x}
            l == [Saying(user, password, host, port, database) EXCEPT !.port = x]
            m == Saying(user, password, host, x, database)
<1>1. /\ user \in S /\ password \in S /\ host \in S /\ port \in S /\ database \in S
      /\ x \in S
  OBVIOUS
<1>. HIDE DEF S
<1>2. l \in Records(S) /\ m \in Records(S)
  BY <1>1 DEF Saying, Records
<1>3. /\ l.ok = m.ok /\ l.host = m.host /\ l.port = m.port /\ l.database = m.database
      /\ l.user = m.user /\ l.password = m.password /\ l.auto_commit = m.auto_commit
      /\ l.timeout = m.timeout
  BY <1>2 DEF Saying, Records
<1>. HIDE DEF l, m
<1>4. l = m
  BY <1>2, <1>3, FieldsEqual
<1>. QED  BY <1>4 DEF l, m

(* What result.database = ... leaves.                                      *)
LEMMA DatabaseSet ==
    ASSUME NEW user, NEW password, NEW host, NEW port, NEW database, NEW x
    PROVE  [Saying(user, password, host, port, database) EXCEPT !.database = x]
             = Saying(user, password, host, port, x)
<1>. DEFINE S == {user, password, host, port, database, x}
            l == [Saying(user, password, host, port, database) EXCEPT !.database = x]
            m == Saying(user, password, host, port, x)
<1>1. /\ user \in S /\ password \in S /\ host \in S /\ port \in S /\ database \in S
      /\ x \in S
  OBVIOUS
<1>. HIDE DEF S
<1>2. l \in Records(S) /\ m \in Records(S)
  BY <1>1 DEF Saying, Records
<1>3. /\ l.ok = m.ok /\ l.host = m.host /\ l.port = m.port /\ l.database = m.database
      /\ l.user = m.user /\ l.password = m.password /\ l.auto_commit = m.auto_commit
      /\ l.timeout = m.timeout
  BY <1>2 DEF Saying, Records
<1>. HIDE DEF l, m
<1>4. l = m
  BY <1>2, <1>3, FieldsEqual
<1>. QED  BY <1>4 DEF l, m

(* What result.user = ... leaves.                                          *)
LEMMA UserSet ==
    ASSUME NEW user, NEW password, NEW host, NEW port, NEW database, NEW x
    PROVE  [Saying(user, password, host, port, database) EXCEPT !.user = x]
             = Saying(x, password, host, port, database)
<1>. DEFINE S == {user, password, host, port, database, x}
            l == [Saying(user, password, host, port, database) EXCEPT !.user = x]
            m == Saying(x, password, host, port, database)
<1>1. /\ user \in S /\ password \in S /\ host \in S /\ port \in S /\ database \in S
      /\ x \in S
  OBVIOUS
<1>. HIDE DEF S
<1>2. l \in Records(S) /\ m \in Records(S)
  BY <1>1 DEF Saying, Records
<1>3. /\ l.ok = m.ok /\ l.host = m.host /\ l.port = m.port /\ l.database = m.database
      /\ l.user = m.user /\ l.password = m.password /\ l.auto_commit = m.auto_commit
      /\ l.timeout = m.timeout
  BY <1>2 DEF Saying, Records
<1>. HIDE DEF l, m
<1>4. l = m
  BY <1>2, <1>3, FieldsEqual
<1>. QED  BY <1>4 DEF l, m

(* A numeral alone is read as its number.                                  *)
LEMMA NumeralRead ==
    ASSUME NEW n \in PortNumerals
    PROVE  /\ <<n>> \in Seq(TextChars) /\ Inner(<<n>>) /\ Without(<<n>>, ":")
           /\ \A base : WithPort(base, <<n>>) = [base EXCEPT !.port = Numerals[n]]
<1>. DEFINE number == <<n>>
<1>1. n \in TextChars /\ n \in DOMAIN Numerals /\ Numerals[n] < 65536
  BY TextCharsFacts DEF PortNumerals
<1>2. /\ number \in Seq(TextChars) /\ Len(number) = 1 /\ number[1] = n
      /\ IsNumber(number) /\ Number(number) = Numerals[n]
  BY <1>1 DEF IsNumber, Number
<1>3. \A m \in 1 .. 1 : m = 1
  OBVIOUS
<1>. HIDE DEF number
<1>4. Inner(number) /\ Without(number, ":")
  BY <1>1, <1>2, <1>3, NumeralsAssumption DEF Inner, Without
<1>5. \A base : WithPort(base, number) = [base EXCEPT !.port = Numerals[n]]
  BY <1>1, <1>2 DEF WithPort
<1>. QED  BY <1>2, <1>4, <1>5 DEF number

(* A host without a port is taken as it is.                                *)
LEMMA HostRead ==
    ASSUME NEW h \in Seq(TextChars), PlainHost(h), Without(h, ":"), NEW base
    PROVE  Inner(h) /\ WithHostPort(base, h) = WithHost(base, h)
<1>1. RFind(h, ":") = 0
  BY FindNone DEF Without
<1>. QED  BY <1>1 DEF WithHostPort, PlainHost

(* The last colon ends the host, and the port follows.                     *)
LEMMA HostPortRead ==
    ASSUME NEW h \in Seq(TextChars), NEW n \in PortNumerals, PlainHost(h), NEW base
    PROVE  /\ Joined(h, ":", <<n>>) \in Seq(TextChars) /\ Inner(Joined(h, ":", <<n>>))
           /\ WithHostPort(base, Joined(h, ":", <<n>>))
                = [WithHost(base, h) EXCEPT !.port = Numerals[n]]
<1>. DEFINE number == <<n>>
            hp == Joined(h, ":", number)
<1>1. ":" \in TextChars
  BY TextCharsFacts
<1>2. /\ number \in Seq(TextChars) /\ Inner(number) /\ Without(number, ":")
      /\ \A b : WithPort(b, number) = [b EXCEPT !.port = Numerals[n]]
  BY NumeralRead
<1>. HIDE DEF number
<1>2a. h \in Seq(TextChars) /\ number \in Seq(TextChars)
  BY <1>2
<1>3. /\ hp \in Seq(TextChars) /\ Len(h) \in Nat /\ Len(number) \in Nat
      /\ Len(hp) = Len(h) + 1 + Len(number)
  BY <1>1, <1>2, JoinedElements
<1>4. hp # <<>> /\ hp[1] # "["
  <2>1. hp # <<>>
    BY <1>3
  <2>2. CASE h = <<>>
    <3>1. hp[Len(h) + 1] = ":" /\ Len(h) + 1 = 1
      <4>1. hp[Len(h) + 1] = ":"
        BY <1>1, <1>2a, JoinedElements
      <4>2. Len(h) + 1 = 1
        BY <2>2
      <4>. QED  BY <4>1, <4>2
    <3>. HIDE DEF hp
    <3>. QED  BY <2>1, <3>1
  <2>3. CASE h # <<>>
    <3>1. 1 \in 1 .. Len(h) /\ h[1] # "["
      BY <1>3, <2>3 DEF PlainHost
    <3>2. hp[1] = h[1]
      <4>1. \A m \in 1 .. Len(h) : hp[m] = h[m]
        BY <1>1, <1>2a, JoinedElements
      <4>. HIDE DEF hp
      <4>. QED  BY <3>1, <4>1
    <3>. HIDE DEF hp
    <3>. QED  BY <2>1, <3>1, <3>2
  <2>. QED  BY <2>2, <2>3
<1>5. Before(hp, Len(h) + 1) = h /\ After(hp, Len(h) + 1) = number
  BY <1>1, <1>2, JoinedSplits
<1>6. RFind(hp, ":") = Len(h) + 1
  BY <1>1, <1>2, JoinedSplits
<1>7. Inner(hp)
  <2>1. Without(hp, "/")
    BY <1>1, <1>2, JoinedSplits DEF PlainHost, Inner
  <2>2. Without(hp, "@")
    BY <1>1, <1>2, JoinedSplits DEF PlainHost, Inner
  <2>3. Without(hp, "?")
    BY <1>1, <1>2, JoinedSplits DEF PlainHost, Inner
  <2>. QED  BY <2>1, <2>2, <2>3 DEF Inner
<1>. HIDE DEF hp
<1>8. WithHostPort(base, hp) = WithPort(WithHost(base, h), number)
  <2>1. RFind(hp, ":") # 0
    BY <1>3, <1>6
  <2>. QED  BY <1>4, <1>5, <1>6, <2>1 DEF WithHostPort
<1>. QED  BY <1>2, <1>3, <1>7, <1>8 DEF hp, number

(* An address ends at its bracket, and a port follows behind a colon.      *)
LEMMA AddressRead ==
    ASSUME NEW a \in Seq(TextChars), Address(a), NEW base,
           NEW behind \in Seq(TextChars), Inner(behind)
    PROVE  /\ Bracketed(a, behind) \in Seq(TextChars) /\ Inner(Bracketed(a, behind))
           /\ behind = <<>> => WithHostPort(base, Bracketed(a, behind)) = [base EXCEPT !.host = a]
           /\ \A n \in PortNumerals : behind = <<":", n>> =>
                WithHostPort(base, Bracketed(a, behind))
                  = [[base EXCEPT !.host = a] EXCEPT !.port = Numerals[n]]
<1>. DEFINE bracket == <<"[">>
            front == bracket \o a
            hp == Joined(front, "]", behind)
            end == Len(front) + 1
<1>1. "[" \in TextChars /\ "]" \in TextChars
  BY TextCharsFacts
<1>2. bracket \in Seq(TextChars) /\ Len(bracket) = 1 /\ bracket[1] = "["
  BY <1>1
<1>. HIDE DEF bracket
<1>3. /\ front \in Seq(TextChars) /\ Len(front) = Len(bracket) + Len(a) /\ Len(a) \in Nat
      /\ \A i \in 1 .. Len(bracket) : front[i] = bracket[i]
      /\ \A i \in 1 .. Len(a) : front[Len(bracket) + i] = a[i]
  <2>1. bracket \in Seq(TextChars) /\ a \in Seq(TextChars)
    BY <1>2
  <2>. QED  BY <2>1, ConcatElements
<1>. HIDE DEF front
<1>4. /\ Len(front) = 1 + Len(a) /\ front[1] = "["
      /\ \A i \in 1 .. Len(a) : front[1 + i] = a[i]
  BY <1>2, <1>3
<1>5. ASSUME NEW c, c # "[", Without(a, c) PROVE Without(front, c)
  <2>. SUFFICES ASSUME NEW m \in 1 .. Len(front) PROVE front[m] # c
    BY DEF Without
  <2>1. CASE m = 1
    BY <1>4, <1>5, <2>1
  <2>2. CASE m # 1
    <3>. DEFINE i == m - 1
    <3>1. i \in 1 .. Len(a) /\ m = 1 + i
      BY <1>3, <1>4, <2>2
    <3>. HIDE DEF i
    <3>. QED  BY <1>4, <1>5, <3>1 DEF Without
  <2>. QED  BY <2>1, <2>2
<1>6. Without(front, "]") /\ Inner(front)
  BY <1>5 DEF Address, Inner
<1>6a. front \in Seq(TextChars) /\ behind \in Seq(TextChars)
  BY <1>3
<1>7. /\ hp \in Seq(TextChars) /\ Len(front) \in Nat /\ Len(behind) \in Nat
      /\ Len(hp) = Len(front) + 1 + Len(behind)
  BY <1>1, <1>6a, JoinedElements
<1>8. \A m \in 1 .. Len(front) : hp[m] = front[m]
  BY <1>1, <1>6a, JoinedElements
<1>9. \A m \in 1 .. Len(behind) : hp[end + m] = behind[m]
  BY <1>1, <1>6a, JoinedElements
<1>10. Find(hp, "]") = end
  BY <1>1, <1>6, <1>6a, JoinedSplits
<1>11. After(hp, end) = behind
  BY <1>1, <1>6a, JoinedSplits
<1>12. Inner(hp)
  <2>1. Without(hp, "/")
    BY <1>1, <1>6, <1>6a, JoinedSplits DEF Inner
  <2>2. Without(hp, "@")
    BY <1>1, <1>6, <1>6a, JoinedSplits DEF Inner
  <2>3. Without(hp, "?")
    BY <1>1, <1>6, <1>6a, JoinedSplits DEF Inner
  <2>. QED  BY <2>1, <2>2, <2>3 DEF Inner
<1>. HIDE DEF hp
<1>13. end \in Nat \ {0} /\ end - 1 = 1 + Len(a) /\ Len(hp) = end + Len(behind)
  <2>1. Len(a) \in Nat /\ Len(front) = 1 + Len(a)
    BY <1>3, <1>4
  <2>2. Len(hp) = Len(front) + 1 + Len(behind) /\ Len(behind) \in Nat
    BY <1>7
  <2>3. end = 1 + Len(a) + 1
    BY <2>1
  <2>. HIDE DEF end
  <2>. QED  BY <2>1, <2>2, <2>3
<1>. HIDE DEF end
<1>14. SubSeq(hp, 2, end - 1) = a
  <2>. DEFINE l == 1 + Len(a)
              b == SubSeq(hp, 2, l)
  <2>1. /\ 2 \in Int /\ l \in Int /\ \A i \in 2 .. l : i \in 1 .. Len(hp)
        /\ 2 <= l <=> 1 <= Len(a)
        /\ l - 2 + 1 = Len(a) /\ Len(a) \in Nat
        /\ \A m \in 1 .. Len(a) : 2 + m - 1 = 1 + m /\ 1 + m \in 1 .. Len(front)
    BY <1>3, <1>4, <1>7, <1>13
  <2>2. \A i \in 2 .. l : hp[i] \in TextChars
    BY <1>7, <2>1
  <2>. HIDE DEF l
  <2>3. /\ b \in Seq(TextChars) /\ Len(b) = IF 2 <= l THEN l - 2 + 1 ELSE 0
        /\ \A m \in 1 .. l - 2 + 1 : b[m] = hp[2 + m - 1]
    BY <2>1, <2>2, SubSeqProperties
  <2>. HIDE DEF b
  <2>4. Len(b) = Len(a)
    BY <2>1, <2>3
  <2>5. \A m \in 1 .. Len(a) : b[m] = a[m]
    BY <1>4, <1>8, <2>1, <2>3
  <2>6. b = a
    BY <2>3, <2>4, <2>5, SeqEqual
  <2>. QED  BY <1>13, <2>6 DEF b, l
<1>15. hp # <<>> /\ hp[1] = "["
  <2>1. 1 \in 1 .. Len(front) /\ Len(hp) # 0
    BY <1>3, <1>4, <1>7
  <2>. QED  BY <1>4, <1>7, <1>8, <2>1
<1>16. CASE behind = <<>>
  <2>1. ~(end < Len(hp)) /\ end # 0
    BY <1>13, <1>16
  <2>2. WithHostPort(base, hp) = [base EXCEPT !.host = a]
    BY <1>10, <1>14, <1>15, <2>1 DEF WithHostPort
  <2>. QED  BY <1>7, <1>12, <1>16, <2>2 DEF Bracketed, hp, front, bracket
<1>17. ASSUME NEW n \in PortNumerals, behind = <<":", n>>
       PROVE  WithHostPort(base, hp) = [[base EXCEPT !.host = a] EXCEPT !.port = Numerals[n]]
  <2>1. Len(behind) = 2 /\ behind[1] = ":" /\ behind[2] = n
    BY <1>17
  <2>2. end < Len(hp) /\ end # 0 /\ hp[end + 1] = ":"
    <3>1. 1 \in 1 .. Len(behind)
      BY <2>1
    <3>. QED  BY <1>9, <1>13, <2>1, <3>1
  <2>3. After(hp, end + 1) = <<n>>
    <3>. DEFINE f == end + 1 + 1
                b == SubSeq(hp, f, Len(hp))
    <3>1. /\ f \in Int /\ Len(hp) = f /\ f - f + 1 = 1 /\ f + 1 - 1 = f
          /\ f \in 1 .. Len(hp) /\ 2 \in 1 .. Len(behind) /\ end + 2 = f
          /\ \A i \in f .. f : i = f
      BY <1>13, <2>1
    <3>2. hp[f] = n
      BY <1>9, <2>1, <3>1
    <3>. HIDE DEF f
    <3>3. /\ b \in Seq(TextChars) /\ Len(b) = 1 /\ b[1] = hp[f]
      <4>1. \A i \in f .. Len(hp) : hp[i] \in TextChars
        BY <1>7, <3>1
      <4>2. /\ b \in Seq(TextChars)
            /\ Len(b) = IF f <= Len(hp) THEN Len(hp) - f + 1 ELSE 0
            /\ \A m \in 1 .. Len(hp) - f + 1 : b[m] = hp[f + m - 1]
        BY <3>1, <4>1, SubSeqProperties
      <4>3. f <= Len(hp) /\ Len(hp) - f + 1 = 1 /\ 1 \in 1 .. 1
        BY <3>1
      <4>. HIDE DEF b
      <4>. QED  BY <3>1, <4>2, <4>3
    <3>. HIDE DEF b
    <3>4. b = <<n>>
      BY <3>2, <3>3
    <3>. QED  BY <3>4 DEF After, b, f
  <2>4. WithHostPort(base, hp) = WithPort([base EXCEPT !.host = a], After(hp, end + 1))
    BY <1>10, <1>14, <1>15, <2>2 DEF WithHostPort
  <2>. QED  BY <1>17, <2>3, <2>4, NumeralRead
<1>18. CASE behind # <<>>
  BY <1>7, <1>12, <1>17, <1>18 DEF Bracketed, hp, front, bracket
<1>. QED  BY <1>16, <1>18

(* Users and passwords alone.                                              *)
LEMMA TrustedSays ==
    ASSUME NEW user, NEW password
    PROVE  /\ Trusted(user, password)
                = Saying(user, password, Default.host, Default.port, <<>>)
           /\ Named(user) = Trusted(user, <<>>)
           /\ Default = Trusted(<<>>, <<>>)
<1>1. Default = Saying(<<>>, <<>>, Default.host, Default.port, <<>>)
  BY DEF Default, Saying
<1>2. ASSUME NEW u, NEW w PROVE Trusted(u, w) = Saying(u, w, Default.host, Default.port, <<>>)
  <2>. DEFINE d == Saying(<<>>, <<>>, Default.host, Default.port, <<>>)
              S == {u, w, Default.host, Default.port, <<>>}
              l == [d EXCEPT !.user = u, !.password = w]
              m == Saying(u, w, Default.host, Default.port, <<>>)
  <2>1. u \in S /\ w \in S /\ Default.host \in S /\ Default.port \in S /\ <<>> \in S
    OBVIOUS
  <2>. HIDE DEF S
  <2>2. l \in Records(S) /\ m \in Records(S)
    BY <2>1 DEF Saying, Records
  <2>3. /\ l.ok = m.ok /\ l.host = m.host /\ l.port = m.port /\ l.database = m.database
        /\ l.user = m.user /\ l.password = m.password /\ l.auto_commit = m.auto_commit
        /\ l.timeout = m.timeout
    BY <2>2 DEF Saying, Records
  <2>4. Trusted(u, w) = l
    BY <1>1, Zenon DEF Trusted
  <2>. HIDE DEF l, m
  <2>5. l = m
    BY <2>2, <2>3, FieldsEqual
  <2>. QED  BY <2>4, <2>5 DEF m
<1>3. Named(user) = Saying(user, <<>>, Default.host, Default.port, <<>>)
  BY <1>1, UserSet DEF Named
<1>. QED  BY <1>1, <1>2, <1>3

(* Host and port are read as they were written, whatever the way.          *)
LEMMA LocationRead ==
    ASSUME NEW hp \in Seq(TextChars), NEW host, NEW port, Locates(hp, host, port),
           NEW user, NEW password, NEW database
    PROVE  /\ Inner(hp)
           /\ WithHostPort([Trusted(user, password) EXCEPT !.database = database], hp)
                = Saying(user, password, host, port, database)
<1>. DEFINE base == [Trusted(user, password) EXCEPT !.database = database]
<1>1. base = Saying(user, password, Default.host, Default.port, database)
  BY TrustedSays, DatabaseSet
<1>. HIDE DEF base
<1>2. ASSUME NEW h
      PROVE  WithHost(base, h) = Saying(user, password, HostOf(h), Default.port, database)
  <2>1. [base EXCEPT !.host = h] = Saying(user, password, h, Default.port, database)
    BY <1>1, HostSet
  <2>. QED  BY <1>1, <2>1 DEF WithHost, HostOf
<1>3. ASSUME NEW h, NEW n
      PROVE  /\ [base EXCEPT !.host = h] = Saying(user, password, h, Default.port, database)
             /\ [Saying(user, password, h, Default.port, database) EXCEPT !.port = n]
                  = Saying(user, password, h, n, database)
  BY <1>1, HostSet, PortSet
<1>4. CASE PlainHost(hp) /\ Without(hp, ":") /\ host = HostOf(hp) /\ port = Default.port
  <2>1. Inner(hp) /\ WithHostPort(base, hp) = WithHost(base, hp)
    BY <1>4, HostRead
  <2>2. WithHost(base, hp) = Saying(user, password, host, port, database)
    BY <1>2, <1>4
  <2>. QED  BY <2>1, <2>2 DEF base
<1>5. CASE \E h \in Seq(TextChars), n \in PortNumerals :
              PlainHost(h) /\ hp = Joined(h, ":", <<n>>) /\ host = HostOf(h) /\ port = Numerals[n]
  <2>1. PICK h \in Seq(TextChars), n \in PortNumerals :
           PlainHost(h) /\ hp = Joined(h, ":", <<n>>) /\ host = HostOf(h) /\ port = Numerals[n]
    BY <1>5
  <2>2. Inner(hp) /\ WithHostPort(base, hp) = [WithHost(base, h) EXCEPT !.port = port]
    BY <2>1, HostPortRead
  <2>3. WithHost(base, h) = Saying(user, password, host, Default.port, database)
    BY <1>2, <2>1
  <2>. QED  BY <1>3, <2>2, <2>3 DEF base
<1>6. CASE \E a \in Seq(TextChars) :
              Address(a) /\ hp = Bracketed(a, <<>>) /\ host = a /\ port = Default.port
  <2>1. Address(host) /\ hp = Bracketed(host, <<>>) /\ host \in Seq(TextChars)
    BY <1>6
  <2>2. <<>> \in Seq(TextChars) /\ Inner(<<>>)
    BY DEF Inner, Without
  <2>3. Inner(hp) /\ WithHostPort(base, hp) = [base EXCEPT !.host = host]
    BY <2>1, <2>2, AddressRead
  <2>4. [base EXCEPT !.host = host] = Saying(user, password, host, port, database)
    BY <1>3, <1>6
  <2>. QED  BY <2>3, <2>4 DEF base
<1>7. CASE \E a \in Seq(TextChars), n \in PortNumerals :
              Address(a) /\ hp = Bracketed(a, <<":", n>>) /\ host = a /\ port = Numerals[n]
  <2>1. PICK n \in PortNumerals :
           Address(host) /\ hp = Bracketed(host, <<":", n>>) /\ port = Numerals[n]
    BY <1>7
  <2>2. host \in Seq(TextChars)
    BY <1>7
  <2>. DEFINE behind == <<":", n>>
  <2>3. n \in TextChars /\ n \notin {"@", ":", "?", "/"} /\ ":" \in TextChars
    BY TextCharsFacts, NumeralsAssumption DEF PortNumerals
  <2>4. behind \in Seq(TextChars) /\ Len(behind) = 2 /\ behind[1] = ":" /\ behind[2] = n
    BY <2>3
  <2>5. hp = Bracketed(host, behind) /\ behind = <<":", n>>
    BY <2>1
  <2>. HIDE DEF behind
  <2>6. Inner(behind)
    <3>1. \A m \in 1 .. 2 : m = 1 \/ m = 2
      OBVIOUS
    <3>. QED  BY <2>3, <2>4, <3>1 DEF Inner, Without
  <2>7. Inner(hp) /\ WithHostPort(base, hp) = [[base EXCEPT !.host = host] EXCEPT !.port = port]
    <3>1. /\ Inner(Bracketed(host, behind))
          /\ \A k \in PortNumerals : behind = <<":", k>> =>
               WithHostPort(base, Bracketed(host, behind))
                 = [[base EXCEPT !.host = host] EXCEPT !.port = Numerals[k]]
      BY <2>1, <2>2, <2>4, <2>6, AddressRead
    <3>. QED  BY <2>1, <2>5, <3>1
  <2>8. [[base EXCEPT !.host = host] EXCEPT !.port = port]
          = Saying(user, password, host, port, database)
    BY <1>3
  <2>. QED  BY <2>7, <2>8 DEF base
<1>. QED  BY <1>4, <1>5, <1>6, <1>7 DEF Locates

(* The first `/' ends host and port, and the database is what follows.     *)
LEMMA PlaceRead ==
    ASSUME NEW hp \in Seq(TextChars), NEW host, NEW port, Locates(hp, host, port),
           NEW database \in Seq(TextChars), DatabaseName(database), NEW user, NEW password
    PROVE  /\ Joined(hp, "/", database) \in Seq(TextChars)
           /\ Without(Joined(hp, "/", database), "@") /\ Without(Joined(hp, "/", database), "?")
           /\ WithPlace(Trusted(user, password), Joined(hp, "/", database))
                = Saying(user, password, host, port, database)
<1>. DEFINE place == Joined(hp, "/", database)
            base == [Trusted(user, password) EXCEPT !.database = database]
<1>1. "/" \in TextChars
  BY TextCharsFacts
<1>2. Inner(hp) /\ WithHostPort(base, hp) = Saying(user, password, host, port, database)
  BY LocationRead
<1>3. Without(hp, "/") /\ Without(hp, "@") /\ Without(hp, "?")
  BY <1>2 DEF Inner
<1>4. place \in Seq(TextChars) /\ Len(hp) \in Nat
  BY <1>1, JoinedElements
<1>5. Before(place, Len(hp) + 1) = hp /\ After(place, Len(hp) + 1) = database
  BY <1>1, JoinedSplits
<1>6. Find(place, "/") = Len(hp) + 1
  BY <1>1, <1>3, JoinedSplits
<1>7. Without(place, "@")
  BY <1>1, <1>3, JoinedSplits DEF DatabaseName
<1>8. Without(place, "?")
  BY <1>1, <1>3, JoinedSplits DEF DatabaseName
<1>. HIDE DEF place
<1>9. WithPlace(Trusted(user, password), place) = WithHostPort(base, hp)
  <2>1. Find(place, "/") # 0 /\ database # <<>>
    BY <1>4, <1>6 DEF DatabaseName
  <2>. QED  BY <1>5, <1>6, <2>1 DEF WithPlace
<1>. QED  BY <1>2, <1>4, <1>7, <1>8, <1>9 DEF place

-----------------------------------------------------------------------------
(* The theorems about DSNs *)

(* A DSN with a user and perhaps a password, and one with neither; the     *)
(* same with options.                                                      *)
WrittenDsn(info, place) == <<"cubrid://">> \o Joined(info, "@", place)

WrittenDsnWith(info, place, options) ==
    <<"cubrid://">> \o Joined(Joined(info, "@", place), "?", options)

NamelessDsn(place) == <<"cubrid://">> \o place

(* Without an `@' there is no user.                                        *)
LEMMA NamelessRead ==
    ASSUME NEW place \in Seq(TextChars), Without(place, "@"), Without(place, "?")
    PROVE  Parse(NamelessDsn(place)) = WithPlace(Default, place)
<1>. DEFINE text == <<"cubrid://">> \o place
<1>1. text # <<>> /\ text[1] = "cubrid://" /\ Tail(text) = place
  BY TextCharsFacts, SchemeTaken
<1>. HIDE DEF text
<1>2. Find(place, "?") = 0 /\ SplitUser(place) = 0
  BY FindNone DEF Without, SplitUser
<1>3. After(place, 0) = place
  BY DEF After
<1>4. Parse(text) = WithPlace(Default, place)
  BY <1>1, <1>2, <1>3 DEF Parse
<1>. QED  BY <1>4 DEF NamelessDsn, text

(* Every user and every password, whatever characters they hold, come out  *)
(* of Dsn::parse as they were, if they are written with `%', `:' and `?'   *)
(* escaped, others or not, and what follows is cut where it was joined: an *)
(* `@' or a `/' in a password does no harm, nor one in the options.        *)
THEOREM AccountsSurviveDsn ==
    ASSUME NEW user \in Seq(TextChars), NEW password \in Seq(TextChars),
           NEW place \in Seq(TextChars), NEW options \in Seq(TextChars),
           NEW reserved, Escaping(reserved), Without(place, "@"), Without(place, "?")
    PROVE  /\ Parse(WrittenDsn(Account(user, reserved), place)) = WithPlace(Named(user), place)
           /\ Parse(WrittenDsnWith(Account(user, reserved), place, options))
                = WithOptions(WithPlace(Named(user), place), options)
           /\ Parse(WrittenDsn(AccountWithPassword(user, password, reserved), place))
                = WithPlace(Trusted(user, password), place)
           /\ Parse(WrittenDsnWith(AccountWithPassword(user, password, reserved), place, options))
                = WithOptions(WithPlace(Trusted(user, password), place), options)
<1>. DEFINE a == Account(user, reserved)
            b == AccountWithPassword(user, password, reserved)
<1>1. a \in Seq(TextChars) /\ Without(a, "?") /\ WithUser(Default, a) = Named(user)
  BY TextCharsFacts, NameRead
<1>2. b \in Seq(TextChars) /\ Without(b, "?") /\ WithUser(Default, b) = Trusted(user, password)
  BY TextCharsFacts, PasswordRead
<1>. HIDE DEF a, b
<1>3. ASSUME NEW info \in Seq(TextChars), Without(info, "?")
      PROVE  /\ Parse(WrittenDsn(info, place)) = WithPlace(WithUser(Default, info), place)
             /\ Parse(WrittenDsnWith(info, place, options))
                  = WithOptions(WithPlace(WithUser(Default, info), place), options)
  <2>1. {"cubrid://", "@", "?"} \subseteq TextChars
    BY TextCharsFacts
  <2>. QED  BY <1>3, <2>1, ParseSplits DEF WrittenDsn, WrittenDsnWith
<1>4. /\ Parse(WrittenDsn(a, place)) = WithPlace(Named(user), place)
      /\ Parse(WrittenDsnWith(a, place, options))
           = WithOptions(WithPlace(Named(user), place), options)
  BY <1>1, <1>3
<1>5. /\ Parse(WrittenDsn(b, place)) = WithPlace(Trusted(user, password), place)
      /\ Parse(WrittenDsnWith(b, place, options))
           = WithOptions(WithPlace(Trusted(user, password), place), options)
  BY <1>2, <1>3
<1>. QED  BY <1>4, <1>5 DEF a, b

(* A DSN without options and what it means: an account, escaped in any way *)
(* a writer may choose, or none; a host and a port, each of which may be   *)
(* left out; a database.                                                   *)
WellWritten(d) ==
    \E hp, host, database, user, password \in Seq(TextChars), port \in Nat,
       reserved \in SUBSET Range(Escapes) :
        /\ Locates(hp, host, port) /\ DatabaseName(database) /\ Escaping(reserved)
        /\ d.means = Saying(user, password, host, port, database)
        /\ \/ /\ d.text = NamelessDsn(Joined(hp, "/", database))
              /\ user = <<>> /\ password = <<>>
           \/ /\ d.text = WrittenDsn(Account(user, reserved), Joined(hp, "/", database))
              /\ password = <<>>
           \/ d.text = WrittenDsn(AccountWithPassword(user, password, reserved),
                                  Joined(hp, "/", database))

(* connect works with the user, the password, the host, the port and the   *)
(* database that the DSN was written for, whatever they are.               *)
THEOREM DsnsUnderstood ==
    ASSUME \A d \in Dsns : WellWritten(d)
    PROVE  Spec => []DsnMeansWhatItSays
<1>1. ASSUME NEW d \in Dsns PROVE Parse(d.text) = d.means
  <2>0. WellWritten(d)
    OBVIOUS
  <2>1. PICK hp \in Seq(TextChars), host \in Seq(TextChars), database \in Seq(TextChars),
             user \in Seq(TextChars), password \in Seq(TextChars), port \in Nat,
             reserved \in SUBSET Range(Escapes) :
           /\ Locates(hp, host, port) /\ DatabaseName(database) /\ Escaping(reserved)
           /\ d.means = Saying(user, password, host, port, database)
           /\ \/ /\ d.text = NamelessDsn(Joined(hp, "/", database))
                 /\ user = <<>> /\ password = <<>>
              \/ /\ d.text = WrittenDsn(Account(user, reserved), Joined(hp, "/", database))
                 /\ password = <<>>
              \/ d.text = WrittenDsn(AccountWithPassword(user, password, reserved),
                                     Joined(hp, "/", database))
    BY <2>0 DEF WellWritten
  <2>. DEFINE place == Joined(hp, "/", database)
  <2>2. /\ place \in Seq(TextChars) /\ Without(place, "@") /\ Without(place, "?")
        /\ WithPlace(Trusted(user, password), place) = d.means
    BY <2>1, PlaceRead
  <2>. HIDE DEF place
  <2>3. <<>> \in Seq(TextChars)
    OBVIOUS
  <2>4. CASE d.text = NamelessDsn(place) /\ user = <<>> /\ password = <<>>
    <3>1. Trusted(user, password) = Default
      BY <2>4, TrustedSays
    <3>. QED  BY <2>2, <2>4, <3>1, NamelessRead
  <2>5. CASE d.text = WrittenDsn(Account(user, reserved), place) /\ password = <<>>
    <3>1. Trusted(user, password) = Named(user)
      BY <2>5, TrustedSays
    <3>2. Parse(WrittenDsn(Account(user, reserved), place)) = WithPlace(Named(user), place)
      BY <2>1, <2>2, <2>3, AccountsSurviveDsn
    <3>. QED  BY <2>2, <2>5, <3>1, <3>2
  <2>6. CASE d.text = WrittenDsn(AccountWithPassword(user, password, reserved), place)
    <3>1. Parse(WrittenDsn(AccountWithPassword(user, password, reserved), place))
            = WithPlace(Trusted(user, password), place)
      BY <2>1, <2>2, <2>3, AccountsSurviveDsn
    <3>. QED  BY <2>2, <2>6, <3>1
  <2>. QED  BY <2>1, <2>4, <2>5, <2>6 DEF place
<1>2. Init => DsnMeansWhatItSays
  BY DEF Init, DsnMeansWhatItSays
<1>3. DsnMeansWhatItSays /\ [Next]_vars => DsnMeansWhatItSays'
  <2>. SUFFICES ASSUME DsnMeansWhatItSays, [Next]_vars PROVE DsnMeansWhatItSays'
    OBVIOUS
  <2>1. CASE ParseDsn
    BY <1>1, <2>1 DEF ParseDsn, DsnMeansWhatItSays
  <2>2. CASE ~ParseDsn
    <3>1. UNCHANGED <<meant, dsn>>
      BY <2>2 DEF Next, ClientStep, Connect, ConnectTo, End, WriteClientInfoExchange, WriteRaw,
                  ParseClientInfoExchange, Reconnect, WriteOpenDatabase, ParseOpenDatabase,
                  ReadFails, Cancelled, BrokerAnswers, CasAnswers, HangsUp, vars, settings
    <3>. QED  BY <3>1 DEF DsnMeansWhatItSays
  <2>. QED  BY <2>1, <2>2
<1>. QED  BY <1>2, <1>3, PTL DEF Spec
=============================================================================
