---------------------------- MODULE MCHandshake ----------------------------
(* Instances of Handshake for TLC: the .cfg file gives its constants their values. *)
EXTENDS Handshake

BrokerAnswerCases == {-1, 0, 30001, 30005, 65536 + 30002}

Numbers == ("33000" :> 33000) @@ ("44000" :> 44000) @@ ("70000" :> 70000) @@ ("0" :> 0)
           @@ ("1" :> 1)

Hex == (<<"4", "0">> :> "@") @@ (<<"3", "a">> :> ":") @@ (<<"2", "5">> :> "%")
       @@ (<<"3", "f">> :> "?") @@ (<<"2", "f">> :> "/")

(* Names, with every character that splits a DSN, and one that looks like  *)
(* an escape.                                                              *)
Names == BoundedSeq({"u", "@", ":", "%", "?", "/", "4"}, 2) \cup {<<"%", "4", "0">>}

(* The characters a writer must escape, and those a careful one will. *)
Reserved == {{"%", ":", "?"}, {"%", ":", "?", "@", "/"}}

Written(info, hostport, tail) ==
    <<"cubrid://">> \o info \o hostport \o <<"/", "db">> \o tail

Meant == [Default EXCEPT !.database = <<"db">>]

Accounts == {<<n, <<"u">>>> : n \in Names} \cup {<<<<"u">>, n>> : n \in Names}
            \cup {<<n, n>> : n \in Names}

WithNames ==
    {[text |-> Written(Escaped(a[1], r) \o <<":">> \o Escaped(a[2], r) \o <<"@">>, <<>>, <<>>),
      means |-> [Meant EXCEPT !.user = a[1], !.password = a[2]]] :
        a \in Accounts, r \in Reserved}

(* Host and port as written, and what they mean. *)
Hosts ==
    {[text |-> <<>>, host |-> Default.host, port |-> 33000],
     [text |-> <<"h">>, host |-> <<"h">>, port |-> 33000],
     [text |-> <<":", "44000">>, host |-> Default.host, port |-> 44000],
     [text |-> <<"h", ":", "44000">>, host |-> <<"h">>, port |-> 44000],
     [text |-> <<"[", ":", ":", "1", "]">>, host |-> <<":", ":", "1">>, port |-> 33000],
     [text |-> <<"[", ":", ":", "1", "]", ":", "44000">>, host |-> <<":", ":", "1">>,
      port |-> 44000]}

Options ==
    {[text |-> <<>>, auto |-> TRUE, timeout |-> 30],
     [text |-> <<"?">>, auto |-> TRUE, timeout |-> 30],
     [text |-> <<"?", "timeout", "=", "0">>, auto |-> TRUE, timeout |-> 0],
     [text |-> <<"?", "autocommit", "=", "yes">>, auto |-> TRUE, timeout |-> 30],
     [text |-> <<"?", "autocommit", "=", "1">>, auto |-> TRUE, timeout |-> 30],
     [text |-> <<"?", "x", "=", "1", "&", "autocommit", "=", "no", "&", "timeout", "=", "1">>,
      auto |-> FALSE, timeout |-> 1],
     [text |-> <<"?", "timeout", "=", "1", "&", "timeout", "=", "0">>, auto |-> TRUE,
      timeout |-> 0]}

WithPlaces ==
    {[text |-> Written(info, h.text, o.text),
      means |-> [Meant EXCEPT !.host = h.host, !.port = h.port, !.auto_commit = o.auto,
                              !.timeout = o.timeout,
                              !.user = IF info = <<>> THEN <<>> ELSE <<"u">>]] :
        info \in {<<>>, <<"u", "@">>}, h \in Hosts, o \in Options}

Refused ==
    {[text |-> t, means |-> Invalid] : t \in
        {<<>>, <<"mysql://", "h", "/", "db">>, <<"cubrid://", "h">>, <<"cubrid://", "h", "/">>,
         <<"cubrid://", "[", ":", ":", "1", "/", "db">>,
         <<"cubrid://", "h", ":", "p", "/", "db">>, <<"cubrid://", "h", ":", "/", "db">>,
         <<"cubrid://", "h", ":", "70000", "/", "db">>,
         <<"cubrid://", "h", "/", "db", "?", "timeout", "=", "x">>,
         <<"cubrid://", "h", "/", "db", "?", "timeout", "=", "x", "&", "timeout", "=", "1">>}}

DsnCases == WithNames \cup WithPlaces \cup Refused
=============================================================================
