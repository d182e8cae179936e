----------------------------- MODULE Handshake -----------------------------
(***************************************************************************)
(* Client::connect of cubrid-client and cubrid-tokio: parse the DSN,       *)
(* connect to the broker, exchange client information, follow the          *)
(* redirection to a CAS, open the database.  The two clients take the same *)
(* steps; the blocking one has timeouts on its reads, the asynchronous one *)
(* can be cancelled at an await.                                           *)
(*                                                                         *)
(* Broker and CAS are not part of the repository: they answer, stay silent *)
(* or hang up.  A socket is named by the port at its other end.            *)
(***************************************************************************)
EXTENDS Integers, Dsn

CONSTANTS Dsns,        \* connection strings, and what they mean: [text, means]
          BrokerPort,  \* the port the broker listens on
          CasPorts,    \* ports a CAS listens on
          Answers,     \* what the broker may answer: any i32
          PortSpace,   \* 2^16, the number of values of a u16
          NoAnswer     \* nothing to read

ASSUME PortsAssumption ==
    /\ PortSpace \in Nat \ {0}
    /\ BrokerPort \in 1 .. PortSpace - 1
    /\ CasPorts \subseteq 1 .. PortSpace - 1
    /\ BrokerPort \notin CasPorts
    /\ Answers \subseteq Int

VARIABLES
    async,             \* cubrid-tokio rather than cubrid-client
    meant,             \* what the connection string was written to say
    dsn,               \* the local `dsn', what Dsn::parse made of it
    pc,                \* the step connect is at, or how it ended
    conn,              \* the port of the local `conn', 0 while there is none
    redirect_port,     \* what the broker answered
    cas_info,          \* Connection::cas_info: who sent it, 0 for the zeros
    open,              \* the client's open sockets
    asked,             \* what the other end of conn has been asked
    answer,            \* what it has answered and the client has not read
    gone,              \* it has hung up
    told               \* ports that were sent user and password

settings == <<async, meant, dsn>>

vars == <<settings, pc, conn, redirect_port, cas_info, open, asked, answer, gone, told>>

Ended == {"ok", "error", "cancelled"}

TypeOK ==
    /\ async \in BOOLEAN
    /\ pc \in {"idle", "connect", "exchange", "read_port", "reconnect",
               "open_database", "read_open"} \cup Ended
    /\ conn \in 0 .. PortSpace - 1
    /\ redirect_port \in Int
    /\ cas_info \in 0 .. PortSpace - 1
    /\ open \subseteq 1 .. PortSpace - 1
    /\ asked \in {"nothing", "exchange", "open_database"}
    /\ gone \in BOOLEAN
    /\ told \subseteq 1 .. PortSpace - 1

Init ==
    /\ async \in BOOLEAN
    /\ meant = Default
    /\ dsn = Default
    /\ pc = "idle"
    /\ conn = 0
    /\ redirect_port = 0
    /\ cas_info = 0
    /\ open = {}
    /\ asked = "nothing"
    /\ answer = NoAnswer
    /\ gone = FALSE
    /\ told = {}

-----------------------------------------------------------------------------
(* The client *)

(* `?' or a dropped future: the locals, and with them their sockets, go.   *)
End(how) ==
    /\ pc' = how
    /\ conn' = 0
    /\ open' = {}
    /\ UNCHANGED <<settings, redirect_port, cas_info, asked, answer, gone, told>>

(* Connection::connect_to: a fresh connection starts with a CAS_INFO of    *)
(* zeros; the assignment to conn drops the one before it.                  *)
ConnectTo(port, next) ==
    /\ port \in CasPorts \cup {BrokerPort}
    /\ conn' = port
    /\ open' = {port}
    /\ cas_info' = 0
    /\ pc' = next
    /\ asked' = "nothing"
    /\ answer' = NoAnswer
    /\ gone' = FALSE
    /\ UNCHANGED <<settings, redirect_port, told>>

(* write_raw *)
WriteRaw(request, next) ==
    /\ asked' = request
    /\ pc' = next
    /\ UNCHANGED <<settings, conn, redirect_port, cas_info, open, answer, gone>>

(* The program calls connect, which parses the string first. *)
ParseDsn ==
    /\ pc = "idle"
    /\ \E d \in Dsns : meant' = d.means /\ dsn' = Parse(d.text)
    /\ pc' = IF dsn'.ok THEN "connect" ELSE "error"
    /\ UNCHANGED <<async, conn, redirect_port, cas_info, open, asked, answer, gone, told>>

(* Only the broker listens. *)
Connect ==
    /\ pc = "connect"
    /\ \/ dsn.port = BrokerPort /\ ConnectTo(BrokerPort, "exchange")
       \/ End("error")

WriteClientInfoExchange ==
    /\ pc = "exchange"
    /\ \/ WriteRaw("exchange", "read_port") /\ UNCHANGED told
       \/ gone /\ End("error")

(* Mutant of ParseClientInfoExchange: a rejection is taken for `same socket'. *)
ParseClientInfoExchangeLenient ==
    /\ pc = "read_port"
    /\ answer # NoAnswer
    /\ redirect_port' = answer.code
    /\ answer' = NoAnswer
    /\ pc' = IF answer.code > 0 THEN "reconnect" ELSE "open_database"
    /\ UNCHANGED <<settings, conn, cas_info, open, asked, gone, told>>

(* Negative: rejected.  Zero: go on with this socket.  Positive: a port.   *)
ParseClientInfoExchange ==
    /\ pc = "read_port"
    /\ answer # NoAnswer
    /\ redirect_port' = answer.code
    /\ answer' = NoAnswer
    /\ IF answer.code < 0
          THEN pc' = "error" /\ conn' = 0 /\ open' = {}
          ELSE /\ pc' = IF answer.code > 0 THEN "reconnect" ELSE "open_database"
               /\ UNCHANGED <<conn, open>>
    /\ UNCHANGED <<settings, cas_info, asked, gone, told>>

(* `redirect_port as u16' keeps the low 16 bits. *)
Reconnect ==
    /\ pc = "reconnect"
    /\ ConnectTo(redirect_port % PortSpace, "open_database") \/ End("error")

WriteOpenDatabase ==
    /\ pc = "open_database"
    /\ \/ WriteRaw("open_database", "read_open") /\ told' = told \cup {conn}
       \/ gone /\ End("error")

(* Mutant of ParseOpenDatabase: set_cas_info is missing. *)
ParseOpenDatabaseForgets ==
    /\ pc = "read_open"
    /\ answer # NoAnswer
    /\ \/ answer.code < 0 /\ End("error")
       \/ /\ answer.code >= 0
          /\ pc' = "ok"
          /\ answer' = NoAnswer
          /\ UNCHANGED <<settings, conn, redirect_port, cas_info, open, asked, gone, told>>

(* An error code, or the CAS_INFO all later requests carry. *)
ParseOpenDatabase ==
    /\ pc = "read_open"
    /\ answer # NoAnswer
    /\ \/ answer.code < 0 /\ End("error")
       \/ /\ answer.code >= 0
          /\ cas_info' = answer.from
          /\ pc' = "ok"
          /\ answer' = NoAnswer
          /\ UNCHANGED <<settings, conn, redirect_port, open, asked, gone, told>>

(* Only the blocking client sets a read timeout, and only if there is one. *)
Patient == async \/ dsn.timeout = 0

Waiting == pc \in {"read_port", "read_open"} /\ answer = NoAnswer

(* Mutant of ReadFails: no read timeout is set. *)
ReadFailsPatiently ==
    /\ Waiting
    /\ gone
    /\ End("error")

ReadFails ==
    /\ Waiting
    /\ gone \/ ~Patient
    /\ End("error")

(* The future of connect is dropped at an await. *)
Cancelled ==
    /\ async
    /\ pc \notin {"idle"} \cup Ended
    /\ End("cancelled")

-----------------------------------------------------------------------------
(* The other end of conn *)

BrokerAnswers ==
    /\ asked = "exchange"
    /\ conn # 0
    /\ ~gone
    /\ \E code \in Answers : answer' = [code |-> code, from |-> conn]
    /\ asked' = "nothing"
    /\ UNCHANGED <<settings, pc, conn, redirect_port, cas_info, open, gone, told>>

(* An answer cut short is an error like a negative code. *)
CasAnswers ==
    /\ asked = "open_database"
    /\ conn # 0
    /\ ~gone
    /\ \E code \in {-1, 0} : answer' = [code |-> code, from |-> conn]
    /\ asked' = "nothing"
    /\ UNCHANGED <<settings, pc, conn, redirect_port, cas_info, open, gone, told>>

HangsUp ==
    /\ conn # 0
    /\ ~gone
    /\ gone' = TRUE
    /\ UNCHANGED <<settings, pc, conn, redirect_port, cas_info, open, asked, answer,
                   told>>

-----------------------------------------------------------------------------

ClientStep ==
    \/ Connect
    \/ WriteClientInfoExchange
    \/ ParseClientInfoExchange
    \/ Reconnect
    \/ WriteOpenDatabase
    \/ ParseOpenDatabase
    \/ ReadFails

Next ==
    \/ ParseDsn
    \/ ClientStep
    \/ Cancelled
    \/ BrokerAnswers
    \/ CasAnswers
    \/ HangsUp

Spec == Init /\ [][Next]_vars

(* The client runs and its timeouts fire; the other end need not answer. *)
FairSpec == Spec /\ WF_vars(ClientStep)

-----------------------------------------------------------------------------
(* Properties *)

(* A connection string means what it says: user and password come back     *)
(* from their escapes whatever characters they have, escaped or where the  *)
(* splitting leaves them alone; host, port, database and options are what  *)
(* was written, or the defaults; what cannot be read is refused.           *)
DsnMeansWhatItSays == dsn = meant

(* User and password go to the end of the redirection only: to the port    *)
(* the broker named, to the broker itself if it said so, and to nobody     *)
(* after a rejection.  An answer that is no port is the exception: the     *)
(* cast to u16 makes another port of it.                                   *)
CredentialsToCas ==
    \A p \in told :
        \/ redirect_port = 0 /\ p = BrokerPort
        \/ redirect_port > 0 /\ p = redirect_port
        \/ redirect_port >= PortSpace

(* connect returns a client with the one socket left open and the CAS_INFO *)
(* of the CAS at its other end, never the zeros it started with; or an     *)
(* error, and then no socket is left, neither the broker's nor the CAS's.  *)
ConnectedOrNothing ==
    /\ pc = "ok" => conn # 0 /\ open = {conn} /\ cas_info = conn
    /\ pc \in Ended \ {"ok"} => open = {}
    /\ pc \notin Ended => open = {conn} \ {0}

(* What connect knows at each step; with it the two above are inductive.   *)
Progress ==
    /\ pc \in {"idle", "connect"} => conn = 0
    /\ pc \in {"exchange", "read_port", "reconnect"} => conn = BrokerPort
    /\ pc \in {"idle", "connect", "exchange", "read_port", "reconnect"} => told = {}
    /\ pc = "reconnect" => redirect_port > 0
    /\ pc = "open_database" =>
          /\ told = {}
          /\ \/ redirect_port = 0 /\ conn = BrokerPort
             \/ redirect_port > 0 /\ conn = redirect_port % PortSpace /\ conn # 0
    /\ pc = "read_open" => conn # 0
    /\ pc \notin Ended /\ answer # NoAnswer => answer \in [code : Int, from : {conn}]

(* The inductive invariant of connect. *)
IInv ==
    /\ TypeOK
    /\ CredentialsToCas
    /\ ConnectedOrNothing
    /\ Progress

(* connect returns, unless the other end stays silent and no timeout       *)
(* applies: that of the asynchronous client covers the connects alone.     *)
ConnectReturns ==
    pc = "connect" ~> (pc \in Ended \/ [](Waiting /\ ~gone /\ Patient))
=============================================================================
