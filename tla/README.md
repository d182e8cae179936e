# Formal models of cubrid-rs

TLA+ modules for cubrid-rs, the TLC configurations that check them on small
instances, and TLAPS proofs for instances of every size. Modelled are the two
connection pools, the session of a client with its CAS, a pooled connection as
it goes from caller to caller (blocking and tokio), the connect through the
broker with its connection string, the byte-level parsers and builders, and the
interpolation of parameters. Paths below are relative to
the repository; `PROJECT.json` maps every definition to the lines it models.

    tlc -config SyncPool.cfg MCSyncPool        # model-check one configuration
    tlapm SyncPoolProofs.tla                   # check the proofs

## 1. Inventory

| component | state | operations | talks to |
|---|---|---|---|
| `cubrid-pool` `SyncPool` | a `Mutex` around `idle`, `active_count`, `closed` | `new`, `get`, `status`, `close`, drop of a pooled connection, drop of the pool | `Client::connect`/`close`, the threads that share it |
| `cubrid-pool` `AsyncPool` | the same behind a tokio mutex, and the return tasks spawned by drops | the same, each await a point where the future may be dropped | the tokio client, the runtime |
| `cubrid-client` `Client`, `Statement` | `conn`, `auto_commit`, `proto_version`; a statement's handle and `closed` | `connect`, `execute`, `query`, `prepare`, `commit`, `rollback`, `ping`, `last_insert_id`, `set_auto_commit`, `close`, drop; `Statement::execute`, `query_with`, `close` | the CAS through `Connection` |
| `cubrid-client` `Connection` | the socket, `cas_info`, read and write timeouts | `connect_to`, `send_framed`, `recv_framed`, `write_and_close` | TCP |
| `cubrid-protocol` requests and responses | none | one builder per function code, one parser per answer | the client |
| `cubrid-protocol` codec, values, types | a read position | reads and writes of integers, strings, dates, rows | the parsers |
| broker handshake | none that lasts | exchange, redirect, OpenDatabase | broker and CAS |
| `cubrid-tokio` client | as `cubrid-client` | as `cubrid-client`, asynchronous; no read timeout, no `Drop` | the CAS |
| a pooled connection | a client in the pool's queue or lent, its stream, the server's session | what the pool and its holders do to it | pool, client, CAS |
| parameter interpolation | a scanner's position, the parameters used | `interpolate_params`, `format_value` | the client |
| DSN parser | none | `Dsn::parse`, `percent_decode` | `connect` |
| `Value`, errors | none | conversions and texts | everything |

What is hard:

* **Pools.** `get` counts a place, releases the mutex, connects, and takes the
  mutex again only if the connect failed. Meanwhile other callers decide on
  `active_count`, a `close` may drain the queue, and connections come back.
  In the asynchronous pool the future may be dropped at each await, `close`
  holds the mutex across awaits, and the return of a connection is a task that
  runs later, if at all. Correct means: the count is exact, `max_size` is never
  exceeded in sockets, a connection has one owner, a closed pool keeps nothing,
  no place and no socket is lost.
* **Session.** A frame does not say which request it answers. Client and server
  agree on it only by counting, and a read that times out breaks the count: the
  client keeps the connection, and the late answer is taken for the next one.
  Statement handles live on the server until closed; `query` opens and closes
  one around a fetch loop that may fail in the middle. Correct means: an answer
  is read by the request it answers, Ok means done, all rows come once and in
  order, no handle outlives its owner, every call returns.
* **Pooled connections.** A connection comes back as the last holder left it:
  with an open transaction, an unread answer, another `auto_commit`, a dead
  socket. A blocking read may time out, and a tokio future may be dropped, in the
  middle of a frame or of a request, and the client stays usable. A Statement is
  an integer with no tie to its connection. Correct means: as long as no call was
  broken off, the next holder reads the answers to its own requests, its calls
  return and its Statements name what it prepared. It may still notice its
  predecessors: by a transaction they left open, an `auto_commit` they changed,
  handles they leaked, and a socket that died in the queue.
* **Parsers.** Packets have no delimiters: each field's place depends on all
  lengths and counts before it, and those come from the packet. Correct means:
  the reader stays inside the packet, fields are read in the order and width in
  which they were written, a packet cut short is noticed, rows and cells are as
  many as announced.
* **Interpolation.** A hand-written scanner decides what is a literal, and the
  server's lexer decides again on the result. Correct means: the two agree, and
  no value leaves its literal.
* **Handshake.** `connect` uses two sockets in turn, may fail at each of five
  steps and, in the tokio client, be dropped at each of them; the broker's answer
  is an `i32` of which three ranges mean different things and which is cast to
  `u16`; the connection string is split at characters a password may contain.
  Correct means: the string says what it was written to say, the credentials go
  where the broker said, a client has the CAS_INFO of its CAS, a failure leaves
  no socket, `connect` returns.

`PROJECT.json` lists the hazards at their lines, with the properties that would
catch each, and says which ones no property covers yet.

## 2. Modules

| module | models |
|---|---|
| `BoundedPool` | the promise of a pool: places, connections lent, connections kept; with `Lossy`, a place may stay counted for ever |
| `SyncPool`, `MCSyncPool` | `SyncPool` of `crates/cubrid-pool/src/lib.rs` 150-290 |
| `AsyncPool`, `MCAsyncPool` | `AsyncPool`, the same file 294-439 |
| `SyncPoolProofs`, `AsyncPoolProofs` | theorems about the pools |
| `SequenceLemmas` | facts about sequences for all proofs: what `push_back` and `pop_front` do to a queue, what `FlattenSeq` and concatenation make of longer sequences, and induction over a set of numbers |
| `Dsn` | `crates/cubrid-client/src/dsn.rs`, operators only |
| `Handshake`, `MCHandshake` | `Client::connect` of both clients; extends `Dsn` |
| `HandshakeProofs` | theorems about `Handshake` and `Dsn` |
| `CasProtocol` | the request builders and response parsers of `cubrid-protocol` |
| `ClientSession`, `MCClientSession` | `Client`, `Statement` and `Connection` of `cubrid-client`, with the stream and the CAS |
| `ClientSessionProofs` | theorems about `ClientSession` |
| `PooledSession`, `MCPooledSession` | the composition: a client of either crate, its pool, its holders, the CAS; extends `ClientSession` |
| `PooledSessionProofs` | theorems about `PooledSession`; extends `ClientSessionProofs` |
| `Wire` | the bytes: `codec.rs`, `constants.rs`, the builders of `request.rs` and `handshake.rs`; operators only |
| `ResponseParser`, `MCResponseParser` | `response.rs` and the parsers of `handshake.rs` over a `PacketReader`; extends `Wire` |
| `ResponseParserProofs` | theorems about `ResponseParser` |
| `Interpolation`, `MCInterpolation` | `interpolate_params` and `format_value` of both clients |
| `InterpolationProofs` | theorems about `Interpolation` |

### SyncPool

`idle`, `active_count` and `closed` are the fields of `SyncPoolInner`. `pc`,
`held` and `outcome` say where each caller is, which client its pooled
connection holds and what its last `get` returned; `open` is the set of clients
whose socket is open. `phase` tells `new` running, the pool alive, and the
`SyncPool` dropped while pooled connections may still refer to its `Arc`.

Every critical section is one action. `get` is `GetClosed`, `GetIdle`,
`GetExhausted` or `GetReserve`, the last followed, without the mutex, by
`ConnectOk` or by `ConnectError` and then `GetFailed` under the mutex. `Drop`
is the whole of `SyncPooledConnection::drop`, the release of the last reference
included. `ClientClose` is a holder that closes its client through `DerefMut`.
`status` reads one consistent state and is left out. A poisoned mutex is left
out: no code panics while holding it, as `TypeCorrect` shows for the decrement.

### AsyncPool

As `SyncPool`, plus: `locked` and `draining`, the mutex held by `close` across
its awaits and the clients it has not closed; `returning`, the connections owned
by spawned return tasks; `lost`, which is not in the code and counts the places
that stay counted with nobody to give them back. `Cancels` lets futures be
dropped at an await (`GetCancelled`, `CloseCancelled`), `ClientCloses` lets a
holder close its client, after which `DropDead` takes the early return of
`AsyncPooledConnection::drop`.

### Handshake and Dsn

`Dsn!Parse` is `Dsn::parse`: a text is a sequence of characters in which a run
the parser never looks into (`timeout`, `33000`) is one element, and the splits
happen in the code's order. `Dsns` pairs each connection string with what it was
written to say; `ParseDsn` puts the two into `meant` and `dsn`.

`pc` is the step of `connect`, `conn` its local variable and `open` the
sockets the client has open; a socket is named by the port at its other end.
`redirect_port` is the broker's answer and `told` the ports that were sent user
and password. One action per step: `Connect`, `WriteClientInfoExchange`,
`ParseClientInfoExchange`, `Reconnect`, `WriteOpenDatabase`, `ParseOpenDatabase`.
`End` is every `?`, and a dropped future: the locals are dropped, and with them
their sockets. The steps of the two clients are the same, so `async` is chosen in
`Init` and never changes: the blocking client sets a read timeout unless the
DSN's is zero (`Patient`), the asynchronous one never does but may
be dropped at an await (`Cancelled`). The cast to `u16` is `% PortSpace`. Broker
and CAS are external: they answer, stay silent or hang up.

### CasProtocol and ClientSession

A request or response is a record of what the session depends on: function code,
CAS_INFO, code, handle, row counts and positions. `no`, the request's number on
its connection, serves the properties; no parser reads it. A parser given a
frame of another kind may fail or read nonsense, and the operators return the
set of both outcomes, except where the code decides (an error code, a frame that
is too short, `parse_simple_response`, which looks at the code only). CAS_INFO
is the number of the answer that brought it.

A Statement's handle is whatever number `parse_prepare` read, and after a late
answer that may be the row count of an EXECUTE: `TypeOK` gives handles no bound
but that of the integers, and only `HandlesAccounted` ties them to the server's.

In `ClientSession` a call is one action per frame: `Start...` sends the first
request, `Recv...` reads a frame, and either sends the next request of the call
(FETCH, CLOSE_REQ_HANDLE) or returns. What a call does with what its
parser made of a frame (`PrepareAndExecuteRead`, `ExecuteRead`, `FetchRead`,
`PrepareRead`, `SimpleRead`, `CloseHandleRead`, `ReadFails`) is an operator of its
own, which `PooledSession` uses for what is no frame. `RecvFails` is a broken stream or, with
`Timeouts`, a timeout before the frame arrived. `Statement` calls with
parameters are `Client::execute` and `Client::query`, as in the code, and
`last_insert_id` is a `query`. The CAS is external: it answers requests in order,
may refuse one (`ServerErrors`), and frees the session when it ends; the link
may break at any time.

`done`, `last`, `io_failed`, `io_reported` and `abandoned` are history variables
for the properties. `abandoned` names the two ways in which the code leaves a
handle open: a Statement dropped without `close` (there is no `Drop`, though
`docs/PROTOCOL_RESEARCH.md:719` says there is one) and a query whose FETCH fails
(`:723` asks for the close). `HandlesAccounted` says that there is no third.
`CasInfoEchoed` likewise excepts the answer to CLOSE_REQ_HANDLE, whose CAS_INFO
is dropped although `:703` of the same file wants every request to carry the
latest one.

### PooledSession

One place of a pool: `place` says whether its client is idle, lent or gone,
`holder` who has it, `async` which pair of crates it is. The calls and the
server are those of `ClientSession`. A frame is read in two steps, its length
(`RecvLength`, then `half`) and its body (`Receive...`). Three things break a
call off: `ReceiveFails` and `TimeoutInFrame` in the blocking client, `Cancel`
at any await and `CancelWrite` inside a request in the tokio client. The server
may refuse a request, and the stream may break, at any time.

Between the two reads a broken-off call leaves the stream `skewed`: the next read
takes bytes of a body for a length. `ReceiveSkewed` lets it end in that body, or
swallow frames and end inside a later one or between two, or wait on for bytes that do
not come. What it hands to the parser is `Nonsense`: an error, or an answer with
any handle and any counts, with which the call goes on as with any other. It
stores the CAS_INFO (0, that of no answer), returns a Statement that names
nothing or another's handle, asks for rows, closes a handle that may be
someone's, or panics in `Vec::with_capacity` (`ReadPanics`). After half a request the
server waits for the rest and finds nonsense (`ServeCut`).

`GetIdle`, `GetNew`, `DropConn` and `PoolClose` are the pool's part: a client
that is not closed goes back to the queue as it is. `old` are the Statements of
earlier connections; `ForeignExecute` and `ForeignClose` use them on the present
one, where their handle may be unknown or be another's. `authors`, `workers`,
`careless`, `interrupted` and `foreign` are history variables: who sent what,
whose work is in the transaction, and whether something happened after which the
properties promise nothing.

### Wire and ResponseParser

`Wire` writes: every operator appends bytes, and the requests of `request.rs`
are built from them. `ResponseParser` reads one packet: `pos` is
`PacketReader::pos`, `pc` what is read next or how the parser returned, `left`
the counter of the loop under way. One action takes one group of fields; every
`ensure` is its `Eof` alternative. A negative length becomes `UsizeTop`
(`as usize`), a negative count in `Vec::with_capacity` a panic. The same reader
stands for the CAS that takes a request apart, so that the builders are checked
against what they are meant to say. A long and a float stay bytes.

The layout of the sample answers is that of the code: the parsers with their doc
comments and tests. The protocol notes in `docs/PROTOCOL_RESEARCH.md` describe
some answers differently, and which of the two a CAS sends cannot be decided
here, so that `RoundTrip` says nothing about these differences: dates and times
(`:450-459`, fields of four bytes; `codec.rs` reads two), errors (`:325`, a length
before the message; `read_error` takes all the rest), the answer to PREPARE
(`:334-341`, a cache lifetime of one byte and no bind count; `parse_prepare` skips
four bytes and reads a count), EXECUTE (`:344-350`), and the order of a column's
names, flags and extended type (`:376-392`, `:398`). If a CAS follows the notes,
the parsers misread these answers.

A parameter and a cell of the same type are laid out alike, with a size, the type
and the value, except TIME and TIMESTAMP: `encode_one_param` writes seven shorts,
with the hour of a TIME in the fourth (request.rs:202-216), `read_value` takes three or
six from the first. So `RoundTrip` reads every other parameter back as a cell (a
boolean comes back as a short, a date as a datetime), and checks these two only
against the layout of `request.rs`, byte by byte.

### Interpolation

`i`, `literal` and `param_idx` are the scanner of `interpolate_params`, `stage`
and `k` the value being written. Each action that writes pushes one character
into `result` and, at the same time, into the server's lexer: `lex` is its state
and `lost` who, statement or value, took it into a comment or a quoted
identifier, which the scanner does not know. These two are not in the code.

## 3. Runs

| run | bounds | shows |
|---|---|---|
| `sync_pool` | 4 callers, 3 connections, `max_size` 2, `min_idle` 1 | all invariants, the action property, the release of every socket, the refinement of the lossless `BoundedPool` |
| `async_pool` | 3 callers, 3 connections, `max_size` 2, `min_idle` 1, cancellations and closed clients | the same for what survives cancellation: `active_count` is off by exactly the lost places, callers are refused for no other reason, and the pool refines the lossy `BoundedPool` |
| `async_pool_dead_drop` | clients closed by holders | **violation**: `active_count` keeps a dead connection (lib.rs:425) |
| `async_pool_cancel` | futures dropped | **violation**: a pool with room answers `PoolExhausted` (lib.rs:356) |
| `session` | 3 calls, results of 0 to 2 rows in batches of 1, 12 requests; timeouts, errors, dropped statements | until the first I/O failure the stream is in step, Ok means done, handles are accounted for, CAS_INFO is echoed |
| `session_orderly` | 3 calls, 0 to 4 rows in batches of 2, 15 requests; no timeouts and errors | all rows once and in order, calls return, the session ends |
| `session_late_answer` | timeouts and errors | **violation**: `commit` returns Ok for a commit the server refused (cubrid-client lib.rs:401) |
| `pooled_session` | both kinds of client, 2 callers, 2 sessions, 2 calls, 5 requests on a connection and at most 3 of one call, results of up to 1 row, nonsense with handle 1; timeouts, errors, dropped statements | until a call is broken off, answers belong to their requests, the transaction has only the holder's work and what careless predecessors left, Statements resolve, calls return; closed connections leave nothing on the server |
| `parser` | every pair of sample types, every parser and builder; 5 packets cut at every byte and with every byte made 0, 1, 128 or 255 | the reader stays inside, rows match the header, whole packets and the parameters are read as the code lays them out, cuts are noticed |
| `parser_negative_count` | a negative column count and a negative result count | **violation**: the parser panics (response.rs:40, 104) |
| `interpolation` | statements of up to 4 characters over `?` `'` `-` `a`, and four with comments and identifiers; up to 2 of 13 values | placeholders are replaced in order, values stay in their literals, only `-` before a negative number makes a comment |
| `handshake` | DSNs of every form; both clients; broker answers -1, 0, the port of a CAS, a port nobody listens on, 65536 plus the port of a CAS | the string is read as meant; credentials go to the port the broker named and nowhere after a rejection; a client has one socket and its CAS's CAS_INFO, an error leaves none; `connect` returns unless a silent peer meets a client without read timeout |

*Bounds.* Two places are the least with which one can be idle while another is
lent or being opened; a third caller is then refused, and a fourth one makes two
callers compete for a place given back. A third connection identity lets a pool
that opens one socket too many be seen doing it. `min_idle` 1 leaves a place to
be opened by `get`, and two connections that came back give the asynchronous
`close` two clients to drain. Batches of 1 and 2 with up to 4 rows
give results of no batch, a full batch, one row more and several FETCHes.
Three calls cover a statement prepared, used and closed, and a call that leaves
a late answer, one that reads it, and one after it. `MaxSent` exceeds what three
calls can send (in `session` a query needs at most four requests), so that it
stops nothing. The handshake's answers are one of each class the code tells
apart, and one that the cast changes. In `pooled_session` two sessions are the
least with which a Statement outlives its connection, two calls the least with
which one reads what the other left, and a row after the batch makes a FETCH; a
call starts only if all its requests fit under `MaxSent`, so the bound cuts no
call (nonsense may ask for one request more, and is cut there). `NonsenseHandles`
is 1, the handle of the first statement of every connection, so that a Statement
made of nonsense names another's or, before there is one, nothing.
`SessionView` identifies states that differ only in what no guard, no branch of
the server and none of the run's properties looks at: CAS_INFO, `last`, `done`,
`io_reported`, and after a call was broken off everything that only the
properties ask for (who sent what, whose work and handles these are), since they
ask again on the next connection only. States it identifies have the same steps,
so the properties, the liveness included, keep their meaning. Types are not among
them: they are proved (`PooledTypeCorrect`). Two columns and two rows per packet let a wrong length show in the next
cell and the next row; 128 and 255 are the bytes that make a length negative or
a type extended. Four characters and two values hold a literal, a doubled quote,
two placeholders next to each other and a value after a minus sign. The CAS may stop when the client is gone and a pool when it is
dropped: hence `CHECK_DEADLOCK FALSE`.

*Fairness.* Pools: a connect ends one way or the other (it has a timeout, or
the server answers), a thread that waits for the mutex gets it, and a caller
drops its connection at some time, which is what "after the callers let go"
means in `SocketsReleased`. The tokio mutex is FIFO, so a task that awaits it is
not overtaken for ever: strong fairness for `Return` and `GetFailed`, which
`close` can disable again and again. `get` itself, `close` and cancellation have
no fairness. Session: the client reads a frame that is there and notices a broken
stream; the server answers or hangs up. No call is required to be made.
Pooled session: the same, with both reads of a frame; nothing makes a late frame
come in time, a broken-off call return or a skewed stream end well.
Handshake: weak fairness of the client's own steps, its read timeout included;
broker and CAS need do nothing, nobody has to cancel, and nobody has to call
`connect` (`ParseDsn` is not among the fair steps).

*What the violations mean.* Each of them contradicts a sentence of the
documentation, quoted under `findings`. The passing runs state what remains true
nevertheless (`ActiveCountExplained`, `HandlesAccounted`), so that a further
leak would be noticed. The conditions of the passing properties are findings of
the same sort without a sentence to contradict: `interrupted` in `PooledSession`
(a connection is reused after a broken-off call; the late answer, the stream left
inside a frame and the half-written request happen in the model, and no property
says that they do no harm), `foreign` (a Statement on another connection), `lost` in
`Interpolation` (`--` from `-?` and -1), `redirect_port >= PortSpace` in
`CredentialsToCas`. A changed `auto_commit` is in the model too, and no property
forbids it.

## 4. Proofs

`SyncPoolProofs` proves for every finite set of callers, every set of connections
and every configuration `PoolConfig::validate` accepts (`ConfigAssumption`,
`CallersAssumption`, and `NoConnAssumption`, which only says that "no connection"
is not one):

| theorem | says |
|---|---|
| `TypeCorrect` | types; in particular `active_count` never goes below 0 |
| `AccountingCorrect` | `active_count` is the number of callers that hold or are getting a connection |
| `CapacityCorrect` | idle and active together never exceed `max_size` |
| `SocketBoundCorrect` | nor do the open sockets and those being opened |
| `OwnershipCorrect` | a connection has one owner |
| `SocketsOwned` | `SocketsAccounted`: idle clients are open, open sockets are owned, a closed pool keeps none |
| `ExhaustionJustified` | `PoolExhausted` is answered only by a full pool |
| `Refinement` | `SyncPool` implements `BoundedPool` with `Lossy` false |

All follow from one inductive invariant, `IInv` (theorem `Invariance`). The
accounting is inductive only together with ownership and with `QuietEnds`: that
the decrement of `drop` stays a natural number needs the caller to be counted
(`Busy`); that the number of callers changes by one with each step needs finite
sets of callers (lemmas `Enter`, `Leave`); that `Append` in `drop` keeps the
queue free of duplicates needs the holder's client not to be in it; and that the
queue built by `new` fits into `max_size` needs nobody to use a pool that is
being built. `SequenceLemmas` states once what `push_back` and `pop_front` do
to the set of clients in a queue. `Refinement` maps every action to a step of
`BoundedPool` or to a stutter (`NextRefines`, `Stutters`), with `places` mapped
to `active_count`; `PlaceToFill` shows that a connect that succeeds has a place.

`AsyncPoolProofs` proves under the same assumptions, with futures dropped at any
await or not (`Cancels`) and clients closed by their holders or not
(`ClientCloses`):

| theorem | says |
|---|---|
| `TypeCorrect` | types, `active_count` included |
| `AccountingExplained` | `ActiveCountExplained`: callers, return tasks and lost places are all that is counted |
| `OwnershipCorrect` | a connection is in the queue, in the drain of `close`, with a caller or with a return task, in one place only |
| `SocketsOwned` | `SocketsAccounted`, as for `SyncPool` |
| `SocketBoundCorrect` | `max_size` bounds the sockets, those `close` has yet to close included |
| `ExhaustionExplained` | `PoolExhausted` is answered for places in use or lost |
| `ExhaustionJustified` | without dropped futures and closed clients, for places in use: `ExhaustedOnlyWhenFull`, which `async_pool_cancel` violates, has no other exception |
| `Refinement` | `AsyncPool` implements `BoundedPool` with `Lossy` true |

The invariant, `AsyncPool!IInv`, joins to the accounting what the sockets need:
`CapacityBound` counts the clients that `close` has taken out of the queue and
not closed yet, since `close` gives up their places before their sockets.
`QuietEnds` says that only `close` has the mutex across awaits, so that no
`push_back` meets a drain, and that nobody uses a pool that is being built.
`LossesExplained` ties `lost` to its two causes and gives `ExhaustionJustified`.
The set of return tasks must be finite for its cardinality to follow one spawn
and one return.

`ClientSessionProofs` proves for any number of calls, requests and rows and
every fetch size (`BoundsAssumption`), with or without timeouts, refused
requests and dropped Statements (`SwitchAssumption`):

| theorem | says |
|---|---|
| `TypeCorrect` | types, whatever was misread |
| `StreamsInStep` | `InStep`: until a read or write fails, a frame answers the newest request of the call that reads it |
| `OkIsDone` | `OkMeansDone` |
| `HandlesCorrect` | `HandlesAccounted`: Statements and the two known leaks, nothing else |
| `CasInfoCorrect` | `CasInfoEchoed` |
| `StatementsStayUsable` | no call closes the handle of a live Statement |
| `ResultsComplete` | `RowsComplete`, if `ServerErrors` is false: every row once and in order |

All but the last follow from `ClientSessionProofs!IInv` (theorem `Invariance`).
None of its parts is inductive as the runs state it.

* `StreamInStep` is `InStep` with the broken stream added: answers may still be
  read after `up` is gone, and Ok must mean done then too; requests other than
  CON_CLOSE must not be served then.
* `FramesSound` and `CallInStep` carry success from the server to the end of
  the call: a frame without error code belongs to a request carried out, and a
  call that fetches or cleans up has had such a frame for its first request.
* `CasInfoKnown` is about states without a request on its way: the client has
  the newest CAS_INFO, or the frame that brings it is the one it is waiting for.
* `HandlesOwned` accounts for the handles in the middle of a call, where one of
  them is `Passing`: in the answer to PREPARE, in the fetch loop of `query`, in a
  CLOSE_REQ_HANDLE not yet served. That no two Statements have the same handle,
  and that the number of a request is no handle yet, keeps them apart.

`ResultsComplete` needs a second invariant, `RowsInv`: the rows read so far are
the first ones (`RowsRead`), the request asks for the one that follows
(`RowsAskedFor`), the answer begins with it and adds at least one (`RowsToRead`,
where a server that sends no rows breaks it), and client and server agree on
total and kind of every Statement (`StatementsInStep`, `HandleInStep`), without
which a SELECT might be taken for an update and its rows not be fetched. `Batches`
is the fact about sequences: two adjoining batches make one. Both invariants
were checked with TLC first, on 3 calls with up to 3 rows in batches of 1.

The steps keep `SessionInv`, all of `IInv` but `HandlesOwned`, without the help
of the handles; only `HandlesOwned` needs both. A Statement used on another
connection breaks the second and not the first, and so `PooledSessionProofs` can
use the lemmas about the steps as they are.

`PooledSessionProofs` proves for any number of callers, calls, rows and
connections, for either pair of crates (`PoolAssumption`: there is a caller,
"none" is not one, and at least one connection may be opened):

| theorem | says |
|---|---|
| `PooledTypeCorrect` | `TypeOK` of the session, whatever was broken off or cut, and whatever a call read from the inside of a frame, stored and acted upon: handles, counts and CAS_INFO keep their types, and no more requests are on their way than were sent |
| `AnswersAreOwn` | `OwnAnswers`: until a call is broken off on it, a connection hands each holder the answers to its own requests |
| `TransactionsOfHolder` | `WorkOfHolder`: the transaction holds the holder's work and what earlier holders did not commit |
| `StatementsAlwaysResolve` | `StatementsResolve`: until something is broken off or a Statement used on another connection, each Statement's handle is open, and no others but the known leaks |

The invariant is `PInv`. From the session it takes `SessionInv`, and
`HandlesOwned` until `foreign`. `PlaceInStep` ties the pool to the session: a call
is under way only on a lent connection, a frame is half read only during a call,
and whatever breaks a call off is a failure for the session as well, so that
`SessionInv`, which promises little after a failure, survives it. `AuthorsInStep` gives
every request its author. `WorkInStep` is what `WorkOfHolder` needs: the request
the server serves next is the holder's, and on a connection that failed
without a call broken off there are none. `PInv` was checked with TLC on
`pooled_session` first. `PooledTypeCorrect` needs of
nonsense that it is of the right type (`NonsenseTyped`), that the call which reads
it goes on as lemma `GoesOn` says, and that what is left of the stream once frames
were swallowed are frames of it (`Swallowed`). It holds for `NonsenseHandles` of any
size: a parser returns an error for a negative handle, a negative count asks for
no rows as 0 does, and CAS_INFO is 0 where it is no answer's. The other three
theorems promise nothing for a connection on which a call was broken off, since
the code does not: types (here) and the end of the session (`SessionsEnd`,
checked) are what is left.

`HandshakeProofs` proves for every set of ports and every set of integers the
broker may answer (`PortsAssumption`: ports are between 1 and `PortSpace` - 1 and
the broker's is none of a CAS):

| theorem | says |
|---|---|
| `CredentialsSafe` | `CredentialsToCas`: who was sent user and password |
| `ConnectsOrCleansUp` | `ConnectedOrNothing`: a client with its one socket and CAS_INFO, or no socket |
| `AccountsSurviveDsn` | every user and password, of any length and whatever characters they hold, come out of `Dsn::parse` as they went in, if at least `%`, `:` and `?` are escaped |
| `DsnsUnderstood` | `DsnMeansWhatItSays`, for every set of DSNs `[user[:password]@][host][:port]/database`, a host in brackets included |

The first two follow from `Handshake!IInv` (theorem `Invariance`), which adds `Progress`:
what is known at each step, in particular that nothing was told before
OpenDatabase and that an answer in the buffer came from the present `conn`.
`CastKeepsPorts` is the fact about the cast: a number below `PortSpace` is kept.

The other two are about texts of every length (`EscapesAssumption`: an escape is
two characters, and neither splits a DSN; `NumeralsAssumption`: nor does a
numeral). Names may hold any character; a host no `/`, `@` or `?`, and a database
no `@` or `?`, which is what the code asks of whoever writes the string
(`PlainHost`, `Address`, `DatabaseName`). A text put together with a separator is
taken apart where it was joined (`JoinedSplits`): by `find` if the
separator is not in what comes before, by `rfind` if it is not in what follows.
So an `@` in a password does no harm and one in a database name would. That
`percent_decode` undoes the escaping (`DecodeEscaped`) is shown from the last
character to the first: its recursion is a function of the place in the text
(`DecodeUnrolls`), each escaped character is one or three places of it, and
`SetInduction` of `SequenceLemmas` goes from one to the next. Options are in
`AccountsSurviveDsn` only as far as they are cut off at the right place.

`ResponseParserProofs` proves for every set of packets of bytes, every parser
and all columns it may be given (`InputsAssumption`, `UsizeAssumption`):

| theorem | says |
|---|---|
| `ReaderStaysInside` | `TypeOK`: no packet, whatever it says about itself, takes the reader past its end |
| `RowsAreComplete` | `RowsMatchHeader`: a parser that succeeds returns the rows announced, each with one cell per column |

The second is inductive with `LoopsInStep`: inside the loops the rows read and
those left add up to those announced, and a row has never more cells than there
are columns. Lemmas state what one read of a string or a value needs and yields.

`InterpolationProofs` proves for all statements and parameters
(`TextsAssumption`; `QuotesAssumption`: only strings bring quotes;
`BareWordsAssumption`: what `to_string` makes of a boolean or a number has no
character that matters to the lexer but a leading minus):

| theorem | says |
|---|---|
| `ParametersContained` | `ValuesContained`: scanner and lexer agree, and every character of a value is inside its literal |
| `NoCommentFromValues` | `ValuesStartNoComment`: no value opens a comment, save a negative number right behind a minus |
| `ParametersInOrder` | `PlaceholdersReplaced`: the n-th placeholder outside literals becomes the n-th parameter, quotes doubled, and nothing else changes |

The second needs `CommentInv` on top of the first's invariant: a lexer that has
just seen a minus means an output that ends with one, and a statement without
parameters, which goes out in one piece, leaves the lexer where it started. It
rests on `ValuesContained`: inside a literal no character can lose the lexer, so
only the bare words matter.

`ParametersInOrder` compares a scanner that keeps a flag and a counter with a
definition that counts quotes and placeholders from the start and flattens what
each character becomes. `ReplaceInv` says at every step what was counted so far:
the flag is the parity of the quotes (`LiteralInStep`), the output is the
definition's value for the characters read (`ScanInStep`), with the value under way
as far as it was written (`ValueInStep`). `FlattenAppend` adds one character to a
flattened sequence; it is an induction over the recursive function inside
`FlattenSeq`, made with the least number that would violate it (`LeastNat`,
`SetInduction`), since the library's induction theorems take an operator as a parameter.

Only model-checked are: `RoundTrip` and `CutNoticed`, which speak of packets given
together with what they mean, so that a theorem could only assume what it says of
them; `DsnMeansWhatItSays` for strings with options (`Split` is a fold over the
text) and for those that must be refused; and `SocketsReleased`, `ConnectReturns`,
`CallsReturn`, `SessionEnds`, `UndisturbedCallsReturn` and `SessionsEnd`, since
liveness under fairness is out of the prover's reach.

## 5. Not modelled

* A failing write on a stream that still works (a write timeout); a cancelled
  write is in `PooledSession`.
* The sum of affected rows, where a count of -1 cast with `as u64` overflows.
* Longs and floats as numbers; `Value`'s `Display`, conversions and accessors;
  error enumerations and their texts: pure, without state.
* Characters outside ASCII in a connection string (`percent_decode` makes a
  character of every byte).
* `Statement::query`, which only returns an error (the doc example of `prepare`
  calls it); accessors; `status` of the pools.
* Several places of a pool with their sessions at once: sessions share nothing,
  and the counting of places is in `SyncPool` and `AsyncPool`.

## 6. Plan

1. **Options of a DSN**: `Split` undoes joining with `&`, by the induction that
   `FlattenAppend` uses; then `DsnsUnderstood` holds for every DSN that is accepted.
2. **Packets from the builders**: `RoundTrip` for every packet that `Wire` builds,
   rather than for those listed.
3. **Larger sessions**: two callers on two places with Statements exchanged
   between live connections, rather than with an earlier one.
