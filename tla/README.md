# aio-openapi in TLA+

aio-openapi builds HTTP and websocket services on top of aiohttp: endpoints are
typed with dataclasses, validated, documented as an OpenAPI specification,
backed by SQL tables, and, for websockets, connected through a publish/subscribe
layer. This directory holds TLA+ models of the parts of it whose correctness is
a matter of *order* - who runs between two awaits, what a cached value is worth
when it is used, who commits what and when - or of *agreement* between parts
that say the same thing separately - the document, the validators and the
tables - with the TLC configurations that check them and the TLAPS proofs that
go beyond the small instances. Paths are relative to the root of the repository.

## Inventory

| part | state it keeps | operations | what makes it correct |
|---|---|---|---|
| `Channel` (`openapi/ws/channel.py`) | `_events`: pattern -> set of callbacks, in insertion order | `register`, `unregister`, `remove_callback`, `__call__` | an event is there only while it has a callback; the order of the events is the order they came in |
| `Channels` (`openapi/ws/channels.py`) | `_channels`: name -> `Channel` | `register`, `unregister`, `__call__` (dispatch and sweep), `clear` | the registry and the broker agree; nobody loses a subscription that is not theirs to lose; a channel is removed once |
| `SocketsManager` (`openapi/ws/manager.py`) | `sockets`, the connected set | `add`, `remove`, `close_sockets`, the broker's coroutines | the set holds the sockets that are being served |
| `WsPathMixin`, RPC (`openapi/ws/path.py`, `rpc.py`) | one handler for each connection | `get`, `on_message`, `write`, `close` | every request is answered or the connection ends; what ends a handler takes it out of the connected set |
| `Publish`, `Subscribe` (`openapi/ws/pubsub.py`) | one `ChannelCallback` for each socket | the three RPCs, the callback | a callback that fails is reported to the registry |
| `LocalBroker` (`tests/example/ws.py`) | queue, worker, `_stop` | `publish`, `_work`, `close` | messages are dispatched; the shutdown ends and leaves nothing running |
| cursor pagination (`openapi/pagination/cursor.py`, `db/dbmodel.py`) | the cursor in the client's URL | `apply`, `links`, `get_data` | a walk sees every row once, also while rows are written |
| offset pagination (`openapi/pagination/offset.py`) | the offset in the client's URL | `links` | the links tile the table |
| `Database` (`openapi/db/container.py`) | the lazily built engine, its pool, connections and their transactions | `engine`, `connection`, `transaction`, `ensure_transaction`, `close` | what a block opened or began it ends, and nothing else; one engine at a time |
| `CrudDB` (`openapi/db/dbmodel.py`) | none | `db_select`, `db_insert`, `db_update`, `db_upsert`, `db_delete`, `db_count`, `db_paginate`, and the queries they build | a helper uses the connection it is given; a list is stored as its members would be; a filter finds what it says |
| `SqlApiPath`, `ApiPath` (`openapi/db/path.py`, `openapi/spec/path.py`) | none | the CRUD methods of an endpoint, the checks of a request | a request changes the table in one step or not at all, and the answer says which |
| error middleware (`openapi/middleware.py`) | none | `json_error` | every error is one response that a client can read |
| validation and fields (`openapi/data/validate.py`, `fields.py`) | none | `validate`, the validators and their `dump` and `openapi` | what the document allows is accepted; what is accepted can be stored, shown, and accepted again |
| `dump`, data views, dataclasses from tables (`openapi/data`) | none | `dump`, `cleaned`, `dataclass_from_table` | a class has the fields, limits and defaults of its table |
| OpenAPI document (`openapi/spec/spec.py`) | the work list of schemas | `SpecDoc.__call__`, `SchemaParser` | every schema referred to is in the document; the document says what is accepted and sent |
| command line, migrations, helpers | none of their own | | |

Parts interact as follows. Every websocket has a handler task in `WsPathMixin.get`.
An RPC calls `Channels.register` or `unregister`, which mutate a `Channel` and
await the `SocketsManager` subclass that talks to the broker. The broker's
worker awaits `Channels.__call__`, which awaits one `ChannelCallback` for each
subscriber; a callback that fails closes its socket, and the dispatch then sweeps
it out of every channel, awaiting the broker for each channel that becomes empty.
Everything shares the registry, without a lock: what protects it is that a
coroutine runs alone until it awaits something that suspends.

A request to a table goes from the middleware to an endpoint, which checks body,
query and path, calls a helper of `CrudDB` with or without a connection of its
own, and dumps the rows that come back. Helpers nest: each uses the connection
and the transaction it is given, and opens or begins what it is not. Requests meet
in PostgreSQL, whose locks they wait for, and in the pool of the engine.

The classes of an endpoint tie the rest together: they are often made from its
table, the document is made from them, and they validate what is received and dump
what is sent. Nothing in the code compares these readings of one class.

The hard behaviours are therefore the awaits in the middle of an update of the
registry, the snapshot that the sweep walks across awaits, the shutdown that
clears registry and connected set under running tasks; for the database parts the
rows other clients write between two requests or two statements, a statement that
fails in the middle, a pool that is empty, and a `close` under running requests;
and for the data parts the values at the edge - null, empty, rounded, at a limit,
without a zone, left out. `PROJECT.json` lists them at the lines where they bite.

## Modules

| module | models |
|---|---|
| `Channel.tla` | one `Channel` as a value: operators on a record of callbacks and insertion order |
| `Channels.tla` | the registry, its handler tasks and its dispatchers: one action for each stretch of code between two awaits |
| `PubSub.tla` | the abstract specification: a set of subscriptions that only their owners change |
| `WsServer.tla` | `Channels` composed with connections, the connected set, the queue of `LocalBroker` and the shutdown |
| `Paging.tla` | what both paginations use of the database: a table, signed order columns, a SELECT |
| `CursorPagination.tla` | a client that walks a table by cursor, there and back, while rows are written |
| `OffsetPagination.tla` | the links of offset pagination, and a client that walks by them |
| `Database.tla` | the engine, its pool, and the blocks of each request; PostgreSQL as the transactions and locks the code relies on |
| `Store.tla` | the abstract specification of an endpoint: one atomic change, and an answer that tells |
| `SqlApi.tla` | `CrudDB`, `SqlApiPath` and the middleware on top of `Database` |
| `Dataclasses.tla` | the classes of a service and their fields |
| `SpecDoc.tla` | how the document is built: paths, then the work list of schemas |
| `Fields.tla` | the validators and field functions, as operators |
| `Validate.tla` | `validate` and `dump`, as operators |
| `TableSchema.tla` | a class from a table, and the rows of an INSERT or UPDATE |
| `Client.tla` | a client of a service: what is created, updated, found and answered; composes the five above |
| `Contract.tla` | what the document tells that client: the JSON schema of each class, and whether all agree |
| `MCChannels`, `MCWsServer`, `MCCursor`, `MCOffset`, `MCSqlApi`, `MCContract` | constants, symmetry and views for TLC |
| `Channels_proofs`, `PubSub_proofs`, `WsServer_proofs`, `CursorPagination_proofs`, `OffsetPagination_proofs`, `Database_proofs`, `SqlApi_proofs`, `Client_proofs` | the theorems about the module of that name; those of `PubSub` are about `Channels` as an implementation of it, and build on `Channels_proofs`, as those of `WsServer` do; `SqlApi_proofs` builds on `Database_proofs`; `Client_proofs` is about `SpecDoc` too |

`Channels` uses `Channel` and instantiates `PubSub`; `WsServer` extends `Channels`;
both paginations extend `Paging`; `SqlApi` extends `Database` and instantiates
`Store`; `Contract` extends `Client`, which extends `SpecDoc`, `TableSchema` and
`Validate`, which extend `Dataclasses` and `Fields`. The groups share nothing. In the
code the paginations run inside `get_list` of `SqlApi`, and the checks of `SqlApi` are
the validation of `Client`: there a request is `bad` or not, here it is a value.

### Channel

`_events` is a dictionary, and a Python dictionary keeps insertion order, which
decides the event a message is given to. A channel is the record of what the
dictionary maps (`callbacks`) and of that order as a relation (`older`); a
sequence of keys would say the same and be harder to prove about. A socket has
one cached `ChannelCallback`, so callbacks are named by sockets. Whether a
pattern matches an event is the parameter `Matches`.

### Channels

A task is a websocket handler or a dispatcher (`Workers`). `pc` says at which
await it is, `loop` which task holds the event loop: `None` when any task may
run, a task when that task has passed an await that did not suspend it. The
parameter `Yields` says whether the coroutines of the broker suspend. Those of
the repository (`SocketsManager`, `LocalBroker`) never do; one that talks to a
server does, and `openapi/ws/manager.py` documents that subclasses may.

| code | actions |
|---|---|
| `register`, channel found | `RegisterExisting`, `RegisterReturn`; `RegisterBadPattern` when `re.compile` raises |
| `register`, channel missing | `RegisterMissing`, then `BackendSubscribe`, `RegisterResume`, `RegisterReturn`, or `BackendRefuses` |
| `unregister` | `UnregisterCall`, then for an empty channel `BackendUnsubscribe`, `UnregisterReturn` or `UnregisterKeyError`; `UnregisterBadPattern` |
| `__call__`, the message | `Dispatch`, `Deliver`, `DeliveryFails`, `GatherReturns` |
| `__call__`, the sweep | `SweepNext` (takes the snapshot), `SweepChannel`, `BackendUnsubscribe`, `SweepReturn` or `SweepKeyError`, `DispatchReturns` |
| a connection that is lost | `Disconnect`, `Leave`; `Crash` inside the actions whose exception ends the handler |

The values of `_channels` are objects with an identity (`Objects`): the sweep may
hold one that the registry has replaced. The order in which the sweep lists the
channels is left open. A callback's `write` and the `close` that follows a failed
one are a single step. A failed callback stands for both handlers of
`ChannelCallback.__call__`: the connection is lost, or the message itself raises.

### PubSub

The state is the set of subscriptions and the set of connected clients.
`Channels` implements it with a broker that does not suspend, under the mapping
`subs` = every (socket, name, pattern) found in a registered channel.

### WsServer

Adds `Connect` and the `finally` of `get`, the queue between `ws_rpc_publish` and
the worker, and `LocalBroker.close`: `_stop`, `close_sockets` (`CloseStart`, one
`CloseSocket` for each handshake, `CloseReturn`), the wake-up message and the
wait for the worker (`Join`). Handlers, the worker and new connections go on
during all of it. A published message is in `queue` from the `call_later` on:
timers of equal delay fire in order.

### Paging and the two paginations

The database is external: `Select` is the set of all lists it may return, so that
rows that are equal in the order columns come in any order. A request of a client
is one action (`Get`) in `CursorPagination`, because it is one statement, and two
(`Count`, `Fetch`) in `OffsetPagination`, because the total and the rows come from
two, and PostgreSQL's default isolation shows each what is committed when it runs.

The server keeps nothing between requests. The variables are what the client's URL
holds (`limit`, `direction`, `request`, `page`), what the last queries returned
(`data`, `total`), and what a correct walk is measured against: the rows `shown`
since the client started or turned back, the rows `kept` in the table since it
started, and where it has been: the `trail` of the pages it left by cursor, and the
offset it started at. The client is the one of
`tests/pagination/utils.py`: `next` to the last page, then `prev` to the first.
`links`, `get_data`, `_count_part` and the other pure functions are operators of
the same names. A cursor's encoding is a round trip, so a cursor is its values.

### Database

A task is a request. A connection is named by the task and the depth of the block
that opened it, which is enough: a block at one depth is left before another opens
there. `frames` is the stack of blocks of each task; a frame records what its block
has to end: `opened` for `engine.connect()` or `engine.begin()`, `began` for a
transaction of its own. `writes` is what the transaction of a connection has
written, `tx` the connections in a transaction: SQLAlchemy begins one with the first
statement when nobody did.

| code | actions |
|---|---|
| `engine` | `Engine`: the one there is, or one more |
| `connection`, `transaction` | `Connection`, `Transaction`, which wait for a place in the pool |
| `ensure_transaction` (`ensure_connection` is the same) | `EnsureTransaction`: three cases, a new transaction, one begun on the connection given, or neither |
| `conn.execute` | `Execute`, which waits for locks |
| the end of each `async with` | `Leave`: commit, roll back, return to the pool, or nothing |
| a connection that cannot be made, or the timeout of the pool | `NoConnection`: there is an engine by then, and nothing else |
| `close` | `Close`: `dispose` leaves what is checked out alone |

PostgreSQL is external. It shows each statement what is committed (READ COMMITTED),
locks the rows that are written, and lets a writer of a unique value wait for the
transaction that is about to have it. The only column is a unique title.
`DbSpec` is what any application could do with a `Database`; each action of `SqlApi`
is one action of it with more conjuncts, or leaves its variables unchanged
(`EndpointsUseDatabase`).

### SqlApi and Store

The handler of a request is a value: the sequence of what it does, a block
with its body as one item. `DbSelect`, `CreateOne`, `UpdateOne` and so on build it as the
methods of those names call each other, with the `conn` they are given, so that a
missing `conn=conn` is a different value. The steps of the interpreter are
`EnterBlock`, `Statement`, `UniqueViolation`, `StatementFails`, `ConnectFails`,
`LeaveBlock`, `CommitFails`, `Local` (checks and dumps that do not await, which run
before anything else does) and `Answer` (the middleware). Any statement may fail with
an error of the server, a block that needs a connection may get none, at once or when
the timeout of the pool is over, and the server may refuse a commit, which ends the
transaction. The checks are those of the code in its order: the body is JSON (400), a
list where there should be one (400), there is a schema of the body or of the query (501),
which for a list is a container (an assertion, so 500), the body and the query are valid (422), and
so is the path (404). The `bad` of a request names the one that fails.

`Store` has no connections, blocks or locks: a request applies one of its `Outcomes`
in one step, or none, and is answered; a status below 400 needs the change to be
there, an error needs it not to be. The refinement maps the change to the commit
(`applied`). A 501 is exempt, because `create_one` finds out that there is no
schema for the response after the commit. `delete_list` may delete any of the rows:
those that another transaction puts in place of one it waited for are not seen.
`StoreAssumption` names what the promise depends on: an endpoint of two writes
(`replace`) has a `transaction` of its own, for without one they are two transactions
and nothing in the code claims more; on a plain `connection`, where each helper commits
by itself, nothing is raised after a write; requests insert rows that were not there;
200 is not a status of an error. The run evaluates it for its requests.

### SpecDoc

`__call__` puts the error classes in the work list, `BuildPath` adds one path (or
fails, with `validate_docs`), `NextRound` is the head of the loop of
`parsed_schemas`, and `Parse` is `dataclass2json` of one class. A class is parsed
under its `__name__` (`NameOf`). The order within a round is left open.

### Fields, Validate, TableSchema

Operators on values, which are pairs of a kind and a content. A text is a name with
a record of what Python reads in it (`Reads`): its length, a number, a moment, JSON,
a UUID. Numbers are counted in halves, so that 1.5 exists and rounding is half to
even. A validator is a record of its class and its limits, a field has a sequence of
them, and a call comes to `Ok`, `Invalid` (one `ValidationError`), `Wrong`
(`ValidationErrors`) or `Crash` (any other exception, answered 500). The operators
have the names of the classes and functions they model.

`validate` and `dump` call themselves for the types inside a type. In `Validate` they
are constants, `Validate` and `Dump`, with their bodies beside them, `ValidateType` and
`DumpType`, and `Contract.cfg` gives each constant its body: TLC computes the recursion,
and the proofs, which may not meet a `RECURSIVE` operator, assume of the two constants
that they are their bodies (`Unfolds`).

`Holds(col, x)` says which values a column has, and `IsTable` what is assumed of a table:
names of their own for its columns, and defaults that are values of theirs. Nothing in
the behaviour of the model depends on them; they are the assumptions of the proofs, which
TLC evaluates for the tables of `MCContract`.

`Refused` is what becomes of a row after validation: SQLAlchemy, the driver and
PostgreSQL refuse a null for NOT NULL, an integer beyond 32 bits (`Int32`), a number beyond
the precision of a NUMERIC column (`limit`), a text with the character NUL (`WithNul`), a
moment with a zone for a column without, and inside JSON what SQLAlchemy's serializer
cannot write. That is the parameter `Serializes`, for the same reason as `Validate`: the
run gives it `JsonDumps`, which goes down to the Decimals that a body is read with.

### Client and Contract

One service at a time, chosen at the start. Its document is built (`BuildDocument`),
and a client then creates one row or two (`Create`), and updates one or searches
(`Update`, `Search`): that is `Client`. A search is for a value that the client was
shown and that has a text in a query string (`HasText`), for that and the other row's, or
for null. `Contract` adds the document's
side: `ClassJson` is the JSON schema that the document has for a class; `Conforms` is
what a client's JSON Schema library makes of it. The properties compare the three
readings of a class: `Conforms` (the document), `ValidateClass` (the validators) and
`Violates` (the table).

## Runs

| run | question | bounds |
|---|---|---|
| `channels_sync` | Is the registry right, does it agree with the broker, and does it implement `PubSub`, when the broker does not suspend? | 2 sockets, 2 dispatchers, 3 names of which the broker refuses one, 2 overlapping patterns and one that does not compile, 2 events |
| `channels_async` | What is left of it when the broker suspends? | 2 sockets, 1 dispatcher, 2 names, 2 patterns |
| `ws_server` | Is the connected set right, and what does the shutdown leave behind? | 2 sockets, 1 worker, 2 names, 2 messages |
| `ws_server_live` | Are failed callbacks forgotten and messages taken, and does the shutdown end? | 2 sockets, 1 worker, 1 name, 2 messages |
| `cursor_walk` | Does a walk show every row that stays, once and in order, and the way back the same pages? | 5 rows, limits 1 and 2, both directions; nobody writes, or others insert, delete, or both |
| `offset_walk` | Do the links lead where they should, and does a walk miss nothing? | 4 rows, limits 1 to 3, offsets 0 to 6; rows are added at the end at any time |
| `sql_api` | Is a request atomic, answered, and readable when it fails, whatever meets it? | 3 requests from a catalogue of 14, 8 rows with 3 titles, a pool of 2, blocks 3 deep, 1 close |
| `contract` | Do document, validators, table and responses say the same? | 12 kinds of column, each with and without the defaults of the table, beside a nullable column with a default; 7 services without a table; 1 or 2 rows created, then one request |
| `unsafe_unregister` | (fails) Is removing a channel safe when the broker suspends? | 1 pattern, 1 event, otherwise as `channels_async` |
| `lost_subscription` | (fails) Does a subscription stay then? | the same |
| `cursor_fails` | (fails) Can the links of every page be computed? | as `cursor_walk` |
| `cursor_columns` | (fails) Is a walk by two columns complete? | as `cursor_walk`, two columns |

**Why these bounds.** Two sockets and two names are what the properties of the
registry need: every hazard here is a race of two tasks about one channel, or of a
sweep over two channels with whoever changes the second one while the first one
awaits. The third name of `channels_sync` exists to be refused. `Objects` bounds
the `Channel` objects of a name that are alive at once: at most one is registered
and one is in each snapshot, so `Cardinality(Workers) + 2` identities never run
out; with a broker that does not suspend a sweep is atomic, and one is enough.
`MaxPublished` is the only counter. A `Channel` object that nothing refers to is
garbage, and the view `Live` of `MCChannels` forgets it. Symmetry is used in the
runs without liveness. A walk needs three pages to have a page with both
neighbours, and limit 2 with five rows gives them with the last page full or not;
limit 1 is the boundary of every off-by-one in `get_data`. Offsets go past the end
of the table, where the page is empty and `_count_part` would be negative.

Three requests are needed for one that waits for a lock to hold a connection while
two others compete for the rest of the pool of two; two of them suffice for a
deadlock in PostgreSQL. Handlers nest three blocks deep at most: the endpoint's, the
helper's, and that of the count in a pagination. A second close would meet an
engine that has been replaced once more, which changes no decision in the code. The
first request is one of the four that change several rows, the second any one, and
the third an upsert of the title that is free, so that all three can want it.
In `contract` each column meets values of its type, at and beyond its limits, of
another type, missing, null and the text NULL; a search is for each value shown that
is a text or has one in `Texts`, with each operation, alone or with the value of the
other row, and for null. An integer of 32 bits is one from -10 to 10 there (`Int32`, in
halves), a NUMERIC column goes to 4, and of the larger numbers one is enough, which is
also the digits that are a UUID and make no date. A second row is what makes a list
differ from its members, and one request after the creation is enough because an
update or a search depends on the rows only.

`CHECK_DEADLOCK` is off because all these systems do stop: all clients may be gone
and the server shut down, a walk ends, and so does a session.

**What a pagination run assumes.** `cursor_walk` orders by a column that no two rows
share. With ties a `next` link may repeat rows, and with as many equal rows as the
limit it leads to its own page; nothing in the code asks for a unique column, and
nothing says that it need not be one. The walk back is complete while no row is
deleted (`WalkBackIsComplete`): a page back drops the row of its cursor, and drops
its neighbour when that row is gone. `offset_walk` has rows that are added after
the others only: an offset counts rows, so that any other write moves the pages,
and the code does not promise otherwise.

**What the failing runs show.** With a suspending broker the lookups of `register`
and `_maybe_remove_channel` are stale after their awaits: `NoKeyError` and
`SubscriptionsStay` fail, while `NoZombieChannel` holds. The broker of the tests
never suspends, and both hold with it. `links` reads `data[0]` of a page that has
become empty. A cursor over two columns is compared column by column, which is not
the order of the rows.

Three more things the models make plain, which no document of the repository
contradicts, so that they are no findings. A message is given to the first event
that matches it and to no other. A pattern that does not compile leaves an empty
channel registered, so that `NoZombieChannel` is checked and proved for patterns
that compile. A socket that connects while `close_sockets` waits for the others is
dropped from the set without being closed, so that `ConnectedSetIsRight` claims its
first half only until the shutdown.

**What `contract` and `sql_api` leave to the reader.** Their properties hold with
exceptions that are stated in them, where the code does something else:

- What no validator refuses and the database does is answered 500, also when the
  document allows it. `Breaks` lists these values, `StoredOrRefused` claims that
  there are no others, in a creation and in an update:
  - null, and the text `NULL`, which pass for any field (`collect_value`), also one
    that is required, for a column that may not be null;
  - an integer beyond 32 bits: the document says `int32`, the validator sets no
    bound; a number beyond the precision of its column, of which the document says
    nothing;
  - a text with the character NUL;
  - a fraction inside the value of a JSON column: the body is read with Decimals,
    and the engine has no serializer of its own that knows them;
  - a moment with a zone for a column of moments without;
  - digits for which the parser of dates raises `OverflowError`, and no
    `ValueError`.
- Null inside a list or a mapping comes back in the response.
- A body class without the defaults of its table loses the defaults of its columns
  in `create_list`, when another body of the list has the column.
- `dump` leaves out what is empty, required or not.
- A column of moments without time zones shows moments that are no `date-time` of
  RFC 3339 (`ZonesKept`).
- The text `nan` is read as a Decimal and shown as `NaN`. A number with bounds
  compared with a list or with NaN raises an exception that is answered 500; no
  column of the run has bounds.
- A 501 is HTML, and comes after the commit. A response that a handler returns
  with status 404, 405 or 500 is turned into a 500.
- A class that refers to itself makes `parsed_schemas` loop for ever,
  and of two classes with one name one is described.

Outside `Breaks` because outside the values of the model: a leap second or the year 0,
which RFC 3339 or PostgreSQL have and Python has not; a moment whose UTC is out of
range; constraints of a table other than those named above; the limits of aiohttp on a
body and of the interpreter on the digits of a number. A body that is a text is not
modelled where a mapping is made of it (`MultiDict`), and choices are a sequence, as all
those of the code are: a list looked up in a set of them would raise `TypeError`. A
text is a UUID for `Conforms` when Python reads it as one, with dashes or without, and an
integer is a number that is written as one, which 1.0 is not. In the model a UUID is the
text of its hexadecimal form, which is what its `dump` makes of it.

Seen in the code and outside the services of the run: a field annotated `float`
refuses 1.5 from JSON, which is read as a Decimal; a plain dataclass field with a
default, or `Optional`, is described as required or not where the validator decides
the other way; `true` is accepted for an integer; `search` is an operation in the
docstring of `default_filter_field` that does nothing; parameters made of one field
with operations lose their description after the first.

### Fairness

Two specifications state fairness. `SqlApi` asks weak fairness of "some task goes
on, or PostgreSQL breaks a deadlock": asyncio and the server do something as long
as there is something to do. That is enough for
`EveryRequestIsAnswered`, because requests are finite and every step of one brings
it closer to its answer; nothing is assumed about which task goes on, and nothing
about failures of statements, connections and commits other than that a deadlock ends
with one.

`WsServer` states `WsFairness`, for `ws_server_live`. It asks strong
fairness of every handler in the middle of an RPC, of the worker, of every closing
handshake and of the shutdown. The ready queue of asyncio is first in, first out: a
task whose await is done runs before tasks that become ready later, so one that is
ready again and again runs. Weak fairness would not be enough, because a task is
not enabled while another holds the loop. It is also assumed that the broker's
coroutines return, that a closing handshake is over, at the latest by aiohttp's
timeout, and that a write to a websocket succeeds or fails in the end; a client
that never reads blocks the gather it is in, which is listed as a hazard. Nothing is
assumed of the clients: they need not connect, send a request, or leave. The
paginations have no liveness property: that a walk ends is the action property
`CursorMovesOn`, since a client need not follow a link.

## Proofs

`Channels_proofs.tla` proves, for any sets of clients, dispatchers, names,
patterns and objects that satisfy `ChannelsAssumption`:

- `TypeCorrect`: `Spec => []TypeOK`.
- `ChannelsAreOK`: `Spec => []ChannelsOK`. It rests on `RegisterOK` and
  `RemoveOK`, which say that the operators of `Channel` keep one channel right, and
  on `ObjectSteps`: a step makes, registers on or removes from one object at most.
- `EmptyChannelsAreBeingRemoved`: `Spec => []NoZombieChannel` when
  `BadPatterns = {}`, even with a broker that suspends. `UnregisterCall` and
  `SweepChannel` are the only steps that empty a channel, and they leave a task
  that is removing it; `Pop` is the only one that takes that task away, and the
  channel with it. `NoZombieChannel` is inductive together with `TypeOK`.
- `RegistryAndBackendAgree`: `Spec => []RegistryMatchesBackend`, and
  `NeverKeyError`: `Spec => []NoKeyError`, when `~Yields`. Neither is inductive:
  both are about what a task finds when it is resumed. The invariant `SyncInv` adds
  `LoopInv`, which is about the tasks - one in the middle of an operation holds the
  loop (`HoldsTheLoop`), the snapshot of a sweep still is what the registry holds
  (`SnapshotIsFresh`), a task at an await finds its name as it left it
  (`NameIsAsFound`) - and that registry and broker agree about all names that no task
  is in the middle of (`OthersAgree`). The proof has one step for each action
  (`LoopStep`, `AgreementStep`).

`PubSub_proofs.tla` proves what clients see of it, for a broker that does not suspend
(`~Yields`; with one that does, the runs that are expected to fail refute it):

- `ClientInvariant`: `Spec => []ClientInv`, the strengthening the others need: whose
  request is being served is connected, the broker refuses no name it has accepted, a
  callback that failed is registered with nothing any more but what the sweep of its
  dispatch still has to visit (`SweptLeaveNoTrace`).
- `FailedAreForgotten`: `Spec => FailedLeavesNoTrace`. With a broker that suspends it is
  false: a registration that was waiting for the broker completes while the sweep, which
  has taken its snapshot, goes on.
- `ChannelsImplementPubSub`: `Spec => Implements`, the refinement of `PubSub`. The
  lemmas `HasAfterChange`, `HasAfterStore` and `HasAfterPop` say what each operation on
  a channel does to the set of subscriptions, so that every action maps to `Subscribe`,
  `Unsubscribe`, `Disconnect`, `Drop` or a stutter; `SyncInv` excludes a step on an object that the
  registry no longer has, and `ClientInv` a sweep of somebody who is connected.
- `OnlyTheOwnerUnsubscribes`: `Spec => SubscriptionsStay`.

`WsServer_proofs.tla` proves, for any clients, workers and messages, and a shutdown at
any moment:

- `WsInvariant`: `WsSpec => [](TypeOK /\ WsInv)`. A step of `WsServer` is one of
  `Channels`, or opens or closes a socket, or clears the registry while nobody holds the
  loop (`WsSteps`). The last one keeps `LoopInv`, since every task that holds a snapshot
  or waits for a name holds the loop; it breaks `OthersAgree`, which is why `SyncInv` is
  split and `NoKeyError` for a worker follows from the first part alone.
- `ConnectedSet`: `[]ConnectedSetIsRight`, `CloseIsQuiet`: `[]QuietAfterClose`,
  `WorkerIsNeverKilled`: `[]WorkerSurvives`.

`OffsetPagination_proofs.tla` proves, for any table, orders, limits and starting
offset that satisfy `PagingAssumption` and `OffsetAssumption`:

- `TypeCorrect`: `Spec => []TypeOK`, with the lemmas that a link is a page
  (`LinksArePages`) and that a window of a SELECT is a list of rows (`WindowType`).
- `LinksTight`: `Spec => []LinksAreTight`. The arithmetic is in the lemma
  `CountPartRight`: `_count_part` is the number of pages from the offset that end
  before the count, so that one more gets to it. `LinksAreTight` is about one
  state only and follows from `TypeOK` and that lemma.
- `LinksLead`: `Spec => []LinksLeadToEnds`. A chain of links is a recursive function;
  `NextChain` and `PrevChain` give its closed form, by induction over `Nat` as a set
  (`NaturalsIn`: the set of the numbers that lack a property has no least member, by
  `WellFoundedInduction`). `PagesAddUp` is the arithmetic of the last page.
- `WalkInvariant` and `WalksAreComplete`: `[]WalkIsComplete`, if the order tells all
  rows apart (`RowsAreOrdered`). A row then has a `Place`, the number of rows before
  it; the rows that were there all along keep theirs because others are added after
  them, and `FetchReads` says that a page has the rows of its places. The invariant says
  where the rows are that were not shown yet, and that the last page has all rows of its
  places: it is the first one of the way back. Without `RowsAreOrdered` the claim is
  false of the code: two statements may list equal rows in different orders.

`CursorPagination_proofs.tla` proves, for any table, limits, and inserts and deletes
between two requests, when `order_by` is one column and no two rows share a value in
it (`OneUniqueColumn`; `cursor_columns` refutes it for two columns):

- `WalkInvariant`: `Spec => [](TypeOK /\ WalkInv)`. With one column the order is that
  of the numbers (`Places`), so that a cursor cuts the table in two. On the way there
  the extra row, with which the next page starts, has everything shown before it and
  everything not shown yet from it on; on the way back the same holds of the first row
  of the page shown last. `AnswersForward` and `AnswersBack` say what the query of a page
  returns, `GetData` and `links` included.
- `WalksAreComplete`: `[]WalkIsComplete`; `WalksBackAreComplete`:
  `[]WalkBackIsComplete`; `PagesAreInOrder`: `PagesInOrder`; `CursorsMoveOn`:
  `CursorMovesOn`. All four follow from `WalkInv` and what a request answers.

- `WaysAreTheSame`: `Spec => WayBackIsWayThere`. The invariant it needs is `OnTrail`: as
  long as nobody writes, the pages of the trail are full and lie one after the other, from
  the first row of the table to the page the client has (`PageBefore`), and each has the
  link to the next one's first row. A page back from that row is the last one of the trail
  (`ReturnsPage`): up to the first place where the two differ they have the same rows, and
  neither skips one.

`CursorAssumption` says that `None` is no list of numbers: no cursor is mistaken for
no link.

`Database_proofs.tla` proves, for any requests, rows, titles, pool and depth that
satisfy `DatabaseAssumption`, and for any application of a `Database`:

- `DbTypeCorrect`: `DbSpec => []DbTypeOK`.
- `BlocksOwn`: `DbSpec => []BlocksOwnWhatTheyOpened`, which is inductive together
  with `DbTypeOK`. A frame is the only one at the depth that names its connection,
  and is gone when another opens there; a task changes its own frames only.
- `OneEngineAtATime`: `DbSpec => []OneEngine`. It is not inductive, since a close
  would allow one engine more than there can be: the invariant is that every engine
  but the one in use has been closed.
- `CallerHasTheLastWord`: `DbSpec => CallerDecides`. Two frames that began a
  transaction of one connection would be one, so the frame that is left did not.
- `TitlesStayUnique`: `DbSpec => []Isolated`, from a table that starts with unique
  titles (`InitialAssumption`). What is committed and what each transaction sees has
  unique titles; that is inductive only with what locks are for: a row is written by
  one transaction (`RowLocks`), and a title that one has written is neither given nor
  taken by another (`TitleLocks`). It is what the endpoints may rely on when they
  commit rows they found a few statements ago.

`SqlApi_proofs.tla` proves, for any requests that `ApiAssumption` allows:

- `ApiInvariant`: `Spec => []ApiInv`. What is left of a handler is a stack of lists of
  steps, one more than the blocks it is in (`Stack`). `Inside` is what may run in a
  block - every helper there is given the connection - and `Outside` what may run outside
  of all; `MethodSteps` and `HandlerSteps` show which of the two each method of
  `SqlApiPath` and `CrudDB` is made of, with the connection of a caller and without.
- `EndpointsUseDatabase`: `Spec => DbSpec`, a refinement step by step, and with it
  `DatabaseUnderEndpoints`: everything above about `Database` holds under `Spec`.
- `WaitingTasksHoldNothing`: `[]WaitsHoldNothing`: what opens a connection is `Outside`,
  so that the task is in no block.
- `ErrorsAreJson`: `[]EveryErrorIsJson`, for any set of statuses that has 404 and 500,
  as the default of `json_error` has.
- `RequestsAreAtomic`: `Spec => Implements`, the refinement of `Store`, for any requests
  that `StoreAssumption` allows too. The invariant `StoreInv` says of each task where it
  is and what its transaction has written there (`Served`): a method that writes is one
  of a few lines of steps (`StartLine`, `RanLine`, `SecondLine`, `End`), and at each of
  them its pending writes are none, those of the first statement (`Ran`, `Half`) or all
  of them (`Whole`); `MethodStarts` shows that the methods of `SqlApiPath` and `CrudDB`
  are such lines, in a block of the endpoint and without one. A method that only reads
  has written nothing (`Reading`). `Kept` shows that other tasks disturb none of this:
  they leave its rows alone, by `Isolated` and by `FreshOK` (the rows a task will
  insert are free until it commits). Leaving a block is then a stutter or the one
  `Apply` of the request (`CommitIsApply`), an answer is a `Reply` whose status agrees
  with what was committed (`AnswerIsReply`), and every other step is a stutter. What
  breaks - a statement, a connection, a commit - leaves the table alone, and a task that
  breaks had committed nothing before (`Broken`, `WriterBreaks`), so that the error it
  is answered is true.

`Client_proofs.tla` proves, for any services and classes that satisfy
`SpecDocAssumption` and `SpecDocTypes` (a type refers to classes):

- `DocTypeCorrect`: `DocSpec => []DocTypeOK`.
- `EveryReferenceResolves`: `DocSpec => []ReferencesResolve`. The invariant
  `SchemasReferred` says that every class that was referred to is parsed, or in the
  round, or waits for the next one; when the loop stops the last two are empty. It needs
  no assumption about cycles: that the loop stops is not claimed by it.
- `ClientReadsOneDocument`: `ClientSpec => DocSpec`, a refinement: what is proved of the
  document holds of a service that is in use.

and, for any tables and for any classes made of their columns (`ClientAssumption`), any
texts (`ReadsAssumption`: what is read in a text is written so that it reads the same,
and UTC is a time zone) and any bodies of JSON values:

- `ListsStoreAlike`: `ClientSpec => []ListStoresWhatOneWould`. `ClassValidated` says what
  a validated body is: it has a column exactly when the body had it or a default was
  filled in. With the defaults of the table in the class, a column that a record lacks
  has none, so that the null with which `InsertMany` fills up is what the column would
  get anyway (`AsOneWould`). It needs nothing of what a field makes of a value.
- `WhatIsSentIsTouched`: `UpdateTouchesWhatWasSent`, and `WhatIsShownIsRead`: `RoundTrip`.
  Both, and the next one, assume `Unfolds`, that `Validate` and `Dump` are their bodies,
  for types that are not classes: the recursion goes down to the type inside a type, so
  that such functions exist, and the run is of them. The argument is three lemmas about
  each kind of column. `AcceptedHolds`: whatever its field accepts is a value of the column
  (`Holds`). `ReadBackHolds`: what PostgreSQL gives back of such a value is one too, which
  is written and read again unchanged. `Resent`: its dump is accepted as the same value;
  a number that was rounded is round, a moment in UTC stays, and the text of a UUID or an
  enum reads as it. The inductive invariant `RowsAsStored` says that every row
  is of such values and that the client was answered with the dump of the first.
- `WhatIsShownIsFound`: `ClientSpec => []SearchFindsWhatIsShown`, for any query class whose
  fields are of the table's columns, with operations of their own and without a default
  (`IsOfSearch`; the field and the operation of a parameter's name are `Split`).
  `TextIsRead` adds to `Resent` that a value which is no text, and is sent as one in a
  query, is read from it as the same value. `SearchedIs` and `SearchValuedIs` take this
  through the validation of a query, whose parameters may be given twice: the record has
  the value of the row, or a list that begins with it. A value is equal to itself and not
  less than itself (`SameAsItself`), so that the row is found with `eq`, `ge` and `le` and
  with no other operation. Of SQL it needs only that no text or moment precedes itself,
  and of a value's text that it reads as the value (`TextsAssumption`).

Only model-checked: `StoredOrRefused`, `ResponseIsPublished` and `DefaultIsKept`, where a
class's JSON schema is built and read by recursive operators (`TypeJson`, `Conforms`) for
which TLAPS has no backend, and which are about services without a table too, whose
nested classes would take an induction over types; and everything about liveness, which
the prover does not do. The proofs about the registry with `~Yields` do not extend to a
broker that suspends: the claims fail there.

## Not modelled

Decoding, validating and encoding a websocket message (a request is a valid RPC); the
translation of a pattern to a regular expression; `subscribe_to_event` as anything
but an await; the reply to an RPC, which is written in the step that ends it; the
RPCs that do not touch the registry; a cursor or an offset that the server did not
hand out, which validation refuses or passes on; search filters in a walk.

Of the database parts: `connection` as an endpoint might use it to write by itself
(`Database` allows it, no endpoint does); an upsert without data; tables without a
unique column, for which `db_upsert` may insert twice, or update several rows, commit,
and then raise `MultipleResultsFound` from `one_or_none`: by a unique title it finds one
row at most; a commit that the server did and whose reply is lost, after which the
client is answered 500 and the change is there; the cursor that `db_paginate` refuses
with a 422, which is the `query` that is not valid here; isolation levels other than
the default; synchronous operations. Of the data parts: hooks of an application
(`validate`, `post_process`, `filter_<field>`, a column's `data_field`), messages of
errors, tags, security and servers of the document.

The command line, migrations, Sentry, Redoc and the test support are start-up code or
thin wrappers of libraries, with no state and no interleaving of their own.
`PROJECT.json` lists every component with its status.

## Plan

Done: the registry, the broker, the shutdown, both paginations, the database with
the endpoints on it, the document and the validation. What could follow:

1. Pattern translation against a reference matcher over short patterns.
2. The messages of the websocket RPC, which are validated by `Validate`.
