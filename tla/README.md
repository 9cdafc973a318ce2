# A verification development of the pygridgain thin client

pygridgain is a client of GridGain/Apache Ignite clusters. It keeps one TCP
connection per configured node address, negotiates a protocol version on each,
sends each cache operation to a node that it believes to hold the key, and
reconnects behind the application's back when nodes go away. There are two
clients, one that blocks (`Client`) and one for asyncio (`AioClient`).

## The parts of the system

| Part | State it keeps | Operations | What is hard |
|---|---|---|---|
| asyncio connection (`connection/aio_connection.py`) | `_transport`, `_closed`, `failed`, `_pending_reqs`, `_transport_closed_fut`, a handshake future per protocol | connect, reconnect, close, request; data, made and lost callbacks | coroutines interleave at each await and share the fields; a timeout races an answer; a callback of an old transport arrives after a new one exists; a request is cancelled |
| blocking connection (`connection/connection.py`) | `_socket`, `failed` | connect, reconnect, close, send, recv | a failure in `send` or `recv` reconnects and then raises; the version fallback re-enters the handshake; a node answers, refuses or drops at each step |
| protocol context (`connection/protocol_context.py`, `handshake.py`, `bitmask_feature.py`) | version and features, one per client | negotiated by each handshake, read by each request | one context for all connections |
| blocking client (`client.py`) | `_nodes`, `_current_node`, affinity version, cluster-wide `protocol_context`, `_affinity`, binary registry | connect, close, random_node, get_best_node, register_binary_type, ... | some nodes answer and some do not; one handshake's failure changes what the others use |
| asyncio client (`aio_client.py`) | the same, two mutexes | the same, as coroutines | reconnections gathered over all nodes; state read before an await and used after it |
| partition awareness (`client.py`, `api/affinity.py`) | the partition mapping of each cache, the affinity version | update on a newer topology, key to partition to node | the version runs ahead of the mapping; arithmetic on 32-bit hash codes |
| requests (`queries/`) | the query id counter | perform, parse the header, note a newer topology | ids at the end of their range |
| transactions (`transaction.py`, `api/tx_api.py`) | the current transaction of a context (a contextvar), its `closed` flag | start, commit, rollback, close | nested and concurrent transactions share a context variable; the flag is set before the request |
| cursors (`cursors.py`) | cursor id, page, `more` | next page, close | concurrent consumers, a session that was lost |
| caches (`cache.py`, `aio_cache.py`, `api/key_value.py`) | cache id, settings, affinity of the cache | the key-value operations | routing of each operation to a node |
| binary types (`binary.py`, `api/binary.py`, the registry of `client.py`) | schemas by type and schema id | register, query, synchronise | lookups race the registration |
| events (`monitoring.py`) | listeners | publish | one listener fails among several |
| serialisation (`datatypes/`, `stream/`, `cext/`, `utils.py`) | none, save cached buffers of objects | to and from bytes, hash codes | 32-bit arithmetic in two implementations |

Components interact through calls, except that (1) the event loop delivers
network events to the asyncio connection, (2) every connection of a client
reads and writes the client's `protocol_context`, (3) a response with the
topology-changed flag raises the client's affinity version, which every later
`get_best_node` reads, and (4) the current transaction travels in a
context variable read by every cache operation.

What makes each part correct:

- *asyncio connection*: each request is resolved once, in its own session; alive
  means that a handshake succeeded on the present transport; what `close` has
  ended is not brought up again by what it overtook; every call returns.
- *blocking connection and client*: a reply is read for the request it answers;
  an operation fails only when no node could be used; one node's failed
  handshake changes nothing for the others; every call returns, or waits in the
  one place where nothing ends the wait.
- *protocol context*: no request is encoded in a version that its session did
  not agree to.
- *partition awareness*: no mapping is older or newer than its version says; the
  mutex is always released; an operation that is sent without looking for the
  owner of its key has a reason to.
- *transactions*: an operation runs in the transaction its caller is in; a
  transaction ends once, as asked, and its caller is told how it ended.
- *cursors*: no row twice, every row of the right query, all of them in order for
  one reader; nothing stays open.
- *caches*: an operation reaches the node that owns its key, or any node, with
  the settings of the cache.
- *binary types*: every schema that is written is known to the cluster; what one
  coroutine registers the next finds.
- *events*: every listener hears every event.
- *serialisation, hashing*: what is written is read back; both implementations
  of a hash agree with the cluster's.

## Modules

| Module | Models | Role |
|---|---|---|
| `RequestChannel` | what a coroutine that awaits a request relies on | abstract specification |
| `AioConnection` | `connection/aio_connection.py` and the base class in `connection/connection.py` | implements `RequestChannel` |
| `AioPool` | `aio_client.py` (connect, close, random_node), the reconnections beside them | composes the connections of a client, each attempt reduced to where it waits |
| `SyncClient` | `client.py` (connect, close, random_node) composed with the `Connection` of each node | composition of two components |
| `Transactions` | `transaction.py`, `api/tx_api.py`, and how caches read the context | |
| `Affinity` | `get_best_node`, the partition mappings, what responses tell of the topology | |
| `Cursors` | `cursors.py`, paging and closing in `api/sql.py` | |
| `BinaryTypes` | the registry of classes, `binary.py`, `datatypes/complex.py` and the lookups of `aio_client.py` | |
| `CacheMap` | what a cache promises: a map | abstract specification |
| `Stream` | `stream/binary_stream.py`, the buffer | operators |
| `Contexts` | `connection/protocol_context.py`, `bitmask_feature.py`: versions, features, what each context has | operators |
| `Headers` | what precedes the data of a message: the headers of `queries/query.py` and `queries/response.py`, `queries/cache_info.py` | operators, on `Stream` and `Contexts` |
| `DataTypes` | `datatypes/` and the layout of objects in `binary.py`, values to bytes and back | operators, on `Stream` |
| `Messages` | the rest of `queries/`, `connection/handshake.py`, the bytes of a feature mask | operators, on `DataTypes` |
| `Api` | `api/`: each function as its code, its fields, its answer; the properties and configurations of caches (`datatypes/cache_*.py`) | tables, on `Messages` |
| `Caches` | `cache.py`, `aio_cache.py`: each method as a function and how its result is unwrapped | tables and operators, on `Api` |
| `Node`, `Seen` | external: a node that reads and writes the same bytes; its entries as the values they hold | environment and refinement mapping |
| `Handshake` | the handshake of a connection with its fallback, loss, the node replaced by another version; the layout in bytes is a parameter | |
| `QueryEvents` | what the listeners hear of a query (`Query.perform`) | |
| `Session` | one client and one node: the connection of `Handshake` in the bytes of `Messages` and `Node`, calls with the events of `QueryEvents` | composition; implements `CacheMap` |
| `MC*` | constants, symmetry, bounds | instances for TLC |
| `*Proofs` | theorems of the module before the suffix | checked by TLAPS |

To check a run: `tlc -workers 2 -config AioSafety.cfg MCAioConnection`; to
check a module of proofs: `tlapm AioConnectionProofs.tla`.

Each definition that a comment calls a mutant is a plausible mistake in one that
follows. It is not part of the specification: put in its place it must make a
run fail, which shows that the properties see the code behind it. `PROJECT.json`
lists which replaces which.

### AioConnection

A task is a coroutine, `pc` the await it is suspended at; what runs between two
awaits is one action, because nothing else runs on the event loop meanwhile.
The application's coroutines (`Caller`) run `connect`, `reconnect` or `close`;
the task that `process_connection_lost` creates for a transport is named after
that transport. `Start` is what runs before the first await, `Resume` what runs
after each, for every result the await may have: `Refused`, `Connected`,
`HandshakeTimeout`, `HandshakeOk`, `HandshakeRejected` with the version fallback,
and so on. `ConnectionLost`, `PeerClosed`, `HandshakeReply` and `Response` are
the callbacks of the protocol object. A request's future and its entry in
`_pending_reqs` are separate (`fut`, `registered`): `request` removes neither
when its task is cancelled. Query ids are taken to be distinct. What a handshake
negotiates is three-valued (`ctx`): nothing, the newest version, or the version
that a node asked for.

`close()` may be called while an attempt to connect is under way. An attempt
clears `_closed` at its head and before each fallback (`aio_connection.py:216`);
`PastReopening` says of a task that it has that behind it, and `CloseOutlasts`
that a connection which is closed while all attempts are past it stays closed,
however their handshakes end, until the application connects again.

The refinement maps each transport to a session of `RequestChannel`, which is
over once `connection_lost` has run for it, and each future to an outcome. A
cancelled request is outside what the abstract specification promises, so the
refinement is checked and proved for `Cancellable = {}`.

### SyncClient

One thread, so `pc` says which blocking call it is in and `then` where
`Connection.connect` returns to. The nodes are the environment: between any two
blocking calls they stop, start again with another protocol version, or drop a
connection. A socket is `broken` when the peer is gone and the client has not
noticed. The loops over `_nodes` (`connect`, the reconnection of a partition-aware
client, the scan of `random_node`) are taken one attempt at a time with their
index `i`. `steady` is a history variable: the nodes that could have been used
since the operation began. A query stands for any operation. `timeout` says
whether the application gave the socket a timeout: by default there is none, and
the `send` or `recv` of a request then ends only when the other side does
something. A handshake has a timeout of its own.

### Transactions

A task's context variable is `ctxId` and `ctxConn`; `Spawn` copies it to a new
task, as creating an asyncio task does. `closed` is set before `tx_end` is
called, and the request, the service at the node and the answer are separate
steps, between which the session can be lost or the transaction time out. A
node's id of a transaction is any that the present session has not given yet
(`Fresh`): nodes and sessions number their transactions independently, so that
ids repeat. `latest`, `ender`, `ends`, `told`, `reached` and `mistaken` are
history variables; `mistaken` are the transactions that a task took for each
other by their id when it ended one while it was in the other, which the check
of `tx_end` lets pass. The properties name this case instead of excluding it.

### Affinity

A mapping is the topology version it was computed for. The caches of
`Applicable` are those whose keys have owners by the answers of the nodes; the
mapping of any other cache is loaded like theirs and has no partitions, so that
`Route` sends the operation to the random node. Calls may be on a cache that was
never registered: to look for its mapping makes it known with an empty one
(`LookUp`), as the `defaultdict` does. `queue` holds the owner
of `_affinity_query_mux` and those who wait for it, in their order. `Call`,
`Ask`, `Answer`, `Refused`, `Retry`, `Choose` and `Finish` are the stretches of
`get_best_node` between its awaits and of the operation that follows; `Register`
is `get_cache`, which empties the mapping of a cache that is already there.
Nodes learn of a new topology one after the other, and the answers of one
session carry versions in order. A node answers for all the caches it is asked
for.

### Cursors

A query is held by the node under an id of the session, as its cursor and its
next row; `Page` and `Serve` are what a node does with a request for a page. The
ids of a new session begin again. `Enter` and `Connected` are `__aenter__` or a
constructor, `NextRow`, `NoNextRow` and `NextPage` are `__next__` and `__anext__`,
`Close` and `Closed` are `close`. Between the service of the node (`Opened`,
`Paged`) and the step that takes the answer (`Initialized`, `PageTaken`) the
client decodes it, across awaits that may look up types: other tasks run
meanwhile, answers are taken in another order than the node gave them, in a later
session, or not at all when decoding fails (`DecodeFailed`, for the cursors of
`Objects`, whose rows hold binary objects). The scan, SQL and vector cursors do
the same; the asyncio cursor of SQL fields differs in when it opens its query
again (`Unopened`). `returned`, `opened`, `shared`, `failed`, `missed`, `session`
and `outlived` are history variables that the properties use to say which
cursors they are about.

### AioPool

`AioConnection` looks into one connection; here there are all of a client's,
and of each attempt to connect one only keeps the await it is in: `attempt` has,
for each owner and node, `closing` (the old transport's loss is awaited),
`opening`, `shaking` (the handshake), `shutting` (`close`), `created` (a task
that has not run), `broken` (somebody closed the transport under it) or its
result. Owners are the coroutines of the application and `Background`, the
owner of the reconnections that a loss or a loaded mapping starts. `Begin` is
what `connect()` or `reconnect()` of some nodes does up to its first await, and
`Shut` the same for `close()`. `Connecting`, `Opened`, `Gathered` and
`Regathered` are `_connect` between its awaits, `RandomNode`, `Leaving`,
`Scanning` and `Reviving` are `random_node`, `Close` and `Closing` are `close`.
`detecting` are the attempts that found no protocol context and take it away
again when they fail. A transport that a second attempt overwrote stays open
(`orphan`), and when it is lost at last, the connection is marked failed.
`steady` is a history variable as in `SyncClient`, from which an owner's nodes
also drop out when another owner closes their connection.

### BinaryTypes

A task works off an `agenda`: writing an object is to register its class, write
its header, write the object in its last field, write its footer, and each of
these may suspend the task. `mux` and `queue` are the mutex of the lookups. The
bytes of an object are a record of what they were made from: its fields, the
bytes of the inner object, the footer style of the header and of the footer.
The metadata of the cluster is a set of type and schema, which other programs
extend. The blocking client is the case of a single task.

### Stream, Contexts, Headers, DataTypes, Messages, Api, Caches

These have no state of their own. A byte is `<<v, i, w>>`, the i-th of the w bytes
of v: a reader that starts at the wrong place or takes the wrong width gets
`Junk`, and equal bytes are equal values. A type is a tuple of the name of its
class and its parameters; `FromPython` and `Decode` are two recursive operators
over the classes of `datatypes/`, which a table (`Class`) gives their kind, their
element and their type code. A function of `api/` is a row: the code of the
operation, the fields that follow the header, the fields of the answer, and the
one that post-processing takes. A method of `Cache` and `AioCache` is a row: the
function, whether the node is chosen by key, what is unwrapped. The `_async` twin
of a function differs in its awaits alone and is the same definition.

### Handshake, QueryEvents, Session

`Handshake` is the connection: `Connect`, `NodeAnswersHandshake` and
`FinishHandshake` are the handshake with its fallback, `LoseHandshake` and
`LoseConnection` the losses, between any two steps, and `Replace` puts a node of
another version at the address, as a rolling upgrade does. Its state is that of
the client's context (`ctx`, `detecting`), of the connection and of the node. The
layout of the messages is given by five operator constants, of which it assumes
that each side reads the version and the features that the other writes
(`LayoutAssumption`). It assumes nothing of credentials: those that are not
ASCII do not arrive, because the declared length of the handshake counts
characters, and a node that asks for credentials (`Logins`) then refuses.
`QueryEvents` is the control of `Query.perform`: each way in and out of it, and
what the listeners hear, at the DEBUG level of the logger and at any other
(`debug`).

`Session` puts them together with one caller. Its variables contain theirs; it
gives the layout of `Messages` and `Node` for the constants of `Handshake`
(`RequestBytes`, `ReadAnswer` and so on), and each of its steps is written as a
step of each of the two or leaves their variables alone: `Connects`,
`Handshakes`, `Lose` and `Replaced` are those of `Handshake`; `Invoke` writes a
request (`Started`, `Unwritten`, or nothing is sent: `Refused`,
`AnsweredLocally`), `Serve` is the node (`Answered`), `Return` reads the response
(`Succeeds`, `Fails`), and while they run the connection only talks (`Talk`).
The node (`Node`) reads the bytes itself, keeps keys and values as bytes and
compares them as bytes.
`CacheIsAMap` is the refinement to `CacheMap`, under which the bytes that a node
stores are mapped to the types and values that they hold (`Seen`), the call under
way to the operation it asks for, and what the caller gets to the map's answer.
It is what makes a wrong hint, offset, type code or post-processing visible.

## Runs

| Run | Instance | What it shows |
|---|---|---|
| `aio_safety` | 2 application coroutines, 2 transports, 2 requests, the first may be cancelled | no request is orphaned but behind a cancelled one; an alive connection has a protocol context; `close` outlasts the attempts to connect that it overtakes after their last reopening |
| `aio_live` | 1 application coroutine, 2 transports, 2 requests, fair | every request is resolved, every call returns, and each step of the connection is one of `RequestChannel` |
| `aio_cancelled_request` | as above, the first request may be cancelled | *violated*: a request behind a cancelled one may wait for ever (`aio_connection.py:192`) |
| `pool` | 2 coroutines, 2 nodes, one of which may reject the credentials, 3 calls, 1 event, fair | who gives up had no node to use; no alive connection loses the context; every call returns |
| `sync` | 2 nodes, one rejects the credentials, 2 versions, partition-aware once the nodes are new enough, with a socket timeout and without, fair | the shared context is under every live session and not newer than any; no usable node is overlooked; replies stay in step with requests; operations return, or wait in the `send` or `recv` of a socket without a timeout |
| `tx_shared` | 3 tasks, 3 transactions, 2 connections, 1 loss, nesting, ids that repeat over nodes and sessions | one end per transaction, operations inside it, the context released, a commit that was answered was made, except where one transaction was taken for another of its id |
| `tx_foreign` | 2 tasks, 2 transactions, 2 connections that number alike | *violated*: a task's commit of another's transaction ends its own (`tx_api.py:82`) |
| `affinity` | 2 coroutines, 2 caches of which one has owners for its keys, 2 nodes, 2 topology versions, 2 tries, 1 loss, fair | versions in order, what a task loads is still to be loaded, blind sends have reasons, calls return |
| `affinity_stale` | 1 coroutine, 2 caches, 2 nodes, no loss | *violated*: one mapping's version is taken for that of all (`client.py:275`) |
| `cursors` | 2 tasks, a scan of three pages and SQL fields of two, of which the latter may fail to decode, 2 ids per session, 1 loss | a cursor's rows are its own, none comes twice, they are complete at its end, and nothing is left open |
| `binary` | 2 tasks, a person that holds a city, a class without fields, 3 calls, 1 change, fair | what is sent is known to the cluster; kept bytes are current; no class is dropped or asked for twice; calls return |
| `session` | 4 clients, one with credentials that are not ASCII, 5 nodes of four layouts, 1 replacement, values of every class | both sides agree on the session, each reads what the other writes, settings read back, every query is reported, a cache is a map |

Why the bounds are enough to meet the interesting cases. Two transports are a
connection and its successor, which is what a late callback needs. Two requests
are one that is stuck and one behind it. Two nodes are one that works and one
that does not. Three transactions and tasks are an outer and a nested one and
another task's. One change of topology while another mapping is being loaded is
all that separates the versions of two mappings. A cursor of three pages is the
smallest of which two tasks can read the second and the third page at the same
time, and take them in either order; one lost session is the one whose ids the next repeats.

`pool` allows three calls, which are a `connect()` and two that overlap, and one
event of the environment (a node that stops, a transport that is lost, a mapping
that is loaded). All nodes run at the start, because a node that runs may still
fail to answer; and the coroutine that connects is always the same, because the
two are alike. `binary` allows three calls and one change of a field: two tasks
that meet in the registry and one more call that uses what they left. `session`
calls what the state makes interesting (`Offered`): a sample of each class of
data is put and then read by each method that reads; a cache with a
configuration of its own is only asked for it; a transaction or a policy sees
four operations. Its numbers and texts are few, chosen at the edges: offsets of
a footer at the last one that takes a byte, empty and non-ASCII texts, negative
scales. For the safety properties that are theorems the bounds are gone
altogether.

`CHECK_DEADLOCK FALSE` is used where the instance bounds what is called, so that
in the end there is nothing left to do: `tx_shared`, `tx_foreign`, `binary` and
`pool`.

### Fairness

`AioConnection` assumes weak fairness of each coroutine that can resume (the
event loop), of the delivery of `connection_lost` (the loop's contract with
transports), and that each written request is answered or its connection breaks.
Nothing is assumed of how a node answers a handshake, as the code has a timeout
there, and nothing makes the application call anything. `SyncClient` assumes that
the thread runs, that a handshake ends by `handshake_timeout` at the latest
(`connection.py:232`), and that a `send` or `recv` ends if the socket has a
timeout; nothing is assumed of one without, which is the default
(`connection.py:184`), and `OperationsReturn` says where an operation may then
wait for ever (`Blocked`). The environment need not do anything. `Affinity` assumes that a task that can
run does so and that a query is answered or its session ends, which the
properties of `AioConnection` give it. `BinaryTypes` assumes the same of its
tasks and requests, and nothing of the calls, the changes of fields or other
programs. `AioPool` assumes that a coroutine that can run does so, that a created
reconnection starts, and that what an attempt waits for comes or times out
(`handshake_timeout`, one second for a closed transport, the connection timeout
of the system); nodes need not do anything. Its instance assumes weak fairness of
all of these together, which is less, and enough where calls and events are
bounded. There is no strong fairness: a mutex is the queue that `asyncio.Lock`
is.

## Theorems

Each holds for every value of the constants that the named assumption of the
module allows: any number of requests, transports, nodes, versions, tasks,
transactions, caches, cursors, objects and classes. All but three are of the form
`Spec => []P` or `Spec => [][A]_vars` and follow from the inductive invariants of
their module; the three are about what the headers of messages are read as.

*AioConnectionProofs.* `NoOrphanRequest` is made inductive by: a registered
request was written to a transport (`SentInv`), and a transport that is being
opened is awaited by one task only (`AttemptInv`), without which a refused
attempt could end a transport that requests wait on. `ContextInv` says when a
connection that is not marked failed has no context. `CloseWins` and
`Implementation` are about steps. The first goes
through every resumption of an attempt that was overtaken and shows that none
leads back to where `_closed` is cleared; the latter is that each step of
`AioConnection` is one of `RequestChannel` or changes none of its variables,
provided that nothing is cancelled, which is also what `NothingIsStuck` is about.

*SyncClientProofs.* `LoopInv` ties the loop indices to the size of the pool and
the place of the thread; on it rest the types. `ContextInv` is the argument about
the shared context: the attempt that may take it away runs only while no
connection is alive. `ReplyInv` counts unread replies. `NoNodeIsOverlooked` needs
three invariants for the three loops (`ConnectInv`, `ReviveInv`, `ScanInv`):
nodes that the loop has passed are not steady, or are alive.

*TransactionsProofs.* A transaction is closed before its request is made, so one
task at most makes one (`EndInv`); this task has it in its context until the
request is over (`CallInv`). Nothing is assumed of ids but that a session does not
repeat them. A context is that of the latest transaction of its task, and of the
session of this while that lasts, and a request is for the latest transaction
unless that was mistaken for another (`CtxInv`): hence `OperationsStayInside` and
`ContextIsReleased`. A request that was served has reached a transaction and ended
it as asked, and this is the one it was made for but for two exceptions (`Done`,
for `AnsweredCommitIsDone`): it was mistaken for another of its id, which
`tx_foreign` shows to happen, or its session is over.

*AffinityProofs.* Only the head of the queue asks (`HeadInv`), so the mutex is
never released by another; what a session told is known (`ToldInv`), and an
answer tells its version before its mappings are taken, so no mapping is ahead.
What is asked for can be loaded by the head alone, so that it is still to be
loaded when it is refused or the node is lost (`NothingIsLoadedTwice`); a mapping
that is there for a cache with owners sends the operation to the hash code, which
leaves the four reasons of `BlindSendsHaveReasons`.

*CursorsProofs.* The ids of a session grow, so no two queries of a session share
one: the id of a cursor that was opened in this session is held for its query or
for none, and a request keeps that id even when another task opens the cursor
again meanwhile (`IdInv`). A cursor of an earlier session may hold any id, which
is why `OwnRows` leaves out those that ask with it, and only those. On top of
that come the rows (`RowsInv`). When one query at most was opened for a cursor, the
node holds it once at most (`FreshInv`), and the pages that tasks decode, the page
that the cursor keeps, the rows that were returned and what the query has left
have no row in common (`OnceInv`): so pages may take each other's place in any
order (`RowsOnce`). While one task at a time uses the cursor (`ShareInv`), what the
node holds of it has its id and more pages to come (`SoloInv`, for
`NothingLeftOpen`), and the rows that were returned and those of the page are all
the rows up to the next page (`CountInv`, for `EndIsComplete`).

*AioPoolProofs.* The core is when the context is `Settled`. It is given up only
by the attempt that found none, which is one of `connect()`: that one opens one
node after the other and alone, so meanwhile nothing reconnects and no transport
is ready. No alive connection can lose its context (`ContextInv`, for
`AliveHaveContext`), and a node that was tried in vain is not steady any more
(`ConnectInv`). Once settled the context stays, and `random_node` has the whole
pool before it: its list covers the pool whatever the order it is shuffled to
(`OrderCovers`), a reconnection of a steady node goes on until the node is alive
(`ReviveInv`), and what the scan has passed is not steady (`ScanInv`). That gives
`GivesUp`. The proof has one lemma per step and two that join them: `NetRest` for
the steps of the network, `StepDone` for those of a coroutine, which leave the
parts of the invariant that belong to the others as they are.

*BinaryTypesProofs.* Three layers. The agendas are `Valid`: a put follows the
query of its class, an assign its put, a header the assign of its class, a
request the object it sends, and before the footer of an object come only its own
steps and those of the object in it. The registry: an assign comes after the
class was found at the cluster or put there, so the cluster has every key of the
registry (`RegistryInv`, `PutsInv`). `RegistryIsKept` is about single steps: what
is assigned is a class of the program, and whoever gets the mutex looks into the
registry again before it asks. The bytes: those without
a footer have it in the agenda of their task, and show the object as it is or are
marked as disturbed (`BytesInv`). One task runs at a time, so nothing comes
between a footer and what is done with the bytes: hence `WrittenAreKnown` and
`BytesAreCurrent`.

*SessionProofs* is about the parts of a session that are not recursive over data.

The connection: `SessionAgreed` alone is not inductive, as it says nothing of a
handshake that is under way. `AskedInv` adds that what is on its way to the node is
what the client asked from its present context, and `AnsweredInv` that what comes
back is the answer of *this* node to it: an acceptance with the common features,
a refusal by a node that is older than the context, or one for the credentials.
`ContextInv` says that the context is always one that the setters of
`ProtocolContext` leave, that is with features from 1.7.0 on and without them
below (`Contexts`), so that both sides, each narrowing its own copy, come to the
same one (`SessionsAgree`). From the same invariant: a fallback goes to a version
below the one it was refused for (`FallbackEnds`), hence the loop of `connect()`
ends; and a context that is kept never gains a version or a feature
(`ContextsOnlyShrink`). The bytes of the handshake come in by `LayoutAssumption`
only, which TLC evaluates in `session` for the layout of `Messages` and for every
version, mask and client of its instance.

The events: at the DEBUG level every way out of `perform` publishes one end, as its
caller sees it, or there was no start; at any other level the start is all that
is published (`QueriesAreReported`).

The headers: a field that is written is read back as it was, wherever it lies and
whatever is written elsewhere (`FieldIsRead`, `PutField`, from `OverwrittenBuffer`,
which is `BytesIO.write` with its gaps). On these rest the three theorems on
layouts. `ResponseHeaderIsRead`: under every context, the flags lead the reader to
the topology, the status and the first byte of the data, whatever the data are.
`RequestHeaderIsRead`: the header, which is written last into the gap that was
left for it, declares the length of the whole and touches nothing behind it.
`CacheRequestIsRead` joins the two layers: after any fields have been added behind a
CacheInfo and the header was written over the front, the node reads the cache,
the policy and the transaction of the caller and stands at the first of those
fields. It is stated for the contexts in which `CacheInfo.from_python` does not
raise (a policy needs its feature).

Only model-checked: liveness (`RequestsResolve`, `CallsReturn`, `OperationsReturn`,
`PoolCallsReturn`), which needs ENABLED; and of `Session` what
is recursive over the structure of data, which could be shown for every value only
by an induction that the provers do not have: `FootersLocateFields`,
`SettingsReadBack`, `CacheIsAMap`, and `RequestsReadAsWritten` and
`ResponsesReadToTheEnd` but for the headers and the CacheInfo, whose part in them
are the theorems above. That a behaviour of `Session` is one of `Handshake` and
`QueryEvents` is by construction and no theorem, as a module with recursive
operators is out of the provers' reach; the run checks the properties of both on
`Session` itself. The types of `AioConnection`, `Affinity`, `Cursors` and
`AioPool`, and the shapes in `BinaryTypes`, are theorems or parts of a proved
invariant and are not checked by a run.

## What the code does that its documents do not say

Three runs find the program at variance with a sentence of its documentation,
comments or tests; each is quoted in `PROJECT.json`. Others were met
while modelling or reading and have no run of their own:

- The callback of a transport that was lost after its handshake timed out
  starts a reconnection beside the attempt that gave up (`aio_connection.py:70`).
  A connection can then count as alive on a transport whose own handshake never
  succeeded, although `alive` is said to mean that no failure was detected
  (`connection.py:74`).
- After such a timeout in `connect()`, the reconnection of one node can succeed
  while another attempt, which found no context, fails and sets the context to
  None (`aio_connection.py:186`): a connection is alive and has no context, which
  `client.py:97` has only before any connection. `AliveHaveContext` leaves this
  case out by `timedOut`. Such an attempt fails with an `AttributeError`, which no
  handler takes for an error of the connection (`NoContext`).
- Coroutines that look for a node at once close each other's attempts:
  `random_node` closes the current node that another coroutine is just
  connecting, and two reconnections of one node close each other's transport
  (`aio_client.py:186`, `aio_connection.py:237`). Either can end in
  `ReconnectError` although a node could have been used all along, which is why
  nodes leave `steady` in `GivesUp`. A transport that a second attempt overwrites
  stays open until the node closes it.
- The scan of the blocking `random_node` connects a node that has a healthy
  session and does not make the node that it found the current one: while the
  node at `_current_node` is down, each call opens another session
  (`client.py:478` against the comment at `client.py:454`).
- `Client.connect` tells from `protocol_context` whether any node was reached;
  a context that an earlier connection left makes a second `connect()` with no
  node up return silently (`client.py:433`).
- `_current_node` is kept by `close()`; reconnecting with fewer addresses leaves
  it out of range (`client.py:457`).
- `close()` of an asyncio connection does not stop a reconnection that has not
  cleared `_closed` yet, or is asked for another protocol version: the attempt
  clears it and the connection comes up again (`aio_connection.py:216`).
  `CloseOutlasts` says from where on `close()` wins.
- Without a timeout, which is the default, a request of the blocking client waits
  for ever for a node that neither answers nor closes the connection
  (`connection.py:188`).
- A linked hash map, read as an `OrderedDict`, is given back as a plain dictionary
  in a pair with the code of the linked map (`client.py:593`).
- `commit()` of a transaction whose `tx_end` failed or was refused does nothing
  when called again, as `closed` is already set (`transaction.py:117`).
- For a number of partitions that is not a power of two, the hash code is
  divided by it and not reduced modulo it, and the assertion that follows fails
  for most keys (`client.py:303`).
- `register_cache` looks for the cache id in `_affinity`, not in its
  `partition_mapping`, so each `get_cache` empties the mapping (`client.py:256`).
- A key that is hashed for its partition is written without registering its
  class (`complex.py:547`, `complex.py:734`), and its bytes are then sent; the
  documentation has classes registered with their first object
  (`docs/examples.rst:440`). `WrittenAreKnown` leaves these objects out. A key
  that is changed while its hash code is computed keeps the bytes of before.
- A compact footer is decided in the header and again in the footer
  (`binary.py:153`, `binary.py:171`): when an object with another style is read in
  between, the two differ. A client that wrote compact footers and then reads a
  full one raises a `Warning` (`complex.py:650`).
- An object of a class without fields cannot be read back: its schema id is 0,
  for which a query returns all classes of the type (`stream/binary_stream.py:114`).
- The end of a query is published only while DEBUG is enabled for the logger,
  its start always (`query.py:250`); the tests enable it
  (`tests/conftest.py:22`). A cancelled query is never published as ended.
- `Cache.clear(keys=[])` clears the whole cache; `get_all` loses one of two keys
  that are equal in Python and not in type; `unwrap_binary` ignores the offset of
  a wrapped object; `cache_local_peek` returns wrapped objects as they came.
- A `Cache` made before `connect()` keeps that there was no protocol context; one
  whose cache was destroyed and made again keeps the old settings
  (`cache.py:195`).
- The features of the context only ever shrink (`ContextsOnlyShrink`), and are those
  of all nodes of the pool. `tx_start` is sent to nodes that have no transactions.
- The length of a handshake is counted in characters, and is too short for
  credentials that are not ASCII, with which a client therefore cannot log in
  (`handshake.py:101`); `RequestsReadAsWritten` says by how much. Characters from 0x8000 on
  raise on reading a `Char`.
- `put_binary_type(is_enum=True)` always fails; `set_state` of the cluster does
  not use its post-processing; `PropBase.parse` and `AnyDataArray.to_python_async`
  refer to names that do not exist and are not called.
- Two tasks that iterate over one asyncio cursor may lose rows, a page being
  replaced before it was read, and get pages in another order (`cursors.py:226`);
  a page that cannot be decoded is gone, and the next call gets the one after it. A cursor used after its
  session was lost may read and close the query that has its id in the next
  (`cursors.py:186`). An asyncio cursor whose query failed can be iterated over
  and is empty (`cursors.py:210`). The properties of `Cursors` name these cases
  and say what holds outside of them.

## Assumptions and what is left out

- A handshake of the blocking connection is one step with every outcome it may
  have; fragments of a packet are not modelled.
- Cancellation: of a task that awaits a response, yes; of one that is connecting,
  queries mappings or pages, no.
- A connection under `Transactions`, `Affinity` and `Cursors` is a session that
  can be lost and renewed; how, is in `AioConnection` and `SyncClient`.
- Which node owns a key is left open in `Affinity`; a node answers a query for all the
  caches it names, with their mappings or with a refusal.
- What other programs register in `BinaryTypes` is a type with a schema
  (`ForeignAssumption`): a binary type has a schema id for each list of fields.
  The classes of this program are those of its objects and those it registers
  without writing them (`Own`); a class made from the metadata is told from
  them, since `RegistryIsKept` is about which of the two gives way.
- Starting a transaction succeeds in `Transactions`; one `AioTransaction` object
  is entered once.

- In `AioPool` all nodes have one protocol version; what a version does to the
  context is in `AioConnection` and `SyncClient`. A second `connect()` waits for
  the reconnections of the first pool.
- `Session` has one caller, whose requests are written in one step with every
  complex type registered already; how types are registered is in `BinaryTypes`.
  `Conditional`, which the response with the partition mappings alone uses, is left out.
  Floats are exact, dates are milliseconds and microseconds, and ids and hash
  codes of names are opaque values that equal names share.

Not modelled: the 32-bit arithmetic of hash codes and of the partition of a key
(that two implementations agree for every text is an induction that neither TLC
nor the provers reach, and the places that use the results need only that equal
inputs have equal ones); the loop over the listeners of an event and the fields
of events; TLS, which is options for the standard library; the deprecated
functions of `api/sql.py` that no client calls; declarations, documentation and
tests.

## Plan

Every safety property of the runs but the five of `Session` that speak of recursive
data is a theorem. What is left:

1. More steps of an abstract specification, as `RequestChannel` is for
   `AioConnection`: the blocking client as a channel that answers in order.
2. Theorems on the classes of data that are not recursive (numbers, UUIDs,
   timestamps), on the lemmas about fields: that a reader ends where the writer
   did.
3. Partition awareness with the arithmetic of the partition of a key, and the loop
   over the listeners of an event.
