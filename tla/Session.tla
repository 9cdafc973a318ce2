------------------------------- MODULE Session -------------------------------
(***************************************************************************)
(* One client, one connection, one caller and the node behind it: the      *)
(* connection of Handshake, its messages in the bytes of Messages and      *)
(* Node; a call of the api written to bytes, executed by the node and read *)
(* back (query.py, response.py, cache.py, aio_cache.py), whose events are  *)
(* those of QueryEvents; and the node being lost and replaced by another   *)
(* version between any two of these steps.                                 *)
(*                                                                         *)
(* A request is built and written in one step: with every complex type     *)
(* already registered nothing in it waits.  The blocking connection        *)
(* reconnects inside the failed call, the other one in the next call; here *)
(* the call fails and the connection is then made again.                   *)
(***************************************************************************)
EXTENDS Seen, Handshake, QueryEvents

CONSTANTS
  Topologies,      \* what a response may say of the topology: None or a number
  Calls,           \* records [method, args]
  Policy,          \* the expiry policy of a decorated cache
  CacheName

VARIABLES          \* and those of Handshake and QueryEvents
  node,            \* of module Node
  call,            \* <<>> or <<[method, args]>>
  served,          \* <<>> or <<what the node answered, topology>>
  cache,           \* the Cache object: [policy, settings: <<>> or <<value>>]
  tx,              \* the id of the transaction of the context, or None
  typed,           \* history: what the entries on the node hold (module Seen)
  told,            \* history: what the caller is told of an operation on the cache
  given            \* history: the properties the cache on the node was created with, <<>> for none
history == <<typed, told, given>>
calling == <<node, query, call, served, cache, tx, history>>
vars == <<connection, wire, calling>>
-----------------------------------------------------------------------------
(***************************************************************************)
(* The bytes of a handshake: the parameters of Handshake.                  *)
(***************************************************************************)
RequestBytes(context, c) == PutHandshake(Empty(c.compact), context, c.credentials, c.timezone).buf
ConsentBytes(features, context) == HandshakeConsent(features, context).buf
RefusalBytes(version, context, status) == HandshakeRefusal(version, context, status).buf
Expected(fields) == <<fields.version_major[2], fields.version_minor[2], fields.version_patch[2]>>
ResponseFields(fields) ==
  IF fields.op_code = Int4(0)
  THEN [op_code |-> 0, expected |-> Expected(fields), client_status |-> fields.client_status[2]]
  ELSE [op_code |-> fields.op_code[2],
        features |-> IF "features" \in DOMAIN fields THEN <<FromArray(fields.features)>> ELSE <<>>]
ReadAnswer(bytes, context, c) == ResponseFields(GetHandshake(Over(bytes, c.compact), context)[1])

\* A connection is made between two calls, and is lost at any time.
Connects == step = "idle" /\ Connect /\ UNCHANGED calling
Handshakes == (NodeAnswersHandshake \/ FinishHandshake \/ LoseHandshake) /\ UNCHANGED calling
-----------------------------------------------------------------------------
(***************************************************************************)
(* The calls of the api.                                                   *)
(***************************************************************************)
Table == IF client.api = "sync" THEN CacheMethods ELSE AioCacheMethods
Plain(f) == Method(f, FALSE, "")
Cursor == [cursor |-> Int4(77)]

\* The method, the function of the api behind it and the dictionary of values it fills.
MethodFor(c) ==
  LET a == c.args
  IN CASE c.method \in DOMAIN Table -> MethodOf(Table, c.method, a)
       [] c.method = "local_peek" -> OnKey(cache_local_peek)
       [] c.method = "settings" -> Plain(cache_get_configuration(ctx[1]))
       [] c.method = "create_cache" ->
            Plain(CreateRequest("OP_CACHE_CREATE_WITH_NAME", "OP_CACHE_CREATE_WITH_CONFIGURATION", ctx[1], a.settings))
       [] c.method = "get_or_create_cache" ->
            Plain(CreateRequest("OP_CACHE_GET_OR_CREATE_WITH_NAME", "OP_CACHE_GET_OR_CREATE_WITH_CONFIGURATION",
                                ctx[1], a.settings))
       [] c.method = "get_cache_names" -> Plain(cache_get_names)
       [] c.method = "scan" -> Plain(scan)
       [] c.method = "scan_page" -> Plain(scan_cursor_get_page)
       [] c.method = "sql" -> Plain(sql_fields(Truthy(a.include_field_names)))
       [] c.method = "sql_page" -> Plain(sql_fields_cursor_get_page(2))
       [] c.method = "vector" -> Plain(vector)
       [] c.method = "vector_page" -> Plain(vector_cursor_get_page)
       [] c.method = "close" -> Plain(resource_close)
       [] c.method = "tx_start" -> Plain(tx_start)
       [] c.method = "tx_end" -> Plain(tx_end)
       [] c.method = "get_state" -> Plain(cluster_get_state)
       [] c.method = "set_state" -> Plain(cluster_set_state)
       [] c.method = "get_binary_type" -> Plain(get_binary_type)
       [] c.method = "put_binary_type" -> Plain(put_binary_type(FALSE))

Pages == {"scan_page", "sql_page", "vector_page", "close"}
Creating == {"create_cache", "get_or_create_cache"}
ValuesOf(c, f) ==
  LET a == c.args
      info == [cache_info |-> [cache_id |-> CacheId(CacheName), policy |-> cache.policy]]
  IN CASE c.method \in Creating -> f.api.values
       [] c.method \in Pages -> Cursor
       [] c.method = "destroy" -> [cache_id |-> Int4(CacheId(CacheName))]
       [] c.method \in {"get_size", "local_peek"} -> [peek_modes |-> PeekList(a.peek_modes)] @@ info @@ a
       [] c.method = "tx_end" -> [tx_id |-> tx, committed |-> a.committed]
       [] c.method = "get_binary_type" -> [type_id |-> Int4(EntityId(a.name))]
       [] c.method = "put_binary_type" -> BinaryTypeData(a.name, a.affinity_key, FALSE, a.schema)
       [] OTHER -> info @@ a

\* What is raised before there is a query, "" for nothing.
Objection(c) ==
  LET parsed == ParseSettings(c.args.settings)
  IN CASE c.method = "set_state" /\ c.args.state[2] \notin ClusterStates -> "ClusterError"
       [] c.method \in {"get_state", "set_state"} /\ ~IsClusterApiSupported(ctx[1]) -> "NotSupportedByClusterError"
       [] c.method \in Creating \cup {"get_cache"} /\ parsed[1] = None -> "ParameterError"
       [] c.method \in Creating /\ ~CodesKnown(parsed[2]) -> "ParameterError"
       [] c.method \in Creating /\ NeedsExpiryPolicy(parsed[2]) /\ ~IsExpiryPolicySupported(ctx[1]) ->
            "NotSupportedByClusterError"
       [] c.method = "get_cache" /\ parsed[2] # <<>> -> "ParameterError"
       [] c.method = "with_expire_policy" /\ ~IsExpiryPolicySupported(ctx[1]) -> "NotSupportedByClusterError"
       [] c.method = "tx_end" /\ tx = None -> "CacheError"
       [] c.method \in DOMAIN Table /\ Table[c.method].keyed /\ "key_hint" \notin DOMAIN c.args
            /\ MapPythonType(c.args.key) = Unknown -> "TypeError"
       [] OTHER -> ""

\* The calls that ask the node nothing: settings are asked for once by a Cache object.
Local(c) == \/ c.method \in {"get_cache", "with_expire_policy"}
            \/ c.method = "settings" /\ cache.settings # <<>>
CacheObject(policy) == [policy |-> policy, settings |-> <<>>]

\* The request as it is written: a stream.
Written(c, f) == PutRequest(Empty(client.compact), Resolve(f.api.query, c.args), 0, ValuesOf(c, f), ctx[1], tx)

Send(f, c) ==
  \E s \in {Written(c, f)} :
    \/ Raised(s) /\ Unwritten(s.err) /\ UNCHANGED wire
    \/ ~Raised(s) /\ Started /\ wire' = s.buf
AnswerLocally(c) ==
  /\ AnsweredLocally(IF c.method = "settings" THEN cache.settings[1] ELSE None)
  /\ cache' = CASE c.method = "get_cache" -> CacheObject(None)
                [] c.method = "with_expire_policy" -> CacheObject(Policy)
                [] OTHER -> cache
  /\ UNCHANGED wire
Invoke(c) ==
  /\ Talk /\ step = "idle"
  /\ call' = <<c>>
  /\ \E objection \in {Objection(c)} :
       \/ objection # "" /\ Refused(objection) /\ UNCHANGED <<wire, cache>>
       \/ objection = "" /\ Local(c) /\ AnswerLocally(c)
       \/ objection = "" /\ ~Local(c) /\ Send(MethodFor(c), c) /\ UNCHANGED cache
  /\ UNCHANGED <<node, served, tx, history>>

\* External: the node executes the request.  It may tell a change of the topology, and may send
\* complex objects wrapped.
PropsOf(settings) == IF settings[1] = "str" THEN <<<<PropCode.name, settings>>>> ELSE settings[2]
NamesAsked == call[1].method = "sql" /\ Truthy(call[1].args.include_field_names)
Serve ==
  LET op == RequestOp(wire)
      answer == IF Refuses(node, session[1], op) THEN Map!Refused
                ELSE IF op \in EntryOps THEN Map!Answer(OperationOf(wire).o, node.store)
                ELSE IF call[1].method \in Queries THEN <<"entries", node.store>> ELSE <<>>
  IN
  /\ Talk /\ Answered
  /\ node' = NodeAfter(node, session[1], wire)
  /\ given' = IF node'.config = <<>> THEN <<>> ELSE IF node.config = <<>> THEN PropsOf(call[1].args.settings) ELSE given
  /\ \E topology \in Topologies, wraps \in BOOLEAN :
       /\ IsStatusFlagsSupported(session[1]) \/ topology = None
       /\ wire' = NodeResponse(node, session[1], wire, NamesAsked, topology, wraps).buf
       /\ served' = <<TypedAnswer(answer, client.compact), topology>>
  /\ typed' = TypedStore(node'.store, client.compact)
  /\ told' = IF call[1].method \in MapMethods THEN <<served'[1]>> ELSE <<>>
  /\ UNCHANGED <<call, cache, tx>>

\* parse, to_python and post-processing, and the exception for a status.
Result(f, value) ==
  Unwrapped(f.unwraps, PostProcess(f.api.takes, IF f.api.takes = "rows" THEN RowLists(value, 2) ELSE value), client.compact)
Return ==
  LET c == call[1]
      f == MethodFor(c)
  IN /\ Talk /\ step = "answered"
     /\ wire' = <<>>
     /\ \E read \in {GetResponse(Over(wire, client.compact), ctx[1], f.api.query.response)} :
          IF Raised(read.s) THEN Fails(read.s.err)
          ELSE IF read.status # Num(0) THEN Fails("CacheError") ELSE Succeeds(Result(f, read.value))
     /\ cache' = IF outcome'[1] = "error" THEN cache
                 ELSE IF c.method = "settings" THEN [cache EXCEPT !.settings = <<outcome'[2]>>]
                 ELSE IF c.method \in Creating THEN CacheObject(None) ELSE cache
     /\ tx' = IF c.method = "tx_start" /\ outcome'[1] = "value" THEN outcome'[2]
              ELSE IF c.method = "tx_end" THEN None ELSE tx
     /\ told' = IF told = <<>> THEN told
                ELSE IF outcome'[1] = "value" THEN <<Received(c.method, served[1], outcome'[2], client.compact)>>
                ELSE <<IF outcome'[2] = "CacheError" THEN Map!Refused ELSE Wrong>>
     /\ UNCHANGED <<node, call, served, typed, given>>

\* The caller takes the result: nothing is under way.
Take ==
  /\ Taken
  /\ call' = <<>> /\ served' = <<>> /\ told' = <<>>
  /\ UNCHANGED <<connection, wire, node, cache, tx, typed, given>>

\* The call that waits fails with the connection.
Lose ==
  LET waiting == step \in {"sent", "answered"}
  IN /\ LoseConnection
     /\ IF waiting THEN Fails("SocketError") ELSE UNCHANGED query
     /\ told' = IF waiting /\ call[1].method \in MapMethods THEN <<Map!Lost>> ELSE told
     /\ tx' = IF waiting /\ call[1].method = "tx_end" THEN None ELSE tx
     /\ UNCHANGED <<node, call, served, cache, typed, given>>

\* The node that takes the address has what the cluster stores.
Replaced == Replace /\ UNCHANGED calling
-----------------------------------------------------------------------------
Init ==
  /\ HandshakeInit /\ QueryInit
  /\ node = [state |-> 1, config |-> <<>>, store |-> Nothing, types |-> Nothing]
  /\ call = <<>> /\ served = <<>> /\ cache = CacheObject(None) /\ tx = None
  /\ typed = Nothing /\ told = <<>> /\ given = <<>>

Next ==
  \/ Connects \/ Handshakes \/ (\E c \in Calls : Invoke(c)) \/ Serve \/ Return \/ Take
  \/ Lose \/ Replaced
Spec == Init /\ [][Next]_vars
-----------------------------------------------------------------------------
(***************************************************************************)
(* Properties.                                                             *)
(***************************************************************************)
\* How many bytes the credentials of a client take beyond one for each character.
Excess(c) ==
  LET text == FoldLeft(LAMBDA t, s : t \o s[2], <<>>, c.credentials) IN Utf8Len(text) - Len(text)
\* What is written is what the node reads: the handshake ends with its credentials and the request with
\* its last field, and the CacheInfo of an operation on the cache holds the policy of the Cache object
\* and the transaction of the caller.  The declared length is the length, but for a handshake whose
\* credentials are not ASCII: it is short by what their characters take beyond one byte, and the node
\* does not get the credentials
\* (HandshakeRequest.from_python, Query.from_python, CacheInfo.from_python).
RequestsReadAsWritten ==
  /\ conn = "handshake" =>
       \A read \in {ReadHandshake(wire)} :
          /\ read.length = Num(Len(wire) - 4 - Excess(client)) /\ read.s.pos = Len(wire) /\ ~Raised(read.s)
          /\ read.version = ctx[1].version
          /\ read.credentials = IF Excess(client) = 0 THEN client.credentials ELSE <<>>
  /\ step = "sent" =>
       LET op == RequestOp(wire)
           info == ReadCacheInfo(Seek(Over(wire, FALSE), 14))
           policy == IF cache.policy = None THEN <<>> ELSE [i \in 1..3 |-> cache.policy[2][i][2]]
       IN /\ FieldAt(Over(wire, FALSE), 0, 4) = Num(Len(wire) - 4)
          /\ op \in HasInfo =>
               /\ info.cache = CacheId(CacheName) /\ info.policy = policy
               /\ info.tx = IF IsTransactionsSupported(session[1]) THEN tx ELSE None
          /\ op \in EntryOps => OperationOf(wire).s.pos = Len(wire)
          /\ op \in WithConfig => ReadProps(BodyOf(wire), session[1]).s.pos = Len(wire)
          /\ op = "OP_PUT_BINARY_TYPE" => GetDescription(BodyOf(wire))[2].pos = Len(wire)

\* Where the footer says that the i-th field starts.
FieldOffset(s, flags, i) ==
  FieldAt(s, FieldAt(s, 20, 4)[2] + (i - 1) * SchemaElementLen(flags)
             + (IF "COMPACT_FOOTER" \in flags THEN 0 ELSE 4), OffsetWidth(flags))[2]
Located(raw, object) ==
  LET s == Over(raw, FALSE)
  IN \A i \in DOMAIN object[4] :
       Decode(Schemas[object[2]][i][2], Seek(s, FieldOffset(s, FieldAt(s, 2, 2)[2], i)))[1] = object[4][i]
\* The footer of a complex object leads to each of its fields, whatever the width of its offsets
\* (the footer written by GenericObjectMeta._from_python).
FootersLocateFields ==
  step = "sent" /\ RequestOp(wire) \in EntryOps =>
    \A written \in {OperationOf(wire).o} :
      \A name \in {"key", "value", "sample"} \cap DOMAIN written :
        IsComplex(written[name]) => Located(written[name], GetAny(Over(written[name], FALSE))[1])

\* A response is read to its last byte and no further, and the topology version and the status are the
\* ones the node put there (Response.parse and its header by version and flags).
ResponsesReadToTheEnd ==
  step = "answered" =>
    \A read \in {GetResponse(Over(wire, client.compact), ctx[1], MethodFor(call[1]).api.query.response)} :
      /\ ~Raised(read.s) /\ read.s.pos = Len(wire)
      /\ read.affinity = served[2]
      /\ (read.status # Num(0)) = (served[1] = Map!Refused)

\* The settings that a Cache object reads are the ones its cache was created with, through a list of
\* properties with codes on the way there and one structure without codes on the way back; only the
\* similarity function of an index is lost at a node that does not have it.
RECURSIVE Agree(_, _)
Agree(written, read) ==
  CASE written[1] = "list" -> /\ Len(written[2]) = Len(read[2])
                              /\ \A i \in DOMAIN written[2] : Agree(written[2][i], read[2][i])
    [] written[1] = "struct" ->
         /\ DOMAIN written[2] \ DOMAIN read[2] \subseteq {"similarity_function"}
         /\ \A n \in DOMAIN written[2] \cap DOMAIN read[2] : Agree(written[2][n], read[2][n])
    [] OTHER -> written = read
SettingsReadBack ==
  step = "returned" /\ call[1].method = "settings" /\ outcome[1] = "value" /\ given # <<>> =>
    \A i \in DOMAIN given :
      \/ given[i][1] \in DOMAIN outcome[2] /\ Agree(given[i][2], outcome[2][given[i][1]])
      \/ given[i][1] = PropCode.expiry_policy /\ given[i][1] \notin DOMAIN outcome[2]

(***************************************************************************)
(* The cache the caller sees is the map of CacheMap, with the types and    *)
(* values of keys and entries in place of their bytes.                     *)
(***************************************************************************)
Asked == IF step \in {"sent", "answered", "returned"} /\ call[1].method \in MapMethods
         THEN <<AbstractOf(call[1])>> ELSE <<>>
AbstractCalls == {AbstractOf(c) : c \in {x \in Calls : x.method \in MapMethods}}
Promise == INSTANCE CacheMap WITH Operations <- AbstractCalls,
                                  entries <- typed, asked <- Asked, told <- told
\* Every method of Cache and AioCache, the scan and the first pages of the queries do to the entries
\* what a map does, once, and give back what it answers, value for value: through hints and guessed
\* types, bytes, headers, wrapped objects and post-processing (cache.py, aio_cache.py, api/).
CacheIsAMap == Promise!Spec
=============================================================================
