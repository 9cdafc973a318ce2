-------------------------------- MODULE Node --------------------------------
(***************************************************************************)
(* A server node as the client sees it: external.  It reads requests and   *)
(* writes responses in the layout of the session that its handshake        *)
(* agreed, keeps every key and value as the bytes it was sent, and         *)
(* answers operations on them like a map.                                  *)
(*                                                                         *)
(* A node is a record: state of the cluster, config, <<>> or <<properties  *)
(* by code>> of the one cache, store from bytes to bytes, and types, the   *)
(* descriptions of complex types by id.  Its version and features are in   *)
(* module Handshake.                                                       *)
(***************************************************************************)
EXTENDS Caches

Map == INSTANCE CacheMap WITH Operations <- {}, entries <- <<>>, asked <- <<>>, told <- <<>>

Nothing == [x \in {} |-> None]

(***************************************************************************)
(* The handshake.                                                          *)
(***************************************************************************)
\* What the node reads: [version, features, credentials, length, s].  A password that goes on behind the
\* declared length is cut off, which leaves no credentials.
LoginFields == <<<<"username", <<"String">>>>, <<"password", <<"String">>>>>>
OptionalFields(ctx) ==
  (IF IsFeatureFlagsSupported(ctx) THEN <<<<"features", <<"ByteArrayObject">>>>>> ELSE <<>>)
  \o (IF IsUserAttributesSupported(ctx) THEN <<<<"attributes", <<"MapObject">>>>>> ELSE <<>>)
AskedFor(wire, ctx, body, login) ==
  LET length == FieldAt(Over(wire, FALSE), 0, 4)
  IN [version |-> ctx.version,
      features |-> IF IsFeatureFlagsSupported(ctx) THEN FromArray(body[1][2].features) ELSE {},
      credentials |-> IF login[1] = None \/ login[2].pos > length[2] + 4 THEN <<>>
                      ELSE <<login[1][2].username, login[1][2].password>>,
      length |-> length, s |-> login[2]]
ReadLogin(wire, ctx, body) ==
  AskedFor(wire, ctx, body, IF body[2].pos < Len(wire) THEN GetStruct(body[2], LoginFields) ELSE <<None, body[2]>>)
ReadAs(wire, ctx) == ReadLogin(wire, ctx, GetStruct(Seek(Over(wire, FALSE), 12), OptionalFields(ctx)))
ReadHandshake(wire) ==
  ReadAs(wire, ProtocolContext([i \in 1..3 |-> FieldAt(Over(wire, FALSE), 3 + 2 * i, 2)[2]], <<{}>>))

\* answer: [op_code, version, message, client_status] or [op_code, features, node_uuid]
PutHandshakeAnswer(ctx, answer) ==
  FromPython(Empty(FALSE), Struct(ResponseStart \o ResponseEnd(answer.op_code, ctx)), StructOf(answer))
HandshakeRefusal(version, ctx, status) ==
  PutHandshakeAnswer(ctx,
    [length |-> Int4(0), op_code |-> Int4(0), version_major |-> Int4(version[1]),
     version_minor |-> Int4(version[2]), version_patch |-> Int4(version[3]),
     message |-> None, client_status |-> Int4(status)])
\* features: what both sides have.
HandshakeConsent(features, ctx) ==
  PutHandshakeAnswer(ctx,
    [length |-> Int4(0), op_code |-> Int4(1), features |-> BitmaskBytes(features),
     node_uuid |-> <<"uuid", [i \in 1..16 |-> i]>>])

(***************************************************************************)
(* Requests.                                                               *)
(***************************************************************************)
\* What each operation means and the fields it is followed by.
Rows_ == {
  <<"OP_CACHE_PUT", "put", <<"key", "value">>>>, <<"OP_CACHE_GET", "get", <<"key">>>>,
  <<"OP_CACHE_GET_ALL", "get_all", <<"keys">>>>, <<"OP_CACHE_PUT_ALL", "put_all", <<"pairs">>>>,
  <<"OP_CACHE_CONTAINS_KEY", "contains_key", <<"key">>>>,
  <<"OP_CACHE_CONTAINS_KEYS", "contains_keys", <<"keys">>>>,
  <<"OP_CACHE_GET_AND_PUT", "get_and_put", <<"key", "value">>>>,
  <<"OP_CACHE_GET_AND_REPLACE", "get_and_replace", <<"key", "value">>>>,
  <<"OP_CACHE_GET_AND_REMOVE", "get_and_remove", <<"key">>>>,
  <<"OP_CACHE_PUT_IF_ABSENT", "put_if_absent", <<"key", "value">>>>,
  <<"OP_CACHE_GET_AND_PUT_IF_ABSENT", "get_and_put_if_absent", <<"key", "value">>>>,
  <<"OP_CACHE_REPLACE", "replace", <<"key", "value">>>>,
  <<"OP_CACHE_REPLACE_IF_EQUALS", "replace_if_equals", <<"key", "sample", "value">>>>,
  <<"OP_CACHE_CLEAR", "clear", <<>>>>, <<"OP_CACHE_CLEAR_KEY", "clear_key", <<"key">>>>,
  <<"OP_CACHE_CLEAR_KEYS", "clear_keys", <<"keys">>>>,
  <<"OP_CACHE_REMOVE_KEY", "remove_key", <<"key">>>>,
  <<"OP_CACHE_REMOVE_IF_EQUALS", "remove_if_equals", <<"key", "sample">>>>,
  <<"OP_CACHE_REMOVE_KEYS", "remove_keys", <<"keys">>>>,
  <<"OP_CACHE_REMOVE_ALL", "remove_all", <<>>>>,
  <<"OP_CACHE_GET_SIZE", "get_size", <<"modes">>>>,
  <<"OP_CACHE_LOCAL_PEEK", "local_peek", <<"key", "modes">>>> }
EntryOps == {r[1] : r \in Rows_}
RowOf == FoldSet(LAMBDA r, f : (r[1] :> r) @@ f, <<>>, Rows_)

\* An object as the bytes it takes.
RawObject(s) == LET raw(behind) == <<Slice(s, s.pos, behind.pos - s.pos), behind>> IN raw(GetAny(s)[2])
RawEntry(s) == Times(RawObject, 2, s)
AsSet(r) == <<ToSet(r[1]), r[2]>>
AsMap(r) == <<FoldLeft(LAMBDA f, e : (e[1] :> e[2]) @@ f, Nothing, r[1]), r[2]>>
ReadField(r, name) ==
  LET field(x) == [o |-> (name :> x[1]) @@ r.o, s |-> x[2]]
  IN field(CASE name = "modes" -> <<name, Skip(r.s, 4 + Peek(r.s, 4)[2])>>
             [] name = "keys" -> AsSet(GetCounted(RawObject, r.s, 0, 4, 0))
             [] name = "pairs" -> AsMap(GetCounted(RawEntry, r.s, 0, 4, 0))
             [] name \in {"key", "value", "sample"} -> RawObject(r.s))
\* [o, s]: the operation on the map, and where the reader ended.
ReadOperation(s, op) ==
  FoldLeft(ReadField, [o |-> [method |-> RowOf[op][2]], s |-> s], RowOf[op][3])

(***************************************************************************)
(* Responses.                                                              *)
(***************************************************************************)
IsComplex(raw) == raw[1] = <<Num(TC_COMPLEX_OBJECT), 1, 1>>
\* A complex object may come wrapped in an array of bytes, at its start.
PutRaw(s, raw, wraps) ==
  IF wraps /\ IsComplex(raw)
  THEN Put(Write(Put(Put(s, Num(27), 1), Num(Len(raw)), 4), raw), Num(0), 4)
  ELSE Write(s, raw)
PutEntries(s, e, wraps) ==
  FoldLeft(LAMBDA a, k : PutRaw(Write(a, k), e[k], wraps),
           Put(s, Num(Cardinality(DOMAIN e)), 4), SetToSeq(DOMAIN e))
PutAnswer(s, answer, wraps) ==
  CASE answer = <<>> -> s
    [] answer[1] = "entry" -> IF answer[2] = Map!Absent THEN Put(s, Num(TC_NULL), 1)
                              ELSE PutRaw(s, answer[2], wraps)
    [] answer[1] = "entries" -> PutEntries(s, answer[2], wraps)
    [] answer[1] = "bool" -> Put(s, Num(IF answer[2] THEN 1 ELSE 0), 1)
    [] OTHER -> Put(s, Num(answer[2]), 8)

\* The types a configuration is made of, by the code of the property.
ConfigType(ctx, code) ==
  LET fields == CacheConfigStruct(ctx)[2]
      i == CHOOSE i \in DOMAIN fields : fields[i][1] \in DOMAIN PropCode /\ PropCode[fields[i][1]] = code
  IN fields[i][2]
DefaultOf(type) ==
  CASE type[1] = "Bool" -> False
    [] type[1] = "StructArray" -> <<"list", <<>>>>
    [] type[1] \in {"String", "ExpiryPolicy"} -> None
    [] OTHER -> Int4(0)
AddProp(r, code, one) == [s |-> one[2], props |-> (code :> one[1]) @@ r.props]
ReadProp(r, code, ctx) == AddProp(r, code, Decode(ConfigType(ctx, code), Skip(r.s, 2)))
ReadProps(s, ctx) ==
  FoldLeft(LAMBDA r, i : ReadProp(r, Peek(r.s, 2)[2], ctx), [s |-> Skip(s, 2), props |-> Nothing],
           [i \in 1 .. Peek(s, 2)[2] |-> i])
PutConfig(s, ctx, props) ==
  LET field(a, f) ==
        LET code == IF f[1] \in DOMAIN PropCode THEN PropCode[f[1]] ELSE -1
        IN FromPython(a, f[2], IF code \in DOMAIN props THEN props[code] ELSE DefaultOf(f[2]))
  IN FoldLeft(field, s, CacheConfigStruct(ctx)[2])

PutEnums(s, type) == IF type.is_enum = <<"bool", TRUE>> THEN FromPython(s, EnumLiterals, type.enums) ELSE s
PutDescription(s, type) ==
  FromPython(PutEnums(FromPython(s, Struct(BodyFields), StructOf(type)), type), SchemaStruct, type.schema)
PutType(s, types, id) ==
  IF id \notin DOMAIN types THEN Put(s, Num(0), 1) ELSE PutDescription(Put(s, Num(1), 1), types[id])

\* Rows of two columns, and pages of rows or of entries.
CursorId == Num(77)
ColumnNames == <<<<"str", <<75>>>>, <<"str", <<86>>>>>>
RowsOf(s, e) == FoldLeft(LAMBDA a, k : Write(Write(a, k), e[k]), s, SetToSeq(DOMAIN e))
PutSqlPage(s, e, names) ==
  LET opened == Put(s, CursorId, 8)
      headed == IF names THEN FromPython(opened, <<"StringArray">>, <<"list", ColumnNames>>)
                ELSE Put(opened, Num(2), 4)
  IN Put(RowsOf(Put(headed, Num(Cardinality(DOMAIN e)), 4), e), Num(0), 1)
PutRowPage(s, e) == Put(RowsOf(Put(s, Num(Cardinality(DOMAIN e)), 4), e), Num(0), 1)
PutEntryPage(s, e, wraps) == Put(PutEntries(s, e, wraps), Num(0), 1)
FirstPages == {"OP_QUERY_SCAN", "OP_QUERY_VECTOR"}
EntryPages == {"OP_QUERY_SCAN_CURSOR_GET_PAGE", "OP_QUERY_VECTOR_CURSOR_GET_PAGE"}

(***************************************************************************)
(* A request executed: [node, put(s) applied to the header, refused].      *)
(***************************************************************************)
RequestOp(wire) == FieldAt(Over(wire, FALSE), 4, 2)[2]
Creations == {"OP_CACHE_CREATE_WITH_NAME", "OP_CACHE_GET_OR_CREATE_WITH_NAME",
              "OP_CACHE_CREATE_WITH_CONFIGURATION", "OP_CACHE_GET_OR_CREATE_WITH_CONFIGURATION"}
Strict == {"OP_CACHE_CREATE_WITH_NAME", "OP_CACHE_CREATE_WITH_CONFIGURATION"}
WithConfig == {"OP_CACHE_CREATE_WITH_CONFIGURATION", "OP_CACHE_GET_OR_CREATE_WITH_CONFIGURATION"}
CacheQueries == EntryOps \cup FirstPages \cup {"OP_QUERY_SQL_FIELDS", "OP_CACHE_GET_CONFIGURATION"}
HasInfo == CacheQueries

\* The body of a request: behind the header, and behind the CacheInfo if there is one.
BodyOf(wire) ==
  LET op == RequestOp(wire)
      s == Seek(Over(wire, FALSE), IF op \in WithConfig THEN 18 ELSE 14)
  IN IF op \in HasInfo THEN ReadCacheInfo(s).s ELSE s
OperationOf(wire) == ReadOperation(BodyOf(wire), RequestOp(wire))
\* Without an active cluster and a cache there is nothing to ask of the cache.
Refuses(node, ctx, op) ==
  \/ op = "OP_TX_START" /\ ~IsTransactionsSupported(ctx)
  \/ op \in CacheQueries /\ (node.state = 0 \/ node.config = <<>>)
  \/ op \in Strict /\ node.config # <<>>

WithType(types, read) == (read.type_id[2] :> read) @@ types
NodeAfter(node, ctx, wire) ==
  LET op == RequestOp(wire)
      s == BodyOf(wire)
  IN CASE Refuses(node, ctx, op) -> node
       [] op \in EntryOps -> [node EXCEPT !.store = Map!After(OperationOf(wire).o, node.store)]
       [] op \in Creations /\ node.config = <<>> ->
            [node EXCEPT !.config = <<IF op \in WithConfig THEN ReadProps(s, ctx).props
                                      ELSE 0 :> GetString(s)[1]>>]
       [] op = "OP_CACHE_DESTROY" -> [node EXCEPT !.config = <<>>, !.store = Nothing]
       [] op = "OP_PUT_BINARY_TYPE" ->
            [node EXCEPT !.types = WithType(@, GetDescription(s)[1])]
       [] op = "OP_CLUSTER_CHANGE_STATE" -> [node EXCEPT !.state = Peek(s, 1)[2]]
       [] OTHER -> node

PutBody(s, node, ctx, wire, names, wraps) ==
  LET op == RequestOp(wire)
      b == BodyOf(wire)
  IN CASE op \in EntryOps -> PutAnswer(s, Map!Answer(OperationOf(wire).o, node.store), wraps)
       [] op = "OP_CACHE_GET_CONFIGURATION" -> PutConfig(s, ctx, node.config[1])
       [] op = "OP_CACHE_GET_NAMES" ->
            FromPython(s, <<"StringArray">>, <<"list", IF node.config = <<>> THEN <<>>
                                                       ELSE <<node.config[1][0]>>>>)
       [] op \in FirstPages -> PutEntryPage(Put(s, CursorId, 8), node.store, wraps)
       [] op \in EntryPages -> PutEntryPage(s, node.store, wraps)
       [] op = "OP_QUERY_SQL_FIELDS" -> PutSqlPage(s, node.store, names)
       [] op = "OP_QUERY_SQL_FIELDS_CURSOR_GET_PAGE" -> PutRowPage(s, node.store)
       [] op = "OP_GET_BINARY_TYPE" -> PutType(s, node.types, Peek(b, 4)[2])
       [] op = "OP_CLUSTER_GET_STATE" -> Put(s, Num(node.state), 1)
       [] op = "OP_TX_START" -> Put(s, Num(9), 4)
       [] OTHER -> s
\* names: whether the request asked for the names of the columns.
NodeResponse(node, ctx, wire, names, topology, wraps) ==
  IF Refuses(node, ctx, RequestOp(wire)) THEN FromPython(PutHeader(ctx, topology, TRUE), <<"String">>, <<"str", <<33>>>>)
  ELSE PutBody(PutHeader(ctx, topology, FALSE), node, ctx, wire, names, wraps)
=============================================================================
