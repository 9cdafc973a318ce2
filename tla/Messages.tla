------------------------------ MODULE Messages ------------------------------
(***************************************************************************)
(* The messages of the binary protocol: the handshake, the header of a     *)
(* request and of a response, and the protocol context that decides how    *)
(* they are laid out (connection/handshake.py, connection/protocol_        *)
(* context.py, queries/query.py, queries/cache_info.py, queries/           *)
(* response.py).  What the node does with its side of the wire is          *)
(* external: it reads and writes the same layouts at its own version.      *)
(***************************************************************************)
EXTENDS DataTypes

NoDefaults == [x \in {} |-> None]
Struct(fields) == <<"Struct", fields, NoDefaults>>
StructOf(r) == <<"struct", r>>
Int4(n) == <<"int", n>>

(***************************************************************************)
(* The bitmask of the features of a context.                               *)
(***************************************************************************)
\* The mask takes one byte more than its highest bit needs; from_array reads any length.
BitmaskBytes(features) ==
  LET bits == {BitmaskFeature[f] : f \in features}
      length == IF bits = {} THEN 0 ELSE 1 + (CHOOSE b \in bits : \A c \in bits : c <= b)
      byte(i) == FoldSet(LAMBDA b, n : n + 2 ^ (b % 8), 0, {b \in bits : b \div 8 = i - 1})
  IN <<"bytes", [i \in 1 .. length \div 8 + 1 |-> byte(i)]>>
FromArray(v) ==
  {f \in AllSupported : LET b == BitmaskFeature[f]
                        IN b \div 8 < Len(v[2]) /\ (v[2][b \div 8 + 1] \div 2 ^ (b % 8)) % 2 = 1}

(***************************************************************************)
(* The handshake.  credentials: <<>> or <<user name, password>>; timezone: *)
(* None or a string.                                                       *)
(***************************************************************************)
TIMEZONE == <<"str", <<116, 122>>>>        \* client.timezone, two letters long here
Triple == <<<<"version_major", <<"Short">>>>, <<"version_minor", <<"Short">>>>,
            <<"version_patch", <<"Short">>>>>>
HandshakeFields(ctx, credentials) ==
  <<<<"length", <<"Int">>>>, <<"op_code", <<"Byte">>>>>> \o Triple \o <<<<"client_code", <<"Byte">>>>>>
  \o (IF IsFeatureFlagsSupported(ctx) THEN <<<<"features", <<"ByteArrayObject">>>>>> ELSE <<>>)
  \o (IF IsUserAttributesSupported(ctx) THEN <<<<"user_attributes", <<"MapObject">>>>>> ELSE <<>>)
  \o (IF credentials # <<>> THEN <<<<"username", <<"String">>>>, <<"password", <<"String">>>>>> ELSE <<>>)

(* Mutant: the entry of a client without a time zone is not counted. *)
HandshakeLength_NoNull(ctx, credentials, timezone) ==
  8 + (IF IsFeatureFlagsSupported(ctx) THEN 5 + Len(BitmaskBytes(ctx.features[1])[2]) ELSE 0)
    + (IF IsUserAttributesSupported(ctx)
       THEN 6 + 5 + Len(TIMEZONE[2]) + (IF timezone = None THEN 0 ELSE 5 + Len(timezone[2])) ELSE 0)
    + (IF credentials # <<>> THEN 10 + Len(credentials[1][2]) + Len(credentials[2][2]) ELSE 0)
\* The declared length counts the characters of the strings.
HandshakeLength(ctx, credentials, timezone) ==
  8 + (IF IsFeatureFlagsSupported(ctx) THEN 5 + Len(BitmaskBytes(ctx.features[1])[2]) ELSE 0)
    + (IF IsUserAttributesSupported(ctx)
       THEN 6 + 5 + Len(TIMEZONE[2]) + (IF timezone = None THEN 1 ELSE 5 + Len(timezone[2])) ELSE 0)
    + (IF credentials # <<>> THEN 10 + Len(credentials[1][2]) + Len(credentials[2][2]) ELSE 0)

HandshakeData(ctx, credentials, timezone) ==
  [length |-> Int4(HandshakeLength(ctx, credentials, timezone)), op_code |-> Int4(1),
   version_major |-> Int4(ctx.version[1]), version_minor |-> Int4(ctx.version[2]),
   version_patch |-> Int4(ctx.version[3]), client_code |-> Int4(2),
   features |-> IF IsFeatureFlagsSupported(ctx) THEN BitmaskBytes(ctx.features[1]) ELSE None,
   user_attributes |-> <<"tuple", <<Int4(1), <<"dict", <<<<TIMEZONE, timezone>>>>>>>>>>,
   username |-> IF credentials # <<>> THEN credentials[1] ELSE None,
   password |-> IF credentials # <<>> THEN credentials[2] ELSE None]

PutHandshake(s, ctx, credentials, timezone) ==
  FromPython(s, Struct(HandshakeFields(ctx, credentials)),
             StructOf(HandshakeData(ctx, credentials, timezone)))

ResponseStart == <<<<"length", <<"Int">>>>, <<"op_code", <<"Byte">>>>>>
\* What follows depends on the code and on the version the client asked for.
ResponseEnd(opCode, ctx) ==
  IF opCode = Int4(0) THEN Triple \o <<<<"message", <<"String">>>>, <<"client_status", <<"Int">>>>>>
  ELSE IF IsFeatureFlagsSupported(ctx)
       THEN <<<<"features", <<"ByteArrayObject">>>>, <<"node_uuid", <<"UUIDObject">>>>>>
  ELSE IF IsPartitionAwarenessSupported(ctx) THEN <<<<"node_uuid", <<"UUIDObject">>>>>> ELSE <<>>

\* <<fields by name, stream>>
Joined(start, end) == IF Raised(end[2]) THEN <<NoDefaults, end[2]>> ELSE <<start[1][2] @@ end[1][2], end[2]>>
GetHandshakeEnd(start, ctx) ==
  IF Raised(start[2]) THEN <<NoDefaults, start[2]>>
  ELSE Joined(start, GetStruct(start[2], ResponseEnd(start[1][2].op_code, ctx)))
GetHandshake(s, ctx) == GetHandshakeEnd(GetStruct(s, ResponseStart), ctx)

(***************************************************************************)
(* A request: its header (module Headers) and the fields that follow it.   *)
(***************************************************************************)
\* from_python of the query: each of the fields that follow, by name.
PutFollowing(s, q, values, ctx, tx) ==
  FoldLeft(LAMBDA a, f : IF Raised(a) THEN a
                         ELSE IF f[2] = <<"CacheInfo">> THEN PutCacheInfo(a, values[f[1]], ctx, tx)
                         ELSE FromPython(a, f[2], values[f[1]]),
           s, q.following)

PutRequest(s, q, id, values, ctx, tx) ==
  WriteQueryHeader(PutFollowing(Skip(s, QueryHeaderLen(q)), q, values, ctx, tx), s.pos, q, id)

(***************************************************************************)
(* A response: <<"Response", following>>, <<"SQLResponse", has cursor,     *)
(* include field names>> or <<"BinaryTypeResponse">>.                      *)
(***************************************************************************)
BinaryFields == <<"StructArray", <<<<"field_name", <<"String">>>>, <<"type_id", <<"Int">>>>,
                                   <<"field_id", <<"Int">>>>>>, 4, NoDefaults>>
EnumLiterals == <<"StructArray", <<<<"literal", <<"String">>>>, <<"type_id", <<"Int">>>>>>, 4, NoDefaults>>
BodyFields == <<<<"type_id", <<"Int">>>>, <<"type_name", <<"String">>>>,
                <<"affinity_key_field", <<"String">>>>, <<"binary_fields", BinaryFields>>,
                <<"is_enum", <<"Bool">>>>>>
SchemaFields == <<"StructArray", <<<<"schema_field_id", <<"Int">>>>>>, 4, NoDefaults>>
SchemaStruct == <<"StructArray", <<<<"schema_id", <<"Int">>>>, <<"schema_fields", SchemaFields>>>>, 4, NoDefaults>>

SqlFields(hasCursor, names) ==
  (IF hasCursor THEN <<<<"cursor", <<"Long">>>>>> ELSE <<>>)
  \o (IF names THEN <<<<"fields", <<"StringArray">>>>>> ELSE <<<<"field_count", <<"Int">>>>>>)
  \o <<<<"row_count", <<"Int">>>>>>
SqlEnd(body, rows, more) ==
  IF Raised(rows[2]) THEN Bad(rows[2], "")
  ELSE <<StructOf([data |-> <<"list", rows[1]>>, more |-> more[1]] @@ body[1][2]), more[2]>>
GetMore(body, rows) == SqlEnd(body, rows, GetPrimitive(rows[2], "Bool"))
GetSqlRows(body, names) ==
  LET columns == IF names THEN Len(body[1][2].fields[2]) ELSE body[1][2].field_count[2]
      row(a) == AsList(Times(GetAny, columns, a))
  IN IF Raised(body[2]) THEN Bad(body[2], "") ELSE GetMore(body, Times(row, body[1][2].row_count[2], body[2]))
GetSqlBody(s, hasCursor, names) == GetSqlRows(GetStruct(s, SqlFields(hasCursor, names)), names)

\* The enumerated names are there only for an enumeration, and before the schemas.
GetEnums(body) == IF body[1][2].is_enum = <<"bool", TRUE>> THEN Decode(EnumLiterals, body[2])
                  ELSE <<<<"list", <<>>>>, body[2]>>
Described(body, enums, schemas) == <<[enums |-> enums[1], schema |-> schemas[1]] @@ body[1][2], schemas[2]>>
GetSchemas(body, enums) == Described(body, enums, Decode(SchemaStruct, enums[2]))
GetDescription(s) == LET behind(body) == GetSchemas(body, GetEnums(body)) IN behind(GetStruct(s, BodyFields))

SchemaOf(x) == <<x[2].schema_id, [i \in DOMAIN x[2].schema_fields[2] |->
                                    x[2].schema_fields[2][i][2].schema_field_id]>>
BinaryType(exists, type) ==
  IF Raised(type[2]) THEN Bad(type[2], "")
  ELSE <<StructOf([type_exists |-> exists, schema |-> {SchemaOf(x) : x \in ToSet(type[1].schema[2])}] @@ type[1]), type[2]>>
GetIfExists(exists) ==
  IF exists[1] # <<"bool", TRUE>> THEN <<StructOf([type_exists |-> exists[1]]), exists[2]>>
  ELSE BinaryType(exists[1], GetDescription(exists[2]))
GetBinaryTypeBody(s) == GetIfExists(GetPrimitive(s, "Bool"))

GetBody(s, response) ==
  CASE response[1] = "SQLResponse" -> GetSqlBody(s, response[2], response[3])
    [] response[1] = "BinaryTypeResponse" -> GetBinaryTypeBody(s)
    [] response[2] = <<>> -> <<None, s>>
    [] OTHER -> GetStruct(s, response[2])

\* parse and to_python: the body of an error is its message.
Parsed(head, body) ==
  [status |-> head.status, affinity |-> head.affinity,
   message |-> IF head.error THEN body[1] ELSE None,
   value |-> IF head.error THEN None ELSE body[1],
   s |-> IF Raised(head.s) THEN head.s ELSE body[2]]
GetResponse(s, ctx, response) ==
  LET head == GetHeader(s, ctx)
  IN Parsed(head, IF head.error THEN GetString(head.s) ELSE GetBody(head.s, response))
=============================================================================
