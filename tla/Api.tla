-------------------------------- MODULE Api --------------------------------
(***************************************************************************)
(* The functions of pygridgain/api, each a query of its own: an operation  *)
(* code, the fields that follow the header, the body expected in return    *)
(* and the field of it that post-processing makes the result.  The         *)
(* synchronous function, its _async twin and the common body they share    *)
(* are one definition here.                                                *)
(*                                                                         *)
(* The type of a field may be <<"Hint", name>>: the hint passed under that *)
(* name or, without one, AnyDataObject.                                    *)
(***************************************************************************)
EXTENDS Messages

Function(op, following, response, takes) ==
  [query |-> Query(op, following, <<"Response", response>>), takes |-> takes]
Sends(op, following) == Function(op, following, <<>>, "")
Asks(op, following, name, type) == Function(op, following, <<<<name, type>>>>, name)

Cached(fields) == <<<<"cache_info", <<"CacheInfo">>>>>> \o fields
Key == <<"key", <<"Hint", "key_hint">>>>
Value == <<"value", <<"Hint", "value_hint">>>>
Sample == <<"sample", <<"Hint", "sample_hint">>>>
Keys == <<"keys", <<"AnyDataArray">>>>
Pairs == <<"data", <<"Map">>>>
PeekModes == <<"peek_modes", <<"ByteArray">>>>
AnyData == <<"AnyDataObject">>

(***************************************************************************)
(* Keys and values.                                                        *)
(***************************************************************************)
cache_put == Sends("OP_CACHE_PUT", Cached(<<Key, Value>>))
cache_get == Asks("OP_CACHE_GET", Cached(<<Key>>), "value", AnyData)
cache_get_all == Asks("OP_CACHE_GET_ALL", Cached(<<Keys>>), "data", <<"Map">>)
cache_put_all == Sends("OP_CACHE_PUT_ALL", Cached(<<Pairs>>))
cache_contains_key == Asks("OP_CACHE_CONTAINS_KEY", Cached(<<Key>>), "value", <<"Bool">>)
cache_contains_keys == Asks("OP_CACHE_CONTAINS_KEYS", Cached(<<Keys>>), "value", <<"Bool">>)
cache_get_and_put == Asks("OP_CACHE_GET_AND_PUT", Cached(<<Key, Value>>), "value", AnyData)
cache_get_and_replace == Asks("OP_CACHE_GET_AND_REPLACE", Cached(<<Key, Value>>), "value", AnyData)
cache_get_and_remove == Asks("OP_CACHE_GET_AND_REMOVE", Cached(<<Key>>), "value", AnyData)
cache_put_if_absent == Asks("OP_CACHE_PUT_IF_ABSENT", Cached(<<Key, Value>>), "success", <<"Bool">>)
cache_get_and_put_if_absent ==
  Asks("OP_CACHE_GET_AND_PUT_IF_ABSENT", Cached(<<Key, Value>>), "value", AnyData)
cache_replace == Asks("OP_CACHE_REPLACE", Cached(<<Key, Value>>), "success", <<"Bool">>)

cache_replace_if_equals ==
  Asks("OP_CACHE_REPLACE_IF_EQUALS", Cached(<<Key, Sample, Value>>), "success", <<"Bool">>)
cache_clear == Sends("OP_CACHE_CLEAR", Cached(<<>>))
cache_clear_key == Sends("OP_CACHE_CLEAR_KEY", Cached(<<Key>>))
cache_clear_keys == Sends("OP_CACHE_CLEAR_KEYS", Cached(<<Keys>>))
cache_remove_key == Asks("OP_CACHE_REMOVE_KEY", Cached(<<Key>>), "success", <<"Bool">>)
cache_remove_if_equals == Asks("OP_CACHE_REMOVE_IF_EQUALS", Cached(<<Key, Sample>>), "success", <<"Bool">>)
cache_remove_keys == Sends("OP_CACHE_REMOVE_KEYS", Cached(<<Keys>>))
cache_remove_all == Sends("OP_CACHE_REMOVE_ALL", Cached(<<>>))
cache_get_size == Asks("OP_CACHE_GET_SIZE", Cached(<<PeekModes>>), "count", <<"Long">>)
cache_local_peek == Asks("OP_CACHE_LOCAL_PEEK", Cached(<<Key, PeekModes>>), "value", AnyData)

\* None is no peek mode, and a number is one.
PeekList(modes) == IF modes = None THEN <<"list", <<>>>>
                   ELSE IF modes[1] \in {"list", "tuple"} THEN modes ELSE <<"list", <<modes>>>>

(***************************************************************************)
(* Queries of rows.                                                        *)
(***************************************************************************)
Page == <<<<"data", <<"Map">>>>, <<"more", <<"Bool">>>>>>
Opened(page) == <<<<"cursor", <<"Long">>>>>> \o page
NextPage(op, page) == Function(op, <<<<"cursor", <<"Long">>>>>>, page, "")

scan == Function("OP_QUERY_SCAN",
  Cached(<<<<"filter", <<"Null">>>>, <<"page_size", <<"Int">>>>, <<"partitions", <<"Int">>>>,
           <<"local", <<"Bool">>>>>>), Opened(Page), "")
scan_cursor_get_page == NextPage("OP_QUERY_SCAN_CURSOR_GET_PAGE", Page)

sql_fields(includeFieldNames) ==
  [query |-> Query("OP_QUERY_SQL_FIELDS",
     Cached(<<<<"schema", <<"String">>>>, <<"page_size", <<"Int">>>>, <<"max_rows", <<"Int">>>>,
       <<"query_str", <<"String">>>>, <<"query_args", <<"AnyDataArray">>>>,
       <<"statement_type", <<"Byte">>>>, <<"distributed_joins", <<"Bool">>>>,
       <<"local", <<"Bool">>>>, <<"replicated_only", <<"Bool">>>>,
       <<"enforce_join_order", <<"Bool">>>>, <<"collocated", <<"Bool">>>>, <<"lazy", <<"Bool">>>>,
       <<"timeout", <<"Long">>>>, <<"include_field_names", <<"Bool">>>>>>),
     <<"SQLResponse", TRUE, includeFieldNames>>),
   takes |-> ""]

\* A row is a structure of as many fields as the first page had.
FieldName(i) == <<"field_0", "field_1", "field_2">>[i]
sql_fields_cursor_get_page(fieldCount) ==
  Function("OP_QUERY_SQL_FIELDS_CURSOR_GET_PAGE", <<<<"cursor", <<"Long">>>>>>,
    <<<<"data", <<"StructArray", [i \in 1..fieldCount |-> <<FieldName(i), AnyData>>], 4, NoDefaults>>>>,
      <<"more", <<"Bool">>>>>>, "rows")
RowLists(value, fieldCount) ==
  [value EXCEPT ![2].data = <<"list", [i \in DOMAIN @[2] |->
     <<"list", [k \in 1..fieldCount |-> @[2][i][2][FieldName(k)]]>>]>>]

vector == Function("OP_QUERY_VECTOR",
  Cached(<<<<"page_size", <<"Int">>>>, <<"type_name", <<"String">>>>, <<"field", <<"String">>>>,
           <<"clause_vector", <<"FloatArrayObject">>>>, <<"k", <<"Int">>>>,
           <<"threshold", <<"Float">>>>>>), Opened(Page), "")
vector_cursor_get_page == NextPage("OP_QUERY_VECTOR_CURSOR_GET_PAGE", Page)
resource_close == Sends("OP_RESOURCE_CLOSE", <<<<"cursor", <<"Long">>>>>>)

(***************************************************************************)
(* Transactions and the state of the cluster.                              *)
(***************************************************************************)
tx_start == Asks("OP_TX_START",
  <<<<"concurrency", <<"Byte">>>>, <<"isolation", <<"Byte">>>>, <<"timeout", <<"Long">>>>,
    <<"label", <<"String">>>>>>, "tx_id", <<"Int">>)
tx_end == Sends("OP_TX_END", <<<<"tx_id", <<"Int">>>>, <<"committed", <<"Bool">>>>>>)

ClusterStates == 0..2
cluster_get_state == Asks("OP_CLUSTER_GET_STATE", <<>>, "state", <<"Byte">>)
cluster_set_state == Sends("OP_CLUSTER_CHANGE_STATE", <<<<"state", <<"Byte">>>>>>)

(***************************************************************************)
(* The configuration of a cache: written as a list of properties, each     *)
(* with its code, and read back as one structure without codes.            *)
(***************************************************************************)
PropCode == [
  name |-> 0, cache_mode |-> 1, cache_atomicity_mode |-> 2, backups_number |-> 3,
  write_synchronization_mode |-> 4, copy_on_read |-> 5, read_from_backup |-> 6,
  data_region_name |-> 100, is_onheap_cache_enabled |-> 101,
  query_entities |-> 200, query_parallelism |-> 201, query_detail_metric_size |-> 202,
  sql_schema |-> 203, sql_index_inline_max_size |-> 204, sql_escape_all |-> 205,
  max_query_iterators |-> 206,
  rebalance_mode |-> 300, rebalance_delay |-> 301, rebalance_timeout |-> 302,
  rebalance_batch_size |-> 303, rebalance_batches_prefetch_count |-> 304,
  rebalance_order |-> 305, rebalance_throttle |-> 306,
  group_name |-> 400, cache_key_configuration |-> 401, default_lock_timeout |-> 402,
  max_concurrent_async_operations |-> 403, partition_loss_policy |-> 404,
  eager_ttl |-> 405, statistics_enabled |-> 406, expiry_policy |-> 407]

StructArray(fields) == <<"StructArray", fields, 4, NoDefaults>>
Defaulted(fields, defaults) == <<"StructArray", fields, 4, defaults>>
False == <<"bool", FALSE>>
QueryFields == Defaulted(
  <<<<"name", <<"String">>>>, <<"type_name", <<"String">>>>, <<"is_key_field", <<"Bool">>>>,
    <<"is_notnull_constraint_field", <<"Bool">>>>, <<"default_value", AnyData>>,
    <<"precision", <<"Int">>>>, <<"scale", <<"Int">>>>>>,
  [is_key_field |-> False, is_notnull_constraint_field |-> False, default_value |-> None,
   precision |-> Int4(-1), scale |-> Int4(-1)])
FieldNameAliases == StructArray(<<<<"field_name", <<"String">>>>, <<"alias", <<"String">>>>>>)
IndexedFields == Defaulted(<<<<"name", <<"String">>>>, <<"is_descending", <<"Bool">>>>>>,
                           [is_descending |-> False])
IndexFields == <<<<"index_name", <<"String">>>>, <<"index_type", <<"Byte">>>>,
                 <<"inline_size", <<"Int">>>>, <<"fields", IndexedFields>>>>
QueryIndexes == Defaulted(Append(IndexFields, <<"similarity_function", <<"Int">>>>),
                          [similarity_function |-> Int4(0)])
QueryIndexesNoSimilarity == StructArray(IndexFields)
QueryEntitiesOf(indexes) == StructArray(
  <<<<"key_type_name", <<"String">>>>, <<"value_type_name", <<"String">>>>,
    <<"table_name", <<"String">>>>, <<"key_field_name", <<"String">>>>,
    <<"value_field_name", <<"String">>>>, <<"query_fields", QueryFields>>,
    <<"field_name_aliases", FieldNameAliases>>, <<"query_indexes", indexes>>>>)
\* A node without the similarity functions neither sends nor expects them.
QueryEntities(ctx) == QueryEntitiesOf(IF IsQueryIndexVectorSimilaritySupported(ctx)
                                      THEN QueryIndexes ELSE QueryIndexesNoSimilarity)
CacheKeyConfiguration ==
  StructArray(<<<<"type_name", <<"String">>>>, <<"affinity_key_field_name", <<"String">>>>>>)

ConfigFields == <<
  <<"length", <<"Int">>>>, <<"cache_atomicity_mode", <<"Int">>>>, <<"backups_number", <<"Int">>>>,
  <<"cache_mode", <<"Int">>>>, <<"copy_on_read", <<"Bool">>>>, <<"data_region_name", <<"String">>>>,
  <<"eager_ttl", <<"Bool">>>>, <<"statistics_enabled", <<"Bool">>>>, <<"group_name", <<"String">>>>,
  <<"default_lock_timeout", <<"Long">>>>, <<"max_concurrent_async_operations", <<"Int">>>>,
  <<"max_query_iterators", <<"Int">>>>, <<"name", <<"String">>>>,
  <<"is_onheap_cache_enabled", <<"Bool">>>>, <<"partition_loss_policy", <<"Int">>>>,
  <<"query_detail_metric_size", <<"Int">>>>, <<"query_parallelism", <<"Int">>>>,
  <<"read_from_backup", <<"Bool">>>>, <<"rebalance_batch_size", <<"Int">>>>,
  <<"rebalance_batches_prefetch_count", <<"Long">>>>, <<"rebalance_delay", <<"Long">>>>,
  <<"rebalance_mode", <<"Int">>>>, <<"rebalance_order", <<"Int">>>>,
  <<"rebalance_throttle", <<"Long">>>>, <<"rebalance_timeout", <<"Long">>>>,
  <<"sql_escape_all", <<"Bool">>>>, <<"sql_index_inline_max_size", <<"Int">>>>,
  <<"sql_schema", <<"String">>>>, <<"write_synchronization_mode", <<"Int">>>>,
  <<"cache_key_configuration", CacheKeyConfiguration>> >>
CacheConfigStruct(ctx) ==
  Struct(Append(ConfigFields, <<"query_entities", QueryEntities(ctx)>>)
         \o (IF IsExpiryPolicySupported(ctx) THEN <<<<"expiry_policy", <<"ExpiryPolicy">>>>>> ELSE <<>>))

\* The class of a property by its code.
IntProps == {1, 2, 3, 4, 201, 202, 204, 206, 300, 303, 305, 403, 404}
BoolProps == {5, 6, 101, 205, 405, 406}
StringProps == {0, 100, 203, 400}
LongProps == {301, 304, 306}
TimeoutProps == {302, 402}
PropMap(code, ctx) ==
  CASE code \in IntProps -> <<"Prop", code, <<"Int">>>>
    [] code \in BoolProps -> <<"Prop", code, <<"Bool">>>>
    [] code \in StringProps -> <<"Prop", code, <<"String">>>>
    [] code \in LongProps -> <<"Prop", code, <<"Long">>>>
    [] code \in TimeoutProps -> <<"TimeoutProp", code>>
    [] code = PropCode.query_entities -> <<"Prop", code, QueryEntities(ctx)>>
    [] code = PropCode.cache_key_configuration -> <<"Prop", code, CacheKeyConfiguration>>
    [] code = PropCode.expiry_policy -> <<"Prop", code, <<"ExpiryPolicy">>>>

(* Mutant: what is false, zero or empty is left out. *)
CompactCacheConfig_Truthy(config) ==
  LET names == {n \in DOMAIN PropCode : n \in DOMAIN config /\ Truthy(config[n])}
  IN [code \in {PropCode[n] : n \in names} |->
        config[CHOOSE n \in names : PropCode[n] = code]]
\* The names of the structure become the codes of the properties; its length is left out.
CompactCacheConfig(config) ==
  LET names == {n \in DOMAIN PropCode : n \in DOMAIN config}
  IN [code \in {PropCode[n] : n \in names} |->
        config[CHOOSE n \in names : PropCode[n] = code]]
cache_get_configuration(ctx) ==
  Function("OP_CACHE_GET_CONFIGURATION", Cached(<<>>),
           <<<<"cache_config", CacheConfigStruct(ctx)>>>>, "cache_config")

cache_create_with_name(op) == Sends(op, <<<<"cache_name", <<"String">>>>>>)
cache_destroy == Sends("OP_CACHE_DESTROY", <<<<"cache_id", <<"Int">>>>>>)
cache_get_names == Asks("OP_CACHE_GET_NAMES", <<>>, "cache_names", <<"StringArray">>)

\* props: the properties in order, <<code, value>>.
NeedsExpiryPolicy(props) == \E i \in DOMAIN props : props[i][1] = PropCode.expiry_policy
cache_create_with_config(op, ctx, props) ==
  [query |-> ConfigQuery(op, <<<<0, <<"Short">>>>>>
                             \o [i \in DOMAIN props |-> <<i, PropMap(props[i][1], ctx)>>],
                         <<"Response", <<>>>>),
   values |-> [i \in 0 .. Len(props) |-> IF i = 0 THEN Int4(Len(props)) ELSE props[i][2]],
   takes |-> ""]

(***************************************************************************)
(* Descriptions of complex types.                                          *)
(***************************************************************************)
\* The Java hash of a name; the names here are too short for it to overflow.
HashCode(codes) == FoldLeft(LAMBDA h, c : 31 * h + c, 0, codes)
Lower(codes) == [i \in DOMAIN codes |-> IF codes[i] \in 65..90 THEN codes[i] + 32 ELSE codes[i]]
CacheId(name) == HashCode(name[2])
EntityId(name) == HashCode(Lower(name[2]))
\* FNV1 over the ids of the fields in their order, 0 without fields: any other number serves here.
SchemaId(names) == IF names = <<>> THEN 0 ELSE 1 + FoldLeft(LAMBDA h, n : 7 * h + EntityId(n), 0, names)

get_binary_type ==
  [query |-> Query("OP_GET_BINARY_TYPE", <<<<"type_id", <<"Int">>>>>>, <<"BinaryTypeResponse">>), takes |-> ""]

put_binary_type(isEnum) ==
  Sends("OP_PUT_BINARY_TYPE",
        BodyFields \o (IF isEnum THEN <<<<"enums", EnumLiterals>>>> ELSE <<>>) \o <<<<"schema", SchemaStruct>>>>)
\* schema: the fields in order, <<name, type code>>, or the literals, <<name, ordinal>>.
\* Only a type that is not an enumeration gets an id for its schema.
BinaryTypeData(name, affinityKey, isEnum, schema) ==
  LET ids == [i \in DOMAIN schema |-> StructOf([schema_field_id |-> Int4(EntityId(schema[i][1]))])]
      id == IF isEnum THEN None ELSE Int4(SchemaId([i \in DOMAIN schema |-> schema[i][1]]))
      literal(f) == StructOf([literal |-> f[1], type_id |-> Int4(f[2])])
      field(f) == StructOf([field_name |-> f[1], type_id |-> Int4(f[2]), field_id |-> Int4(EntityId(f[1]))])
  IN [type_id |-> Int4(EntityId(name)), type_name |-> name, affinity_key_field |-> affinityKey,
      is_enum |-> <<"bool", isEnum>>,
      enums |-> <<"list", IF isEnum THEN [i \in DOMAIN schema |-> literal(schema[i])] ELSE <<>>>>,
      binary_fields |-> <<"list", IF isEnum THEN <<>> ELSE [i \in DOMAIN schema |-> field(schema[i])]>>,
      schema |-> <<"list", <<StructOf([schema_id |-> id, schema_fields |-> <<"list", ids>>])>>>>]

(***************************************************************************)
(* What the caller gets: query_perform and the post-processing functions.  *)
(***************************************************************************)
PostProcess(takes, value) ==
  CASE takes \in {"", "rows"} -> value
    [] takes = "cache_config" -> CompactCacheConfig(value[2].cache_config[2])
    [] OTHER -> value[2][takes]

\* The types of the fields once the hints are known.
Resolve(q, hints) ==
  LET type(t) == IF t[1] # "Hint" THEN t ELSE IF t[2] \in DOMAIN hints THEN hints[t[2]] ELSE AnyData
  IN [q EXCEPT !.following = [i \in DOMAIN @ |-> <<@[i][1], type(@[i][2])>>]]
=============================================================================
