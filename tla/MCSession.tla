------------------------------ MODULE MCSession ------------------------------
\* A client of each kind, nodes of four layouts, and a value of every class of data types.
EXTENDS Session

I(n) == <<"int", n>>
F(n) == <<"float", n>>
S(codes) == <<"str", codes>>
List(s) == <<"list", s>>
Tuple(s) == <<"tuple", s>>
Dict(pairs) == <<"dict", pairs>>
Uuid == <<"uuid", [i \in 1..16 |-> 15 * i]>>
Hinted(v, class) == Tuple(<<v, <<"type", <<class>>>>>>)

Point == <<<<"x", <<"IntObject">>>>, <<"label", <<"String">>>>>>
MCSchemas == [Point |-> Point, Empty |-> <<>>,
              Holder |-> <<<<"point", <<"BinaryObject">>>>, <<"items", <<"CollectionObject">>>>>>,
              Long |-> <<<<"times", <<"TimestampArrayObject">>>>, <<"text", <<"String">>>>, <<"x", <<"IntObject">>>>>>]
P == <<"obj", "Point", 1, <<I(5), S(<<97>>)>>>>
Holder == <<"obj", "Holder", 1, <<P, Tuple(<<I(1), List(<<P, None>>)>>)>>>>
\* The last field starts at 242 + n: with 12 characters at the last offset that fits a byte.
Time == Tuple(<<<<"datetime", 7, 0>>, I(9)>>)
Long(n) == <<"obj", "Long", 1, <<List([i \in 1..16 |-> Time]), S([i \in 1..n |-> 97]), I(1)>>>>

U == [api |-> "sync", compact |-> TRUE, credentials |-> <<S(<<117>>), S(<<112, 119>>)>>, timezone |-> None]
NotAscii == <<S(<<117>>), S(<<228, 8364>>)>>
MCClients == {U, [U EXCEPT !.api = "aio", !.compact = FALSE, !.timezone = S(<<85, 84, 67>>)],
              [U EXCEPT !.credentials = <<>>], [U EXCEPT !.credentials = NotAscii]}
MCNodes == {[version |-> <<1, 1, 0>>, features |-> {}], [version |-> <<1, 3, 0>>, features |-> {}], [version |-> <<1, 6, 0>>, features |-> {}],
            [version |-> <<1, 7, 1>>, features |-> {"CLUSTER_API"}],
            [version |-> <<1, 7, 1>>, features |-> AllSupported]}
MCLogins == {U.credentials, NotAscii}
MCTopologies == {None, Num(5)}
MCPolicy == <<"expiry", <<I(-2), I(100), I(-1)>>>>
MCCacheName == S(<<99>>)

Linked(kind) == Tuple(<<I(2), <<kind, <<<<I(3), None>>, <<I(1), List(<<I(2)>>)>>>>>>>>)
\* Values without a hint, and with one; what reads back differently is in MCReadsBack.
Plainly == {
  I(-1), <<"bool", TRUE>>, F(2), S(<<97, 233, 8364>>), S(<<>>), <<"bytes", <<0, 255>>>>, Uuid,
  <<"datetime", 1000, 0>>, <<"date", 2>>, <<"timedelta", -3, 500>>, <<"decimal", 1, 1280, -2>>,
  <<"decimal", 0, 128, 0>>, <<"decimal", 0, 0, 0>>, List(<<I(1), I(-2)>>), List(<<S(<<97>>), None>>),
  List(<<F(1)>>), List(<<<<"bool", TRUE>>>>), List(<<Uuid, None>>), List(<<<<"decimal", 0, 7, 0>>>>),
  List(<<<<"timedelta", 5, 0>>, None>>), List(<<<<"datetime", 9, 0>>>>),
  Tuple(<<I(1), List(<<I(1), S(<<97>>), None>>)>>), Tuple(<<I(1), Dict(<<<<I(1), S(<<98>>)>>, <<S(<<>>), P>>>>)>>),
  Linked("odict"), P, <<"obj", "Empty", 1, <<>>>>, Holder, Long(12), Long(13) }
MCHinted == {
  <<I(-128), "ByteObject">>, <<I(-32768), "ShortObject">>, <<I(3), "IntObject">>, <<I(4), "LongObject">>,
  <<I(5), "FloatObject">>, <<F(6), "DoubleObject">>, <<S(<<1078>>), "CharObject">>, <<I(1), "BoolObject">>,
  <<List(<<I(-128), I(255)>>), "ByteArrayObject">>, <<List(<<I(-2)>>), "ShortArrayObject">>,
  <<Tuple(<<I(3)>>), "IntArrayObject">>, <<List(<<>>), "LongArrayObject">>, <<List(<<F(1)>>), "FloatArrayObject">>,
  <<List(<<F(1)>>), "DoubleArrayObject">>, <<List(<<S(<<97>>), S(<<1078>>)>>), "CharArrayObject">>,
  <<List(<<<<"bool", FALSE>>>>), "BoolArrayObject">>,
  <<Tuple(<<<<"datetime", 7, 0>>, I(999)>>), "TimestampObject">>, <<Tuple(<<I(3), I(4)>>), "EnumObject">>,
  <<Tuple(<<I(3), I(4)>>), "BinaryEnumObject">>,
  <<List(<<None, Tuple(<<<<"datetime", 7, 0>>, I(9)>>)>>), "TimestampArrayObject">>,
  <<Tuple(<<I(3), List(<<Tuple(<<I(3), I(4)>>), None>>)>>), "EnumArrayObject">>,
  <<Tuple(<<I(-1), List(<<I(1), P, Hinted(I(2), "ShortObject")>>)>>), "ObjectArrayObject">>,
  <<Tuple(<<I(1), Dict(<<<<Hinted(I(1), "IntObject"), Hinted(S(<<97>>), "CharObject")>>>>)>>), "MapObject">> }
MCReadsBack == {
  <<<<"DateObject">>, <<"date", 2>>, <<"datetime", 2 * DayMs, 0>>>>,
  <<<<"TimeObject">>, <<"timedelta", -3, 500>>, <<"timedelta", -2, 0>>>>,
  <<<<"DecimalObject">>, <<"decimal", 1, 1280, -2>>, <<"decimal", 1, 128, -1>>>>,
  <<<<"FloatObject">>, I(5), F(5)>>, <<<<"BoolObject">>, I(1), <<"bool", TRUE>>>>,
  <<<<"MapObject">>, Linked("odict"), Linked("dict")>>,
  <<<<"ByteArrayObject">>, List(<<I(-128), I(255)>>), <<"bytes", <<128, 255>>>>>>,
  <<<<"IntArrayObject">>, Tuple(<<I(3)>>), List(<<I(3)>>)>>,
  <<<<"ObjectArrayObject">>, Tuple(<<I(-1), List(<<I(1), P, Hinted(I(2), "ShortObject")>>)>>),
    Tuple(<<I(-1), List(<<I(1), P, I(2)>>)>>)>>,
  <<<<"MapObject">>, Tuple(<<I(1), Dict(<<<<Hinted(I(1), "IntObject"), Hinted(S(<<97>>), "CharObject")>>>>)>>),
    Tuple(<<I(1), Dict(<<<<I(1), S(<<97>>)>>>>)>>)>> }

None_ == [peek_modes |-> None]
SqlArgs == [schema |-> S(<<80>>), page_size |-> I(1), max_rows |-> I(-1), query_str |-> S(<<81>>),
            query_args |-> List(<<I(1), S(<<97>>)>>), statement_type |-> I(0), distributed_joins |-> False,
            local |-> False, replicated_only |-> False, enforce_join_order |-> False, collocated |-> False,
            lazy |-> False, timeout |-> I(0)]
ScanArgs == [filter |-> None, page_size |-> I(1), partitions |-> I(-1), local |-> False]
VectorArgs == [page_size |-> I(1), type_name |-> S(<<84>>), field |-> S(<<102>>),
               clause_vector |-> List(<<F(1), F(2)>>), k |-> I(3), threshold |-> F(0)]
Query_ == ScanArgs @@ VectorArgs @@ SqlArgs @@ [include_field_names |-> False]

\* A sample is put under the key 9, or is itself the key.
Put_(key, value) == [key |-> key, value |-> value, sample |-> value, keys |-> List(<<key>>)] @@ Query_ @@ None_
AsKey(v) == [method |-> "put", args |-> Put_(v, I(1))]
Samples == {[method |-> "put", args |-> Put_(I(9), v)] : v \in Plainly}
  \cup {[method |-> "put", args |-> [value_hint |-> <<x[2]>>, sample_hint |-> <<x[2]>>] @@ Put_(I(9), x[1])] : x \in MCHinted}
  \cup {AsKey(v) : v \in {S(<<233>>), Uuid, P, <<"bytes", <<1>>>>, <<"decimal", 0, 5, 0>>}}
  \cup {[method |-> "put", args |-> [Put_(I(8), I(1)) EXCEPT !.keys = List(<<Hinted(I(8), "ShortObject")>>)]
                                    @@ [key_hint |-> <<"ShortObject">>]]}
Reads == {"get", "get_all", "scan", "sql", "get_and_remove", "remove_if_equals"}

A == I(1)
B == S(<<98>>)
Call(m, args) == [method |-> m, args |-> args]
On(methods, args) == {Call(m, args) : m \in methods}
Both == [keys |-> List(<<A, B>>)]
EntryCalls ==
  On({"get", "clear_key", "contains_key", "get_and_remove", "remove_key"}, [key |-> A])
  \cup On({"put", "replace", "get_and_put_if_absent", "put_if_absent"}, [key |-> A, value |-> I(7)])
  \cup On({"put", "get_and_put", "get_and_replace"}, [key |-> A, value |-> P])
  \cup On({"put"}, [key |-> B, value |-> I(7)])
  \cup On({"get_all", "clear", "clear_keys", "contains_keys", "remove_keys"}, Both)
  \cup On({"clear"}, [keys |-> List(<<>>)])
  \cup On({"remove_all", "clear"}, [none |-> None])
  \cup On({"put_all"}, [data |-> Dict(<<<<A, P>>, <<B, Hinted(I(7), "LongObject")>>>>)])
  \cup On({"remove_if_equals", "replace_if_equals"}, [key |-> A, sample |-> I(7), value |-> P])
  \cup On({"get_size"}, [peek_modes |-> None]) \cup On({"get_size"}, [peek_modes |-> I(1)])
  \cup On({"local_peek"}, [key |-> A, peek_modes |-> List(<<I(0), I(2)>>)])
  \cup On(Queries, Query_) \cup On({"sql"}, [Query_ EXCEPT !.include_field_names = <<"bool", TRUE>>])
  \cup On({"get"}, [key |-> Dict(<<>>)])
  \cup On({"put"}, [key |-> A, value |-> S(<<97>>), value_hint |-> <<"IntObject">>])

InContext == {"put", "get", "clear_keys", "get_size"}
Afterwards == {"put", "get", "settings", "get_state", "get_or_create_cache", "with_expire_policy", "destroy"}

Named_ == <<0, MCCacheName>>
Entity(index) == StructOf([
  key_type_name |-> S(<<75>>), value_type_name |-> S(<<86>>), table_name |-> S(<<84>>),
  key_field_name |-> None, value_field_name |-> None,
  query_fields |-> List(<<StructOf([name |-> S(<<97>>), type_name |-> S(<<73>>), precision |-> I(3)])>>),
  field_name_aliases |-> List(<<StructOf([field_name |-> S(<<97>>), alias |-> S(<<65>>)])>>),
  query_indexes |-> List(<<StructOf([index_name |-> S(<<105>>), index_type |-> I(3), inline_size |-> I(0),
     fields |-> List(<<StructOf([name |-> S(<<97>>), is_descending |-> <<"bool", TRUE>>])>>)] @@ index)>>)])
Settings == {MCCacheName} \cup {Dict(props) : props \in {
  <<Named_>>,
  <<Named_, <<1, I(2)>>, <<2, I(0)>>, <<3, I(1)>>, <<4, I(1)>>, <<5, <<"bool", TRUE>>>>, <<6, False>>,
    <<100, S(<<100>>)>>, <<302, I(10)>>, <<301, I(7)>>, <<402, I(0)>>, <<407, MCPolicy>>>>,
  <<<<200, List(<<Entity([similarity_function |-> I(2)])>>)>>, <<401, List(<<StructOf(
      [type_name |-> S(<<75>>), affinity_key_field_name |-> S(<<97>>)])>>)>>, <<404, I(4)>>, Named_>>,
  <<Named_, <<302, I(-1)>>>>, <<<<1, I(2)>>>>, <<Named_, <<999, I(1)>>>>}}
OtherCalls ==
  {Call(m, [settings |-> s]) : m \in {"create_cache", "get_or_create_cache"}, s \in Settings}
  \cup On({"get_cache"}, [settings |-> MCCacheName])
  \cup On({"get_cache"}, [settings |-> Dict(<<Named_, <<1, I(2)>>>>)])
  \cup On({"settings", "destroy", "get_cache_names", "with_expire_policy", "close", "get_state"}, [none |-> None])
  \cup {Call("set_state", [state |-> I(n)]) : n \in {0, 1, 7}}
  \cup On({"tx_start"}, [concurrency |-> I(1), isolation |-> I(2), timeout |-> I(0), label |-> None])
  \cup On({"tx_end"}, [committed |-> <<"bool", TRUE>>])
  \cup On({"get_binary_type"}, [name |-> S(<<84>>)])
  \cup On({"put_binary_type"}, [name |-> S(<<84>>), affinity_key |-> None,
                               schema |-> <<<<S(<<97>>), 3>>, <<S(<<98>>), 9>>>>])
SampleReads == {Call(m, s.args) : m \in Reads, s \in Samples}
MCCalls == EntryCalls \cup OtherCalls \cup Samples \cup SampleReads
-----------------------------------------------------------------------------
\* Bound: what is called depends on what is stored.  A sample is put into an empty cache and only read
\* then; a cache with a configuration of its own holds nothing; a transaction or a policy sees a few
\* calls, and so does a node that has replaced another.
Offered ==
  LET put == {s \in Samples : LET key == TypedArg(s.args, "key", "key_hint")
                              IN key \in DOMAIN typed /\ typed[key] = TypedArg(s.args, "value", "value_hint")}
      plain == cache.policy = None /\ tx = None
      of(names) == {c \in OtherCalls : c.method \in names}
      inContext == {c \in EntryCalls : c.method \in InContext}
  IN CASE node.config = <<>> /\ plain /\ node.types = Nothing -> inContext \cup OtherCalls
       [] node.types # Nothing -> of({"get_binary_type", "create_cache"})
       [] (node.config # <<>> /\ DOMAIN node.config[1] # {PropCode.name}) \/ cache.settings # <<>> ->
            of({"settings", "get_cache", "destroy"} \cup Creating)
       [] typed # Nothing /\ put # {} -> UNION {{Call(m, s.args) : m \in Reads} : s \in put}
       [] node.state # 1 -> of({"get_state", "set_state", "settings"})
       [] ~plain -> inContext \cup of({"tx_start", "tx_end", "get_cache"})
       [] typed = Nothing -> EntryCalls \cup OtherCalls \cup Samples
       [] OTHER -> EntryCalls
Asks_ == IF left = MaxReplacements THEN Offered ELSE {c \in Offered : c.method \in Afterwards}
Replaceable == step = "idle" /\ typed = Nothing /\ node.types = Nothing /\ tx = None

\* The level for each of the two apis.
MCInit == Init /\ debug = (client.api = "aio")
MCNext ==
  \/ Connects \/ Handshakes \/ (\E c \in Asks_ : Invoke(c)) \/ Serve \/ Return \/ Take
  \/ Lose \/ (Replaceable /\ Replaced)
MCSpec == MCInit /\ [][MCNext]_vars
=============================================================================
