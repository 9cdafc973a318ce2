-------------------------------- MODULE Seen --------------------------------
(***************************************************************************)
(* The entries of a cache and the answers about them as the types and      *)
(* values they hold, in place of bytes: what relates the calls of a client *)
(* and its node to the map of CacheMap.                                    *)
(***************************************************************************)
EXTENDS Node

CONSTANTS
  Reads_Back       \* <<type, value written, value read>>, where the two differ

\* The type code an object starts with, and what it holds, as unwrap_binary leaves it.
TypedRaw(raw, compact) ==
  <<FieldAt(Over(raw, TRUE), 0, 1)[2], UnwrapBinary(GetAny(Over(raw, compact))[1], compact)>>
TypedStore(e, compact) ==
  FoldSet(LAMBDA r, f : (TypedRaw(r, compact) :> TypedRaw(e[r], compact)) @@ f, Nothing, DOMAIN e)

\* The same for a value that is passed with a hint or without.
Typed(type, v) ==
  LET changed == {x \in Reads_Back : x[1] = type /\ x[2] = v}
  IN <<IF type = Unknown THEN -1 ELSE Class[type[1]].code, IF changed = {} THEN v ELSE (CHOOSE x \in changed : TRUE)[3]>>
TypedItem(v) == IF IsHinted(v) THEN Typed(v[2][2][2], v[2][1]) ELSE Typed(MapPythonType(v), v)
TypedArg(a, name, hint) == Typed(IF hint \in DOMAIN a THEN a[hint] ELSE MapPythonType(a[name]), a[name])

\* The operation on the map that a call asks for, with the fields that the call has.  No method of a
\* cache calls cache_local_peek, and whoever does gets what the node sent, wrapped or not.
Queries == {"scan", "scan_page", "sql", "sql_page", "vector", "vector_page"}
MapMethods == DOMAIN CacheMethods \cup Queries
AbstractMethod(c) ==
  IF c.method \in Queries THEN "scan"
  ELSE IF c.method = "clear" /\ "keys" \in DOMAIN c.args /\ Truthy(c.args.keys) THEN "clear_keys" ELSE c.method
AbstractOf(c) ==
  LET a == c.args
      pairs == FoldLeft(LAMBDA f, p : (TypedItem(p[1]) :> TypedItem(p[2])) @@ f, Nothing, a.data[2])
      of(name) == CASE name = "keys" -> {TypedItem(Items(a.keys)[i]) : i \in DOMAIN Items(a.keys)}
                    [] name = "key" -> TypedArg(a, "key", "key_hint")
                    [] name = "value" -> TypedArg(a, "value", "value_hint")
                    [] OTHER -> TypedArg(a, "sample", "sample_hint")
      op == (IF "data" \in DOMAIN a THEN [pairs |-> pairs] ELSE <<>>) @@ [method |-> AbstractMethod(c)]
  IN op @@ [name \in {"keys", "key", "value", "sample"} \cap DOMAIN a |-> of(name)]

TypedAnswer(answer, compact) ==
  CASE answer = <<>> -> answer
    [] answer[1] = "entry" /\ answer[2] # Map!Absent -> <<"entry", TypedRaw(answer[2], compact)>>
    [] answer[1] = "entries" -> <<"entries", TypedStore(answer[2], compact)>>
    [] OTHER -> answer

\* The pairs a caller is given: of get_all, and of the rows of SQL and the entries that a cursor unwraps.
UnwrappedPair(p, compact) == <<UnwrapBinary(p[1], compact), UnwrapBinary(p[2], compact)>>
PairsOf(method, v, compact) ==
  CASE method = "get_all" -> v[2]
    [] method \in {"sql", "sql_page"} -> [i \in DOMAIN v[2].data[2] |-> UnwrappedPair(v[2].data[2][i][2], compact)]
    [] OTHER -> [i \in DOMAIN v[2].data[2] |-> UnwrappedPair(v[2].data[2][i], compact)]
Wrong == <<"wrong">>
ReceivedEntries(e, pairs) ==
  LET for(k) == {i \in DOMAIN pairs : pairs[i][1] = k[2]}
  IN IF Len(pairs) # Cardinality(DOMAIN e) \/ \E k \in DOMAIN e : for(k) = {} THEN Wrong
     ELSE <<"entries", [k \in DOMAIN e |-> <<e[k][1], pairs[CHOOSE i \in for(k) : TRUE][2]>>]>>
\* What the caller was told, with the type codes of the answer, itself in types and values.
Received(method, answer, v, compact) ==
  CASE answer = <<>> -> IF v = None THEN <<>> ELSE Wrong
    [] answer[1] = "entry" -> IF answer[2] # Map!Absent THEN <<"entry", <<answer[2][1], v>>>>
                              ELSE IF v = None THEN answer ELSE Wrong
    [] answer[1] = "entries" ->
         ReceivedEntries(answer[2], PairsOf(method, v, compact))
    [] answer[1] = "count" -> <<"count", v[2]>>
    [] OTHER -> v
=============================================================================
