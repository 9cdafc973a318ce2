------------------------------- MODULE Caches -------------------------------
(***************************************************************************)
(* The methods of Cache and AioCache (cache.py, aio_cache.py), the cache   *)
(* factories of the two clients and what the client does with the result   *)
(* of a query: unwrap_binary and status_to_exception.                      *)
(*                                                                         *)
(* A method is the function of pygridgain/api it calls, whether the node   *)
(* is chosen by the key, and what of the result it unwraps.  The methods   *)
(* of an AioCache await the node, the function and the unwrapping.         *)
(***************************************************************************)
EXTENDS Api

Method(api, keyed, unwraps) == [api |-> api, keyed |-> keyed, unwraps |-> unwraps]
OnKey(api) == Method(api, TRUE, "")
OnKeyUnwrapped(api) == Method(api, TRUE, "value")
OnAnyNode(api) == Method(api, FALSE, "")

\* Cache, in the order of the source.
CacheReadsAndWrites ==
  [destroy |-> OnAnyNode(cache_destroy), get |-> OnKeyUnwrapped(cache_get), put |-> OnKey(cache_put),
   get_all |-> Method(cache_get_all, FALSE, "values"), put_all |-> OnAnyNode(cache_put_all)]
CacheReplacesAndClears ==
  [replace |-> OnKeyUnwrapped(cache_replace), clear |-> OnAnyNode(cache_clear),
   clear_key |-> OnKey(cache_clear_key), clear_keys |-> OnAnyNode(cache_clear_keys),
   contains_key |-> OnKey(cache_contains_key), contains_keys |-> OnAnyNode(cache_contains_keys)]
CacheGetsAndDoes ==
  [get_and_put |-> OnKeyUnwrapped(cache_get_and_put),
   get_and_put_if_absent |-> OnKeyUnwrapped(cache_get_and_put_if_absent),
   put_if_absent |-> OnKey(cache_put_if_absent),
   get_and_remove |-> OnKeyUnwrapped(cache_get_and_remove),
   get_and_replace |-> OnKeyUnwrapped(cache_get_and_replace)]
CacheRemoves ==
  [remove_key |-> OnKey(cache_remove_key), remove_keys |-> OnAnyNode(cache_remove_keys),
   remove_all |-> OnAnyNode(cache_remove_all), remove_if_equals |-> OnKey(cache_remove_if_equals),
   replace_if_equals |-> OnKeyUnwrapped(cache_replace_if_equals), get_size |-> OnAnyNode(cache_get_size)]
CacheMethods == CacheReadsAndWrites @@ CacheReplacesAndClears @@ CacheGetsAndDoes @@ CacheRemoves

\* AioCache: the same functions behind an await of the node.
AioReadsAndWrites ==
  [destroy |-> OnAnyNode(cache_destroy), get |-> OnKeyUnwrapped(cache_get), put |-> OnKey(cache_put),
   get_all |-> Method(cache_get_all, FALSE, "values"), put_all |-> OnAnyNode(cache_put_all),
   replace |-> OnKeyUnwrapped(cache_replace)]
AioClearsAndContains ==
  [clear |-> OnAnyNode(cache_clear), clear_key |-> OnKey(cache_clear_key),
   clear_keys |-> OnAnyNode(cache_clear_keys), contains_key |-> OnKey(cache_contains_key),
   contains_keys |-> OnAnyNode(cache_contains_keys)]
(* Mutant: what was stored under the key is given back as it came from the node. *)
AioGetsAndDoes_Raw ==
  [get_and_put |-> OnKey(cache_get_and_put),
   get_and_put_if_absent |-> OnKey(cache_get_and_put_if_absent),
   put_if_absent |-> OnKey(cache_put_if_absent),
   get_and_remove |-> OnKey(cache_get_and_remove),
   get_and_replace |-> OnKey(cache_get_and_replace)]
AioGetsAndDoes ==
  [get_and_put |-> OnKeyUnwrapped(cache_get_and_put),
   get_and_put_if_absent |-> OnKeyUnwrapped(cache_get_and_put_if_absent),
   put_if_absent |-> OnKey(cache_put_if_absent),
   get_and_remove |-> OnKeyUnwrapped(cache_get_and_remove),
   get_and_replace |-> OnKeyUnwrapped(cache_get_and_replace)]
AioRemoves ==
  [remove_key |-> OnKey(cache_remove_key), remove_keys |-> OnAnyNode(cache_remove_keys),
   remove_all |-> OnAnyNode(cache_remove_all), remove_if_equals |-> OnKey(cache_remove_if_equals),
   replace_if_equals |-> OnKeyUnwrapped(cache_replace_if_equals), get_size |-> OnAnyNode(cache_get_size)]
AioCacheMethods == AioReadsAndWrites @@ AioClearsAndContains @@ AioGetsAndDoes @@ AioRemoves

\* clear() without keys, and with an empty list of keys, clears the whole cache.
MethodOf(table, name, args) ==
  IF name = "clear" /\ "keys" \in DOMAIN args /\ Truthy(args.keys) THEN table["clear_keys"]
  ELSE table[name]

(***************************************************************************)
(* Creating caches.  settings: a name, or a dictionary of properties.      *)
(***************************************************************************)
PropOf(settings, code) == settings[2][CHOOSE i \in DOMAIN settings[2] : settings[2][i][1] = code][2]
HasProp(settings, code) == \E i \in DOMAIN settings[2] : settings[2][i][1] = code
\* <<name, properties in order>>: properties only when there are more than the name.
ParseSettings(settings) ==
  CASE settings[1] = "str" -> <<settings, <<>>>>
    [] settings[1] = "dict" /\ HasProp(settings, PropCode.name) ->
         <<PropOf(settings, PropCode.name), IF Len(settings[2]) = 1 THEN <<>> ELSE settings[2]>>
    [] OTHER -> <<None, <<>>>>
CodesKnown(props) == \A i \in DOMAIN props : \E n \in DOMAIN PropCode : PropCode[n] = props[i][1]

\* The query of create_cache or get_or_create_cache, by name or with a configuration.
CreateRequest(byName, withConfig, ctx, settings) ==
  LET parsed == ParseSettings(settings)
  IN IF parsed[2] = <<>>
     THEN [query |-> cache_create_with_name(byName).query, values |-> [cache_name |-> parsed[1]],
           takes |-> ""]
     ELSE cache_create_with_config(withConfig, ctx, parsed[2])

(***************************************************************************)
(* Results.                                                                *)
(***************************************************************************)
\* A complex object that comes wrapped is a tuple of its bytes and an offset: it is parsed from
\* the start of the bytes.  A collection is a tuple of its type and a list or a dictionary;
\* of a linked map, whose dictionary is ordered, a plain dictionary is made.
RECURSIVE UnwrapBinary(_, _)
UnwrapBinary(v, compact) ==
  LET items == v[2][2][2]
      typed == v[1] = "tuple" /\ Len(v[2]) = 2 /\ IsInt(v[2][1])
  IN CASE v[1] = "wrapped" -> Decode(<<"BinaryObject">>, Over(v[2], compact))[1]
       [] typed /\ v[2][2][1] = "list" ->
            <<"tuple", <<v[2][1], <<"list", [i \in DOMAIN items |-> UnwrapBinary(items[i], compact)]>>>>>>
       [] typed /\ v[2][2][1] \in {"dict", "odict"} ->       \* isinstance: an OrderedDict is a dict
            <<"tuple", <<v[2][1], <<"dict", DictOf([i \in DOMAIN items |->
               <<UnwrapBinary(items[i][1], compact), UnwrapBinary(items[i][2], compact)>>])>>>>>>
       [] OTHER -> v
Unwrapped(unwraps, v, compact) ==
  CASE unwraps = "value" -> UnwrapBinary(v, compact)
    [] unwraps = "values" /\ Truthy(v) ->
         <<"dict", [i \in DOMAIN v[2] |-> <<v[2][i][1], UnwrapBinary(v[2][i][2], compact)>>]>>
    [] OTHER -> v
=============================================================================
