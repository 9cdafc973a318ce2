------------------------------ MODULE CacheMap ------------------------------
(***************************************************************************)
(* What a cache promises: a map, one operation on it at a time.            *)
(*                                                                         *)
(* entries is a function from keys to values; asked the operation under    *)
(* way, <<>> or <<operation>>; told what the caller will be told of it,    *)
(* <<>> until it is decided.  An operation takes effect once, before its   *)
(* answer, and the answer is the one of the map at that moment; or it is   *)
(* refused without effect; or its connection is lost, and the caller does  *)
(* not learn whether it took effect.                                       *)
(***************************************************************************)
EXTENDS Integers, FiniteSets

CONSTANTS Operations     \* records [method, key, value, sample, keys, pairs], the fields a method needs
VARIABLES entries, asked, told
vars == <<entries, asked, told>>

Absent == <<"absent">>
Lookup(e, k) == IF k \in DOMAIN e THEN e[k] ELSE Absent
Without(e, ks) == [k \in DOMAIN e \ ks |-> e[k]]
Over_(e, f) == [k \in DOMAIN e \cup DOMAIN f |-> IF k \in DOMAIN f THEN f[k] ELSE e[k]]
With(e, k, v) == Over_(e, [x \in {k} |-> v])

\* The entries after operation o.
After(o, e) ==
  LET has == o.key \in DOMAIN e
      same == has /\ e[o.key] = o.sample
  IN CASE o.method \in {"put", "get_and_put"} -> With(e, o.key, o.value)
       [] o.method = "put_all" -> Over_(e, o.pairs)
       [] o.method \in {"replace", "get_and_replace"} -> IF has THEN With(e, o.key, o.value) ELSE e
       [] o.method \in {"put_if_absent", "get_and_put_if_absent"} -> IF has THEN e ELSE With(e, o.key, o.value)
       [] o.method = "replace_if_equals" -> IF same THEN With(e, o.key, o.value) ELSE e
       [] o.method \in {"get_and_remove", "remove_key", "clear_key"} -> Without(e, {o.key})
       [] o.method = "remove_if_equals" -> IF same THEN Without(e, {o.key}) ELSE e
       [] o.method \in {"remove_keys", "clear_keys"} -> Without(e, o.keys)
       [] o.method \in {"remove_all", "clear", "destroy"} -> Without(e, DOMAIN e)
       [] OTHER -> e

\* What it answers: <<"entry", value>>, <<"entries", function>>, <<"bool", b>>, <<"count", n>>, <<>>.
Answer(o, e) ==
  LET has == o.key \in DOMAIN e
  IN CASE o.method \in {"get", "local_peek", "get_and_put", "get_and_replace", "get_and_remove",
                        "get_and_put_if_absent"} -> <<"entry", Lookup(e, o.key)>>
       [] o.method = "get_all" -> <<"entries", [k \in o.keys \cap DOMAIN e |-> e[k]]>>
       [] o.method = "scan" -> <<"entries", e>>
       [] o.method = "put_if_absent" -> <<"bool", ~has>>
       [] o.method \in {"contains_key", "remove_key", "replace"} -> <<"bool", has>>
       [] o.method = "contains_keys" -> <<"bool", o.keys \subseteq DOMAIN e>>
       [] o.method \in {"replace_if_equals", "remove_if_equals"} -> <<"bool", has /\ e[o.key] = o.sample>>
       [] o.method = "get_size" -> <<"count", Cardinality(DOMAIN e)>>
       [] OTHER -> <<>>
-----------------------------------------------------------------------------
Refused == <<"refused">>
Lost == <<"lost">>

Init == entries = [k \in {} |-> Absent] /\ asked = <<>> /\ told = <<>>

Ask == asked = <<>> /\ asked' \in {<<o>> : o \in Operations} /\ UNCHANGED <<entries, told>>
Execute ==
  /\ asked # <<>> /\ told = <<>>
  /\ entries' = After(asked[1], entries)
  /\ told' = <<Answer(asked[1], entries)>>
  /\ UNCHANGED asked
Refuse == asked # <<>> /\ told = <<>> /\ told' = <<Refused>> /\ UNCHANGED <<entries, asked>>
Lose == asked # <<>> /\ told # <<Lost>> /\ told' = <<Lost>> /\ UNCHANGED <<entries, asked>>
Forget == told # <<>> /\ asked' = <<>> /\ told' = <<>> /\ UNCHANGED entries

Next == Ask \/ Execute \/ Refuse \/ Lose \/ Forget
Spec == Init /\ [][Next]_vars
=============================================================================
