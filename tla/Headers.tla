------------------------------- MODULE Headers -------------------------------
(***************************************************************************)
(* What precedes the data of every message: the header of a request        *)
(* (queries/query.py), the CacheInfo of an operation on a cache            *)
(* (queries/cache_info.py) and the header of a response                    *)
(* (queries/response.py), each with its counterpart at the node, which is  *)
(* external.                                                               *)
(***************************************************************************)
EXTENDS Stream, Contexts

(***************************************************************************)
(* A request: length, operation code, query id, and the fields that        *)
(* follow.  The header is left out first and written over at the end.  A   *)
(* ConfigQuery has one number more in its header.                          *)
(***************************************************************************)
Query(op, following, response) ==
  [op |-> op, config |-> FALSE, following |-> following, response |-> response]
ConfigQuery(op, following, response) ==
  [op |-> op, config |-> TRUE, following |-> following, response |-> response]
QueryHeaderLen(q) == IF q.config THEN 18 ELSE 14

WriteQueryHeader(s, at, q, id) ==
  LET named == Put(Put(Put(Seek(s, at), Num(s.pos - at - 4), 4), <<"op", q.op>>, 2), <<"id", id>>, 8)
  IN IF q.config THEN Put(named, Num(-18), 4) ELSE named     \* length was not known yet: 0 - 18

\* create, update, access: milliseconds, or a timedelta floored to milliseconds.
PutPolicy(s, v) ==
  LET put(a, i) == Put(a, Num(v[2][i][2]), 8) IN put(put(put(s, 1), 2), 3)

\* CacheInfo: cache id, flags, then the expiry policy and the transaction that the flags announce.
\* tx: None or the id of the transaction of the context.
PutCacheInfo(s, info, ctx, tx) ==
  LET policy == info.policy # None
      inTx == IsTransactionsSupported(ctx) /\ tx # None
      flags == (IF policy THEN {"EXPIRY_POLICY_MASK"} ELSE {}) \cup (IF inTx THEN {"TRANSACTIONS_MASK"} ELSE {})
      named == Put(s, <<"cache", info.cache_id>>, 4)
      headed == Put(named, <<"flags", flags>>, 1)
      lasting == IF policy THEN PutPolicy(headed, info.policy) ELSE headed
  IN IF policy /\ ~IsExpiryPolicySupported(ctx) THEN Raise(named, "NotSupportedByClusterError")
     ELSE IF inTx THEN Put(lasting, tx, 4) ELSE lasting

\* External: the CacheInfo as the node reads it, [cache, flags, policy, tx, s]
ReadCacheInfo(s) ==
  LET flags == FieldAt(s, s.pos + 4, 1)[2]
      policy == "EXPIRY_POLICY_MASK" \in flags
      at == s.pos + 5 + (IF policy THEN 24 ELSE 0)
      inTx == "TRANSACTIONS_MASK" \in flags
  IN [cache |-> FieldAt(s, s.pos, 4)[2], flags |-> flags,
      policy |-> IF policy THEN [i \in 1..3 |-> FieldAt(s, s.pos + 5 + 8 * (i - 1), 8)[2]] ELSE <<>>,
      tx |-> IF inTx THEN FieldAt(s, at, 4) ELSE None,
      s |-> Seek(s, at + (IF inTx THEN 4 ELSE 0))]

(***************************************************************************)
(* The header of a response.                                               *)
(***************************************************************************)
\* External: topology is None or the version of a changed topology.
PutHeader(ctx, topology, error) ==
  LET headed == Put(Put(Empty(FALSE), Num(0), 4), <<"id", 0>>, 8)
      flags == (IF topology # None THEN {"RHF_TOPOLOGY_CHANGED"} ELSE {})
               \cup (IF error THEN {"RHF_ERROR"} ELSE {})
      flagged == Put(headed, <<"rhf", flags>>, 2)
      told == IF topology # None THEN Put(Put(flagged, topology, 8), Num(0), 4) ELSE flagged
  IN IF ~IsStatusFlagsSupported(ctx) THEN Put(headed, Num(IF error THEN 1 ELSE 0), 4)
     ELSE IF error THEN Put(told, Num(1), 4) ELSE told

(* Mutant: the status code is looked for before the topology version. *)
GetHeader_StatusFirst(s, ctx) ==
  LET flagged == IsStatusFlagsSupported(ctx)
      field == FieldAt(s, s.pos + 12, IF flagged THEN 2 ELSE 4)
      changed == flagged /\ "RHF_TOPOLOGY_CHANGED" \in field[2]
      error == IF flagged THEN "RHF_ERROR" \in field[2] ELSE field # Num(0)
      at == s.pos + (IF flagged THEN 14 ELSE 16) + (IF error /\ flagged THEN 4 ELSE 0)
  IN IF field[1] # (IF flagged THEN "rhf" ELSE "n")
     THEN [s |-> Raise(s, "Junk"), status |-> Junk, affinity |-> Junk, error |-> FALSE]
     ELSE [affinity |-> IF changed THEN FieldAt(s, at, 8) ELSE None,
           status |-> IF ~error THEN Num(0) ELSE IF flagged THEN FieldAt(s, at - 4, 4) ELSE field,
           s |-> Seek(s, IF changed THEN at + 12 ELSE at),
           error |-> error]
\* The header of a response: the flags announce a topology version and an error, before 1.4.0 there is
\* a status and nothing else.
GetHeader(s, ctx) ==
  LET flagged == IsStatusFlagsSupported(ctx)
      field == FieldAt(s, s.pos + 12, IF flagged THEN 2 ELSE 4)
      changed == flagged /\ "RHF_TOPOLOGY_CHANGED" \in field[2]
      error == IF flagged THEN "RHF_ERROR" \in field[2] ELSE field # Num(0)
      at == s.pos + (IF flagged THEN 14 ELSE 16) + (IF changed THEN 12 ELSE 0)
  IN IF field[1] # (IF flagged THEN "rhf" ELSE "n")
     THEN [s |-> Raise(s, "Junk"), status |-> Junk, affinity |-> Junk, error |-> FALSE]
     ELSE [affinity |-> IF changed THEN FieldAt(s, s.pos + 14, 8) ELSE None,
           status |-> IF ~error THEN Num(0) ELSE IF flagged THEN FieldAt(s, at, 4) ELSE field,
           s |-> Seek(s, IF error /\ flagged THEN at + 4 ELSE at),
           error |-> error]
=============================================================================
