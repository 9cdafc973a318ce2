------------------------------ MODULE Affinity ------------------------------
(****************************************************************************)
(* Partition awareness: how get_best_node keeps the partition mappings of   *)
(* the caches as new as the topology the client has heard of, and chooses   *)
(* the node of an operation (AioClient; Client is the case of one task).    *)
(*                                                                          *)
(* A topology version is a number and the mapping of a cache is the version *)
(* it was computed for.  A node answers for all the caches it is asked for. *)
(* Which node owns a key under a mapping is left open: it is any live node, *)
(* or none that is alive.                                                   *)
(*                                                                          *)
(* The answers of one session arrive in order, so a node's view stands for  *)
(* what its answers that are about to arrive carry: an answer in flight     *)
(* while the node learns more is the same node learning it later.           *)
(****************************************************************************)
EXTENDS Naturals, Sequences

CONSTANTS
    Task,        \* coroutines that call get_best_node
    Cache,       \* cache ids
    Applicable,  \* those whose keys have owners, by the answers of the nodes
    Node,        \* connections of the client
    None,        \* no cache or node
    MaxVersion,  \* newest topology version (a bound)
    Retries,     \* AFFINITY_RETRIES
    MaxLosses    \* how often a session is lost (a bound)

ASSUME ConstantsAssumption ==
    /\ None \notin Cache \cup Node
    /\ Applicable \subseteq Cache
    /\ MaxVersion \in Nat \ {0} /\ Retries \in Nat \ {0} /\ MaxLosses \in Nat

VARIABLES
    known,       \* client.affinity_version
    version,     \* _affinity['version']
    registered,  \* the keys of _affinity['partition_mapping']
    mapping,     \* its values, 0 for the empty one
    queue,       \* the holder of _affinity_query_mux and the tasks that wait for it
    pc,          \* where each task is
    cache,       \* the cache its operation is on
    caches,      \* the caches whose mappings it asks for
    tries,       \* the failed answers to that query
    conn,        \* the node it works with
    again,       \* the nodes whose reconnect() is scheduled
    live,        \* the nodes that are alive
    view,        \* the topology version each node answers from
    told,        \* the newest version each session has carried
    losses       \* how many sessions were lost

clientVars == <<known, version, registered, mapping>>
taskVars   == <<pc, cache, caches, tries, conn>>
nodeVars   == <<live, view, told, losses>>
vars       == <<clientVars, queue, taskVars, again, nodeVars>>

Version == 0 .. MaxVersion

(* "lost" is a task whose query for the mappings raised a connection error, *)
(* "hashing" one that computes a hash code, "sending" one whose operation   *)
(* is under way on the chosen node.                                         *)
Places == {"idle", "waiting", "asking", "lost", "hashing", "sending"}

TypeOK ==
    /\ known \in Version /\ version \in Version
    /\ registered \subseteq Cache
    /\ mapping \in [Cache -> Version]
    /\ queue \in Seq(Task)
    /\ pc \in [Task -> Places]
    /\ cache \in [Task -> Cache \cup {None}]
    /\ caches \in [Task -> SUBSET Cache]
    /\ tries \in [Task -> 0 .. Retries - 1]
    /\ conn \in [Task -> Node \cup {None}]
    /\ again \subseteq Node /\ live \subseteq Node
    /\ view \in [Node -> Version \ {0}]
    /\ told \in [Node -> Version]
    /\ losses \in 0 .. MaxLosses

Init ==
    /\ known = 0 /\ version = 0
    /\ registered = {} /\ mapping = [c \in Cache |-> 0]
    /\ queue = <<>>
    /\ pc = [t \in Task |-> "idle"]
    /\ cache = [t \in Task |-> None]
    /\ caches = [t \in Task |-> {}]
    /\ tries = [t \in Task |-> 0]
    /\ conn = [t \in Task |-> None]
    /\ again = {} /\ live = Node
    /\ view = [n \in Node |-> 1]
    /\ told = [n \in Node |-> 0]
    /\ losses = 0

-----------------------------------------------------------------------------
(* The client's records.                                                    *)

(* Cache.__init__ registers the cache: the check that it is not there yet   *)
(* looks into the wrong dictionary, so each time its mapping is emptied.    *)
Register(c) ==
    /\ registered' = registered \cup {c}
    /\ mapping' = [mapping EXCEPT ![c] = 0]
    /\ UNCHANGED <<known, version, queue, taskVars, again, nodeVars>>

(* Mutant: an emptied mapping is not loaded again.                          *)
ForgetsEmpty == IF version < known THEN registered ELSE {}

(* All caches when a newer topology is known, else those without a mapping. *)
CachesToUpdate ==
    IF version < known THEN registered ELSE {c \in registered : mapping[c] = 0}

(* Mutant: the client takes every version that differs from its own.        *)
HearOlder(n) ==
    /\ known' = IF view[n] # told[n] THEN view[n] ELSE known
    /\ told' = [told EXCEPT ![n] = view[n]]

(* The answer of node n, whatever it answers, has the topology-changed flag *)
(* and the version when this session has not told it yet; the client keeps  *)
(* the greatest version it has heard of.                                    *)
Hear(n) ==
    /\ known' = IF view[n] # told[n] /\ view[n] > known THEN view[n] ELSE known
    /\ told' = [told EXCEPT ![n] = view[n]]

(* _update_affinity: the mappings of the caches cs, and the version of all. *)
UpdateAffinity(n, cs) ==
    /\ version' = view[n]
    /\ mapping' = [c \in Cache |-> IF c \in cs THEN view[n] ELSE mapping[c]]

-----------------------------------------------------------------------------
(* get_best_node.                                                           *)

(* random_node returns n: one of the live nodes or, when there is none, one *)
(* of those that reconnect.                                                 *)
RandomNode(n) ==
    \/ n \in live /\ UNCHANGED <<live, told>>
    \/ /\ live = {}
       /\ \E s \in SUBSET Node : n \in s /\ live' = s
       /\ told' = [m \in Node |-> IF m \in live' THEN 0 ELSE told[m]]

(* The mapping m of the cache c gives the number of partitions, which is    *)
(* none when the mapping is empty and 0 when it is not applicable: the      *)
(* operation then goes to the random node.                                  *)
Route(c, m) == IF m = 0 \/ c \notin Applicable THEN "sending" ELSE "hashing"

(* Looking for the mapping of c puts an empty one there if there is none.   *)
LookUp(c) == registered' = registered \cup {c}

(* The call starts with a random node; when there is none it raises, which  *)
(* changes nothing.  Taking the free mutex does not suspend the coroutine:  *)
(* that others may run between Call and Ask only adds behaviours.           *)
Call(t, c) ==
    /\ pc[t] = "idle"
    /\ cache' = [cache EXCEPT ![t] = c]
    /\ \E n \in Node : RandomNode(n) /\ conn' = [conn EXCEPT ![t] = n]
    /\ IF CachesToUpdate = {}
       THEN /\ pc' = [pc EXCEPT ![t] = Route(c, mapping[c])]
            /\ LookUp(c) /\ UNCHANGED queue
       ELSE /\ pc' = [pc EXCEPT ![t] = "waiting"]
            /\ queue' = Append(queue, t) /\ UNCHANGED registered
    /\ UNCHANGED <<known, version, mapping, caches, tries, again, view, losses>>

(* Mutant: every task that waits for the mutex has it.                      *)
HoldsToo(t) == \E i \in 1 .. Len(queue) : queue[i] = t

Holds(t) == queue # <<>> /\ Head(queue) = t

(* The call goes on at the given place without the mutex, and what it had   *)
(* to remember for the query is gone.                                       *)
Keeps(t, place) ==
    /\ pc' = [pc EXCEPT ![t] = place] /\ UNCHANGED queue
    /\ caches' = [caches EXCEPT ![t] = {}] /\ tries' = [tries EXCEPT ![t] = 0]

Releases(t, place) ==
    /\ pc' = [pc EXCEPT ![t] = place] /\ queue' = Tail(queue)
    /\ caches' = [caches EXCEPT ![t] = {}] /\ tries' = [tries EXCEPT ![t] = 0]

(* The call is over.                                                        *)
Returns(t) ==
    /\ cache' = [cache EXCEPT ![t] = None] /\ conn' = [conn EXCEPT ![t] = None]

(* The task has the mutex and looks again what there is to update, since    *)
(* another may have done it.  A query on a dead connection raises at once.  *)
Ask(t) ==
    /\ pc[t] = "waiting" /\ Holds(t)
    /\ IF CachesToUpdate = {}
       THEN Releases(t, Route(cache[t], mapping[cache[t]])) /\ LookUp(cache[t])
       ELSE /\ caches' = [caches EXCEPT ![t] = CachesToUpdate]
            /\ pc' = [pc EXCEPT ![t] = IF conn[t] \in live THEN "asking" ELSE "lost"]
            /\ UNCHANGED <<registered, queue, tries>>
    /\ UNCHANGED <<known, version, mapping, cache, conn, again, nodeVars>>

(* The mappings arrive.  Nodes that are not alive are to reconnect in the   *)
(* background.                                                              *)
Answer(t) ==
    /\ pc[t] = "asking"
    /\ Hear(conn[t]) /\ UpdateAffinity(conn[t], caches[t])
    /\ again' = again \cup (Node \ live)
    /\ Releases(t, Route(cache[t], mapping'[cache[t]])) /\ LookUp(cache[t])
    /\ UNCHANGED <<cache, conn, live, view, losses>>

(* Mutant: the mutex is kept after the last refusal.                        *)
GiveUpLocked(t) == Keeps(t, "sending")

GiveUp(t) == Releases(t, "sending")

LastTry(t) == tries[t] + 1 >= Retries

(* The node has no mapping yet and says so; after the last retry the task   *)
(* gives up and its operation goes to the random node.                      *)
Refused(t) ==
    /\ pc[t] = "asking"
    /\ Hear(conn[t])
    /\ IF LastTry(t)
       THEN GiveUp(t)
       ELSE tries' = [tries EXCEPT ![t] = @ + 1] /\ UNCHANGED <<pc, queue, caches>>
    /\ UNCHANGED <<version, registered, mapping, cache, conn, again, live, view, losses>>

(* After a connection error the task takes another random node and looks    *)
(* again, still with the mutex, or raises when there is no node left.       *)
Retry(t) ==
    /\ pc[t] = "lost"
    /\ \/ /\ \E n \in Node : RandomNode(n) /\ conn' = [conn EXCEPT ![t] = n]
          /\ Keeps(t, "waiting")
          /\ UNCHANGED cache
       \/ live = {} /\ Releases(t, "idle") /\ Returns(t) /\ UNCHANGED <<live, told>>
    /\ UNCHANGED <<clientVars, again, view, losses>>

(* The hash code is there: the operation goes to the owner of the key under *)
(* the mapping of now, if that is not empty and the owner alive, and else   *)
(* to the random node of the start.                                         *)
Choose(t) ==
    /\ pc[t] = "hashing"
    /\ \E n \in {conn[t]} \cup (IF mapping[cache[t]] = 0 THEN {} ELSE live) :
           conn' = [conn EXCEPT ![t] = n]
    /\ pc' = [pc EXCEPT ![t] = "sending"]
    /\ UNCHANGED <<clientVars, queue, cache, caches, tries, again, nodeVars>>

(* The operation is answered, or raises on a dead connection.               *)
Finish(t) ==
    /\ pc[t] = "sending"
    /\ IF conn[t] \in live THEN Hear(conn[t]) ELSE UNCHANGED <<known, told>>
    /\ pc' = [pc EXCEPT ![t] = "idle"] /\ Returns(t)
    /\ UNCHANGED <<version, registered, mapping, queue, caches, tries, again>>
    /\ UNCHANGED <<live, view, losses>>

(* An operation without a key goes to a live node as it is and is answered. *)
Keyless(n) ==
    /\ n \in live /\ Hear(n)
    /\ UNCHANGED <<version, registered, mapping, queue, taskVars, again, live, view, losses>>

(* A scheduled reconnect() ends: the node is alive again or not.            *)
Reconnected(n) ==
    /\ n \in again
    /\ again' = again \ {n}
    /\ \/ UNCHANGED <<live, told>>
       \/ n \notin live /\ live' = live \cup {n} /\ told' = [told EXCEPT ![n] = 0]
    /\ UNCHANGED <<clientVars, queue, taskVars, view, losses>>

-----------------------------------------------------------------------------
(* The cluster and the network.                                             *)

(* A node learns of a newer topology, some nodes before others.             *)
Learn(n) ==
    /\ view[n] < MaxVersion
    /\ view' = [view EXCEPT ![n] = @ + 1]
    /\ UNCHANGED <<clientVars, queue, taskVars, again, live, told, losses>>

(* A session is lost: queries that wait for its answers raise, and so do    *)
(* the operations, whose calls are over.                                    *)
Lose(n) ==
    /\ n \in live /\ losses < MaxLosses
    /\ losses' = losses + 1
    /\ live' = live \ {n}
    /\ LET over == {t \in Task : conn[t] = n /\ pc[t] = "sending"}
       IN  /\ pc' = [t \in Task |-> IF t \in over THEN "idle"
                                    ELSE IF conn[t] = n /\ pc[t] = "asking" THEN "lost"
                                    ELSE pc[t]]
           /\ cache' = [t \in Task |-> IF t \in over THEN None ELSE cache[t]]
           /\ conn' = [t \in Task |-> IF t \in over THEN None ELSE conn[t]]
    /\ UNCHANGED <<clientVars, queue, caches, tries, again, view, told>>

-----------------------------------------------------------------------------
Steps(t) == Ask(t) \/ Answer(t) \/ Refused(t) \/ Retry(t) \/ Choose(t) \/ Finish(t)

Next ==
    \/ \E c \in Cache : Register(c)
    \/ \E t \in Task : Steps(t) \/ \E c \in Cache : Call(t, c)
    \/ \E n \in Node : Keyless(n) \/ Reconnected(n) \/ Learn(n) \/ Lose(n)

Spec == Init /\ [][Next]_vars

(* The event loop runs the tasks that can run, and nodes answer or their    *)
(* sessions end.                                                            *)
FairSpec == Spec /\ \A t \in Task : WF_vars(Steps(t))

-----------------------------------------------------------------------------
(* Properties.                                                              *)

(* No mapping, nor the version of the last ones, is newer than the newest   *)
(* topology the client has heard of (client.py:282, query.py:225): a        *)
(* version that ran ahead would hide the change of topology it is ahead of. *)
NeverAhead == version <= known /\ \A c \in Cache : mapping[c] <= known

(* An operation is sent without looking for the owner of its key only when  *)
(* the keys of its cache have no owners (api/affinity.py:117-127), the node *)
(* kept refusing the mappings (aio_client.py:390), or the cache was not     *)
(* there to be asked for: get_cache emptied its mapping, or the call itself *)
(* made it known, while or after mappings were asked for.                   *)
Blind(t) == pc'[t] = "sending" /\ pc[t] \notin {"sending", "hashing"}

BlindForAReason ==
    [][\A t \in Task : Blind(t) =>
           \/ cache'[t] \notin Applicable /\ mapping'[cache'[t]] # 0
           \/ pc[t] = "asking" /\ tries[t] + 1 = Retries
           \/ pc[t] = "asking" /\ cache[t] \notin caches[t]
           \/ pc[t] # "asking" /\ cache'[t] \notin registered]_vars

(* What a task asks for is still to be loaded as long as it asks, whatever  *)
(* others do while it waits, is refused or loses its node: tasks that       *)
(* waited for the mutex do not load what the first of them has loaded       *)
(* (aio_client.py:367-392).                                                 *)
StillToLoad ==
    \A t \in Task : pc[t] \in {"asking", "lost"} =>
        \A c \in caches[t] : mapping[c] = 0 \/ version < known

(* Every call returns or raises: no path keeps the mutex                    *)
(* (aio_client.py:367-392).                                                 *)
CallsReturn == \A t \in Task : pc[t] # "idle" ~> pc[t] = "idle"

(* "all registered cache updated on new server", the name of the test at    *)
(* tests/affinity/test_affinity_request_routing.py:449: a client that has   *)
(* nothing to update has every mapping for the newest topology it knows.    *)
UpToDate == CachesToUpdate = {} => \A c \in registered : mapping[c] >= known
=============================================================================
