--------------------------- MODULE AffinityProofs ---------------------------
(****************************************************************************)
(* What Affinity guarantees for any number of tasks, caches, nodes, changes *)
(* of topology and lost sessions.  The argument: only the task at the head  *)
(* of the queue asks, so the queue is not empty when it leaves; what a      *)
(* session has told is known, an answer tells its version before its        *)
(* mappings are taken, and nobody else loads mappings while a task asks.    *)
(****************************************************************************)
EXTENDS Affinity, SequenceTheorems, TLAPS

-----------------------------------------------------------------------------
(* The invariant                                                            *)

(* A task that asks, or lost its query, has the mutex.                      *)
HeadInv == \A t \in Task : pc[t] \in {"asking", "lost"} => Holds(t)

(* A call is on a cache and has a node.                                     *)
CallInv == \A t \in Task : pc[t] # "idle" => cache[t] \in Cache /\ conn[t] \in Node

(* What a session has told is known.                                        *)
ToldInv == \A n \in Node : told[n] <= known

IInv == TypeOK /\ HeadInv /\ CallInv /\ ToldInv /\ NeverAhead /\ StillToLoad

-----------------------------------------------------------------------------
(* Type correctness, one part of the state at a time                        *)

ClientTypes ==
    /\ known \in Version /\ version \in Version
    /\ registered \subseteq Cache
    /\ mapping \in [Cache -> Version]
TaskTypes ==
    /\ pc \in [Task -> Places]
    /\ cache \in [Task -> Cache \cup {None}]
    /\ caches \in [Task -> SUBSET Cache]
    /\ tries \in [Task -> 0 .. Retries - 1]
    /\ conn \in [Task -> Node \cup {None}]
NodeTypes ==
    /\ again \subseteq Node /\ live \subseteq Node
    /\ view \in [Node -> Version \ {0}]
    /\ told \in [Node -> Version]
    /\ losses \in 0 .. MaxLosses

LEMMA Types == TypeOK <=> ClientTypes /\ queue \in Seq(Task) /\ TaskTypes /\ NodeTypes
BY DEF TypeOK, ClientTypes, TaskTypes, NodeTypes

LEMMA TypesNext ==
    ClientTypes' /\ queue' \in Seq(Task) /\ TaskTypes' /\ NodeTypes' => TypeOK'
BY DEF TypeOK, ClientTypes, TaskTypes, NodeTypes

(* What the versions are.                                                   *)
LEMMA VersionsAreNaturals == Version \subseteq Nat /\ 0 \in Version /\ 1 \in Version \ {0}
BY ConstantsAssumption DEF Version

(* What a response does to what the client and the session know.            *)
LEMMA HearTypes ==
    ASSUME ClientTypes, NodeTypes, ToldInv, NEW n \in Node, Hear(n)
    PROVE  /\ known' \in Version /\ told' \in [Node -> Version]
           /\ known <= known' /\ view[n] <= known'
           /\ \A m \in Node : told'[m] <= known'
<1>1. /\ view[n] \in Version /\ known \in Version /\ told[n] \in Version
      /\ view[n] \in Nat /\ known \in Nat
      /\ \A m \in Node : told[m] \in Nat
  BY VersionsAreNaturals DEF ClientTypes, NodeTypes
<1>2. /\ known' = IF view[n] # told[n] /\ view[n] > known THEN view[n] ELSE known
      /\ told' = [told EXCEPT ![n] = view[n]]
  BY DEF Hear
<1>3. known' \in Version /\ known <= known' /\ view[n] <= known'
  BY <1>1, <1>2 DEF ToldInv
<1>4. told' \in [Node -> Version]
  BY <1>1, <1>2 DEF NodeTypes
<1>5. \A m \in Node : told'[m] = IF m = n THEN view[n] ELSE told[m]
  BY <1>2 DEF NodeTypes
<1>6. \A m \in Node : told'[m] <= known'
  BY <1>1, <1>3, <1>5, VersionsAreNaturals DEF ToldInv
<1> QED BY <1>3, <1>4, <1>6

(* Choosing a random node keeps the types of the nodes.                     *)
LEMMA RandomTypes ==
    ASSUME ClientTypes, NodeTypes, ToldInv, NEW n \in Node, RandomNode(n)
    PROVE  /\ live' \subseteq Node /\ told' \in [Node -> Version]
           /\ \A m \in Node : told'[m] <= known
<1>1. /\ live' \subseteq Node
      /\ told' = told \/ told' = [m \in Node |-> IF m \in live' THEN 0 ELSE told[m]]
  BY DEF RandomNode, NodeTypes
<1>2. 0 <= known
  BY VersionsAreNaturals DEF ClientTypes
<1> QED BY <1>1, <1>2, VersionsAreNaturals DEF NodeTypes, ToldInv

(* Leaving the queue keeps the types of the tasks.                          *)
LEMMA ReleaseTypes ==
    ASSUME TypeOK, NEW t \in Task, NEW p \in Places,
           Releases(t, p) \/ Keeps(t, p)
    PROVE  /\ pc' \in [Task -> Places]
           /\ caches' \in [Task -> SUBSET Cache]
           /\ tries' \in [Task -> 0 .. Retries - 1]
           /\ queue # <<>> => queue' \in Seq(Task)
<1>1. /\ pc' = [pc EXCEPT ![t] = p]
      /\ caches' = [caches EXCEPT ![t] = {}]
      /\ tries' = [tries EXCEPT ![t] = 0]
      /\ queue' = Tail(queue) \/ queue' = queue
  BY DEF Releases, Keeps
<1>2. 0 \in 0 .. Retries - 1
  BY ConstantsAssumption
<1>3. queue # <<>> => queue' \in Seq(Task)
  <2>1. queue \in Seq(Task)
    BY DEF TypeOK
  <2>2. queue # <<>> => Tail(queue) \in Seq(Task)
    BY <2>1, HeadTailProperties
  <2> QED BY <1>1, <2>1, <2>2
<1> QED BY <1>1, <1>2, <1>3 DEF TypeOK

LEMMA RoutePlaces == \A c, m : Route(c, m) \in Places
BY DEF Route, Places

(* Every step keeps the types.                                              *)
LEMMA TypeStep ==
    ASSUME TypeOK, HeadInv, CallInv, ToldInv, [Next]_vars
    PROVE  TypeOK'
<1>0. ClientTypes /\ queue \in Seq(Task) /\ TaskTypes /\ NodeTypes
  BY Types
<1> USE TypesNext
<1>1. ASSUME NEW c \in Cache, Register(c) PROVE TypeOK'
  BY <1>0, <1>1, VersionsAreNaturals DEF Register, ClientTypes, TaskTypes, NodeTypes, taskVars, nodeVars
<1>2. ASSUME NEW t \in Task, NEW c \in Cache, Call(t, c) PROVE TypeOK'
  <2>1. PICK n \in Node : RandomNode(n) /\ conn' = [conn EXCEPT ![t] = n]
    BY <1>2 DEF Call
  <2>2. live' \subseteq Node /\ told' \in [Node -> Version]
    BY <1>0, <2>1, RandomTypes
  <2>3. queue' \in Seq(Task)
    BY <1>0, <1>2, AppendProperties DEF Call
  <2>4. pc' \in [Task -> Places]
    <3>1. \/ pc' = [pc EXCEPT ![t] = Route(c, mapping[c])]
          \/ pc' = [pc EXCEPT ![t] = "waiting"]
      BY <1>2 DEF Call
    <3>2. Route(c, mapping[c]) \in Places /\ "waiting" \in Places
      BY RoutePlaces DEF Places
    <3> QED BY <1>0, <3>1, <3>2 DEF TaskTypes
  <2>5. TaskTypes'
    BY <1>0, <1>2, <2>1, <2>4 DEF Call, TaskTypes
  <2>6. ClientTypes' /\ NodeTypes'
    BY <1>0, <1>2, <2>2 DEF Call, LookUp, ClientTypes, NodeTypes
  <2> QED BY <2>3, <2>5, <2>6
<1>3. ASSUME NEW t \in Task, Ask(t) PROVE TypeOK'
  <2>0. cache[t] \in Cache
    BY <1>3 DEF Ask, CallInv
  <2>1. ClientTypes' /\ NodeTypes'
    BY <1>0, <1>3, <2>0 DEF Ask, LookUp, ClientTypes, NodeTypes, nodeVars
  <2>2. queue # <<>> /\ cache' = cache /\ conn' = conn
    BY <1>3 DEF Ask, Holds
  <2>3. CASE CachesToUpdate = {}
    BY <1>0, <1>3, <2>1, <2>2, <2>3, ReleaseTypes, RoutePlaces DEF Ask, TaskTypes
  <2>4. CASE CachesToUpdate # {}
    <3>1. CachesToUpdate \in SUBSET Cache
      BY <1>0 DEF CachesToUpdate, ClientTypes
    <3>2. TaskTypes' /\ queue' = queue
      BY <1>0, <1>3, <2>2, <2>4, <3>1 DEF Ask, TaskTypes, Places
    <3> QED BY <1>0, <2>1, <3>2
  <2> QED BY <2>3, <2>4
<1>4. ASSUME NEW t \in Task, Answer(t) PROVE TypeOK'
  <2>1. queue # <<>> /\ conn[t] \in Node /\ cache[t] \in Cache
    BY <1>4 DEF Answer, HeadInv, CallInv, Holds
  <2>2. known' \in Version /\ told' \in [Node -> Version]
    BY <1>0, <1>4, <2>1, HearTypes DEF Answer
  <2>3. view[conn[t]] \in Version
    BY <1>0, <2>1 DEF NodeTypes
  <2>4. ClientTypes'
    BY <1>0, <1>4, <2>1, <2>2, <2>3 DEF Answer, UpdateAffinity, LookUp, ClientTypes
  <2>5. NodeTypes'
    BY <1>0, <1>4, <2>2 DEF Answer, NodeTypes
  <2>6. queue' \in Seq(Task) /\ TaskTypes'
    BY <1>0, <1>4, <2>1, ReleaseTypes, RoutePlaces DEF Answer, TaskTypes
  <2> QED BY <2>4, <2>5, <2>6
<1>5. ASSUME NEW t \in Task, Refused(t) PROVE TypeOK'
  <2>1. queue # <<>> /\ conn[t] \in Node
    BY <1>5 DEF Refused, HeadInv, CallInv, Holds
  <2>2. known' \in Version /\ told' \in [Node -> Version]
    BY <1>0, <1>5, <2>1, HearTypes DEF Refused
  <2>3. ClientTypes' /\ NodeTypes' /\ cache' = cache /\ conn' = conn
    BY <1>0, <1>5, <2>2 DEF Refused, ClientTypes, NodeTypes
  <2>4. CASE LastTry(t)
    <3>1. Releases(t, "sending") /\ "sending" \in Places
      BY <1>5, <2>4 DEF Refused, GiveUp, Places
    <3> QED BY <1>0, <2>1, <2>3, <3>1, ReleaseTypes DEF TaskTypes
  <2>5. CASE ~LastTry(t)
    <3>1. tries' = [tries EXCEPT ![t] = @ + 1] /\ UNCHANGED <<pc, queue, caches>>
      BY <1>5, <2>5 DEF Refused
    <3>2. tries[t] + 1 \in 0 .. Retries - 1
      BY <1>0, <2>5, ConstantsAssumption DEF LastTry, TaskTypes
    <3>3. TaskTypes'
      BY <1>0, <2>3, <3>1, <3>2 DEF TaskTypes
    <3> QED BY <1>0, <2>3, <3>1, <3>3
  <2> QED BY <2>4, <2>5
<1>6. ASSUME NEW t \in Task, Retry(t) PROVE TypeOK'
  <2>1. queue # <<>> /\ ClientTypes' /\ again' = again /\ view' = view /\ losses' = losses
    BY <1>0, <1>6 DEF Retry, HeadInv, Holds, ClientTypes, clientVars
  <2>2. ASSUME NEW n \in Node, RandomNode(n), conn' = [conn EXCEPT ![t] = n],
               Keeps(t, "waiting"), UNCHANGED cache
        PROVE  TypeOK'
    <3>1. NodeTypes'
      BY <1>0, <2>1, <2>2, RandomTypes DEF NodeTypes
    <3>2. "waiting" \in Places
      BY DEF Places
    <3>3. queue' \in Seq(Task) /\ TaskTypes'
      BY <1>0, <2>1, <2>2, <3>2, ReleaseTypes DEF TaskTypes
    <3> QED BY <2>1, <3>1, <3>3
  <2>3. ASSUME Releases(t, "idle"), Returns(t), UNCHANGED <<live, told>>
        PROVE  TypeOK'
    <3>1. NodeTypes' /\ "idle" \in Places
      BY <1>0, <2>1, <2>3 DEF NodeTypes, Places
    <3>2. queue' \in Seq(Task) /\ TaskTypes'
      BY <1>0, <2>1, <2>3, <3>1, ReleaseTypes DEF TaskTypes, Returns
    <3> QED BY <2>1, <3>1, <3>2
  <2> QED BY <1>6, <2>2, <2>3 DEF Retry
<1>7. ASSUME NEW t \in Task, Choose(t) PROVE TypeOK'
  <2>1. PICK n : n \in {conn[t]} \cup live /\ conn' = [conn EXCEPT ![t] = n]
    BY <1>7 DEF Choose
  <2>2. n \in Node \cup {None} /\ pc' \in [Task -> Places]
    BY <1>0, <1>7, <2>1 DEF Choose, TaskTypes, NodeTypes, Places
  <2>3. ClientTypes' /\ NodeTypes' /\ queue' = queue
    BY <1>0, <1>7 DEF Choose, ClientTypes, NodeTypes, clientVars, nodeVars
  <2>4. TaskTypes'
    BY <1>0, <1>7, <2>1, <2>2 DEF Choose, TaskTypes
  <2> QED BY <1>0, <2>3, <2>4
<1>8. ASSUME NEW t \in Task, Finish(t) PROVE TypeOK'
  <2>1. conn[t] \in Node
    BY <1>8 DEF Finish, CallInv
  <2>2. known' \in Version /\ told' \in [Node -> Version]
    BY <1>0, <1>8, <2>1, HearTypes DEF Finish, ClientTypes, NodeTypes
  <2>3. ClientTypes' /\ NodeTypes' /\ queue' = queue
    BY <1>0, <1>8, <2>2 DEF Finish, ClientTypes, NodeTypes
  <2>4. TaskTypes'
    BY <1>0, <1>8 DEF Finish, Returns, TaskTypes, Places
  <2> QED BY <1>0, <2>3, <2>4
<1>9. ASSUME NEW n \in Node, Reconnected(n) PROVE TypeOK'
  BY <1>0, <1>9, VersionsAreNaturals DEF Reconnected, ClientTypes, TaskTypes, NodeTypes, clientVars, taskVars
<1>10. ASSUME NEW n \in Node, Learn(n) PROVE TypeOK'
  <2>1. view[n] + 1 \in Version \ {0}
    BY <1>0, <1>10, ConstantsAssumption DEF Learn, NodeTypes, Version
  <2> QED BY <1>0, <1>10, <2>1 DEF Learn, ClientTypes, TaskTypes, NodeTypes, clientVars, taskVars
<1>11. ASSUME NEW n \in Node, Lose(n) PROVE TypeOK'
  <2>1. ClientTypes' /\ queue' = queue
    BY <1>0, <1>11 DEF Lose, ClientTypes, clientVars
  <2>2. losses + 1 \in 0 .. MaxLosses
    BY <1>0, <1>11, ConstantsAssumption DEF Lose, NodeTypes
  <2>3. NodeTypes'
    BY <1>0, <1>11, <2>2 DEF Lose, NodeTypes
  <2>4. TaskTypes'
    BY <1>0, <1>11 DEF Lose, TaskTypes, Places
  <2> QED BY <1>0, <2>1, <2>3, <2>4
<1>13. ASSUME NEW n \in Node, Keyless(n) PROVE TypeOK'
  <2>1. known' \in Version /\ told' \in [Node -> Version]
    BY <1>0, <1>13, HearTypes DEF Keyless
  <2> QED BY <1>0, <1>13, <2>1 DEF Keyless, ClientTypes, TaskTypes, NodeTypes, taskVars
<1>12. CASE UNCHANGED vars
  BY <1>0, <1>12 DEF ClientTypes, TaskTypes, NodeTypes, vars, clientVars, taskVars, nodeVars
<1> QED BY <1>1, <1>2, <1>3, <1>4, <1>5, <1>6, <1>7, <1>8, <1>9, <1>10, <1>11, <1>12, <1>13
        DEF Next, Steps

-----------------------------------------------------------------------------
(* The mutex                                                                *)

(* A task that leaves the queue was at its head.                            *)
LEMMA ReleaseHead ==
    ASSUME TypeOK, HeadInv, NEW t \in Task, NEW p \in Places,
           p \notin {"asking", "lost"}, Holds(t), Releases(t, p)
    PROVE  HeadInv'
<1>1. \A u \in Task : pc'[u] = IF u = t THEN p ELSE pc[u]
  BY DEF Releases, TypeOK
<1>2. \A u \in Task : pc[u] \in {"asking", "lost"} => u = t
  BY DEF HeadInv, Holds
<1> QED BY <1>1, <1>2 DEF HeadInv

(* A step that leaves the queue alone, and lets no task but the head ask.   *)
LEMMA HeadStays ==
    ASSUME HeadInv, queue' = queue,
           \A u \in Task : pc'[u] \in {"asking", "lost"} =>
               pc[u] \in {"asking", "lost"} \/ Holds(u)
    PROVE  HeadInv'
BY DEF HeadInv, Holds

(* Every step keeps the mutex with the task that asks.                      *)
LEMMA HeadStep == ASSUME TypeOK, HeadInv, [Next]_vars PROVE HeadInv'
<1>0. pc \in [Task -> Places] /\ queue \in Seq(Task)
  BY DEF TypeOK
<1>1. ASSUME NEW t \in Task, NEW c \in Cache, Call(t, c) PROVE HeadInv'
  <2>1. \A u \in Task : pc'[u] \in {"asking", "lost"} => pc[u] = pc'[u]
    BY <1>0, <1>1 DEF Call, Route
  <2>2. CASE queue' = queue
    BY <2>1, <2>2, HeadStays
  <2>3. CASE queue' = Append(queue, t)
    <3>1. queue # <<>> => Head(queue') = Head(queue)
      BY <1>0, <2>3, HeadTailAppend
    <3>2. queue' # <<>>
      BY <1>0, <2>3, AppendProperties
    <3> QED BY <2>1, <3>1, <3>2 DEF HeadInv, Holds
  <2> QED BY <1>1, <2>2, <2>3 DEF Call
<1>2. ASSUME NEW t \in Task, Ask(t) PROVE HeadInv'
  <2>1. CASE CachesToUpdate = {}
    <3>1. /\ Route(cache[t], mapping[cache[t]]) \in Places
          /\ Route(cache[t], mapping[cache[t]]) \notin {"asking", "lost"}
      BY DEF Route, Places
    <3> QED BY <1>2, <2>1, <3>1, ReleaseHead DEF Ask
  <2>2. CASE CachesToUpdate # {}
    <3>1. queue' = queue /\ Holds(t) /\ \A u \in Task : u # t => pc'[u] = pc[u]
      BY <1>0, <1>2, <2>2 DEF Ask
    <3> QED BY <3>1, HeadStays
  <2> QED BY <2>1, <2>2
<1>3. ASSUME NEW t \in Task, Answer(t) PROVE HeadInv'
  <2>1. /\ Route(cache[t], mapping'[cache[t]]) \in Places
        /\ Route(cache[t], mapping'[cache[t]]) \notin {"asking", "lost"}
    BY DEF Route, Places
  <2>2. Holds(t)
    BY <1>3 DEF Answer, HeadInv
  <2> QED BY <1>3, <2>1, <2>2, ReleaseHead DEF Answer
<1>4. ASSUME NEW t \in Task, Refused(t) PROVE HeadInv'
  <2>1. Holds(t) /\ "sending" \in Places
    BY <1>4 DEF Refused, HeadInv, Places
  <2>2. CASE LastTry(t)
    BY <1>4, <2>1, <2>2, ReleaseHead DEF Refused, GiveUp
  <2>3. CASE ~LastTry(t)
    <3>1. queue' = queue /\ pc' = pc
      BY <1>4, <2>3 DEF Refused
    <3> QED BY <3>1, HeadStays
  <2> QED BY <2>2, <2>3
<1>5. ASSUME NEW t \in Task, Retry(t) PROVE HeadInv'
  <2>1. Holds(t) /\ "idle" \in Places
    BY <1>5 DEF Retry, HeadInv, Places
  <2>2. CASE Releases(t, "idle")
    BY <2>1, <2>2, ReleaseHead
  <2>3. CASE Keeps(t, "waiting")
    <3>1. queue' = queue /\ \A u \in Task : pc'[u] = IF u = t THEN "waiting" ELSE pc[u]
      BY <1>0, <2>3 DEF Keeps
    <3> QED BY <3>1, HeadStays
  <2> QED BY <1>5, <2>2, <2>3 DEF Retry
<1>6. ASSUME NEW t \in Task, Choose(t) \/ Finish(t) PROVE HeadInv'
  <2>1. /\ queue' = queue
        /\ \A u \in Task : pc'[u] \in {"asking", "lost"} => pc'[u] = pc[u]
    BY <1>0, <1>6 DEF Choose, Finish
  <2> QED BY <2>1, HeadStays
<1>7. ASSUME NEW n \in Node, Lose(n) PROVE HeadInv'
  <2>1. /\ queue' = queue
        /\ \A u \in Task : pc'[u] \in {"asking", "lost"} => pc[u] \in {"asking", "lost"}
    BY <1>0, <1>7 DEF Lose
  <2> QED BY <2>1, HeadStays
<1>8. ASSUME NEW c \in Cache, Register(c) PROVE HeadInv'
  BY <1>8, HeadStays DEF Register, taskVars
<1>9. ASSUME NEW n \in Node, Keyless(n) \/ Reconnected(n) \/ Learn(n) PROVE HeadInv'
  BY <1>9, HeadStays DEF Keyless, Reconnected, Learn, taskVars
<1>10. CASE UNCHANGED vars
  BY <1>10, HeadStays DEF vars, taskVars
<1> QED BY <1>1, <1>2, <1>3, <1>4, <1>5, <1>6, <1>7, <1>8, <1>9, <1>10 DEF Next, Steps

-----------------------------------------------------------------------------
(* Calls                                                                    *)

(* Every step keeps a call with its cache and a node.                       *)
LEMMA CallStep == ASSUME TypeOK, CallInv, [Next]_vars PROVE CallInv'
<1>0. /\ pc \in [Task -> Places] /\ cache \in [Task -> Cache \cup {None}]
      /\ conn \in [Task -> Node \cup {None}] /\ live \subseteq Node
  BY DEF TypeOK
<1>1. ASSUME NEW t \in Task, NEW c \in Cache, Call(t, c) PROVE CallInv'
  <2>1. PICK n \in Node : conn' = [conn EXCEPT ![t] = n]
    BY <1>1 DEF Call
  <2>2. /\ cache' = [cache EXCEPT ![t] = c]
        /\ \A u \in Task : u # t => pc'[u] = pc[u]
    BY <1>0, <1>1 DEF Call
  <2> QED BY <1>0, <2>1, <2>2 DEF CallInv
<1>2. ASSUME NEW t \in Task, Ask(t) \/ Answer(t) \/ Refused(t) PROVE CallInv'
  <2>1. pc[t] # "idle" /\ cache' = cache /\ conn' = conn
    BY <1>2 DEF Ask, Answer, Refused
  <2>2. \A u \in Task : u # t => pc'[u] = pc[u]
    BY <1>0, <1>2 DEF Ask, Answer, Refused, Releases, GiveUp
  <2> QED BY <2>1, <2>2 DEF CallInv
<1>3. ASSUME NEW t \in Task, Retry(t) PROVE CallInv'
  <2>1. pc[t] # "idle"
    BY <1>3 DEF Retry
  <2>2. CASE Releases(t, "idle") /\ Returns(t)
    BY <1>0, <2>1, <2>2 DEF Releases, Returns, CallInv
  <2>3. ASSUME NEW n \in Node, conn' = [conn EXCEPT ![t] = n], Keeps(t, "waiting"), cache' = cache
        PROVE  CallInv'
    BY <1>0, <2>1, <2>3 DEF Keeps, CallInv
  <2> QED BY <1>3, <2>2, <2>3 DEF Retry
<1>4. ASSUME NEW t \in Task, Choose(t) PROVE CallInv'
  <2>1. pc[t] # "idle" /\ conn[t] \in Node /\ cache' = cache
    BY <1>4 DEF Choose, CallInv
  <2>2. PICK n \in Node : conn' = [conn EXCEPT ![t] = n]
    BY <1>0, <1>4, <2>1 DEF Choose
  <2> QED BY <1>0, <1>4, <2>1, <2>2 DEF Choose, CallInv
<1>5. ASSUME NEW t \in Task, Finish(t) PROVE CallInv'
  BY <1>0, <1>5 DEF Finish, Returns, CallInv
<1>6. ASSUME NEW n \in Node, Lose(n) PROVE CallInv'
  BY <1>0, <1>6 DEF Lose, CallInv, clientVars
<1>7. ASSUME NEW c \in Cache, Register(c) PROVE CallInv'
  BY <1>7 DEF Register, taskVars, CallInv
<1>8. ASSUME NEW n \in Node, Keyless(n) \/ Reconnected(n) \/ Learn(n) PROVE CallInv'
  BY <1>8 DEF Keyless, Reconnected, Learn, clientVars, taskVars, CallInv
<1>9. CASE UNCHANGED vars
  BY <1>9 DEF vars, clientVars, taskVars, CallInv
<1> QED BY <1>1, <1>2, <1>3, <1>4, <1>5, <1>6, <1>7, <1>8, <1>9 DEF Next, Steps

-----------------------------------------------------------------------------
(* Versions                                                                 *)

(* A step that changes no version and tells nothing new.                    *)
LEMMA VersionsStay ==
    ASSUME ToldInv, NeverAhead, known' = known, version' = version, mapping' = mapping,
           \A n \in Node : told'[n] <= known
    PROVE  ToldInv' /\ NeverAhead'
BY DEF ToldInv, NeverAhead

(* A step in which the client hears from a node and loads nothing.          *)
LEMMA HearStep ==
    ASSUME TypeOK, ToldInv, NeverAhead, NEW n \in Node, Hear(n),
           version' = version, mapping' = mapping
    PROVE  ToldInv' /\ NeverAhead'
<1>1. ClientTypes /\ NodeTypes
  BY Types
<1>2. known <= known' /\ known' \in Version /\ \A m \in Node : told'[m] <= known'
  BY <1>1, HearTypes
<1>3. known \in Nat /\ known' \in Nat /\ version \in Nat /\ \A c \in Cache : mapping[c] \in Nat
  BY <1>1, <1>2, VersionsAreNaturals DEF ClientTypes
<1> QED BY <1>2, <1>3 DEF ToldInv, NeverAhead

(* No step makes a mapping newer than what the client has heard of.         *)
LEMMA AheadStep ==
    ASSUME TypeOK, CallInv, ToldInv, NeverAhead, [Next]_vars
    PROVE  ToldInv' /\ NeverAhead'
<1>0. ClientTypes /\ NodeTypes
  BY Types
<1>n. /\ known \in Nat /\ 0 <= known /\ version \in Nat
      /\ \A c \in Cache : mapping[c] \in Nat
      /\ \A n \in Node : told[n] <= known
  <2>1. known \in Nat /\ version \in Nat
    BY <1>0, VersionsAreNaturals DEF ClientTypes
  <2>2. \A c \in Cache : mapping[c] \in Nat
    BY <1>0, VersionsAreNaturals DEF ClientTypes
  <2> QED BY <2>1, <2>2 DEF ToldInv
<1>1. ASSUME NEW c \in Cache, Register(c) PROVE ToldInv' /\ NeverAhead'
  <2>1. /\ known' = known /\ version' = version /\ told' = told
        /\ \A d \in Cache : mapping'[d] = IF d = c THEN 0 ELSE mapping[d]
    BY <1>0, <1>1 DEF Register, nodeVars, ClientTypes
  <2> QED BY <1>n, <2>1 DEF ToldInv, NeverAhead
<1>2. ASSUME NEW t \in Task, Retry(t) \/ \E c \in Cache : Call(t, c)
      PROVE  ToldInv' /\ NeverAhead'
  <2>1. known' = known /\ version' = version /\ mapping' = mapping
    BY <1>2 DEF Call, Retry, clientVars
  <2>2. told' = told \/ \E n \in Node : RandomNode(n)
    BY <1>2 DEF Call, Retry
  <2>3. \A n \in Node : told'[n] <= known
    BY <1>0, <1>n, <2>2, RandomTypes
  <2> QED BY <2>1, <2>3, VersionsStay
<1>3. ASSUME NEW t \in Task, Answer(t) PROVE ToldInv' /\ NeverAhead'
  <2>1. conn[t] \in Node /\ Hear(conn[t]) /\ UpdateAffinity(conn[t], caches[t])
    BY <1>3 DEF Answer, CallInv
  <2>2. /\ known <= known' /\ view[conn[t]] <= known' /\ known' \in Version
        /\ \A m \in Node : told'[m] <= known'
    BY <1>0, <2>1, HearTypes
  <2>3. version' <= known'
    BY <2>1, <2>2 DEF UpdateAffinity
  <2>4. \A c \in Cache : mapping'[c] \in {view[conn[t]], mapping[c]}
    BY <2>1 DEF UpdateAffinity
  <2>5. known' \in Nat
    BY <2>2, VersionsAreNaturals
  <2>6. \A c \in Cache : mapping'[c] <= known'
    BY <1>n, <2>2, <2>4, <2>5 DEF NeverAhead
  <2> QED BY <2>2, <2>3, <2>6 DEF ToldInv, NeverAhead
<1>4. ASSUME NEW t \in Task, Refused(t) PROVE ToldInv' /\ NeverAhead'
  <2>1. conn[t] \in Node /\ Hear(conn[t]) /\ version' = version /\ mapping' = mapping
    BY <1>4 DEF Refused, CallInv
  <2> QED BY <2>1, HearStep
<1>5. ASSUME NEW t \in Task, Finish(t) PROVE ToldInv' /\ NeverAhead'
  <2>1. conn[t] \in Node /\ version' = version /\ mapping' = mapping
    BY <1>5 DEF Finish, CallInv
  <2>2. CASE Hear(conn[t])
    BY <2>1, <2>2, HearStep
  <2>3. CASE known' = known /\ told' = told
    BY <1>n, <2>1, <2>3, VersionsStay
  <2> QED BY <1>5, <2>2, <2>3 DEF Finish
<1>6. ASSUME NEW n \in Node, Reconnected(n) PROVE ToldInv' /\ NeverAhead'
  <2>1. /\ known' = known /\ version' = version /\ mapping' = mapping
        /\ told' = told \/ told' = [told EXCEPT ![n] = 0]
    BY <1>6 DEF Reconnected, clientVars
  <2>2. \A m \in Node : told'[m] <= known
    BY <1>0, <1>n, <2>1 DEF NodeTypes
  <2> QED BY <2>1, <2>2, VersionsStay
<1>7. ASSUME UNCHANGED <<known, version, mapping, told>> PROVE ToldInv' /\ NeverAhead'
  BY <1>7 DEF ToldInv, NeverAhead
<1>8. ASSUME NEW t \in Task, Ask(t) \/ Choose(t) PROVE ToldInv' /\ NeverAhead'
  BY <1>7, <1>8 DEF Ask, Choose, clientVars, nodeVars
<1>9. ASSUME NEW n \in Node, Learn(n) \/ Lose(n) PROVE ToldInv' /\ NeverAhead'
  BY <1>7, <1>9 DEF Learn, Lose, clientVars
<1>10. ASSUME NEW n \in Node, Keyless(n) PROVE ToldInv' /\ NeverAhead'
  BY <1>10, HearStep DEF Keyless
<1>11. CASE UNCHANGED vars
  BY <1>7, <1>11 DEF vars, clientVars, nodeVars
<1> QED BY <1>1, <1>2, <1>3, <1>4, <1>5, <1>6, <1>8, <1>9, <1>10, <1>11 DEF Next, Steps

-----------------------------------------------------------------------------
(* What is asked for                                                        *)

(* A step that lets no task ask, empties mappings at most and leaves the    *)
(* version behind what is known.                                            *)
LEMMA LoadStays ==
    ASSUME StillToLoad, version' = version, version < known => version < known',
           \A c \in Cache : mapping[c] = 0 => mapping'[c] = 0,
           \A u \in Task : pc'[u] \in {"asking", "lost"} =>
               pc[u] \in {"asking", "lost"} /\ caches[u] \subseteq Cache /\ caches'[u] = caches[u]
    PROVE  StillToLoad'
BY DEF StillToLoad

(* No step loads what another task asks for.                                *)
LEMMA LoadStep ==
    ASSUME TypeOK, HeadInv, CallInv, ToldInv, StillToLoad, [Next]_vars
    PROVE  StillToLoad'
<1>0. /\ pc \in [Task -> Places] /\ caches \in [Task -> SUBSET Cache]
      /\ mapping \in [Cache -> Version] /\ ClientTypes /\ NodeTypes
      /\ known \in Nat /\ version \in Nat
  BY Types, VersionsAreNaturals DEF TypeOK
<1>1. ASSUME NEW n \in Node, Hear(n) PROVE version < known => version < known'
  <2>1. known <= known' /\ known' \in Nat
    BY <1>0, <1>1, HearTypes, VersionsAreNaturals
  <2> QED BY <1>0, <2>1
<1>2. ASSUME NEW c \in Cache, Register(c) PROVE StillToLoad'
  BY <1>0, <1>2, LoadStays DEF Register, taskVars
<1>3. ASSUME NEW t \in Task, NEW c \in Cache, Call(t, c) PROVE StillToLoad'
  <2>1. /\ known' = known /\ version' = version /\ mapping' = mapping /\ caches' = caches
        /\ \A u \in Task : pc'[u] \in {"asking", "lost"} => pc[u] = pc'[u]
    BY <1>0, <1>3 DEF Call, Route
  <2> QED BY <1>0, <2>1, LoadStays
<1>4. ASSUME NEW t \in Task, Ask(t) PROVE StillToLoad'
  <2>1. known' = known /\ version' = version /\ mapping' = mapping
    BY <1>4 DEF Ask
  <2>2. CASE CachesToUpdate = {}
    <3>1. \A u \in Task : pc'[u] \in {"asking", "lost"} =>
              pc[u] = pc'[u] /\ caches'[u] = caches[u]
      BY <1>0, <1>4, <2>2 DEF Ask, Releases, Route
    <3> QED BY <1>0, <2>1, <3>1, LoadStays
  <2>3. CASE CachesToUpdate # {}
    <3>1. /\ caches' = [caches EXCEPT ![t] = CachesToUpdate]
          /\ \A u \in Task : u # t => pc'[u] = pc[u]
      BY <1>0, <1>4, <2>3 DEF Ask
    <3>2. \A c \in CachesToUpdate : mapping[c] = 0 \/ version < known
      BY DEF CachesToUpdate
    <3> QED BY <1>0, <2>1, <3>1, <3>2 DEF StillToLoad
  <2> QED BY <2>2, <2>3
<1>5. ASSUME NEW t \in Task, Answer(t) PROVE StillToLoad'
  <2>1. Holds(t)
    BY <1>5 DEF Answer, HeadInv
  <2>2. \A u \in Task : pc'[u] \notin {"asking", "lost"}
    BY <1>0, <1>5, <2>1 DEF Answer, Releases, Route, HeadInv, Holds
  <2> QED BY <2>2 DEF StillToLoad
<1>6. ASSUME NEW t \in Task, Refused(t) PROVE StillToLoad'
  <2>1. version' = version /\ mapping' = mapping /\ (version < known => version < known')
    BY <1>1, <1>6 DEF Refused, CallInv
  <2>2. \A u \in Task : pc'[u] \in {"asking", "lost"} =>
            pc[u] = pc'[u] /\ caches'[u] = caches[u]
    BY <1>0, <1>6 DEF Refused, GiveUp, Releases
  <2> QED BY <1>0, <2>1, <2>2, LoadStays
<1>7. ASSUME NEW t \in Task, Retry(t) PROVE StillToLoad'
  <2>1. known' = known /\ version' = version /\ mapping' = mapping
    BY <1>7 DEF Retry, clientVars
  <2>2. \A u \in Task : pc'[u] \in {"asking", "lost"} =>
            pc[u] = pc'[u] /\ caches'[u] = caches[u]
    BY <1>0, <1>7 DEF Retry, Keeps, Releases
  <2> QED BY <1>0, <2>1, <2>2, LoadStays
<1>8. ASSUME NEW t \in Task, Choose(t) PROVE StillToLoad'
  <2>1. /\ known' = known /\ version' = version /\ mapping' = mapping /\ caches' = caches
        /\ \A u \in Task : pc'[u] \in {"asking", "lost"} => pc[u] = pc'[u]
    BY <1>0, <1>8 DEF Choose, clientVars
  <2> QED BY <1>0, <2>1, LoadStays
<1>9. ASSUME NEW t \in Task, Finish(t) PROVE StillToLoad'
  <2>1. version' = version /\ mapping' = mapping /\ (version < known => version < known')
    BY <1>1, <1>9 DEF Finish, CallInv
  <2>2. /\ caches' = caches
        /\ \A u \in Task : pc'[u] \in {"asking", "lost"} => pc[u] = pc'[u]
    BY <1>0, <1>9 DEF Finish
  <2> QED BY <1>0, <2>1, <2>2, LoadStays
<1>10. ASSUME NEW n \in Node, Keyless(n) PROVE StillToLoad'
  <2>1. version' = version /\ mapping' = mapping /\ pc' = pc /\ caches' = caches
    BY <1>10 DEF Keyless, taskVars
  <2>2. version < known => version < known'
    BY <1>1, <1>10 DEF Keyless
  <2> QED BY <1>0, <2>1, <2>2, LoadStays
<1>11. ASSUME NEW n \in Node, Reconnected(n) \/ Learn(n) PROVE StillToLoad'
  BY <1>0, <1>11, LoadStays DEF Reconnected, Learn, clientVars, taskVars
<1>12. ASSUME NEW n \in Node, Lose(n) PROVE StillToLoad'
  <2>1. /\ known' = known /\ version' = version /\ mapping' = mapping /\ caches' = caches
        /\ \A u \in Task : pc'[u] \in {"asking", "lost"} => pc[u] \in {"asking", "lost"}
    BY <1>0, <1>12 DEF Lose, clientVars
  <2> QED BY <1>0, <2>1, LoadStays
<1>13. CASE UNCHANGED vars
  BY <1>0, <1>13, LoadStays DEF vars, clientVars, taskVars
<1> QED BY <1>2, <1>3, <1>4, <1>5, <1>6, <1>7, <1>8, <1>9, <1>10, <1>11, <1>12, <1>13
        DEF Next, Steps

-----------------------------------------------------------------------------
(* The invariant holds                                                      *)

LEMMA InitIInv == Init => IInv
<1> SUFFICES ASSUME Init PROVE IInv
  OBVIOUS
<1>1. /\ 0 \in Version /\ 1 \in Version \ {0} /\ 0 \in 0 .. Retries - 1
      /\ 0 \in 0 .. MaxLosses /\ <<>> \in Seq(Task)
  BY ConstantsAssumption, VersionsAreNaturals, EmptySeq
<1>2. ClientTypes
  BY <1>1 DEF Init, ClientTypes
<1>3. TaskTypes
  BY <1>1 DEF Init, TaskTypes, Places
<1>4. NodeTypes
  BY <1>1 DEF Init, NodeTypes
<1>5. TypeOK
  BY <1>1, <1>2, <1>3, <1>4, Types DEF Init
<1>6. HeadInv /\ CallInv
  BY DEF Init, HeadInv, CallInv
<1>7. ToldInv /\ NeverAhead
  BY DEF Init, ToldInv, NeverAhead
<1>8. StillToLoad
  BY DEF Init, StillToLoad
<1> QED BY <1>5, <1>6, <1>7, <1>8 DEF IInv

LEMMA IInvStep == IInv /\ [Next]_vars => IInv'
BY TypeStep, HeadStep, CallStep, AheadStep, LoadStep DEF IInv

(* The invariant holds in every state.                                      *)
THEOREM Invariance == Spec => []IInv
BY InitIInv, IInvStep, PTL DEF Spec

-----------------------------------------------------------------------------
(* The properties                                                           *)

(* The variables keep their types.                                          *)
THEOREM TypeCorrect == Spec => []TypeOK
<1>1. IInv => TypeOK
  BY DEF IInv
<1> QED BY Invariance, <1>1, PTL

(* No mapping, nor the version they are said to have, is newer than the     *)
(* newest topology the client has heard of (client.py:274, query.py:225).   *)
THEOREM VersionsNeverAhead == Spec => []NeverAhead
<1>1. IInv => NeverAhead
  BY DEF IInv
<1> QED BY Invariance, <1>1, PTL

(* The task that queries the mappings has the mutex (aio_client.py:367).    *)
THEOREM OnlyTheHolderAsks == Spec => []HeadInv
<1>1. IInv => HeadInv
  BY DEF IInv
<1> QED BY Invariance, <1>1, PTL

(* An operation goes to a random node only when its keys have no owners,    *)
(* the node refused the mappings too often, or its cache was not there to   *)
(* be asked for (api/affinity.py:117-127, aio_client.py:390, client.py:288).*)
THEOREM BlindSendsHaveReasons == Spec => BlindForAReason
<1> DEFINE Reason(t) ==
             \/ cache'[t] \notin Applicable /\ mapping'[cache'[t]] # 0
             \/ pc[t] = "asking" /\ tries[t] + 1 = Retries
             \/ pc[t] = "asking" /\ cache[t] \notin caches[t]
             \/ pc[t] # "asking" /\ cache'[t] \notin registered
           A == \A t \in Task : Blind(t) => Reason(t)
<1>1. IInv /\ [Next]_vars => [A]_vars
  <2> SUFFICES ASSUME IInv, Next, NEW u \in Task,
                      pc'[u] = "sending", pc[u] \notin {"sending", "hashing"}
               PROVE  Reason(u)
    BY DEF Blind
  <2>0. /\ pc \in [Task -> Places] /\ tries[u] \in 0 .. Retries - 1
        /\ cache \in [Task -> Cache \cup {None}]
        /\ CallInv /\ ClientTypes /\ NodeTypes
    BY Types DEF IInv, TypeOK
  <2>1. ASSUME NEW c \in registered, CachesToUpdate = {} PROVE mapping[c] # 0
    BY <2>1 DEF CachesToUpdate
  <2>2. ASSUME NEW t \in Task, NEW c \in Cache, Call(t, c) PROVE Reason(u)
    <3>1. /\ CachesToUpdate = {} /\ u = t /\ pc[u] = "idle" /\ cache'[u] = c
          /\ mapping' = mapping
          /\ mapping[c] = 0 \/ c \notin Applicable
      BY <2>0, <2>2 DEF Call, Route
    <3> QED BY <2>1, <3>1
  <2>3. ASSUME NEW t \in Task, Ask(t) PROVE Reason(u)
    <3>1. /\ CachesToUpdate = {} /\ u = t /\ pc[u] = "waiting" /\ cache' = cache
          /\ mapping' = mapping
          /\ mapping[cache[u]] = 0 \/ cache[u] \notin Applicable
      BY <2>0, <2>3 DEF Ask, Releases, Route
    <3> QED BY <2>1, <3>1
  <2>4. ASSUME NEW t \in Task, Answer(t) PROVE Reason(u)
    <3>1. u = t /\ (mapping'[cache[t]] = 0 \/ cache[t] \notin Applicable)
      BY <2>0, <2>4 DEF Answer, Releases, Route
    <3>2. /\ pc[t] = "asking" /\ cache[t] \in Cache /\ view[conn[t]] # 0
          /\ cache' = cache
      BY <2>0, <2>4 DEF Answer, CallInv, NodeTypes
    <3>3. CASE mapping'[cache[t]] = 0
      <4>1. cache[t] \notin caches[t]
        BY <2>4, <3>2, <3>3 DEF Answer, UpdateAffinity
      <4> QED BY <3>1, <3>2, <4>1
    <3> QED BY <3>1, <3>2, <3>3
  <2>5. ASSUME NEW t \in Task, Refused(t) PROVE Reason(u)
    <3>1. u = t /\ pc[t] = "asking" /\ LastTry(t)
      BY <2>0, <2>5 DEF Refused, GiveUp, Releases
    <3>2. tries[u] + 1 = Retries
      BY <2>0, <3>1, ConstantsAssumption DEF LastTry
    <3> QED BY <3>1, <3>2
  <2>6. ASSUME NEW t \in Task, Retry(t) \/ Choose(t) \/ Finish(t) PROVE FALSE
    BY <2>0, <2>6 DEF Retry, Choose, Finish, Releases, Keeps
  <2>7. ASSUME NEW n \in Node, Lose(n) PROVE FALSE
    BY <2>0, <2>7 DEF Lose
  <2>8. ASSUME UNCHANGED pc PROVE FALSE
    BY <2>8
  <2> HIDE DEF Reason
  <2> QED BY <2>2, <2>3, <2>4, <2>5, <2>6, <2>7, <2>8
          DEF Next, Steps, Register, Keyless, Reconnected, Learn, taskVars
<1> QED BY Invariance, <1>1, PTL DEF Spec, BlindForAReason

(* Tasks that waited for the mutex do not load what the first of them has   *)
(* loaded (aio_client.py:367-392).                                          *)
THEOREM NothingIsLoadedTwice == Spec => []StillToLoad
<1>1. IInv => StillToLoad
  BY DEF IInv
<1> QED BY Invariance, <1>1, PTL

=============================================================================
