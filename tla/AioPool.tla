------------------------------ MODULE AioPool ------------------------------
(***************************************************************************)
(* The pool of an AioClient (aio_client.py): coroutines that connect the   *)
(* client, ask it for a node and close it, over connections that they      *)
(* share, and the reconnections that run beside them.  What happens inside *)
(* an attempt to connect is in AioConnection; here an attempt is where it  *)
(* waits, and what it and others do to the connection meanwhile.  All      *)
(* nodes have one protocol version.                                        *)
(***************************************************************************)
EXTENDS Naturals, Sequences

CONSTANTS
  N,               \* how many addresses there are (a bound)
  Tasks,           \* coroutines of the application
  Background,      \* the owner of reconnections that no coroutine awaits
  Refusals         \* the sets of nodes that may reject the credentials

Node == 1..N
Owners == Tasks \cup {Background}
Results == {"ok", "connErr", "raise"}

ASSUME PoolAssumption ==
  /\ N \in Nat \ {0}
  /\ Background \notin Tasks /\ Tasks \cap {"none", "ready"} = {} /\ Background \notin {"none", "ready"}
  /\ Refusals \subseteq SUBSET Node

VARIABLES
  up,              \* the nodes that are running
  forbidding,      \* the nodes that reject the credentials
  aware,           \* the partition_aware argument; the nodes support it
  ctx,             \* whether the client has a protocol context
  pool,            \* len(_nodes): the pool holds nodes 1..pool
  current,         \* _current_node, counted from 1
  conn,            \* of each node [transport: "none", "ready" or the owner of the attempt that opened
                   \* it and awaits its handshake; failed; closed; orphan: whether a transport that
                   \* another one replaced is still open]
  attempt,         \* of each owner and node: where its connect, reconnect or close of it is
  detecting,       \* the <<owner, node>> of attempts that found no context
  pc,              \* of each coroutine: what it awaits
  order,           \* of each coroutine: the rest of the list of nodes to try
  outcome,         \* of each coroutine: what its last call came to
  connected,       \* whether the last connect() returned without an error
  timedOut,        \* history: whether a handshake timed out during it
  steady           \* history: of each coroutine, the nodes that could have been used since its call
                   \* began and that no other owner has closed meanwhile
poolVars == <<pool, current>>
callVars == <<pc, order, outcome>>
vars == <<up, forbidding, aware, ctx, poolVars, conn, attempt, detecting, callVars, connected, timedOut, steady>>

New == [transport |-> "none", failed |-> FALSE, closed |-> FALSE, orphan |-> FALSE]
Alive(n) == conn[n].transport # "none" /\ ~conn[n].failed /\ ~conn[n].closed
AliveNodes == {n \in 1..pool : Alive(n)}
AwareNow == aware /\ ctx
Usable == up \ forbidding

Init ==
  /\ up \in SUBSET Node /\ forbidding \in Refusals /\ aware \in BOOLEAN /\ ctx = FALSE
  /\ pool = 0 /\ current = 1
  /\ conn = [n \in Node |-> New]
  /\ attempt = [t \in Owners |-> [n \in Node |-> "none"]] /\ detecting = {}
  /\ pc = [t \in Tasks |-> "idle"] /\ order = [t \in Tasks |-> <<>>]
  /\ outcome = [t \in Tasks |-> "none"] /\ steady = [t \in Tasks |-> {}] /\ timedOut = FALSE /\ connected = FALSE
-----------------------------------------------------------------------------
(***************************************************************************)
(* Connections.                                                            *)
(***************************************************************************)
Without(nodes, except) == [t \in Tasks |-> IF t = except THEN steady[t] ELSE steady[t] \ nodes]
\* Nobody awaits what a background reconnection comes to.
Result(t, r) == IF t = Background THEN "none" ELSE r

\* The attempts of t become those given, and its earlier results are forgotten; whoever awaits the
\* handshake of a transport that is closed gets its loss.
Attempts(t, closing, of) ==
  [u \in Owners |-> [n \in Node |->
     IF u = t THEN IF n \in DOMAIN of THEN of[n] ELSE IF t = Background THEN attempt[t][n] ELSE "none"
     ELSE IF n \in closing /\ conn[n].transport = u THEN "broken" ELSE attempt[u][n]]]

\* connect() and reconnect() of several nodes at once, up to the first suspension of each.
\* reconnect() closes the transport first and waits for its loss.
Begin(t, nodes, how) ==
  LET dead == {n \in nodes : ~Alive(n)}
      closing == IF how = "reconnect" THEN {n \in dead : conn[n].transport # "none"} ELSE {}
      opening == dead \ closing
  IN /\ conn' = [n \in Node |-> IF n \in closing THEN [conn[n] EXCEPT !.transport = "none"]
                                ELSE IF n \in opening THEN [conn[n] EXCEPT !.closed = FALSE] ELSE conn[n]]
     /\ attempt' = Attempts(t, closing, [n \in nodes |-> IF n \in closing THEN "closing"
                                                         ELSE IF n \in opening THEN "opening"
                                                         ELSE Result(t, "ok")])
     /\ detecting' = IF ctx THEN detecting ELSE detecting \cup {<<t, n>> : n \in opening}
     /\ ctx' = (ctx \/ opening # {})
     /\ steady' = Without(closing, t)

\* close() of several nodes.
Shut(t, nodes) ==
  /\ conn' = [n \in Node |-> IF n \in nodes THEN [conn[n] EXCEPT !.transport = "none", !.closed = TRUE]
                             ELSE conn[n]]
  /\ attempt' = Attempts(t, nodes, [n \in nodes |-> IF conn[n].transport = "none" THEN "ok" ELSE "shutting"])
  /\ steady' = Without(nodes, t)
  /\ UNCHANGED <<ctx, detecting>>

\* What can run runs before the event loop polls for I/O and timers.
Collected(t) == \A n \in Node : attempt[t][n] \in Results \cup {"none"}
Connects == \E t \in Tasks : pc[t] \in {"connecting", "opened", "gathered", "regathered"}
Running(t) == pc[t] # "idle" /\ Collected(t)
Polling ==
  /\ \A t \in Tasks : ~Running(t)
  /\ \A t \in Owners, n \in Node : attempt[t][n] \notin {"broken", "created"}
Awaited(t) == {n \in Node : attempt[t][n] # "none"}
Forget(t) == attempt' = [attempt EXCEPT ![t] = [n \in Node |-> "none"]]

\* The loss of the closed transport is delivered, or one second is over.
Closed(t, n) ==
  \/ /\ attempt[t][n] = "closing"
     /\ attempt' = [attempt EXCEPT ![t][n] = "opening"]
     /\ conn' = [conn EXCEPT ![n].closed = FALSE]
     /\ detecting' = IF ctx THEN detecting ELSE detecting \cup {<<t, n>>}
     /\ ctx' = TRUE
     /\ UNCHANGED steady
  \/ /\ attempt[t][n] = "shutting"
     /\ attempt' = [attempt EXCEPT ![t][n] = "ok"]
     /\ UNCHANGED <<conn, detecting, ctx, steady>>

\* Whatever transport is there gives way to the new one.
Opens(t, n) ==
  /\ attempt[t][n] = "opening" /\ n \in up
  /\ attempt' = [attempt EXCEPT ![t][n] = "shaking"]
  /\ conn' = [conn EXCEPT ![n].transport = t, ![n].orphan = @ \/ conn[n].transport = "ready"]
  /\ UNCHANGED <<detecting, ctx, steady>>

HandshakeOk(t, n) ==
  /\ attempt[t][n] = "shaking" /\ n \in Usable /\ ctx
  /\ attempt' = [attempt EXCEPT ![t][n] = Result(t, "ok")]
  /\ conn' = [conn EXCEPT ![n].failed = FALSE,
                          ![n].transport = IF @ = t THEN "ready" ELSE @,
                          ![n].orphan = @ \/ conn[n].transport # t]
  /\ detecting' = detecting \ {<<t, n>>}
  /\ UNCHANGED <<ctx, steady>>

\* The connection is closed, whichever transport it has by now, and the exception is no connection error.
Rejected(t, n) ==
  /\ attempt[t][n] = "shaking" /\ n \in up \cap forbidding
  /\ attempt' = [u \in Owners |-> [attempt[u] EXCEPT ![n] =
                   IF u = t THEN Result(t, "raise") ELSE IF conn[n].transport = u THEN "broken" ELSE @]]
  /\ conn' = [conn EXCEPT ![n].failed = TRUE, ![n].closed = TRUE, ![n].transport = "none"]
  /\ detecting' = detecting \ {<<t, n>>}
  /\ steady' = Without({n}, t)
  /\ UNCHANGED ctx

\* The attempt that found no context has failed since this one began: without a context neither the
\* handshake can be written, which leaves the transport open, nor its response be read.
NoContext(t, n) ==
  /\ attempt[t][n] = "shaking" /\ n \in up /\ ~ctx
  /\ attempt' = [attempt EXCEPT ![t][n] = Result(t, "raise")]
  /\ \E stays \in BOOLEAN :
       conn' = [conn EXCEPT ![n].failed = TRUE,
                            ![n].transport = IF @ # t THEN @ ELSE IF stays THEN "ready" ELSE "none",
                            ![n].orphan = @ \/ (stays /\ conn[n].transport # t)]
  /\ UNCHANGED <<ctx, detecting, steady>>

(* Mutant: a handshake does not time out. *)
Fails_NoTimeout(t, n) ==
  /\ attempt[t][n] \in {"opening", "broken"}
  /\ attempt' = [attempt EXCEPT ![t][n] = Result(t, "connErr")]
  /\ conn' = [conn EXCEPT ![n].failed = TRUE] /\ UNCHANGED timedOut
  /\ detecting' = detecting \ {<<t, n>>}
  /\ ctx' = IF <<t, n>> \in detecting THEN FALSE ELSE ctx
  /\ steady' = IF attempt[t][n] = "broken" THEN steady ELSE Without({n}, Background)
(* Mutant: the context is lost whoever found it. *)
Fails_Resets(t, n) ==
  /\ attempt[t][n] \in {"opening", "shaking", "broken"}
  /\ attempt' = [attempt EXCEPT ![t][n] = Result(t, "connErr")]
  /\ conn' = [conn EXCEPT ![n].failed = TRUE] /\ UNCHANGED timedOut
  /\ detecting' = detecting \ {<<t, n>>}
  /\ ctx' = FALSE
  /\ steady' = IF attempt[t][n] = "broken" THEN steady ELSE Without({n}, Background)
\* The node cannot be reached, does not answer in time or hangs up, or the transport was closed by
\* another.  After a timeout the transport stays open.
Fails(t, n) ==
  /\ attempt[t][n] \in {"opening", "shaking", "broken"}
  /\ attempt' = [attempt EXCEPT ![t][n] = Result(t, "connErr")]
  /\ \E stays \in IF attempt[t][n] = "shaking" THEN BOOLEAN ELSE {FALSE} :
    /\ timedOut' = (timedOut \/ (stays /\ Connects))
    /\ conn' = [conn EXCEPT ![n].failed = TRUE,
                            ![n].transport = IF @ # t THEN @ ELSE IF stays THEN "ready" ELSE "none",
                            ![n].orphan = @ \/ (stays /\ conn[n].transport # t)]
  /\ detecting' = detecting \ {<<t, n>>}
  /\ ctx' = IF <<t, n>> \in detecting THEN FALSE ELSE ctx
  /\ steady' = IF attempt[t][n] = "broken" THEN steady ELSE Without({n}, Background)

Attempt(t, n) ==
  /\ Polling \/ attempt[t][n] = "broken"
  /\ \/ (Closed(t, n) \/ Opens(t, n) \/ HandshakeOk(t, n) \/ Rejected(t, n) \/ NoContext(t, n)) /\ UNCHANGED timedOut
     \/ Fails(t, n)
  /\ UNCHANGED <<up, forbidding, aware, poolVars, callVars, connected>>

\* A transport that was used is lost, the present one or one that was replaced: the connection is marked
\* failed and a reconnection is started.
\* Bound: the last such reconnection of this node is over.
Lost(n) ==
  /\ Polling /\ attempt[Background][n] = "none"
  /\ \/ conn[n].transport = "ready" /\ conn' = [conn EXCEPT ![n].failed = TRUE, ![n].transport = "none"]
     \/ conn[n].orphan /\ conn' = [conn EXCEPT ![n].failed = TRUE, ![n].orphan = FALSE]
  /\ attempt' = IF conn[n].closed THEN attempt ELSE [attempt EXCEPT ![Background][n] = "created"]
  /\ steady' = Without({n}, Background)
  /\ UNCHANGED <<up, forbidding, aware, ctx, poolVars, detecting, callVars, connected, timedOut>>

Reconnects(n) ==
  /\ attempt[Background][n] = "created"
  /\ Begin(Background, {n}, "reconnect")
  /\ UNCHANGED <<up, forbidding, aware, poolVars, callVars, connected, timedOut>>

\* A coroutine has loaded the mappings of partitions.
AffinityUpdated ==
  LET dead == {n \in 1..pool : ~Alive(n) /\ attempt[Background][n] = "none"}
  IN /\ AwareNow /\ dead # {} /\ ~Connects
     /\ attempt' = [attempt EXCEPT ![Background] = [n \in Node |-> IF n \in dead THEN "created" ELSE @[n]]]
     /\ UNCHANGED <<up, forbidding, aware, ctx, poolVars, conn, detecting, callVars, connected, timedOut, steady>>
-----------------------------------------------------------------------------
(***************************************************************************)
(* The client.                                                             *)
(***************************************************************************)
Goes(t, where) == pc' = [pc EXCEPT ![t] = where] /\ UNCHANGED <<order, outcome>>
Finish(t, result) ==
  /\ pc' = [pc EXCEPT ![t] = "idle"] /\ outcome' = [outcome EXCEPT ![t] = result]
  /\ order' = [order EXCEPT ![t] = <<>>]
Quiet == \A t \in Owners : Awaited(t) = {}

\* A call begins.  Nobody uses the client before connect() has returned, or after it has failed.
\* Bound: the reconnections of an earlier pool are over before the next connect().
Call(t) ==
  /\ pc[t] = "idle" /\ ~Connects
  /\ \/ /\ pool = 0 /\ Quiet /\ \A u \in Tasks : pc[u] = "idle"
        /\ pc' = [pc EXCEPT ![t] = "connecting"]
        /\ conn' = [n \in Node |-> New] /\ timedOut' = FALSE
     \/ connected /\ pc' = [pc EXCEPT ![t] = "picking"] /\ UNCHANGED <<conn, timedOut>>
     \/ pool > 0 /\ pc' = [pc EXCEPT ![t] = "ending"] /\ UNCHANGED <<conn, timedOut>>
  /\ outcome' = [outcome EXCEPT ![t] = "none"]
  /\ steady' = [steady EXCEPT ![t] = Usable]
  /\ UNCHANGED <<up, forbidding, aware, ctx, poolVars, attempt, detecting, order, connected>>

\* Nodes are opened one after the other until there is a context; with partition awareness all of
\* them are then connected at once.
Connecting(t) ==
  /\ pc[t] = "connecting"
  /\ \/ /\ pool < N /\ ~ctx
        /\ Goes(t, "opened") /\ Begin(t, {pool + 1}, "connect")
        /\ UNCHANGED pool
     \/ /\ pool < N /\ ctx
        /\ pool' = pool + 1
        /\ UNCHANGED <<ctx, conn, attempt, detecting, callVars, steady>>
     \/ /\ pool = N /\ AwareNow
        /\ Goes(t, "gathered") /\ Begin(t, Node, "connect")
        /\ UNCHANGED pool
     \/ /\ pool = N /\ ~AwareNow
        /\ Finish(t, IF ctx THEN "ok" ELSE "reconnectError")
        /\ UNCHANGED <<ctx, pool, conn, attempt, detecting, steady>>
  /\ UNCHANGED <<up, forbidding, aware, current>>

Opened(t) ==
  LET result == attempt[t][pool + 1]
  IN /\ pc[t] = "opened" /\ Collected(t)
     /\ Forget(t)
     /\ IF result = "raise" THEN Finish(t, "raise") /\ UNCHANGED poolVars
        ELSE /\ Goes(t, "connecting")
             /\ pool' = pool + 1
             /\ current' = IF result = "ok" THEN pool + 1 ELSE current
     /\ UNCHANGED <<up, forbidding, aware, ctx, conn, detecting, steady>>

\* What could not be connected is tried once more; any other error is raised.
Gathered(t) ==
  /\ pc[t] = "gathered" /\ Collected(t)
  /\ IF \E n \in Node : attempt[t][n] = "raise"
     THEN Finish(t, "raise") /\ Forget(t) /\ UNCHANGED <<ctx, conn, detecting, steady>>
     ELSE Goes(t, "regathered") /\ Begin(t, {n \in Node : attempt[t][n] = "connErr"}, "reconnect")
  /\ UNCHANGED <<up, forbidding, aware, poolVars>>

Regathered(t) ==
  /\ pc[t] = "regathered" /\ Collected(t)
  /\ Forget(t) /\ Finish(t, IF ctx THEN "ok" ELSE "reconnectError")
  /\ UNCHANGED <<up, forbidding, aware, ctx, poolVars, conn, detecting, steady>>

(* Mutant: the list does not go back to the start of the pool. *)
Order_ToEnd(first) == [k \in 1..(pool + 1 - first) |-> first + k - 1]
\* From the current node to the last one, and from the first one on.
Order(first) == [k \in 1..pool |-> IF first + k - 1 <= pool THEN first + k - 1 ELSE first + k - 1 - pool]

\* The next node of the list, up to the next suspension; the list may have outlived the pool.
Try(t, nodes) ==
  \/ /\ nodes = <<>> /\ Finish(t, "reconnectError")
     /\ Forget(t) /\ UNCHANGED <<ctx, conn, detecting, steady>>
  \/ /\ nodes # <<>> /\ Head(nodes) > pool /\ Finish(t, "indexError")
     /\ Forget(t) /\ UNCHANGED <<ctx, conn, detecting, steady>>
  \/ /\ nodes # <<>> /\ Head(nodes) <= pool /\ Alive(Head(nodes)) /\ Finish(t, "ok")
     /\ Forget(t) /\ UNCHANGED <<ctx, conn, detecting, steady>>
  \/ /\ nodes # <<>> /\ Head(nodes) <= pool /\ ~Alive(Head(nodes))
     /\ pc' = [pc EXCEPT ![t] = "scanning"] /\ order' = [order EXCEPT ![t] = Tail(nodes)]
     /\ Begin(t, {Head(nodes)}, "connect")
     /\ UNCHANGED outcome

RandomNode(t) ==
  /\ pc[t] = "picking"
  /\ \/ /\ AwareNow /\ AliveNodes # {} /\ Finish(t, "ok")
        /\ UNCHANGED <<ctx, conn, attempt, detecting, steady>>
     \/ /\ AwareNow /\ AliveNodes = {}
        /\ Goes(t, "reviving") /\ Begin(t, 1..pool, "reconnect")
     \/ /\ ~AwareNow /\ current > pool /\ Finish(t, "indexError")
        /\ UNCHANGED <<ctx, conn, attempt, detecting, steady>>
     \/ /\ ~AwareNow /\ current <= pool /\ Alive(current) /\ Finish(t, "ok")
        /\ UNCHANGED <<ctx, conn, attempt, detecting, steady>>
     \/ /\ ~AwareNow /\ current <= pool /\ ~Alive(current)
        /\ Goes(t, "leaving") /\ Shut(t, {current})
  /\ UNCHANGED <<up, forbidding, aware, poolVars>>

Leaving(t) ==
  /\ pc[t] = "leaving" /\ Collected(t)
  /\ current' = IF current + 1 > pool THEN 1 ELSE current + 1
  /\ Try(t, Order(current'))
  /\ UNCHANGED <<up, forbidding, aware, pool>>

Scanning(t) ==
  LET result == {attempt[t][n] : n \in Awaited(t)}
  IN /\ pc[t] = "scanning" /\ Collected(t)
     /\ \/ /\ result # {"connErr"} /\ Finish(t, CHOOSE r \in result : TRUE)
           /\ Forget(t) /\ UNCHANGED <<ctx, conn, detecting, steady>>
        \/ result = {"connErr"} /\ Try(t, order[t])
     /\ UNCHANGED <<up, forbidding, aware, poolVars>>

Reviving(t) ==
  /\ pc[t] = "reviving" /\ Collected(t)
  /\ Forget(t) /\ Finish(t, IF AliveNodes # {} THEN "ok" ELSE "reconnectError")
  /\ UNCHANGED <<up, forbidding, aware, ctx, poolVars, conn, detecting, steady>>

Close(t) ==
  /\ pc[t] = "ending"
  /\ Goes(t, "closing") /\ Shut(t, 1..pool)
  /\ UNCHANGED <<up, forbidding, aware, poolVars>>

Closing(t) ==
  /\ pc[t] = "closing" /\ Collected(t)
  /\ Forget(t) /\ pool' = 0 /\ Finish(t, "ok")
  /\ steady' = Without(Node, t)
  /\ UNCHANGED <<up, forbidding, aware, ctx, current, conn, detecting>>
-----------------------------------------------------------------------------
\* External: a node stops or starts.  What that does to its transports comes later, if at all.
NodeChanges(n) ==
  /\ Polling
  /\ up' = IF n \in up THEN up \ {n} ELSE up \cup {n}
  /\ steady' = Without({n}, Background)
  /\ UNCHANGED <<forbidding, aware, ctx, poolVars, conn, attempt, detecting, callVars, connected, timedOut>>

Runs(t) ==
  /\ \/ Connecting(t) \/ Opened(t) \/ Gathered(t) \/ Regathered(t)
     \/ RandomNode(t) \/ Leaving(t) \/ Scanning(t) \/ Reviving(t) \/ Close(t) \/ Closing(t)
  /\ connected' = IF outcome'[t] = "none" THEN connected
                  ELSE IF pc[t] \in {"connecting", "regathered"} THEN outcome'[t] = "ok"
                  ELSE connected /\ pc[t] # "closing"
  /\ UNCHANGED timedOut
Next ==
  \/ \E t \in Tasks : Call(t) \/ Runs(t)
  \/ \E t \in Owners, n \in Node : Attempt(t, n)
  \/ \E n \in Node : Lost(n) \/ Reconnects(n) \/ NodeChanges(n)
  \/ AffinityUpdated
Spec == Init /\ [][Next]_vars

\* A coroutine that can run does so, and what an attempt waits for comes or times out; nodes need not
\* do anything.
Fairness ==
  /\ \A t \in Tasks : WF_vars(Runs(t))
  /\ \A t \in Owners, n \in Node : WF_vars(Attempt(t, n))
  /\ \A n \in Node : WF_vars(Reconnects(n))
FairSpec == Spec /\ Fairness
-----------------------------------------------------------------------------
(***************************************************************************)
(* Properties.                                                             *)
(***************************************************************************)
\* connect() and random_node give up only if every node was out of use at some time since the call
\* began, or had its connection closed by somebody else: a coroutine that looks for a node, another
\* reconnection of the same node, or close().
GivesUp == \A t \in Tasks : pc[t] = "idle" /\ outcome[t] = "reconnectError" => steady[t] = {}

\* No failure takes the context away from a connection of the pool that counts as alive, whoever found
\* the context and however many attempts run at once (_connect and gather).
AliveHaveContext == ~timedOut /\ AliveNodes # {} => ctx

\* connect(), random_node and close() return, whatever the other coroutines, the reconnections and the
\* nodes do meanwhile.
PoolCallsReturn == \A t \in Tasks : pc[t] # "idle" ~> pc[t] = "idle"
=============================================================================
