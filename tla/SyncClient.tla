------------------------------ MODULE SyncClient ------------------------------
(****************************************************************************)
(* The blocking pygridgain.client.Client over its pool of Connection        *)
(* objects: connect, close, and a query sent to the node that random_node   *)
(* chooses.  One thread runs the client; the nodes come, go and drop        *)
(* connections between any two of its blocking calls.                       *)
(*                                                                          *)
(* A node is its position in the list of addresses given to connect().  A   *)
(* protocol version is a number, the order of versions is the order of      *)
(* numbers, and 0 is a version outside PROTOCOLS: a node of version 0       *)
(* rejects every handshake.                                                 *)
(****************************************************************************)
EXTENDS Naturals

CONSTANTS
    N,               \* how many addresses there are (a bound)
    V,               \* max(PROTOCOLS)
    PAVersion,       \* the first version with partition awareness
    Versions,        \* the versions the nodes may run
    PartitionAware,  \* the partition_aware argument of Client
    Forbidding       \* nodes that reject the credentials

Node == 1..N
Version == 1..V

ASSUME ConstantsAssumption ==
    /\ N \in Nat \ {0} /\ V \in Nat \ {0}
    /\ PAVersion \in Version /\ Versions \subseteq 0..V
    /\ PartitionAware \in BOOLEAN
    /\ Forbidding \subseteq Node

VARIABLES
    up,         \* the nodes that are running
    version,    \* the protocol version of each node
    timeout,    \* whether Connection.timeout is set: None is the default
    ctx,        \* client.protocol_context.version, 0 when the context is None
    pool,       \* len(client._nodes): the pool holds nodes 1..pool
    current,    \* client._current_node, counted from 1
    sock,       \* Connection._socket: "broken" when the peer no longer uses it
    failed,     \* Connection._failed
    sess,       \* the version negotiated for the connection of each node
    unread,     \* replies on the way to each connection
    pc,         \* where the thread is
    outcome,    \* what the last call to connect(), reconnect(), or, when the
                \* thread is idle, to the client, came to
    target,     \* the node of the connection in use
    then,       \* where the thread goes on after Connection.connect()
    detecting,  \* detecting_protocol of Connection.connect()
    i,          \* loop index over the pool
    size,       \* how many addresses connect() was given
    steady      \* usable nodes that have answered since the operation began

envVars  == <<up, version, timeout>>
connVars == <<sock, failed, sess, unread>>
poolVars == <<pool, current>>
loopVars == <<i, size>>
callVars == <<pc, outcome, target, then, detecting>>
vars == <<envVars, ctx, connVars, poolVars, loopVars, callVars, steady>>

Places == {"idle", "connecting", "opened", "rescheduled", "reviving", "revived",
           "scanning", "scanned", "attempt", "send", "recv", "recovered"}
Outcomes == {"ok", "connected", "connErr", "raise", "reconnectError", "indexError"}

TypeOK ==
    /\ up \subseteq Node /\ version \in [Node -> 0..V] /\ timeout \in BOOLEAN
    /\ ctx \in 0..V
    /\ pool \in 0..N /\ current \in Node
    /\ sock \in [Node -> {"none", "open", "broken"}]
    /\ failed \in [Node -> BOOLEAN]
    /\ sess \in [Node -> 0..V] /\ unread \in [Node -> Nat]
    /\ pc \in Places /\ outcome \in Outcomes
    /\ target \in Node /\ then \in Places /\ detecting \in BOOLEAN
    /\ i \in 1..(N + 1) /\ size \in Node
    /\ steady \subseteq Node

Init ==
    /\ up \in SUBSET Node /\ version \in [Node -> Versions] /\ timeout \in BOOLEAN
    /\ ctx = 0 /\ pool = 0 /\ current = 1
    /\ sock = [n \in Node |-> "none"] /\ failed = [n \in Node |-> FALSE]
    /\ sess = [n \in Node |-> 0] /\ unread = [n \in Node |-> 0]
    /\ pc = "idle" /\ outcome = "ok" /\ target = 1 /\ then = "idle"
    /\ detecting = FALSE /\ i = 1 /\ size = 1 /\ steady = {}

Alive(n) == sock[n] # "none" /\ ~failed[n]
AliveNodes == {n \in 1..pool : Alive(n)}
AwareNow == PartitionAware /\ ctx >= PAVersion
Usable == {n \in up \ Forbidding : version[n] # 0}

-----------------------------------------------------------------------------
(* Connection                                                               *)

(* Mutant: every connection begins with the highest version.                *)
StartFromHighest(n, place) ==
    /\ pc' = "attempt" /\ target' = n /\ then' = place
    /\ detecting' = (ctx = 0) /\ ctx' = V
    /\ UNCHANGED <<outcome, failed, sess, unread>>

(* connect() is called on the connection of n.                              *)
StartConnect(n, place) ==
    /\ pc' = "attempt" /\ target' = n /\ then' = place
    /\ detecting' = (ctx = 0)
    /\ ctx' = IF ctx = 0 THEN V ELSE ctx
    /\ UNCHANGED <<outcome, failed, sess, unread>>

(* reconnect() is called on the connection of n.                            *)
StartReconnect(n, place) ==
    IF Alive(n)
    THEN /\ pc' = place /\ outcome' = "ok" /\ target' = n
         /\ UNCHANGED <<then, detecting, ctx, sock, failed, sess, unread>>
    ELSE /\ sock' = [sock EXCEPT ![n] = "none"]
         /\ StartConnect(n, place)

Return(result) ==
    /\ pc' = then /\ outcome' = result
    /\ UNCHANGED <<target, then, detecting>>

(* The node does not answer, or the handshake breaks or times out.          *)
(* Mutant: the context is reset whoever set it.                             *)
AttemptResets ==
    /\ Return("connErr")
    /\ sock' = [sock EXCEPT ![target] = "broken"]
    /\ failed' = [failed EXCEPT ![target] = TRUE]
    /\ ctx' = 0
    /\ steady' = steady \ {target}
    /\ UNCHANGED <<sess, unread>>

AttemptBreaks ==
    /\ Return("connErr")
    /\ sock' = [sock EXCEPT ![target] = "broken"]
    /\ failed' = [failed EXCEPT ![target] = TRUE]
    /\ ctx' = IF detecting THEN 0 ELSE ctx
    /\ steady' = steady \ {target}
    /\ UNCHANGED <<sess, unread>>

(* The node refuses for good: a HandshakeError, which is a socket error, or *)
(* an AuthenticationError, which is not.                                    *)
AttemptRefused ==
    /\ target \in up \ Usable
    /\ Return(IF target \in Forbidding THEN "raise" ELSE "connErr")
    /\ sock' = [sock EXCEPT ![target] = "none"]
    /\ failed' = [failed EXCEPT ![target] = TRUE]
    /\ UNCHANGED <<ctx, sess, unread, steady>>

(* The node asks for a lower version, with which the loop goes on.          *)
AttemptFallsBack ==
    /\ target \in Usable /\ ctx > version[target]
    /\ sock' = [sock EXCEPT ![target] = "none"]
    /\ ctx' = version[target]
    /\ UNCHANGED <<callVars, failed, sess, unread, steady>>

AttemptSucceeds ==
    /\ target \in Usable /\ ctx <= version[target]
    /\ Return("ok")
    /\ sock' = [sock EXCEPT ![target] = "open"]
    /\ failed' = [failed EXCEPT ![target] = FALSE]
    /\ sess' = [sess EXCEPT ![target] = ctx]
    /\ unread' = [unread EXCEPT ![target] = 0]
    /\ UNCHANGED <<ctx, steady>>

(* One turn of the loop of Connection.connect().                            *)
Attempt ==
    /\ pc = "attempt"
    /\ AttemptBreaks \/ AttemptRefused \/ AttemptFallsBack \/ AttemptSucceeds
    /\ UNCHANGED <<envVars, poolVars, loopVars>>

-----------------------------------------------------------------------------
(* Client.connect and Client.close                                          *)

Finish(result) ==
    /\ pc' = "idle" /\ outcome' = result
    /\ UNCHANGED <<target, then, detecting>>

(* connect(addresses), on a client that has no nodes: it will make new      *)
(* Connection objects.                                                      *)
Connect(k) ==
    /\ pc = "idle" /\ pool = 0
    /\ pc' = "connecting" /\ i' = 1 /\ size' = k /\ steady' = Usable
    /\ sock' = [n \in Node |-> "none"] /\ failed' = [n \in Node |-> FALSE]
    /\ unread' = [n \in Node |-> 0]
    /\ UNCHANGED <<envVars, ctx, sess, poolVars, outcome, target, then, detecting>>

Append ==
    /\ pc' = "connecting" /\ pool' = i /\ i' = i + 1
    /\ UNCHANGED <<outcome, target, then, detecting>>

(* The loop over the addresses: a node is opened before it is added to the  *)
(* pool while the version is unknown or when all are to be open.            *)
Connecting ==
    /\ pc = "connecting"
    /\ \/ /\ i <= size /\ (ctx = 0 \/ AwareNow)
          /\ StartConnect(i, "opened")
          /\ UNCHANGED <<sock, pool, i>>
       \/ /\ i <= size /\ ~(ctx = 0 \/ AwareNow)
          /\ Append
          /\ UNCHANGED <<ctx, connVars>>
       \/ /\ i > size
          /\ Finish(IF ctx = 0 THEN "reconnectError" ELSE "connected")
          /\ UNCHANGED <<ctx, connVars, pool, i>>
    /\ UNCHANGED <<envVars, current, size, steady>>

Opened ==
    /\ pc = "opened"
    /\ \/ /\ outcome = "ok" /\ Append
          /\ current' = IF AwareNow THEN current ELSE i
          /\ UNCHANGED <<ctx, connVars>>
       \/ /\ outcome = "connErr" /\ AwareNow
          /\ StartReconnect(i, "rescheduled")
          /\ UNCHANGED <<pool, current, i>>
       \/ /\ outcome = "connErr" /\ ~AwareNow
          /\ Append
          /\ UNCHANGED <<ctx, connVars, current>>
       \/ /\ outcome = "raise" /\ Finish("raise")
          /\ UNCHANGED <<ctx, connVars, pool, current, i>>
    /\ UNCHANGED <<envVars, size, steady>>

Rescheduled ==
    /\ pc = "rescheduled"
    /\ IF outcome = "raise" THEN Finish("raise") /\ UNCHANGED <<pool, i>> ELSE Append
    /\ UNCHANGED <<envVars, ctx, connVars, current, size, steady>>

(* close() closes every connection and empties the pool; the context and    *)
(* _current_node stay as they are.                                          *)
Close ==
    /\ pc = "idle" /\ pool > 0
    /\ sock' = [n \in Node |-> IF n <= pool THEN "none" ELSE sock[n]]
    /\ pool' = 0
    /\ Finish("ok")
    /\ UNCHANGED <<envVars, ctx, failed, sess, unread, current, loopVars, steady>>

-----------------------------------------------------------------------------
(* A query: random_node, then Connection.request on the node it returns     *)

Use(n) ==
    /\ pc' = "send" /\ target' = n
    /\ UNCHANGED <<outcome, then, detecting>>

(* With partition awareness: any node that is alive, or else the pool is    *)
(* gone through reconnecting each.                                          *)
PickAlive ==
    /\ AwareNow
    /\ IF AliveNodes # {}
       THEN (\E n \in AliveNodes : Use(n)) /\ UNCHANGED i
       ELSE /\ pc' = "reviving" /\ i' = 1
            /\ UNCHANGED <<outcome, target, then, detecting>>
    /\ UNCHANGED <<sock, current>>

(* Mutant: the index runs off the end of the pool.                          *)
LeaveUnwrapped ==
    /\ sock' = [sock EXCEPT ![current] = "none"]
    /\ current' = current + 1
    /\ pc' = "scanning" /\ i' = 1
    /\ UNCHANGED <<outcome, target, then, detecting>>

(* The current node is given up for the next one.                           *)
LeaveCurrent ==
    /\ sock' = [sock EXCEPT ![current] = "none"]
    /\ current' = IF current + 1 > pool THEN 1 ELSE current + 1
    /\ pc' = "scanning" /\ i' = 1
    /\ UNCHANGED <<outcome, target, then, detecting>>

(* Without partition awareness: the current node, or the next usable one.   *)
PickCurrent ==
    /\ ~AwareNow
    /\ \/ /\ current > pool
          /\ Finish("indexError") /\ UNCHANGED <<sock, current, i>>
       \/ /\ current <= pool /\ Alive(current)
          /\ Use(current) /\ UNCHANGED <<sock, current, i>>
       \/ /\ current <= pool /\ ~Alive(current)
          /\ LeaveCurrent

Query ==
    /\ pc = "idle" /\ pool > 0
    /\ steady' = Usable
    /\ PickAlive \/ PickCurrent
    /\ UNCHANGED <<envVars, ctx, failed, sess, unread, pool, size>>

(* Mutant: the second look for a node that is alive reconnects again.       *)
RevivingAgain ==
    /\ pc = "reviving"
    /\ \/ i <= pool /\ StartReconnect(i, "revived") /\ UNCHANGED i
       \/ /\ i > pool
          /\ \/ AliveNodes # {} /\ (\E n \in AliveNodes : Use(n)) /\ UNCHANGED i
             \/ AliveNodes = {} /\ i' = 1 /\ UNCHANGED callVars
          /\ UNCHANGED <<ctx, connVars>>
    /\ UNCHANGED <<envVars, poolVars, size, steady>>

Reviving ==
    /\ pc = "reviving"
    /\ \/ i <= pool /\ StartReconnect(i, "revived")
       \/ /\ i > pool
          /\ IF AliveNodes # {} THEN \E n \in AliveNodes : Use(n)
                                ELSE Finish("reconnectError")
          /\ UNCHANGED <<ctx, connVars>>
    /\ UNCHANGED <<envVars, poolVars, loopVars, steady>>

Revived ==
    /\ pc = "revived"
    /\ IF outcome = "raise"
       THEN Finish("raise") /\ UNCHANGED i
       ELSE /\ pc' = "reviving" /\ i' = i + 1
            /\ UNCHANGED <<outcome, target, then, detecting>>
    /\ UNCHANGED <<envVars, ctx, connVars, poolVars, size, steady>>

(* The k-th node the scan tries: from the current one on, then from the     *)
(* first one up to it.                                                      *)
Scanned(k) ==
    IF current + k - 1 <= pool THEN current + k - 1 ELSE current + k - 1 - pool

(* Mutant: the scan does not go back to the start of the pool.              *)
ScanToEnd == current + i - 1 > pool

ScanOver == i > pool

Scanning ==
    /\ pc = "scanning"
    /\ \/ ~ScanOver /\ StartConnect(Scanned(i), "scanned") /\ UNCHANGED sock
       \/ ScanOver /\ Finish("reconnectError") /\ UNCHANGED <<ctx, connVars>>
    /\ UNCHANGED <<envVars, poolVars, loopVars, steady>>

ScanReturns ==
    /\ pc = "scanned"
    /\ \/ outcome = "ok" /\ Use(target) /\ UNCHANGED i
       \/ /\ outcome = "connErr"
          /\ pc' = "scanning" /\ i' = i + 1
          /\ UNCHANGED <<outcome, target, then, detecting>>
       \/ outcome = "raise" /\ Finish("raise") /\ UNCHANGED i
    /\ UNCHANGED <<envVars, ctx, connVars, poolVars, size, steady>>

(* An error in send or recv: the connection is closed and opened again      *)
(* before the error is raised.                                              *)
(* Mutant: the connection is not marked failed.                             *)
RecoverUnmarked ==
    /\ pc' = "recovered" /\ outcome' = "ok"
    /\ UNCHANGED <<target, then, detecting, ctx, connVars>>

Recover ==
    /\ failed' = [failed EXCEPT ![target] = TRUE]
    /\ sock' = [sock EXCEPT ![target] = "none"]
    /\ pc' = "attempt" /\ then' = "recovered"
    /\ detecting' = (ctx = 0)
    /\ ctx' = IF ctx = 0 THEN V ELSE ctx
    /\ UNCHANGED <<outcome, target, sess, unread>>

(* sendall or recv_into raises: the peer is gone, or it does not answer and *)
(* the socket has a timeout.                                                *)
SocketFails == (sock[target] = "broken" \/ timeout) /\ Recover

(* A write to a socket whose peer is gone may still succeed.                *)
Send ==
    /\ pc = "send"
    /\ \/ /\ pc' = "recv"
          /\ unread' = IF sock[target] = "open"
                       THEN [unread EXCEPT ![target] = @ + 1] ELSE unread
          /\ UNCHANGED <<ctx, sock, failed, sess, outcome, target, then, detecting>>
       \/ SocketFails
    /\ UNCHANGED <<envVars, poolVars, loopVars, steady>>

(* A reply that is on its way may never arrive.                             *)
Recv ==
    /\ pc = "recv"
    /\ \/ /\ unread[target] > 0
          /\ unread' = [unread EXCEPT ![target] = @ - 1]
          /\ Finish("ok")
          /\ UNCHANGED <<ctx, sock, failed, sess>>
       \/ SocketFails
    /\ UNCHANGED <<envVars, poolVars, loopVars, steady>>

Recovered ==
    /\ pc = "recovered"
    /\ Finish(IF outcome = "raise" THEN "raise" ELSE "connErr")
    /\ UNCHANGED <<envVars, ctx, connVars, poolVars, loopVars, steady>>

-----------------------------------------------------------------------------
(* The nodes                                                                *)

Break(S) == [n \in Node |-> IF n \in S /\ sock[n] = "open" THEN "broken" ELSE sock[n]]

NodeStops(n) ==
    /\ n \in up
    /\ up' = up \ {n} /\ sock' = Break({n}) /\ steady' = steady \ {n}
    /\ UNCHANGED <<version, timeout, ctx, failed, sess, unread, poolVars, loopVars, callVars>>

(* A node comes back, perhaps with another version of the server.           *)
NodeStarts(n) ==
    /\ n \notin up
    /\ up' = up \cup {n}
    /\ \E v \in Versions : version' = [version EXCEPT ![n] = v]
    /\ UNCHANGED <<timeout, ctx, connVars, poolVars, loopVars, callVars, steady>>

ConnectionDrops(n) ==
    /\ sock[n] = "open" /\ sock' = Break({n})
    /\ UNCHANGED <<envVars, ctx, failed, sess, unread, poolVars, loopVars, callVars, steady>>

Transfer == Send \/ Recv

Compute ==
    \/ Connecting \/ Opened \/ Rescheduled \/ Attempt
    \/ Reviving \/ Revived \/ Scanning \/ ScanReturns \/ Recovered

Client == Compute \/ Transfer

Call == Close \/ Query \/ \E k \in Node : Connect(k)

Environment == \E n \in Node : NodeStops(n) \/ NodeStarts(n) \/ ConnectionDrops(n)

Next == Client \/ Call \/ Environment

Spec == Init /\ [][Next]_vars

(* The thread runs, and a handshake ends by handshake_timeout at the        *)
(* latest.  A send or a receive ends by the timeout, if there is one;       *)
(* without it, it blocks until the other side does something, which nothing *)
(* makes it do.                                                             *)
FairSpec == Spec /\ WF_vars(Compute) /\ WF_vars(timeout /\ Transfer)

-----------------------------------------------------------------------------
(* Properties                                                               *)

(* A connection that is alive has a protocol context to encode requests     *)
(* with: a failed handshake of another node (client.py:261) never takes it  *)
(* away.                                                                    *)
ContextKnown == \A n \in Node : Alive(n) => ctx # 0

(* All connections share one protocol context, and a later handshake with   *)
(* an older node lowers it.  It is never newer than what a live session     *)
(* agreed to, so no request uses a feature the session lacks.               *)
NeverNewerThanSession == \A n \in Node : Alive(n) => ctx <= sess[n]

(* Replies carry no check against their request in Connection.recv: a       *)
(* request is only written to a session with no reply outstanding, so that  *)
(* a reply that was late for one request is never taken for another's.      *)
InStep == pc = "send" => unread[target] = 0

(* connect() and random_node raise ReconnectError only if no node of the    *)
(* pool could be used all along.                                            *)
OutOfNodes == pc = "idle" /\ outcome = "reconnectError" => steady \cap 1..pool = {}

(* Every operation returns, however the nodes come and go and whether they  *)
(* answer or not, except that it may wait for ever where the socket has no  *)
(* timeout: in the send or the receive of the request itself, never in the  *)
(* handshakes, the scan or the recovery.                                    *)
Blocked == pc \in {"send", "recv"} /\ ~timeout
OperationsReturn == (pc # "idle") ~> (pc = "idle" \/ Blocked)
=============================================================================
