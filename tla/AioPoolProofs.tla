--------------------------- MODULE AioPoolProofs ---------------------------
(****************************************************************************)
(* What AioPool guarantees for any number of nodes and coroutines.  The     *)
(* core of the argument is when the context is settled.  It is given up     *)
(* only by the attempt that found none; that one is the attempt of          *)
(* connect(), which opens one node after the other and alone, so that       *)
(* meanwhile nothing reconnects and no transport is ready: no alive         *)
(* connection can lose its context, and a node that was tried in vain is    *)
(* steady no more.  Once settled the context stays, and who looks for a     *)
(* node has the whole pool before him: the list covers it, and a            *)
(* reconnection of a steady node goes on until the node is alive.  A step   *)
(* of the network keeps the invariant by NetRest, a step of a coroutine by  *)
(* StepDone, which asks only for the part of the invariant that is its own. *)
(****************************************************************************)
EXTENDS AioPool, SequenceTheorems, TLAPS

-----------------------------------------------------------------------------
(* The invariant                                                            *)

(* Where an attempt can be.                                                 *)
Stages == {"none", "created", "closing", "opening", "shaking", "broken", "shutting", "ok", "connErr", "raise"}

(* Where a coroutine can be.                                                *)
Places == {"idle", "connecting", "opened", "gathered", "regathered", "picking", "leaving", "scanning",
           "reviving", "ending", "closing"}

(* A connection as the model keeps it.                                      *)
Connection == [transport : Owners \cup {"none", "ready"}, failed : BOOLEAN, closed : BOOLEAN, orphan : BOOLEAN]

(* The variables have their types.                                          *)
TypeInv ==
  /\ up \subseteq Node
  /\ ctx \in BOOLEAN /\ connected \in BOOLEAN /\ timedOut \in BOOLEAN /\ aware \in BOOLEAN
  /\ pool \in 0..N /\ current \in Node
  /\ conn \in [Node -> Connection]
  /\ attempt \in [Owners -> [Node -> Stages]]
  /\ detecting \subseteq Owners \X Node
  /\ pc \in [Tasks -> Places]
  /\ order \in [Tasks -> Seq(Node)]
  /\ DOMAIN outcome = Tasks
  /\ steady \in [Tasks -> SUBSET Node]

(* A context is there to stay: the attempt that found none is over.         *)
Settled == ctx /\ detecting = {}

(* A coroutine that is idle or about to begin has no attempts; one that     *)
(* closes connections has no other ones.                                    *)
PlaceInv ==
  \A t \in Tasks, n \in Node :
    /\ pc[t] \in {"idle", "connecting", "picking", "ending"} => attempt[t][n] = "none"
    /\ pc[t] \in {"leaving", "closing"} => attempt[t][n] \in {"none", "shutting", "ok"}

(* A transport belongs to an attempt that awaits its handshake; whoever     *)
(* lost his has left none behind.                                           *)
WireInv ==
  \A u \in Owners, n \in Node :
    /\ conn[n].transport = u => attempt[u][n] = "shaking"
    /\ attempt[u][n] = "broken" => conn[n].transport = "none"

(* One attempt at most found no context, it is not over, and the context it *)
(* made up is there meanwhile.                                              *)
DetectInv ==
  /\ \A d \in detecting : attempt[d[1]][d[2]] \in {"opening", "shaking", "broken"}
  /\ \A d, e \in detecting : d = e
  /\ detecting # {} => ctx

(* connect() has the client to itself; once it has succeeded the pool is    *)
(* full and the context settled, and so it is for whoever looks for a node  *)
(* or gathers, unless the pool was closed meanwhile.                        *)
CallInv ==
  /\ \A t, u \in Tasks : t # u /\ pc[t] \in {"connecting", "opened", "gathered", "regathered"} => pc[u] = "idle"
  /\ connected => ~Connects /\ pool = N /\ Settled
  /\ \A t \in Tasks :
       /\ pc[t] # "idle" => outcome[t] = "none"
       /\ pc[t] = "opened" => pool < N
       /\ pc[t] \in {"gathered", "regathered"} => pool = N /\ Settled
       /\ pc[t] \in {"picking", "leaving", "scanning", "reviving"} => Settled /\ (pool = N \/ steady[t] = {})

(* A node that was steady all the while can be used, and no attempt at it   *)
(* has failed.                                                              *)
SteadyInv ==
  \A t \in Tasks :
    /\ steady[t] \subseteq Usable
    /\ \A n \in steady[t] : attempt[t][n] \notin {"connErr", "broken"}

(* Until the context is settled a client that is being connected tries one  *)
(* node after another: what is beyond has no transport, what was tried is   *)
(* steady no more, and the attempt that waits is the one that found no      *)
(* context.                                                                 *)
ConnectOK(t) ==
  /\ pc[t] = "connecting" => detecting = {}
  /\ pc[t] \in {"connecting", "opened"} /\ ~Settled =>
       /\ \A n \in steady[t] : n > pool
       /\ \A n \in Node : n > pool => attempt[Background][n] = "none"
       /\ \A n \in Node : n > pool + 1 => conn[n].transport = "none" /\ ~conn[n].orphan
       /\ ~ctx => \A n \in Node : attempt[Background][n] # "created"
  /\ pc[t] = "connecting" /\ ~Settled =>
       \A n \in Node : n > pool => conn[n].transport = "none" /\ ~conn[n].orphan
  /\ pc[t] = "opened" /\ ~Settled =>
       /\ \A n \in Node : n # pool + 1 => attempt[t][n] = "none"
       /\ \/ /\ attempt[t][pool + 1] \in {"opening", "shaking"} /\ detecting = {<<t, pool + 1>>}
             /\ ~conn[pool + 1].orphan /\ conn[pool + 1].transport \in {"none", t}
          \/ attempt[t][pool + 1] = "connErr" /\ ~ctx

(* ConnectOK of every coroutine.                                            *)
ConnectInv == \A t \in Tasks : ConnectOK(t)

(* Before the context is settled no transport is ready, or left behind, and *)
(* nothing reconnects, unless a handshake timed out.                        *)
ContextInv ==
  ~timedOut /\ ~Settled =>
    \A n \in Node : attempt[Background][n] = "none" /\ conn[n].transport # "ready" /\ ~conn[n].orphan

(* The reconnection of a steady node by random_node() goes on, and what it  *)
(* has reached stays.                                                       *)
ReviveOK(t, n) ==
  /\ attempt[t][n] \in {"closing", "opening", "shaking", "ok"}
  /\ attempt[t][n] \in {"opening", "shaking", "ok"} => ~conn[n].closed
  /\ attempt[t][n] \in {"shaking", "ok"} => conn[n].transport # "none"
  /\ attempt[t][n] = "ok" => ~conn[n].failed

(* ReviveOK, in every coroutine that reconnects the pool, of every node     *)
(* that was steady.                                                         *)
ReviveInv == \A t \in Tasks : pc[t] = "reviving" => \A n \in steady[t] : ReviveOK(t, n)

(* A steady node is the one that is tried or is still in the list, and one  *)
(* is tried.                                                                *)
ScanInv ==
  \A t \in Tasks : pc[t] = "scanning" =>
    /\ \A n \in steady[t] : attempt[t][n] # "none" \/ \E k \in DOMAIN order[t] : order[t][k] = n
    /\ \E n \in Node : attempt[t][n] # "none"

(* The inductive invariant.                                                 *)
IInv == /\ TypeInv /\ PlaceInv /\ WireInv /\ DetectInv /\ CallInv /\ SteadyInv
        /\ ConnectInv /\ ContextInv /\ ReviveInv /\ ScanInv /\ GivesUp

-----------------------------------------------------------------------------
(* What the operators of AioPool do, connection by connection               *)

(* What reads and writes one connection leaves the others as they are.      *)
Else(n) ==
  /\ conn' \in [Node -> Connection]
  /\ \A m \in Node : m # n => conn'[m] = conn[m]

(* What moves one attempt leaves the others as they are.                    *)
ElseTried(t, n) ==
  /\ attempt' \in [Owners -> [Node -> Stages]]
  /\ \A u \in Owners, m \in Node : u # t \/ m # n => attempt'[u][m] = attempt[u][m]

(* connect() and reconnect() of nodes, of which C have their transport      *)
(* closed first and O are opened.                                           *)
Begun(t, nodes, C, O) ==
  /\ C \cup O \subseteq nodes /\ C \cap O = {}
  /\ \A n \in nodes : n \in C \cup O <=> ~Alive(n)
  /\ \A n \in C : conn[n].transport # "none"
  /\ conn' \in [Node -> Connection] /\ attempt' \in [Owners -> [Node -> Stages]]
  /\ \A n \in Node :
       /\ conn'[n].failed = conn[n].failed /\ conn'[n].orphan = conn[n].orphan
       /\ conn'[n].transport = IF n \in C THEN "none" ELSE conn[n].transport
       /\ conn'[n].closed = IF n \in O THEN FALSE ELSE conn[n].closed
       /\ \A u \in Owners : u # t =>
            attempt'[u][n] = IF n \in C /\ conn[n].transport = u THEN "broken" ELSE attempt[u][n]
       /\ n \in nodes => attempt'[t][n] = IF n \in C THEN "closing" ELSE IF n \in O THEN "opening" ELSE Result(t, "ok")
       /\ n \notin nodes => attempt'[t][n] = IF t = Background THEN attempt[t][n] ELSE "none"
  /\ detecting' = IF ctx THEN detecting ELSE detecting \cup {<<t, n>> : n \in O}
  /\ ctx' = (ctx \/ O # {})
  /\ steady' \in [Tasks -> SUBSET Node]
  /\ \A u \in Tasks : steady'[u] = IF u = t THEN steady[u] ELSE steady[u] \ C

(* What Attempts makes of each attempt.                                     *)
LEMMA AttemptsChanged ==
    ASSUME TypeInv, NEW t \in Owners, NEW closing \in SUBSET Node, NEW nodes \in SUBSET Node,
           NEW of \in [nodes -> Stages], attempt' = Attempts(t, closing, of)
    PROVE  /\ attempt' \in [Owners -> [Node -> Stages]]
           /\ \A u \in Owners, n \in Node : u # t =>
                attempt'[u][n] = IF n \in closing /\ conn[n].transport = u THEN "broken" ELSE attempt[u][n]
           /\ \A n \in nodes : attempt'[t][n] = of[n]
           /\ \A n \in Node : n \notin nodes => attempt'[t][n] = IF t = Background THEN attempt[t][n] ELSE "none"
<1> DEFINE g(u, n) == IF u = t THEN IF n \in DOMAIN of THEN of[n] ELSE IF t = Background THEN attempt[t][n] ELSE "none"
                      ELSE IF n \in closing /\ conn[n].transport = u THEN "broken" ELSE attempt[u][n]
<1>1. attempt' = [u \in Owners |-> [n \in Node |-> g(u, n)]]
  BY DEF Attempts
<1>2. ASSUME NEW u \in Owners, NEW n \in Node
      PROVE  g(u, n) \in Stages
  BY DEF TypeInv, Stages
<1>3. \A u \in Owners, n \in Node : g(u, n) \in Stages
  BY <1>2
<1>4. DOMAIN of = nodes
  OBVIOUS
<1>5. /\ \A u \in Owners, n \in Node : u # t =>
            g(u, n) = IF n \in closing /\ conn[n].transport = u THEN "broken" ELSE attempt[u][n]
      /\ \A n \in nodes : g(t, n) = of[n]
      /\ \A n \in Node : n \notin nodes => g(t, n) = IF t = Background THEN attempt[t][n] ELSE "none"
  BY <1>4
<1> HIDE DEF g
<1>6. \A u \in Owners : attempt'[u] = [n \in Node |-> g(u, n)]
  BY <1>1
<1>7. \A u \in Owners, n \in Node : attempt'[u][n] = g(u, n)
  BY <1>6
<1>8. attempt' \in [Owners -> [Node -> Stages]]
  BY <1>1, <1>3
<1> QED BY <1>5, <1>7, <1>8

(* What Without leaves of each set of steady nodes.                         *)
LEMMA Steadied ==
    ASSUME TypeInv, NEW t \in Owners, NEW nodes, steady' = Without(nodes, t)
    PROVE  /\ steady' \in [Tasks -> SUBSET Node]
           /\ \A u \in Tasks : steady'[u] = IF u = t THEN steady[u] ELSE steady[u] \ nodes
BY DEF TypeInv, Without

(* Begin, connection by connection.                                         *)
LEMMA Begins ==
    ASSUME TypeInv, NEW t \in Owners, NEW nodes \in SUBSET Node, NEW how \in {"connect", "reconnect"},
           Begin(t, nodes, how)
    PROVE  \E C, O \in SUBSET Node : Begun(t, nodes, C, O) /\ (how = "connect" => C = {})
<1> DEFINE dead == {n \in nodes : ~Alive(n)}
           C == IF how = "reconnect" THEN {n \in dead : conn[n].transport # "none"} ELSE {}
           O == dead \ C
           of == [n \in nodes |-> IF n \in C THEN "closing" ELSE IF n \in O THEN "opening" ELSE Result(t, "ok")]
<1>1. /\ C \cup O \subseteq nodes /\ C \cap O = {} /\ C \in SUBSET Node /\ O \in SUBSET Node
      /\ \A n \in nodes : n \in C \cup O <=> ~Alive(n)
      /\ \A n \in C : conn[n].transport # "none"
      /\ how = "connect" => C = {}
  OBVIOUS
<1>2. /\ conn' = [n \in Node |-> IF n \in C THEN [conn[n] EXCEPT !.transport = "none"]
                                 ELSE IF n \in O THEN [conn[n] EXCEPT !.closed = FALSE] ELSE conn[n]]
      /\ attempt' = Attempts(t, C, of)
      /\ detecting' = IF ctx THEN detecting ELSE detecting \cup {<<t, n>> : n \in O}
      /\ ctx' = (ctx \/ O # {})
      /\ steady' = Without(C, t)
  BY DEF Begin
<1>3. of \in [nodes -> Stages]
  BY DEF Stages, Result
<1>4. \A n \in nodes : of[n] = IF n \in C THEN "closing" ELSE IF n \in O THEN "opening" ELSE Result(t, "ok")
  OBVIOUS
<1> HIDE DEF dead, C, O, of
<1>5. /\ attempt' \in [Owners -> [Node -> Stages]]
      /\ \A u \in Owners, n \in Node : u # t =>
                attempt'[u][n] = IF n \in C /\ conn[n].transport = u THEN "broken" ELSE attempt[u][n]
      /\ \A n \in nodes : attempt'[t][n] = of[n]
      /\ \A n \in Node : n \notin nodes => attempt'[t][n] = IF t = Background THEN attempt[t][n] ELSE "none"
  BY <1>1, <1>2, <1>3, AttemptsChanged
<1>6. /\ steady' \in [Tasks -> SUBSET Node]
      /\ \A u \in Tasks : steady'[u] = IF u = t THEN steady[u] ELSE steady[u] \ C
  BY <1>2, Steadied
<1>7. ASSUME NEW n \in Node
      PROVE  /\ conn'[n] \in Connection
             /\ conn'[n].failed = conn[n].failed /\ conn'[n].orphan = conn[n].orphan
             /\ conn'[n].transport = IF n \in C THEN "none" ELSE conn[n].transport
             /\ conn'[n].closed = IF n \in O THEN FALSE ELSE conn[n].closed
  <2>1. conn[n] \in Connection
    BY DEF TypeInv
  <2>2. n \in C => n \notin O
    BY <1>1
  <2> QED BY <1>2, <2>1, <2>2 DEF Connection
<1>8. conn' \in [Node -> Connection]
  BY <1>2, <1>7
<1>9. ASSUME NEW n \in Node
      PROVE  /\ \A u \in Owners : u # t =>
                  attempt'[u][n] = IF n \in C /\ conn[n].transport = u THEN "broken" ELSE attempt[u][n]
             /\ n \in nodes => attempt'[t][n] = IF n \in C THEN "closing" ELSE IF n \in O THEN "opening" ELSE Result(t, "ok")
             /\ n \notin nodes => attempt'[t][n] = IF t = Background THEN attempt[t][n] ELSE "none"
  BY <1>4, <1>5
<1>10. /\ detecting' = IF ctx THEN detecting ELSE detecting \cup {<<t, n>> : n \in O}
       /\ ctx' = (ctx \/ O # {})
  BY <1>2
<1>11. Begun(t, nodes, C, O)
  BY ONLY <1>1, <1>5, <1>6, <1>7, <1>8, <1>9, <1>10 DEF Begun
<1> QED BY <1>1, <1>11

(* Shut, connection by connection.                                          *)
LEMMA Shuts ==
    ASSUME TypeInv, NEW t \in Tasks, NEW nodes \in SUBSET Node, Shut(t, nodes)
    PROVE  /\ conn' \in [Node -> Connection] /\ attempt' \in [Owners -> [Node -> Stages]]
           /\ steady' \in [Tasks -> SUBSET Node]
           /\ \A n \in Node :
                /\ conn'[n].failed = conn[n].failed /\ conn'[n].orphan = conn[n].orphan
                /\ conn'[n].transport = IF n \in nodes THEN "none" ELSE conn[n].transport
                /\ conn'[n].closed = (n \in nodes \/ conn[n].closed)
                /\ \A u \in Owners : u # t =>
                     attempt'[u][n] = IF n \in nodes /\ conn[n].transport = u THEN "broken" ELSE attempt[u][n]
                /\ attempt'[t][n] \in {"none", "shutting", "ok"}
           /\ \A u \in Tasks : steady'[u] = IF u = t THEN steady[u] ELSE steady[u] \ nodes
           /\ UNCHANGED <<ctx, detecting>>
<1> DEFINE of == [n \in nodes |-> IF conn[n].transport = "none" THEN "ok" ELSE "shutting"]
<1>1. of \in [nodes -> Stages] /\ \A n \in nodes : of[n] \in {"shutting", "ok"}
  BY DEF Stages
<1>2. /\ conn' = [n \in Node |-> IF n \in nodes THEN [conn[n] EXCEPT !.transport = "none", !.closed = TRUE]
                                 ELSE conn[n]]
      /\ attempt' = Attempts(t, nodes, of)
      /\ steady' = Without(nodes, t)
      /\ UNCHANGED <<ctx, detecting>>
  BY DEF Shut
<1>3. t \in Owners /\ t # Background
  BY PoolAssumption DEF Owners
<1> HIDE DEF of
<1>4. /\ attempt' \in [Owners -> [Node -> Stages]]
      /\ \A u \in Owners, n \in Node : u # t =>
                attempt'[u][n] = IF n \in nodes /\ conn[n].transport = u THEN "broken" ELSE attempt[u][n]
      /\ \A n \in nodes : attempt'[t][n] = of[n]
      /\ \A n \in Node : n \notin nodes => attempt'[t][n] = IF t = Background THEN attempt[t][n] ELSE "none"
  <2>1. nodes \in SUBSET Node /\ of \in [nodes -> Stages] /\ attempt' = Attempts(t, nodes, of) /\ t \in Owners
    BY <1>1, <1>2, <1>3
  <2> QED BY ONLY TypeInv, <2>1, AttemptsChanged
<1>5. /\ steady' \in [Tasks -> SUBSET Node]
      /\ \A u \in Tasks : steady'[u] = IF u = t THEN steady[u] ELSE steady[u] \ nodes
  BY <1>2, <1>3, Steadied
<1>6. ASSUME NEW n \in Node
      PROVE  /\ conn'[n] \in Connection
             /\ conn'[n].failed = conn[n].failed /\ conn'[n].orphan = conn[n].orphan
             /\ conn'[n].transport = IF n \in nodes THEN "none" ELSE conn[n].transport
             /\ conn'[n].closed = (n \in nodes \/ conn[n].closed)
  <2>1. conn[n] \in Connection
    BY DEF TypeInv
  <2>2. CASE n \in nodes
    BY <1>2, <2>1, <2>2 DEF Connection
  <2>3. CASE n \notin nodes
    BY <1>2, <2>1, <2>3 DEF Connection
  <2> QED BY <2>2, <2>3
<1>7. ASSUME NEW n \in Node
      PROVE  /\ \A u \in Owners : u # t =>
                  attempt'[u][n] = IF n \in nodes /\ conn[n].transport = u THEN "broken" ELSE attempt[u][n]
             /\ attempt'[t][n] \in {"none", "shutting", "ok"}
  BY <1>1, <1>3, <1>4
<1>8. conn' \in [Node -> Connection]
  BY <1>2, <1>6
<1> QED BY ONLY <1>2, <1>4, <1>5, <1>6, <1>7, <1>8

(* The loss of a transport that was closed is delivered.                    *)
LEMMA Closes ==
    ASSUME TypeInv, NEW t \in Owners, NEW n \in Node, Closed(t, n)
    PROVE  /\ Else(n) /\ ElseTried(t, n) /\ steady' = steady
           /\ \/ /\ attempt[t][n] = "closing" /\ attempt'[t][n] = "opening"
                 /\ conn'[n].failed = conn[n].failed /\ conn'[n].transport = conn[n].transport
                 /\ conn'[n].orphan = conn[n].orphan /\ conn'[n].closed = FALSE
                 /\ detecting' = IF ctx THEN detecting ELSE detecting \cup {<<t, n>>}
                 /\ ctx' = TRUE
              \/ /\ attempt[t][n] = "shutting" /\ attempt'[t][n] = "ok"
                 /\ UNCHANGED <<conn, detecting, ctx>>
<1>1. conn[n] \in Connection
  BY DEF TypeInv
<1>2. ElseTried(t, n)
  <2>1. PICK r \in Stages : attempt' = [attempt EXCEPT ![t][n] = r]
    BY DEF Closed, Stages
  <2> QED BY <2>1 DEF TypeInv, ElseTried
<1>3. CASE attempt[t][n] = "closing"
  <2>1. /\ conn' = [conn EXCEPT ![n].closed = FALSE] /\ attempt' = [attempt EXCEPT ![t][n] = "opening"]
        /\ detecting' = IF ctx THEN detecting ELSE detecting \cup {<<t, n>>}
        /\ ctx' = TRUE /\ steady' = steady
    BY <1>3 DEF Closed
  <2>2. /\ Else(n)
        /\ conn'[n].failed = conn[n].failed /\ conn'[n].transport = conn[n].transport
        /\ conn'[n].orphan = conn[n].orphan /\ conn'[n].closed = FALSE
    BY <1>1, <2>1 DEF TypeInv, Connection, Else
  <2>3. attempt'[t][n] = "opening"
    BY <2>1 DEF TypeInv
  <2> QED BY <1>2, <1>3, <2>1, <2>2, <2>3
<1>4. CASE attempt[t][n] # "closing"
  <2>1. /\ attempt[t][n] = "shutting" /\ attempt'[t][n] = "ok"
        /\ UNCHANGED <<conn, detecting, ctx, steady>>
    BY <1>4 DEF Closed, TypeInv
  <2>2. Else(n)
    BY <2>1 DEF TypeInv, Else
  <2> QED BY <1>2, <2>1, <2>2
<1> QED BY <1>3, <1>4

(* A transport is opened.                                                   *)
LEMMA OpensThen ==
    ASSUME TypeInv, NEW t \in Owners, NEW n \in Node, Opens(t, n)
    PROVE  /\ Else(n) /\ ElseTried(t, n) /\ UNCHANGED <<detecting, ctx, steady>>
           /\ attempt[t][n] = "opening" /\ attempt'[t][n] = "shaking"
           /\ conn'[n].failed = conn[n].failed /\ conn'[n].closed = conn[n].closed
           /\ conn'[n].transport = t
           /\ conn'[n].orphan = (conn[n].orphan \/ conn[n].transport = "ready")
<1>1. conn[n] \in Connection
  BY DEF TypeInv
<1> QED BY <1>1 DEF TypeInv, Opens, Connection, Else, ElseTried, Stages

(* A handshake succeeds.                                                    *)
LEMMA Shaken ==
    ASSUME TypeInv, NEW t \in Owners, NEW n \in Node, HandshakeOk(t, n)
    PROVE  /\ Else(n) /\ ElseTried(t, n) /\ UNCHANGED <<ctx, steady>>
           /\ attempt[t][n] = "shaking" /\ ctx /\ attempt'[t][n] = Result(t, "ok")
           /\ detecting' = detecting \ {<<t, n>>}
           /\ ~conn'[n].failed /\ conn'[n].closed = conn[n].closed
           /\ conn'[n].transport = IF conn[n].transport = t THEN "ready" ELSE conn[n].transport
           /\ conn'[n].orphan = (conn[n].orphan \/ conn[n].transport # t)
<1>1. conn[n] \in Connection
  BY DEF TypeInv
<1> QED BY <1>1 DEF TypeInv, HandshakeOk, Connection, Else, ElseTried, Stages, Result

(* A handshake is refused.                                                  *)
LEMMA RejectedThen ==
    ASSUME TypeInv, NEW t \in Owners, NEW n \in Node, Rejected(t, n)
    PROVE  /\ Else(n) /\ UNCHANGED <<ctx>> /\ n \in forbidding
           /\ attempt' \in [Owners -> [Node -> Stages]]
           /\ \A u \in Owners, m \in Node : u # t \/ m # n =>
                attempt'[u][m] = IF m = n /\ conn[n].transport = u THEN "broken" ELSE attempt[u][m]
           /\ attempt[t][n] = "shaking" /\ attempt'[t][n] = Result(t, "raise")
           /\ detecting' = detecting \ {<<t, n>>}
           /\ conn'[n].failed /\ conn'[n].closed /\ conn'[n].transport = "none"
           /\ conn'[n].orphan = conn[n].orphan
           /\ steady' \in [Tasks -> SUBSET Node]
           /\ \A u \in Tasks : steady'[u] = IF u = t THEN steady[u] ELSE steady[u] \ {n}
<1>1. conn[n] \in Connection
  BY DEF TypeInv
<1>2. /\ steady' \in [Tasks -> SUBSET Node]
      /\ \A u \in Tasks : steady'[u] = IF u = t THEN steady[u] ELSE steady[u] \ {n}
  BY Steadied DEF Rejected
<1>3. /\ attempt' \in [Owners -> [Node -> Stages]]
      /\ \A u \in Owners, m \in Node : u # t \/ m # n =>
                attempt'[u][m] = IF m = n /\ conn[n].transport = u THEN "broken" ELSE attempt[u][m]
      /\ attempt'[t][n] = Result(t, "raise")
  BY DEF TypeInv, Rejected, Stages, Result
<1>4. /\ Else(n) /\ UNCHANGED <<ctx>> /\ n \in forbidding /\ attempt[t][n] = "shaking"
      /\ detecting' = detecting \ {<<t, n>>}
      /\ conn'[n].failed /\ conn'[n].closed /\ conn'[n].transport = "none"
      /\ conn'[n].orphan = conn[n].orphan
  BY <1>1 DEF TypeInv, Rejected, Connection, Else
<1> QED BY ONLY <1>2, <1>3, <1>4

(* A handshake finds no context.                                            *)
LEMMA NoContextThen ==
    ASSUME TypeInv, NEW t \in Owners, NEW n \in Node, NoContext(t, n)
    PROVE  /\ Else(n) /\ ElseTried(t, n) /\ UNCHANGED <<ctx, detecting, steady>>
           /\ attempt[t][n] = "shaking" /\ attempt'[t][n] = Result(t, "raise") /\ ~ctx
           /\ conn'[n].failed /\ conn'[n].closed = conn[n].closed
           /\ IF conn[n].transport = t THEN conn'[n].transport \in {"none", "ready"}
              ELSE conn'[n].transport = conn[n].transport
<1>1. conn[n] \in Connection
  BY DEF TypeInv
<1>2. /\ ElseTried(t, n) /\ UNCHANGED <<ctx, detecting, steady>>
      /\ attempt[t][n] = "shaking" /\ attempt'[t][n] = Result(t, "raise") /\ ~ctx
  BY DEF TypeInv, NoContext, ElseTried, Stages, Result
<1>3. PICK stays \in BOOLEAN :
       conn' = [conn EXCEPT ![n].failed = TRUE,
                            ![n].transport = IF @ # t THEN @ ELSE IF stays THEN "ready" ELSE "none",
                            ![n].orphan = @ \/ (stays /\ conn[n].transport # t)]
  BY DEF NoContext
<1>4. /\ Else(n)
      /\ conn'[n].failed /\ conn'[n].closed = conn[n].closed
      /\ IF conn[n].transport = t THEN conn'[n].transport \in {"none", "ready"}
         ELSE conn'[n].transport = conn[n].transport
  BY <1>1, <1>3 DEF TypeInv, Connection, Else
<1> QED BY ONLY <1>2, <1>4

(* An attempt fails.                                                        *)
LEMMA Failed ==
    ASSUME TypeInv, NEW t \in Owners, NEW n \in Node, Fails(t, n)
    PROVE  /\ Else(n) /\ ElseTried(t, n)
           /\ attempt[t][n] \in {"opening", "shaking", "broken"} /\ attempt'[t][n] = Result(t, "connErr")
           /\ detecting' = detecting \ {<<t, n>>}
           /\ ctx' = IF <<t, n>> \in detecting THEN FALSE ELSE ctx
           /\ timedOut' \in BOOLEAN /\ (timedOut => timedOut')
           /\ conn'[n].failed /\ conn'[n].closed = conn[n].closed
           /\ conn[n].transport # t => conn'[n].transport = conn[n].transport
           /\ conn[n].transport = t => conn'[n].transport \in {"none", "ready"}
           /\ \/ /\ conn[n].transport = t => conn'[n].transport = "none"
                 /\ conn'[n].orphan = conn[n].orphan
              \/ /\ Connects => timedOut'
                 /\ conn[n].transport = t => conn'[n].transport = "ready"
                 /\ attempt[t][n] = "shaking"
           /\ steady' \in [Tasks -> SUBSET Node]
           /\ \A u \in Tasks : steady'[u] = IF attempt[t][n] = "broken" THEN steady[u] ELSE steady[u] \ {n}
<1>1. conn[n] \in Connection
  BY DEF TypeInv
<1>2. /\ ElseTried(t, n)
      /\ attempt[t][n] \in {"opening", "shaking", "broken"} /\ attempt'[t][n] = Result(t, "connErr")
      /\ detecting' = detecting \ {<<t, n>>}
      /\ ctx' = IF <<t, n>> \in detecting THEN FALSE ELSE ctx
  BY DEF TypeInv, Fails, ElseTried, Stages, Result
<1>3. PICK stays \in IF attempt[t][n] = "shaking" THEN BOOLEAN ELSE {FALSE} :
    /\ timedOut' = (timedOut \/ (stays /\ Connects))
    /\ conn' = [conn EXCEPT ![n].failed = TRUE,
                            ![n].transport = IF @ # t THEN @ ELSE IF stays THEN "ready" ELSE "none",
                            ![n].orphan = @ \/ (stays /\ conn[n].transport # t)]
  BY DEF Fails
<1>4. /\ Else(n)
      /\ conn'[n].failed /\ conn'[n].closed = conn[n].closed
      /\ conn[n].transport # t => conn'[n].transport = conn[n].transport
      /\ conn[n].transport = t => conn'[n].transport = IF stays THEN "ready" ELSE "none"
      /\ conn'[n].orphan = (conn[n].orphan \/ (stays /\ conn[n].transport # t))
  BY <1>1, <1>3 DEF TypeInv, Connection, Else
<1>5. /\ steady' \in [Tasks -> SUBSET Node]
      /\ \A u \in Tasks : steady'[u] = IF attempt[t][n] = "broken" THEN steady[u] ELSE steady[u] \ {n}
  <2>1. Background \in Owners /\ \A u \in Tasks : u # Background
    BY PoolAssumption DEF Owners
  <2>2. CASE attempt[t][n] = "broken"
    BY <2>2 DEF Fails, TypeInv
  <2>3. CASE attempt[t][n] # "broken"
    <3>1. steady' = Without({n}, Background)
      BY <2>3 DEF Fails
    <3> QED BY <2>1, <2>3, <3>1, Steadied
  <2> QED BY <2>2, <2>3
<1>6. timedOut' \in BOOLEAN /\ (timedOut => timedOut') /\ (stays /\ Connects => timedOut')
  BY <1>3 DEF TypeInv
<1>7. conn[n].orphan \in BOOLEAN /\ stays \in BOOLEAN /\ (stays => attempt[t][n] = "shaking")
  BY <1>1, <1>3 DEF Connection
<1>8. \/ /\ conn[n].transport = t => conn'[n].transport = "none"
         /\ conn'[n].orphan = conn[n].orphan
      \/ /\ Connects => timedOut'
         /\ conn[n].transport = t => conn'[n].transport = "ready"
         /\ attempt[t][n] = "shaking"
  <2>1. CASE stays = TRUE
    BY <1>4, <1>6, <1>7, <2>1
  <2>2. CASE stays = FALSE
    BY <1>4, <1>7, <2>2
  <2> QED BY <1>7, <2>1, <2>2
<1> QED BY ONLY <1>2, <1>4, <1>5, <1>6, <1>8

-----------------------------------------------------------------------------
(* Transports and the context                                               *)

(* A step keeps what holds of transports and of the context, and settles    *)
(* for good.                                                                *)
Nets == WireInv' /\ DetectInv' /\ (Settled => Settled')

(* An attempt that awaits nothing.                                          *)
Over(t, n) == attempt[t][n] \in Results \cup {"none", "created"}

(* The owners are none of the states of a transport, and Background is no   *)
(* coroutine.                                                               *)
LEMMA NoOwner == /\ \A u \in Owners : u # "none" /\ u # "ready"
                 /\ Background \in Owners /\ \A t \in Tasks : t \in Owners /\ t # Background
BY PoolAssumption DEF Owners

(* Begin keeps transports and context in order.                             *)
LEMMA NetBegun ==
    ASSUME TypeInv, WireInv, DetectInv, NEW t \in Owners, NEW nodes \in SUBSET Node,
           NEW C \in SUBSET Node, NEW O \in SUBSET Node, Begun(t, nodes, C, O),
           \A n \in Node : Over(t, n) \/ (t = Background /\ n \notin nodes),
           ctx \/ \A n, m \in O : n = m
    PROVE  Nets
<1>1. ASSUME NEW u \in Owners, NEW n \in Node
      PROVE  /\ conn'[n].transport = u => attempt'[u][n] = "shaking"
             /\ attempt'[u][n] = "broken" => conn'[n].transport = "none"
  <2>1. conn'[n].transport = IF n \in C THEN "none" ELSE conn[n].transport
    BY DEF Begun
  <2>2. u # "none" /\ u # "ready"
    BY NoOwner
  <2>3. CASE u # t
    <3>1. attempt'[u][n] = IF n \in C /\ conn[n].transport = u THEN "broken" ELSE attempt[u][n]
      BY <2>3 DEF Begun
    <3> QED BY <2>1, <2>2, <3>1 DEF WireInv
  <2>4. CASE u = t
    <3>1. n \in nodes => attempt'[t][n] = IF n \in C THEN "closing" ELSE IF n \in O THEN "opening" ELSE Result(t, "ok")
      BY DEF Begun
    <3>2. n \notin nodes => attempt'[t][n] = IF t = Background THEN attempt[t][n] ELSE "none"
      BY DEF Begun
    <3>3. conn[n].transport = t => attempt[t][n] = "shaking"
      BY DEF WireInv
    <3>4. attempt[t][n] = "broken" => conn[n].transport = "none"
      BY DEF WireInv
    <3>5. n \in nodes => conn[n].transport # t
      BY <3>3 DEF Over, Results
    <3>6. Result(t, "ok") # "broken"
      BY DEF Result
    <3>7. t # Background => conn[n].transport # t
      BY <3>3 DEF Over, Results
    <3> QED BY <2>1, <2>2, <2>4, <3>1, <3>2, <3>3, <3>4, <3>5, <3>6, <3>7
  <2> QED BY <2>3, <2>4
<1>2. WireInv'
  BY <1>1 DEF WireInv
<1>3. /\ detecting' = IF ctx THEN detecting ELSE detecting \cup {<<t, n>> : n \in O}
      /\ ctx' = (ctx \/ O # {})
  BY DEF Begun
<1>4. \A d \in detecting : d[1] \in Owners /\ d[2] \in Node
  BY DEF TypeInv
<1>5. ASSUME NEW d \in detecting
      PROVE  attempt'[d[1]][d[2]] \in {"opening", "shaking", "broken"}
  <2>1. d[1] \in Owners /\ d[2] \in Node /\ attempt[d[1]][d[2]] \in {"opening", "shaking", "broken"}
    BY <1>4 DEF DetectInv
  <2>2. CASE d[1] # t
    <3>1. \A u \in Owners, n \in Node : u # t =>
            attempt'[u][n] = IF n \in C /\ conn[n].transport = u THEN "broken" ELSE attempt[u][n]
      BY DEF Begun
    <3>2. attempt'[d[1]][d[2]] = "broken" \/ attempt'[d[1]][d[2]] = attempt[d[1]][d[2]]
      BY <2>1, <2>2, <3>1
    <3> QED BY <2>1, <3>2
  <2>3. CASE d[1] = t
    <3>1. ~Over(t, d[2])
      BY <2>1, <2>3 DEF Over, Results
    <3>2. t = Background /\ d[2] \notin nodes
      BY <2>1, <3>1
    <3>3. attempt'[t][d[2]] = attempt[t][d[2]]
      BY <2>1, <3>2 DEF Begun
    <3> QED BY <2>1, <2>3, <3>3
  <2> QED BY <2>2, <2>3
<1>6. ASSUME NEW n \in O
      PROVE  attempt'[t][n] = "opening"
  <2>1. n \in Node /\ n \in nodes /\ n \notin C
    BY DEF Begun
  <2> QED BY <2>1 DEF Begun
<1>7. CASE ctx
  <2>1. detecting' = detecting /\ ctx'
    BY <1>3, <1>7
  <2> QED BY <1>2, <1>5, <2>1 DEF Nets, DetectInv, Settled
<1>8. CASE ~ctx
  <2>1. detecting = {}
    BY <1>8 DEF DetectInv
  <2>2. detecting' = {<<t, n>> : n \in O} /\ (O # {} => ctx')
    BY <1>3, <1>8, <2>1
  <2>3. \A d \in detecting' : \E n \in O : d = <<t, n>> /\ d[1] = t /\ d[2] = n
    BY <2>2
  <2>4. \A d, e \in detecting' : d = e
    BY <1>8, <2>3
  <2>5. \A d \in detecting' : attempt'[d[1]][d[2]] \in {"opening", "shaking", "broken"}
    BY <1>6, <2>3
  <2>6. detecting' # {} => ctx'
    BY <2>2
  <2> QED BY <1>2, <1>8, <2>4, <2>5, <2>6 DEF Nets, DetectInv, Settled
<1> QED BY <1>7, <1>8

(* Shut keeps transports and context in order.                              *)
LEMMA NetShut ==
    ASSUME TypeInv, WireInv, DetectInv, NEW t \in Tasks, NEW nodes \in SUBSET Node, Shut(t, nodes),
           \A n \in Node : Over(t, n)
    PROVE  Nets
<1>0. t \in Owners /\ UNCHANGED <<ctx, detecting>>
  BY NoOwner, Shuts
<1>1. ASSUME NEW u \in Owners, NEW n \in Node
      PROVE  /\ conn'[n].transport = u => attempt'[u][n] = "shaking"
             /\ attempt'[u][n] = "broken" => conn'[n].transport = "none"
             /\ attempt[u][n] \in {"opening", "shaking", "broken"} => attempt'[u][n] \in {"opening", "shaking", "broken"}
  <2>1. /\ conn'[n].transport = IF n \in nodes THEN "none" ELSE conn[n].transport
        /\ u # t => attempt'[u][n] = IF n \in nodes /\ conn[n].transport = u THEN "broken" ELSE attempt[u][n]
        /\ attempt'[t][n] \in {"none", "shutting", "ok"}
    BY Shuts
  <2>2. u # "none" /\ u # "ready"
    BY NoOwner
  <2>3. (conn[n].transport = u => attempt[u][n] = "shaking") /\ (attempt[u][n] = "broken" => conn[n].transport = "none")
    BY DEF WireInv
  <2>4. attempt[t][n] \notin {"opening", "shaking", "broken"}
    BY DEF Over, Results
  <2> QED BY <2>1, <2>2, <2>3, <2>4
<1>2. WireInv'
  BY <1>1 DEF WireInv
<1>3. \A d \in detecting : d[1] \in Owners /\ d[2] \in Node
  BY DEF TypeInv
<1>4. \A d \in detecting : attempt'[d[1]][d[2]] \in {"opening", "shaking", "broken"}
  BY <1>1, <1>3 DEF DetectInv
<1> QED BY <1>0, <1>2, <1>4 DEF Nets, DetectInv, Settled

(* So does a coroutine that forgets its results.                            *)
LEMMA NetForgets ==
    ASSUME TypeInv, WireInv, DetectInv, NEW t \in Tasks, Forget(t), \A n \in Node : Over(t, n),
           UNCHANGED <<conn, ctx, detecting>>
    PROVE  /\ Nets /\ attempt' \in [Owners -> [Node -> Stages]]
           /\ \A u \in Owners, n \in Node : attempt'[u][n] = IF u = t THEN "none" ELSE attempt[u][n]
<1>0. t \in Owners
  BY NoOwner
<1>1. /\ attempt' \in [Owners -> [Node -> Stages]]
      /\ \A u \in Owners, n \in Node : attempt'[u][n] = IF u = t THEN "none" ELSE attempt[u][n]
  BY <1>0 DEF Forget, TypeInv, Stages
<1>2. \A n \in Node : attempt[t][n] \notin {"opening", "shaking", "broken"}
  BY DEF Over, Results
<1>3. ASSUME NEW u \in Owners, NEW n \in Node
      PROVE  /\ conn'[n].transport = u => attempt'[u][n] = "shaking"
             /\ attempt'[u][n] = "broken" => conn'[n].transport = "none"
  BY <1>1, <1>2 DEF WireInv
<1>4. WireInv'
  BY <1>3 DEF WireInv
<1>5. \A d \in detecting : d[1] \in Owners /\ d[2] \in Node
  BY DEF TypeInv
<1>6. \A d \in detecting : attempt'[d[1]][d[2]] \in {"opening", "shaking", "broken"}
  BY <1>1, <1>2, <1>5 DEF DetectInv
<1> QED BY <1>1, <1>4, <1>6 DEF Nets, DetectInv, Settled

(* So does a step that changes none of them.                                *)
LEMMA NetSame ==
    ASSUME WireInv, DetectInv, UNCHANGED <<conn, ctx, detecting, attempt>>
    PROVE  Nets
BY DEF Nets, WireInv, DetectInv, Settled

(* What happens to one attempt, when others can only be broken.             *)
OneMoves(t, n) ==
  /\ Else(n)
  /\ \A u \in Owners, m \in Node : u # t \/ m # n =>
       attempt'[u][m] = IF m = n /\ conn[n].transport = u /\ conn'[n].transport = "none" THEN "broken" ELSE attempt[u][m]
  /\ \/ conn'[n].transport \in {"none", "ready"} \/ conn'[n].transport = conn[n].transport
     \/ attempt'[t][n] = "shaking" /\ conn'[n].transport = t
  /\ attempt'[t][n] # "shaking" => conn'[n].transport # t
  /\ attempt'[t][n] # "broken"
  /\ conn'[n].transport # "none" => conn[n].transport # "none" \/ (\A u \in Owners : attempt[u][n] # "broken")
  /\ \/ /\ detecting' = detecting /\ ctx' = ctx
        /\ <<t, n>> \in detecting => attempt'[t][n] \in {"opening", "shaking"}
     \/ /\ detecting' = detecting \ {<<t, n>>}
        /\ ctx' = ctx \/ (ctx' = FALSE /\ <<t, n>> \in detecting)
     \/ /\ ~ctx /\ ctx' /\ detecting' = detecting \cup {<<t, n>>} /\ attempt'[t][n] = "opening"

(* Such a step keeps transports and context in order.                       *)
LEMMA NetOne ==
    ASSUME TypeInv, WireInv, DetectInv, NEW t \in Owners, NEW n \in Node, OneMoves(t, n)
    PROVE  Nets
<1>0. OneMoves(t, n)!1 /\ OneMoves(t, n)!2 /\ OneMoves(t, n)!3 /\ OneMoves(t, n)!4
      /\ OneMoves(t, n)!5 /\ OneMoves(t, n)!6 /\ OneMoves(t, n)!7
  BY DEF OneMoves
<1>1. ASSUME NEW u \in Owners, NEW m \in Node
      PROVE  /\ conn'[m].transport = u => attempt'[u][m] = "shaking"
             /\ attempt'[u][m] = "broken" => conn'[m].transport = "none"
  <2>1. u # "none" /\ u # "ready"
    BY NoOwner
  <2>2. m # n => conn'[m] = conn[m]
    BY <1>0 DEF Else
  <2>3. (conn[m].transport = u => attempt[u][m] = "shaking") /\ (attempt[u][m] = "broken" => conn[m].transport = "none")
    BY DEF WireInv
  <2>4. CASE m # n
    BY <1>0, <2>2, <2>3, <2>4
  <2>5. CASE m = n /\ u = t
    BY <1>0, <2>1, <2>3, <2>5
  <2>6. CASE m = n /\ u # t
    <3>1. attempt'[u][n] = IF conn[n].transport = u /\ conn'[n].transport = "none" THEN "broken" ELSE attempt[u][n]
      BY <1>0, <2>6
    <3> QED BY <1>0, <2>1, <2>3, <2>6, <3>1
  <2> QED BY <2>4, <2>5, <2>6
<1>2. WireInv'
  BY <1>1 DEF WireInv
<1>3. \A d \in detecting : d[1] \in Owners /\ d[2] \in Node /\ d = <<d[1], d[2]>>
  BY DEF TypeInv
<1>4. ASSUME NEW d \in detecting, d # <<t, n>>
      PROVE  attempt'[d[1]][d[2]] \in {"opening", "shaking", "broken"}
  <2>1. d[1] \in Owners /\ d[2] \in Node /\ (d[1] # t \/ d[2] # n)
    BY <1>3, <1>4
  <2>2. attempt'[d[1]][d[2]] = "broken" \/ attempt'[d[1]][d[2]] = attempt[d[1]][d[2]]
    BY <1>0, <2>1
  <2> QED BY <2>2 DEF DetectInv
<1>5. CASE detecting' = detecting /\ ctx' = ctx /\ (<<t, n>> \in detecting => attempt'[t][n] \in {"opening", "shaking"})
  <2>1. \A d \in detecting : attempt'[d[1]][d[2]] \in {"opening", "shaking", "broken"}
    BY <1>3, <1>4, <1>5
  <2> QED BY <1>2, <1>5, <2>1 DEF Nets, DetectInv, Settled
<1>6. CASE detecting' = detecting \ {<<t, n>>} /\ (ctx' = ctx \/ (ctx' = FALSE /\ <<t, n>> \in detecting))
  <2>1. \A d \in detecting' : attempt'[d[1]][d[2]] \in {"opening", "shaking", "broken"}
    BY <1>4, <1>6
  <2>2. \A d, e \in detecting' : d = e
    BY <1>6 DEF DetectInv
  <2>3. <<t, n>> \in detecting => detecting' = {}
    BY <1>6 DEF DetectInv
  <2>4. detecting' # {} => ctx'
    BY <1>6, <2>3 DEF DetectInv
  <2> QED BY <1>2, <1>6, <2>1, <2>2, <2>4 DEF Nets, DetectInv, Settled
<1>7. CASE ~ctx /\ ctx' /\ detecting' = detecting \cup {<<t, n>>} /\ attempt'[t][n] = "opening"
  <2>1. detecting = {}
    BY <1>7 DEF DetectInv
  <2>2. detecting' = {<<t, n>>}
    BY <1>7, <2>1
  <2>3. \A d \in detecting' : d[1] = t /\ d[2] = n
    BY <2>2
  <2>4. \A d \in detecting' : attempt'[d[1]][d[2]] \in {"opening", "shaking", "broken"}
    BY <1>7, <2>3
  <2>5. \A d, e \in detecting' : d = e
    BY <2>2
  <2> QED BY <1>2, <1>7, <2>4, <2>5 DEF Nets, DetectInv, Settled
<1> QED BY <1>0, <1>5, <1>6, <1>7

(* Nobody awaits a background reconnection, or its result is what it came   *)
(* to.                                                                      *)
LEMMA ResultIs ==
    ASSUME NEW t, NEW r
    PROVE  Result(t, r) \in {"none", r}
BY DEF Result

(* Every step of an attempt does.                                           *)
LEMMA NetAttempt ==
    ASSUME TypeInv, WireInv, DetectInv, NEW t \in Owners, NEW n \in Node, Attempt(t, n)
    PROVE  Nets
<1>0. /\ t # "none" /\ t # "ready"
      /\ Result(t, "ok") \in {"none", "ok"} /\ Result(t, "raise") \in {"none", "raise"}
      /\ Result(t, "connErr") \in {"none", "connErr"}
  BY NoOwner, ResultIs
<1>1. Polling => \A u \in Owners : attempt[u][n] # "broken"
  BY DEF Polling
<1>2. Polling \/ attempt[t][n] = "broken"
  BY DEF Attempt
<1>3. CASE Closed(t, n)
  <2>1. /\ Else(n) /\ ElseTried(t, n)
        /\ \/ /\ attempt[t][n] = "closing" /\ attempt'[t][n] = "opening"
              /\ conn'[n].transport = conn[n].transport
              /\ detecting' = IF ctx THEN detecting ELSE detecting \cup {<<t, n>>}
              /\ ctx' = TRUE
           \/ /\ attempt[t][n] = "shutting" /\ attempt'[t][n] = "ok"
              /\ UNCHANGED <<conn, detecting, ctx>>
    BY <1>3, Closes
  <2>2. conn[n].transport = t => attempt[t][n] = "shaking"
    BY DEF WireInv
  <2>3. <<t, n>> \in detecting => attempt[t][n] \in {"opening", "shaking", "broken"}
    BY DEF DetectInv
  <2>4. ctx \in BOOLEAN
    BY DEF TypeInv
  <2>5. \A u \in Owners, m \in Node : u # t \/ m # n => attempt'[u][m] = attempt[u][m]
    BY <2>1 DEF ElseTried
  <2>6. \A u \in Owners : conn'[n].transport = "none" => conn[n].transport # u
    BY <2>1, NoOwner
  <2>9. OneMoves(t, n)
    BY <1>1, <1>2, <2>1, <2>2, <2>3, <2>4, <2>5, <2>6 DEF OneMoves
  <2> QED BY <2>9, NetOne
<1>4. CASE Opens(t, n)
  <2>1. /\ Else(n) /\ ElseTried(t, n) /\ UNCHANGED <<detecting, ctx>>
        /\ attempt[t][n] = "opening" /\ attempt'[t][n] = "shaking" /\ conn'[n].transport = t
    BY <1>4, OpensThen
  <2>5. \A u \in Owners, m \in Node : u # t \/ m # n => attempt'[u][m] = attempt[u][m]
    BY <2>1 DEF ElseTried
  <2>6. conn'[n].transport # "none"
    BY <1>0, <2>1
  <2>7. \A u \in Owners : attempt[u][n] # "broken"
    BY <1>1, <1>2, <2>1
  <2>9. OneMoves(t, n)
    BY <1>1, <1>2, <2>1, <2>5, <2>6, <2>7 DEF OneMoves
  <2> QED BY <2>9, NetOne
<1>5. CASE HandshakeOk(t, n)
  <2>1. /\ Else(n) /\ ElseTried(t, n)
        /\ ctx' = ctx /\ detecting' = detecting \ {<<t, n>>}
        /\ attempt[t][n] = "shaking" /\ attempt'[t][n] = Result(t, "ok")
        /\ conn'[n].transport = IF conn[n].transport = t THEN "ready" ELSE conn[n].transport
    BY <1>5, Shaken
  <2>5. \A u \in Owners, m \in Node : u # t \/ m # n => attempt'[u][m] = attempt[u][m]
    BY <2>1 DEF ElseTried
  <2>6. \A u \in Owners : conn'[n].transport = "none" => conn[n].transport # u
    BY <2>1, NoOwner
  <2>7. \A u \in Owners : attempt[u][n] # "broken"
    BY <1>1, <1>2, <2>1
  <2>9. OneMoves(t, n)
    BY <1>0, <2>1, <2>5, <2>6, <2>7 DEF OneMoves
  <2> QED BY <2>9, NetOne
<1>6. CASE Rejected(t, n)
  <2>1. /\ Else(n) /\ ctx' = ctx
        /\ \A u \in Owners, m \in Node : u # t \/ m # n =>
             attempt'[u][m] = IF m = n /\ conn[n].transport = u THEN "broken" ELSE attempt[u][m]
        /\ attempt'[t][n] = Result(t, "raise")
        /\ detecting' = detecting \ {<<t, n>>}
        /\ conn'[n].transport = "none"
    BY <1>6, RejectedThen
  <2>9. OneMoves(t, n)
    BY <1>0, <2>1 DEF OneMoves
  <2> QED BY <2>9, NetOne
<1>7. CASE NoContext(t, n)
  <2>1. /\ Else(n) /\ ElseTried(t, n) /\ UNCHANGED <<ctx, detecting>>
        /\ attempt[t][n] = "shaking" /\ attempt'[t][n] = Result(t, "raise") /\ ~ctx
        /\ IF conn[n].transport = t THEN conn'[n].transport \in {"none", "ready"}
           ELSE conn'[n].transport = conn[n].transport
    BY <1>7, NoContextThen
  <2>2. detecting = {}
    BY <2>1 DEF DetectInv
  <2>5. \A u \in Owners, m \in Node : u # t \/ m # n => attempt'[u][m] = attempt[u][m]
    BY <2>1 DEF ElseTried
  <2>6. \A u \in Owners : u # t /\ conn'[n].transport = "none" => conn[n].transport # u
    BY <2>1, NoOwner
  <2>7. \A u \in Owners : attempt[u][n] # "broken"
    BY <1>1, <1>2, <2>1
  <2>9. OneMoves(t, n)
    BY <1>0, <2>1, <2>2, <2>5, <2>6, <2>7 DEF OneMoves
  <2> QED BY <2>9, NetOne
<1>8. CASE Fails(t, n)
  <2>1. /\ Else(n) /\ ElseTried(t, n)
        /\ attempt[t][n] \in {"opening", "shaking", "broken"} /\ attempt'[t][n] = Result(t, "connErr")
        /\ detecting' = detecting \ {<<t, n>>}
        /\ conn[n].transport # t => conn'[n].transport = conn[n].transport
    BY <1>8, Failed
  <2>2. conn[n].transport = t => conn'[n].transport \in {"none", "ready"}
    BY <1>8, Failed
  <2>3. ctx' = ctx \/ (ctx' = FALSE /\ <<t, n>> \in detecting)
    BY <1>8 DEF Fails
  <2>5. \A u \in Owners, m \in Node : u # t \/ m # n => attempt'[u][m] = attempt[u][m]
    BY <2>1 DEF ElseTried
  <2>6. \A u \in Owners : u # t /\ conn'[n].transport = "none" => conn[n].transport # u
    BY <2>1, NoOwner
  <2>7. conn'[n].transport # "none" => conn[n].transport # "none"
    BY <1>0, <2>1
  <2>9. OneMoves(t, n)
    BY <1>0, <2>1, <2>2, <2>3, <2>5, <2>6, <2>7 DEF OneMoves
  <2> QED BY <2>9, NetOne
<1> QED BY <1>3, <1>4, <1>5, <1>6, <1>7, <1>8 DEF Attempt

(* A transport is lost.                                                     *)
LEMMA Loses ==
    ASSUME TypeInv, NEW n \in Node, Lost(n)
    PROVE  /\ Else(n) /\ Polling /\ UNCHANGED <<ctx, detecting, callVars, poolVars, connected, timedOut>>
           /\ conn[n].transport = "ready" \/ conn[n].orphan
           /\ attempt[Background][n] = "none"
           /\ conn'[n].failed /\ conn'[n].closed = conn[n].closed
           /\ \/ conn'[n].transport = conn[n].transport
              \/ (conn[n].transport = "ready" /\ conn'[n].transport = "none")
           /\ conn'[n].orphan => conn[n].orphan
           /\ ElseTried(Background, n)
           /\ attempt'[Background][n] \in {"none", "created"}
           /\ steady' \in [Tasks -> SUBSET Node]
           /\ \A u \in Tasks : steady'[u] = steady[u] \ {n}
<1>1. conn[n] \in Connection
  BY DEF TypeInv
<1>2. /\ steady' \in [Tasks -> SUBSET Node]
      /\ \A u \in Tasks : steady'[u] = steady[u] \ {n}
  <2>1. steady' = Without({n}, Background)
    BY DEF Lost
  <2>2. Background \in Owners /\ \A u \in Tasks : u # Background
    BY NoOwner
  <2> QED BY <2>1, <2>2, Steadied
<1>3. /\ ElseTried(Background, n)
      /\ attempt'[Background][n] \in {"none", "created"}
  BY NoOwner DEF Lost, ElseTried, Stages, TypeInv
<1>4. /\ Polling /\ UNCHANGED <<ctx, detecting, callVars, poolVars, connected, timedOut>>
      /\ conn[n].transport = "ready" \/ conn[n].orphan
      /\ attempt[Background][n] = "none"
  BY DEF Lost
<1>5. /\ Else(n) /\ conn'[n].failed /\ conn'[n].closed = conn[n].closed
      /\ \/ conn'[n].transport = conn[n].transport
         \/ conn[n].transport = "ready" /\ conn'[n].transport = "none"
      /\ conn'[n].orphan => conn[n].orphan
  <2>1. CASE conn[n].transport = "ready" /\ conn' = [conn EXCEPT ![n].failed = TRUE, ![n].transport = "none"]
    BY <1>1, <2>1 DEF TypeInv, Connection, Else
  <2>2. CASE conn[n].orphan /\ conn' = [conn EXCEPT ![n].failed = TRUE, ![n].orphan = FALSE]
    BY <1>1, <2>2 DEF TypeInv, Connection, Else
  <2> QED BY <2>1, <2>2 DEF Lost
<1> QED BY ONLY <1>2, <1>3, <1>4, <1>5

(* A loss keeps transports and context in order.                            *)
LEMMA NetLost ==
    ASSUME TypeInv, WireInv, DetectInv, NEW n \in Node, Lost(n)
    PROVE  Nets
<1>1. /\ Else(n) /\ UNCHANGED <<ctx, detecting>> /\ attempt[Background][n] = "none"
      /\ ElseTried(Background, n) /\ attempt'[Background][n] \in {"none", "created"}
      /\ \/ conn'[n].transport = conn[n].transport
         \/ conn[n].transport = "ready" /\ conn'[n].transport = "none"
  BY Loses
<1>2. Background \in Owners /\ Background # "none" /\ Background # "ready" /\ "ready" \notin Owners
  BY NoOwner
<1>3. \A u \in Owners, m \in Node : u # Background \/ m # n => attempt'[u][m] = attempt[u][m]
  BY <1>1 DEF ElseTried
<1>4. conn[n].transport # Background
  BY <1>1, <1>2 DEF WireInv
<1>5. <<Background, n>> \notin detecting
  BY <1>1 DEF DetectInv
<1>6. \A u \in Owners : conn'[n].transport = "none" => conn[n].transport # u
  BY <1>1, NoOwner
<1>9. OneMoves(Background, n)
  BY <1>1, <1>2, <1>3, <1>4, <1>5, <1>6 DEF OneMoves
<1> QED BY <1>2, <1>9, NetOne

(* The mappings of partitions are loaded.                                   *)
LEMMA Updates ==
    ASSUME TypeInv, AffinityUpdated
    PROVE  /\ UNCHANGED <<conn, ctx, detecting, steady, callVars, poolVars, connected, timedOut>>
           /\ ctx /\ ~Connects
           /\ attempt' \in [Owners -> [Node -> Stages]]
           /\ \A u \in Owners, n \in Node :
                \/ attempt'[u][n] = attempt[u][n]
                \/ u = Background /\ attempt[u][n] = "none" /\ attempt'[u][n] = "created"
<1> DEFINE dead == {n \in 1..pool : ~Alive(n) /\ attempt[Background][n] = "none"}
<1>1. attempt' = [attempt EXCEPT ![Background] = [n \in Node |-> IF n \in dead THEN "created" ELSE attempt[Background][n]]]
  BY DEF AffinityUpdated
<1>2. \A n \in dead : attempt[Background][n] = "none"
  OBVIOUS
<1> HIDE DEF dead
<1>3. /\ attempt' \in [Owners -> [Node -> Stages]]
      /\ \A u \in Owners, n \in Node :
            \/ attempt'[u][n] = attempt[u][n]
            \/ u = Background /\ attempt[u][n] = "none" /\ attempt'[u][n] = "created"
  <2>1. Background \in Owners /\ attempt \in [Owners -> [Node -> Stages]] /\ "created" \in Stages
    BY NoOwner DEF TypeInv, Stages
  <2>2. [n \in Node |-> IF n \in dead THEN "created" ELSE attempt[Background][n]] \in [Node -> Stages]
    BY <2>1
  <2>3. attempt' \in [Owners -> [Node -> Stages]]
    BY <1>1, <2>1, <2>2
  <2>4. \A n \in Node : attempt'[Background][n] = IF n \in dead THEN "created" ELSE attempt[Background][n]
    BY <1>1, <2>1
  <2>5. \A u \in Owners : u # Background => attempt'[u] = attempt[u]
    BY <1>1, <2>1
  <2>6. ASSUME NEW u \in Owners, NEW n \in Node
        PROVE  \/ attempt'[u][n] = attempt[u][n]
               \/ u = Background /\ attempt[u][n] = "none" /\ attempt'[u][n] = "created"
    BY <1>2, <2>4, <2>5
  <2> QED BY <2>3, <2>6
<1>4. /\ UNCHANGED <<conn, ctx, detecting, steady, callVars, poolVars, connected, timedOut>>
      /\ ctx /\ ~Connects
  BY DEF AffinityUpdated, AwareNow
<1> QED BY ONLY <1>3, <1>4

(* The reconnections it creates keep transports and context in order.       *)
LEMMA NetUpdated ==
    ASSUME TypeInv, WireInv, DetectInv, AffinityUpdated
    PROVE  Nets
<1>1. /\ UNCHANGED <<conn, ctx, detecting>>
      /\ \A u \in Owners, n \in Node :
            \/ attempt'[u][n] = attempt[u][n]
            \/ u = Background /\ attempt[u][n] = "none" /\ attempt'[u][n] = "created"
  BY Updates
<1>2. WireInv'
  BY <1>1 DEF WireInv
<1>3. \A d \in detecting : d[1] \in Owners /\ d[2] \in Node
  BY DEF TypeInv
<1>4. \A d \in detecting : attempt'[d[1]][d[2]] \in {"opening", "shaking", "broken"}
  BY <1>1, <1>3 DEF DetectInv
<1> QED BY <1>1, <1>2, <1>4 DEF Nets, DetectInv, Settled

-----------------------------------------------------------------------------
(* Steps of the network                                                     *)

(* What the network may do to the attempts of the coroutines: results stay, *)
(* and whoever fails or is broken is steady no more.                        *)
CalmTasks ==
  /\ \A u \in Tasks : steady'[u] \subseteq steady[u] /\ steady'[u] \subseteq Usable'
  /\ \A u \in Tasks, n \in Node :
      /\ attempt[u][n] \in Results \cup {"none"} => attempt'[u][n] = attempt[u][n]
      /\ attempt[u][n] = "shutting" => attempt'[u][n] \in {"shutting", "ok"}
      /\ attempt'[u][n] \in {"connErr", "broken"} => n \notin steady'[u]
      /\ attempt'[u][n] = "none" => attempt[u][n] = "none"

(* A step of the network that keeps transports, context and connecting in   *)
(* order keeps the invariant.                                               *)
LEMMA NetRest ==
    ASSUME IInv, Nets, TypeInv', UNCHANGED <<poolVars, callVars, connected>>, CalmTasks,
           ConnectInv', ContextInv', ReviveInv'
    PROVE  IInv'
<1>0. pc' = pc /\ order' = order /\ outcome' = outcome /\ pool' = pool /\ connected' = connected
  BY DEF poolVars, callVars
<1>1. PlaceInv'
  <2>1. ASSUME NEW t \in Tasks, NEW n \in Node
        PROVE  /\ pc[t] \in {"idle", "connecting", "picking", "ending"} => attempt'[t][n] = "none"
               /\ pc[t] \in {"leaving", "closing"} => attempt'[t][n] \in {"none", "shutting", "ok"}
    BY DEF CalmTasks, IInv, PlaceInv, Results
  <2> QED BY <1>0, <2>1 DEF PlaceInv
<1>2. CallInv'
  <2>1. Connects' = Connects
    BY <1>0 DEF Connects
  <2>2. Settled => Settled'
    BY DEF Nets
  <2>3. \A u \in Tasks : steady[u] = {} => steady'[u] = {}
    BY DEF CalmTasks
  <2> QED BY <1>0, <2>1, <2>2, <2>3 DEF IInv, CallInv
<1>3. SteadyInv'
  <2>1. \A u \in Tasks : steady'[u] \subseteq Node
    BY DEF TypeInv
  <2> QED BY <2>1 DEF CalmTasks, SteadyInv
<1>4. ScanInv'
  <2>1. ASSUME NEW t \in Tasks, pc[t] = "scanning"
        PROVE  /\ \A n \in steady'[t] : attempt'[t][n] # "none" \/ \E k \in DOMAIN order[t] : order[t][k] = n
               /\ \E n \in Node : attempt'[t][n] # "none"
    <3>1. /\ \A n \in steady[t] : attempt[t][n] # "none" \/ \E k \in DOMAIN order[t] : order[t][k] = n
          /\ \E n \in Node : attempt[t][n] # "none"
          /\ steady'[t] \subseteq steady[t] /\ steady[t] \subseteq Node
      BY <2>1 DEF IInv, ScanInv, CalmTasks, TypeInv
    <3>2. \A n \in Node : attempt[t][n] # "none" => attempt'[t][n] # "none"
      BY DEF CalmTasks
    <3> QED BY <3>1, <3>2
  <2> QED BY <1>0, <2>1 DEF ScanInv
<1>5. GivesUp'
  BY <1>0 DEF IInv, GivesUp, CalmTasks
<1> QED BY <1>1, <1>2, <1>3, <1>4, <1>5 DEF IInv, Nets

(* One connection of the pool changes while a client is being connected.    *)
LEMMA ConnectAside ==
    ASSUME NEW c \in Tasks, ConnectOK(c), ~Settled, NEW n \in Node, n <= pool, pool \in Nat,
           \A m \in Node : m # n => conn'[m] = conn[m] /\ attempt'[Background][m] = attempt[Background][m],
           \A m \in Node : attempt'[c][m] = attempt[c][m],
           pool < N \/ pc[c] # "opened",
           pc'[c] = pc[c], pool' = pool, ctx' = ctx, detecting' = detecting, steady'[c] \subseteq steady[c],
           ~ctx => attempt'[Background][n] # "created"
    PROVE  ConnectOK(c)'
<1>0. /\ pool + 1 # n /\ \A m \in Node : (m > pool \/ m > pool + 1) => m # n
      /\ N \in Nat
  BY PoolAssumption DEF Node
<1>1. pool < N => pool + 1 \in Node
  BY <1>0 DEF Node
<1>2. ~Settled'
  BY DEF Settled
<1>3. CASE pc[c] = "connecting"
  <2>1. /\ detecting = {}
        /\ \A m \in steady[c] : m > pool
        /\ \A m \in Node : m > pool => attempt[Background][m] = "none"
        /\ \A m \in Node : m > pool + 1 => conn[m].transport = "none" /\ ~conn[m].orphan
        /\ ~ctx => \A m \in Node : attempt[Background][m] # "created"
        /\ \A m \in Node : m > pool => conn[m].transport = "none" /\ ~conn[m].orphan
    BY <1>3 DEF ConnectOK
  <2>2. /\ detecting' = {}
        /\ \A m \in steady'[c] : m > pool
        /\ \A m \in Node : m > pool => attempt'[Background][m] = "none"
        /\ \A m \in Node : m > pool + 1 => conn'[m].transport = "none" /\ ~conn'[m].orphan
        /\ ~ctx => \A m \in Node : attempt'[Background][m] # "created"
        /\ \A m \in Node : m > pool => conn'[m].transport = "none" /\ ~conn'[m].orphan
    BY <1>0, <2>1
  <2> QED BY <1>3, <2>2 DEF ConnectOK
<1>4. CASE pc[c] = "opened"
  <2>1. /\ \A m \in steady[c] : m > pool
        /\ \A m \in Node : m > pool => attempt[Background][m] = "none"
        /\ \A m \in Node : m > pool + 1 => conn[m].transport = "none" /\ ~conn[m].orphan
        /\ ~ctx => \A m \in Node : attempt[Background][m] # "created"
        /\ \A m \in Node : m # pool + 1 => attempt[c][m] = "none"
        /\ \/ /\ attempt[c][pool + 1] \in {"opening", "shaking"} /\ detecting = {<<c, pool + 1>>}
              /\ ~conn[pool + 1].orphan /\ conn[pool + 1].transport \in {"none", c}
           \/ attempt[c][pool + 1] = "connErr" /\ ~ctx
    BY <1>4 DEF ConnectOK
  <2>2. /\ \A m \in steady'[c] : m > pool
        /\ \A m \in Node : m > pool => attempt'[Background][m] = "none"
        /\ \A m \in Node : m > pool + 1 => conn'[m].transport = "none" /\ ~conn'[m].orphan
        /\ ~ctx => \A m \in Node : attempt'[Background][m] # "created"
        /\ \A m \in Node : m # pool + 1 => attempt'[c][m] = "none"
    BY <1>0, <2>1
  <2>3. conn'[pool + 1] = conn[pool + 1] /\ attempt'[c][pool + 1] = attempt[c][pool + 1]
    BY <1>0, <1>1, <1>4
  <2> QED BY <1>4, <2>1, <2>2, <2>3 DEF ConnectOK
<1>5. CASE pc[c] \notin {"connecting", "opened"}
  BY <1>5 DEF ConnectOK
<1> QED BY <1>3, <1>4, <1>5

(* Once the context is settled nothing more is asked of connecting.         *)
LEMMA ConnectElse ==
    ASSUME NEW c \in Tasks, pc'[c] = pc[c], Settled' \/ pc[c] \notin {"connecting", "opened"}
    PROVE  ConnectOK(c)'
BY DEF ConnectOK, Settled

(* The step of an attempt keeps the types.                                  *)
LEMMA AttemptTypes ==
    ASSUME TypeInv, NEW t \in Owners, NEW n \in Node, Attempt(t, n)
    PROVE  /\ TypeInv' /\ UNCHANGED <<poolVars, callVars, connected>>
           /\ \A u \in Tasks : steady'[u] \subseteq steady[u]
<1>1. /\ UNCHANGED <<poolVars, callVars, connected, aware, up>>
      /\ pool' = pool /\ current' = current /\ pc' = pc /\ order' = order /\ outcome' = outcome
  BY DEF Attempt, poolVars, callVars
<1>2. ctx \in BOOLEAN /\ timedOut \in BOOLEAN
  BY DEF TypeInv
<1>3. <<t, n>> \in Owners \X Node /\ detecting \subseteq Owners \X Node
  BY DEF TypeInv
<1>4. steady \in [Tasks -> SUBSET Node] /\ conn \in [Node -> Connection] /\ attempt \in [Owners -> [Node -> Stages]]
  BY DEF TypeInv
<1>5. /\ conn' \in [Node -> Connection] /\ attempt' \in [Owners -> [Node -> Stages]]
      /\ ctx' \in BOOLEAN /\ detecting' \subseteq Owners \X Node /\ timedOut' \in BOOLEAN
      /\ steady' \in [Tasks -> SUBSET Node] /\ \A u \in Tasks : steady'[u] \subseteq steady[u]
  <2>1. CASE Closed(t, n) /\ timedOut' = timedOut
    <3>1. ctx' \in {ctx, TRUE} /\ detecting' \in {detecting, detecting \cup {<<t, n>>}} /\ steady' = steady
      BY <2>1, <1>2 DEF Closed
    <3>2. Else(n) /\ ElseTried(t, n)
      BY <2>1, Closes
    <3> QED BY <1>2, <1>3, <1>4, <2>1, <3>1, <3>2 DEF Else, ElseTried
  <2>2. CASE Opens(t, n) /\ timedOut' = timedOut
    <3>1. Else(n) /\ ElseTried(t, n) /\ UNCHANGED <<detecting, ctx, steady>>
      BY <2>2, OpensThen
    <3> QED BY <1>2, <1>3, <1>4, <2>2, <3>1 DEF Else, ElseTried
  <2>3. CASE HandshakeOk(t, n) /\ timedOut' = timedOut
    <3>1. Else(n) /\ ElseTried(t, n) /\ UNCHANGED <<ctx, steady>> /\ detecting' = detecting \ {<<t, n>>}
      BY <2>3, Shaken
    <3> QED BY <1>2, <1>3, <1>4, <2>3, <3>1 DEF Else, ElseTried
  <2>4. CASE Rejected(t, n) /\ timedOut' = timedOut
    <3>1. /\ Else(n) /\ attempt' \in [Owners -> [Node -> Stages]] /\ ctx' = ctx /\ detecting' = detecting \ {<<t, n>>}
          /\ steady' \in [Tasks -> SUBSET Node]
          /\ \A u \in Tasks : steady'[u] = IF u = t THEN steady[u] ELSE steady[u] \ {n}
      BY <2>4, RejectedThen
    <3>2. \A u \in Tasks : steady'[u] \subseteq steady[u]
      BY <3>1
    <3> QED BY <1>2, <1>3, <1>4, <2>4, <3>1, <3>2 DEF Else
  <2>5. CASE NoContext(t, n) /\ timedOut' = timedOut
    <3>1. Else(n) /\ ElseTried(t, n) /\ UNCHANGED <<ctx, detecting, steady>>
      BY <2>5, NoContextThen
    <3> QED BY <1>2, <1>3, <1>4, <2>5, <3>1 DEF Else, ElseTried
  <2>6. CASE Fails(t, n)
    <3>1. /\ Else(n) /\ ElseTried(t, n) /\ detecting' = detecting \ {<<t, n>>}
          /\ timedOut' \in BOOLEAN /\ steady' \in [Tasks -> SUBSET Node]
          /\ \A u \in Tasks : steady'[u] = IF attempt[t][n] = "broken" THEN steady[u] ELSE steady[u] \ {n}
      BY <2>6, Failed
    <3>2. ctx' \in {ctx, FALSE}
      BY <2>6 DEF Fails
    <3>3. \A u \in Tasks : steady'[u] \subseteq steady[u]
      BY <3>1
    <3> QED BY <1>2, <1>3, <1>4, <3>1, <3>2, <3>3 DEF Else, ElseTried
  <2> QED BY <2>1, <2>2, <2>3, <2>4, <2>5, <2>6 DEF Attempt
<1> QED BY <1>1, <1>5 DEF TypeInv

(* It does no more to the other attempts than it may.                       *)
LEMMA AttemptCalm ==
    ASSUME TypeInv, WireInv, SteadyInv, NEW t \in Owners, NEW n \in Node, Attempt(t, n)
    PROVE  CalmTasks
<1>0. /\ \A u \in Tasks : steady'[u] \subseteq steady[u]
      /\ up' = up /\ forbidding' = forbidding
  BY AttemptTypes DEF Attempt
<1>1. \A u \in Tasks : steady'[u] \subseteq Usable'
  BY <1>0 DEF SteadyInv, Usable
<1>2. ASSUME NEW u \in Tasks, NEW m \in Node
      PROVE  /\ attempt[u][m] \in Results \cup {"none"} => attempt'[u][m] = attempt[u][m]
             /\ attempt[u][m] = "shutting" => attempt'[u][m] \in {"shutting", "ok"}
             /\ attempt'[u][m] \in {"connErr", "broken"} => m \notin steady'[u]
             /\ attempt'[u][m] = "none" => attempt[u][m] = "none"
  <2>0. /\ u \in Owners /\ u # Background /\ steady'[u] \subseteq steady[u]
        /\ m \in steady[u] => attempt[u][m] \notin {"connErr", "broken"}
        /\ \A r : Result(u, r) = r
        /\ conn[m].transport = u => attempt[u][m] = "shaking"
    BY <1>0, NoOwner DEF SteadyInv, Result, WireInv
  <2>1. CASE (u # t \/ m # n) /\ ~Rejected(t, n)
    <3>1. attempt'[u][m] = attempt[u][m]
      <4>1. ElseTried(t, n)
        BY <2>1, Closes, OpensThen, Shaken, NoContextThen, Failed DEF Attempt
      <4> QED BY <2>0, <2>1, <4>1 DEF ElseTried
    <3> QED BY <2>0, <3>1
  <2>2. CASE (u # t \/ m # n) /\ Rejected(t, n)
    <3>1. attempt'[u][m] = IF m = n /\ conn[n].transport = u THEN "broken" ELSE attempt[u][m]
      BY <2>0, <2>2, RejectedThen
    <3>2. \A v \in Tasks : steady'[v] = IF v = t THEN steady[v] ELSE steady[v] \ {n}
      BY <2>2, RejectedThen
    <3> QED BY <2>0, <2>2, <3>1, <3>2 DEF Results
  <2>3. CASE u = t /\ m = n /\ Closed(t, n)
    BY <2>0, <2>3, Closes DEF Results
  <2>4. CASE u = t /\ m = n /\ Opens(t, n)
    BY <2>0, <2>4, OpensThen DEF Results
  <2>5. CASE u = t /\ m = n /\ HandshakeOk(t, n)
    <3>1. attempt[t][n] = "shaking" /\ attempt'[t][n] = Result(t, "ok")
      BY <2>5, Shaken
    <3> QED BY <2>0, <2>5, <3>1 DEF Results
  <2>6. CASE u = t /\ m = n /\ Rejected(t, n)
    <3>1. attempt[t][n] = "shaking" /\ attempt'[t][n] = Result(t, "raise")
      BY <2>6, RejectedThen
    <3> QED BY <2>0, <2>6, <3>1 DEF Results
  <2>7. CASE u = t /\ m = n /\ NoContext(t, n)
    <3>1. attempt[t][n] = "shaking" /\ attempt'[t][n] = Result(t, "raise")
      BY <2>7, NoContextThen
    <3> QED BY <2>0, <2>7, <3>1 DEF Results
  <2>8. CASE u = t /\ m = n /\ Fails(t, n)
    <3>1. attempt[t][n] \in {"opening", "shaking", "broken"} /\ attempt'[t][n] = Result(t, "connErr")
      BY <2>8, Failed
    <3>2. \A v \in Tasks : steady'[v] = IF attempt[t][n] = "broken" THEN steady[v] ELSE steady[v] \ {n}
      BY <2>8, Failed
    <3>3. m \notin steady'[u]
      BY <2>0, <2>8, <3>1, <3>2
    <3> QED BY <2>0, <2>8, <3>1, <3>3 DEF Results
  <2> QED BY <2>1, <2>2, <2>3, <2>4, <2>5, <2>6, <2>7, <2>8 DEF Attempt
<1> QED BY <1>0, <1>1, <1>2 DEF CalmTasks

(* It keeps what reconnecting the pool has reached.                         *)
LEMMA AttemptRevive ==
    ASSUME IInv, NEW t \in Owners, NEW n \in Node, Attempt(t, n)
    PROVE  ReviveInv'
<1>0. /\ \A u \in Tasks : steady'[u] \subseteq steady[u]
      /\ up' = up /\ forbidding' = forbidding /\ pc' = pc
  BY AttemptTypes DEF Attempt, callVars, IInv
<1> SUFFICES ASSUME NEW r \in Tasks, pc[r] = "reviving", NEW k \in steady'[r]
             PROVE  ReviveOK(r, k)'
  BY <1>0 DEF ReviveInv
<1>1. /\ k \in steady[r] /\ k \in Node /\ ReviveOK(r, k) /\ k \in Usable /\ Settled /\ r \in Owners
      /\ \A x : Result(r, x) = x
  BY <1>0, NoOwner DEF IInv, ReviveInv, TypeInv, SteadyInv, CallInv, Result
<1>2. ctx
  BY <1>1 DEF Settled
<1>3. TypeInv /\ WireInv
  BY DEF IInv
<1>4. CASE ~Rejected(t, n) /\ (r # t \/ k # n)
  <2>1. ElseTried(t, n) /\ Else(n)
    BY <1>3, <1>4, Closes, OpensThen, Shaken, NoContextThen, Failed DEF Attempt
  <2>2. attempt'[r][k] = attempt[r][k]
    BY <1>1, <1>4, <2>1 DEF ElseTried
  <2>3. CASE k # n
    <3>1. conn'[k] = conn[k]
      BY <1>1, <2>1, <2>3 DEF Else
    <3> QED BY <1>1, <2>2, <3>1 DEF ReviveOK
  <2>4. CASE k = n /\ Closed(t, n)
    <3>1. \/ conn'[n].failed = conn[n].failed /\ conn'[n].transport = conn[n].transport /\ conn'[n].closed = FALSE
          \/ conn' = conn
      <4>1. TypeInv /\ Closed(t, n) /\ t \in Owners /\ n \in Node
        BY <1>3, <2>4
      <4>2. \/ /\ attempt[t][n] = "closing" /\ attempt'[t][n] = "opening"
               /\ conn'[n].failed = conn[n].failed /\ conn'[n].transport = conn[n].transport
               /\ conn'[n].orphan = conn[n].orphan /\ conn'[n].closed = FALSE
            \/ /\ attempt[t][n] = "shutting" /\ attempt'[t][n] = "ok"
               /\ UNCHANGED <<conn, detecting, ctx>>
        BY ONLY <4>1, Closes
      <4> QED BY <4>2
    <3> QED BY <1>1, <2>2, <2>4, <3>1 DEF ReviveOK
  <2>5. CASE k = n /\ Opens(t, n)
    <3>1. conn'[n].failed = conn[n].failed /\ conn'[n].closed = conn[n].closed /\ conn'[n].transport # "none"
      BY <1>3, <2>5, OpensThen, NoOwner
    <3> QED BY <1>1, <2>2, <2>5, <3>1 DEF ReviveOK
  <2>6. CASE k = n /\ HandshakeOk(t, n)
    <3>1. /\ ~conn'[n].failed /\ conn'[n].closed = conn[n].closed
          /\ conn'[n].transport = IF conn[n].transport = t THEN "ready" ELSE conn[n].transport
      BY <1>3, <2>6, Shaken
    <3> QED BY <1>1, <2>2, <2>6, <3>1 DEF ReviveOK
  <2>7. CASE k = n /\ NoContext(t, n)
    BY <1>2, <2>7 DEF NoContext
  <2>8. CASE k = n /\ Fails(t, n)
    <3>1. /\ conn'[n].closed = conn[n].closed
          /\ \A v \in Tasks : steady'[v] = IF attempt[t][n] = "broken" THEN steady[v] ELSE steady[v] \ {n}
      <4>1. TypeInv /\ Fails(t, n) /\ t \in Owners /\ n \in Node
        BY <1>3, <2>8
      <4>2. conn'[n].closed = conn[n].closed
        BY ONLY <4>1, Failed
      <4>3. steady' = IF attempt[t][n] = "broken" THEN steady ELSE Without({n}, Background)
        BY <4>1 DEF Fails
      <4>4. \A v \in Tasks : v # Background
        BY NoOwner
      <4> QED BY <4>1, <4>2, <4>3, <4>4 DEF Without, TypeInv
    <3>2. attempt[t][n] = "broken" /\ conn[n].transport = "none"
      BY <1>3, <2>8, <3>1 DEF WireInv
    <3> QED BY <1>1, <2>2, <2>8, <3>1, <3>2 DEF ReviveOK
  <2> QED BY <1>4, <2>3, <2>4, <2>5, <2>6, <2>7, <2>8 DEF Attempt
<1>5. CASE Rejected(t, n)
  <2>1. /\ Else(n) /\ n \in forbidding
        /\ \A u \in Owners, m \in Node : u # t \/ m # n =>
             attempt'[u][m] = IF m = n /\ conn[n].transport = u THEN "broken" ELSE attempt[u][m]
        /\ \A u \in Tasks : steady'[u] = IF u = t THEN steady[u] ELSE steady[u] \ {n}
    BY <1>3, <1>5, RejectedThen
  <2>2. k # n
    BY <1>1, <2>1 DEF Usable
  <2>3. attempt'[r][k] = attempt[r][k] /\ conn'[k] = conn[k]
    BY <1>1, <2>1, <2>2 DEF Else
  <2> QED BY <1>1, <2>3 DEF ReviveOK
<1>6. CASE ~Rejected(t, n) /\ r = t /\ k = n
  <2>4. CASE Closed(t, n)
    <3>1. \/ attempt[t][n] = "shutting"
          \/ attempt'[t][n] = "opening" /\ conn'[n].closed = FALSE
      BY <1>3, <2>4, Closes
    <3> QED BY <1>1, <1>6, <3>1 DEF ReviveOK
  <2>5. CASE Opens(t, n)
    <3>1. /\ conn'[n].closed = conn[n].closed /\ conn'[n].transport # "none"
          /\ attempt[t][n] = "opening" /\ attempt'[t][n] = "shaking"
      BY <1>3, <2>5, OpensThen, NoOwner
    <3> QED BY <1>1, <1>6, <3>1 DEF ReviveOK
  <2>6. CASE HandshakeOk(t, n)
    <3>1. /\ ~conn'[n].failed /\ conn'[n].closed = conn[n].closed
          /\ conn'[n].transport = IF conn[n].transport = t THEN "ready" ELSE conn[n].transport
          /\ attempt[t][n] = "shaking" /\ attempt'[t][n] = Result(t, "ok")
      BY <1>3, <2>6, Shaken
    <3> QED BY <1>1, <1>6, <3>1 DEF ReviveOK
  <2>7. CASE NoContext(t, n)
    BY <1>2, <2>7 DEF NoContext
  <2>8. CASE Fails(t, n)
    <3>1. \A v \in Tasks : steady'[v] = IF attempt[t][n] = "broken" THEN steady[v] ELSE steady[v] \ {n}
      BY <1>3, <2>8, Failed
    <3> QED BY <1>1, <1>6, <3>1 DEF ReviveOK
  <2> QED BY <1>6, <2>4, <2>5, <2>6, <2>7, <2>8 DEF Attempt
<1> QED BY <1>4, <1>5, <1>6

(* While a client is being connected the others are idle.                   *)
LEMMA OnlyOne ==
    ASSUME IInv, NEW c \in Tasks, pc[c] \in {"connecting", "opened", "gathered", "regathered"}
    PROVE  \A u \in Tasks : u # c => pc[u] = "idle" /\ \A n \in Node : attempt[u][n] = "none"
BY DEF IInv, CallInv, PlaceInv

(* A coroutine that can run keeps the event loop from polling.              *)
LEMMA NoPolling ==
    ASSUME NEW c \in Tasks, pc[c] # "idle", \A n \in Node : attempt[c][n] \in Results \cup {"none"}
    PROVE  ~Polling
BY DEF Polling, Running, Collected

(* So does one that connects and has no attempt that waits.                 *)
LEMMA ConnectingRuns ==
    ASSUME IInv, NEW c \in Tasks, pc[c] = "connecting" \/ (pc[c] = "opened" /\ ~ctx)
    PROVE  /\ ~Polling /\ detecting = {}
           /\ \A n \in Node : attempt[c][n] \in {"none", "connErr"}
<1>1. CASE pc[c] = "connecting"
  <2>1. \A n \in Node : attempt[c][n] = "none"
    BY <1>1 DEF IInv, PlaceInv
  <2>2. detecting = {}
    BY <1>1 DEF IInv, ConnectInv, ConnectOK
  <2> QED BY <1>1, <2>1, <2>2, NoPolling DEF Results
<1>2. CASE pc[c] = "opened" /\ ~ctx
  <2>1. detecting = {}
    BY <1>2 DEF IInv, DetectInv
  <2>2. \A n \in Node : n # pool + 1 => attempt[c][n] = "none"
    BY <1>2 DEF IInv, ConnectInv, ConnectOK, Settled
  <2>3. attempt[c][pool + 1] = "connErr"
    BY <1>2, <2>1 DEF IInv, ConnectInv, ConnectOK, Settled
  <2>4. \A n \in Node : attempt[c][n] \in {"none", "connErr"}
    BY <2>2, <2>3
  <2> QED BY <1>2, <2>1, <2>4, NoPolling DEF Results
<1> QED BY <1>1, <1>2

(* The step of an attempt keeps connecting in order.                        *)
LEMMA AttemptConnect ==
    ASSUME IInv, NEW t \in Owners, NEW n \in Node, Attempt(t, n)
    PROVE  ConnectInv'
<1>0. /\ \A u \in Tasks : steady'[u] \subseteq steady[u]
      /\ pc' = pc /\ pool' = pool /\ TypeInv' /\ Nets
  BY AttemptTypes, NetAttempt DEF Attempt, callVars, poolVars, IInv
<1> SUFFICES ASSUME NEW c \in Tasks
             PROVE  ConnectOK(c)'
  BY DEF ConnectInv
<1>1. ConnectOK(c) /\ TypeInv /\ WireInv /\ pool \in Nat /\ c \in Owners /\ c # Background
      /\ (pc[c] = "opened" => pool < N)
  BY NoOwner DEF IInv, ConnectInv, TypeInv, CallInv
<1>2. CASE Settled \/ pc[c] \notin {"connecting", "opened"}
  BY <1>0, <1>2, ConnectElse DEF Nets
<1>3. CASE ~Settled /\ pc[c] \in {"connecting", "opened"} /\ t # c
  <2>1. t = Background
    <3>1. t \in Tasks => attempt[t][n] = "none"
      BY <1>3, OnlyOne
    <3>2. attempt[t][n] \in {"closing", "shutting", "opening", "shaking", "broken"}
      BY DEF Attempt, Closed, Opens, HandshakeOk, Rejected, NoContext, Fails
    <3> QED BY <3>1, <3>2 DEF Owners
  <2>2. n <= pool
    <3>1. attempt[t][n] # "none"
      BY DEF Attempt, Closed, Opens, HandshakeOk, Rejected, NoContext, Fails
    <3>2. n > pool => attempt[Background][n] = "none"
      BY <1>1, <1>3 DEF ConnectOK
    <3> QED BY <1>1, <2>1, <3>1, <3>2 DEF Node
  <2>3. <<t, n>> \notin detecting
    <3>1. pc[c] = "connecting" => detecting = {}
      BY <1>1 DEF ConnectOK
    <3>2. pc[c] = "opened" => detecting = {} \/ detecting = {<<c, pool + 1>>}
      BY <1>1, <1>3 DEF ConnectOK, IInv, DetectInv
    <3> QED BY <1>1, <1>3, <2>1, <3>1, <3>2
  <2>4. Polling => ctx
    BY <1>3, ConnectingRuns
  <2>5. \A m \in Node : m # n => conn'[m] = conn[m]
    <3>1. Else(n)
      BY <1>1, Closes, OpensThen, Shaken, RejectedThen, NoContextThen, Failed DEF Attempt
    <3> QED BY <3>1 DEF Else
  <2>6. \A u \in Owners, m \in Node : u # t \/ m # n =>
             attempt'[u][m] = attempt[u][m] \/ (m = n /\ conn[n].transport = u)
    <3>1. CASE Rejected(t, n)
      BY <1>1, <3>1, RejectedThen
    <3>2. CASE ~Rejected(t, n)
      <4>1. Closed(t, n) \/ Opens(t, n) \/ HandshakeOk(t, n) \/ NoContext(t, n) \/ Fails(t, n)
        BY <3>2 DEF Attempt
      <4>2. ElseTried(t, n)
        BY <1>1, <4>1, Closes, OpensThen, Shaken, NoContextThen, Failed
      <4> QED BY <4>2 DEF ElseTried
    <3> QED BY <3>1, <3>2
  <2>7. \A m \in Node : m # n => attempt'[Background][m] = attempt[Background][m]
    BY <2>1, <2>6
  <2>8. attempt[c][n] # "shaking"
    <3>1. pc[c] = "connecting" => attempt[c][n] = "none"
      BY DEF IInv, PlaceInv
    <3>2. pc[c] = "opened" => attempt[c][n] = "none"
      BY <1>1, <1>3, <2>2 DEF ConnectOK, Node
    <3> QED BY <1>3, <3>1, <3>2
  <2>9. \A m \in Node : attempt'[c][m] = attempt[c][m]
    BY <1>1, <1>3, <2>6, <2>8 DEF WireInv
  <2>10. ctx' = ctx /\ detecting' = detecting /\ (~ctx => attempt'[Background][n] # "created")
    <3>1. CASE ctx
      <4>1. ctx' = ctx /\ detecting' = detecting
        BY <2>3, <3>1 DEF Attempt, Closed, Opens, HandshakeOk, Rejected, NoContext, Fails
      <4> QED BY <3>1, <4>1
    <3>2. CASE ~ctx
      <4>1. attempt[t][n] = "broken"
        BY <2>4, <3>2 DEF Attempt
      <4>2. Fails(t, n)
        BY <4>1 DEF Attempt, Closed, Opens, HandshakeOk, Rejected, NoContext
      <4>3. attempt'[t][n] = Result(t, "connErr") /\ detecting' = detecting \ {<<t, n>>}
        BY <1>1, <4>2, Failed
      <4>4. ctx' = ctx
        BY <2>3, <4>2 DEF Fails
      <4> QED BY <2>1, <2>3, <4>3, <4>4 DEF Result
    <3> QED BY <3>1, <3>2
  <2> QED BY <1>0, <1>1, <1>3, <2>2, <2>5, <2>7, <2>9, <2>10, ConnectAside
<1>4. CASE ~Settled /\ pc[c] \in {"connecting", "opened"} /\ t = c
  <2>1. attempt[c][n] \in {"closing", "shutting", "opening", "shaking", "broken"}
    BY <1>4 DEF Attempt, Closed, Opens, HandshakeOk, Rejected, NoContext, Fails
  <2>2. pc[c] = "opened"
    BY <1>4, <2>1 DEF IInv, PlaceInv
  <2>3. /\ \A m \in steady[c] : m > pool
        /\ \A m \in Node : m > pool => attempt[Background][m] = "none"
        /\ \A m \in Node : m > pool + 1 => conn[m].transport = "none" /\ ~conn[m].orphan
        /\ \A m \in Node : m # pool + 1 => attempt[c][m] = "none"
    BY <1>1, <1>4, <2>2 DEF ConnectOK
  <2>4. n = pool + 1
    BY <2>1, <2>3
  <2>5. /\ attempt[c][n] \in {"opening", "shaking"} /\ detecting = {<<c, n>>}
        /\ ~conn[n].orphan /\ conn[n].transport \in {"none", c}
    BY <1>1, <1>4, <2>1, <2>2, <2>4 DEF ConnectOK
  <2>6. ctx /\ Polling
    BY <2>5, <1>4 DEF IInv, DetectInv, Attempt
  <2>7. CASE HandshakeOk(t, n) \/ Rejected(t, n)
    <3>1. detecting' = {} /\ ctx' = ctx
      BY <1>4, <2>5, <2>7 DEF HandshakeOk, Rejected
    <3> QED BY <1>0, <2>6, <3>1, ConnectElse DEF Settled
  <2>8. CASE Opens(t, n) \/ Fails(t, n)
    <3>1. Else(n) /\ ElseTried(t, n)
      BY <1>1, <2>8, OpensThen, Failed
    <3>2. /\ \A m \in Node : m > pool => attempt'[Background][m] = "none"
          /\ \A m \in Node : m > pool + 1 => conn'[m].transport = "none" /\ ~conn'[m].orphan
          /\ \A m \in Node : m # pool + 1 => attempt'[c][m] = "none"
      <4>1. \A m \in Node : m > pool + 1 => m # n
        BY <1>1, <2>4 DEF Node
      <4>2. \A m \in Node : attempt'[Background][m] = attempt[Background][m]
        BY <1>1, <1>4, <3>1, NoOwner DEF ElseTried
      <4>3. \A m \in Node : m # n => attempt'[c][m] = attempt[c][m] /\ conn'[m] = conn[m]
        BY <1>1, <1>4, <3>1 DEF ElseTried, Else
      <4> QED BY <2>3, <2>4, <4>1, <4>2, <4>3
    <3>3. \A m \in steady'[c] : m > pool
      BY <1>0, <2>3
    <3>4. \A m \in Node : attempt'[Background][m] # "created"
      <4>1. \A m \in Node : attempt[Background][m] # "created"
        BY <2>6, NoOwner DEF Polling
      <4> QED BY <1>1, <1>4, <3>1, <4>1, NoOwner DEF ElseTried
    <3>5. CASE Opens(t, n)
      <4>1. /\ detecting' = detecting /\ attempt'[t][n] = "shaking" /\ conn'[n].transport = t
            /\ conn'[n].orphan = (conn[n].orphan \/ conn[n].transport = "ready")
        BY <1>1, <3>5, OpensThen
      <4>2. ~conn'[n].orphan
        BY <1>1, <2>5, <4>1, NoOwner
      <4> QED BY <1>0, <1>4, <2>2, <2>4, <2>5, <3>2, <3>3, <3>4, <4>1, <4>2 DEF ConnectOK
    <3>6. CASE Fails(t, n)
      <4>1. detecting' = {} /\ ~ctx'
        BY <1>4, <2>5, <3>6 DEF Fails
      <4>2. attempt'[c][n] = "connErr"
        BY <1>1, <1>4, <3>6, Failed DEF Result
      <4> QED BY <1>0, <1>4, <2>2, <2>4, <3>2, <3>3, <3>4, <4>1, <4>2 DEF ConnectOK
    <3> QED BY <2>8, <3>5, <3>6
  <2> QED BY <1>4, <2>5, <2>6, <2>7, <2>8 DEF Attempt, Closed, NoContext
<1> QED BY <1>2, <1>3, <1>4

(* It makes no transport ready before the context is settled, but by a      *)
(* timeout.                                                                 *)
LEMMA AttemptContext ==
    ASSUME IInv, NEW t \in Owners, NEW n \in Node, Attempt(t, n)
    PROVE  ContextInv'
<1>0. TypeInv /\ WireInv /\ Nets
  BY NetAttempt DEF IInv
<1> SUFFICES ASSUME ~timedOut', ~Settled', NEW m \in Node
             PROVE  attempt'[Background][m] = "none" /\ conn'[m].transport # "ready" /\ ~conn'[m].orphan
  BY DEF ContextInv
<1>1. ~Settled /\ ~timedOut
  <2>1. Fails(t, n) => (timedOut => timedOut')
    BY <1>0, Failed
  <2> QED BY <1>0, <2>1 DEF Nets, Attempt
<1>2. \A k \in Node : attempt[Background][k] = "none" /\ conn[k].transport # "ready" /\ ~conn[k].orphan
  BY <1>1 DEF IInv, ContextInv
<1>3. attempt[t][n] \in {"closing", "shutting", "opening", "shaking", "broken"}
  BY DEF Attempt, Closed, Opens, HandshakeOk, Rejected, NoContext, Fails
<1>4. t \in Tasks /\ t # Background
  BY <1>2, <1>3, NoOwner DEF Owners
<1>5. pc[t] \in {"opened", "closing"}
  <2>1. pc[t] \in Places
    BY <1>0, <1>4 DEF TypeInv
  <2>2. pc[t] \notin {"idle", "connecting", "picking", "ending"}
    BY <1>3, <1>4 DEF IInv, PlaceInv
  <2>3. pc[t] \notin {"gathered", "regathered", "picking", "leaving", "scanning", "reviving"}
    BY <1>1, <1>4 DEF IInv, CallInv
  <2> QED BY <2>1, <2>2, <2>3 DEF Places
<1>6. CASE pc[t] = "closing"
  <2>1. attempt[t][n] = "shutting"
    BY <1>3, <1>4, <1>6 DEF IInv, PlaceInv
  <2>2. Closed(t, n)
    BY <2>1 DEF Attempt, Opens, HandshakeOk, Rejected, NoContext, Fails
  <2>3. conn' = conn /\ ElseTried(t, n)
    BY <1>0, <2>1, <2>2, Closes
  <2> QED BY <1>2, <1>4, <2>3, NoOwner DEF ElseTried
<1>7. CASE pc[t] = "opened"
  <2>1. /\ \A k \in Node : k # pool + 1 => attempt[t][k] = "none"
        /\ \/ /\ attempt[t][pool + 1] \in {"opening", "shaking"} /\ detecting = {<<t, pool + 1>>}
              /\ ~conn[pool + 1].orphan /\ conn[pool + 1].transport \in {"none", t}
           \/ attempt[t][pool + 1] = "connErr" /\ ~ctx
    BY <1>1, <1>4, <1>7 DEF IInv, ConnectInv, ConnectOK
  <2>2. n = pool + 1
    BY <1>3, <2>1
  <2>3. attempt[t][n] \in {"opening", "shaking"} /\ detecting = {<<t, n>>} /\ conn[n].transport \in {"none", t}
    BY <1>3, <2>1, <2>2
  <2>4. ctx
    BY <2>3 DEF IInv, DetectInv
  <2>5. Opens(t, n) \/ Fails(t, n)
    <3>1. CASE HandshakeOk(t, n) \/ Rejected(t, n)
      BY <2>3, <2>4, <3>1 DEF HandshakeOk, Rejected, Settled
    <3>2. ~Closed(t, n) /\ ~NoContext(t, n)
      BY <2>3, <2>4 DEF Closed, NoContext
    <3> QED BY <3>1, <3>2 DEF Attempt
  <2>6. Else(n) /\ ElseTried(t, n)
    BY <1>0, <2>5, OpensThen, Failed
  <2>7. attempt'[Background][m] = "none"
    BY <1>2, <1>4, <2>6, NoOwner DEF ElseTried
  <2>8. m # n => conn'[m] = conn[m]
    BY <2>6 DEF Else
  <2>9. conn'[n].transport # "ready" /\ ~conn'[n].orphan
    <3>1. CASE Opens(t, n)
      <4>1. conn'[n].transport = t /\ conn'[n].orphan = (conn[n].orphan \/ conn[n].transport = "ready")
        BY <1>0, <3>1, OpensThen
      <4> QED BY <1>2, <4>1, NoOwner
    <3>2. CASE Fails(t, n)
      <4>1. Connects
        BY <1>4, <1>7 DEF Connects
      <4>2. /\ conn[n].transport # t => conn'[n].transport = conn[n].transport
            /\ \/ /\ conn[n].transport = t => conn'[n].transport = "none"
                  /\ conn'[n].orphan = conn[n].orphan
               \/ /\ Connects => timedOut'
                  /\ conn[n].transport = t => conn'[n].transport = "ready"
                  /\ attempt[t][n] = "shaking"
        BY <1>0, <3>2, Failed
      <4> QED BY <1>2, <4>1, <4>2
    <3> QED BY <2>5, <3>1, <3>2
  <2> QED BY <1>2, <2>7, <2>8, <2>9
<1> QED BY <1>5, <1>6, <1>7

(* The step of an attempt keeps the invariant.                              *)
LEMMA AttemptStep ==
    ASSUME IInv, NEW t \in Owners, NEW n \in Node, Attempt(t, n)
    PROVE  IInv'
<1>1. TypeInv /\ WireInv /\ DetectInv /\ SteadyInv
  BY DEF IInv
<1>2. TypeInv' /\ UNCHANGED <<poolVars, callVars, connected>> /\ Nets /\ CalmTasks
  BY <1>1, AttemptTypes, NetAttempt, AttemptCalm
<1> QED BY <1>2, AttemptConnect, AttemptContext, AttemptRevive, NetRest

-----------------------------------------------------------------------------
(* Losses, nodes that change, background reconnections                      *)

(* A step that leaves the attempts of the coroutines alone.                 *)
LEMMA TasksSame ==
    ASSUME IInv, \A u \in Tasks, m \in Node : attempt'[u][m] = attempt[u][m],
           \A u \in Tasks : steady'[u] \subseteq steady[u] /\ steady'[u] \subseteq Usable'
    PROVE  CalmTasks
<1>1. \A u \in Tasks, m \in Node : attempt[u][m] \in {"connErr", "broken"} => m \notin steady[u]
  BY DEF IInv, SteadyInv
<1> QED BY <1>1 DEF CalmTasks

(* Before the context is settled, only connecting can have found it.        *)
LEMMA DetectsOpened ==
    ASSUME IInv, ctx, ~Settled, \A m \in Node : attempt[Background][m] = "none"
    PROVE  \E c \in Tasks : pc[c] = "opened"
<1>1. PICK d \in detecting : TRUE
  BY DEF Settled
<1>2. d[1] \in Owners /\ d[2] \in Node /\ attempt[d[1]][d[2]] \in {"opening", "shaking", "broken"}
  BY DEF IInv, TypeInv, DetectInv
<1>3. d[1] \in Tasks
  BY <1>2 DEF Owners
<1>4. pc[d[1]] \in Places
  BY <1>3 DEF IInv, TypeInv
<1>5. pc[d[1]] \notin {"idle", "connecting", "picking", "ending", "leaving", "closing"}
  BY <1>2, <1>3 DEF IInv, PlaceInv
<1>6. pc[d[1]] \notin {"gathered", "regathered", "picking", "leaving", "scanning", "reviving"}
  BY <1>3 DEF IInv, CallInv
<1> QED BY <1>3, <1>4, <1>5, <1>6 DEF Places

(* The loss of a transport keeps the invariant.                             *)
LEMMA LostStep ==
    ASSUME IInv, NEW n \in Node, Lost(n)
    PROVE  IInv'
<1>1. TypeInv /\ WireInv /\ DetectInv /\ SteadyInv
  BY DEF IInv
<1>2. /\ Else(n) /\ Polling /\ UNCHANGED <<ctx, detecting, callVars, poolVars, connected, timedOut>>
      /\ conn[n].transport = "ready" \/ conn[n].orphan
      /\ attempt[Background][n] = "none"
      /\ ElseTried(Background, n)
      /\ steady' \in [Tasks -> SUBSET Node]
      /\ \A u \in Tasks : steady'[u] = steady[u] \ {n}
  BY <1>1, Loses
<1>3. up' = up /\ forbidding' = forbidding /\ aware' = aware /\ pc' = pc /\ pool' = pool /\ order' = order
      /\ outcome' = outcome /\ current' = current
  BY <1>2 DEF Lost, callVars, poolVars
<1>4. TypeInv'
  BY <1>1, <1>2, <1>3 DEF TypeInv, Else, ElseTried
<1>5. Nets
  BY <1>1, NetLost
<1>6. \A m \in Node : m # n => conn'[m] = conn[m] /\ attempt'[Background][m] = attempt[Background][m]
  BY <1>2, NoOwner DEF Else, ElseTried
<1>7. \A u \in Tasks, m \in Node : attempt'[u][m] = attempt[u][m]
  BY <1>2, NoOwner DEF ElseTried
<1>8. CalmTasks
  <2>1. \A u \in Tasks : steady'[u] \subseteq steady[u] /\ steady'[u] \subseteq Usable'
    BY <1>1, <1>2, <1>3 DEF SteadyInv, Usable
  <2> QED BY <1>7, <2>1, TasksSame
<1>9. ConnectInv'
  <2> SUFFICES ASSUME NEW c \in Tasks
               PROVE  ConnectOK(c)'
    BY DEF ConnectInv
  <2>1. CASE Settled \/ pc[c] \notin {"connecting", "opened"}
    BY <1>3, <1>5, <2>1, ConnectElse DEF Nets
  <2>2. CASE ~Settled /\ pc[c] \in {"connecting", "opened"}
    <3>1. pc[c] = "opened" /\ ctx
      BY <1>2, <2>2, ConnectingRuns
    <3>2. ConnectOK(c) /\ pool \in Nat /\ pool < N
      BY <1>1, <3>1 DEF IInv, ConnectInv, TypeInv, CallInv
    <3>3. /\ \A m \in Node : m > pool + 1 => conn[m].transport = "none" /\ ~conn[m].orphan
          /\ ~conn[pool + 1].orphan /\ conn[pool + 1].transport \in {"none", c}
      BY <2>2, <3>1, <3>2 DEF ConnectOK
    <3>4. n <= pool
      <4>1. c # "ready" /\ pool \in Nat /\ n \in Nat
        BY <3>2, NoOwner DEF Node
      <4> QED BY <1>2, <3>3, <4>1
    <3> QED BY <1>2, <1>3, <1>6, <1>7, <2>2, <3>1, <3>2, <3>4, ConnectAside
  <2> QED BY <2>1, <2>2
<1>10. ContextInv'
  <2>1. Settled' <=> Settled
    BY <1>2 DEF Settled
  <2> QED BY <1>2, <2>1 DEF IInv, ContextInv
<1>11. ReviveInv'
  <2> SUFFICES ASSUME NEW r \in Tasks, pc[r] = "reviving", NEW k \in steady'[r]
               PROVE  ReviveOK(r, k)'
    BY <1>3 DEF ReviveInv
  <2>1. k \in steady[r] /\ k \in Node /\ k # n
    BY <1>1, <1>2 DEF TypeInv
  <2> QED BY <1>6, <1>7, <2>1 DEF IInv, ReviveInv, ReviveOK
<1> QED BY <1>2, <1>4, <1>5, <1>8, <1>9, <1>10, <1>11, NetRest

(* A node that stops or starts keeps it.                                    *)
LEMMA ChangesStep ==
    ASSUME IInv, NEW n \in Node, NodeChanges(n)
    PROVE  IInv'
<1>1. TypeInv /\ WireInv /\ DetectInv /\ SteadyInv
  BY DEF IInv
<1>2. /\ UNCHANGED <<forbidding, aware, ctx, poolVars, conn, attempt, detecting, callVars, connected, timedOut>>
      /\ pc' = pc /\ pool' = pool /\ order' = order /\ outcome' = outcome /\ current' = current
      /\ up \ {n} \subseteq up' /\ (up \subseteq Node => up' \subseteq Node)
  BY DEF NodeChanges, callVars, poolVars
<1>3. /\ steady' \in [Tasks -> SUBSET Node]
      /\ \A u \in Tasks : steady'[u] = steady[u] \ {n}
  <2>1. steady' = Without({n}, Background)
    BY DEF NodeChanges
  <2> QED BY <1>1, <2>1, NoOwner, Steadied
<1>4. TypeInv'
  BY <1>1, <1>2, <1>3 DEF TypeInv
<1>5. Nets
  BY <1>1, <1>2, NetSame
<1>6. CalmTasks
  <2>1. \A u \in Tasks : steady'[u] \subseteq steady[u] /\ steady'[u] \subseteq Usable'
    BY <1>1, <1>2, <1>3 DEF SteadyInv, Usable
  <2> QED BY <1>2, <2>1, TasksSame
<1>7. ConnectInv'
  <2>1. ASSUME NEW c \in Tasks
        PROVE  ConnectOK(c)'
    <3>1. steady'[c] \subseteq steady[c] /\ steady[c] \subseteq Node
      BY <1>1, <1>3 DEF TypeInv
    <3>2. ConnectOK(c) /\ (Settled' <=> Settled)
      BY <1>2 DEF IInv, ConnectInv, Settled
    <3>3. (\A m \in steady[c] : m > pool) => \A m \in steady'[c] : m > pool
      BY <3>1
    <3> QED BY <1>2, <3>2, <3>3 DEF ConnectOK
  <2> QED BY <2>1 DEF ConnectInv
<1>8. ContextInv'
  <2>1. Settled' <=> Settled
    BY <1>2 DEF Settled
  <2> QED BY <1>2, <2>1 DEF IInv, ContextInv
<1>9. ReviveInv'
  <2> SUFFICES ASSUME NEW r \in Tasks, pc[r] = "reviving", NEW k \in steady'[r]
               PROVE  ReviveOK(r, k)'
    BY <1>2 DEF ReviveInv
  <2>1. k \in steady[r]
    BY <1>3
  <2> QED BY <1>2, <2>1 DEF IInv, ReviveInv, ReviveOK
<1> QED BY <1>2, <1>4, <1>5, <1>6, <1>7, <1>8, <1>9, NetRest

(* Loading the mappings keeps it.                                           *)
LEMMA UpdatedStep ==
    ASSUME IInv, AffinityUpdated
    PROVE  IInv'
<1>1. TypeInv /\ WireInv /\ DetectInv /\ SteadyInv
  BY DEF IInv
<1>2. /\ UNCHANGED <<conn, ctx, detecting, steady, callVars, poolVars, connected, timedOut>>
      /\ ctx /\ ~Connects
      /\ attempt' \in [Owners -> [Node -> Stages]]
      /\ \A u \in Owners, n \in Node :
            \/ attempt'[u][n] = attempt[u][n]
            \/ u = Background /\ attempt[u][n] = "none" /\ attempt'[u][n] = "created"
  BY <1>1, Updates
<1>3. /\ up' = up /\ forbidding' = forbidding /\ aware' = aware
      /\ pc' = pc /\ pool' = pool /\ order' = order /\ outcome' = outcome /\ current' = current
  BY <1>2 DEF AffinityUpdated, callVars, poolVars
<1>4. TypeInv'
  BY <1>1, <1>2, <1>3 DEF TypeInv
<1>5. Nets
  BY <1>1, NetUpdated
<1>6. \A u \in Tasks, m \in Node : attempt'[u][m] = attempt[u][m]
  BY <1>2, NoOwner
<1>7. CalmTasks
  <2>1. \A u \in Tasks : steady'[u] \subseteq steady[u] /\ steady'[u] \subseteq Usable'
    BY <1>1, <1>2, <1>3 DEF SteadyInv, Usable
  <2> QED BY <1>6, <2>1, TasksSame
<1>8. ConnectInv'
  <2>1. ASSUME NEW c \in Tasks
        PROVE  ConnectOK(c)'
    <3>1. pc[c] \notin {"connecting", "opened"}
      BY <1>2 DEF Connects
    <3> QED BY <1>3, <3>1, ConnectElse
  <2> QED BY <2>1 DEF ConnectInv
<1>9. ContextInv'
  <2>1. Settled' <=> Settled
    BY <1>2 DEF Settled
  <2>2. timedOut \/ Settled
    <3>1. SUFFICES ASSUME ~timedOut, ~Settled PROVE FALSE
      OBVIOUS
    <3>2. \A m \in Node : attempt[Background][m] = "none"
      BY <3>1 DEF IInv, ContextInv
    <3> QED BY <1>2, <3>1, <3>2, DetectsOpened DEF Connects
  <2> QED BY <1>2, <2>1, <2>2 DEF ContextInv
<1>10. ReviveInv'
  <2> SUFFICES ASSUME NEW r \in Tasks, pc[r] = "reviving", NEW k \in steady[r]
               PROVE  ReviveOK(r, k)'
    BY <1>2, <1>3 DEF ReviveInv
  <2>1. k \in Node
    BY <1>1 DEF TypeInv
  <2> QED BY <1>2, <1>6, <2>1 DEF IInv, ReviveInv, ReviveOK
<1> QED BY <1>2, <1>4, <1>5, <1>7, <1>8, <1>9, <1>10, NetRest

(* Begin keeps the types.                                                   *)
LEMMA BegunTypes ==
    ASSUME TypeInv, NEW t \in Owners, NEW nodes \in SUBSET Node, NEW C \in SUBSET Node, NEW O \in SUBSET Node,
           Begun(t, nodes, C, O)
    PROVE  /\ conn' \in [Node -> Connection] /\ attempt' \in [Owners -> [Node -> Stages]]
           /\ ctx' \in BOOLEAN /\ detecting' \subseteq Owners \X Node
           /\ steady' \in [Tasks -> SUBSET Node]
<1>1. /\ detecting' = IF ctx THEN detecting ELSE detecting \cup {<<t, n>> : n \in O}
      /\ ctx' = (ctx \/ O # {})
      /\ detecting \subseteq Owners \X Node
  BY DEF Begun, TypeInv
<1>2. \A n \in O : <<t, n>> \in Owners \X Node
  OBVIOUS
<1>3. detecting' \subseteq Owners \X Node
  BY <1>1, <1>2
<1> QED BY <1>1, <1>3 DEF Begun

(* A background reconnection that begins keeps the invariant.               *)
LEMMA ReconnectsStep ==
    ASSUME IInv, NEW n \in Node, Reconnects(n)
    PROVE  IInv'
<1>1. TypeInv /\ WireInv /\ DetectInv /\ SteadyInv
  BY DEF IInv
<1>2. /\ UNCHANGED <<up, forbidding, aware, poolVars, callVars, connected, timedOut>>
      /\ pc' = pc /\ pool' = pool /\ order' = order /\ outcome' = outcome /\ current' = current
      /\ attempt[Background][n] = "created"
  BY DEF Reconnects, callVars, poolVars
<1>3. PICK C \in SUBSET Node, O \in SUBSET Node : Begun(Background, {n}, C, O)
  <2>1. Background \in Owners /\ {n} \in SUBSET Node /\ Begin(Background, {n}, "reconnect")
    BY NoOwner DEF Reconnects
  <2> QED BY <1>1, <2>1, Begins
<1>4. C \subseteq {n} /\ O \subseteq {n} /\ n \in Node
  BY <1>3 DEF Begun
<1>5. TypeInv'
  <2>1. /\ conn' \in [Node -> Connection] /\ attempt' \in [Owners -> [Node -> Stages]]
        /\ ctx' \in BOOLEAN /\ detecting' \subseteq Owners \X Node
        /\ steady' \in [Tasks -> SUBSET Node]
    BY <1>1, <1>3, NoOwner, BegunTypes
  <2> QED BY <1>1, <1>2, <2>1 DEF TypeInv
<1>6. Nets
  <2>1. \A m \in Node : Over(Background, m) \/ (Background = Background /\ m \notin {n})
    BY <1>2 DEF Over
  <2> QED BY <1>1, <1>3, <1>4, <2>1, NoOwner, NetBegun
<1>7. \A u \in Tasks, m \in Node :
        /\ attempt'[u][m] = IF m \in C /\ conn[m].transport = u THEN "broken" ELSE attempt[u][m]
        /\ conn[m].transport = u => attempt[u][m] = "shaking"
        /\ m \in C => m \notin steady'[u]
  <2>1. ASSUME NEW u \in Tasks, NEW m \in Node
        PROVE  /\ attempt'[u][m] = IF m \in C /\ conn[m].transport = u THEN "broken" ELSE attempt[u][m]
               /\ conn[m].transport = u => attempt[u][m] = "shaking"
               /\ m \in C => m \notin steady'[u]
    <3>1. u \in Owners /\ u # Background
      BY NoOwner
    <3>2. \A v \in Owners, k \in Node : v # Background =>
             attempt'[v][k] = IF k \in C /\ conn[k].transport = v THEN "broken" ELSE attempt[v][k]
      BY <1>3 DEF Begun
    <3>3. conn[m].transport = u => attempt[u][m] = "shaking"
      BY <1>1, <3>1 DEF WireInv
    <3>4. steady'[u] = IF u = Background THEN steady[u] ELSE steady[u] \ C
      BY <1>3 DEF Begun
    <3> QED BY <3>1, <3>2, <3>3, <3>4
  <2> QED BY <2>1
<1>8. \A u \in Tasks : steady'[u] \subseteq steady[u]
  BY <1>3 DEF Begun
<1>9. CalmTasks
  <2>1. \A u \in Tasks : steady'[u] \subseteq steady[u] /\ steady'[u] \subseteq Usable'
    BY <1>1, <1>2, <1>8 DEF SteadyInv, Usable
  <2>2. \A u \in Tasks, m \in Node : attempt[u][m] \in {"connErr", "broken"} => m \notin steady[u]
    BY <1>1 DEF SteadyInv
  <2>3. ASSUME NEW u \in Tasks, NEW m \in Node
        PROVE  /\ attempt[u][m] \in Results \cup {"none"} => attempt'[u][m] = attempt[u][m]
               /\ attempt[u][m] = "shutting" => attempt'[u][m] \in {"shutting", "ok"}
               /\ attempt'[u][m] \in {"connErr", "broken"} => m \notin steady'[u]
               /\ attempt'[u][m] = "none" => attempt[u][m] = "none"
    BY <1>7, <2>1, <2>2 DEF Results
  <2> QED BY <2>1, <2>3 DEF CalmTasks
<1>10. ConnectInv'
  <2> SUFFICES ASSUME NEW c \in Tasks
               PROVE  ConnectOK(c)'
    BY DEF ConnectInv
  <2>1. CASE Settled \/ pc[c] \notin {"connecting", "opened"}
    BY <1>2, <1>6, <2>1, ConnectElse DEF Nets
  <2>2. CASE ~Settled /\ pc[c] \in {"connecting", "opened"}
    <3>1. ConnectOK(c) /\ pool \in Nat /\ n \in Nat /\ (pc[c] = "opened" => pool < N)
      BY <1>1 DEF IInv, ConnectInv, TypeInv, CallInv, Node
    <3>2. n <= pool /\ ctx
      BY <1>2, <2>2, <3>1 DEF ConnectOK
    <3>3. ctx' = ctx /\ detecting' = detecting
      BY <1>1, <1>3, <3>2 DEF Begun, TypeInv
    <3>4. attempt[c][n] = "none"
      <4>1. pc[c] = "connecting" => attempt[c][n] = "none"
        BY DEF IInv, PlaceInv
      <4>2. pc[c] = "opened" => attempt[c][n] = "none"
        BY <2>2, <3>1, <3>2 DEF ConnectOK
      <4> QED BY <2>2, <4>1, <4>2
    <3>5. \A m \in Node : attempt'[c][m] = attempt[c][m]
      BY <1>4, <1>7, <3>4
    <3>6. \A m \in Node : m # n => conn'[m] = conn[m] /\ attempt'[Background][m] = attempt[Background][m]
      <4>1. ASSUME NEW m \in Node, m # n
            PROVE  conn'[m] = conn[m] /\ attempt'[Background][m] = attempt[Background][m]
        <5>1. /\ conn'[m].failed = conn[m].failed /\ conn'[m].orphan = conn[m].orphan
              /\ conn'[m].transport = conn[m].transport /\ conn'[m].closed = conn[m].closed
              /\ conn'[m] \in Connection /\ conn[m] \in Connection
              /\ attempt'[Background][m] = attempt[Background][m]
          BY <1>1, <1>3, <1>4, <4>1 DEF Begun, TypeInv
        <5> QED BY <5>1 DEF Connection
      <4> QED BY <4>1
    <3> QED BY <1>2, <1>8, <2>2, <3>1, <3>2, <3>3, <3>5, <3>6, ConnectAside
  <2> QED BY <2>1, <2>2
<1>11. ContextInv'
  BY <1>2, <1>6 DEF IInv, ContextInv, Nets
<1>12. ReviveInv'
  <2> SUFFICES ASSUME NEW r \in Tasks, pc[r] = "reviving", NEW k \in steady'[r]
               PROVE  ReviveOK(r, k)'
    BY <1>2 DEF ReviveInv
  <2>1. k \in steady[r] /\ k \in Node /\ k \notin C
    BY <1>1, <1>7, <1>8 DEF TypeInv
  <2>2. /\ attempt'[r][k] = attempt[r][k] /\ conn'[k].failed = conn[k].failed
        /\ conn'[k].transport = conn[k].transport /\ (~conn[k].closed => ~conn'[k].closed)
    BY <1>3, <1>7, <2>1 DEF Begun
  <2> QED BY <2>1, <2>2 DEF IInv, ReviveInv, ReviveOK
<1> QED BY <1>2, <1>5, <1>6, <1>9, <1>10, <1>11, <1>12, NetRest

-----------------------------------------------------------------------------
(* Steps of a coroutine                                                     *)

(* Where a coroutine is that connects the client.                           *)
ConnectPlaces == {"connecting", "opened", "gathered", "regathered"}

(* Only the coroutine t moves.                                              *)
Moves(t) ==
  /\ pc' \in [Tasks -> Places] /\ order' \in [Tasks -> Seq(Node)] /\ DOMAIN outcome' = Tasks
  /\ \A u \in Tasks : u # t => pc'[u] = pc[u] /\ order'[u] = order[u] /\ outcome'[u] = outcome[u]

(* The types of what the network changes.                                   *)
NetTypes ==
  /\ conn' \in [Node -> Connection] /\ attempt' \in [Owners -> [Node -> Stages]]
  /\ ctx' \in BOOLEAN /\ detecting' \subseteq Owners \X Node
  /\ steady' \in [Tasks -> SUBSET Node]

(* A step of the coroutine t can only break the attempts of the others.     *)
OtherAttempts(t) ==
  \A u \in Owners, m \in Node : u # t =>
    attempt'[u][m] = attempt[u][m] \/ (conn[m].transport = u /\ attempt'[u][m] = "broken")

(* What it does to the others counts against no node that is steady for     *)
(* them.                                                                    *)
OtherSteady(t) ==
  \A u \in Tasks : u # t =>
    /\ steady'[u] \subseteq steady[u]
    /\ \A m \in steady'[u] :
         /\ attempt'[u][m] = attempt[u][m]
         /\ pc[u] # "idle" =>
              /\ conn'[m].transport = conn[m].transport /\ conn'[m].failed = conn[m].failed
              /\ ~conn[m].closed => ~conn'[m].closed

(* It opens no transport.                                                   *)
Wires ==
  \A m \in Node : conn'[m].transport \in {"none", conn[m].transport} /\ (conn'[m].orphan => conn[m].orphan)

(* What a step of the coroutine t leaves of the network to the others.      *)
Beside(t) == NetTypes /\ Nets /\ OtherAttempts(t) /\ OtherSteady(t) /\ Wires

(* Goes, for functions over the coroutines.                                 *)
LEMMA GoesTo ==
    ASSUME TypeInv, NEW t \in Tasks, NEW where \in Places, Goes(t, where)
    PROVE  Moves(t) /\ pc'[t] = where /\ order'[t] = order[t] /\ outcome'[t] = outcome[t]
BY DEF TypeInv, Goes, Moves

(* Finish, for functions over the coroutines.                               *)
LEMMA Finishes ==
    ASSUME TypeInv, NEW t \in Tasks, NEW result, Finish(t, result)
    PROVE  Moves(t) /\ pc'[t] = "idle" /\ outcome'[t] = result
<1>1. pc' \in [Tasks -> Places] /\ pc'[t] = "idle" /\ \A u \in Tasks : u # t => pc'[u] = pc[u]
  BY DEF TypeInv, Finish, Places
<1>2. order' \in [Tasks -> Seq(Node)] /\ \A u \in Tasks : u # t => order'[u] = order[u]
  <2>1. <<>> \in Seq(Node)
    OBVIOUS
  <2> QED BY <2>1 DEF TypeInv, Finish
<1>3. DOMAIN outcome' = Tasks /\ outcome'[t] = result /\ \A u \in Tasks : u # t => outcome'[u] = outcome[u]
  BY DEF TypeInv, Finish
<1> QED BY <1>1, <1>2, <1>3 DEF Moves

(* Begin leaves them this.                                                  *)
LEMMA BesideBegun ==
    ASSUME IInv, NEW t \in Tasks, NEW nodes \in SUBSET Node,
           NEW C \in SUBSET Node, NEW O \in SUBSET Node, Begun(t, nodes, C, O),
           \A n \in Node : attempt[t][n] \in Results \cup {"none"},
           ctx \/ \A n, m \in O : n = m
    PROVE  Beside(t) /\ steady'[t] = steady[t]
<1>1. TypeInv /\ WireInv /\ DetectInv /\ SteadyInv /\ t \in Owners /\ t # Background
  BY NoOwner DEF IInv
<1>2. NetTypes
  BY <1>1, BegunTypes DEF NetTypes
<1>3. Nets
  <2>1. \A n \in Node : Over(t, n) \/ (t = Background /\ n \notin nodes)
    BY DEF Over
  <2> QED BY <1>1, <2>1, NetBegun
<1>4. \A v \in Owners, k \in Node : v # t =>
             attempt'[v][k] = IF k \in C /\ conn[k].transport = v THEN "broken" ELSE attempt[v][k]
  BY DEF Begun
<1>5. OtherAttempts(t)
  BY <1>4 DEF OtherAttempts
<1>6. \A u \in Tasks : steady'[u] = IF u = t THEN steady[u] ELSE steady[u] \ C
  BY DEF Begun
<1>7. ASSUME NEW k \in Node
      PROVE  /\ k \notin C => conn'[k].transport = conn[k].transport
             /\ conn'[k].transport \in {"none", conn[k].transport}
             /\ conn'[k].failed = conn[k].failed /\ conn'[k].orphan = conn[k].orphan
             /\ ~conn[k].closed => ~conn'[k].closed
  BY DEF Begun
<1>8. OtherSteady(t)
  <2>1. ASSUME NEW u \in Tasks, u # t
        PROVE  /\ steady'[u] \subseteq steady[u]
               /\ \A m \in steady'[u] : m \in Node /\ m \notin C /\ attempt'[u][m] = attempt[u][m]
    <3>1. u \in Owners /\ steady'[u] = steady[u] \ C /\ steady[u] \subseteq Node
      BY <1>1, <1>6, <2>1, NoOwner DEF TypeInv
    <3> QED BY <1>4, <2>1, <3>1
  <2> QED BY <1>7, <2>1 DEF OtherSteady
<1>9. Wires
  BY <1>7 DEF Wires
<1> QED BY <1>2, <1>3, <1>5, <1>6, <1>8, <1>9 DEF Beside

(* Shut does.                                                               *)
LEMMA BesideShut ==
    ASSUME IInv, NEW t \in Tasks, NEW nodes \in SUBSET Node, Shut(t, nodes),
           \A n \in Node : attempt[t][n] \in Results \cup {"none"}
    PROVE  Beside(t) /\ steady'[t] = steady[t] /\ \A n \in Node : attempt'[t][n] \in {"none", "shutting", "ok"}
<1>1. TypeInv /\ WireInv /\ DetectInv /\ SteadyInv /\ t \in Owners /\ t # Background
  BY NoOwner DEF IInv
<1>2. NetTypes
  BY <1>1, Shuts DEF NetTypes, TypeInv
<1>3. Nets
  <2>1. \A n \in Node : Over(t, n)
    BY DEF Over
  <2> QED BY <1>1, <2>1, NetShut
<1>4. \A n \in Node :
         /\ \A u \in Owners : u # t =>
              attempt'[u][n] = IF n \in nodes /\ conn[n].transport = u THEN "broken" ELSE attempt[u][n]
         /\ attempt'[t][n] \in {"none", "shutting", "ok"}
  <2>0. TypeInv
    BY <1>1
  <2>1. ASSUME NEW u \in Owners, NEW n \in Node
        PROVE  /\ conn'[n].transport = IF n \in nodes THEN "none" ELSE conn[n].transport
               /\ u # t => attempt'[u][n] = IF n \in nodes /\ conn[n].transport = u THEN "broken" ELSE attempt[u][n]
               /\ attempt'[t][n] \in {"none", "shutting", "ok"}
    BY <2>0, Shuts
  <2> QED BY <1>1, <2>1
<1>5. OtherAttempts(t)
  BY <1>4 DEF OtherAttempts
<1>6. \A u \in Tasks : steady'[u] = IF u = t THEN steady[u] ELSE steady[u] \ nodes
  <2>1. steady' = Without(nodes, t)
    BY DEF Shut
  <2> QED BY <1>1, <2>1, Steadied
<1>7. ASSUME NEW k \in Node
      PROVE  /\ k \notin nodes => conn'[k].transport = conn[k].transport
             /\ conn'[k].transport \in {"none", conn[k].transport}
             /\ conn'[k].failed = conn[k].failed /\ conn'[k].orphan = conn[k].orphan
             /\ k \notin nodes /\ ~conn[k].closed => ~conn'[k].closed
  BY <1>1, Shuts
<1>8. OtherSteady(t)
  <2>1. ASSUME NEW u \in Tasks, u # t
        PROVE  /\ steady'[u] \subseteq steady[u]
               /\ \A m \in steady'[u] : m \in Node /\ m \notin nodes /\ attempt'[u][m] = attempt[u][m]
    <3>1. u \in Owners /\ steady'[u] = steady[u] \ nodes /\ steady[u] \subseteq Node
      BY <1>1, <1>6, <2>1, NoOwner DEF TypeInv
    <3> QED BY <1>4, <2>1, <3>1
  <2> QED BY <1>7, <2>1 DEF OtherSteady
<1>9. Wires
  BY <1>7 DEF Wires
<1> QED BY <1>2, <1>3, <1>4, <1>5, <1>6, <1>8, <1>9 DEF Beside

(* A coroutine that forgets its results does.                               *)
LEMMA BesideForgets ==
    ASSUME IInv, NEW t \in Tasks, Forget(t), \A n \in Node : attempt[t][n] \in Results \cup {"none"},
           UNCHANGED <<conn, ctx, detecting>>, steady' \in [Tasks -> SUBSET Node],
           \A u \in Tasks : u # t => steady'[u] \subseteq steady[u]
    PROVE  Beside(t) /\ \A n \in Node : attempt'[t][n] = "none"
<1>1. TypeInv /\ WireInv /\ DetectInv /\ SteadyInv /\ t \in Owners /\ t # Background
  BY NoOwner DEF IInv
<1>2. \A n \in Node : Over(t, n)
  BY DEF Over
<1>3. /\ Nets /\ attempt' \in [Owners -> [Node -> Stages]]
      /\ \A u \in Owners, n \in Node : attempt'[u][n] = IF u = t THEN "none" ELSE attempt[u][n]
  BY <1>1, <1>2, NetForgets
<1>4. OtherSteady(t)
  <2>1. ASSUME NEW u \in Tasks, u # t, NEW m \in steady'[u]
        PROVE  m \in Node /\ attempt'[u][m] = attempt[u][m]
    <3>1. m \in Node /\ u \in Owners
      BY NoOwner
    <3> QED BY <1>3, <2>1, <3>1
  <2> QED BY <2>1 DEF OtherSteady
<1>5. Wires /\ OtherAttempts(t)
  BY <1>3 DEF Wires, OtherAttempts
<1>6. NetTypes
  BY <1>1, <1>3 DEF NetTypes, TypeInv
<1> QED BY <1>1, <1>3, <1>4, <1>5, <1>6 DEF Beside

(* A step that leaves the network alone does.                               *)
LEMMA BesideSame ==
    ASSUME IInv, NEW t \in Tasks, UNCHANGED <<conn, ctx, detecting, attempt, steady>>
    PROVE  Beside(t)
<1>1. TypeInv /\ WireInv /\ DetectInv
  BY DEF IInv
<1>2. Nets
  BY <1>1, NetSame
<1>3. NetTypes /\ OtherAttempts(t) /\ OtherSteady(t) /\ Wires
  BY <1>1 DEF NetTypes, OtherAttempts, OtherSteady, Wires, TypeInv
<1> QED BY <1>2, <1>3 DEF Beside

(* The part of the invariant that is about the coroutine t.                 *)
Mine(t) ==
  /\ \A n \in Node :
       /\ pc[t] \in {"idle", "connecting", "picking", "ending"} => attempt[t][n] = "none"
       /\ pc[t] \in {"leaving", "closing"} => attempt[t][n] \in {"none", "shutting", "ok"}
  /\ pc[t] # "idle" => outcome[t] = "none"
  /\ pc[t] = "opened" => pool < N
  /\ pc[t] \in {"gathered", "regathered"} => pool = N /\ Settled
  /\ pc[t] \in {"picking", "leaving", "scanning", "reviving"} => Settled /\ (pool = N \/ steady[t] = {})
  /\ steady[t] \subseteq Usable
  /\ \A n \in steady[t] : attempt[t][n] \notin {"connErr", "broken"}
  /\ ConnectOK(t)
  /\ pc[t] = "reviving" => \A n \in steady[t] : ReviveOK(t, n)
  /\ pc[t] = "scanning" =>
       /\ \A n \in steady[t] : attempt[t][n] # "none" \/ \E k \in DOMAIN order[t] : order[t][k] = n
       /\ \E n \in Node : attempt[t][n] # "none"
  /\ pc[t] = "idle" /\ outcome[t] = "reconnectError" => steady[t] = {}

(* The invariant says it of every coroutine.                                *)
LEMMA MineIs ==
    ASSUME IInv, NEW t \in Tasks
    PROVE  Mine(t)
<1>1. ConnectOK(t)
  BY DEF IInv, ConnectInv
<1>2. pc[t] = "reviving" => \A n \in steady[t] : ReviveOK(t, n)
  BY DEF IInv, ReviveInv
<1> QED BY <1>1, <1>2 DEF IInv, PlaceInv, CallInv, SteadyInv, ScanInv, GivesUp, Mine

(* A step of the coroutine t that keeps its part and the context in order   *)
(* keeps the invariant.                                                     *)
LEMMA TaskRest ==
    ASSUME IInv, NEW t \in Tasks, Beside(t), TypeInv', Moves(t), up' = up, forbidding' = forbidding,
           Mine(t)', ContextInv',
           \A u \in Tasks : u # t => pc[u] \notin ConnectPlaces,
           pc'[t] \in ConnectPlaces => \A u \in Tasks : u # t => pc[u] = "idle",
           pool' = pool \/ \A u \in Tasks : u # t => steady'[u] = {} \/ pc[u] = "idle",
           connected' => ((connected /\ pool' = pool) \/ (pool' = N /\ Settled')) /\ pc'[t] \notin ConnectPlaces
    PROVE  IInv'
<1>1. \A u \in Tasks : u # t => pc'[u] = pc[u] /\ order'[u] = order[u] /\ outcome'[u] = outcome[u]
  BY DEF Moves
<1>2. Nets /\ OtherAttempts(t) /\ OtherSteady(t) /\ (Settled => Settled')
  BY DEF Beside, Nets
<1>3. ASSUME NEW u \in Tasks, u # t
      PROVE  Mine(u)'
  <2>1. Mine(u) /\ pc[u] \notin ConnectPlaces
    BY <1>3, MineIs
  <2>2. /\ steady'[u] \subseteq steady[u] /\ steady[u] \subseteq Node
        /\ \A m \in steady'[u] :
             /\ attempt'[u][m] = attempt[u][m]
             /\ pc[u] # "idle" =>
                  /\ conn'[m].transport = conn[m].transport /\ conn'[m].failed = conn[m].failed
                  /\ ~conn[m].closed => ~conn'[m].closed
    BY <1>2, <1>3 DEF OtherSteady, IInv, TypeInv
  <2>3. \A m \in Node : \/ attempt'[u][m] = attempt[u][m]
                        \/ attempt[u][m] = "shaking" /\ attempt'[u][m] = "broken"
    <3>1. u \in Owners
      BY NoOwner
    <3> QED BY <1>2, <1>3, <3>1 DEF OtherAttempts, IInv, WireInv
  <2>4. pc'[u] = pc[u] /\ order'[u] = order[u] /\ outcome'[u] = outcome[u]
    BY <1>1, <1>3
  <2>5. \A n \in Node :
           /\ pc'[u] \in {"idle", "connecting", "picking", "ending"} => attempt'[u][n] = "none"
           /\ pc'[u] \in {"leaving", "closing"} => attempt'[u][n] \in {"none", "shutting", "ok"}
    BY <2>1, <2>3, <2>4 DEF Mine
  <2>6. /\ pc'[u] # "idle" => outcome'[u] = "none"
        /\ pc'[u] = "opened" => pool' < N
        /\ pc'[u] \in {"gathered", "regathered"} => pool' = N /\ Settled'
        /\ pc'[u] \in {"picking", "leaving", "scanning", "reviving"} => Settled' /\ (pool' = N \/ steady'[u] = {})
    <3>1. pool' = pool \/ steady'[u] = {} \/ pc[u] = "idle"
      BY <1>3
    <3>2. steady[u] = {} => steady'[u] = {}
      BY <2>2
    <3> QED BY <1>2, <2>1, <2>4, <3>1, <3>2 DEF Mine, ConnectPlaces
  <2>7. /\ steady'[u] \subseteq Usable'
        /\ \A n \in steady'[u] : attempt'[u][n] \notin {"connErr", "broken"}
    BY <2>1, <2>2 DEF Mine, Usable
  <2>8. ConnectOK(u)'
    BY <2>1, <2>4, ConnectElse DEF ConnectPlaces
  <2>9. pc'[u] = "reviving" => \A n \in steady'[u] : ReviveOK(u, n)'
    <3>1. ASSUME pc[u] = "reviving", NEW n \in steady'[u]
          PROVE  ReviveOK(u, n)'
      <4>1. ReviveOK(u, n)
        BY <2>1, <2>2, <3>1 DEF Mine
      <4>2. /\ attempt'[u][n] = attempt[u][n]
            /\ conn'[n].transport = conn[n].transport /\ conn'[n].failed = conn[n].failed
            /\ ~conn[n].closed => ~conn'[n].closed
        BY <2>2, <3>1
      <4> QED BY <4>1, <4>2 DEF ReviveOK
    <3> QED BY <2>4, <3>1
  <2>10. pc'[u] = "scanning" =>
           /\ \A n \in steady'[u] : attempt'[u][n] # "none" \/ \E k \in DOMAIN order'[u] : order'[u][k] = n
           /\ \E n \in Node : attempt'[u][n] # "none"
    <3>1. ASSUME pc[u] = "scanning"
          PROVE  /\ \A n \in steady'[u] : attempt'[u][n] # "none" \/ \E k \in DOMAIN order[u] : order[u][k] = n
                 /\ \E n \in Node : attempt'[u][n] # "none"
      <4>1. /\ \A n \in steady[u] : attempt[u][n] # "none" \/ \E k \in DOMAIN order[u] : order[u][k] = n
            /\ \E n \in Node : attempt[u][n] # "none"
        BY <2>1, <3>1 DEF Mine
      <4> QED BY <2>2, <2>3, <4>1
    <3> QED BY <2>4, <3>1
  <2>11. pc'[u] = "idle" /\ outcome'[u] = "reconnectError" => steady'[u] = {}
    BY <2>1, <2>2, <2>4 DEF Mine
  <2> QED BY <2>5, <2>6, <2>7, <2>8, <2>9, <2>10, <2>11 DEF Mine
<1>4. \A u \in Tasks : Mine(u)'
  BY <1>3
<1>5. PlaceInv' /\ SteadyInv' /\ ScanInv' /\ GivesUp'
  <2>1. PlaceInv'
    BY <1>4 DEF PlaceInv, Mine
  <2>2. SteadyInv'
    BY <1>4 DEF SteadyInv, Mine
  <2>3. ScanInv'
    BY <1>4 DEF ScanInv, Mine
  <2>4. GivesUp'
    BY <1>4 DEF GivesUp, Mine
  <2> QED BY <2>1, <2>2, <2>3, <2>4
<1>6. ConnectInv' /\ ReviveInv'
  <2>1. ConnectInv'
    BY <1>4 DEF ConnectInv, Mine
  <2>2. ReviveInv'
    BY <1>4 DEF ReviveInv, Mine
  <2> QED BY <2>1, <2>2
<1>7. CallInv'
  <2>1. \A x, y \in Tasks : x # y /\ pc'[x] \in ConnectPlaces => pc'[y] = "idle"
    BY <1>1
  <2>2. connected' => ~Connects' /\ pool' = N /\ Settled'
    <3>1. ASSUME connected'
          PROVE  pool' = N /\ Settled'
      BY <1>2, <3>1 DEF IInv, CallInv
    <3>2. ASSUME connected'
          PROVE  \A u \in Tasks : pc'[u] \notin ConnectPlaces
      BY <1>1, <3>2
    <3> QED BY <3>1, <3>2 DEF Connects, ConnectPlaces
  <2>3. \A x \in Tasks :
       /\ pc'[x] # "idle" => outcome'[x] = "none"
       /\ pc'[x] = "opened" => pool' < N
       /\ pc'[x] \in {"gathered", "regathered"} => pool' = N /\ Settled'
       /\ pc'[x] \in {"picking", "leaving", "scanning", "reviving"} => Settled' /\ (pool' = N \/ steady'[x] = {})
    BY <1>4 DEF Mine
  <2> QED BY <2>1, <2>2, <2>3 DEF CallInv, ConnectPlaces
<1> QED BY <1>2, <1>5, <1>6, <1>7 DEF IInv, Nets

-----------------------------------------------------------------------------
(* connect()                                                                *)

(* How connected follows what the call came to.                             *)
Reports(t) ==
  connected' = IF outcome'[t] = "none" THEN connected
               ELSE IF pc[t] \in {"connecting", "regathered"} THEN outcome'[t] = "ok"
               ELSE connected /\ pc[t] # "closing"

(* A coroutine that runs keeps the invariant if it keeps its own part of    *)
(* it.                                                                      *)
LEMMA StepDone ==
    ASSUME IInv, NEW t \in Tasks, pc[t] # "idle", Beside(t), Moves(t), Mine(t)', Reports(t),
           UNCHANGED <<up, forbidding, aware, timedOut>>, pool' \in 0..N, current' \in Node,
           pc'[t] \in ConnectPlaces => pc[t] \in ConnectPlaces,
           \/ pool' = pool \/ pc[t] \in ConnectPlaces
           \/ pc[t] = "closing" /\ outcome'[t] # "none" /\ \A u \in Tasks : u # t => steady'[u] = {},
           pc[t] \in {"connecting", "regathered"} /\ outcome'[t] = "ok" => pool' = N /\ Settled'
    PROVE  IInv'
<1>1. Nets /\ OtherAttempts(t) /\ NetTypes /\ Wires
  BY DEF Beside
<1>2. connected' \in BOOLEAN
  BY DEF IInv, TypeInv, Reports
<1>3. TypeInv'
  BY <1>1, <1>2 DEF NetTypes, Moves, IInv, TypeInv
<1>4. ContextInv'
  <2> SUFFICES ASSUME ~timedOut, ~Settled', NEW n \in Node
               PROVE  attempt'[Background][n] = "none" /\ conn'[n].transport # "ready" /\ ~conn'[n].orphan
    BY DEF ContextInv
  <2>1. attempt[Background][n] = "none" /\ conn[n].transport # "ready" /\ ~conn[n].orphan
    BY <1>1 DEF IInv, ContextInv, Nets
  <2>2. conn[n].transport # Background
    BY <2>1, NoOwner DEF IInv, WireInv
  <2> QED BY <1>1, <2>1, <2>2, NoOwner DEF OtherAttempts, Wires
<1>5. \A u \in Tasks : u # t => pc[u] \notin ConnectPlaces
  BY DEF IInv, CallInv, ConnectPlaces
<1>6. pc[t] \in ConnectPlaces => \A u \in Tasks : u # t => pc[u] = "idle"
  BY OnlyOne DEF ConnectPlaces
<1>7. pool' = pool \/ \A u \in Tasks : u # t => steady'[u] = {} \/ pc[u] = "idle"
  BY <1>6
<1>8. outcome'[t] # "none" => pc'[t] = "idle"
  BY DEF Mine
<1>9. connected => pc[t] \notin ConnectPlaces
  BY DEF IInv, CallInv, Connects, ConnectPlaces
<1>10. connected' => ((connected /\ pool' = pool) \/ (pool' = N /\ Settled')) /\ pc'[t] \notin ConnectPlaces
  <2>1. CASE outcome'[t] = "none"
    BY <1>9, <2>1 DEF Reports
  <2>2. CASE outcome'[t] # "none" /\ pc[t] \in {"connecting", "regathered"}
    BY <1>8, <2>2 DEF Reports, ConnectPlaces
  <2>3. CASE outcome'[t] # "none" /\ pc[t] \notin {"connecting", "regathered"}
    <3>1. connected' => connected /\ pc[t] # "closing"
      BY <2>3 DEF Reports
    <3> QED BY <1>9, <3>1
  <2> QED BY <2>1, <2>2, <2>3
<1> QED BY <1>3, <1>4, <1>5, <1>6, <1>7, <1>10, TaskRest

(* A coroutine that returns.                                                *)
LEMMA MineIdle ==
    ASSUME IInv, NEW t \in Tasks, pc'[t] = "idle", \A n \in Node : attempt'[t][n] = "none",
           steady'[t] = steady[t], up' = up, forbidding' = forbidding,
           outcome'[t] = "reconnectError" => steady[t] = {}
    PROVE  Mine(t)'
<1>1. steady[t] \subseteq Usable /\ steady[t] \subseteq Node
  BY DEF IInv, SteadyInv, TypeInv
<1>2. ConnectOK(t)'
  BY DEF ConnectOK
<1>3. /\ steady'[t] \subseteq Usable' /\ \A n \in steady'[t] : attempt'[t][n] \notin {"connErr", "broken"}
  BY <1>1 DEF Usable
<1> QED BY <1>2, <1>3 DEF Mine

(* connect() opens the next node, adds it, gathers or returns.              *)
LEMMA ConnectingStep ==
    ASSUME IInv, NEW t \in Tasks, Connecting(t), Reports(t), UNCHANGED timedOut
    PROVE  IInv'
<1>0. TypeInv /\ Mine(t) /\ t \in Owners /\ t # Background /\ pool \in Nat /\ N \in Nat
  BY MineIs, NoOwner, PoolAssumption DEF IInv, TypeInv
<1>1. /\ pc[t] = "connecting" /\ UNCHANGED <<up, forbidding, aware, timedOut>> /\ current' = current
      /\ current \in Node /\ pool \in 0..N
  BY <1>0 DEF Connecting, TypeInv
<1>2. /\ \A n \in Node : attempt[t][n] = "none"
      /\ outcome[t] = "none" /\ detecting = {} /\ (ctx <=> Settled)
      /\ steady[t] \subseteq Usable /\ steady[t] \subseteq Node /\ Usable' = Usable
  BY <1>0, <1>1 DEF Mine, ConnectOK, Settled, TypeInv, Usable
<1>3. \A n \in Node : attempt[t][n] \in Results \cup {"none"}
  BY <1>2
<1>4. CASE pool < N /\ ~ctx
  <2>1. Goes(t, "opened") /\ Begin(t, {pool + 1}, "connect") /\ pool' = pool
    BY <1>0, <1>4 DEF Connecting
  <2>2. pool + 1 \in Node /\ {pool + 1} \in SUBSET Node
    BY <1>0, <1>4 DEF Node
  <2> DEFINE k == pool + 1
  <2>3. PICK O \in SUBSET Node : Begun(t, {k}, {}, O)
    BY <1>0, <2>1, <2>2, Begins
  <2>4. /\ \A n \in steady[t] : n > pool
        /\ \A n \in Node : n > pool => attempt[Background][n] = "none"
        /\ ~ctx => \A n \in Node : attempt[Background][n] # "created"
        /\ \A n \in Node : n > pool => conn[n].transport = "none" /\ ~conn[n].orphan
    BY <1>0, <1>1, <1>2, <1>4 DEF Mine, ConnectOK
  <2>5. ~Alive(k) /\ conn[k].transport = "none" /\ ~conn[k].orphan
    BY <1>0, <2>2, <2>4 DEF Alive
  <2>6. O = {k}
    BY <2>3, <2>5 DEF Begun
  <2>7. /\ detecting' = {<<t, k>>} /\ ctx'
        /\ attempt'[t][k] = "opening"
        /\ \A n \in Node : n # k => attempt'[t][n] = "none"
        /\ \A n \in Node : conn'[n].transport = conn[n].transport /\ conn'[n].orphan = conn[n].orphan
        /\ \A n \in Node : attempt'[Background][n] = attempt[Background][n]
    <3>1. detecting' = {<<t, k>>} /\ ctx'
      <4>1. detecting' = detecting \cup {<<t, n>> : n \in O} /\ ctx'
        BY <1>4, <2>3, <2>6 DEF Begun
      <4>2. {<<t, n>> : n \in O} = {<<t, k>>}
        BY <2>6
      <4> QED BY <1>2, <4>1, <4>2
    <3>2. ASSUME NEW n \in Node
          PROVE  /\ conn'[n].transport = conn[n].transport /\ conn'[n].orphan = conn[n].orphan
                 /\ n \in {k} => attempt'[t][n] = IF n \in {} THEN "closing" ELSE IF n \in O THEN "opening" ELSE Result(t, "ok")
                 /\ n \notin {k} => attempt'[t][n] = IF t = Background THEN attempt[t][n] ELSE "none"
      BY <2>3 DEF Begun
    <3>3. \A u \in Owners, n \in Node : u # t =>
             attempt'[u][n] = IF n \in {} /\ conn[n].transport = u THEN "broken" ELSE attempt[u][n]
      BY <2>3 DEF Begun
    <3>4. \A n \in Node : attempt'[Background][n] = attempt[Background][n]
      BY <1>0, <3>3, NoOwner
    <3>5. attempt'[t][k] = "opening"
      BY <2>2, <2>6, <3>2
    <3>6. \A n \in Node : n # k => attempt'[t][n] = "none"
      BY <1>0, <3>2
    <3> QED BY <3>1, <3>2, <3>4, <3>5, <3>6
  <2>8. Beside(t) /\ steady'[t] = steady[t]
    <3>1. \A n, m \in O : n = m
      BY <2>6
    <3> QED BY <1>3, <2>2, <2>3, <3>1, BesideBegun
  <2>9. Moves(t) /\ pc'[t] = "opened" /\ outcome'[t] = "none"
    BY <1>0, <1>2, <2>1, GoesTo DEF Places
  <2> HIDE DEF k
  <2>10. ConnectOK(t)'
    <3>1. \A n \in Node : n > pool + 1 => n > pool
      BY <1>0 DEF Node
    <3>2. /\ \A n \in steady'[t] : n > pool'
          /\ \A n \in Node : n > pool' => attempt'[Background][n] = "none"
          /\ \A n \in Node : n > pool' + 1 => conn'[n].transport = "none" /\ ~conn'[n].orphan
          /\ \A n \in Node : n # pool' + 1 => attempt'[t][n] = "none"
      BY <2>1, <2>4, <2>7, <2>8, <3>1 DEF k
    <3>3. /\ attempt'[t][pool' + 1] \in {"opening", "shaking"} /\ detecting' = {<<t, pool' + 1>>}
          /\ ~conn'[pool' + 1].orphan /\ conn'[pool' + 1].transport \in {"none", t}
      BY <2>1, <2>2, <2>5, <2>7 DEF k
    <3> QED BY <2>7, <2>9, <3>2, <3>3 DEF ConnectOK
  <2>11. Mine(t)'
    <3>1. \A n \in Node : attempt'[t][n] \notin {"connErr", "broken"}
      BY <2>7
    <3> QED BY <1>2, <1>4, <2>1, <2>8, <2>9, <2>10, <3>1 DEF Mine
  <2>12. outcome'[t] # "ok"
    BY <2>9
  <2> QED BY <1>1, <2>1, <2>8, <2>9, <2>11, <2>12, StepDone DEF ConnectPlaces
<1>5. CASE pool < N /\ ctx
  <2>1. pool' = pool + 1 /\ UNCHANGED <<ctx, conn, attempt, detecting, callVars, steady>>
        /\ pc' = pc /\ order' = order /\ outcome' = outcome
    <3>1. pool' = pool + 1 /\ UNCHANGED <<ctx, conn, attempt, detecting, callVars, steady>>
      <4>1. pool # N
        BY <1>0, <1>5
      <4> QED BY ZenonT(30), <1>5, <4>1 DEF Connecting
    <3> QED BY <3>1 DEF callVars
  <2>2. Beside(t)
    BY <2>1, BesideSame
  <2>3. Moves(t)
    BY <1>0, <2>1 DEF Moves, TypeInv
  <2>4. Settled'
    BY <1>2, <1>5, <2>1 DEF Settled
  <2>5. ConnectOK(t)'
    BY <1>1, <1>2, <2>1, <2>4 DEF ConnectOK
  <2>6. Mine(t)'
    BY <1>0, <1>1, <1>2, <2>1, <2>5 DEF Mine
  <2>7. pool' \in 0..N
    BY <1>0, <1>5, <2>1
  <2>8. outcome'[t] # "ok"
    BY <1>2, <2>1
  <2> QED BY <1>1, <2>2, <2>3, <2>6, <2>7, <2>8, StepDone DEF ConnectPlaces
<1>6. CASE pool = N /\ AwareNow
  <2>1. Goes(t, "gathered") /\ Begin(t, Node, "connect") /\ pool' = pool /\ ctx
    <3>1. Goes(t, "gathered") /\ Begin(t, Node, "connect") /\ pool' = pool
      BY <1>0, <1>6 DEF Connecting
    <3> QED BY <1>6, <3>1 DEF AwareNow
  <2>2. PICK O \in SUBSET Node : Begun(t, Node, {}, O)
    BY <1>0, <2>1, Begins
  <2>3. Beside(t) /\ steady'[t] = steady[t]
    BY <1>3, <2>1, <2>2, BesideBegun
  <2>4. Moves(t) /\ pc'[t] = "gathered" /\ outcome'[t] = "none"
    BY <1>0, <1>2, <2>1, GoesTo DEF Places
  <2>5. \A n \in Node : attempt'[t][n] \notin {"connErr", "broken"}
    <3>1. \A n \in Node :
             attempt'[t][n] = IF n \in {} THEN "closing" ELSE IF n \in O THEN "opening" ELSE Result(t, "ok")
      BY <2>2 DEF Begun
    <3> QED BY <3>1, ResultIs
  <2>6. Settled'
    BY <1>2, <2>1, <2>3 DEF Beside, Nets
  <2>7. ConnectOK(t)'
    BY <2>4 DEF ConnectOK
  <2>8. Mine(t)'
    BY <1>2, <1>6, <2>1, <2>3, <2>4, <2>5, <2>6, <2>7 DEF Mine
  <2>9. outcome'[t] # "ok"
    BY <2>4
  <2> QED BY <1>1, <2>1, <2>3, <2>4, <2>8, <2>9, StepDone DEF ConnectPlaces
<1>7. CASE pool = N /\ ~AwareNow
  <2>1. /\ Finish(t, IF ctx THEN "ok" ELSE "reconnectError")
        /\ UNCHANGED <<ctx, pool, conn, attempt, detecting, steady>>
    BY <1>0, <1>7 DEF Connecting
  <2>2. Beside(t)
    BY <2>1, BesideSame
  <2>3. Moves(t) /\ pc'[t] = "idle" /\ outcome'[t] = IF ctx THEN "ok" ELSE "reconnectError"
    BY <1>0, <2>1, Finishes
  <2>4. ~ctx => steady[t] = {}
    <3>1. ~ctx => \A n \in steady[t] : n > N
      BY <1>0, <1>1, <1>2, <1>7 DEF Mine, ConnectOK
    <3> QED BY <1>0, <1>2, <3>1 DEF Node
  <2>5. Mine(t)'
    BY <1>1, <1>2, <2>1, <2>3, <2>4, MineIdle
  <2>6. outcome'[t] = "ok" => pool' = N /\ Settled'
    BY <1>2, <1>7, <2>1, <2>3 DEF Settled
  <2> QED BY <1>1, <2>1, <2>2, <2>3, <2>5, <2>6, StepDone DEF ConnectPlaces
<1> QED BY <1>4, <1>5, <1>6, <1>7 DEF Connecting

(* What opening a node came to.                                             *)
LEMMA OpenedStep ==
    ASSUME IInv, NEW t \in Tasks, Opened(t), Reports(t), UNCHANGED timedOut
    PROVE  IInv'
<1>0. TypeInv /\ Mine(t) /\ t \in Owners /\ t # Background /\ pool \in Nat /\ N \in Nat /\ current \in Node
      /\ pool \in 0..N /\ steady \in [Tasks -> SUBSET Node]
  BY MineIs, NoOwner, PoolAssumption DEF IInv, TypeInv
<1>1. /\ pc[t] = "opened" /\ UNCHANGED <<up, forbidding, aware, timedOut>> /\ Forget(t)
      /\ UNCHANGED <<ctx, conn, detecting, steady>> /\ steady' = steady
      /\ \A n \in Node : attempt[t][n] \in Results \cup {"none"}
  BY DEF Opened, Collected
<1>2. pool < N /\ outcome[t] = "none" /\ pool + 1 \in Node
      /\ steady[t] \subseteq Usable /\ steady[t] \subseteq Node /\ Usable' = Usable
  BY <1>0, <1>1 DEF Mine, TypeInv, Usable, Node
<1>3. Beside(t) /\ (\A n \in Node : attempt'[t][n] = "none") /\ steady'[t] = steady[t]
  <2>1. steady' \in [Tasks -> SUBSET Node]
    BY <1>0, <1>1
  <2> QED BY <1>1, <2>1, BesideForgets
<1>4. CASE attempt[t][pool + 1] = "raise"
  <2>1. Finish(t, "raise") /\ UNCHANGED poolVars
    BY <1>4 DEF Opened
  <2>2. Moves(t) /\ pc'[t] = "idle" /\ outcome'[t] = "raise"
    BY <1>0, <2>1, Finishes
  <2>3. pool' = pool /\ current' = current
    BY <2>1 DEF poolVars
  <2>4. Mine(t)'
    BY <1>1, <1>3, <2>2, MineIdle
  <2> QED BY <1>0, <1>1, <1>3, <2>2, <2>3, <2>4, StepDone DEF ConnectPlaces
<1>5. CASE attempt[t][pool + 1] # "raise"
  <2>1. /\ Goes(t, "connecting")
        /\ pool' = pool + 1
        /\ current' = IF attempt[t][pool + 1] = "ok" THEN pool + 1 ELSE current
    BY <1>5 DEF Opened
  <2>2. Moves(t) /\ pc'[t] = "connecting" /\ outcome'[t] = "none"
    BY <1>0, <1>2, <2>1, GoesTo DEF Places
  <2>3. pool' \in 0..N /\ current' \in Node
    BY <1>0, <1>2, <2>1
  <2>4. detecting' = detecting /\ ctx' = ctx /\ (Settled' <=> Settled)
    BY <1>1 DEF Settled
  <2>5. ConnectOK(t)'
    <3>1. CASE Settled
      BY <2>2, <2>4, <3>1 DEF ConnectOK, Settled
    <3>2. CASE ~Settled
      <4>1. attempt[t][pool + 1] \notin {"opening", "shaking"}
        BY <1>1, <1>2 DEF Results
      <4>2. /\ \A n \in steady[t] : n > pool
            /\ \A n \in Node : n > pool => attempt[Background][n] = "none"
            /\ \A n \in Node : n > pool + 1 => conn[n].transport = "none" /\ ~conn[n].orphan
            /\ ~ctx => \A n \in Node : attempt[Background][n] # "created"
            /\ attempt[t][pool + 1] = "connErr" /\ ~ctx
        BY <1>0, <1>1, <3>2, <4>1 DEF Mine, ConnectOK
      <4>3. detecting = {}
        BY <4>2 DEF IInv, DetectInv
      <4>4. \A n \in steady[t] : n > pool + 1
        <5>1. \A n \in steady[t] : n # pool + 1 /\ n \in Nat
          BY <1>0, <1>2, <4>2 DEF Mine, Node
        <5> QED BY <1>0, <4>2, <5>1
      <4>5. \A n \in Node : attempt'[Background][n] = attempt[Background][n]
        BY <1>0, <1>1, NoOwner DEF Forget, TypeInv
      <4>6. /\ \A n \in Node : n > pool + 1 => n > pool
            /\ \A n \in Node : n > pool' + 1 => n > pool + 1
        BY <1>0, <2>1 DEF Node
      <4>7. conn' = conn
        BY <1>1
      <4> QED BY <2>1, <2>2, <2>4, <1>3, <4>2, <4>3, <4>4, <4>5, <4>6, <4>7 DEF ConnectOK
    <3> QED BY <3>1, <3>2
  <2>6. Mine(t)'
    BY <1>2, <1>3, <2>2, <2>5 DEF Mine
  <2>7. outcome'[t] # "ok"
    BY <2>2
  <2> QED BY <1>1, <1>3, <2>2, <2>3, <2>6, <2>7, StepDone DEF ConnectPlaces
<1> QED BY <1>4, <1>5

(* What gathering came to, and the second attempt.                          *)
LEMMA GatheredStep ==
    ASSUME IInv, NEW t \in Tasks, Gathered(t), Reports(t), UNCHANGED timedOut
    PROVE  IInv'
<1>0. TypeInv /\ Mine(t) /\ t \in Owners /\ t # Background /\ current \in Node
      /\ pool \in 0..N /\ steady \in [Tasks -> SUBSET Node]
  BY MineIs, NoOwner DEF IInv, TypeInv
<1>1. /\ pc[t] = "gathered" /\ UNCHANGED <<up, forbidding, aware, timedOut>>
      /\ pool' = pool /\ current' = current
      /\ \A n \in Node : attempt[t][n] \in Results \cup {"none"}
  BY DEF Gathered, Collected, poolVars
<1>2. pool = N /\ Settled /\ ctx /\ outcome[t] = "none"
      /\ steady[t] \subseteq Usable /\ steady[t] \subseteq Node /\ Usable' = Usable
  BY <1>0, <1>1 DEF Mine, Usable, Settled
<1>3. CASE \E n \in Node : attempt[t][n] = "raise"
  <2>1. Finish(t, "raise") /\ Forget(t) /\ UNCHANGED <<ctx, conn, detecting, steady>>
    BY <1>3 DEF Gathered
  <2>2. Moves(t) /\ pc'[t] = "idle" /\ outcome'[t] = "raise"
    BY <1>0, <2>1, Finishes
  <2>3. Beside(t) /\ (\A n \in Node : attempt'[t][n] = "none") /\ steady'[t] = steady[t]
    BY <1>0, <1>1, <2>1, BesideForgets
  <2>4. Mine(t)'
    BY <1>1, <2>2, <2>3, MineIdle
  <2> QED BY <1>0, <1>1, <2>2, <2>3, <2>4, StepDone DEF ConnectPlaces
<1>4. CASE ~\E n \in Node : attempt[t][n] = "raise"
  <2> DEFINE again == {n \in Node : attempt[t][n] = "connErr"}
  <2>1. Goes(t, "regathered") /\ Begin(t, again, "reconnect") /\ again \in SUBSET Node
    BY <1>4 DEF Gathered
  <2> HIDE DEF again
  <2>2. PICK C \in SUBSET Node, O \in SUBSET Node : Begun(t, again, C, O)
    BY <1>0, <2>1, Begins
  <2>3. Beside(t) /\ steady'[t] = steady[t]
    BY <1>1, <1>2, <2>1, <2>2, BesideBegun
  <2>4. Moves(t) /\ pc'[t] = "regathered" /\ outcome'[t] = "none"
    BY <1>0, <1>2, <2>1, GoesTo DEF Places
  <2>5. \A n \in Node : attempt'[t][n] \notin {"connErr", "broken"}
    <3>1. ASSUME NEW n \in Node
          PROVE  /\ n \in again => attempt'[t][n] = IF n \in C THEN "closing" ELSE IF n \in O THEN "opening" ELSE Result(t, "ok")
                 /\ n \notin again => attempt'[t][n] = IF t = Background THEN attempt[t][n] ELSE "none"
      BY <2>2 DEF Begun
    <3> QED BY <1>0, <3>1, ResultIs
  <2>6. Settled'
    BY <1>2, <2>3 DEF Beside, Nets
  <2>7. ConnectOK(t)'
    BY <2>4 DEF ConnectOK
  <2>8. Mine(t)'
    BY <1>1, <1>2, <2>3, <2>4, <2>5, <2>6, <2>7 DEF Mine
  <2>9. outcome'[t] # "ok"
    BY <2>4
  <2> QED BY <1>0, <1>1, <2>3, <2>4, <2>8, <2>9, StepDone DEF ConnectPlaces
<1> QED BY <1>3, <1>4

(* The second attempt is over.                                              *)
LEMMA RegatheredStep ==
    ASSUME IInv, NEW t \in Tasks, Regathered(t), Reports(t), UNCHANGED timedOut
    PROVE  IInv'
<1>0. TypeInv /\ Mine(t) /\ current \in Node /\ pool \in 0..N /\ steady \in [Tasks -> SUBSET Node]
  BY MineIs DEF IInv, TypeInv
<1>1. /\ pc[t] = "regathered" /\ UNCHANGED <<up, forbidding, aware, timedOut>>
      /\ pool' = pool /\ current' = current
      /\ \A n \in Node : attempt[t][n] \in Results \cup {"none"}
      /\ Forget(t) /\ Finish(t, IF ctx THEN "ok" ELSE "reconnectError")
      /\ UNCHANGED <<ctx, conn, detecting, steady>>
  BY DEF Regathered, Collected, poolVars
<1>2. pool = N /\ Settled /\ ctx
  BY <1>0, <1>1 DEF Mine, Settled
<1>3. Moves(t) /\ pc'[t] = "idle" /\ outcome'[t] = "ok"
  <2>1. Finish(t, "ok")
    BY <1>1, <1>2
  <2> QED BY <1>0, <2>1, Finishes
<1>4. Beside(t) /\ (\A n \in Node : attempt'[t][n] = "none") /\ steady'[t] = steady[t]
  BY <1>0, <1>1, BesideForgets
<1>5. Mine(t)'
  BY <1>1, <1>3, <1>4, MineIdle
<1>6. pool' = N /\ Settled'
  BY <1>1, <1>2 DEF Settled
<1> QED BY <1>0, <1>1, <1>3, <1>4, <1>5, <1>6, StepDone DEF ConnectPlaces

(* random_node() begins.                                                    *)
LEMMA RandomNodeStep ==
    ASSUME IInv, NEW t \in Tasks, RandomNode(t), Reports(t), UNCHANGED timedOut
    PROVE  IInv'
<1>0. TypeInv /\ Mine(t) /\ t \in Owners /\ t # Background /\ current \in Node /\ pool \in 0..N /\ pool \in Nat
      /\ N \in Nat /\ steady \in [Tasks -> SUBSET Node]
  BY MineIs, NoOwner, PoolAssumption DEF IInv, TypeInv
<1>1. /\ pc[t] = "picking" /\ UNCHANGED <<up, forbidding, aware, timedOut>>
      /\ pool' = pool /\ current' = current
  BY DEF RandomNode, poolVars
<1>2. /\ Settled /\ ctx /\ outcome[t] = "none" /\ (pool = N \/ steady[t] = {})
      /\ steady[t] \subseteq Usable /\ steady[t] \subseteq Node /\ Usable' = Usable
      /\ \A n \in Node : attempt[t][n] = "none"
      /\ \A n \in Node : attempt[t][n] \in Results \cup {"none"}
  BY <1>0, <1>1 DEF Mine, Usable, Settled
<1>3. CASE \E result \in {"ok", "indexError"} : Finish(t, result) /\ UNCHANGED <<ctx, conn, attempt, detecting, steady>>
  <2>1. PICK result \in {"ok", "indexError"} : Finish(t, result) /\ UNCHANGED <<ctx, conn, attempt, detecting, steady>>
    BY <1>3
  <2>2. Moves(t) /\ pc'[t] = "idle" /\ outcome'[t] = result
    BY <1>0, <2>1, Finishes
  <2>3. Beside(t)
    BY <2>1, BesideSame
  <2>4. Mine(t)'
    BY <1>1, <1>2, <2>1, <2>2, MineIdle
  <2> QED BY <1>0, <1>1, <2>2, <2>3, <2>4, StepDone DEF ConnectPlaces
<1>4. CASE AliveNodes = {} /\ Goes(t, "reviving") /\ Begin(t, 1..pool, "reconnect")
  <2>1. 1..pool \in SUBSET Node
    BY <1>0 DEF Node
  <2>2. PICK C \in SUBSET Node, O \in SUBSET Node : Begun(t, 1..pool, C, O)
    BY <1>0, <1>4, <2>1, Begins
  <2>3. Beside(t) /\ steady'[t] = steady[t]
    BY <1>2, <2>1, <2>2, BesideBegun
  <2>4. Moves(t) /\ pc'[t] = "reviving" /\ outcome'[t] = "none"
    BY <1>0, <1>2, <1>4, GoesTo DEF Places
  <2>5. ASSUME NEW n \in Node
        PROVE  /\ n \in 1..pool => attempt'[t][n] = IF n \in C THEN "closing" ELSE IF n \in O THEN "opening" ELSE Result(t, "ok")
               /\ n \notin 1..pool => attempt'[t][n] = IF t = Background THEN attempt[t][n] ELSE "none"
               /\ conn'[n].closed = IF n \in O THEN FALSE ELSE conn[n].closed
    BY <2>2 DEF Begun
  <2>6. \A n \in Node : attempt'[t][n] \notin {"connErr", "broken"}
    <3>1. ASSUME NEW n \in Node
          PROVE  attempt'[t][n] \notin {"connErr", "broken"}
      <4>1. Result(t, "ok") \in {"none", "ok"}
        BY ResultIs
      <4>2. CASE n \in 1..pool
        BY <2>5, <4>1, <4>2
      <4>3. CASE n \notin 1..pool
        BY <1>0, <2>5, <4>3
      <4> QED BY <4>2, <4>3
    <3> QED BY <3>1
  <2>7. Settled'
    BY <1>2, <2>3 DEF Beside, Nets
  <2>8. ConnectOK(t)'
    BY <2>4 DEF ConnectOK
  <2>9. \A n \in 1..pool : n \in C \/ n \in O
    <3>1. \A n \in 1..pool : n \in C \cup O <=> ~Alive(n)
      BY <2>2 DEF Begun
    <3> QED BY <1>4, <3>1 DEF AliveNodes
  <2>10. ASSUME NEW n \in steady'[t]
         PROVE  ReviveOK(t, n)'
    <3>1. n \in Node /\ n \in 1..pool
      BY <1>2, <2>3, <2>10 DEF Node
    <3>2. attempt'[t][n] = "closing" \/ (attempt'[t][n] = "opening" /\ ~conn'[n].closed)
      BY <2>5, <2>9, <3>1
    <3> QED BY <3>2 DEF ReviveOK
  <2>11. Mine(t)'
    BY <1>1, <1>2, <2>3, <2>4, <2>6, <2>7, <2>8, <2>10 DEF Mine
  <2> QED BY <1>0, <1>1, <2>3, <2>4, <2>11, StepDone DEF ConnectPlaces
<1>5. CASE Goes(t, "leaving") /\ Shut(t, {current})
  <2>1. {current} \in SUBSET Node
    BY <1>0
  <2>2. Beside(t) /\ steady'[t] = steady[t] /\ \A n \in Node : attempt'[t][n] \in {"none", "shutting", "ok"}
    BY <1>2, <1>5, <2>1, BesideShut
  <2>3. Moves(t) /\ pc'[t] = "leaving" /\ outcome'[t] = "none"
    BY <1>0, <1>2, <1>5, GoesTo DEF Places
  <2>4. Settled'
    BY <1>2, <2>2 DEF Beside, Nets
  <2>5. ConnectOK(t)'
    BY <2>3 DEF ConnectOK
  <2>6. \A n \in Node : attempt'[t][n] \notin {"connErr", "broken"}
    BY <2>2
  <2>7. Mine(t)'
    BY <1>1, <1>2, <2>2, <2>3, <2>4, <2>5, <2>6 DEF Mine
  <2> QED BY <1>0, <1>1, <2>2, <2>3, <2>7, StepDone DEF ConnectPlaces
<1> QED BY <1>3, <1>4, <1>5 DEF RandomNode

(* The pool was reconnected: a node that was steady is alive.               *)
LEMMA RevivingStep ==
    ASSUME IInv, NEW t \in Tasks, Reviving(t), Reports(t), UNCHANGED timedOut
    PROVE  IInv'
<1>0. TypeInv /\ Mine(t) /\ current \in Node /\ pool \in 0..N /\ steady \in [Tasks -> SUBSET Node]
  BY MineIs DEF IInv, TypeInv
<1>1. /\ pc[t] = "reviving" /\ UNCHANGED <<up, forbidding, aware, timedOut>>
      /\ pool' = pool /\ current' = current
      /\ \A n \in Node : attempt[t][n] \in Results \cup {"none"}
      /\ Forget(t) /\ Finish(t, IF AliveNodes # {} THEN "ok" ELSE "reconnectError")
      /\ UNCHANGED <<ctx, conn, detecting, steady>>
  BY DEF Reviving, Collected, poolVars
<1>2. AliveNodes = {} => steady[t] = {}
  <2> SUFFICES ASSUME NEW n \in steady[t]
               PROVE  n \in AliveNodes
    OBVIOUS
  <2>1. n \in Node /\ pool = N /\ ReviveOK(t, n)
    BY <1>0, <1>1 DEF Mine
  <2>2. attempt[t][n] = "ok"
    BY <1>1, <2>1 DEF ReviveOK, Results
  <2> QED BY <2>1, <2>2 DEF ReviveOK, Alive, AliveNodes, Node
<1>3. Moves(t) /\ pc'[t] = "idle" /\ outcome'[t] = IF AliveNodes # {} THEN "ok" ELSE "reconnectError"
  BY <1>0, <1>1, Finishes
<1>4. Beside(t) /\ (\A n \in Node : attempt'[t][n] = "none") /\ steady'[t] = steady[t]
  BY <1>0, <1>1, BesideForgets
<1>5. Mine(t)'
  BY <1>1, <1>2, <1>3, <1>4, MineIdle
<1> QED BY <1>0, <1>1, <1>3, <1>4, <1>5, StepDone DEF ConnectPlaces

(* close() begins.                                                          *)
LEMMA CloseStep ==
    ASSUME IInv, NEW t \in Tasks, Close(t), Reports(t), UNCHANGED timedOut
    PROVE  IInv'
<1>0. TypeInv /\ Mine(t) /\ current \in Node /\ pool \in 0..N /\ N \in Nat
  BY MineIs, PoolAssumption DEF IInv, TypeInv
<1>1. /\ pc[t] = "ending" /\ UNCHANGED <<up, forbidding, aware, timedOut>>
      /\ pool' = pool /\ current' = current /\ Goes(t, "closing") /\ Shut(t, 1..pool)
  BY DEF Close, poolVars
<1>2. /\ outcome[t] = "none" /\ steady[t] \subseteq Usable /\ Usable' = Usable
      /\ \A n \in Node : attempt[t][n] \in Results \cup {"none"}
  BY <1>0, <1>1 DEF Mine, Usable
<1>3. 1..pool \in SUBSET Node
  BY <1>0 DEF Node
<1>4. Beside(t) /\ steady'[t] = steady[t] /\ \A n \in Node : attempt'[t][n] \in {"none", "shutting", "ok"}
  BY <1>1, <1>2, <1>3, BesideShut
<1>5. Moves(t) /\ pc'[t] = "closing" /\ outcome'[t] = "none"
  BY <1>0, <1>1, <1>2, GoesTo DEF Places
<1>6. ConnectOK(t)'
  BY <1>5 DEF ConnectOK
<1>7. \A n \in Node : attempt'[t][n] \notin {"connErr", "broken"}
  BY <1>4
<1>8. steady[t] \subseteq Node
  BY <1>0 DEF TypeInv
<1>9. Mine(t)'
  BY <1>2, <1>4, <1>5, <1>6, <1>7, <1>8 DEF Mine
<1> QED BY <1>0, <1>1, <1>4, <1>5, <1>9, StepDone DEF ConnectPlaces

(* close() is over, and the pool empty.                                     *)
LEMMA ClosingStep ==
    ASSUME IInv, NEW t \in Tasks, Closing(t), Reports(t), UNCHANGED timedOut
    PROVE  IInv'
<1>0. TypeInv /\ Mine(t) /\ current \in Node /\ pool \in 0..N /\ N \in Nat
      /\ steady \in [Tasks -> SUBSET Node] /\ t \in Owners
  BY MineIs, NoOwner, PoolAssumption DEF IInv, TypeInv
<1>1. /\ pc[t] = "closing" /\ UNCHANGED <<up, forbidding, aware, timedOut>>
      /\ pool' = 0 /\ current' = current /\ Forget(t) /\ Finish(t, "ok")
      /\ UNCHANGED <<ctx, conn, detecting>> /\ steady' = Without(Node, t)
      /\ \A n \in Node : attempt[t][n] \in Results \cup {"none"}
  BY DEF Closing, Collected
<1>2. /\ steady' \in [Tasks -> SUBSET Node]
      /\ \A u \in Tasks : steady'[u] = IF u = t THEN steady[u] ELSE steady[u] \ Node
  BY <1>0, <1>1, Steadied
<1>3. /\ \A u \in Tasks : u # t => steady'[u] = {}
      /\ steady'[t] = steady[t]
      /\ \A u \in Tasks : u # t => steady'[u] \subseteq steady[u]
  BY <1>0, <1>2
<1>4. Beside(t) /\ \A n \in Node : attempt'[t][n] = "none"
  BY <1>1, <1>2, <1>3, BesideForgets
<1>5. Moves(t) /\ pc'[t] = "idle" /\ outcome'[t] = "ok"
  BY <1>0, <1>1, Finishes
<1>6. Mine(t)'
  BY <1>1, <1>3, <1>4, <1>5, MineIdle
<1>7. pool' \in 0..N
  BY <1>0, <1>1
<1> QED BY <1>0, <1>1, <1>3, <1>4, <1>5, <1>6, <1>7, StepDone DEF ConnectPlaces

-----------------------------------------------------------------------------
(* random_node() tries its list                                             *)

(* The list of random_node() holds every node of the pool, wherever it      *)
(* begins.                                                                  *)
LEMMA OrderCovers ==
    ASSUME pool \in 0..N, NEW first \in Nat, pool > 0 => first \in 1..pool
    PROVE  /\ Order(first) \in Seq(Node)
           /\ \A n \in 1..pool : \E k \in DOMAIN Order(first) : Order(first)[k] = n
<1>1. pool \in Nat /\ N \in Nat /\ DOMAIN Order(first) = 1..pool
  BY PoolAssumption DEF Order
<1>2. ASSUME NEW k \in 1..pool
      PROVE  Order(first)[k] \in Node
  BY <1>1, <1>2 DEF Order, Node
<1>3. Order(first) \in [1..pool -> Node]
  BY <1>1, <1>2 DEF Order
<1>4. Order(first) \in Seq(Node)
  BY <1>1, <1>3
<1>5. ASSUME NEW n \in 1..pool
      PROVE  \E k \in DOMAIN Order(first) : Order(first)[k] = n
  <2>1. CASE n >= first
    <3>1. n - first + 1 \in 1..pool /\ Order(first)[n - first + 1] = n
      BY <1>1, <1>5, <2>1 DEF Order
    <3> QED BY <1>1, <3>1
  <2>2. CASE n < first
    <3>1. n - first + 1 + pool \in 1..pool /\ Order(first)[n - first + 1 + pool] = n
      BY <1>1, <1>5, <2>2 DEF Order
    <3> QED BY <1>1, <3>1
  <2> QED BY <1>1, <1>5, <2>1, <2>2
<1> QED BY <1>4, <1>5

(* random_node() tries the next node of its list.                           *)
LEMMA TryStep ==
    ASSUME IInv, NEW t \in Tasks, pc[t] \in {"leaving", "scanning"}, NEW nodes \in Seq(Node), Try(t, nodes),
           \A n \in Node : attempt[t][n] \in Results \cup {"none"},
           \A n \in steady[t] : \E k \in DOMAIN nodes : nodes[k] = n,
           Reports(t), UNCHANGED <<up, forbidding, aware, timedOut, pool>>, current' \in Node
    PROVE  IInv'
<1>0. TypeInv /\ Mine(t) /\ t \in Owners /\ t # Background /\ pool \in 0..N /\ pool \in Nat
      /\ N \in Nat /\ steady \in [Tasks -> SUBSET Node]
  BY MineIs, NoOwner, PoolAssumption DEF IInv, TypeInv
<1>1. /\ Settled /\ ctx /\ outcome[t] = "none" /\ (pool = N \/ steady[t] = {})
      /\ steady[t] \subseteq Usable /\ steady[t] \subseteq Node /\ Usable' = Usable
  BY <1>0 DEF Mine, Usable, Settled
<1>2. CASE \E result \in {"reconnectError", "indexError", "ok"} :
             /\ Finish(t, result) /\ Forget(t) /\ UNCHANGED <<ctx, conn, detecting, steady>>
             /\ result = "reconnectError" => nodes = <<>>
  <2>1. PICK result \in {"reconnectError", "indexError", "ok"} :
             /\ Finish(t, result) /\ Forget(t) /\ UNCHANGED <<ctx, conn, detecting, steady>>
             /\ result = "reconnectError" => nodes = <<>>
    BY <1>2
  <2>2. Moves(t) /\ pc'[t] = "idle" /\ outcome'[t] = result
    BY <1>0, <2>1, Finishes
  <2>3. Beside(t) /\ (\A n \in Node : attempt'[t][n] = "none") /\ steady'[t] = steady[t]
    BY <1>0, <2>1, BesideForgets
  <2>4. result = "reconnectError" => steady[t] = {}
    BY <2>1
  <2>5. Mine(t)'
    BY <2>2, <2>3, <2>4, MineIdle
  <2> QED BY <1>0, <2>2, <2>3, <2>5, StepDone DEF ConnectPlaces
<1>3. CASE /\ nodes # <<>> /\ Head(nodes) <= pool /\ ~Alive(Head(nodes))
           /\ pc' = [pc EXCEPT ![t] = "scanning"] /\ order' = [order EXCEPT ![t] = Tail(nodes)]
           /\ Begin(t, {Head(nodes)}, "connect")
           /\ UNCHANGED outcome
  <2>1. PICK h \in Node : h = Head(nodes)
    BY <1>3
  <2>2. Tail(nodes) \in Seq(Node)
    BY <1>3
  <2>3. {h} \in SUBSET Node /\ Begin(t, {h}, "connect") /\ ~Alive(h)
    BY <1>3, <2>1
  <2>4. PICK O \in SUBSET Node : Begun(t, {h}, {}, O)
    <3>1. \E C, O \in SUBSET Node : Begun(t, {h}, C, O) /\ ("connect" = "connect" => C = {})
      BY <1>0, <2>3, Begins
    <3> QED BY <3>1
  <2>5. h \in O
    BY <2>3, <2>4 DEF Begun
  <2>6. Beside(t) /\ steady'[t] = steady[t]
    BY <1>1, <2>3, <2>4, BesideBegun
  <2>7. /\ attempt'[t][h] = "opening"
        /\ \A n \in Node : n # h => attempt'[t][n] = "none"
    <3>1. ASSUME NEW n \in Node
          PROVE  /\ n \in {h} => attempt'[t][n] = IF n \in {} THEN "closing" ELSE IF n \in O THEN "opening" ELSE Result(t, "ok")
                 /\ n \notin {h} => attempt'[t][n] = IF t = Background THEN attempt[t][n] ELSE "none"
      BY <2>4 DEF Begun
    <3> QED BY <1>0, <2>5, <3>1
  <2>8. pc'[t] = "scanning" /\ order'[t] = Tail(nodes) /\ outcome'[t] = "none"
    BY <1>0, <1>1, <1>3 DEF TypeInv
  <2>9. Moves(t)
    <3>1. pc' \in [Tasks -> Places] /\ \A u \in Tasks : u # t => pc'[u] = pc[u]
      BY <1>0, <1>3 DEF TypeInv, Places
    <3>2. order' \in [Tasks -> Seq(Node)] /\ \A u \in Tasks : u # t => order'[u] = order[u]
      BY <1>0, <1>3, <2>2 DEF TypeInv
    <3> QED BY <1>0, <1>3, <3>1, <3>2 DEF Moves, TypeInv
  <2>10. Settled'
    BY <1>1, <2>6 DEF Beside, Nets
  <2>11. ConnectOK(t)'
    BY <2>8 DEF ConnectOK
  <2>12. \A n \in Node : attempt'[t][n] \notin {"connErr", "broken"}
    BY <2>7
  <2>13. \A n \in steady'[t] : attempt'[t][n] # "none" \/ \E k \in DOMAIN order'[t] : order'[t][k] = n
    <3>1. ASSUME NEW n \in steady[t], n # h
          PROVE  \E k \in DOMAIN Tail(nodes) : Tail(nodes)[k] = n
      <4>1. PICK k \in DOMAIN nodes : nodes[k] = n
        OBVIOUS
      <4>2. k # 1
        BY <1>3, <2>1, <3>1, <4>1
      <4>3. /\ Len(nodes) \in Nat /\ k \in 1..Len(nodes) /\ DOMAIN Tail(nodes) = 1..(Len(nodes) - 1)
            /\ \A j \in 1..(Len(nodes) - 1) : Tail(nodes)[j] = nodes[j + 1]
        BY <1>3
      <4>4. k - 1 \in 1..(Len(nodes) - 1) /\ (k - 1) + 1 = k
        BY <4>2, <4>3
      <4> QED BY <4>1, <4>3, <4>4
    <3> QED BY <2>6, <2>7, <2>8, <3>1
  <2>14. Mine(t)'
    BY <1>1, <2>6, <2>7, <2>8, <2>10, <2>11, <2>12, <2>13 DEF Mine
  <2> QED BY <1>0, <2>6, <2>8, <2>9, <2>14, StepDone DEF ConnectPlaces
<1> QED BY <1>2, <1>3 DEF Try

(* The current node was closed, and the list begins.                        *)
LEMMA LeavingStep ==
    ASSUME IInv, NEW t \in Tasks, Leaving(t), Reports(t), UNCHANGED timedOut
    PROVE  IInv'
<1>0. TypeInv /\ Mine(t) /\ current \in Node /\ pool \in 0..N /\ pool \in Nat /\ N \in Nat \ {0}
  BY MineIs, PoolAssumption DEF IInv, TypeInv
<1>1. /\ pc[t] = "leaving" /\ UNCHANGED <<up, forbidding, aware, timedOut, pool>>
      /\ current' = IF current + 1 > pool THEN 1 ELSE current + 1
      /\ Try(t, Order(current'))
      /\ \A n \in Node : attempt[t][n] \in Results \cup {"none"}
  BY DEF Leaving, Collected
<1>2. PICK first \in Nat : first = IF current + 1 > pool THEN 1 ELSE current + 1
  BY <1>0 DEF Node
<1>3. current' = first /\ first \in Node /\ (pool > 0 => first \in 1..pool)
  BY <1>0, <1>1, <1>2 DEF Node
<1>4. /\ Order(first) \in Seq(Node)
      /\ \A n \in 1..pool : \E k \in DOMAIN Order(first) : Order(first)[k] = n
  BY <1>0, <1>3, OrderCovers
<1>5. \A n \in steady[t] : \E k \in DOMAIN Order(first) : Order(first)[k] = n
  <2>1. \A n \in steady[t] : n \in 1..pool
    BY <1>0, <1>1 DEF Mine, TypeInv, Node
  <2> QED BY <1>4, <2>1
<1>6. Try(t, Order(first))
  BY <1>1, <1>3
<1> QED BY <1>1, <1>3, <1>4, <1>5, <1>6, TryStep

(* What the node that was tried came to.                                    *)
LEMMA ScanningStep ==
    ASSUME IInv, NEW t \in Tasks, Scanning(t), Reports(t), UNCHANGED timedOut
    PROVE  IInv'
<1> DEFINE result == {attempt[t][n] : n \in Awaited(t)}
<1>0. TypeInv /\ Mine(t) /\ current \in Node /\ pool \in 0..N /\ steady \in [Tasks -> SUBSET Node]
      /\ order[t] \in Seq(Node)
  BY MineIs DEF IInv, TypeInv
<1>1. /\ pc[t] = "scanning" /\ UNCHANGED <<up, forbidding, aware, timedOut>>
      /\ pool' = pool /\ current' = current
      /\ \A n \in Node : attempt[t][n] \in Results \cup {"none"}
      /\ \/ /\ result # {"connErr"} /\ Finish(t, CHOOSE r \in result : TRUE)
            /\ Forget(t) /\ UNCHANGED <<ctx, conn, detecting, steady>>
         \/ result = {"connErr"} /\ Try(t, order[t])
  BY DEF Scanning, Collected, poolVars
<1>2. /\ \A n \in steady[t] : attempt[t][n] # "none" \/ \E k \in DOMAIN order[t] : order[t][k] = n
      /\ \E n \in Node : attempt[t][n] # "none"
      /\ \A n \in steady[t] : n \in Node /\ attempt[t][n] # "connErr"
  BY <1>0, <1>1 DEF Mine, TypeInv
<1>3. result # {} /\ \A r \in result : r \in Results
  <2>1. \A n \in Awaited(t) : n \in Node /\ attempt[t][n] # "none"
    BY DEF Awaited
  <2>2. Awaited(t) # {}
    BY <1>2 DEF Awaited
  <2> QED BY <1>1, <2>1, <2>2
<1>4. \A n \in Node : attempt[t][n] # "none" => attempt[t][n] \in result
  BY DEF Awaited
<1> HIDE DEF result
<1>5. CASE /\ Finish(t, CHOOSE r \in result : TRUE)
           /\ Forget(t) /\ UNCHANGED <<ctx, conn, detecting, steady>>
  <2>1. PICK r \in Results : Finish(t, r)
    BY <1>3, <1>5
  <2>2. Moves(t) /\ pc'[t] = "idle" /\ outcome'[t] = r
    BY <1>0, <2>1, Finishes
  <2>3. Beside(t) /\ (\A n \in Node : attempt'[t][n] = "none") /\ steady'[t] = steady[t]
    BY <1>0, <1>1, <1>5, BesideForgets
  <2>4. outcome'[t] # "reconnectError"
    BY <2>2 DEF Results
  <2>5. Mine(t)'
    BY <1>1, <2>2, <2>3, <2>4, MineIdle
  <2> QED BY <1>0, <1>1, <2>2, <2>3, <2>5, StepDone DEF ConnectPlaces
<1>6. CASE result = {"connErr"} /\ Try(t, order[t])
  <2>1. \A n \in steady[t] : \E k \in DOMAIN order[t] : order[t][k] = n
    BY <1>2, <1>4, <1>6
  <2> QED BY <1>0, <1>1, <1>6, <2>1, TryStep
<1> QED BY <1>1, <1>5, <1>6

(* A coroutine that runs keeps the invariant.                               *)
LEMMA RunsStep ==
    ASSUME IInv, NEW t \in Tasks, Runs(t)
    PROVE  IInv'
<1>1. Reports(t) /\ UNCHANGED timedOut
  BY DEF Runs, Reports
<1> QED BY <1>1, ConnectingStep, OpenedStep, GatheredStep, RegatheredStep, RandomNodeStep, LeavingStep,
           ScanningStep, RevivingStep, CloseStep, ClosingStep DEF Runs

(* A call that begins keeps the invariant.                                  *)
LEMMA CallStep ==
    ASSUME IInv, NEW t \in Tasks, Call(t)
    PROVE  IInv'
<1>0. TypeInv /\ WireInv /\ DetectInv /\ Mine(t) /\ t \in Owners /\ t # Background /\ pool \in 0..N /\ N \in Nat
  BY MineIs, NoOwner, PoolAssumption DEF IInv, TypeInv
<1>1. /\ pc[t] = "idle" /\ ~Connects
      /\ outcome' = [outcome EXCEPT ![t] = "none"]
      /\ steady' = [steady EXCEPT ![t] = Usable]
      /\ UNCHANGED <<up, forbidding, aware, ctx, attempt, detecting, order, connected>>
      /\ pool' = pool /\ current' = current
  BY DEF Call, poolVars
<1>2. PICK place \in {"connecting", "picking", "ending"} :
         /\ pc' = [pc EXCEPT ![t] = place]
         /\ \/ /\ place = "connecting" /\ pool = 0 /\ Quiet /\ (\A u \in Tasks : pc[u] = "idle")
               /\ conn' = [n \in Node |-> New] /\ timedOut' = FALSE
            \/ place = "picking" /\ connected /\ UNCHANGED <<conn, timedOut>>
            \/ place = "ending" /\ UNCHANGED <<conn, timedOut>>
  BY DEF Call
<1>3. Moves(t) /\ pc'[t] = place /\ outcome'[t] = "none" /\ steady'[t] = Usable
      /\ steady' \in [Tasks -> SUBSET Node] /\ \A u \in Tasks : u # t => steady'[u] = steady[u]
  <2>1. pc' \in [Tasks -> Places] /\ pc'[t] = place /\ \A u \in Tasks : u # t => pc'[u] = pc[u]
    BY <1>0, <1>2 DEF TypeInv, Places
  <2>2. /\ DOMAIN outcome' = Tasks /\ outcome'[t] = "none" /\ \A u \in Tasks : u # t => outcome'[u] = outcome[u]
    BY <1>0, <1>1 DEF TypeInv
  <2>3. /\ steady'[t] = Usable /\ steady' \in [Tasks -> SUBSET Node] /\ \A u \in Tasks : u # t => steady'[u] = steady[u]
    BY <1>0, <1>1 DEF TypeInv, Usable
  <2>4. order' = order /\ order \in [Tasks -> Seq(Node)]
    BY <1>0, <1>1 DEF TypeInv
  <2> QED BY <2>1, <2>2, <2>3, <2>4 DEF Moves
<1>4. /\ attempt' = attempt /\ \A n \in Node : attempt[t][n] = "none"
  BY <1>0, <1>1 DEF Mine
<1>5. Usable' = Usable /\ Usable \subseteq Node /\ (Settled' <=> Settled)
  BY <1>0, <1>1 DEF Usable, TypeInv, Settled
<1>6. CASE place = "connecting"
  <2>1. /\ pool = 0 /\ Quiet /\ \A u \in Tasks : pc[u] = "idle"
        /\ conn' = [n \in Node |-> New] /\ timedOut' = FALSE
    BY <1>2, <1>6
  <2>2. \A u \in Owners, n \in Node : attempt[u][n] = "none"
    BY <2>1 DEF Quiet, Awaited
  <2>3. detecting = {}
    <3>1. \A d \in detecting : d[1] \in Owners /\ d[2] \in Node
      BY <1>0 DEF TypeInv
    <3> QED BY <1>0, <2>2, <3>1 DEF DetectInv
  <2>4. \A n \in Node : conn'[n].transport = "none" /\ conn'[n].orphan = FALSE
    BY <2>1 DEF New
  <2>5. conn' \in [Node -> Connection]
    BY <2>1 DEF New, Connection
  <2>6. Nets
    <3>1. WireInv'
      BY <1>4, <2>2, <2>4, NoOwner DEF WireInv
    <3>2. DetectInv'
      BY <1>1, <2>3 DEF DetectInv
    <3> QED BY <1>5, <3>1, <3>2 DEF Nets
  <2>7. Beside(t)
    <3>1. OtherAttempts(t)
      BY <1>4 DEF OtherAttempts
    <3>2. OtherSteady(t)
      BY <1>3, <1>4, <2>1 DEF OtherSteady
    <3>3. Wires
      BY <2>4 DEF Wires
    <3>4. NetTypes
      BY <1>0, <1>1, <1>3, <2>5 DEF NetTypes, TypeInv
    <3> QED BY <2>6, <3>1, <3>2, <3>3, <3>4 DEF Beside
  <2>8. TypeInv'
    BY <1>0, <1>1, <1>3, <2>1, <2>5 DEF TypeInv, Moves
  <2>9. ContextInv'
    <3>1. \A n \in Node : attempt'[Background][n] = "none" /\ conn'[n].transport # "ready" /\ ~conn'[n].orphan
      BY <1>4, <2>2, <2>4, NoOwner
    <3> QED BY <3>1 DEF ContextInv
  <2>10. Mine(t)'
    <3>1. ConnectOK(t)'
      <4>1. \A n \in steady'[t] : n > pool'
        BY <1>1, <1>3, <1>5, <2>1 DEF Node
      <4>2. \A n \in Node : attempt'[Background][n] = "none"
        BY <1>4, <2>2, NoOwner
      <4> QED BY <1>1, <1>3, <1>6, <2>3, <2>4, <4>1, <4>2 DEF ConnectOK
    <3> QED BY <1>3, <1>4, <1>5, <1>6, <3>1 DEF Mine
  <2>11. ~connected'
    BY <1>0, <1>1, <2>1, PoolAssumption DEF IInv, CallInv
  <2> QED BY <1>0, <1>1, <1>3, <2>1, <2>7, <2>8, <2>9, <2>10, <2>11, TaskRest DEF ConnectPlaces
<1>7. CASE place # "connecting"
  <2>1. UNCHANGED <<conn, timedOut>> /\ place \in {"picking", "ending"} /\ (place = "picking" => connected)
    BY <1>2, <1>7
  <2>2. Beside(t)
    <3>1. Nets
      BY <1>0, <1>1, <2>1, NetSame
    <3>2. OtherAttempts(t) /\ Wires
      BY <1>4, <2>1 DEF OtherAttempts, Wires
    <3>3. OtherSteady(t)
      BY <1>3, <1>4, <2>1 DEF OtherSteady
    <3>4. NetTypes
      BY <1>0, <1>1, <1>3, <2>1 DEF NetTypes, TypeInv
    <3> QED BY <3>1, <3>2, <3>3, <3>4 DEF Beside
  <2>3. TypeInv'
    BY <1>0, <1>1, <1>3, <2>1 DEF TypeInv, Moves
  <2>4. ContextInv'
    BY <1>4, <1>5, <2>1 DEF IInv, ContextInv
  <2>5. Mine(t)'
    <3>1. ConnectOK(t)'
      BY <1>3, <2>1 DEF ConnectOK
    <3>2. place = "picking" => Settled /\ pool = N
      BY <2>1 DEF IInv, CallInv
    <3> QED BY <1>1, <1>3, <1>4, <1>5, <2>1, <3>1, <3>2 DEF Mine
  <2>6. \A u \in Tasks : pc[u] \notin ConnectPlaces
    BY <1>1 DEF Connects, ConnectPlaces
  <2> QED BY <1>0, <1>1, <1>3, <2>1, <2>2, <2>3, <2>4, <2>5, <2>6, TaskRest DEF ConnectPlaces
<1> QED BY <1>6, <1>7

-----------------------------------------------------------------------------
(* The theorems                                                             *)

(* The invariant holds at first.                                            *)
LEMMA InitStep == Init => IInv
<1> SUFFICES ASSUME Init
             PROVE  IInv
  OBVIOUS
<1>0. /\ up \subseteq Node /\ ctx = FALSE /\ pool = 0 /\ current = 1 /\ N \in Nat \ {0}
      /\ conn = [n \in Node |-> New] /\ attempt = [u \in Owners |-> [n \in Node |-> "none"]] /\ detecting = {}
      /\ pc = [t \in Tasks |-> "idle"] /\ order = [t \in Tasks |-> <<>>] /\ outcome = [t \in Tasks |-> "none"]
      /\ steady = [t \in Tasks |-> {}] /\ timedOut = FALSE /\ connected = FALSE /\ aware \in BOOLEAN
  BY PoolAssumption DEF Init
<1>1. TypeInv
  <2>1. conn \in [Node -> Connection]
    BY <1>0 DEF New, Connection
  <2>2. /\ attempt \in [Owners -> [Node -> Stages]] /\ pc \in [Tasks -> Places] /\ order \in [Tasks -> Seq(Node)]
        /\ DOMAIN outcome = Tasks /\ steady \in [Tasks -> SUBSET Node]
    BY <1>0 DEF Stages, Places
  <2>3. pool \in 0..N /\ current \in Node
    BY <1>0 DEF Node
  <2> QED BY <1>0, <2>1, <2>2, <2>3 DEF TypeInv
<1>2. /\ \A u \in Owners, n \in Node : attempt[u][n] = "none"
      /\ \A n \in Node : conn[n].transport = "none" /\ conn[n].orphan = FALSE
      /\ \A t \in Tasks : pc[t] = "idle" /\ outcome[t] = "none" /\ steady[t] = {}
  BY <1>0 DEF New
<1>3. PlaceInv /\ WireInv /\ DetectInv
  <2>1. PlaceInv
    BY <1>2, NoOwner DEF PlaceInv
  <2>2. WireInv
    BY <1>2, NoOwner DEF WireInv
  <2>3. DetectInv
    BY <1>0 DEF DetectInv
  <2> QED BY <2>1, <2>2, <2>3
<1>4. CallInv
  BY <1>0, <1>2 DEF CallInv
<1>5. SteadyInv /\ ConnectInv /\ ContextInv /\ ReviveInv /\ ScanInv /\ GivesUp
  <2>1. SteadyInv
    BY <1>2 DEF SteadyInv
  <2>2. ConnectInv
    BY <1>2 DEF ConnectInv, ConnectOK
  <2>3. ContextInv
    BY <1>2, NoOwner DEF ContextInv
  <2>4. ReviveInv /\ ScanInv /\ GivesUp
    BY <1>2 DEF ReviveInv, ScanInv, GivesUp
  <2> QED BY <2>1, <2>2, <2>3, <2>4
<1> QED BY <1>1, <1>3, <1>4, <1>5 DEF IInv

(* A step that changes nothing keeps it.                                    *)
LEMMA SameStep ==
    ASSUME IInv, UNCHANGED vars
    PROVE  IInv'
<1>1. /\ TypeInv' = TypeInv /\ PlaceInv' = PlaceInv /\ WireInv' = WireInv /\ DetectInv' = DetectInv
      /\ CallInv' = CallInv /\ SteadyInv' = SteadyInv
  BY DEF vars, poolVars, callVars, TypeInv, PlaceInv, WireInv, DetectInv, CallInv, SteadyInv, Settled, Connects, Usable
<1>2. /\ ConnectInv' = ConnectInv /\ ContextInv' = ContextInv /\ ReviveInv' = ReviveInv
      /\ ScanInv' = ScanInv /\ GivesUp' = GivesUp
  BY DEF vars, poolVars, callVars, ConnectInv, ConnectOK, ContextInv, ReviveInv, ReviveOK, ScanInv, GivesUp, Settled
<1> QED BY <1>1, <1>2 DEF IInv

(* Every step keeps it.                                                     *)
LEMMA NextStep ==
    ASSUME IInv, [Next]_vars
    PROVE  IInv'
<1>1. ASSUME NEW t \in Tasks, Call(t) \/ Runs(t)
      PROVE  IInv'
  BY <1>1, CallStep, RunsStep
<1>2. ASSUME NEW t \in Owners, NEW n \in Node, Attempt(t, n)
      PROVE  IInv'
  BY <1>2, AttemptStep
<1>3. ASSUME NEW n \in Node, Lost(n) \/ Reconnects(n) \/ NodeChanges(n)
      PROVE  IInv'
  BY <1>3, LostStep, ReconnectsStep, ChangesStep
<1> QED BY <1>1, <1>2, <1>3, UpdatedStep, SameStep DEF Next

(* In a state of the invariant an alive connection has its context.         *)
LEMMA AliveContext ==
    ASSUME IInv
    PROVE  AliveHaveContext
<1> SUFFICES ASSUME ~timedOut, NEW n \in AliveNodes, ~ctx
             PROVE  FALSE
  BY DEF AliveHaveContext
<1>1. n \in Node /\ conn[n].transport # "none" /\ conn[n].transport \in Owners \cup {"none", "ready"} /\ n \in 1..pool
      /\ pool \in Nat
  BY PoolAssumption DEF AliveNodes, Alive, IInv, TypeInv, Node, Connection
<1>2. detecting = {} /\ ~Settled
  BY DEF IInv, DetectInv, Settled
<1>3. attempt[Background][n] = "none" /\ conn[n].transport # "ready"
  BY <1>1, <1>2 DEF IInv, ContextInv
<1>4. PICK t \in Owners : conn[n].transport = t
  BY <1>1, <1>3
<1>5. attempt[t][n] = "shaking"
  BY <1>1, <1>4 DEF IInv, WireInv
<1>6. t \in Tasks
  BY <1>3, <1>5 DEF Owners
<1>7. pc[t] = "opened"
  <2>1. pc[t] \in Places
    BY <1>6 DEF IInv, TypeInv
  <2>2. pc[t] \notin {"idle", "connecting", "picking", "ending", "leaving", "closing"}
    BY <1>1, <1>5, <1>6 DEF IInv, PlaceInv
  <2>3. pc[t] \notin {"gathered", "regathered", "picking", "leaving", "scanning", "reviving"}
    BY <1>2, <1>6 DEF IInv, CallInv
  <2> QED BY <2>1, <2>2, <2>3 DEF Places
<1>8. attempt[t][n] \in {"none", "connErr"}
  BY <1>1, <1>6, <1>7, ConnectingRuns
<1> QED BY <1>5, <1>8

(* The invariant holds in every state.                                      *)
THEOREM Invariance == Spec => []IInv
<1>1. Init => IInv
  BY InitStep
<1>2. IInv /\ [Next]_vars => IInv'
  BY NextStep
<1> QED BY <1>1, <1>2, PTL DEF Spec

(* connect() and random_node() report that they could not connect only if   *)
(* each node was out of use at some time since the call began, or was       *)
(* closed by somebody else: no node that could have been used all the while *)
(* is left out of the list, given up during a reconnection, or lost to a    *)
(* context that another attempt took away.                                  *)
THEOREM LooksEverywhere == Spec => []GivesUp
<1>1. IInv => GivesUp
  BY DEF IInv
<1> QED BY <1>1, Invariance, PTL

(* However many attempts run at once and whichever of them fail, an alive   *)
(* connection of the pool never lacks the protocol context, unless a        *)
(* handshake timed out while the client was being connected.                *)
THEOREM ContextStays == Spec => []AliveHaveContext
<1>1. IInv => AliveHaveContext
  BY AliveContext
<1> QED BY <1>1, Invariance, PTL
=============================================================================
