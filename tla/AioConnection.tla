---------------------------- MODULE AioConnection ----------------------------
(****************************************************************************)
(* One pygridgain.connection.aio_connection.AioConnection object: the       *)
(* asyncio protocol callbacks of its transports (BaseProtocol) and the      *)
(* coroutines that connect, reconnect and close it, interleaved at their    *)
(* await points by the event loop.                                          *)
(*                                                                          *)
(* A request is identified by its query id; ids are issued in increasing    *)
(* order, which is also the insertion order of the _pending_reqs dict.      *)
(* A task is a coroutine: a Caller runs what the application awaits         *)
(* (connect, reconnect or close), and the task named after a transport is   *)
(* the one process_connection_lost may create when that transport is lost.  *)
(****************************************************************************)
EXTENDS Naturals

CONSTANTS
    NumReq,         \* how many requests are ever issued (a bound)
    Cancellable,    \* the requests whose awaiting task may be cancelled
    Caller,         \* coroutines of the application
    Transport,      \* the transports create_connection may return (a bound)
    None,           \* no transport, no task
    Replies         \* what a node may answer to a handshake

Req == 1..NumReq
Task == Caller \cup Transport
Rejections == {"version", "auth", "unsupported"}

ASSUME ConstantsAssumption ==
    /\ NumReq \in Nat
    /\ Cancellable \subseteq Req
    /\ Caller \cap Transport = {}
    /\ None \notin Task
    /\ Replies \subseteq {"ok"} \cup Rejections

VARIABLES
    failed,       \* BaseConnection._failed
    closed,       \* AioConnection._closed
    transport,    \* AioConnection._transport
    closer,       \* the task that created _transport_closed_fut
    ctx,          \* client.protocol_context: absent, of the highest version, or
                  \* of the version a node asked for
    registered,   \* keys of _pending_reqs
    fut,          \* state of the future of each request
    sentOn,       \* the transport a request was written to
    tstate,       \* state of each transport; "lost" once connection_lost has run
    hs,           \* handshake_fut of the protocol of each transport
    peer,         \* what the node has seen of the handshake of each transport
    pc,           \* where each task awaits
    woken,        \* tasks whose _transport_closed_fut was resolved
    attempt,      \* the transport whose handshake the task awaits
    detecting     \* detecting_protocol of the task's _connect

connVars == <<failed, closed, transport, closer, ctx>>
reqVars  == <<registered, fut, sentOn>>
netVars  == <<tstate, hs, peer>>
taskVars == <<pc, woken, attempt, detecting>>
vars     == <<connVars, reqVars, netVars, taskVars>>

TypeOK ==
    /\ failed \in BOOLEAN /\ closed \in BOOLEAN
    /\ transport \in Transport \cup {None}
    /\ closer \in Task \cup {None}
    /\ ctx \in {"none", "max", "server"}
    /\ registered \subseteq Req
    /\ fut \in [Req -> {"idle", "pending", "result", "error", "cancelled"}]
    /\ sentOn \in [Req -> Transport \cup {None}]
    /\ tstate \in [Transport -> {"unused", "opening", "open", "closing", "lost"}]
    /\ hs \in [Transport -> {"pending", "ok", "error", "cancelled"} \cup Rejections]
    /\ peer \in [Transport -> {"none", "max", "server", "accepted", "refused"}]
    /\ pc \in [Task -> {"idle", "ready", "closing", "reconnecting", "rejecting",
                        "opening", "handshake"}]
    /\ woken \subseteq Task
    /\ attempt \in [Task -> Transport \cup {None}]
    /\ detecting \in [Task -> BOOLEAN]

Init ==
    /\ failed = FALSE /\ closed = FALSE
    /\ transport = None /\ closer = None
    /\ ctx \in {"none", "server"}
    /\ registered = {}
    /\ fut = [r \in Req |-> "idle"]
    /\ sentOn = [r \in Req |-> None]
    /\ tstate = [t \in Transport |-> "unused"]
    /\ hs = [t \in Transport |-> "pending"]
    /\ peer = [t \in Transport |-> "none"]
    /\ pc = [k \in Task |-> "idle"]
    /\ woken = {}
    /\ attempt = [k \in Task |-> None]
    /\ detecting = [k \in Task |-> FALSE]

----------------------------------------------------------------------------
(* The properties closed and alive of the connection.                       *)

HasOpenTransport == transport # None /\ tstate[transport] = "open"
Alive == ~failed /\ ~closed /\ HasOpenTransport

(* The loop runs the coroutines that are ready before it polls for the next *)
(* network events and timers; a loss it has scheduled already, and what the *)
(* application calls, may come in between.                                  *)
Runnable(k) ==
    \/ pc[k] = "ready"
    \/ pc[k] = "handshake" /\ hs[attempt[k]] # "pending"
    \/ k \in woken

Polling == \A k \in Task : ~Runnable(k)

----------------------------------------------------------------------------
(* Pieces of the coroutines that run without an await in between.           *)

(* _close_transport up to its wait, for a current transport that is open.   *)
CloseTransport(k) ==
    /\ HasOpenTransport
    /\ tstate' = [tstate EXCEPT ![transport] = "closing"]
    /\ transport' = None
    /\ closer' = k

(* The end of the wait: a transport was lost, or one second has passed.     *)
WaitEnds(k) ==
    /\ k \in woken \/ Polling
    /\ woken' = woken \ {k}
    /\ closer' = None

(* The head of _connect_version: create_connection is awaited.  When the    *)
(* bound on transports is used up, every further attempt is refused.        *)
OpenTransport(k) ==
    /\ closed' = FALSE
    /\ pc' = [pc EXCEPT ![k] = "opening"]
    /\ \/ \E t \in Transport :
            /\ tstate[t] = "unused"
            /\ tstate' = [tstate EXCEPT ![t] = "opening"]
            /\ attempt' = [attempt EXCEPT ![k] = t]
       \/ /\ \A t \in Transport : tstate[t] # "unused"
          /\ attempt' = [attempt EXCEPT ![k] = None]
          /\ UNCHANGED tstate

(* _connect: choose the highest version first when none is known.           *)
BeginConnect(k) ==
    /\ detecting' = [detecting EXCEPT ![k] = (ctx = "none")]
    /\ ctx' = IF ctx = "none" THEN "max" ELSE ctx
    /\ OpenTransport(k)
    /\ UNCHANGED <<failed, transport, hs, peer>>

(* The task returns or raises to its caller, and its locals with it.        *)
Finish(k) ==
    /\ pc' = [pc EXCEPT ![k] = "idle"]
    /\ attempt' = [attempt EXCEPT ![k] = None]
    /\ detecting' = [detecting EXCEPT ![k] = FALSE]

(* Mutant of the next definition: the connection is not marked failed.      *)
FailUnmarked(k) ==
    /\ ctx' = IF detecting[k] THEN "none" ELSE ctx
    /\ Finish(k)
    /\ UNCHANGED <<failed, woken>>

(* _connect, except Exception: the detected protocol version is forgotten.  *)
FailConnect(k) ==
    /\ failed' = TRUE
    /\ ctx' = IF detecting[k] THEN "none" ELSE ctx
    /\ Finish(k)
    /\ UNCHANGED woken

(* What follows the close() of a rejected handshake, _closed being flag:    *)
(* _process_handshake_error and the except clauses of _connect.  The next   *)
(* version is tried unless the error is of another kind or the protocol     *)
(* context was reset meanwhile.                                             *)
Reject(k, flag) ==
    \/ /\ hs[attempt[k]] = "version" /\ ctx # "none"
       /\ ctx' = "server"
       /\ OpenTransport(k)
       /\ UNCHANGED <<failed, detecting>>
    \/ /\ hs[attempt[k]] # "version" \/ ctx = "none"
       /\ failed' = TRUE
       /\ closed' = flag
       /\ Finish(k)
       /\ UNCHANGED <<ctx, tstate>>

----------------------------------------------------------------------------
(* The coroutines.  The application calls connect(), reconnect() or close() *)
(* whenever it likes; process_connection_lost has made a task ready.        *)

Calls(k) == k \in Caller /\ pc[k] = "idle"
Starts(k) == Calls(k) \/ pc[k] = "ready"

(* connect() or _reconnect() on a connection that is alive returns at once. *)
RunAlive(k) ==
    /\ pc[k] = "ready"
    /\ Alive
    /\ Finish(k)
    /\ UNCHANGED <<connVars, reqVars, netVars, woken>>

(* connect(), or reconnect() when there is no transport to close.           *)
RunConnect(k) ==
    /\ ~Alive
    /\ Calls(k) \/ (Starts(k) /\ ~HasOpenTransport)
    /\ BeginConnect(k)
    /\ UNCHANGED <<closer, reqVars, woken>>

RunReconnect(k) ==
    /\ Starts(k) /\ ~Alive
    /\ CloseTransport(k)
    /\ pc' = [pc EXCEPT ![k] = "reconnecting"]
    /\ UNCHANGED <<failed, closed, ctx, reqVars, hs, peer, woken, attempt, detecting>>

RunClose(k) ==
    /\ Calls(k)
    /\ closed' = TRUE
    /\ \/ /\ CloseTransport(k)
          /\ pc' = [pc EXCEPT ![k] = "closing"]
       \/ /\ ~HasOpenTransport
          /\ UNCHANGED <<transport, closer, tstate, pc>>
    /\ UNCHANGED <<failed, ctx, reqVars, hs, peer, woken, attempt, detecting>>

(* _close_transport returns to close() or to _reconnect().                  *)
CloseReturns(k) ==
    /\ pc[k] = "closing"
    /\ WaitEnds(k)
    /\ Finish(k)
    /\ UNCHANGED <<failed, closed, transport, ctx, reqVars, netVars>>

ReconnectGoesOn(k) ==
    /\ pc[k] = "reconnecting"
    /\ WaitEnds(k)
    /\ BeginConnect(k)
    /\ UNCHANGED reqVars

(* create_connection raises: the node is unreachable.                       *)
Refused(k) ==
    /\ Polling /\ pc[k] = "opening"
    /\ tstate' = [t \in Transport |-> IF t = attempt[k] THEN "lost" ELSE tstate[t]]
    /\ FailConnect(k)
    /\ UNCHANGED <<closed, transport, closer, reqVars, hs, peer>>

(* connection_made sends the handshake and create_connection returns; the   *)
(* flag _closed is flag then.                                               *)
MakeConnection(k, flag) ==
    LET t == attempt[k] IN
    /\ Polling /\ pc[k] = "opening" /\ t # None
    /\ tstate' = [tstate EXCEPT ![t] = "open"]
    /\ transport' = t
    /\ hs' = [hs EXCEPT ![t] = IF ctx = "none" THEN "error" ELSE "pending"]
    /\ peer' = [peer EXCEPT ![t] = ctx]
    /\ pc' = [pc EXCEPT ![k] = "handshake"]
    /\ closed' = flag
    /\ UNCHANGED <<failed, closer, ctx, reqVars, woken, attempt, detecting>>

(* Mutant: _closed is cleared when the transport is there, not before.      *)
ConnectedReopens(k) == MakeConnection(k, FALSE)

Connected(k) == MakeConnection(k, closed)

(* Mutant: handshake_fut is awaited without a timeout.                      *)
NoHandshakeTimeout(k) == FALSE /\ pc[k] = "handshake" /\ UNCHANGED vars

(* asyncio.wait_for gives up after handshake_timeout: it cancels the future *)
(* and leaves the transport as it is.                                       *)
HandshakeTimeout(k) ==
    /\ Polling /\ pc[k] = "handshake"
    /\ hs' = [hs EXCEPT ![attempt[k]] = "cancelled"]
    /\ FailConnect(k)
    /\ UNCHANGED <<closed, transport, closer, reqVars, tstate, peer>>

(* The handshake future was resolved with a success: _on_handshake_success, *)
(* which raises when the protocol context has been reset meanwhile.         *)
HandshakeOk(k) ==
    /\ pc[k] = "handshake" /\ hs[attempt[k]] = "ok"
    /\ \/ /\ ctx # "none"
          /\ failed' = FALSE
          /\ Finish(k)
          /\ UNCHANGED <<ctx, woken>>
       \/ /\ ctx = "none"
          /\ FailConnect(k)
    /\ UNCHANGED <<closed, transport, closer, reqVars, netVars>>

HandshakeFailed(k) ==
    /\ pc[k] = "handshake" /\ hs[attempt[k]] = "error"
    /\ FailConnect(k)
    /\ UNCHANGED <<closed, transport, closer, reqVars, netVars>>

(* op_code 0: close() is awaited before the error is processed, and it      *)
(* closes the connection's current transport, whichever attempt opened it.  *)
HandshakeRejected(k) ==
    /\ pc[k] = "handshake" /\ hs[attempt[k]] \in Rejections
    /\ closed' = TRUE
    /\ CloseTransport(k)
    /\ pc' = [pc EXCEPT ![k] = "rejecting"]
    /\ UNCHANGED <<failed, ctx, reqVars, hs, peer, woken, attempt, detecting>>

(* The same when there is nothing to close: close() does not wait.          *)
RejectedAtOnce(k) ==
    /\ pc[k] = "handshake" /\ hs[attempt[k]] \in Rejections
    /\ ~HasOpenTransport
    /\ Reject(k, TRUE)
    /\ UNCHANGED <<transport, closer, reqVars, hs, peer, woken>>

RejectionClosed(k) ==
    /\ pc[k] = "rejecting"
    /\ WaitEnds(k)
    /\ Reject(k, closed)
    /\ UNCHANGED <<transport, reqVars, hs, peer>>

----------------------------------------------------------------------------
(* The callbacks of the protocols.                                          *)

(* data_received, the first response on a transport.  The node asks for     *)
(* another version only when the highest was offered.  A response read with *)
(* a protocol context other than the one it answers may not parse, and one  *)
(* read with none never does: the loop then closes the transport.  A        *)
(* response that comes after the timeout resolves nothing.                  *)
HandshakeReply(t, answer) ==
    /\ Polling /\ tstate[t] = "open" /\ peer[t] \in {"max", "server"}
    /\ answer = "version" => peer[t] = "max"
    /\ peer' = [peer EXCEPT ![t] = IF answer = "ok" THEN "accepted" ELSE "refused"]
    /\ \/ /\ hs[t] = "pending" /\ (answer = "ok" => ctx # "none")
          /\ hs' = [hs EXCEPT ![t] = answer]
          /\ UNCHANGED tstate
       \/ /\ hs[t] = "pending" /\ answer = "ok" /\ ctx # peer[t]
          /\ tstate' = [tstate EXCEPT ![t] = "closing"]
          /\ UNCHANGED hs
       \/ /\ hs[t] # "pending"
          /\ UNCHANGED <<hs, tstate>>
    /\ UNCHANGED <<connVars, reqVars, taskVars>>

(* The node closes the connection, or it breaks.                            *)
PeerClosed(t) ==
    /\ Polling /\ tstate[t] = "open"
    /\ tstate' = [tstate EXCEPT ![t] = "closing"]
    /\ UNCHANGED <<connVars, reqVars, hs, peer, taskVars>>

(* set_exception raises on a future that is done already; a cancelled       *)
(* request is one, since it stays in _pending_reqs.                         *)
Stuck == {r \in registered : fut[r] # "pending"}

(* connection_lost and process_connection_lost of transport t, where the    *)
(* futures become newFut.                                                   *)
LoseTransport(t, newFut) ==
    /\ tstate[t] = "closing"
    /\ tstate' = [tstate EXCEPT ![t] = "lost"]
    /\ hs' = [hs EXCEPT ![t] = IF hs[t] = "pending" THEN "error" ELSE hs[t]]
    /\ failed' = TRUE
    /\ fut' = newFut
    /\ registered' = IF Stuck = {} THEN {} ELSE registered
    /\ woken' = IF Stuck = {} THEN {k \in Task : k = closer} ELSE woken
    /\ pc' = IF Stuck = {} /\ hs[t] # "pending" /\ ~closed
             THEN [pc EXCEPT ![t] = "ready"] ELSE pc
    /\ UNCHANGED <<closed, transport, closer, ctx, sentOn, peer, attempt, detecting>>

(* The loop that fails the pending requests, in insertion order, ends at    *)
(* the first stuck one, and what follows the loop is then skipped.          *)
FailPending ==
    [r \in Req |->
        IF r \in registered /\ fut[r] = "pending" /\ \A s \in Stuck : r < s
        THEN "error" ELSE fut[r]]

(* Mutant: the pending requests are dropped without an exception.           *)
LostDropsPending(t) == LoseTransport(t, fut)

ConnectionLost(t) == LoseTransport(t, FailPending)

----------------------------------------------------------------------------
(* Requests.                                                                *)

(* _send(), when its caller finds the connection usable.                    *)
Send(r, usable) ==
    /\ fut[r] = "idle" /\ \A q \in Req : q < r => fut[q] # "idle"
    /\ usable
    /\ registered' = registered \cup {r}
    /\ fut' = [fut EXCEPT ![r] = "pending"]
    /\ sentOn' = [sentOn EXCEPT ![r] = transport]
    /\ UNCHANGED <<connVars, netVars, taskVars>>

(* Mutant: request() looks at the flags only, not at the transport's state. *)
IssueUnchecked(r) == Send(r, transport # None /\ ~closed)

(* request().                                                               *)
Issue(r) == Send(r, Alive)

(* The task that awaits the response is cancelled (asyncio.wait_for).       *)
CancelRequest(r) ==
    /\ r \in Cancellable /\ fut[r] = "pending"
    /\ fut' = [fut EXCEPT ![r] = "cancelled"]
    /\ UNCHANGED <<connVars, registered, sentOn, netVars, taskVars>>

(* process_message: the response to request r.  set_result raises when the  *)
(* future is done already, and the loop then closes the transport.          *)
Response(r) ==
    LET t == sentOn[r] IN
    /\ r \in registered
    /\ Polling /\ tstate[t] = "open" /\ peer[t] = "accepted"
    /\ \/ /\ fut[r] = "pending"
          /\ fut' = [fut EXCEPT ![r] = "result"]
          /\ registered' = registered \ {r}
          /\ UNCHANGED tstate
       \/ /\ fut[r] # "pending"
          /\ tstate' = [tstate EXCEPT ![t] = "closing"]
          /\ UNCHANGED <<fut, registered>>
    /\ UNCHANGED <<connVars, sentOn, hs, peer, taskVars>>

----------------------------------------------------------------------------

(* What runs when the application calls, or a task is first scheduled.      *)
Start(k) == RunConnect(k) \/ RunReconnect(k) \/ RunClose(k) \/ RunAlive(k)

(* What runs when the future a task awaits is resolved or times out.        *)
Resume(k) ==
    \/ CloseReturns(k) \/ ReconnectGoesOn(k)
    \/ Refused(k) \/ Connected(k)
    \/ HandshakeTimeout(k) \/ HandshakeOk(k) \/ HandshakeFailed(k)
    \/ HandshakeRejected(k) \/ RejectedAtOnce(k) \/ RejectionClosed(k)

NetStep(t) ==
    \/ \E answer \in Replies : HandshakeReply(t, answer)
    \/ PeerClosed(t)
    \/ ConnectionLost(t)

ReqStep(r) == Issue(r) \/ CancelRequest(r) \/ Response(r)

Next ==
    \/ \E k \in Task : Start(k) \/ Resume(k)
    \/ \E t \in Transport : NetStep(t)
    \/ \E r \in Req : ReqStep(r)

Spec == Init /\ [][Next]_vars

(* The event loop runs every coroutine that is ready, ends every wait whose *)
(* timeout has passed and delivers connection_lost; a node answers a        *)
(* request or the connection breaks.  Nothing makes a node answer a         *)
(* handshake or an application call anything.                               *)
Fairness ==
    /\ \A k \in Task : WF_vars(Resume(k))
    /\ \A t \in Transport : WF_vars(Start(t)) /\ WF_vars(ConnectionLost(t))
    /\ \A r \in Req : WF_vars(Response(r) \/ (fut[r] = "pending" /\ PeerClosed(sentOn[r])))

FairSpec == Spec /\ Fairness

----------------------------------------------------------------------------
(* Properties.                                                              *)

(* A request that waits is registered, and its transport is one whose loss  *)
(* is still to be handled, so that process_message or                       *)
(* process_connection_lost will resolve it.  The one exception is a request *)
(* behind an older one that is done and still registered, as a cancelled    *)
(* one is.                                                                  *)
NoOrphanRequest ==
    \A r \in Req : fut[r] = "pending" =>
        /\ r \in registered
        /\ tstate[sentOn[r]] \in {"open", "closing"} \/ \E q \in Stuck : q < r

(* A task whose attempt has cleared _closed already (_connect_version) and  *)
(* is not asked for another version, so that it will not clear it again.    *)
PastReopening(k) ==
    \/ pc[k] \in {"idle", "closing"}
    \/ pc[k] = "opening" /\ ctx # "max"
    \/ /\ pc[k] \in {"handshake", "rejecting"} /\ attempt[k] # None
       /\ peer[attempt[k]] # "max" /\ hs[attempt[k]] # "version"

Closing == closed /\ \A k \in Task : PastReopening(k)

(* Until the application calls connect() or reconnect().                    *)
NoCall == \A k \in Caller : pc[k] = "idle" => pc'[k] \in {"idle", "closing"}

(* close() and an attempt to connect that it overtakes: _connect_version    *)
(* clears _closed before it awaits the transport, so that an attempt which  *)
(* was there already when close() was called does not undo it, however its  *)
(* handshake ends, and no loss of any transport starts another.  (What is   *)
(* overtaken earlier, or has the version fallback before it, does.)         *)
CloseOutlasts == [][Closing /\ NoCall => Closing']_vars

(* Every request is answered or fails.                                      *)
RequestsResolve == \A r \in Req : fut[r] = "pending" ~> fut[r] # "pending"

(* connect(), close() and every reconnection come to an end: each wait in   *)
(* them has a timeout, and the protocol version fallback does not go round  *)
(* for ever.                                                                *)
CallsReturn == \A k \in Task : pc[k] # "idle" ~> pc[k] = "idle"

(* The protocol context is shared by every attempt, and a failed detection  *)
(* forgets it: it is never forgotten under a connection that another        *)
(* attempt has brought up.                                                  *)
AliveHasContext == Alive => ctx # "none"

(* The promise of RequestChannel: transports are its sessions.              *)
Channel == INSTANCE RequestChannel WITH
    Request <- Req, Session <- Transport, NoSession <- None,
    outcome <- [r \in Req |-> IF fut[r] = "idle" THEN "none" ELSE
                              IF fut[r] = "pending" THEN "waiting" ELSE fut[r]],
    session <- sentOn,
    ended <- {t \in Transport : tstate[t] = "lost"}

(* Without cancellations, every step of the connection is one of the        *)
(* channel or none.                                                         *)
ImplementsSteps == Channel!Spec

=============================================================================
