------------------------- MODULE AioConnectionProofs -------------------------
(****************************************************************************)
(* Safety of one AioConnection for any number of requests, callers and      *)
(* transports, proved with TLAPS.                                           *)
(****************************************************************************)
EXTENDS AioConnection, TLAPS

(* A connection that is not marked failed forgets the protocol context only *)
(* before its first attempt.                                                *)
ContextInv ==
    ctx = "none" /\ ~failed => transport = None /\ \A k \in Task : pc[k] # "opening"

(* A registered request was issued, and an issued one was written to some   *)
(* transport.                                                               *)
SentInv == \A r \in Req :
    /\ r \in registered => fut[r] # "idle"
    /\ fut[r] # "idle" => sentOn[r] \in Transport

(* A transport that create_connection has not returned yet is awaited by    *)
(* one task only, so that a refusal ends no other transport.                *)
AttemptInv ==
    /\ \A k \in Task :
          pc[k] = "opening" /\ attempt[k] # None => tstate[attempt[k]] = "opening"
    /\ \A j, k \in Task :
          /\ j # k /\ pc[j] = "opening" /\ pc[k] = "opening"
          /\ attempt[j] # None
          => attempt[j] # attempt[k]

IInv == TypeOK /\ SentInv /\ AttemptInv /\ NoOrphanRequest /\ ContextInv

(* A transport whose loss is still to be handled.                           *)
Live(t) == tstate[t] \in {"open", "closing"}



(* The initial states satisfy the invariant.                                *)
LEMMA InitIInv == Init => IInv
<1> SUFFICES ASSUME Init PROVE IInv
  OBVIOUS
<1>1. TypeOK
  BY DEF Init, TypeOK
<1>2. SentInv /\ AttemptInv /\ NoOrphanRequest
  BY DEF Init, SentInv, AttemptInv, NoOrphanRequest
<1>3. ContextInv
  BY DEF Init, ContextInv
<1> QED BY <1>1, <1>2, <1>3 DEF IInv

(* Every step has one of the types: a coroutine starts or resumes, a        *)
(* transport reports, a request moves.                                      *)
LEMMA StartTypeOK ==
    ASSUME TypeOK, NEW k \in Task, Start(k)
    PROVE  TypeOK'
<1>1. CASE RunConnect(k)
  BY <1>1 DEF TypeOK, RunConnect, BeginConnect, OpenTransport, reqVars
<1>2. CASE RunReconnect(k)
  BY <1>2 DEF TypeOK, RunReconnect, CloseTransport, HasOpenTransport, reqVars
<1>3. CASE RunClose(k)
  BY <1>3 DEF TypeOK, RunClose, CloseTransport, HasOpenTransport, reqVars
<1>4. CASE RunAlive(k)
  BY <1>4 DEF TypeOK, RunAlive, Finish, connVars, reqVars, netVars
<1> QED BY <1>1, <1>2, <1>3, <1>4 DEF Start

LEMMA ResumeTypeOK ==
    ASSUME TypeOK, NEW k \in Task, Resume(k)
    PROVE  TypeOK'
<1>1. CASE CloseReturns(k)
  BY <1>1 DEF TypeOK, CloseReturns, WaitEnds, Finish, reqVars, netVars
<1>2. CASE ReconnectGoesOn(k)
  BY <1>2 DEF TypeOK, ReconnectGoesOn, WaitEnds, BeginConnect, OpenTransport, reqVars
<1>3. CASE Refused(k)
  BY <1>3 DEF TypeOK, Refused, FailConnect, Finish, reqVars
<1>4. CASE Connected(k)
  BY <1>4 DEF TypeOK, Connected, MakeConnection, reqVars
<1>5. CASE HandshakeTimeout(k)
  BY <1>5 DEF TypeOK, HandshakeTimeout, FailConnect, Finish, reqVars
<1>6. CASE HandshakeOk(k)
  BY <1>6 DEF TypeOK, HandshakeOk, FailConnect, Finish, reqVars, netVars
<1>7. CASE HandshakeFailed(k)
  BY <1>7 DEF TypeOK, HandshakeFailed, FailConnect, Finish, reqVars, netVars
<1>8. CASE HandshakeRejected(k)
  BY <1>8 DEF TypeOK, HandshakeRejected, CloseTransport, HasOpenTransport, reqVars
<1>9. CASE RejectedAtOnce(k)
  <2>1. CASE OpenTransport(k)
    BY <1>9, <2>1 DEF TypeOK, RejectedAtOnce, Reject, OpenTransport, Finish, reqVars
  <2>2. CASE ~OpenTransport(k)
    <3>1. Finish(k) /\ closed' = TRUE /\ UNCHANGED <<ctx, tstate>> /\ failed' = TRUE
      BY <1>9, <2>2 DEF RejectedAtOnce, Reject
    <3>2. UNCHANGED <<transport, closer, reqVars, hs, peer, woken>>
      BY <1>9 DEF RejectedAtOnce
    <3> QED BY <3>1, <3>2 DEF TypeOK, Finish, reqVars
  <2> QED BY <2>1, <2>2
<1>10. CASE RejectionClosed(k)
  <2>1. CASE OpenTransport(k)
    BY <1>10, <2>1 DEF TypeOK, RejectionClosed, WaitEnds, Reject, OpenTransport, Finish, reqVars
  <2>2. CASE ~OpenTransport(k)
    <3>1. Finish(k) /\ closed' = closed /\ UNCHANGED <<ctx, tstate>> /\ failed' = TRUE
      BY <1>10, <2>2 DEF RejectionClosed, Reject
    <3>2. woken' \subseteq Task /\ closer' = None /\ UNCHANGED <<transport, reqVars, hs, peer>>
      BY <1>10 DEF TypeOK, RejectionClosed, WaitEnds
    <3> QED BY <3>1, <3>2 DEF TypeOK, Finish, reqVars
  <2> QED BY <2>1, <2>2
<1> QED
  BY <1>1, <1>2, <1>3, <1>4, <1>5, <1>6, <1>7, <1>8, <1>9, <1>10 DEF Resume

LEMMA NetTypeOK ==
    ASSUME TypeOK, NEW t \in Transport, NetStep(t)
    PROVE  TypeOK'
<1>1. ASSUME NEW answer \in Replies, HandshakeReply(t, answer) PROVE TypeOK'
  <2>1. answer \in {"ok"} \cup Rejections
    BY ConstantsAssumption
  <2>2. /\ hs' \in [Transport -> {"pending", "ok", "error", "cancelled"} \cup Rejections]
        /\ tstate' \in [Transport -> {"unused", "opening", "open", "closing", "lost"}]
        /\ peer' \in [Transport -> {"none", "max", "server", "accepted", "refused"}]
    BY <1>1, <2>1 DEF TypeOK, HandshakeReply
  <2> QED BY <1>1, <2>2 DEF TypeOK, HandshakeReply, connVars, reqVars, taskVars
<1>2. CASE PeerClosed(t)
  BY <1>2 DEF TypeOK, PeerClosed, connVars, reqVars, taskVars
<1>3. CASE ConnectionLost(t)
  BY <1>3 DEF TypeOK, ConnectionLost, LoseTransport, FailPending
<1> QED BY <1>1, <1>2, <1>3 DEF NetStep

LEMMA ReqTypeOK ==
    ASSUME TypeOK, NEW r \in Req, ReqStep(r)
    PROVE  TypeOK'
BY DEF TypeOK, ReqStep, Issue, Send, CancelRequest, Response, Alive, HasOpenTransport,
       connVars, netVars, taskVars

(* A coroutine loses no transport whose loss is still to be handled.        *)
LEMMA StartKeepsLive ==
    ASSUME TypeOK, AttemptInv, NEW k \in Task, Start(k)
    PROVE  AttemptInv' /\ \A t \in Transport : Live(t) => Live(t)'
<1>1. CASE RunConnect(k)
  BY <1>1, ConstantsAssumption DEF TypeOK, AttemptInv, Live, RunConnect, BeginConnect, OpenTransport
<1>2. CASE RunReconnect(k)
  BY <1>2, ConstantsAssumption DEF TypeOK, AttemptInv, Live, RunReconnect, CloseTransport, HasOpenTransport
<1>3. CASE RunClose(k)
  BY <1>3, ConstantsAssumption DEF TypeOK, AttemptInv, Live, RunClose, CloseTransport, HasOpenTransport
<1>4. CASE RunAlive(k)
  BY <1>4, ConstantsAssumption DEF TypeOK, AttemptInv, Live, RunAlive, Finish, connVars, reqVars, netVars
<1> QED
  BY <1>1, <1>2, <1>3, <1>4 DEF Start

LEMMA ResumeKeepsLive ==
    ASSUME TypeOK, AttemptInv, NEW k \in Task, Resume(k)
    PROVE  AttemptInv' /\ \A t \in Transport : Live(t) => Live(t)'
<1>1. CASE CloseReturns(k)
  BY <1>1, ConstantsAssumption DEF TypeOK, AttemptInv, Live, CloseReturns, Finish, netVars
<1>2. CASE ReconnectGoesOn(k)
  BY <1>2, ConstantsAssumption DEF TypeOK, AttemptInv, Live, ReconnectGoesOn, BeginConnect, OpenTransport
<1>3. CASE Refused(k)
  <2>1. /\ pc[k] = "opening"
        /\ \A j \in Task : j # k => pc'[j] = pc[j] /\ attempt'[j] = attempt[j]
        /\ pc'[k] = "idle"
        /\ \A t \in Transport : t # attempt[k] => tstate'[t] = tstate[t]
    BY <1>3 DEF TypeOK, Refused, FailConnect, Finish
  <2>2. \A t \in Transport : t = attempt[k] => ~Live(t)
    BY <2>1, ConstantsAssumption DEF AttemptInv, Live, Task
  <2>3. \A t \in Transport : Live(t) => Live(t)'
    BY <2>1, <2>2 DEF Live
  <2>4. ASSUME NEW j \in Task, pc'[j] = "opening", attempt'[j] # None
        PROVE  tstate'[attempt'[j]] = "opening"
    <3>1. j # k /\ pc[j] = "opening" /\ attempt[j] # None /\ attempt'[j] = attempt[j]
      BY <2>1, <2>4
    <3>2. attempt[j] \in Transport /\ attempt[j] # attempt[k] /\ tstate[attempt[j]] = "opening"
      BY <2>1, <3>1 DEF TypeOK, AttemptInv
    <3> QED BY <2>1, <3>1, <3>2
  <2>5. \A i, j \in Task :
          i # j /\ pc'[i] = "opening" /\ pc'[j] = "opening" /\ attempt'[i] # None
            => attempt'[i] # attempt'[j]
    BY <2>1 DEF AttemptInv
  <2> QED BY <2>3, <2>4, <2>5 DEF AttemptInv
<1>4. CASE Connected(k)
  BY <1>4, ConstantsAssumption DEF TypeOK, AttemptInv, Live, Connected, MakeConnection
<1>5. CASE HandshakeTimeout(k)
  BY <1>5, ConstantsAssumption DEF TypeOK, AttemptInv, Live, HandshakeTimeout, FailConnect, Finish
<1>6. CASE HandshakeOk(k)
  BY <1>6, ConstantsAssumption DEF TypeOK, AttemptInv, Live, HandshakeOk, FailConnect, Finish, netVars
<1>7. CASE HandshakeFailed(k)
  BY <1>7, ConstantsAssumption DEF TypeOK, AttemptInv, Live, HandshakeFailed, FailConnect, Finish, netVars
<1>8. CASE HandshakeRejected(k)
  BY <1>8, ConstantsAssumption DEF TypeOK, AttemptInv, Live, HandshakeRejected, CloseTransport, HasOpenTransport
<1>9. CASE RejectedAtOnce(k)
  BY <1>9, ConstantsAssumption DEF TypeOK, AttemptInv, Live, RejectedAtOnce, Reject, OpenTransport, Finish
<1>10. CASE RejectionClosed(k)
  BY <1>10, ConstantsAssumption DEF TypeOK, AttemptInv, Live, RejectionClosed, Reject, OpenTransport, Finish
<1> QED
  BY <1>1, <1>2, <1>3, <1>4, <1>5, <1>6, <1>7, <1>8, <1>9, <1>10 DEF Resume

(* Coroutines touch no request.                                             *)
LEMMA CoroutineRequests ==
    ASSUME NEW k \in Task, Start(k) \/ Resume(k)
    PROVE  UNCHANGED reqVars
BY DEF Start, RunConnect, RunReconnect, RunClose, RunAlive, Resume, CloseReturns,
       ReconnectGoesOn, Refused, Connected, MakeConnection, HandshakeTimeout, HandshakeOk,
       HandshakeFailed, HandshakeRejected, RejectedAtOnce, RejectionClosed

LEMMA CoroutineStep ==
    ASSUME IInv, NEW k \in Task, Start(k) \/ Resume(k)
    PROVE  SentInv' /\ AttemptInv' /\ NoOrphanRequest'
<1>1. UNCHANGED <<registered, fut, sentOn>>
  BY CoroutineRequests DEF reqVars
<1>2. AttemptInv' /\ \A t \in Transport : Live(t) => Live(t)'
  BY StartKeepsLive, ResumeKeepsLive DEF IInv
<1>3. SentInv'
  BY <1>1 DEF IInv, SentInv
<1>4. NoOrphanRequest'
  BY <1>1, <1>2 DEF IInv, SentInv, NoOrphanRequest, Stuck, Live
<1> QED BY <1>2, <1>3, <1>4

(* The protocol context: a failed detection marks the connection failed in  *)
(* the step that forgets it, and an attempt always has one.                 *)
LEMMA CoroutineContext ==
    ASSUME IInv, NEW k \in Task, Start(k) \/ Resume(k)
    PROVE  ContextInv'
<1> USE DEF IInv, ContextInv, TypeOK
<1>1. CASE Start(k)
  BY <1>1 DEF Start, RunConnect, RunReconnect, RunClose, RunAlive, BeginConnect,
       OpenTransport, CloseTransport, HasOpenTransport, Finish, connVars
<1>2. CASE CloseReturns(k) \/ ReconnectGoesOn(k)
  BY <1>2 DEF CloseReturns, ReconnectGoesOn, BeginConnect, OpenTransport, Finish
<1>3. CASE Refused(k) \/ Connected(k) \/ HandshakeTimeout(k)
  BY <1>3 DEF Refused, Connected, MakeConnection, HandshakeTimeout, FailConnect, Finish
<1>4. CASE HandshakeOk(k) \/ HandshakeFailed(k)
  BY <1>4 DEF HandshakeOk, HandshakeFailed, FailConnect, Finish
<1>5. CASE HandshakeRejected(k) \/ RejectedAtOnce(k) \/ RejectionClosed(k)
  BY <1>5 DEF HandshakeRejected, RejectedAtOnce, RejectionClosed, Reject,
       OpenTransport, CloseTransport, HasOpenTransport, Finish
<1> QED BY <1>1, <1>2, <1>3, <1>4, <1>5 DEF Resume

LEMMA NetInv ==
    ASSUME IInv, NEW t \in Transport, NetStep(t)
    PROVE  SentInv' /\ AttemptInv' /\ NoOrphanRequest' /\ ContextInv'
<1>1. ASSUME NEW answer \in Replies, HandshakeReply(t, answer)
      PROVE  SentInv' /\ AttemptInv' /\ NoOrphanRequest' /\ ContextInv'
  <2>1. \A s \in Transport : Live(s) => Live(s)'
    BY <1>1 DEF IInv, TypeOK, HandshakeReply, Live
  <2>2. \A s \in Transport : tstate[s] = "opening" => tstate'[s] = "opening"
    BY <1>1 DEF IInv, TypeOK, HandshakeReply
  <2>3. UNCHANGED <<registered, fut, sentOn, transport, ctx, failed, pc, attempt>>
    BY <1>1 DEF HandshakeReply, connVars, reqVars, taskVars
  <2> QED BY <2>1, <2>2, <2>3
          DEF IInv, TypeOK, SentInv, AttemptInv, NoOrphanRequest, ContextInv, Stuck, Live
<1>2. CASE PeerClosed(t)
  <2>1. \A s \in Transport : Live(s) => Live(s)'
    BY <1>2 DEF IInv, TypeOK, PeerClosed, Live
  <2>2. \A s \in Transport : tstate[s] = "opening" => tstate'[s] = "opening"
    BY <1>2 DEF IInv, TypeOK, PeerClosed
  <2>3. UNCHANGED <<registered, fut, sentOn, transport, ctx, failed, pc, attempt>>
    BY <1>2 DEF PeerClosed, connVars, reqVars, taskVars
  <2> QED BY <2>1, <2>2, <2>3
          DEF IInv, TypeOK, SentInv, AttemptInv, NoOrphanRequest, ContextInv, Stuck, Live
<1>3. CASE ConnectionLost(t)
  <2>1. SentInv'
    BY <1>3 DEF IInv, TypeOK, SentInv, ConnectionLost, LoseTransport, FailPending
  <2>2. AttemptInv'
    BY <1>3 DEF IInv, TypeOK, AttemptInv, ConnectionLost, LoseTransport, FailPending
  <2>3. ContextInv'
    BY <1>3 DEF ContextInv, ConnectionLost, LoseTransport, FailPending
  <2>4. NoOrphanRequest'
    <3> SUFFICES ASSUME NEW r \in Req, fut'[r] = "pending"
                 PROVE  r \in registered' /\ \E q \in Stuck' : q < r
      BY DEF NoOrphanRequest
    <3>1. fut[r] = "pending" /\ r \in registered
      BY <1>3 DEF IInv, TypeOK, NoOrphanRequest, ConnectionLost, LoseTransport, FailPending
    <3>2. PICK s \in Stuck : ~(r < s)
      BY <1>3, <3>1 DEF IInv, TypeOK, ConnectionLost, LoseTransport, FailPending
    <3>3. s \in registered /\ fut[s] # "pending" /\ s \in Req
      BY <3>2 DEF Stuck, IInv, TypeOK
    <3>4. s < r
      BY <3>1, <3>2, <3>3, ConstantsAssumption DEF Req
    <3>5. registered' = registered /\ fut'[s] = fut[s]
      BY <1>3, <3>2, <3>3 DEF ConnectionLost, LoseTransport, FailPending
    <3> QED BY <3>1, <3>3, <3>4, <3>5 DEF Stuck
  <2> QED BY <2>1, <2>2, <2>3, <2>4
<1> QED BY <1>1, <1>2, <1>3 DEF NetStep

LEMMA ReqInv ==
    ASSUME IInv, NEW r \in Req, ReqStep(r)
    PROVE  SentInv' /\ AttemptInv' /\ NoOrphanRequest' /\ ContextInv'
<1> USE DEF IInv, TypeOK, SentInv, AttemptInv, NoOrphanRequest, ContextInv, Stuck
<1>1. CASE Issue(r)
  <2>1. UNCHANGED <<transport, ctx, failed, tstate, pc, attempt>>
    BY <1>1 DEF Issue, Send, connVars, netVars, taskVars
  <2>2. transport \in Transport /\ tstate[transport] = "open"
    BY <1>1 DEF Issue, Send, Alive, HasOpenTransport
  <2>3. /\ fut[r] = "idle" /\ fut'[r] = "pending" /\ sentOn'[r] = transport
        /\ registered' = registered \cup {r}
        /\ \A q \in Req : q # r => fut'[q] = fut[q] /\ sentOn'[q] = sentOn[q]
    BY <1>1 DEF Issue, Send
  <2>4. SentInv'
    BY <2>2, <2>3
  <2>5. Stuck \subseteq Stuck'
    BY <2>3
  <2>6. NoOrphanRequest'
    <3> SUFFICES ASSUME NEW q \in Req, fut'[q] = "pending"
                 PROVE  /\ q \in registered'
                        /\ tstate'[sentOn'[q]] \in {"open", "closing"} \/ \E p \in Stuck' : p < q
      BY DEF NoOrphanRequest
    <3>1. CASE q = r
      BY <2>1, <2>2, <2>3, <3>1
    <3>2. CASE q # r
      BY <2>1, <2>3, <2>5, <3>2
    <3> QED BY <3>1, <3>2
  <2> QED BY <2>1, <2>4, <2>6
<1>2. CASE CancelRequest(r)
  BY <1>2 DEF CancelRequest, connVars, netVars, taskVars
<1>3. CASE Response(r)
  BY <1>3 DEF Response, connVars, taskVars
<1> QED BY <1>1, <1>2, <1>3 DEF ReqStep

(* Every step of the tasks, the callbacks and the network keeps the         *)
(* invariant.                                                               *)
THEOREM Inductive == IInv /\ [Next]_vars => IInv'
<1> SUFFICES ASSUME IInv, [Next]_vars PROVE IInv'
  OBVIOUS
<1>1. ASSUME NEW k \in Task, Start(k) \/ Resume(k) PROVE IInv'
  BY <1>1, StartTypeOK, ResumeTypeOK, CoroutineStep, CoroutineContext DEF IInv
<1>2. ASSUME NEW t \in Transport, NetStep(t) PROVE IInv'
  BY <1>2, NetTypeOK, NetInv DEF IInv
<1>3. ASSUME NEW r \in Req, ReqStep(r) PROVE IInv'
  BY <1>3, ReqTypeOK, ReqInv DEF IInv
<1>4. CASE UNCHANGED vars
  BY <1>4 DEF vars, connVars, reqVars, netVars, taskVars, IInv, TypeOK, SentInv,
       AttemptInv, NoOrphanRequest, ContextInv, Stuck
<1> QED BY <1>1, <1>2, <1>3, <1>4 DEF Next

LEMMA Invariance == Spec => []IInv
BY InitIInv, Inductive, PTL DEF Spec

(* The variables keep their types.                                          *)
THEOREM TypeCorrect == Spec => []TypeOK
<1>1. IInv => TypeOK
  BY DEF IInv
<1> QED BY <1>1, Invariance, PTL

(* No request waits on a transport whose loss was handled already, unless   *)
(* an older request is done and still registered (process_connection_lost). *)
THEOREM NoOrphan == Spec => []NoOrphanRequest
<1>1. IInv => NoOrphanRequest
  BY DEF IInv
<1> QED BY <1>1, Invariance, PTL

(* An alive connection finds a protocol context (_connect's except clause). *)
THEOREM ContextKept == Spec => []AliveHasContext
<1>1. IInv => AliveHasContext
  BY ConstantsAssumption
     DEF IInv, TypeOK, ContextInv, AliveHasContext, Alive, HasOpenTransport
<1> QED BY <1>1, Invariance, PTL

(****************************************************************************)
(* close() outlasts the attempts it overtakes after they cleared _closed.   *)
(****************************************************************************)
Calm(t) == peer[t] # "max" /\ hs[t] # "version"

(* What a step that is no call to connect() or reconnect() keeps: task k    *)
(* moves alone, no transport gets a version to fall back to, and the        *)
(* highest version is not tried again.                                      *)
LEMMA ClosingFrame ==
    ASSUME TypeOK, Closing, closed' = TRUE,
           NEW k \in Task, PastReopening(k)',
           \A j \in Task \ {k} : pc'[j] = pc[j] /\ attempt'[j] = attempt[j],
           \A t \in Transport : Calm(t) => Calm(t)',
           ctx' = "max" => ctx = "max"
    PROVE  Closing'
<1>1. ASSUME NEW j \in Task, j # k PROVE PastReopening(j)'
  <2>1. PastReopening(j) /\ pc'[j] = pc[j] /\ attempt'[j] = attempt[j]
    BY <1>1 DEF Closing
  <2>2. attempt[j] # None => attempt[j] \in Transport
    BY <1>1 DEF TypeOK
  <2> QED BY <2>1, <2>2 DEF PastReopening, Calm
<1> QED BY <1>1 DEF Closing

LEMMA ClosingStart ==
    ASSUME TypeOK, Closing, NoCall, NEW k \in Task, Start(k)
    PROVE  Closing'
<1>1. pc[k] = "idle" /\ k \in Caller
  BY ConstantsAssumption
     DEF Closing, PastReopening, Start, RunConnect, RunReconnect, RunClose, RunAlive, Starts, Calls
<1>2. pc'[k] \in {"idle", "closing"}
  BY <1>1 DEF NoCall
<1>3. RunClose(k)
  BY <1>1, <1>2 DEF TypeOK, Start, RunConnect, RunReconnect, RunAlive, BeginConnect, OpenTransport
<1>4. closed' = TRUE /\ PastReopening(k)' /\ UNCHANGED <<ctx, hs, peer, attempt>>
  BY <1>2, <1>3 DEF RunClose, PastReopening
<1>5. \A j \in Task \ {k} : pc'[j] = pc[j]
  BY <1>3 DEF TypeOK, RunClose
<1> QED BY <1>4, <1>5, ClosingFrame DEF Calm

LEMMA ClosingResume ==
    ASSUME TypeOK, Closing, NEW k \in Task, Resume(k)
    PROVE  Closing'
<1> DEFINE Kept == /\ closed' = TRUE
                   /\ PastReopening(k)'
                   /\ \A j \in Task \ {k} : pc'[j] = pc[j] /\ attempt'[j] = attempt[j]
                   /\ \A t \in Transport : Calm(t) => Calm(t)'
                   /\ ctx' = "max" => ctx = "max"
<1> SUFFICES Kept
  BY ClosingFrame
<1>1. closed = TRUE /\ PastReopening(k)
  BY DEF Closing, TypeOK
<1>2. CASE CloseReturns(k)
  BY <1>1, <1>2 DEF TypeOK, CloseReturns, Finish, netVars, PastReopening, Calm
<1>3. CASE Refused(k)
  BY <1>1, <1>3 DEF TypeOK, Refused, FailConnect, Finish, PastReopening, Calm
<1>4. CASE Connected(k)
  BY <1>1, <1>4 DEF TypeOK, Connected, MakeConnection, PastReopening, Calm
<1>5. CASE HandshakeTimeout(k)
  BY <1>1, <1>5 DEF TypeOK, HandshakeTimeout, FailConnect, Finish, PastReopening, Calm
<1>6. CASE HandshakeOk(k)
  BY <1>1, <1>6 DEF TypeOK, HandshakeOk, FailConnect, Finish, netVars, PastReopening, Calm
<1>7. CASE HandshakeFailed(k)
  BY <1>1, <1>7 DEF TypeOK, HandshakeFailed, FailConnect, Finish, netVars, PastReopening, Calm
<1>8. CASE HandshakeRejected(k)
  BY <1>1, <1>8 DEF TypeOK, HandshakeRejected, PastReopening, Calm
<1>9. CASE RejectedAtOnce(k)
  <2>1. hs[attempt[k]] # "version"
    BY <1>1, <1>9 DEF RejectedAtOnce, PastReopening
  <2>2. closed' = TRUE /\ Finish(k) /\ UNCHANGED <<ctx, hs, peer>>
    BY <1>9, <2>1 DEF RejectedAtOnce, Reject
  <2> QED BY <2>2 DEF TypeOK, Finish, PastReopening, Calm
<1>10. CASE RejectionClosed(k)
  <2>1. hs[attempt[k]] # "version"
    BY <1>1, <1>10 DEF RejectionClosed, PastReopening
  <2>2. closed' = TRUE /\ Finish(k) /\ UNCHANGED <<ctx, hs, peer>>
    BY <1>1, <1>10, <2>1 DEF RejectionClosed, Reject
  <2> QED BY <2>2 DEF TypeOK, Finish, PastReopening, Calm
<1>11. ~ReconnectGoesOn(k)
  BY <1>1 DEF ReconnectGoesOn, PastReopening
<1> HIDE DEF Kept
<1> QED
  BY <1>2, <1>3, <1>4, <1>5, <1>6, <1>7, <1>8, <1>9, <1>10, <1>11 DEF Resume

LEMMA ClosingNet ==
    ASSUME TypeOK, Closing, NEW t \in Transport, NetStep(t)
    PROVE  Closing'
<1>1. closed' = TRUE /\ ctx' = ctx /\ pc' = pc /\ attempt' = attempt
  BY DEF TypeOK, Closing, NetStep, HandshakeReply, PeerClosed, ConnectionLost, LoseTransport, connVars, taskVars
<1>2. ASSUME NEW s \in Transport, Calm(s) PROVE Calm(s)'
  BY <1>2 DEF TypeOK, Calm, NetStep, HandshakeReply, PeerClosed, ConnectionLost, LoseTransport
<1>3. ASSUME NEW j \in Task PROVE PastReopening(j)'
  <2>1. PastReopening(j) /\ (attempt[j] # None => attempt[j] \in Transport)
    BY DEF Closing, TypeOK
  <2> QED BY <1>1, <1>2, <2>1 DEF PastReopening, Calm
<1> QED BY <1>1, <1>3 DEF Closing

(* close() is not undone by an attempt that cleared _closed before it, nor  *)
(* by any loss (_connect_version, process_connection_lost).                 *)
THEOREM CloseWins == Spec => CloseOutlasts
<1>1. ASSUME TypeOK, [Next]_vars, Closing, NoCall PROVE Closing'
  <2>1. ASSUME UNCHANGED <<closed, ctx, hs, peer, pc, attempt>> PROVE Closing'
    BY <1>1, <2>1 DEF Closing, PastReopening
  <2>2. ASSUME NEW r \in Req, ReqStep(r) PROVE Closing'
    BY <2>1, <2>2 DEF ReqStep, Issue, Send, CancelRequest, Response, connVars, netVars, taskVars
  <2>3. CASE UNCHANGED vars
    BY <2>1, <2>3 DEF vars, connVars, netVars, taskVars
  <2> QED BY <1>1, <2>2, <2>3, ClosingStart, ClosingResume, ClosingNet DEF Next
<1>2. IInv /\ [Next]_vars => [Closing /\ NoCall => Closing']_vars
  BY <1>1 DEF IInv
<1> QED BY <1>2, Invariance, PTL DEF Spec, CloseOutlasts

(* The exception of NoOrphanRequest is there for cancellations only.        *)
NothingStuck == Cancellable = {} => Stuck = {}

THEOREM NothingIsStuck == Spec => []NothingStuck
<1>1. Init => NothingStuck
  BY DEF Init, NothingStuck, Stuck
<1>2. IInv /\ NothingStuck /\ [Next]_vars => NothingStuck'
  <2> SUFFICES ASSUME IInv, NothingStuck, [Next]_vars, Cancellable = {} PROVE Stuck' = {}
    BY DEF NothingStuck
  <2>1. Stuck = {} /\ TypeOK
    BY DEF NothingStuck, IInv
  <2>2. ASSUME NEW k \in Task, Start(k) \/ Resume(k) PROVE Stuck' = {}
    BY <2>1, <2>2, CoroutineRequests DEF Stuck, reqVars
  <2>3. ASSUME NEW t \in Transport, NetStep(t) PROVE Stuck' = {}
    BY <2>1, <2>3 DEF NetStep, HandshakeReply, PeerClosed, ConnectionLost, LoseTransport, FailPending, Stuck, reqVars
  <2>4. ASSUME NEW r \in Req, ReqStep(r) PROVE Stuck' = {}
    BY <2>1, <2>4 DEF ReqStep, Issue, Send, CancelRequest, Response, Stuck, TypeOK
  <2>5. CASE UNCHANGED vars
    BY <2>1, <2>5 DEF vars, reqVars, Stuck
  <2> QED BY <2>2, <2>3, <2>4, <2>5 DEF Next
<1> QED BY <1>1, <1>2, Invariance, PTL DEF Spec

(****************************************************************************)
(* The connection implements RequestChannel when nothing is cancelled.      *)
(****************************************************************************)
Ended == {t \in Transport : tstate[t] = "lost"}

(* Of the coroutines, only a refused attempt ends a transport.              *)
LEMMA CoroutineEnds ==
    ASSUME IInv, NEW k \in Task, Start(k) \/ (Resume(k) /\ ~Refused(k))
    PROVE  Ended' = Ended
<1> USE DEF IInv, TypeOK, Ended
<1>1. CASE RunConnect(k)
  BY <1>1 DEF RunConnect, BeginConnect, OpenTransport
<1>2. CASE RunReconnect(k)
  BY <1>2 DEF RunReconnect, CloseTransport, HasOpenTransport
<1>3. CASE RunClose(k)
  BY <1>3 DEF RunClose, CloseTransport, HasOpenTransport
<1>4. CASE RunAlive(k)
  BY <1>4 DEF RunAlive, netVars
<1>5. CASE CloseReturns(k)
  BY <1>5 DEF CloseReturns, netVars
<1>6. CASE ReconnectGoesOn(k)
  BY <1>6 DEF ReconnectGoesOn, BeginConnect, OpenTransport
<1>7. CASE Connected(k)
  BY <1>7 DEF AttemptInv, Connected, MakeConnection
<1>8. CASE HandshakeTimeout(k)
  BY <1>8 DEF HandshakeTimeout
<1>9. CASE HandshakeOk(k)
  BY <1>9 DEF HandshakeOk, netVars
<1>10. CASE HandshakeFailed(k)
  BY <1>10 DEF HandshakeFailed, netVars
<1>11. CASE HandshakeRejected(k)
  BY <1>11 DEF HandshakeRejected, CloseTransport, HasOpenTransport
<1>12. CASE RejectedAtOnce(k)
  BY <1>12 DEF RejectedAtOnce, Reject, OpenTransport
<1>13. CASE RejectionClosed(k)
  BY <1>13 DEF RejectionClosed, Reject, OpenTransport
<1> QED
  BY <1>1, <1>2, <1>3, <1>4, <1>5, <1>6, <1>7, <1>8, <1>9, <1>10, <1>11, <1>12, <1>13 DEF Start, Resume

LEMMA StepImplements ==
    ASSUME IInv, Stuck = {}, Cancellable = {}, [Next]_vars
    PROVE  [Channel!Next]_(Channel!vars)
<1> DEFINE out == [r \in Req |-> IF fut[r] = "idle" THEN "none" ELSE
                                 IF fut[r] = "pending" THEN "waiting" ELSE fut[r]]
<1>0. Channel!Waiting = {r \in Req : fut[r] = "pending"}
  BY DEF Channel!Waiting, IInv, TypeOK
<1>1. ASSUME UNCHANGED reqVars, Ended' = Ended
      PROVE  UNCHANGED Channel!vars
  BY <1>1 DEF reqVars, Ended, Channel!vars
<1>2. ASSUME NEW k \in Task, Start(k) \/ Resume(k)
      PROVE  [Channel!Next]_(Channel!vars)
  <2>1. CASE ~Refused(k)
    BY <1>1, <1>2, <2>1, CoroutineEnds, CoroutineRequests
  <2>2. CASE Refused(k) /\ attempt[k] = None
    <3>1. tstate' = tstate
      BY <2>2, ConstantsAssumption DEF Refused, IInv, TypeOK, Task
    <3> QED BY <1>1, <1>2, <3>1, CoroutineRequests DEF Ended
  <2>3. CASE Refused(k) /\ attempt[k] # None
    <3>0. attempt[k] \in Transport /\ tstate[attempt[k]] = "opening"
      BY <2>3 DEF Refused, IInv, TypeOK, AttemptInv
    <3>1. PICK s \in Transport : s = attempt[k] /\ tstate[s] = "opening"
      BY <3>0
    <3>2. Ended' = Ended \cup {s} /\ UNCHANGED reqVars
      BY <2>3, <3>1 DEF Refused, Ended
    <3>3. \A r \in Req : fut[r] = "pending" => sentOn[r] # s
      BY <3>1 DEF IInv, NoOrphanRequest
    <3>4. Channel!Abort(s)
      BY <1>0, <3>1, <3>2, <3>3 DEF Ended, Channel!Abort, reqVars
    <3> QED BY <3>1, <3>4 DEF Channel!Next
  <2> QED BY <2>1, <2>2, <2>3
<1>3. ASSUME NEW t \in Transport, NetStep(t)
      PROVE  [Channel!Next]_(Channel!vars)
  <2>1. ASSUME NEW answer \in Replies, HandshakeReply(t, answer)
        PROVE  [Channel!Next]_(Channel!vars)
    BY <1>1, <2>1 DEF HandshakeReply, Ended, IInv, TypeOK
  <2>2. CASE PeerClosed(t)
    BY <1>1, <2>2 DEF PeerClosed, Ended, IInv, TypeOK
  <2>3. CASE ConnectionLost(t)
    <3>1. t \notin Ended /\ Ended' = Ended \cup {t}
      BY <2>3 DEF ConnectionLost, LoseTransport, FailPending, Ended, IInv, TypeOK
    <3>2. /\ \A r \in Req : fut'[r] = IF fut[r] = "pending" THEN "error" ELSE fut[r]
          /\ sentOn' = sentOn
      BY <2>3 DEF ConnectionLost, LoseTransport, FailPending, IInv, NoOrphanRequest
    <3>3. out' = [r \in Req |-> IF r \in Channel!Waiting THEN "error" ELSE out[r]]
      BY <1>0, <3>2
    <3>4. Channel!End(t)
      BY <3>1, <3>2, <3>3 DEF Channel!End, Ended
    <3> QED BY <3>4 DEF Channel!Next
  <2> QED BY <1>3, <2>1, <2>2, <2>3 DEF NetStep
<1>4. ASSUME NEW r \in Req, ReqStep(r)
      PROVE  [Channel!Next]_(Channel!vars)
  <2>1. CASE Issue(r)
    <3>1. transport \in Transport \ Ended /\ Ended' = Ended
      BY <2>1 DEF Issue, Send, Alive, HasOpenTransport, Ended, IInv, TypeOK, netVars
    <3>2. sentOn' = [sentOn EXCEPT ![r] = transport] /\ out[r] = "none"
      BY <2>1 DEF Issue, Send
    <3>3. out' = [out EXCEPT ![r] = "waiting"]
      BY <2>1 DEF Issue, Send, IInv, TypeOK
    <3>4. Channel!Send(r)
      BY <3>1, <3>2, <3>3 DEF Channel!Send, Ended
    <3> QED BY <3>4 DEF Channel!Next
  <2>2. CASE CancelRequest(r)
    BY <2>2 DEF CancelRequest
  <2>3. CASE Response(r)
    <3>1. fut[r] = "pending" /\ fut' = [fut EXCEPT ![r] = "result"] /\ sentOn' = sentOn
      BY <2>3 DEF Response, Stuck, IInv, TypeOK
    <3>2. sentOn[r] \notin Ended /\ Ended' = Ended
      BY <2>3, <3>1 DEF Response, Ended, Stuck
    <3>3. out' = [out EXCEPT ![r] = "result"]
      BY <3>1 DEF IInv, TypeOK
    <3>4. Channel!Answer(r)
      BY <3>1, <3>2, <3>3 DEF Channel!Answer, Channel!Waiting, Ended
    <3> QED BY <3>4 DEF Channel!Next
  <2> QED BY <1>4, <2>1, <2>2, <2>3 DEF ReqStep
<1>5. CASE UNCHANGED vars
  BY <1>1, <1>5 DEF vars, reqVars, netVars, Ended
<1> QED BY <1>2, <1>3, <1>4, <1>5 DEF Next

(* Without cancellations the connection takes the steps of RequestChannel:  *)
(* a request is answered at most once, on a session that has not ended, and *)
(* the end of a session leaves nobody waiting.                              *)
THEOREM Implementation == Cancellable = {} => (Spec => ImplementsSteps)
<1> SUFFICES ASSUME Cancellable = {} PROVE Spec => ImplementsSteps
  OBVIOUS
<1>1. Init => Channel!Init
  BY DEF Init, Channel!Init
<1>2. IInv /\ NothingStuck /\ [Next]_vars => [Channel!Next]_(Channel!vars)
  BY StepImplements DEF NothingStuck
<1> QED BY <1>1, <1>2, Invariance, NothingIsStuck, PTL DEF Spec, ImplementsSteps, Channel!Spec

=============================================================================
