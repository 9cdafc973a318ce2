---------------------------- MODULE RequestChannel ----------------------------
(****************************************************************************)
(* What AioConnection.request promises to the coroutines that await it,     *)
(* whatever the handshakes, reconnections and closings underneath do: a     *)
(* request is written to one session; it is answered at most once, and only *)
(* while that session lives; and when a session ends, nobody is left        *)
(* waiting on it.                                                           *)
(****************************************************************************)
EXTENDS Naturals

CONSTANTS
    Request,     \* the requests
    Session,     \* the sessions a connection may have, one after another
    NoSession    \* a request not yet written to a session

VARIABLES
    outcome,     \* outcome of each request
    session,     \* the session each request was written to
    ended        \* the sessions that are over

vars == <<outcome, session, ended>>

Waiting == {r \in Request : outcome[r] = "waiting"}

Init ==
    /\ outcome = [r \in Request |-> "none"]
    /\ session = [r \in Request |-> NoSession]
    /\ ended = {}

(* A request goes to a session that is not over.                            *)
Send(r) ==
    /\ outcome[r] = "none"
    /\ \E s \in Session \ ended : session' = [session EXCEPT ![r] = s]
    /\ outcome' = [outcome EXCEPT ![r] = "waiting"]
    /\ UNCHANGED ended

Answer(r) ==
    /\ r \in Waiting /\ session[r] \notin ended
    /\ outcome' = [outcome EXCEPT ![r] = "result"]
    /\ UNCHANGED <<session, ended>>

(* The end of any session fails every waiting request, those of the other   *)
(* sessions included.  A session that carried no request may end too.       *)
End(s) ==
    /\ s \notin ended
    /\ ended' = ended \cup {s}
    /\ outcome' = [r \in Request |-> IF r \in Waiting THEN "error" ELSE outcome[r]]
    /\ UNCHANGED session

(* A connection attempt that never became a session ends without a trace.   *)
Abort(s) ==
    /\ s \notin ended /\ \A r \in Waiting : session[r] # s
    /\ ended' = ended \cup {s}
    /\ UNCHANGED <<outcome, session>>

Next ==
    \/ \E r \in Request : Send(r) \/ Answer(r)
    \/ \E s \in Session : End(s) \/ Abort(s)

Spec == Init /\ [][Next]_vars

=============================================================================
