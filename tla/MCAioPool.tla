----------------------------- MODULE MCAioPool -----------------------------
(* A small instance of AioPool. *)
EXTENDS AioPool
CONSTANTS
  MaxCalls,        \* bound: calls of all coroutines
  MaxEvents        \* bound: nodes that stop or start, losses, loaded mappings
VARIABLES calls, events
\* The coroutine that connects is always the same, as the two are alike.
bounds == <<calls, events>>
TwoTasks == {"t1", "t2"}
NoneOrLast == {{}, {N}}

\* A node that runs may fail to answer at any time; so all of them run at the start.
MCInit == Init /\ up = Node /\ calls = MaxCalls /\ events = MaxEvents
MCNext ==
  \/ calls > 0 /\ calls' = calls - 1 /\ UNCHANGED events /\ \E t \in Tasks : (connected \/ t = "t1") /\ Call(t)
  \/ /\ events > 0 /\ events' = events - 1 /\ UNCHANGED calls
     /\ (\E n \in Node : NodeChanges(n) \/ Lost(n)) \/ AffinityUpdated
  \/ /\ UNCHANGED bounds
     /\ \/ \E t \in Tasks : Runs(t)
        \/ \E t \in Owners, n \in Node : Attempt(t, n)
        \/ \E n \in Node : Reconnects(n)
\* Weaker than Fairness, and enough because calls and events are bounded.
MCFairness == WF_vars(\/ \E t \in Tasks : Runs(t)
                      \/ \E t \in Owners, n \in Node : Attempt(t, n)
                      \/ \E n \in Node : Reconnects(n))
MCSpec == MCInit /\ [][MCNext]_<<vars, bounds>> /\ MCFairness
=============================================================================
