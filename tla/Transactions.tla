---------------------------- MODULE Transactions ----------------------------
(****************************************************************************)
(* Client transactions: Transaction, AioTransaction and the context         *)
(* variable of tx_api.py that carries the current transaction of a thread   *)
(* or coroutine to every cache operation.                                   *)
(*                                                                          *)
(* A task is a thread or a coroutine.  A new coroutine has a copy of the    *)
(* context of the one that creates it.  A transaction is an object of the   *)
(* client and what its one start made on a node.                            *)
(****************************************************************************)
EXTENDS Naturals

CONSTANTS
    Task,         \* threads and coroutines
    Tx,           \* transactions (a bound)
    Conn,         \* connections of the client
    Id,           \* the ids nodes give to transactions
    None,         \* no transaction, id, connection or task
    Nesting,      \* a task may start a transaction within another
    MaxLosses     \* how often a connection is lost (a bound)

ASSUME ConstantsAssumption ==
    /\ None \notin Task \cup Tx \cup Conn \cup Id
    /\ Nesting \in BOOLEAN /\ MaxLosses \in Nat

VARIABLES
    ctxId,    \* TransactionContext.tx_id of __CURRENT_TX in each task
    ctxConn,  \* TransactionContext.conn, None when there is no context
    txId,     \* tx_id of each transaction
    closed,   \* the transactions whose closed is True
    stage,    \* how far the tx_end request of each task is
    ending,   \* the transaction the task is ending
    asked,    \* the committed argument of that request, as the fate asked for
    home,     \* the connection in whose present session a node knows the id
    fate,     \* the transaction on the node
    told,     \* what the request that ended the transaction came to
    latest,   \* the transaction a task started or inherited last
    ender,    \* the task that made the tx_end request for the transaction
    ends,     \* how many tx_end requests were made for the transaction
    reached,  \* the transactions which those requests ended
    mistaken, \* the transactions that a task took for each other by their id
    losses    \* how many connections were lost

ctxVars  == <<ctxId, ctxConn>>
objVars  == <<txId, closed>>
callVars == <<stage, ending, asked>>
nodeVars == <<home, fate>>
ghosts   == <<told, latest, ender, ends, reached, mistaken>>
vars     == <<ctxVars, objVars, callVars, nodeVars, ghosts, losses>>

(* What a transaction may be ended with.                                    *)
Ends == {"committed", "aborted"}

TypeOK ==
    /\ ctxId \in [Task -> Id \cup {None}]
    /\ ctxConn \in [Task -> Conn \cup {None}]
    /\ \A k \in Task : ctxId[k] = None <=> ctxConn[k] = None
    /\ txId \in [Tx -> Id \cup {None}]
    /\ closed \subseteq Tx
    /\ stage \in [Task -> {"idle", "sent", "done", "refused"}]
    /\ ending \in [Task -> Tx \cup {None}]
    /\ asked \in [Task -> Ends]
    /\ home \in [Tx -> Conn \cup {None}]
    /\ fate \in [Tx -> {"none", "active"} \cup Ends]
    /\ told \in [Tx -> {"nothing", "error"} \cup Ends]
    /\ latest \in [Task -> Tx \cup {None}]
    /\ ender \in [Tx -> Task \cup {None}]
    /\ ends \in [Tx -> Nat]
    /\ reached \in [Tx -> SUBSET Tx] /\ mistaken \subseteq Tx
    /\ losses \in 0..MaxLosses

Init ==
    /\ ctxId = [k \in Task |-> None] /\ ctxConn = [k \in Task |-> None]
    /\ txId = [t \in Tx |-> None] /\ closed = {}
    /\ stage = [k \in Task |-> "idle"] /\ ending = [k \in Task |-> None]
    /\ asked = [k \in Task |-> "aborted"]
    /\ home = [t \in Tx |-> None] /\ fate = [t \in Tx |-> "none"]
    /\ told = [t \in Tx |-> "nothing"] /\ latest = [k \in Task |-> None]
    /\ ender = [t \in Tx |-> None] /\ ends = [t \in Tx |-> 0]
    /\ reached = [t \in Tx |-> {}] /\ mistaken = {} /\ losses = 0

-----------------------------------------------------------------------------
(* The nodes                                                                *)

(* The transactions a node holds under an id in the session of a connection.*)
Holder(c, id) == {t \in Tx : home[t] = c /\ txId[t] = id /\ fate[t] = "active"}

(* A node numbers the transactions of each session by itself, so that those *)
(* of other nodes, and of earlier sessions, may have the same id.           *)
Fresh(c, id) == \A t \in Tx : home[t] = c => txId[t] # id

(* The node rolls back a transaction that has timed out; its id goes on     *)
(* being known.                                                             *)
TimesOut(t) ==
    /\ fate[t] = "active"
    /\ fate' = [fate EXCEPT ![t] = "aborted"]
    /\ UNCHANGED <<ctxVars, objVars, callVars, home, ghosts, losses>>

-----------------------------------------------------------------------------
(* The client                                                               *)

(* tx_start over a connection that random_node chose; the new context       *)
(* replaces whatever context there was.  A start that fails changes nothing.*)
Start(k, t) ==
    /\ stage[k] = "idle" /\ fate[t] = "none"
    /\ Nesting \/ ctxId[k] = None
    /\ \E c \in Conn, id \in Id :
        /\ Fresh(c, id)
        /\ ctxId' = [ctxId EXCEPT ![k] = id]
        /\ ctxConn' = [ctxConn EXCEPT ![k] = c]
        /\ txId' = [txId EXCEPT ![t] = id]
        /\ home' = [home EXCEPT ![t] = c]
    /\ fate' = [fate EXCEPT ![t] = "active"]
    /\ latest' = [latest EXCEPT ![k] = t]
    /\ UNCHANGED <<closed, callVars, told, ender, ends, reached, mistaken, losses>>

(* k creates a coroutine j, which starts with a copy of the context.        *)
Spawn(k, j) ==
    /\ stage[k] = "idle" /\ latest[k] # None
    /\ latest[j] = None
    /\ ctxId' = [ctxId EXCEPT ![j] = ctxId[k]]
    /\ ctxConn' = [ctxConn EXCEPT ![j] = ctxConn[k]]
    /\ latest' = [latest EXCEPT ![j] = latest[k]]
    /\ UNCHANGED <<objVars, callVars, nodeVars, told, ender, ends, reached, mistaken, losses>>

(* Mutant: whether there is a context is all that is looked at.             *)
AnyContext(k, t) == ctxId[k] # None

(* The test of tx_end, which looks at the id only.                          *)
Matches(k, t) == ctxId[k] # None /\ ctxId[k] = txId[t]

(* Mutant: the transaction counts as closed once its request was answered.  *)
CloseLater(t) == UNCHANGED closed

(* The task ends the transaction t while it is in another one of that id.   *)
Mistakes(k, t) == latest[k] # t /\ txId[latest[k]] = txId[t]

Close(t) == closed' = closed \cup {t}

(* commit(), rollback() or close(), also at the end of a with block, when   *)
(* the transaction is not closed; one that is closed is left alone, and the *)
(* call returns.                                                            *)
End(k, t, how) ==
    /\ stage[k] = "idle" /\ fate[t] # "none" /\ t \notin closed
    /\ Close(t)
    /\ \/ /\ Matches(k, t)
          /\ stage' = [stage EXCEPT ![k] = "sent"]
          /\ ending' = [ending EXCEPT ![k] = t]
          /\ asked' = [asked EXCEPT ![k] = how]
          /\ ender' = [ender EXCEPT ![t] = k]
          /\ ends' = [ends EXCEPT ![t] = @ + 1]
          /\ mistaken' = IF Mistakes(k, t) THEN mistaken \cup {t, latest[k]} ELSE mistaken
       \/ /\ ~Matches(k, t)
          /\ UNCHANGED <<callVars, ender, ends, mistaken>>
    /\ UNCHANGED <<ctxVars, txId, nodeVars, told, latest, reached, losses>>

(* The node that the context names ends the transaction it knows by the id, *)
(* or answers with an error.                                                *)
Serve(k) ==
    LET held == Holder(ctxConn[k], txId[ending[k]]) IN
    /\ stage[k] = "sent"
    /\ stage' = [stage EXCEPT ![k] = IF held = {} THEN "refused" ELSE "done"]
    /\ fate' = [t \in Tx |-> IF t \in held THEN asked[k] ELSE fate[t]]
    /\ reached' = [reached EXCEPT ![ending[k]] = @ \cup held]
    /\ UNCHANGED <<ctxVars, objVars, ending, asked, home, told, latest, ender, ends, mistaken, losses>>

(* Mutants: the id goes and the context stays; the context stays when the   *)
(* request raises; an error answered by the node is not raised.             *)
HalfReset(S) ==
    /\ ctxId' = [k \in Task |-> IF k \in S THEN None ELSE ctxId[k]]
    /\ UNCHANGED ctxConn
ResetOnSuccess(S) ==
    LET A == {k \in S : stage[k] = "done"} IN
    /\ ctxId' = [k \in Task |-> IF k \in A THEN None ELSE ctxId[k]]
    /\ ctxConn' = [k \in Task |-> IF k \in A THEN None ELSE ctxConn[k]]
StatusIgnored(k) == asked[k]

(* The finally clause of tx_end, in the tasks of S.                         *)
Reset(S) ==
    /\ ctxId' = [k \in Task |-> IF k \in S THEN None ELSE ctxId[k]]
    /\ ctxConn' = [k \in Task |-> IF k \in S THEN None ELSE ctxConn[k]]

(* What the call says of the answer it has: status_to_exception.            *)
Said(k) == IF stage[k] = "refused" THEN "error" ELSE asked[k]

Reply(k) ==
    /\ stage[k] \in {"done", "refused"}
    /\ Reset({k})
    /\ told' = [told EXCEPT ![ending[k]] = Said(k)]
    /\ stage' = [stage EXCEPT ![k] = "idle"]
    /\ ending' = [ending EXCEPT ![k] = None]
    /\ UNCHANGED <<objVars, asked, nodeVars, latest, ender, ends, reached, mistaken, losses>>

(* A connection is lost, and reconnected: the node rolls back what the      *)
(* session held, and every request under way over it raises.                *)
Lose(c) ==
    LET hit == {k \in Task : stage[k] # "idle" /\ ctxConn[k] = c} IN
    /\ losses < MaxLosses /\ losses' = losses + 1
    /\ home' = [t \in Tx |-> IF home[t] = c THEN None ELSE home[t]]
    /\ fate' = [t \in Tx |-> IF home[t] = c /\ fate[t] = "active"
                             THEN "aborted" ELSE fate[t]]
    /\ Reset(hit)
    /\ told' = [t \in Tx |-> IF \E k \in hit : ending[k] = t THEN "error" ELSE told[t]]
    /\ stage' = [k \in Task |-> IF k \in hit THEN "idle" ELSE stage[k]]
    /\ ending' = [k \in Task |-> IF k \in hit THEN None ELSE ending[k]]
    /\ UNCHANGED <<objVars, asked, latest, ender, ends, reached, mistaken>>

Next ==
    \/ \E k \in Task, t \in Tx : Start(k, t) \/ \E how \in Ends : End(k, t, how)
    \/ \E k, j \in Task : Spawn(k, j)
    \/ \E k \in Task : Serve(k) \/ Reply(k)
    \/ \E t \in Tx : TimesOut(t)
    \/ \E c \in Conn : Lose(c)

Spec == Init /\ [][Next]_vars

-----------------------------------------------------------------------------
(* Where a cache operation of a task goes: to the node of the context, with *)
(* its id, or, without a context, to any node and outside transactions.     *)
Outside(k) == ctxConn[k] = None
Within(k) == Holder(ctxConn[k], ctxId[k])

(* However many tasks share a transaction, and whichever of them commit it, *)
(* roll it back or leave its with block, one request at most ends it.       *)
EndsOnce == \A t \in Tx : ends[t] <= 1

(* The session in which the transaction was started still exists.           *)
Known(t) == home[t] # None

(* While the transaction a task started last is open, the operations of the *)
(* task do not run outside transactions (cache.py:182), whatever that task  *)
(* and others end or lose meanwhile, unless it was taken for another one of *)
(* its id (tx_api.py:82); and they run in it or are refused, unless it is   *)
(* lost with its session.                                                   *)
OperationsStay ==
    \A k \in Task : latest[k] # None /\ latest[k] \notin closed \cup mistaken =>
        /\ ~Outside(k)
        /\ Known(latest[k]) => Within(k) \subseteq {latest[k]}

(* When a task has ended its transaction, with success or with an error, it *)
(* is back outside transactions (tx_api.py:88).                             *)
ContextReleased ==
    \A k \in Task : stage[k] = "idle" /\ ~Outside(k) => ender[latest[k]] # k

(* A commit whose answer the client took for a success has committed a      *)
(* transaction, and this is the one that it was called on, unless a task    *)
(* took that for another of its id or its session was lost.                 *)
AnsweredCommit ==
    \A t \in Tx : told[t] = "committed" => \E u \in reached[t] :
        fate[u] = "committed" /\ (t \notin mistaken /\ Known(t) => u = t)

(* "Cannot commit transaction from different thread or coroutine"           *)
(* (tx_api.py:83): a call that ends a transaction ends no other one.        *)
EndsOwnTransaction == \A t \in Tx : reached[t] \subseteq {t}
=============================================================================
