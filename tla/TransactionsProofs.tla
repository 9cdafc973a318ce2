------------------------- MODULE TransactionsProofs -------------------------
(****************************************************************************)
(* What Transactions guarantees for any number of tasks, transactions,      *)
(* connections and losses.  The argument: a transaction is closed before    *)
(* its tx_end request is made, so one task at most makes it; that task has  *)
(* the transaction, or one of the same id, in its context until the request *)
(* is over; the context of a task is that of its latest transaction, unless *)
(* this was mistaken for one of its id; and in a session ids are distinct.  *)
(****************************************************************************)
EXTENDS Transactions, TLAPS

-----------------------------------------------------------------------------
(* The invariant                                                            *)

(* A transaction has an id once it was started, and only then is it known   *)
(* to anyone.                                                               *)
IdInv ==
    /\ \A t \in Tx : (fate[t] = "none") <=> (txId[t] = None)
    /\ \A k \in Task : latest[k] # None => fate[latest[k]] # "none"
    /\ \A k \in Task : ctxId[k] # None => latest[k] # None

(* Only what was started is closed, and no request was made for what is not *)
(* closed; the task that made one has had a transaction.                    *)
EndInv ==
    /\ \A t \in Tx : t \notin closed => ends[t] = 0 /\ ender[t] = None
    /\ \A t \in Tx : ends[t] <= 1 /\ (fate[t] = "none" => t \notin closed)
    /\ \A t \in Tx, k \in Task : ender[t] = k => latest[k] # None

(* A task that waits for the answer of tx_end is the one that closed its    *)
(* transaction, and still has it, or one of its id, in its context; an      *)
(* answer is told of closed transactions only.                              *)
CallInv ==
    /\ \A k \in Task : stage[k] # "idle" =>
          /\ ending[k] \in Tx
          /\ ending[k] \in closed /\ ender[ending[k]] = k
          /\ ctxId[k] # None /\ ctxId[k] = txId[ending[k]]
    /\ \A t \in Tx : told[t] # "nothing" => t \in closed

(* No two transactions of a session have the same id; a context is that of  *)
(* the latest transaction and of its session, if this is not over, and is   *)
(* there while that is open and was not mistaken for another; so a request  *)
(* is for the latest transaction, or one that was mistaken.                 *)
Unique ==
    \A t, u \in Tx : home[t] # None /\ home[t] = home[u] /\ txId[t] = txId[u] => t = u
CtxInv ==
    /\ Unique
    /\ \A k \in Task : ctxId[k] # None =>
          /\ ctxId[k] = txId[latest[k]]
          /\ home[latest[k]] # None => home[latest[k]] = ctxConn[k]
    /\ \A k \in Task : latest[k] # None /\ latest[k] \notin closed /\ latest[k] \notin mistaken =>
          ctxId[k] # None
    /\ \A k \in Task : stage[k] # "idle" /\ ending[k] \notin mistaken => ending[k] = latest[k]
    /\ \A k \in Task : stage[k] # "idle" => latest[k] \in closed \/ latest[k] \in mistaken

(* A request for t has reached a transaction and ended it that way, and it  *)
(* was t if nothing spoke against it.                                       *)
Done(t, how) ==
    \E u \in reached[t] : fate[u] = how /\ (t \notin mistaken /\ Known(t) => u = t)

(* What was served is what was asked, and what was answered was served.     *)
ServedInv ==
    /\ \A k \in Task : stage[k] = "done" => Done(ending[k], asked[k])
    /\ \A t \in Tx : told[t] = "committed" => Done(t, "committed")

(* An idle task with a context has not ended the transaction in it.         *)
ReleaseInv ==
    \A k \in Task : stage[k] = "idle" /\ ctxId[k] # None => ender[latest[k]] # k

BaseInv == TypeOK /\ IdInv /\ EndInv /\ CallInv
IInv == BaseInv /\ CtxInv /\ ServedInv /\ ReleaseInv

-----------------------------------------------------------------------------
(* What each action does, one task and one transaction at a time            *)

StartDoes(k, t) ==
    /\ stage[k] = "idle" /\ fate[t] = "none"
    /\ closed' = closed /\ stage' = stage /\ ending' = ending /\ asked' = asked
    /\ told' = told /\ ender' = ender /\ ends' = ends
    /\ ctxId'[k] # None /\ ctxId'[k] = txId'[t] /\ latest'[k] = t
    /\ \A j \in Task : j # k => ctxId'[j] = ctxId[j] /\ latest'[j] = latest[j]
    /\ \A u \in Tx : u # t => txId'[u] = txId[u] /\ fate'[u] = fate[u]
    /\ fate'[t] = "active"
    /\ \A j \in Task : j # k => ctxConn'[j] = ctxConn[j]
    /\ \A u \in Tx : u # t => home'[u] = home[u]
    /\ home'[t] # None /\ ctxConn'[k] = home'[t]
    /\ \A u \in Tx : home[u] = home'[t] => txId[u] # txId'[t]
    /\ reached' = reached /\ mistaken' = mistaken

EndDoes(k, t, how) ==
    /\ stage[k] = "idle" /\ fate[t] # "none" /\ t \notin closed
    /\ closed' = closed \cup {t}
    /\ ctxId' = ctxId /\ txId' = txId /\ fate' = fate /\ told' = told /\ latest' = latest
    /\ \A j \in Task : j # k =>
          stage'[j] = stage[j] /\ ending'[j] = ending[j] /\ asked'[j] = asked[j]
    /\ \A u \in Tx : u # t => ender'[u] = ender[u] /\ ends'[u] = ends[u]
    /\ \/ /\ ctxId[k] # None /\ ctxId[k] = txId[t]
          /\ stage'[k] = "sent" /\ ending'[k] = t /\ asked'[k] = how
          /\ ender'[t] = k /\ ends'[t] = ends[t] + 1
          /\ mistaken \subseteq mistaken'
          /\ Mistakes(k, t) => t \in mistaken' /\ latest[k] \in mistaken'
       \/ /\ stage'[k] = "idle" /\ ender'[t] = ender[t] /\ ends'[t] = ends[t]
          /\ mistaken' = mistaken
    /\ ctxConn' = ctxConn /\ home' = home /\ reached' = reached

SpawnDoes(k, j) ==
    /\ latest[k] # None /\ latest[j] = None
    /\ txId' = txId /\ closed' = closed /\ stage' = stage /\ ending' = ending
    /\ asked' = asked /\ fate' = fate /\ told' = told /\ ender' = ender /\ ends' = ends
    /\ ctxId'[j] = ctxId[k] /\ latest'[j] = latest[k]
    /\ \A i \in Task : i # j => ctxId'[i] = ctxId[i] /\ latest'[i] = latest[i]
    /\ ctxConn'[j] = ctxConn[k] /\ \A i \in Task : i # j => ctxConn'[i] = ctxConn[i]
    /\ home' = home /\ reached' = reached /\ mistaken' = mistaken

ServeDoes(k) ==
    /\ ctxId' = ctxId /\ txId' = txId /\ closed' = closed /\ ending' = ending
    /\ asked' = asked /\ told' = told /\ latest' = latest /\ ender' = ender /\ ends' = ends
    /\ stage[k] = "sent" /\ stage'[k] # "idle"
    /\ \A j \in Task : j # k => stage'[j] = stage[j]
    /\ \A t \in Tx : \/ fate'[t] = fate[t]
                     \/ /\ fate[t] = "active" /\ fate'[t] = asked[k]
                        /\ txId[t] = txId[ending[k]]
    /\ stage'[k] = "done" => \E u \in reached'[ending[k]] :
                                /\ home[u] = ctxConn[k] /\ txId[u] = txId[ending[k]]
                                /\ fate'[u] = asked[k]
    /\ \A t \in Tx : reached[t] \subseteq reached'[t]
    /\ ctxConn' = ctxConn /\ home' = home /\ mistaken' = mistaken

(* An answer ends the call of one task, a loss those of several.            *)
CallsOver(S) ==
    /\ txId' = txId /\ closed' = closed /\ asked' = asked
    /\ latest' = latest /\ ender' = ender /\ ends' = ends
    /\ \A k \in S : stage[k] # "idle" /\ stage'[k] = "idle" /\ ctxId'[k] = None
    /\ \A k \in Task \ S : /\ stage'[k] = stage[k] /\ ctxId'[k] = ctxId[k]
                           /\ ending'[k] = ending[k]
    /\ \A t \in Tx : \/ fate'[t] = fate[t]
                     \/ fate[t] = "active" /\ fate'[t] = "aborted"
    /\ \A t \in Tx : \/ told'[t] = told[t]
                     \/ \E k \in S : /\ ending[k] = t
                                     /\ \/ told'[t] = "error"
                                        \/ /\ stage[k] = "done" /\ fate' = fate
                                           /\ told'[t] = asked[k]
    /\ \A k \in Task \ S : ctxConn'[k] = ctxConn[k]
    /\ \A t \in Tx : home'[t] = home[t] \/ home'[t] = None
    /\ reached' = reached /\ mistaken' = mistaken

TimeoutDoes ==
    /\ ctxId' = ctxId /\ txId' = txId /\ closed' = closed /\ stage' = stage
    /\ ending' = ending /\ asked' = asked /\ told' = told /\ latest' = latest
    /\ ender' = ender /\ ends' = ends
    /\ ctxConn' = ctxConn /\ home' = home /\ reached' = reached /\ mistaken' = mistaken
    /\ \A t \in Tx : \/ fate'[t] = fate[t]
                     \/ fate[t] = "active" /\ fate'[t] = "aborted"

(* A start gives its task a context, with an id not given before.           *)
LEMMA StartEffect ==
    ASSUME TypeOK, NEW k \in Task, NEW t \in Tx, Start(k, t)
    PROVE  StartDoes(k, t)
<1>1. PICK c \in Conn, id \in Id :
          /\ Fresh(c, id)
          /\ ctxId' = [ctxId EXCEPT ![k] = id]
          /\ ctxConn' = [ctxConn EXCEPT ![k] = c]
          /\ txId' = [txId EXCEPT ![t] = id]
          /\ home' = [home EXCEPT ![t] = c]
  BY DEF Start
<1>2. /\ stage[k] = "idle" /\ fate[t] = "none"
      /\ closed' = closed /\ stage' = stage /\ ending' = ending /\ asked' = asked
      /\ told' = told /\ ender' = ender /\ ends' = ends
      /\ reached' = reached /\ mistaken' = mistaken
      /\ fate' = [fate EXCEPT ![t] = "active"]
      /\ latest' = [latest EXCEPT ![k] = t]
  BY DEF Start, callVars
<1>3. ctxId'[k] = id /\ txId'[t] = id /\ id # None /\ ctxConn'[k] = c /\ home'[t] = c /\ c # None
  BY <1>1, ConstantsAssumption DEF TypeOK
<1>4. \A u \in Tx : home[u] = c => txId[u] # id
  BY <1>1 DEF Fresh
<1>8. /\ \A j \in Task : j # k => ctxConn'[j] = ctxConn[j]
      /\ \A u \in Tx : u # t => home'[u] = home[u]
  BY <1>1 DEF TypeOK
<1>5. \A j \in Task : j # k => ctxId'[j] = ctxId[j] /\ latest'[j] = latest[j]
  BY <1>1, <1>2 DEF TypeOK
<1>6. \A u \in Tx : u # t => txId'[u] = txId[u] /\ fate'[u] = fate[u]
  BY <1>1, <1>2 DEF TypeOK
<1>7. latest'[k] = t /\ fate'[t] = "active"
  BY <1>2 DEF TypeOK
<1> QED BY <1>2, <1>3, <1>4, <1>5, <1>6, <1>7, <1>8 DEF StartDoes

(* A call closes the transaction, and makes a request for it or not.        *)
LEMMA EndEffect ==
    ASSUME TypeOK, NEW k \in Task, NEW t \in Tx, NEW how \in Ends, End(k, t, how)
    PROVE  EndDoes(k, t, how)
<1>1. /\ stage[k] = "idle" /\ fate[t] # "none" /\ t \notin closed
      /\ closed' = closed \cup {t}
      /\ ctxId' = ctxId /\ txId' = txId /\ fate' = fate /\ told' = told /\ latest' = latest
      /\ ctxConn' = ctxConn /\ home' = home /\ reached' = reached
  BY DEF End, Close, ctxVars, nodeVars
<1>2. CASE Matches(k, t)
  <2>1. /\ stage' = [stage EXCEPT ![k] = "sent"]
        /\ ending' = [ending EXCEPT ![k] = t]
        /\ asked' = [asked EXCEPT ![k] = how]
        /\ ender' = [ender EXCEPT ![t] = k]
        /\ ends' = [ends EXCEPT ![t] = @ + 1]
        /\ mistaken' = IF Mistakes(k, t) THEN mistaken \cup {t, latest[k]} ELSE mistaken
    BY <1>2 DEF End
  <2>2. \A j \in Task : j # k =>
            stage'[j] = stage[j] /\ ending'[j] = ending[j] /\ asked'[j] = asked[j]
    BY <2>1 DEF TypeOK
  <2>3. stage'[k] = "sent" /\ ending'[k] = t /\ asked'[k] = how
    BY <2>1 DEF TypeOK
  <2>4. /\ \A u \in Tx : u # t => ender'[u] = ender[u] /\ ends'[u] = ends[u]
        /\ ender'[t] = k /\ ends'[t] = ends[t] + 1
    BY <2>1 DEF TypeOK
  <2>5. ctxId[k] # None /\ ctxId[k] = txId[t]
    BY <1>2 DEF Matches
  <2>6. /\ mistaken \subseteq mistaken'
        /\ Mistakes(k, t) => t \in mistaken' /\ latest[k] \in mistaken'
    BY <2>1
  <2> QED BY <1>1, <2>2, <2>3, <2>4, <2>5, <2>6 DEF EndDoes
<1>3. CASE ~Matches(k, t)
  <2>1. /\ stage' = stage /\ ending' = ending /\ asked' = asked /\ ender' = ender /\ ends' = ends
        /\ mistaken' = mistaken
    BY <1>3 DEF End, callVars
  <2> QED BY <1>1, <2>1 DEF EndDoes
<1> QED BY <1>2, <1>3

(* A new coroutine has the context of its creator.                          *)
LEMMA SpawnEffect ==
    ASSUME TypeOK, NEW k \in Task, NEW j \in Task, Spawn(k, j)
    PROVE  SpawnDoes(k, j)
<1>1. /\ latest[k] # None /\ latest[j] = None
      /\ txId' = txId /\ closed' = closed /\ stage' = stage /\ ending' = ending
      /\ asked' = asked /\ fate' = fate /\ told' = told /\ ender' = ender /\ ends' = ends
      /\ home' = home /\ reached' = reached /\ mistaken' = mistaken
      /\ ctxId' = [ctxId EXCEPT ![j] = ctxId[k]]
      /\ ctxConn' = [ctxConn EXCEPT ![j] = ctxConn[k]]
      /\ latest' = [latest EXCEPT ![j] = latest[k]]
  BY DEF Spawn, objVars, callVars, nodeVars
<1>2. ctxId'[j] = ctxId[k] /\ latest'[j] = latest[k] /\ ctxConn'[j] = ctxConn[k]
  BY <1>1 DEF TypeOK
<1>4. \A i \in Task : i # j => ctxConn'[i] = ctxConn[i]
  BY <1>1 DEF TypeOK
<1>3. \A i \in Task : i # j => ctxId'[i] = ctxId[i] /\ latest'[i] = latest[i]
  BY <1>1 DEF TypeOK
<1> QED BY <1>1, <1>2, <1>3, <1>4 DEF SpawnDoes

(* A node ends what it holds under the id, and nothing else.                *)
LEMMA ServeEffect ==
    ASSUME TypeOK, NEW k \in Task, ending[k] \in Tx, Serve(k)
    PROVE  ServeDoes(k)
<1> DEFINE held == Holder(ctxConn[k], txId[ending[k]])
<1>1. /\ ctxId' = ctxId /\ txId' = txId /\ closed' = closed /\ ending' = ending
      /\ asked' = asked /\ told' = told /\ latest' = latest /\ ender' = ender /\ ends' = ends
      /\ stage[k] = "sent"
      /\ stage' = [stage EXCEPT ![k] = IF held = {} THEN "refused" ELSE "done"]
      /\ fate' = [t \in Tx |-> IF t \in held THEN asked[k] ELSE fate[t]]
      /\ reached' = [reached EXCEPT ![ending[k]] = @ \cup held]
      /\ ctxConn' = ctxConn /\ home' = home /\ mistaken' = mistaken
  BY DEF Serve, ctxVars, objVars
<1>2. \A t \in held : /\ t \in Tx /\ home[t] = ctxConn[k] /\ txId[t] = txId[ending[k]]
                      /\ fate[t] = "active"
  BY DEF Holder
<1> HIDE DEF held
<1>3. stage'[k] = IF held = {} THEN "refused" ELSE "done"
  BY <1>1 DEF TypeOK
<1>4. \A j \in Task : j # k => stage'[j] = stage[j]
  BY <1>1 DEF TypeOK
<1>5. \A t \in Tx : fate'[t] = IF t \in held THEN asked[k] ELSE fate[t]
  BY <1>1
<1>8. reached'[ending[k]] = reached[ending[k]] \cup held /\ \A t \in Tx : reached[t] \subseteq reached'[t]
  BY <1>1 DEF TypeOK
<1>6. stage'[k] = "done" => \E u \in reached'[ending[k]] :
         home[u] = ctxConn[k] /\ txId[u] = txId[ending[k]] /\ fate'[u] = asked[k]
  BY <1>2, <1>3, <1>5, <1>8
<1>7. stage'[k] # "idle"
  BY <1>3
<1> QED BY <1>1, <1>2, <1>4, <1>5, <1>6, <1>7, <1>8 DEF ServeDoes

(* An answer ends the call of one task.                                     *)
LEMMA ReplyEffect ==
    ASSUME TypeOK, NEW k \in Task, Reply(k)
    PROVE  CallsOver({k})
<1>1. /\ stage[k] \in {"done", "refused"}
      /\ txId' = txId /\ closed' = closed /\ asked' = asked /\ fate' = fate
      /\ latest' = latest /\ ender' = ender /\ ends' = ends
      /\ home' = home /\ reached' = reached /\ mistaken' = mistaken
      /\ ctxId' = [j \in Task |-> IF j \in {k} THEN None ELSE ctxId[j]]
      /\ ctxConn' = [j \in Task |-> IF j \in {k} THEN None ELSE ctxConn[j]]
      /\ stage' = [stage EXCEPT ![k] = "idle"]
      /\ ending' = [ending EXCEPT ![k] = None]
      /\ told' = [told EXCEPT ![ending[k]] = Said(k)]
  BY DEF Reply, Reset, objVars, nodeVars
<1>2. \A j \in {k} : stage[j] # "idle" /\ stage'[j] = "idle" /\ ctxId'[j] = None
  BY <1>1 DEF TypeOK
<1>3. \A j \in Task \ {k} : stage'[j] = stage[j] /\ ctxId'[j] = ctxId[j] /\ ending'[j] = ending[j]
  BY <1>1 DEF TypeOK
<1>4. ASSUME NEW t \in Tx
      PROVE  told'[t] = told[t] \/ (t = ending[k] /\ told'[t] = Said(k))
  BY <1>1 DEF TypeOK
<1>5. Said(k) = "error" \/ (stage[k] = "done" /\ Said(k) = asked[k])
  BY <1>1 DEF Said
<1>6. \A j \in Task \ {k} : ctxConn'[j] = ctxConn[j]
  BY <1>1
<1> QED BY <1>1, <1>2, <1>3, <1>4, <1>5, <1>6 DEF CallsOver

(* A loss ends the calls over one connection.                               *)
LEMMA LoseEffect ==
    ASSUME TypeOK, NEW c \in Conn, Lose(c)
    PROVE  \E S \in SUBSET Task : CallsOver(S)
<1> DEFINE hit == {k \in Task : stage[k] # "idle" /\ ctxConn[k] = c}
<1>1. /\ txId' = txId /\ closed' = closed /\ asked' = asked
      /\ latest' = latest /\ ender' = ender /\ ends' = ends
      /\ fate' = [t \in Tx |-> IF home[t] = c /\ fate[t] = "active"
                               THEN "aborted" ELSE fate[t]]
      /\ ctxId' = [k \in Task |-> IF k \in hit THEN None ELSE ctxId[k]]
      /\ ctxConn' = [k \in Task |-> IF k \in hit THEN None ELSE ctxConn[k]]
      /\ home' = [t \in Tx |-> IF home[t] = c THEN None ELSE home[t]]
      /\ reached' = reached /\ mistaken' = mistaken
      /\ told' = [t \in Tx |-> IF \E k \in hit : ending[k] = t THEN "error" ELSE told[t]]
      /\ stage' = [k \in Task |-> IF k \in hit THEN "idle" ELSE stage[k]]
      /\ ending' = [k \in Task |-> IF k \in hit THEN None ELSE ending[k]]
  BY DEF Lose, Reset, objVars
<1>2. hit \subseteq Task /\ \A k \in hit : stage[k] # "idle"
  OBVIOUS
<1> HIDE DEF hit
<1>3. \A t \in Tx : \/ fate'[t] = fate[t]
                    \/ fate[t] = "active" /\ fate'[t] = "aborted"
  BY <1>1
<1>4. \A t \in Tx : told'[t] = told[t] \/ \E k \in hit : ending[k] = t /\ told'[t] = "error"
  BY <1>1
<1>9. /\ \A k \in Task \ hit : ctxConn'[k] = ctxConn[k]
      /\ \A t \in Tx : home'[t] = home[t] \/ home'[t] = None
  BY <1>1
<1>5. \A k \in hit : stage'[k] = "idle" /\ ctxId'[k] = None
  BY <1>1, <1>2
<1>6. \A k \in Task \ hit : stage'[k] = stage[k] /\ ctxId'[k] = ctxId[k] /\ ending'[k] = ending[k]
  BY <1>1
<1>7. CallsOver(hit)
  BY <1>1, <1>2, <1>3, <1>4, <1>5, <1>6, <1>9 DEF CallsOver
<1>8. hit \in SUBSET Task
  BY <1>2
<1> QED BY <1>7, <1>8

(* A timeout changes what the node holds, and nothing else.                 *)
LEMMA TimeoutEffect ==
    ASSUME TypeOK, NEW t \in Tx, TimesOut(t)
    PROVE  TimeoutDoes
<1>1. fate[t] = "active" /\ fate' = [fate EXCEPT ![t] = "aborted"]
  BY DEF TimesOut
<1>2. \A u \in Tx : \/ fate'[u] = fate[u]
                    \/ fate[u] = "active" /\ fate'[u] = "aborted"
  BY <1>1 DEF TypeOK
<1> QED BY <1>2 DEF TimesOut, TimeoutDoes, ctxVars, objVars, callVars, ghosts

-----------------------------------------------------------------------------
(* The steps                                                                *)

(* Every step keeps the types of the variables.                             *)
LEMMA TypeStep == ASSUME TypeOK, IdInv, [Next]_vars PROVE TypeOK'
<1>1. ASSUME NEW k \in Task, NEW t \in Tx, Start(k, t) PROVE TypeOK'
  <2>1. PICK c \in Conn, id \in Id :
            /\ home' = [home EXCEPT ![t] = c] /\ ctxId' = [ctxId EXCEPT ![k] = id]
            /\ ctxConn' = [ctxConn EXCEPT ![k] = c] /\ txId' = [txId EXCEPT ![t] = id]
    BY <1>1 DEF Start
  <2>2. id # None /\ c # None
    BY ConstantsAssumption
  <2>3. /\ ctxId' \in [Task -> Id \cup {None}] /\ ctxConn' \in [Task -> Conn \cup {None}]
        /\ \A j \in Task : ctxId'[j] = None <=> ctxConn'[j] = None
    BY <2>1, <2>2 DEF TypeOK
  <2>4. txId' \in [Tx -> Id \cup {None}] /\ home' \in [Tx -> Conn \cup {None}]
    BY <2>1 DEF TypeOK
  <2> QED BY <1>1, <2>3, <2>4 DEF TypeOK, Start, callVars
<1>2. ASSUME NEW k \in Task, NEW t \in Tx, NEW how \in Ends, End(k, t, how) PROVE TypeOK'
  <2>1. /\ \/ /\ stage' = [stage EXCEPT ![k] = "sent"]
              /\ ending' = [ending EXCEPT ![k] = t]
              /\ asked' = [asked EXCEPT ![k] = how]
           \/ UNCHANGED <<stage, ending, asked>>
        /\ \/ /\ ender' = [ender EXCEPT ![t] = k]
              /\ ends' = [ends EXCEPT ![t] = @ + 1]
           \/ UNCHANGED <<ender, ends>>
        /\ closed' = closed \cup {t}
    BY <1>2 DEF End, Close, callVars
  <2>2. /\ stage' \in [Task -> {"idle", "sent", "done", "refused"}]
        /\ ending' \in [Task -> Tx \cup {None}] /\ asked' \in [Task -> Ends]
    BY <2>1 DEF TypeOK
  <2>3. ender' \in [Tx -> Task \cup {None}] /\ ends' \in [Tx -> Nat] /\ closed' \subseteq Tx
    BY <2>1 DEF TypeOK
  <2>4. UNCHANGED <<ctxId, ctxConn, txId, home, fate, told, latest, reached, losses>>
    BY <1>2 DEF End, ctxVars, nodeVars
  <2>5. mistaken' \subseteq Tx
    <3>1. mistaken' = mistaken \/ (ctxId[k] # None /\ mistaken' \subseteq mistaken \cup {t, latest[k]})
      BY <1>2 DEF End, Matches
    <3>2. ctxId[k] # None => latest[k] \in Tx
      BY DEF IdInv, TypeOK
    <3> QED BY <3>1, <3>2 DEF TypeOK
  <2> QED BY <2>2, <2>3, <2>4, <2>5 DEF TypeOK
<1>3. ASSUME NEW k \in Task, NEW j \in Task, Spawn(k, j) PROVE TypeOK'
  BY <1>3 DEF TypeOK, Spawn, objVars, callVars, nodeVars
<1>4. ASSUME NEW k \in Task, Serve(k) PROVE TypeOK'
  <2>1. fate' \in [Tx -> {"none", "active"} \cup Ends]
    BY <1>4 DEF TypeOK, Serve
  <2>2. reached' \in [Tx -> SUBSET Tx]
    BY <1>4 DEF TypeOK, Serve, Holder
  <2>3. stage' \in [Task -> {"idle", "sent", "done", "refused"}]
    BY <1>4 DEF TypeOK, Serve
  <2>4. UNCHANGED <<ctxVars, objVars, ending, asked, home, told, latest, ender, ends, mistaken, losses>>
    BY <1>4 DEF Serve
  <2> QED BY <2>1, <2>2, <2>3, <2>4 DEF TypeOK, ctxVars, objVars
<1>5. ASSUME NEW k \in Task, Reply(k) PROVE TypeOK'
  <2>1. Said(k) \in {"nothing", "error"} \cup Ends
    BY DEF TypeOK, Said
  <2>2. told' \in [Tx -> {"nothing", "error"} \cup Ends]
    BY <1>5, <2>1 DEF TypeOK, Reply
  <2> QED BY <1>5, <2>2 DEF TypeOK, Reply, Reset, objVars, nodeVars
<1>6. ASSUME NEW t \in Tx, TimesOut(t) PROVE TypeOK'
  <2>1. fate' \in [Tx -> {"none", "active"} \cup Ends]
    BY <1>6 DEF TypeOK, TimesOut, Ends
  <2> QED BY <1>6, <2>1 DEF TypeOK, TimesOut, ctxVars, objVars, callVars, ghosts
<1>7. ASSUME NEW c \in Conn, Lose(c) PROVE TypeOK'
  <2>1. fate' \in [Tx -> {"none", "active"} \cup Ends]
    BY <1>7 DEF TypeOK, Lose, Ends
  <2>2. home' \in [Tx -> Conn \cup {None}] /\ told' \in [Tx -> {"nothing", "error"} \cup Ends]
    BY <1>7 DEF TypeOK, Lose
  <2>3. /\ ctxId' \in [Task -> Id \cup {None}] /\ ctxConn' \in [Task -> Conn \cup {None}]
        /\ \A k \in Task : ctxId'[k] = None <=> ctxConn'[k] = None
    BY <1>7 DEF TypeOK, Lose, Reset
  <2>4. /\ stage' \in [Task -> {"idle", "sent", "done", "refused"}]
        /\ ending' \in [Task -> Tx \cup {None}]
    BY <1>7 DEF TypeOK, Lose
  <2>5. losses' \in 0..MaxLosses
    <3>1. losses \in 0..MaxLosses /\ losses < MaxLosses /\ losses' = losses + 1
      BY <1>7 DEF TypeOK, Lose
    <3> QED BY <3>1, ConstantsAssumption
  <2>6. UNCHANGED <<objVars, asked, latest, ender, ends, reached, mistaken>>
    BY <1>7 DEF Lose
  <2> QED BY <2>1, <2>2, <2>3, <2>4, <2>5, <2>6 DEF TypeOK, objVars
<1>8. CASE UNCHANGED vars
  BY <1>8 DEF TypeOK, vars, ctxVars, objVars, callVars, nodeVars, ghosts
<1> QED BY <1>1, <1>2, <1>3, <1>4, <1>5, <1>6, <1>7, <1>8 DEF Next

(* An id is known from its start on.                                        *)
LEMMA IdStep ==
    ASSUME TypeOK, IdInv, CallInv, [Next]_vars
    PROVE  IdInv'
<1>0. /\ \A k \in Task : latest[k] # None => latest[k] \in Tx
      /\ None \notin Task /\ None \notin Tx
      /\ \A k \in Task : asked[k] \in Ends
  BY ConstantsAssumption DEF TypeOK
<1>1. ASSUME NEW k \in Task, NEW t \in Tx, Start(k, t) PROVE IdInv'
  <2>1. StartDoes(k, t)
    BY <1>1, StartEffect
  <2> QED BY <1>0, <2>1 DEF StartDoes, Ends, IdInv, CallInv
<1>2. ASSUME NEW k \in Task, NEW t \in Tx, NEW how \in Ends, End(k, t, how) PROVE IdInv'
  <2>1. EndDoes(k, t, how)
    BY <1>2, EndEffect
  <2> QED BY <1>0, <2>1 DEF EndDoes, Ends, IdInv, CallInv
<1>3. ASSUME NEW k \in Task, NEW j \in Task, Spawn(k, j) PROVE IdInv'
  <2>1. SpawnDoes(k, j)
    BY <1>3, SpawnEffect
  <2> QED BY <1>0, <2>1 DEF SpawnDoes, Ends, IdInv, CallInv
<1>4. ASSUME NEW k \in Task, Serve(k) PROVE IdInv'
  <2>1. ServeDoes(k)
    BY <1>4, ServeEffect DEF CallInv, Serve
  <2> QED BY <1>0, <2>1 DEF ServeDoes, Ends, IdInv, CallInv
<1>6. ASSUME NEW t \in Tx, TimesOut(t) PROVE IdInv'
  <2>1. TimeoutDoes
    BY <1>6, TimeoutEffect
  <2> QED BY <1>0, <2>1 DEF TimeoutDoes, Ends, IdInv, CallInv
<1>5. ASSUME NEW S \in SUBSET Task, CallsOver(S) PROVE IdInv'
  BY <1>0, <1>5 DEF CallsOver, Ends, IdInv, CallInv
<1>7. ASSUME NEW k \in Task, Reply(k) PROVE IdInv'
  BY <1>5, <1>7, ReplyEffect
<1>8. ASSUME NEW c \in Conn, Lose(c) PROVE IdInv'
  BY <1>5, <1>8, LoseEffect
<1>9. CASE UNCHANGED vars
  BY <1>9 DEF IdInv, vars, ctxVars, objVars, callVars, nodeVars, ghosts
<1> QED BY <1>1, <1>2, <1>3, <1>4, <1>6, <1>7, <1>8, <1>9 DEF Next

(* A transaction is closed before its one request is made.                  *)
LEMMA EndInvStep ==
    ASSUME TypeOK, IdInv, EndInv, CallInv, [Next]_vars
    PROVE  EndInv'
<1>0. /\ \A k \in Task : latest[k] # None => latest[k] \in Tx
      /\ None \notin Task /\ None \notin Tx
      /\ \A k \in Task : asked[k] \in Ends
  BY ConstantsAssumption DEF TypeOK
<1>1. ASSUME NEW k \in Task, NEW t \in Tx, Start(k, t) PROVE EndInv'
  <2>1. StartDoes(k, t)
    BY <1>1, StartEffect
  <2> QED BY <1>0, <2>1 DEF StartDoes, Ends, IdInv, EndInv
<1>2. ASSUME NEW k \in Task, NEW t \in Tx, NEW how \in Ends, End(k, t, how) PROVE EndInv'
  <2>1. EndDoes(k, t, how)
    BY <1>2, EndEffect
  <2> QED BY <1>0, <2>1 DEF EndDoes, Ends, IdInv, EndInv
<1>3. ASSUME NEW k \in Task, NEW j \in Task, Spawn(k, j) PROVE EndInv'
  <2>1. SpawnDoes(k, j)
    BY <1>3, SpawnEffect
  <2> QED BY <1>0, <2>1 DEF SpawnDoes, Ends, IdInv, EndInv
<1>4. ASSUME NEW k \in Task, Serve(k) PROVE EndInv'
  <2>1. ServeDoes(k)
    BY <1>4, ServeEffect DEF CallInv, Serve
  <2> QED BY <1>0, <2>1 DEF ServeDoes, Ends, IdInv, EndInv
<1>6. ASSUME NEW t \in Tx, TimesOut(t) PROVE EndInv'
  <2>1. TimeoutDoes
    BY <1>6, TimeoutEffect
  <2> QED BY <1>0, <2>1 DEF TimeoutDoes, Ends, IdInv, EndInv
<1>5. ASSUME NEW S \in SUBSET Task, CallsOver(S) PROVE EndInv'
  BY <1>0, <1>5 DEF CallsOver, Ends, IdInv, EndInv
<1>7. ASSUME NEW k \in Task, Reply(k) PROVE EndInv'
  BY <1>5, <1>7, ReplyEffect
<1>8. ASSUME NEW c \in Conn, Lose(c) PROVE EndInv'
  BY <1>5, <1>8, LoseEffect
<1>9. CASE UNCHANGED vars
  BY <1>9 DEF EndInv, vars, ctxVars, objVars, callVars, nodeVars, ghosts
<1> QED BY <1>1, <1>2, <1>3, <1>4, <1>6, <1>7, <1>8, <1>9 DEF Next

(* A task in a call keeps its context.                                      *)
LEMMA CallStep ==
    ASSUME TypeOK, IdInv, EndInv, CallInv, [Next]_vars
    PROVE  CallInv'
<1>0. /\ \A k \in Task : latest[k] # None => latest[k] \in Tx
      /\ None \notin Task /\ None \notin Tx
      /\ \A k \in Task : asked[k] \in Ends
  BY ConstantsAssumption DEF TypeOK
<1>1. ASSUME NEW k \in Task, NEW t \in Tx, Start(k, t) PROVE CallInv'
  <2>1. StartDoes(k, t)
    BY <1>1, StartEffect
  <2> QED BY <1>0, <2>1 DEF StartDoes, IdInv, EndInv, CallInv
<1>2. ASSUME NEW k \in Task, NEW t \in Tx, NEW how \in Ends, End(k, t, how) PROVE CallInv'
  <2>1. EndDoes(k, t, how)
    BY <1>2, EndEffect
  <2> QED BY <1>0, <2>1 DEF EndDoes, IdInv, EndInv, CallInv
<1>3. ASSUME NEW k \in Task, NEW j \in Task, Spawn(k, j) PROVE CallInv'
  <2>1. SpawnDoes(k, j)
    BY <1>3, SpawnEffect
  <2> QED BY <1>0, <2>1 DEF SpawnDoes, IdInv, EndInv, CallInv
<1>4. ASSUME NEW k \in Task, Serve(k) PROVE CallInv'
  <2>1. ServeDoes(k)
    BY <1>4, ServeEffect DEF CallInv, Serve
  <2> QED BY <1>0, <2>1 DEF ServeDoes, IdInv, EndInv, CallInv
<1>6. ASSUME NEW t \in Tx, TimesOut(t) PROVE CallInv'
  <2>1. TimeoutDoes
    BY <1>6, TimeoutEffect
  <2> QED BY <1>0, <2>1 DEF TimeoutDoes, IdInv, EndInv, CallInv
<1>5. ASSUME NEW S \in SUBSET Task, CallsOver(S) PROVE CallInv'
  BY <1>0, <1>5 DEF CallsOver, IdInv, EndInv, CallInv
<1>7. ASSUME NEW k \in Task, Reply(k) PROVE CallInv'
  BY <1>5, <1>7, ReplyEffect
<1>8. ASSUME NEW c \in Conn, Lose(c) PROVE CallInv'
  BY <1>5, <1>8, LoseEffect
<1>9. CASE UNCHANGED vars
  BY <1>9 DEF CallInv, vars, ctxVars, objVars, callVars, nodeVars, ghosts
<1> QED BY <1>1, <1>2, <1>3, <1>4, <1>6, <1>7, <1>8, <1>9 DEF Next

(* Contexts stay with the latest transaction.                               *)
LEMMA CtxStep ==
    ASSUME BaseInv, CtxInv, [Next]_vars
    PROVE  CtxInv'
<1>0. /\ \A k \in Task : latest[k] # None => latest[k] \in Tx
      /\ None \notin Task /\ None \notin Tx
      /\ \A k \in Task : asked[k] \in Ends
  BY ConstantsAssumption DEF BaseInv, TypeOK
<1>1. ASSUME NEW k \in Task, NEW t \in Tx, Start(k, t) PROVE CtxInv'
  <2>1. StartDoes(k, t)
    BY <1>1, StartEffect DEF BaseInv
  <2> QED BY <1>0, <2>1 DEF StartDoes, BaseInv, IdInv, CallInv, CtxInv, Unique
<1>2. ASSUME NEW k \in Task, NEW t \in Tx, NEW how \in Ends, End(k, t, how) PROVE CtxInv'
  <2>1. EndDoes(k, t, how)
    BY <1>2, EndEffect DEF BaseInv
  <2>2. mistaken \subseteq mistaken' /\ closed' = closed \cup {t}
    BY <2>1 DEF EndDoes
  <2>3. Unique' /\ \A j \in Task : ctxId'[j] # None =>
                      /\ ctxId'[j] = txId'[latest'[j]]
                      /\ home'[latest'[j]] # None => home'[latest'[j]] = ctxConn'[j]
    BY <2>1 DEF EndDoes, CtxInv, Unique
  <2>4. \A j \in Task : latest'[j] # None /\ latest'[j] \notin closed' /\ latest'[j] \notin mistaken' =>
            ctxId'[j] # None
    BY <2>1, <2>2 DEF EndDoes, CtxInv
  <2>5. ASSUME NEW j \in Task, stage'[j] # "idle"
        PROVE  /\ ending'[j] \notin mistaken' => ending'[j] = latest'[j]
               /\ latest'[j] \in closed' \/ latest'[j] \in mistaken'
    <3>1. CASE j = k
      <4>1. ctxId[k] # None /\ ctxId[k] = txId[t] /\ ending'[k] = t /\ latest'[k] = latest[k]
        BY <2>1, <2>5, <3>1 DEF EndDoes
      <4>2. Mistakes(k, t) => t \in mistaken' /\ latest[k] \in mistaken'
        BY <2>1, <2>5, <3>1 DEF EndDoes
      <4>3. txId[latest[k]] = txId[t]
        BY <4>1 DEF CtxInv
      <4>4. t # latest[k] => Mistakes(k, t)
        BY <4>3 DEF Mistakes
      <4> QED BY <2>2, <3>1, <4>1, <4>2, <4>4
    <3>2. CASE j # k
      BY <2>1, <2>2, <2>5, <3>2 DEF EndDoes, CtxInv
    <3> QED BY <3>1, <3>2
  <2> QED BY <2>3, <2>4, <2>5 DEF CtxInv
<1>3. ASSUME NEW k \in Task, NEW j \in Task, Spawn(k, j) PROVE CtxInv'
  <2>1. SpawnDoes(k, j)
    BY <1>3, SpawnEffect DEF BaseInv
  <2> QED BY <1>0, <2>1 DEF SpawnDoes, BaseInv, IdInv, CallInv, CtxInv, Unique
<1>4. ASSUME NEW k \in Task, Serve(k) PROVE CtxInv'
  <2>1. ServeDoes(k)
    BY <1>4, ServeEffect DEF BaseInv, CallInv, Serve
  <2> QED BY <1>0, <2>1 DEF ServeDoes, BaseInv, IdInv, CallInv, CtxInv, Unique
<1>6. ASSUME NEW t \in Tx, TimesOut(t) PROVE CtxInv'
  <2>1. TimeoutDoes
    BY <1>6, TimeoutEffect DEF BaseInv
  <2> QED BY <1>0, <2>1 DEF TimeoutDoes, BaseInv, IdInv, CallInv, CtxInv, Unique
<1>5. ASSUME NEW S \in SUBSET Task, CallsOver(S) PROVE CtxInv'
  BY <1>0, <1>5 DEF CallsOver, BaseInv, IdInv, CallInv, CtxInv, Unique
<1>7. ASSUME NEW k \in Task, Reply(k) PROVE CtxInv'
  BY <1>5, <1>7, ReplyEffect DEF BaseInv
<1>8. ASSUME NEW c \in Conn, Lose(c) PROVE CtxInv'
  BY <1>5, <1>8, LoseEffect DEF BaseInv
<1>9. CASE UNCHANGED vars
  BY <1>9 DEF CtxInv, Unique, vars, ctxVars, objVars, callVars, nodeVars, ghosts
<1> QED BY <1>1, <1>2, <1>3, <1>4, <1>6, <1>7, <1>8, <1>9 DEF Next

(* What was done stays done.                                                *)
LEMMA DoneKept ==
    ASSUME TypeOK, NEW t \in Tx, NEW how \in Ends, Done(t, how),
           reached[t] \subseteq reached'[t], t \in mistaken => t \in mistaken',
           home'[t] = home[t] \/ home'[t] = None,
           \A u \in Tx : fate[u] \in Ends => fate'[u] = fate[u]
    PROVE  Done(t, how)'
<1>1. PICK u \in reached[t] : fate[u] = how /\ (t \notin mistaken /\ Known(t) => u = t)
  BY DEF Done
<1>2. u \in Tx /\ u \in reached'[t]
  BY <1>1 DEF TypeOK
<1>3. fate'[u] = how
  BY <1>1, <1>2
<1> QED BY <1>1, <1>2, <1>3 DEF Done, Known

(* A request is served as it was asked.                                     *)
LEMMA ServedStep ==
    ASSUME BaseInv, CtxInv, ServedInv, [Next]_vars
    PROVE  ServedInv'
<1>0. /\ \A k \in Task : latest[k] # None => latest[k] \in Tx
      /\ None \notin Task /\ None \notin Tx
      /\ \A k \in Task : asked[k] \in Ends
      /\ \A k \in Task : stage[k] # "idle" => ending[k] \in Tx /\ ending[k] \in closed
      /\ "committed" \in Ends /\ "active" \notin Ends /\ "none" \notin Ends
      /\ TypeOK
  BY ConstantsAssumption DEF BaseInv, TypeOK, CallInv, Ends
<1>k. ASSUME \A t \in Tx : reached[t] \subseteq reached'[t], mistaken \subseteq mistaken',
             \A t \in closed : home'[t] = home[t] \/ home'[t] = None,
             \A u \in Tx : fate[u] \in Ends => fate'[u] = fate[u]
      PROVE  \A t \in Tx, how \in Ends : t \in closed /\ Done(t, how) => Done(t, how)'
  BY <1>0, <1>k, DoneKept
<1>1. ASSUME NEW k \in Task, NEW t \in Tx, Start(k, t) PROVE ServedInv'
  <2>1. StartDoes(k, t)
    BY <1>1, StartEffect DEF BaseInv
  <2>2. t \notin closed
    BY <2>1 DEF StartDoes, BaseInv, EndInv
  <2>3. \A u \in Tx, how \in Ends : u \in closed /\ Done(u, how) => Done(u, how)'
    BY <1>0, <1>k, <2>1, <2>2 DEF StartDoes, TypeOK
  <2>4. \A u \in Tx : told'[u] = "committed" => u \in closed /\ Done(u, "committed")
    BY <2>1 DEF StartDoes, BaseInv, CallInv, ServedInv
  <2> QED BY <1>0, <2>1, <2>3, <2>4 DEF StartDoes, ServedInv
<1>2. ASSUME NEW k \in Task, NEW t \in Tx, NEW how \in Ends, End(k, t, how) PROVE ServedInv'
  <2>1. EndDoes(k, t, how)
    BY <1>2, EndEffect DEF BaseInv
  <2>2. \A u \in Tx, h \in Ends : u \in closed /\ Done(u, h) => Done(u, h)'
    BY <1>0, <1>k, <2>1 DEF EndDoes
  <2>3. \A u \in Tx : told'[u] = "committed" => u \in closed /\ Done(u, "committed")
    BY <2>1 DEF EndDoes, BaseInv, CallInv, ServedInv
  <2>4. \A j \in Task : stage'[j] = "done" =>
           stage[j] = "done" /\ ending'[j] = ending[j] /\ asked'[j] = asked[j]
    BY <2>1 DEF EndDoes
  <2> QED BY <1>0, <2>2, <2>3, <2>4 DEF ServedInv
<1>3. ASSUME NEW k \in Task, NEW j \in Task, Spawn(k, j) PROVE ServedInv'
  <2>1. SpawnDoes(k, j)
    BY <1>3, SpawnEffect DEF BaseInv
  <2> QED BY <2>1 DEF SpawnDoes, ServedInv, Done, Known
<1>4. ASSUME NEW k \in Task, Serve(k) PROVE ServedInv'
  <2>1. ServeDoes(k)
    BY <1>0, <1>4, ServeEffect DEF Serve
  <2> DEFINE t == ending[k]
  <2>2. \A u \in Tx, how \in Ends : u \in closed /\ Done(u, how) => Done(u, how)'
    BY <1>0, <1>k, <2>1 DEF ServeDoes
  <2>3. \A u \in Tx : told'[u] = "committed" => u \in closed /\ Done(u, "committed")
    BY <2>1 DEF ServeDoes, BaseInv, CallInv, ServedInv
  <2>4. ASSUME stage'[k] = "done" PROVE Done(t, asked[k])'
    <3>1. PICK u \in reached'[t] :
             home[u] = ctxConn[k] /\ txId[u] = txId[t] /\ fate'[u] = asked[k]
      BY <2>1, <2>4 DEF ServeDoes
    <3>2. t \in Tx /\ stage[k] # "idle" /\ ctxId[k] # None
      BY <1>0, <2>1 DEF ServeDoes, BaseInv, CallInv
    <3>3. u \in Tx
      BY <1>4, <3>2, TypeStep DEF Next, BaseInv, TypeOK
    <3>4. ASSUME t \notin mistaken, home[t] # None PROVE u = t
      <4>1. t = latest[k]
        BY <3>2, <3>4 DEF CtxInv
      <4>2. home[t] = ctxConn[k]
        BY <3>2, <3>4, <4>1 DEF CtxInv
      <4> QED BY <3>1, <3>2, <3>3, <3>4, <4>2 DEF CtxInv, Unique
    <3> HIDE DEF t
    <3>5. asked'[k] = asked[k] /\ home' = home /\ mistaken' = mistaken
      BY <2>1 DEF ServeDoes
    <3>6. ending'[k] = t
      BY <2>1 DEF ServeDoes, t
    <3>7. \E v \in reached'[t] : fate'[v] = asked[k] /\ (t \notin mistaken' /\ home'[t] # None => v = t)
      BY <3>1, <3>4, <3>5
    <3> QED BY <2>1, <3>5, <3>6, <3>7 DEF Done, Known, ServeDoes, t
  <2>5. \A j \in Task : j # k /\ stage'[j] = "done" => Done(ending[j], asked[j])'
    BY <1>0, <2>1, <2>2 DEF ServeDoes, ServedInv
  <2> QED BY <1>0, <2>2, <2>3, <2>4, <2>5 DEF ServedInv
<1>5. ASSUME NEW S \in SUBSET Task, CallsOver(S) PROVE ServedInv'
  <2>1. \A u \in Tx, how \in Ends : u \in closed /\ Done(u, how) => Done(u, how)'
    BY <1>0, <1>k, <1>5 DEF CallsOver, TypeOK
  <2>2. \A u \in Tx : told'[u] = "committed" => u \in closed /\ Done(u, "committed")
    BY <1>0, <1>5 DEF CallsOver, BaseInv, CallInv, ServedInv
  <2>3. \A j \in Task : stage'[j] = "done" =>
           stage[j] = "done" /\ ending'[j] = ending[j] /\ asked'[j] = asked[j]
    BY <1>5 DEF CallsOver
  <2> QED BY <1>0, <2>1, <2>2, <2>3 DEF ServedInv
<1>6. ASSUME NEW t \in Tx, TimesOut(t) PROVE ServedInv'
  <2>1. TimeoutDoes
    BY <1>6, TimeoutEffect DEF BaseInv
  <2>2. \A u \in Tx, how \in Ends : u \in closed /\ Done(u, how) => Done(u, how)'
    BY <1>0, <1>k, <2>1 DEF TimeoutDoes
  <2>3. \A u \in Tx : told'[u] = "committed" => u \in closed /\ Done(u, "committed")
    BY <2>1 DEF TimeoutDoes, BaseInv, CallInv, ServedInv
  <2> QED BY <1>0, <2>1, <2>2, <2>3 DEF TimeoutDoes, ServedInv
<1>7. ASSUME NEW k \in Task, Reply(k) PROVE ServedInv'
  BY <1>5, <1>7, ReplyEffect DEF BaseInv
<1>8. ASSUME NEW c \in Conn, Lose(c) PROVE ServedInv'
  BY <1>5, <1>8, LoseEffect DEF BaseInv
<1>9. CASE UNCHANGED vars
  BY <1>9 DEF ServedInv, Done, Known, vars, ctxVars, objVars, callVars, nodeVars, ghosts
<1> QED BY <1>1, <1>2, <1>3, <1>4, <1>6, <1>7, <1>8, <1>9 DEF Next

(* A task that has ended its transaction has left it.                       *)
LEMMA ReleaseStep ==
    ASSUME BaseInv, CtxInv, ReleaseInv, [Next]_vars
    PROVE  ReleaseInv'
<1>0. /\ \A k \in Task : latest[k] # None => latest[k] \in Tx
      /\ None \notin Task /\ None \notin Tx
      /\ \A k \in Task : asked[k] \in Ends
  BY ConstantsAssumption DEF BaseInv, TypeOK
<1>1. ASSUME NEW k \in Task, NEW t \in Tx, Start(k, t) PROVE ReleaseInv'
  <2>1. StartDoes(k, t)
    BY <1>1, StartEffect DEF BaseInv
  <2> QED BY <1>0, <2>1 DEF StartDoes, BaseInv, IdInv, EndInv, CallInv, CtxInv, ReleaseInv
<1>2. ASSUME NEW k \in Task, NEW t \in Tx, NEW how \in Ends, End(k, t, how) PROVE ReleaseInv'
  <2>1. EndDoes(k, t, how)
    BY <1>2, EndEffect DEF BaseInv
  <2> QED BY <1>0, <2>1 DEF EndDoes, BaseInv, IdInv, EndInv, CallInv, CtxInv, ReleaseInv
<1>3. ASSUME NEW k \in Task, NEW j \in Task, Spawn(k, j) PROVE ReleaseInv'
  <2>1. SpawnDoes(k, j)
    BY <1>3, SpawnEffect DEF BaseInv
  <2> QED BY <1>0, <2>1 DEF SpawnDoes, BaseInv, IdInv, EndInv, CallInv, CtxInv, ReleaseInv
<1>4. ASSUME NEW k \in Task, Serve(k) PROVE ReleaseInv'
  <2>1. ServeDoes(k)
    BY <1>4, ServeEffect DEF BaseInv, CallInv, Serve
  <2> QED BY <1>0, <2>1 DEF ServeDoes, BaseInv, IdInv, EndInv, CallInv, CtxInv, ReleaseInv
<1>6. ASSUME NEW t \in Tx, TimesOut(t) PROVE ReleaseInv'
  <2>1. TimeoutDoes
    BY <1>6, TimeoutEffect DEF BaseInv
  <2> QED BY <1>0, <2>1 DEF TimeoutDoes, BaseInv, IdInv, EndInv, CallInv, CtxInv, ReleaseInv
<1>5. ASSUME NEW S \in SUBSET Task, CallsOver(S) PROVE ReleaseInv'
  BY <1>0, <1>5 DEF CallsOver, BaseInv, IdInv, EndInv, CallInv, CtxInv, ReleaseInv
<1>7. ASSUME NEW k \in Task, Reply(k) PROVE ReleaseInv'
  BY <1>5, <1>7, ReplyEffect DEF BaseInv
<1>8. ASSUME NEW c \in Conn, Lose(c) PROVE ReleaseInv'
  BY <1>5, <1>8, LoseEffect DEF BaseInv
<1>9. CASE UNCHANGED vars
  BY <1>9 DEF ReleaseInv, vars, ctxVars, objVars, callVars, nodeVars, ghosts
<1> QED BY <1>1, <1>2, <1>3, <1>4, <1>6, <1>7, <1>8, <1>9 DEF Next

(* The initial states satisfy the invariant.                                *)
LEMMA InitIInv == Init => IInv
<1> SUFFICES ASSUME Init PROVE IInv
  OBVIOUS
<1>1. TypeOK
  <2>1. /\ ctxId \in [Task -> Id \cup {None}] /\ ctxConn \in [Task -> Conn \cup {None}]
        /\ \A k \in Task : ctxId[k] = None <=> ctxConn[k] = None
    BY DEF Init
  <2>2. /\ txId \in [Tx -> Id \cup {None}] /\ closed \subseteq Tx
        /\ stage \in [Task -> {"idle", "sent", "done", "refused"}]
        /\ ending \in [Task -> Tx \cup {None}] /\ asked \in [Task -> Ends]
    BY DEF Init, Ends
  <2>3. /\ home \in [Tx -> Conn \cup {None}] /\ fate \in [Tx -> {"none", "active"} \cup Ends]
        /\ told \in [Tx -> {"nothing", "error"} \cup Ends]
        /\ latest \in [Task -> Tx \cup {None}] /\ ender \in [Tx -> Task \cup {None}]
    BY DEF Init
  <2>4. /\ ends \in [Tx -> Nat] /\ reached \in [Tx -> SUBSET Tx] /\ mistaken \subseteq Tx
        /\ losses \in 0..MaxLosses
    BY ConstantsAssumption DEF Init
  <2> QED BY <2>1, <2>2, <2>3, <2>4 DEF TypeOK
<1>2. IdInv /\ EndInv /\ CallInv
  BY ConstantsAssumption DEF Init, IdInv, EndInv, CallInv
<1>3. CtxInv /\ ServedInv /\ ReleaseInv
  BY DEF Init, CtxInv, Unique, ServedInv, ReleaseInv, Done
<1> QED BY <1>1, <1>2, <1>3 DEF IInv, BaseInv

(* Every step keeps the invariant.                                          *)
LEMMA IInvStep == IInv /\ [Next]_vars => IInv'
<1> SUFFICES ASSUME IInv, [Next]_vars PROVE IInv'
  OBVIOUS
<1>1. BaseInv /\ TypeOK /\ IdInv /\ EndInv /\ CallInv
  BY DEF IInv, BaseInv
<1>2. BaseInv'
  BY <1>1, TypeStep, IdStep, EndInvStep, CallStep DEF BaseInv
<1>3. CtxInv /\ ServedInv /\ ReleaseInv
  BY DEF IInv
<1>4. CtxInv' /\ ServedInv' /\ ReleaseInv'
  BY <1>1, <1>3, CtxStep, ServedStep, ReleaseStep
<1> QED BY <1>2, <1>4 DEF IInv

(* The invariant holds in every state.                                      *)
THEOREM Invariance == Spec => []IInv
BY InitIInv, IInvStep, PTL DEF Spec

-----------------------------------------------------------------------------
(* The properties                                                           *)

(* The variables keep their types.                                          *)
THEOREM TypeCorrect == Spec => []TypeOK
<1>1. IInv => TypeOK
  BY DEF IInv, BaseInv
<1> QED BY Invariance, <1>1, PTL

(* One tx_end request at most is made for a transaction: commit and close   *)
(* set closed before they send it (transaction.py:68, 82, 117, 131).        *)
THEOREM OneEnd == Spec => []EndsOnce
<1>1. IInv => EndsOnce
  BY DEF IInv, BaseInv, EndInv, EndsOnce
<1> QED BY Invariance, <1>1, PTL

(* While its latest transaction is open, the operations of a task do not    *)
(* run outside transactions unless it was mistaken for one of its id, and   *)
(* run in it or are refused unless its session is over (cache.py:181,       *)
(* aio_cache.py:95); nodes and sessions may give the same ids.              *)
THEOREM OperationsStayInside == Spec => []OperationsStay
<1>1. IInv => OperationsStay
  <2> SUFFICES ASSUME IInv, NEW k \in Task,
                      latest[k] # None, latest[k] \notin closed, latest[k] \notin mistaken
               PROVE  ~Outside(k) /\ (Known(latest[k]) => Within(k) \subseteq {latest[k]})
    BY DEF OperationsStay
  <2>1. /\ ctxId[k] # None /\ ctxId[k] = txId[latest[k]] /\ Unique
        /\ home[latest[k]] # None => home[latest[k]] = ctxConn[k]
    BY DEF IInv, CtxInv
  <2>2. latest[k] \in Tx /\ ctxConn[k] # None
    BY <2>1 DEF IInv, BaseInv, TypeOK
  <2>3. \A t \in Within(k) : t \in Tx /\ txId[t] = txId[latest[k]] /\ home[t] = ctxConn[k]
    BY <2>1 DEF Within, Holder
  <2>4. Known(latest[k]) => Within(k) \subseteq {latest[k]}
    BY <2>1, <2>2, <2>3 DEF Unique, Known
  <2> QED BY <2>2, <2>4 DEF Outside
<1> QED BY Invariance, <1>1, PTL

(* A task that has ended its transaction is outside transactions again,     *)
(* whether the request succeeded or raised (tx_api.py:87, 99).              *)
THEOREM ContextIsReleased == Spec => []ContextReleased
<1>1. IInv => ContextReleased
  BY DEF IInv, BaseInv, TypeOK, ReleaseInv, ContextReleased, Outside
<1> QED BY Invariance, <1>1, PTL

(* A commit answered with a success has committed a transaction: the one on *)
(* which it was called, unless this was mistaken for another of its id or   *)
(* its session was lost (transaction.py:96).                                *)
THEOREM AnsweredCommitIsDone == Spec => []AnsweredCommit
<1>1. IInv => AnsweredCommit
  BY DEF IInv, ServedInv, Done, AnsweredCommit
<1> QED BY Invariance, <1>1, PTL

=============================================================================
