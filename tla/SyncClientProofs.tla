--------------------------- MODULE SyncClientProofs ---------------------------
(****************************************************************************)
(* The safety properties of SyncClient, for every pool, every protocol      *)
(* versions and every set of nodes that reject the credentials.             *)
(****************************************************************************)
EXTENDS SyncClient, TLAPS

(* The thread is in, or will return to, one of these places.                *)
In(S) == pc \in S \/ (pc = "attempt" /\ then \in S)

(* What the loops over the pool keep.                                       *)
LoopInv ==
    /\ pc = "attempt" =>
          then \in {"opened", "rescheduled", "revived", "scanned", "recovered"}
    /\ In({"opened", "rescheduled"}) => target = i /\ i <= size
    /\ In({"connecting", "opened", "rescheduled"}) => pool + 1 = i
    /\ In({"revived"}) => target = i /\ i <= pool
    /\ In({"scanning", "scanned"}) => current <= pool
    /\ In({"scanned"}) => i <= pool /\ target = Scanned(i)

(* A connection attempt that may take the context away runs only while no   *)
(* connection is alive; versions only fall while one is.                    *)
ContextInv ==
    /\ pc = "attempt" => ctx # 0
    /\ pc = "attempt" /\ detecting => \A n \in Node : ~Alive(n)
    /\ \A n \in Node : Alive(n) => ctx # 0 /\ ctx <= sess[n]

(* Only the request that is being served has a reply outstanding.           *)
ReplyInv ==
    /\ \A n \in Node : Alive(n) =>
          /\ unread[n] <= 1
          /\ unread[n] = 1 => pc = "recv" /\ target = n
    /\ pc = "scanned" /\ outcome = "ok" => Alive(target)
    /\ pc = "send" => Alive(target)

(* connect() has passed nodes while it does not know a version only if they *)
(* could not be used all along.                                             *)
ConnectInv ==
    /\ pc = "connecting" /\ ctx = 0 => steady \cap 1..pool = {}
    /\ pc \in {"opened", "rescheduled"} /\ ctx = 0 => steady \cap 1..i = {}
    /\ pc = "attempt" /\ then \in {"opened", "rescheduled"} /\ detecting =>
          steady \cap 1..pool = {}

(* The steady nodes that the reconnecting loop has passed are alive.        *)
ReviveInv ==
    /\ In({"reviving", "revived"}) => \A n \in steady : n < i => Alive(n)
    /\ pc = "revived" /\ outcome # "raise" /\ i \in steady => Alive(i)

(* The nodes that the scan has passed are not steady.                       *)
ScanInv ==
    /\ In({"scanning", "scanned"}) => \A k \in 1..(i - 1) : Scanned(k) \notin steady
    /\ pc = "scanned" /\ outcome = "connErr" => target \notin steady

SteadyInv == steady \subseteq Usable

IInv ==
    /\ TypeOK /\ LoopInv /\ ContextInv /\ ReplyInv
    /\ SteadyInv /\ ConnectInv /\ ReviveInv /\ ScanInv /\ OutOfNodes

-----------------------------------------------------------------------------

(* Each step keeps the types.                                               *)
LEMMA TypeStep ==
    TypeOK /\ LoopInv /\ [Next]_vars => TypeOK'
<1> SUFFICES ASSUME TypeOK, LoopInv, [Next]_vars PROVE TypeOK'
    OBVIOUS
<1>0. N \in Nat \ {0} /\ V \in Nat \ {0}
    BY ConstantsAssumption
<1> USE <1>0 DEF TypeOK, Node, Version, Places, Outcomes, vars, envVars, connVars, poolVars, loopVars, callVars
<1>1. CASE Attempt
  <2>1. CASE AttemptBreaks
    BY <2>1, <1>1 DEF Attempt, AttemptBreaks, Return
  <2>2. CASE AttemptRefused
    BY <2>2, <1>1 DEF Attempt, AttemptRefused, Return, Usable
  <2>3. CASE AttemptFallsBack
    BY <2>3, <1>1 DEF Attempt, AttemptFallsBack, Usable
  <2>4. CASE AttemptSucceeds
    BY <2>4, <1>1 DEF Attempt, AttemptSucceeds, Return, Usable
  <2> QED
    BY <2>1, <2>2, <2>3, <2>4, <1>1 DEF Attempt
<1>2. CASE Connecting
  <2>1. (up \subseteq Node /\ version \in [Node -> 0..V] /\ timeout \in BOOLEAN /\ ctx \in 0..V)'
    <3>1. ctx \in 0..V /\ (ctx' = ctx \/ ctx' = V)
      BY <1>2 DEF Connecting, StartConnect
    <3>2. (ctx \in 0..V)'
      BY ONLY <1>0, <3>1
    <3>3. (up \subseteq Node /\ version \in [Node -> 0..V] /\ timeout \in BOOLEAN)'
      BY <1>2 DEF Connecting, StartConnect, Append, Finish, AwareNow
    <3> QED
      BY <3>2, <3>3
  <2>2. (pool \in 0..N /\ current \in Node)'
    BY <1>2 DEF Connecting, StartConnect, Append, Finish, AwareNow
  <2>3. (sock \in [Node -> {"none", "open", "broken"}] /\ failed \in [Node -> BOOLEAN])'
    BY <1>2 DEF Connecting, StartConnect, Append, Finish, AwareNow
  <2>4. (sess \in [Node -> 0..V] /\ unread \in [Node -> Nat])'
    BY <1>2 DEF Connecting, StartConnect, Append, Finish, AwareNow
  <2>5. (pc \in Places /\ outcome \in Outcomes)'
    BY <1>2 DEF Connecting, StartConnect, Append, Finish, AwareNow
  <2>6. (target \in Node)'
    BY <1>2 DEF Connecting, StartConnect, Append, Finish, AwareNow
  <2>7. (then \in Places)'
    BY <1>2 DEF Connecting, StartConnect, Append, Finish, AwareNow
  <2>8. (detecting \in BOOLEAN)'
    BY <1>2 DEF Connecting, StartConnect, Append, Finish, AwareNow
  <2>11. i' \in {i, i + 1} /\ (i' = i + 1 => i <= size)
    BY <1>2 DEF Connecting, Append
  <2>9. (i \in 1..(N + 1))'
    BY <2>11
  <2>10. (size \in Node /\ steady \subseteq Node)'
    BY <1>2 DEF Connecting, StartConnect, Append, Finish, AwareNow
  <2> QED
    BY <2>1, <2>2, <2>3, <2>4, <2>5, <2>6, <2>7, <2>8, <2>9, <2>10
<1>3. CASE Opened
  <2>1. i \in 1..N
    BY <1>3 DEF Opened, LoopInv, In
  <2>2. i' \in {i, i + 1} /\ pool' \in {pool, i} /\ current' \in {current, i}
    BY <1>3 DEF Opened, Append
  <2>10. (i \in 1..(N + 1) /\ pool \in 0..N /\ current \in Node)'
    BY <2>1, <2>2
  <2>3. (up \subseteq Node /\ version \in [Node -> 0..V] /\ timeout \in BOOLEAN /\ size \in Node /\ steady \subseteq Node)'
    BY <1>3 DEF Opened
  <2>4. (ctx \in 0..V)'
    <3>1. ctx \in 0..V /\ (ctx' = ctx \/ ctx' = V)
      BY <1>3 DEF Opened, StartReconnect, StartConnect
    <3>2. (ctx \in 0..V)'
      BY ONLY <1>0, <3>1
    <3> QED
      BY <3>2
  <2>5. (sock \in [Node -> {"none", "open", "broken"}] /\ failed \in [Node -> BOOLEAN])'
    BY <1>3 DEF Opened, StartReconnect, StartConnect
  <2>6. (sess \in [Node -> 0..V] /\ unread \in [Node -> Nat])'
    BY <1>3 DEF Opened, StartReconnect, StartConnect
  <2>7. (pc \in Places /\ outcome \in Outcomes)'
    BY <1>3 DEF Opened, StartReconnect, StartConnect, Append, Finish
  <2>8. (target \in Node /\ then \in Places)'
    BY <2>1, <1>3 DEF Opened, StartReconnect, StartConnect, Append, Finish
  <2>9. (detecting \in BOOLEAN)'
    BY <1>3 DEF Opened, StartReconnect, StartConnect, Append, Finish
  <2> QED
    BY <2>10, <2>3, <2>4, <2>5, <2>6, <2>7, <2>8, <2>9
<1>4. CASE Rescheduled
  <2>1. (up \subseteq Node /\ version \in [Node -> 0..V] /\ timeout \in BOOLEAN /\ ctx \in 0..V)'
    BY <1>4 DEF Rescheduled, Append, Finish, LoopInv, In
  <2>2. (pool \in 0..N /\ current \in Node)'
    BY <1>4 DEF Rescheduled, Append, Finish, LoopInv, In
  <2>3. (sock \in [Node -> {"none", "open", "broken"}] /\ failed \in [Node -> BOOLEAN])'
    BY <1>4 DEF Rescheduled, Append, Finish, LoopInv, In
  <2>4. (sess \in [Node -> 0..V] /\ unread \in [Node -> Nat])'
    BY <1>4 DEF Rescheduled, Append, Finish, LoopInv, In
  <2>5. (pc \in Places /\ outcome \in Outcomes)'
    BY <1>4 DEF Rescheduled, Append, Finish, LoopInv, In
  <2>6. (target \in Node)'
    BY <1>4 DEF Rescheduled, Append, Finish, LoopInv, In
  <2>7. (then \in Places)'
    BY <1>4 DEF Rescheduled, Append, Finish, LoopInv, In
  <2>8. (detecting \in BOOLEAN)'
    BY <1>4 DEF Rescheduled, Append, Finish, LoopInv, In
  <2>9. (i \in 1..(N + 1))'
    BY <1>4 DEF Rescheduled, Append, Finish, LoopInv, In
  <2>10. (size \in Node /\ steady \subseteq Node)'
    BY <1>4 DEF Rescheduled, Append, Finish, LoopInv, In
  <2> QED
    BY <2>1, <2>2, <2>3, <2>4, <2>5, <2>6, <2>7, <2>8, <2>9, <2>10
<1>5. CASE Reviving
  <2>1. target' = target \/ (target' = i /\ i <= pool) \/ target' \in AliveNodes
    BY <1>5 DEF Reviving, StartReconnect, StartConnect, Use, Finish
  <2>2. target \in Node /\ i \in 1..(N + 1) /\ pool \in 0..N /\ AliveNodes \subseteq Node
    BY DEF AliveNodes
  <2>10. i <= pool => i \in Node
    BY ONLY <2>2, <1>0 DEF Node
  <2>3. (target \in Node)'
    BY ONLY <2>1, <2>2, <2>10
  <2>4. (up \subseteq Node /\ version \in [Node -> 0..V] /\ timeout \in BOOLEAN /\ ctx \in 0..V)'
    <3>1. ctx \in 0..V /\ (ctx' = ctx \/ ctx' = V)
      BY <1>5 DEF Reviving, StartReconnect, StartConnect
    <3>2. (ctx \in 0..V)'
      BY ONLY <1>0, <3>1
    <3>3. (up \subseteq Node /\ version \in [Node -> 0..V] /\ timeout \in BOOLEAN)'
      BY <1>5 DEF Reviving, StartReconnect, StartConnect
    <3> QED
      BY <3>2, <3>3
  <2>5. (sock \in [Node -> {"none", "open", "broken"}] /\ failed \in [Node -> BOOLEAN])'
    BY <1>5 DEF Reviving, StartReconnect, StartConnect
  <2>6. (sess \in [Node -> 0..V] /\ unread \in [Node -> Nat])'
    BY <1>5 DEF Reviving, StartReconnect, StartConnect
  <2>7. (pc \in Places /\ outcome \in Outcomes /\ then \in Places)'
    BY <1>5 DEF Reviving, StartReconnect, StartConnect, Use, Finish
  <2>8. (detecting \in BOOLEAN)'
    BY <1>5 DEF Reviving, StartReconnect, StartConnect, Use, Finish
  <2>9. (pool \in 0..N /\ current \in Node /\ i \in 1..(N + 1) /\ size \in Node /\ steady \subseteq Node)'
    BY <1>5 DEF Reviving
  <2> QED
    BY <2>3, <2>4, <2>5, <2>6, <2>7, <2>8, <2>9
<1>6. CASE Revived
  <2>1. (up \subseteq Node /\ version \in [Node -> 0..V] /\ timeout \in BOOLEAN /\ ctx \in 0..V)'
    BY <1>6 DEF Revived, Finish, LoopInv, In
  <2>2. (pool \in 0..N /\ current \in Node)'
    BY <1>6 DEF Revived, Finish, LoopInv, In
  <2>3. (sock \in [Node -> {"none", "open", "broken"}] /\ failed \in [Node -> BOOLEAN])'
    BY <1>6 DEF Revived, Finish, LoopInv, In
  <2>4. (sess \in [Node -> 0..V] /\ unread \in [Node -> Nat])'
    BY <1>6 DEF Revived, Finish, LoopInv, In
  <2>5. (pc \in Places /\ outcome \in Outcomes)'
    BY <1>6 DEF Revived, Finish, LoopInv, In
  <2>6. (target \in Node)'
    BY <1>6 DEF Revived, Finish, LoopInv, In
  <2>7. (then \in Places)'
    BY <1>6 DEF Revived, Finish, LoopInv, In
  <2>8. (detecting \in BOOLEAN)'
    BY <1>6 DEF Revived, Finish, LoopInv, In
  <2>9. (i \in 1..(N + 1))'
    BY <1>6 DEF Revived, Finish, LoopInv, In
  <2>10. (size \in Node /\ steady \subseteq Node)'
    BY <1>6 DEF Revived, Finish, LoopInv, In
  <2> QED
    BY <2>1, <2>2, <2>3, <2>4, <2>5, <2>6, <2>7, <2>8, <2>9, <2>10
<1>7. CASE Scanning
  <2>1. (up \subseteq Node /\ version \in [Node -> 0..V] /\ timeout \in BOOLEAN /\ ctx \in 0..V)'
    <3>1. ctx \in 0..V /\ (ctx' = ctx \/ ctx' = V)
      BY <1>7 DEF Scanning, StartConnect
    <3>2. (ctx \in 0..V)'
      BY ONLY <1>0, <3>1
    <3>3. (up \subseteq Node /\ version \in [Node -> 0..V] /\ timeout \in BOOLEAN)'
      BY <1>7 DEF Scanning, ScanOver, StartConnect, Finish, LoopInv, In, Scanned
    <3> QED
      BY <3>2, <3>3
  <2>2. (pool \in 0..N /\ current \in Node)'
    BY <1>7 DEF Scanning, ScanOver, StartConnect, Finish, LoopInv, In, Scanned
  <2>3. (sock \in [Node -> {"none", "open", "broken"}] /\ failed \in [Node -> BOOLEAN])'
    BY <1>7 DEF Scanning, ScanOver, StartConnect, Finish, LoopInv, In, Scanned
  <2>4. (sess \in [Node -> 0..V] /\ unread \in [Node -> Nat])'
    BY <1>7 DEF Scanning, ScanOver, StartConnect, Finish, LoopInv, In, Scanned
  <2>5. (pc \in Places /\ outcome \in Outcomes)'
    BY <1>7 DEF Scanning, ScanOver, StartConnect, Finish, LoopInv, In, Scanned
  <2>6. (target \in Node)'
    BY <1>7 DEF Scanning, ScanOver, StartConnect, Finish, LoopInv, In, Scanned
  <2>7. (then \in Places)'
    BY <1>7 DEF Scanning, ScanOver, StartConnect, Finish, LoopInv, In, Scanned
  <2>8. (detecting \in BOOLEAN)'
    BY <1>7 DEF Scanning, ScanOver, StartConnect, Finish, LoopInv, In, Scanned
  <2>9. (i \in 1..(N + 1))'
    BY <1>7 DEF Scanning, ScanOver, StartConnect, Finish, LoopInv, In, Scanned
  <2>10. (size \in Node /\ steady \subseteq Node)'
    BY <1>7 DEF Scanning, ScanOver, StartConnect, Finish, LoopInv, In, Scanned
  <2> QED
    BY <2>1, <2>2, <2>3, <2>4, <2>5, <2>6, <2>7, <2>8, <2>9, <2>10
<1>8. CASE ScanReturns
  <2>1. (up \subseteq Node /\ version \in [Node -> 0..V] /\ timeout \in BOOLEAN /\ ctx \in 0..V)'
    BY <1>8 DEF ScanReturns, Use, Finish, LoopInv, In
  <2>2. (pool \in 0..N /\ current \in Node)'
    BY <1>8 DEF ScanReturns, Use, Finish, LoopInv, In
  <2>3. (sock \in [Node -> {"none", "open", "broken"}] /\ failed \in [Node -> BOOLEAN])'
    BY <1>8 DEF ScanReturns, Use, Finish, LoopInv, In
  <2>4. (sess \in [Node -> 0..V] /\ unread \in [Node -> Nat])'
    BY <1>8 DEF ScanReturns, Use, Finish, LoopInv, In
  <2>5. (pc \in Places /\ outcome \in Outcomes)'
    BY <1>8 DEF ScanReturns, Use, Finish, LoopInv, In
  <2>6. (target \in Node)'
    BY <1>8 DEF ScanReturns, Use, Finish, LoopInv, In
  <2>7. (then \in Places)'
    BY <1>8 DEF ScanReturns, Use, Finish, LoopInv, In
  <2>8. (detecting \in BOOLEAN)'
    BY <1>8 DEF ScanReturns, Use, Finish, LoopInv, In
  <2>9. (i \in 1..(N + 1))'
    BY <1>8 DEF ScanReturns, Use, Finish, LoopInv, In
  <2>10. (size \in Node /\ steady \subseteq Node)'
    BY <1>8 DEF ScanReturns, Use, Finish, LoopInv, In
  <2> QED
    BY <2>1, <2>2, <2>3, <2>4, <2>5, <2>6, <2>7, <2>8, <2>9, <2>10
<1>9. CASE Send
  <2>1. unread \in [Node -> Nat] /\ target \in Node
    OBVIOUS
  <2>2. unread' = unread \/ unread' = [unread EXCEPT ![target] = unread[target] + 1]
    BY <1>9 DEF Send, SocketFails, Recover
  <2>3. (unread \in [Node -> Nat])'
    BY ONLY <2>1, <2>2
  <2>4. (up \subseteq Node /\ version \in [Node -> 0..V] /\ timeout \in BOOLEAN /\ ctx \in 0..V /\ sess \in [Node -> 0..V])'
    <3>1. ctx \in 0..V /\ (ctx' = ctx \/ ctx' = V)
      BY <1>9 DEF Send, SocketFails, Recover
    <3>2. (ctx \in 0..V)'
      BY ONLY <1>0, <3>1
    <3>3. (up \subseteq Node /\ version \in [Node -> 0..V] /\ timeout \in BOOLEAN /\ sess \in [Node -> 0..V])'
      BY <1>9 DEF Send, SocketFails, Recover
    <3> QED
      BY <3>2, <3>3
  <2>5. (sock \in [Node -> {"none", "open", "broken"}] /\ failed \in [Node -> BOOLEAN])'
    BY <1>9 DEF Send, SocketFails, Recover
  <2>6. (pc \in Places /\ outcome \in Outcomes /\ target \in Node /\ then \in Places)'
    BY <1>9 DEF Send, SocketFails, Recover
  <2>7. (detecting \in BOOLEAN)'
    BY <1>9 DEF Send, SocketFails, Recover
  <2>8. (pool \in 0..N /\ current \in Node /\ i \in 1..(N + 1) /\ size \in Node /\ steady \subseteq Node)'
    BY <1>9 DEF Send, SocketFails
  <2> QED
    BY <2>3, <2>4, <2>5, <2>6, <2>7, <2>8
<1>10. CASE Recv
  <2>1. unread' = unread \/ (unread[target] \in Nat /\ unread[target] > 0 /\ unread' = [unread EXCEPT ![target] = unread[target] - 1])
    BY <1>10 DEF Recv, SocketFails, Recover
  <2>8. unread \in [Node -> Nat] /\ target \in Node
    OBVIOUS
  <2>2. (unread \in [Node -> Nat])'
    BY ONLY <2>1, <2>8
  <2>3. (up \subseteq Node /\ version \in [Node -> 0..V] /\ timeout \in BOOLEAN /\ ctx \in 0..V /\ sess \in [Node -> 0..V])'
    <3>1. ctx \in 0..V /\ (ctx' = ctx \/ ctx' = V)
      BY <1>10 DEF Recv, SocketFails, Recover
    <3>2. (ctx \in 0..V)'
      BY ONLY <1>0, <3>1
    <3>3. (up \subseteq Node /\ version \in [Node -> 0..V] /\ timeout \in BOOLEAN /\ sess \in [Node -> 0..V])'
      BY <1>10 DEF Recv, SocketFails, Recover
    <3> QED
      BY <3>2, <3>3
  <2>4. (sock \in [Node -> {"none", "open", "broken"}] /\ failed \in [Node -> BOOLEAN])'
    BY <1>10 DEF Recv, SocketFails, Recover
  <2>5. (pc \in Places /\ outcome \in Outcomes /\ target \in Node /\ then \in Places)'
    BY <1>10 DEF Recv, SocketFails, Recover, Finish
  <2>6. (detecting \in BOOLEAN)'
    BY <1>10 DEF Recv, SocketFails, Recover, Finish
  <2>7. (pool \in 0..N /\ current \in Node /\ i \in 1..(N + 1) /\ size \in Node /\ steady \subseteq Node)'
    BY <1>10 DEF Recv, SocketFails
  <2> QED
    BY <2>2, <2>3, <2>4, <2>5, <2>6, <2>7
<1>11. CASE Recovered
    BY <1>11 DEF Recovered, Finish
<1>12. CASE Close
    BY <1>12 DEF Close, Finish
<1>13. CASE Query
  <2>1. PickAlive => UNCHANGED current /\ i' \in {i, 1} /\ target' \in AliveNodes \cup {target}
    BY DEF PickAlive, Use, poolVars
  <2>2. PickCurrent => i' \in {i, 1} /\ target' \in {target, current}
    BY DEF PickCurrent, LeaveCurrent, Use, Finish
  <2>3. PickCurrent => current' \in {current, 1} \/ (current' = current + 1 /\ ~(current + 1 > pool))
    BY DEF PickCurrent, LeaveCurrent
  <2>4. (current \in Node)'
    BY <2>1, <2>3, <1>13 DEF Query
  <2>10. (i \in 1..(N + 1))'
    BY <2>1, <2>2, <1>13 DEF Query
  <2>11. AliveNodes \subseteq Node
    BY DEF AliveNodes
  <2>12. (target \in Node)'
    BY <2>1, <2>2, <2>11, <1>13 DEF Query
  <2>5. (up \subseteq Node /\ version \in [Node -> 0..V] /\ timeout \in BOOLEAN /\ ctx \in 0..V /\ pool \in 0..N)'
    BY <1>13 DEF Query
  <2>6. (sock \in [Node -> {"none", "open", "broken"}])'
    BY <1>13 DEF Query, PickAlive, PickCurrent, LeaveCurrent
  <2>7. (failed \in [Node -> BOOLEAN] /\ sess \in [Node -> 0..V] /\ unread \in [Node -> Nat])'
    BY <1>13 DEF Query
  <2>8. (pc \in Places /\ outcome \in Outcomes /\ then \in Places)'
    BY <1>13 DEF Query, PickAlive, PickCurrent, LeaveCurrent, Use, Finish
  <2>9. (detecting \in BOOLEAN /\ size \in Node /\ steady \subseteq Node)'
    BY <1>13 DEF Query, PickAlive, PickCurrent, LeaveCurrent, Use, Finish, Usable
  <2> QED
    BY <2>4, <2>10, <2>12, <2>5, <2>6, <2>7, <2>8, <2>9
<1>14. ASSUME NEW k \in Node, Connect(k) PROVE TypeOK'
  <2>1. (up \subseteq Node /\ version \in [Node -> 0..V] /\ timeout \in BOOLEAN /\ ctx \in 0..V)'
    BY <1>14 DEF Connect, Usable
  <2>2. (pool \in 0..N /\ current \in Node)'
    BY <1>14 DEF Connect, Usable
  <2>3. (sock \in [Node -> {"none", "open", "broken"}] /\ failed \in [Node -> BOOLEAN])'
    BY <1>14 DEF Connect, Usable
  <2>4. (sess \in [Node -> 0..V] /\ unread \in [Node -> Nat])'
    BY <1>14 DEF Connect, Usable
  <2>5. (pc \in Places /\ outcome \in Outcomes)'
    BY <1>14 DEF Connect, Usable
  <2>6. (target \in Node)'
    BY <1>14 DEF Connect, Usable
  <2>7. (then \in Places)'
    BY <1>14 DEF Connect, Usable
  <2>8. (detecting \in BOOLEAN)'
    BY <1>14 DEF Connect, Usable
  <2>9. (i \in 1..(N + 1))'
    BY <1>14 DEF Connect, Usable
  <2>10. (size \in Node /\ steady \subseteq Node)'
    BY <1>14 DEF Connect, Usable
  <2> QED
    BY <2>1, <2>2, <2>3, <2>4, <2>5, <2>6, <2>7, <2>8, <2>9, <2>10
<1>15. ASSUME NEW n \in Node, NodeStops(n) PROVE TypeOK'
  <2>1. (sock \in [Node -> {"none", "open", "broken"}])'
    BY <1>15 DEF NodeStops, Break
  <2>2. up' \subseteq Node /\ steady' \subseteq Node
    BY <1>15 DEF NodeStops
  <2>3. UNCHANGED <<version, timeout, ctx, failed, sess, unread, poolVars, loopVars, callVars>>
    BY <1>15 DEF NodeStops
  <2> QED
    BY <2>1, <2>2, <2>3
<1>16. ASSUME NEW n \in Node, NodeStarts(n) PROVE TypeOK'
    BY <1>16, ConstantsAssumption DEF NodeStarts
<1>17. ASSUME NEW n \in Node, ConnectionDrops(n) PROVE TypeOK'
  <2>1. (sock \in [Node -> {"none", "open", "broken"}])'
    BY <1>17 DEF ConnectionDrops, Break
  <2>2. (up \subseteq Node /\ version \in [Node -> 0..V] /\ timeout \in BOOLEAN /\ ctx \in 0..V)'
    BY <1>17 DEF ConnectionDrops
  <2>3. (pool \in 0..N /\ current \in Node /\ failed \in [Node -> BOOLEAN])'
    BY <1>17 DEF ConnectionDrops
  <2>4. (sess \in [Node -> 0..V] /\ unread \in [Node -> Nat])'
    BY <1>17 DEF ConnectionDrops
  <2>5. (pc \in Places /\ outcome \in Outcomes /\ target \in Node /\ then \in Places)'
    BY <1>17 DEF ConnectionDrops
  <2>6. (detecting \in BOOLEAN /\ i \in 1..(N + 1) /\ size \in Node /\ steady \subseteq Node)'
    BY <1>17 DEF ConnectionDrops
  <2> QED
    BY <2>1, <2>2, <2>3, <2>4, <2>5, <2>6
<1>18. CASE UNCHANGED vars
    BY <1>18
<1> QED
    BY <1>1, <1>2, <1>3, <1>4, <1>5, <1>6, <1>7, <1>8, <1>9, <1>10, <1>11, <1>12, <1>13, <1>14, <1>15, <1>16, <1>17, <1>18 DEF Next, Client, Compute, Transfer, Call, Environment

(* Each step keeps the indices of the loops over the pool.                  *)
LEMMA LoopStep ==
    TypeOK /\ LoopInv /\ [Next]_vars => LoopInv'
<1> SUFFICES ASSUME TypeOK, LoopInv, [Next]_vars PROVE LoopInv'
    OBVIOUS
<1>0. N \in Nat \ {0} /\ V \in Nat \ {0}
    BY ConstantsAssumption
<1> USE <1>0 DEF TypeOK, LoopInv, In, Scanned, Node, Version, vars, envVars, connVars, poolVars, loopVars, callVars
<1>1. CASE Attempt
    BY <1>1 DEF Attempt, AttemptBreaks, AttemptRefused, AttemptFallsBack, AttemptSucceeds, Return, Usable
<1>2. CASE Connecting
    BY <1>2 DEF Connecting, StartConnect, Append, Finish, AwareNow
<1>3. CASE Opened
    BY <1>3 DEF Opened, StartReconnect, StartConnect, Append, Finish, AwareNow
<1>4. CASE Rescheduled
    BY <1>4 DEF Rescheduled, Append, Finish
<1>5. CASE Reviving
    BY <1>5 DEF Reviving, StartReconnect, StartConnect, Use, Finish, AliveNodes
<1>6. CASE Revived
    BY <1>6 DEF Revived, Finish
<1>7. CASE Scanning
    BY <1>7 DEF Scanning, ScanOver, StartConnect, Finish
<1>8. CASE ScanReturns
    BY <1>8 DEF ScanReturns, Use, Finish
<1>9. CASE Send
    BY <1>9 DEF Send, SocketFails, Recover
<1>10. CASE Recv
    BY <1>10 DEF Recv, SocketFails, Recover, Finish
<1>11. CASE Recovered
    BY <1>11 DEF Recovered, Finish
<1>12. CASE Close
    BY <1>12 DEF Close, Finish
<1>13. CASE Query
  <2>1. CASE PickCurrent /\ current <= pool /\ ~Alive(current)
    <3>1. pc' = "scanning" /\ current' <= pool'
      <4>1. pc' = "scanning" /\ pool' = pool /\ pool \in Nat /\ current \in Nat
        BY <2>1, <1>13 DEF Query, PickCurrent, LeaveCurrent
      <4>2. current' = IF current + 1 > pool THEN 1 ELSE current + 1
        BY <2>1, <1>13 DEF Query, PickAlive, PickCurrent, LeaveCurrent, Use, Finish
      <4>3. current <= pool /\ 1 <= current
        BY <2>1
      <4> QED
        BY ONLY <4>1, <4>2, <4>3
    <3> QED
      BY <3>1
  <2>2. CASE ~(PickCurrent /\ current <= pool /\ ~Alive(current))
    <3>1. pc' \in {"idle", "send", "reviving"}
      BY <2>2, <1>13 DEF Query, PickAlive, PickCurrent, Use, Finish
    <3> QED
      BY <3>1
  <2> QED
    BY <2>1, <2>2
<1>14. ASSUME NEW k \in Node, Connect(k) PROVE LoopInv'
    BY <1>14 DEF Connect, Usable
<1>15. ASSUME NEW n \in Node, NodeStops(n) PROVE LoopInv'
    BY <1>15 DEF NodeStops, Break, Usable
<1>16. ASSUME NEW n \in Node, NodeStarts(n) PROVE LoopInv'
    BY <1>16 DEF NodeStarts, Usable
<1>17. ASSUME NEW n \in Node, ConnectionDrops(n) PROVE LoopInv'
    BY <1>17 DEF ConnectionDrops, Break
<1>18. CASE UNCHANGED vars
    BY <1>18
<1> QED
    BY <1>1, <1>2, <1>3, <1>4, <1>5, <1>6, <1>7, <1>8, <1>9, <1>10, <1>11, <1>12, <1>13, <1>14, <1>15, <1>16, <1>17, <1>18 DEF Next, Client, Compute, Transfer, Call, Environment

(* Each step keeps a context under the connections that are alive.          *)
LEMMA ContextStep ==
    TypeOK /\ LoopInv /\ ContextInv /\ [Next]_vars => ContextInv'
<1> SUFFICES ASSUME TypeOK, LoopInv, ContextInv, [Next]_vars PROVE ContextInv'
    OBVIOUS
<1>0. N \in Nat \ {0} /\ V \in Nat \ {0}
    BY ConstantsAssumption
<1> USE <1>0 DEF TypeOK, LoopInv, ContextInv, In, Alive, Node, Version, vars, envVars, connVars, poolVars, loopVars, callVars
<1>1. CASE Attempt
  <2>1. CASE AttemptBreaks
    BY <2>1, <1>1 DEF Attempt, AttemptBreaks, Return
  <2>2. CASE AttemptRefused
    BY <2>2, <1>1 DEF Attempt, AttemptRefused, Return, Usable
  <2>3. CASE AttemptFallsBack
    BY <2>3, <1>1 DEF Attempt, AttemptFallsBack, Usable
  <2>4. CASE AttemptSucceeds
    BY <2>4, <1>1 DEF Attempt, AttemptSucceeds, Return, Usable
  <2> QED
    BY <2>1, <2>2, <2>3, <2>4, <1>1 DEF Attempt
<1>2. CASE Connecting
    BY <1>2 DEF Connecting, StartConnect, Append, Finish, AwareNow
<1>3. CASE Opened
    BY <1>3 DEF Opened, StartReconnect, StartConnect, Append, Finish, AwareNow
<1>4. CASE Rescheduled
    BY <1>4 DEF Rescheduled, Append, Finish
<1>5. CASE Reviving
    BY <1>5 DEF Reviving, StartReconnect, StartConnect, Use, Finish, AliveNodes
<1>6. CASE Revived
    BY <1>6 DEF Revived, Finish
<1>7. CASE Scanning
    BY <1>7 DEF Scanning, ScanOver, StartConnect, Finish
<1>8. CASE ScanReturns
    BY <1>8 DEF ScanReturns, Use, Finish
<1>9. CASE Send
    BY <1>9 DEF Send, SocketFails, Recover
<1>10. CASE Recv
    BY <1>10 DEF Recv, SocketFails, Recover, Finish
<1>11. CASE Recovered
    BY <1>11 DEF Recovered, Finish
<1>12. CASE Close
    BY <1>12 DEF Close, Finish
<1>13. CASE Query
    BY <1>13 DEF Query, PickAlive, PickCurrent, LeaveCurrent, Use, Finish, AliveNodes, Usable
<1>14. ASSUME NEW k \in Node, Connect(k) PROVE ContextInv'
    BY <1>14 DEF Connect, Usable
<1>15. ASSUME NEW n \in Node, NodeStops(n) PROVE ContextInv'
    BY <1>15 DEF NodeStops, Break, Usable
<1>16. ASSUME NEW n \in Node, NodeStarts(n) PROVE ContextInv'
    BY <1>16 DEF NodeStarts, Usable
<1>17. ASSUME NEW n \in Node, ConnectionDrops(n) PROVE ContextInv'
    BY <1>17 DEF ConnectionDrops, Break
<1>18. CASE UNCHANGED vars
    BY <1>18
<1> QED
    BY <1>1, <1>2, <1>3, <1>4, <1>5, <1>6, <1>7, <1>8, <1>9, <1>10, <1>11, <1>12, <1>13, <1>14, <1>15, <1>16, <1>17, <1>18 DEF Next, Client, Compute, Transfer, Call, Environment

(* Each step leaves a reply outstanding only for the request being served.  *)
LEMMA ReplyStep ==
    TypeOK /\ LoopInv /\ ReplyInv /\ [Next]_vars => ReplyInv'
<1> SUFFICES ASSUME TypeOK, LoopInv, ReplyInv, [Next]_vars PROVE ReplyInv'
    OBVIOUS
<1>0. N \in Nat \ {0} /\ V \in Nat \ {0}
    BY ConstantsAssumption
<1> USE <1>0 DEF TypeOK, LoopInv, ReplyInv, In, Alive, Node, Version, vars, envVars, connVars, poolVars, loopVars, callVars
<1>1. CASE Attempt
  <2>1. CASE AttemptBreaks
    BY <2>1, <1>1 DEF Attempt, AttemptBreaks, Return
  <2>2. CASE AttemptRefused
    BY <2>2, <1>1 DEF Attempt, AttemptRefused, Return, Usable
  <2>3. CASE AttemptFallsBack
    BY <2>3, <1>1 DEF Attempt, AttemptFallsBack, Usable
  <2>4. CASE AttemptSucceeds
    BY <2>4, <1>1 DEF Attempt, AttemptSucceeds, Return, Usable
  <2> QED
    BY <2>1, <2>2, <2>3, <2>4, <1>1 DEF Attempt
<1>2. CASE Connecting
    BY <1>2 DEF Connecting, StartConnect, Append, Finish, AwareNow
<1>3. CASE Opened
    BY <1>3 DEF Opened, StartReconnect, StartConnect, Append, Finish, AwareNow
<1>4. CASE Rescheduled
    BY <1>4 DEF Rescheduled, Append, Finish
<1>5. CASE Reviving
    BY <1>5 DEF Reviving, StartReconnect, StartConnect, Use, Finish, AliveNodes
<1>6. CASE Revived
    BY <1>6 DEF Revived, Finish
<1>7. CASE Scanning
    BY <1>7 DEF Scanning, ScanOver, StartConnect, Finish
<1>8. CASE ScanReturns
    BY <1>8 DEF ScanReturns, Use, Finish
<1>9. CASE Send
  <2>1. CASE Recover
    BY <2>1, <1>9 DEF Send, SocketFails, Recover
  <2>2. CASE pc' = "recv"
    <3>0. Alive(target) /\ unread[target] \in Nat
      BY <1>9 DEF Send, SocketFails
    <3>5. unread[target] <= 1 /\ unread[target] # 1
      BY <3>0, <1>9 DEF Send, SocketFails
    <3>1. Alive(target) /\ unread[target] = 0
      BY <3>0, <3>5
    <3>2. UNCHANGED <<sock, failed, target>> /\ \A n \in Node : n # target => unread'[n] = unread[n]
      BY <2>2, <1>9 DEF Send, SocketFails, Recover
    <3>3. unread'[target] \in {0, 1}
      BY <2>2, <3>1, <1>9 DEF Send, SocketFails, Recover
    <3>4. ASSUME NEW n \in Node, n # target, Alive(n) PROVE unread[n] = 0
      <4>1. unread[n] \in Nat /\ unread[n] <= 1 /\ unread[n] # 1
        BY <3>4
      <4> QED
        BY <4>1
    <3> QED
      BY <2>2, <3>2, <3>3, <3>4
  <2> QED
    BY <2>1, <2>2, <1>9 DEF Send, SocketFails
<1>10. CASE Recv
  <2>1. CASE Recover
    BY <2>1, <1>10 DEF Recv, SocketFails, Recover
  <2>2. CASE pc' = "idle"
    <3>1. \A n \in Node : Alive(n) /\ n # target => unread[n] = 0
      <4>1. \A n \in Node : unread[n] \in Nat
        OBVIOUS
      <4>2. \A n \in Node : Alive(n) /\ n # target => unread[n] <= 1 /\ unread[n] # 1
        BY <1>10 DEF Recv
      <4> QED
        BY ONLY <4>1, <4>2
    <3>2. unread[target] \in Nat /\ unread[target] > 0 /\ unread' = [unread EXCEPT ![target] = unread[target] - 1]
      BY <2>2, <1>10 DEF Recv, SocketFails, Recover
    <3>3. UNCHANGED <<sock, failed>>
      BY <2>2, <1>10 DEF Recv, SocketFails, Recover
    <3>4. \A n \in Node : Alive(n) => unread'[n] = 0
      BY <3>1, <3>2
    <3> QED
      BY <2>2, <3>3, <3>4
  <2> QED
    BY <2>1, <2>2, <1>10 DEF Recv, SocketFails, Finish
<1>11. CASE Recovered
    BY <1>11 DEF Recovered, Finish
<1>12. CASE Close
    BY <1>12 DEF Close, Finish
<1>13. CASE Query
    BY <1>13 DEF Query, PickAlive, PickCurrent, LeaveCurrent, Use, Finish, AliveNodes, Usable
<1>14. ASSUME NEW k \in Node, Connect(k) PROVE ReplyInv'
    BY <1>14 DEF Connect, Usable
<1>15. ASSUME NEW n \in Node, NodeStops(n) PROVE ReplyInv'
    BY <1>15 DEF NodeStops, Break, Usable
<1>16. ASSUME NEW n \in Node, NodeStarts(n) PROVE ReplyInv'
    BY <1>16 DEF NodeStarts, Usable
<1>17. ASSUME NEW n \in Node, ConnectionDrops(n) PROVE ReplyInv'
    BY <1>17 DEF ConnectionDrops, Break
<1>18. CASE UNCHANGED vars
    BY <1>18
<1> QED
    BY <1>1, <1>2, <1>3, <1>4, <1>5, <1>6, <1>7, <1>8, <1>9, <1>10, <1>11, <1>12, <1>13, <1>14, <1>15, <1>16, <1>17, <1>18 DEF Next, Client, Compute, Transfer, Call, Environment

(* A node that stops is no longer steady.                                   *)
LEMMA SteadyStep ==
    TypeOK /\ SteadyInv /\ [Next]_vars => SteadyInv'
<1> SUFFICES ASSUME TypeOK, SteadyInv, [Next]_vars PROVE SteadyInv'
    OBVIOUS
<1>0. N \in Nat \ {0} /\ V \in Nat \ {0}
    BY ConstantsAssumption
<1> USE <1>0 DEF TypeOK, SteadyInv, Usable, Node, Version, vars, envVars, connVars, poolVars, loopVars, callVars
<1>1. CASE Attempt
    BY <1>1 DEF Attempt, AttemptBreaks, AttemptRefused, AttemptFallsBack, AttemptSucceeds, Return, Usable
<1>2. CASE Connecting
    BY <1>2 DEF Connecting, StartConnect, Append, Finish, AwareNow
<1>3. CASE Opened
    BY <1>3 DEF Opened, StartReconnect, StartConnect, Append, Finish, AwareNow
<1>4. CASE Rescheduled
    BY <1>4 DEF Rescheduled, Append, Finish
<1>5. CASE Reviving
    BY <1>5 DEF Reviving, StartReconnect, StartConnect, Use, Finish, AliveNodes
<1>6. CASE Revived
    BY <1>6 DEF Revived, Finish
<1>7. CASE Scanning
    BY <1>7 DEF Scanning, ScanOver, StartConnect, Finish
<1>8. CASE ScanReturns
    BY <1>8 DEF ScanReturns, Use, Finish
<1>9. CASE Send
    BY <1>9 DEF Send, SocketFails, Recover
<1>10. CASE Recv
    BY <1>10 DEF Recv, SocketFails, Recover, Finish
<1>11. CASE Recovered
    BY <1>11 DEF Recovered, Finish
<1>12. CASE Close
    BY <1>12 DEF Close, Finish
<1>13. CASE Query
    BY <1>13 DEF Query, PickAlive, PickCurrent, LeaveCurrent, Use, Finish, AliveNodes, Usable
<1>14. ASSUME NEW k \in Node, Connect(k) PROVE SteadyInv'
    BY <1>14 DEF Connect, Usable
<1>15. ASSUME NEW n \in Node, NodeStops(n) PROVE SteadyInv'
    BY <1>15 DEF NodeStops, Break, Usable
<1>16. ASSUME NEW n \in Node, NodeStarts(n) PROVE SteadyInv'
    BY <1>16 DEF NodeStarts, Usable
<1>17. ASSUME NEW n \in Node, ConnectionDrops(n) PROVE SteadyInv'
    BY <1>17 DEF ConnectionDrops, Break
<1>18. CASE UNCHANGED vars
    BY <1>18
<1> QED
    BY <1>1, <1>2, <1>3, <1>4, <1>5, <1>6, <1>7, <1>8, <1>9, <1>10, <1>11, <1>12, <1>13, <1>14, <1>15, <1>16, <1>17, <1>18 DEF Next, Client, Compute, Transfer, Call, Environment

(* connect() passes a node without a version only when it cannot be used.   *)
LEMMA ConnectStep ==
    TypeOK /\ LoopInv /\ ContextInv /\ ConnectInv /\ [Next]_vars => ConnectInv'
<1> SUFFICES ASSUME TypeOK, LoopInv, ContextInv, ConnectInv, [Next]_vars PROVE ConnectInv'
    OBVIOUS
<1>0. N \in Nat \ {0} /\ V \in Nat \ {0}
    BY ConstantsAssumption
<1> USE <1>0 DEF TypeOK, LoopInv, ContextInv, ConnectInv, In, Alive, Node, Version, vars, envVars, connVars, poolVars, loopVars, callVars
<1>1. CASE Attempt
  <2>1. CASE AttemptBreaks
    <3>1. pc' = then /\ pc' # "attempt" /\ pc' # "connecting"
      BY <2>1, <1>1 DEF Attempt, AttemptBreaks, Return
    <3>2. steady' = steady \ {target} /\ UNCHANGED i
      BY <2>1, <1>1 DEF Attempt, AttemptBreaks
    <3>3. ctx' = 0 => detecting
      BY <2>1, <1>1 DEF Attempt, AttemptBreaks
    <3>4. ASSUME then \in {"opened", "rescheduled"}, detecting PROVE (steady \cap 1..i = {})'
      <4>1. steady \cap 1..pool = {} /\ target = i /\ pool + 1 = i
        BY <3>4, <1>1 DEF Attempt
      <4>2. ASSUME NEW n \in steady, n # i, n \in 1..i PROVE FALSE
        <5>1. n \in 1..pool
          BY <4>1, <4>2
        <5> QED
          BY <4>1, <5>1
      <4> QED
        BY <3>2, <4>1, <4>2
    <3> QED
      BY <3>1, <3>3, <3>4
  <2>2. CASE AttemptRefused
    BY <2>2, <1>1 DEF Attempt, AttemptRefused, Return, Usable
  <2>3. CASE AttemptFallsBack
    BY <2>3, <1>1 DEF Attempt, AttemptFallsBack, Usable
  <2>4. CASE AttemptSucceeds
    BY <2>4, <1>1 DEF Attempt, AttemptSucceeds, Return, Usable
  <2> QED
    BY <2>1, <2>2, <2>3, <2>4, <1>1 DEF Attempt
<1>2. CASE Connecting
    BY <1>2 DEF Connecting, StartConnect, Append, Finish, AwareNow
<1>3. CASE Opened
  <2>1. CASE outcome = "ok" \/ ~AwareNow
    <3>1. pc' = "idle" \/ (pc' = "connecting" /\ pool' = i)
      BY <2>1, <1>3 DEF Opened, Append, Finish
    <3>2. UNCHANGED <<ctx, steady>>
      BY <2>1, <1>3 DEF Opened
    <3> QED
      BY <3>1, <3>2, <1>3 DEF Opened
  <2>2. CASE outcome # "ok" /\ AwareNow
    <3>1. ctx \in Nat /\ ctx # 0
      BY <2>2, ConstantsAssumption DEF AwareNow, Version
    <3>2. pc' = "idle" \/ (pc' = "rescheduled" /\ ctx' = ctx) \/ (pc' = "attempt" /\ detecting' = FALSE)
      BY <2>2, <3>1, <1>3 DEF Opened, StartReconnect, StartConnect, Finish
    <3> QED
      BY <3>1, <3>2
  <2> QED
    BY <2>1, <2>2
<1>4. CASE Rescheduled
    BY <1>4 DEF Rescheduled, Append, Finish
<1>5. CASE Reviving
    BY <1>5 DEF Reviving, StartReconnect, StartConnect, Use, Finish, AliveNodes
<1>6. CASE Revived
    BY <1>6 DEF Revived, Finish
<1>7. CASE Scanning
    BY <1>7 DEF Scanning, ScanOver, StartConnect, Finish
<1>8. CASE ScanReturns
    BY <1>8 DEF ScanReturns, Use, Finish
<1>9. CASE Send
    BY <1>9 DEF Send, SocketFails, Recover
<1>10. CASE Recv
    BY <1>10 DEF Recv, SocketFails, Recover, Finish
<1>11. CASE Recovered
    BY <1>11 DEF Recovered, Finish
<1>12. CASE Close
    BY <1>12 DEF Close, Finish
<1>13. CASE Query
    BY <1>13 DEF Query, PickAlive, PickCurrent, LeaveCurrent, Use, Finish, AliveNodes, Usable
<1>14. ASSUME NEW k \in Node, Connect(k) PROVE ConnectInv'
    BY <1>14 DEF Connect, Usable
<1>15. ASSUME NEW n \in Node, NodeStops(n) PROVE ConnectInv'
    BY <1>15 DEF NodeStops, Break, Usable
<1>16. ASSUME NEW n \in Node, NodeStarts(n) PROVE ConnectInv'
    BY <1>16 DEF NodeStarts, Usable
<1>17. ASSUME NEW n \in Node, ConnectionDrops(n) PROVE ConnectInv'
    BY <1>17 DEF ConnectionDrops, Break
<1>18. CASE UNCHANGED vars
    BY <1>18
<1> QED
    BY <1>1, <1>2, <1>3, <1>4, <1>5, <1>6, <1>7, <1>8, <1>9, <1>10, <1>11, <1>12, <1>13, <1>14, <1>15, <1>16, <1>17, <1>18 DEF Next, Client, Compute, Transfer, Call, Environment

(* The reconnecting loop leaves the steady nodes it passes alive.           *)
LEMMA ReviveStep ==
    TypeOK /\ LoopInv /\ SteadyInv /\ ReviveInv /\ [Next]_vars => ReviveInv'
<1> SUFFICES ASSUME TypeOK, LoopInv, SteadyInv, ReviveInv, [Next]_vars PROVE ReviveInv'
    OBVIOUS
<1>0. N \in Nat \ {0} /\ V \in Nat \ {0}
    BY ConstantsAssumption
<1> USE <1>0 DEF TypeOK, LoopInv, ReviveInv, SteadyInv, In, Alive, Node, Version, vars, envVars, connVars, poolVars, loopVars, callVars
<1>1. CASE Attempt
  <2>1. CASE AttemptBreaks
    BY <2>1, <1>1 DEF Attempt, AttemptBreaks, Return
  <2>2. CASE AttemptRefused
    BY <2>2, <1>1 DEF Attempt, AttemptRefused, Return, Usable
  <2>3. CASE AttemptFallsBack
    BY <2>3, <1>1 DEF Attempt, AttemptFallsBack, Usable
  <2>4. CASE AttemptSucceeds
    BY <2>4, <1>1 DEF Attempt, AttemptSucceeds, Return, Usable
  <2> QED
    BY <2>1, <2>2, <2>3, <2>4, <1>1 DEF Attempt
<1>2. CASE Connecting
    BY <1>2 DEF Connecting, StartConnect, Append, Finish, AwareNow
<1>3. CASE Opened
    BY <1>3 DEF Opened, StartReconnect, StartConnect, Append, Finish, AwareNow
<1>4. CASE Rescheduled
    BY <1>4 DEF Rescheduled, Append, Finish
<1>5. CASE Reviving
    BY <1>5 DEF Reviving, StartReconnect, StartConnect, Use, Finish, AliveNodes
<1>6. CASE Revived
  <2>1. target = i /\ UNCHANGED <<steady, sock, failed>>
    BY <1>6 DEF Revived
  <2>2. CASE pc' = "idle"
    BY <2>2
  <2>3. CASE pc' = "reviving" /\ i' = i + 1 /\ outcome # "raise"
    <3>1. \A n \in steady : n < i => Alive(n)
      BY <1>6 DEF Revived
    <3>2. i \in steady => Alive(i)
      BY <2>3, <1>6 DEF Revived
    <3>3. \A n \in steady : n \in Nat
      OBVIOUS
    <3>4. \A n \in steady : n < i + 1 => n < i \/ n = i
      BY ONLY <3>3, i \in 1..(N + 1), <1>0
    <3>5. \A n \in steady : n < i + 1 => Alive(n)
      BY <3>1, <3>2, <3>4
    <3> QED
      BY <2>1, <2>3, <3>5
  <2> QED
    BY <2>2, <2>3, <1>6 DEF Revived, Finish
<1>7. CASE Scanning
    BY <1>7 DEF Scanning, ScanOver, StartConnect, Finish
<1>8. CASE ScanReturns
    BY <1>8 DEF ScanReturns, Use, Finish
<1>9. CASE Send
    BY <1>9 DEF Send, SocketFails, Recover
<1>10. CASE Recv
    BY <1>10 DEF Recv, SocketFails, Recover, Finish
<1>11. CASE Recovered
    BY <1>11 DEF Recovered, Finish
<1>12. CASE Close
    BY <1>12 DEF Close, Finish
<1>13. CASE Query
  <2>1. pc' = "reviving" => i' = 1
    BY <1>13 DEF Query, PickAlive, PickCurrent, LeaveCurrent, Use, Finish
  <2>2. pc' \in {"reviving", "send", "idle", "scanning"}
    BY <1>13 DEF Query, PickAlive, PickCurrent, LeaveCurrent, Use, Finish
  <2>3. (steady \subseteq Node)'
    BY <1>13 DEF Query, Usable
  <2> QED
    BY <2>1, <2>2, <2>3
<1>14. ASSUME NEW k \in Node, Connect(k) PROVE ReviveInv'
    BY <1>14 DEF Connect, Usable
<1>15. ASSUME NEW n \in Node, NodeStops(n) PROVE ReviveInv'
    BY <1>15 DEF NodeStops, Break, Usable
<1>16. ASSUME NEW n \in Node, NodeStarts(n) PROVE ReviveInv'
    BY <1>16 DEF NodeStarts, Usable
<1>17. ASSUME NEW n \in Node, ConnectionDrops(n) PROVE ReviveInv'
    BY <1>17 DEF ConnectionDrops, Break
<1>18. CASE UNCHANGED vars
    BY <1>18
<1> QED
    BY <1>1, <1>2, <1>3, <1>4, <1>5, <1>6, <1>7, <1>8, <1>9, <1>10, <1>11, <1>12, <1>13, <1>14, <1>15, <1>16, <1>17, <1>18 DEF Next, Client, Compute, Transfer, Call, Environment

(* The scan passes only nodes that are not steady.                          *)
LEMMA ScanStep ==
    TypeOK /\ LoopInv /\ SteadyInv /\ ScanInv /\ [Next]_vars => ScanInv'
<1> SUFFICES ASSUME TypeOK, LoopInv, SteadyInv, ScanInv, [Next]_vars PROVE ScanInv'
    OBVIOUS
<1>0. N \in Nat \ {0} /\ V \in Nat \ {0}
    BY ConstantsAssumption
<1> USE <1>0 DEF TypeOK, LoopInv, SteadyInv, ScanInv, Scanned, In, Node, Version, vars, envVars, connVars, poolVars, loopVars, callVars
<1>1. CASE Attempt
  <2>1. CASE AttemptBreaks
    BY <2>1, <1>1 DEF Attempt, AttemptBreaks, Return
  <2>2. CASE AttemptRefused
    BY <2>2, <1>1 DEF Attempt, AttemptRefused, Return, Usable
  <2>3. CASE AttemptFallsBack
    BY <2>3, <1>1 DEF Attempt, AttemptFallsBack, Usable
  <2>4. CASE AttemptSucceeds
    BY <2>4, <1>1 DEF Attempt, AttemptSucceeds, Return, Usable
  <2> QED
    BY <2>1, <2>2, <2>3, <2>4, <1>1 DEF Attempt
<1>2. CASE Connecting
    BY <1>2 DEF Connecting, StartConnect, Append, Finish, AwareNow
<1>3. CASE Opened
    BY <1>3 DEF Opened, StartReconnect, StartConnect, Append, Finish, AwareNow
<1>4. CASE Rescheduled
    BY <1>4 DEF Rescheduled, Append, Finish
<1>5. CASE Reviving
    BY <1>5 DEF Reviving, StartReconnect, StartConnect, Use, Finish, AliveNodes
<1>6. CASE Revived
    BY <1>6 DEF Revived, Finish
<1>7. CASE Scanning
    BY <1>7 DEF Scanning, ScanOver, StartConnect, Finish
<1>8. CASE ScanReturns
  <2>1. CASE outcome = "connErr"
    <3>1. pc' = "scanning" /\ i' = i + 1 /\ UNCHANGED <<steady, current, pool>>
      BY <2>1, <1>8 DEF ScanReturns
    <3>2. Scanned(i) \notin steady
      BY <2>1, <1>8 DEF ScanReturns
    <3>3. ASSUME NEW k \in 1..i PROVE Scanned(k) \notin steady
      <4>1. CASE k = i
        BY <4>1, <3>2
      <4>2. CASE k # i
        <5>1. k \in 1..(i - 1)
          BY <4>2
        <5> QED
          BY <5>1, <1>8 DEF ScanReturns
      <4> QED
        BY <4>1, <4>2
    <3> QED
      BY <3>1, <3>3
  <2>2. CASE outcome # "connErr"
    <3>1. pc' \in {"send", "idle"}
      BY <2>2, <1>8 DEF ScanReturns, Use, Finish
    <3> QED
      BY <3>1
  <2> QED
    BY <2>1, <2>2
<1>9. CASE Send
    BY <1>9 DEF Send, SocketFails, Recover
<1>10. CASE Recv
    BY <1>10 DEF Recv, SocketFails, Recover, Finish
<1>11. CASE Recovered
    BY <1>11 DEF Recovered, Finish
<1>12. CASE Close
    BY <1>12 DEF Close, Finish
<1>13. CASE Query
  <2>1. pc' = "scanning" => i' = 1
    BY <1>13 DEF Query, PickAlive, PickCurrent, LeaveCurrent, Use, Finish
  <2>2. pc' \in {"reviving", "send", "idle", "scanning"}
    BY <1>13 DEF Query, PickAlive, PickCurrent, LeaveCurrent, Use, Finish
  <2> QED
    BY <2>1, <2>2
<1>14. ASSUME NEW k \in Node, Connect(k) PROVE ScanInv'
    BY <1>14 DEF Connect, Usable
<1>15. ASSUME NEW n \in Node, NodeStops(n) PROVE ScanInv'
    BY <1>15 DEF NodeStops, Break, Usable
<1>16. ASSUME NEW n \in Node, NodeStarts(n) PROVE ScanInv'
    BY <1>16 DEF NodeStarts, Usable
<1>17. ASSUME NEW n \in Node, ConnectionDrops(n) PROVE ScanInv'
    BY <1>17 DEF ConnectionDrops, Break
<1>18. CASE UNCHANGED vars
    BY <1>18
<1> QED
    BY <1>1, <1>2, <1>3, <1>4, <1>5, <1>6, <1>7, <1>8, <1>9, <1>10, <1>11, <1>12, <1>13, <1>14, <1>15, <1>16, <1>17, <1>18 DEF Next, Client, Compute, Transfer, Call, Environment

(* A loop that ends with ReconnectError has passed the whole pool.          *)
LEMMA OutStep ==
    TypeOK /\ LoopInv /\ ConnectInv /\ ReviveInv /\ ScanInv /\ OutOfNodes /\ [Next]_vars => OutOfNodes'
<1> SUFFICES ASSUME TypeOK, LoopInv, ConnectInv, ReviveInv, ScanInv, OutOfNodes, [Next]_vars PROVE OutOfNodes'
    OBVIOUS
<1>0. N \in Nat \ {0} /\ V \in Nat \ {0}
    BY ConstantsAssumption
<1> USE <1>0 DEF TypeOK, LoopInv, OutOfNodes, In, Node, Version, vars, envVars, connVars, poolVars, loopVars, callVars
<1>1. CASE Attempt
  <2>1. CASE AttemptBreaks
    BY <2>1, <1>1 DEF Attempt, AttemptBreaks, Return
  <2>2. CASE AttemptRefused
    BY <2>2, <1>1 DEF Attempt, AttemptRefused, Return, Usable
  <2>3. CASE AttemptFallsBack
    BY <2>3, <1>1 DEF Attempt, AttemptFallsBack, Usable
  <2>4. CASE AttemptSucceeds
    BY <2>4, <1>1 DEF Attempt, AttemptSucceeds, Return, Usable
  <2> QED
    BY <2>1, <2>2, <2>3, <2>4, <1>1 DEF Attempt
<1>2. CASE Connecting
  <2>1. CASE pc' = "idle" /\ outcome' = "reconnectError"
    <3>1. ctx = 0 /\ UNCHANGED <<steady, pool>>
      BY <2>1, <1>2 DEF Connecting, StartConnect, Append, Finish
    <3> QED
      BY <3>1, <1>2 DEF Connecting, ConnectInv
  <2>2. CASE ~(pc' = "idle" /\ outcome' = "reconnectError")
    BY <2>2
  <2> QED
    BY <2>1, <2>2
<1>3. CASE Opened
    BY <1>3 DEF Opened, StartReconnect, StartConnect, Append, Finish, AwareNow
<1>4. CASE Rescheduled
    BY <1>4 DEF Rescheduled, Append, Finish
<1>5. CASE Reviving
  <2>1. CASE pc' = "idle" /\ outcome' = "reconnectError"
    <3>1. i > pool /\ AliveNodes = {} /\ UNCHANGED <<steady, pool>>
      BY <2>1, <1>5 DEF Reviving, StartReconnect, StartConnect, Use, Finish
    <3>2. \A n \in steady : n < i => Alive(n)
      BY <1>5 DEF Reviving, ReviveInv
    <3>3. ASSUME NEW n \in 1..pool PROVE n \notin steady
      <4>1. n < i
        BY <3>1
      <4>2. ~Alive(n)
        BY <3>1 DEF AliveNodes
      <4> QED
        BY <3>2, <4>1, <4>2
    <3> QED
      BY <3>1, <3>3
  <2>2. CASE ~(pc' = "idle" /\ outcome' = "reconnectError")
    BY <2>2
  <2> QED
    BY <2>1, <2>2
<1>6. CASE Revived
    BY <1>6 DEF Revived, Finish
<1>7. CASE Scanning
  <2>1. CASE pc' = "idle" /\ outcome' = "reconnectError"
    <3>1. i > pool /\ current <= pool /\ UNCHANGED <<steady, pool>>
      BY <2>1, <1>7 DEF Scanning, ScanOver, StartConnect, Finish
    <3>2. \A k \in 1..pool : Scanned(k) \notin steady
      BY <3>1, <1>7 DEF Scanning, ScanInv
    <3>3. ASSUME NEW n \in 1..pool PROVE n \notin steady
      <4>1. CASE n >= current
        <5>1. n - current + 1 \in 1..pool /\ Scanned(n - current + 1) = n
          BY <4>1 DEF Scanned
        <5> QED
          BY <5>1, <3>2
      <4>2. CASE n < current
        <5>1. n - current + 1 + pool \in 1..pool /\ Scanned(n - current + 1 + pool) = n
          BY <4>2, <3>1 DEF Scanned
        <5> QED
          BY <5>1, <3>2
      <4> QED
        BY <4>1, <4>2
    <3> QED
      BY <3>1, <3>3
  <2>2. CASE ~(pc' = "idle" /\ outcome' = "reconnectError")
    BY <2>2
  <2> QED
    BY <2>1, <2>2
<1>8. CASE ScanReturns
    BY <1>8 DEF ScanReturns, Use, Finish
<1>9. CASE Send
    BY <1>9 DEF Send, SocketFails, Recover
<1>10. CASE Recv
    BY <1>10 DEF Recv, SocketFails, Recover, Finish
<1>11. CASE Recovered
    BY <1>11 DEF Recovered, Finish
<1>12. CASE Close
    BY <1>12 DEF Close, Finish
<1>13. CASE Query
    BY <1>13 DEF Query, PickAlive, PickCurrent, LeaveCurrent, Use, Finish, AliveNodes, Usable
<1>14. ASSUME NEW k \in Node, Connect(k) PROVE OutOfNodes'
    BY <1>14 DEF Connect, Usable
<1>15. ASSUME NEW n \in Node, NodeStops(n) PROVE OutOfNodes'
    BY <1>15 DEF NodeStops, Break, Usable
<1>16. ASSUME NEW n \in Node, NodeStarts(n) PROVE OutOfNodes'
    BY <1>16 DEF NodeStarts, Usable
<1>17. ASSUME NEW n \in Node, ConnectionDrops(n) PROVE OutOfNodes'
    BY <1>17 DEF ConnectionDrops, Break
<1>18. CASE UNCHANGED vars
    BY <1>18
<1> QED
    BY <1>1, <1>2, <1>3, <1>4, <1>5, <1>6, <1>7, <1>8, <1>9, <1>10, <1>11, <1>12, <1>13, <1>14, <1>15, <1>16, <1>17, <1>18 DEF Next, Client, Compute, Transfer, Call, Environment

-----------------------------------------------------------------------------

(* The invariant holds of every state, for every list of addresses.         *)
THEOREM Invariance == Spec => []IInv
<1>1. Init => IInv
  <2> SUFFICES ASSUME Init PROVE IInv
    OBVIOUS
  <2>1. TypeOK
    <3>1. 0 \in 0..V /\ 0 \in 0..N /\ 1 \in Node /\ 1 \in 1..(N + 1)
      BY ConstantsAssumption DEF Node
    <3>2. up \subseteq Node /\ version \in [Node -> 0..V] /\ timeout \in BOOLEAN /\ ctx \in 0..V /\ pool \in 0..N
      BY <3>1, ConstantsAssumption DEF Init
    <3>3. /\ sock \in [Node -> {"none", "open", "broken"}] /\ failed \in [Node -> BOOLEAN]
          /\ sess \in [Node -> 0..V] /\ unread \in [Node -> Nat]
      BY <3>1 DEF Init
    <3>4. /\ pc \in Places /\ outcome \in Outcomes /\ then \in Places
          /\ detecting \in BOOLEAN /\ steady \subseteq Node
      BY DEF Init, Places, Outcomes
    <3>5. current \in Node /\ target \in Node /\ size \in Node /\ i \in 1..(N + 1)
      BY <3>1 DEF Init
    <3> QED
      BY <3>2, <3>3, <3>4, <3>5 DEF TypeOK
  <2>2. LoopInv
    BY DEF Init, LoopInv, In
  <2>3. ContextInv /\ ReplyInv
    BY DEF Init, ContextInv, ReplyInv, Alive
  <2>4. SteadyInv /\ ConnectInv /\ ReviveInv /\ ScanInv /\ OutOfNodes
    BY DEF Init, SteadyInv, ConnectInv, ReviveInv, ScanInv, OutOfNodes, In
  <2> QED
    BY <2>1, <2>2, <2>3, <2>4 DEF IInv
<1>2. IInv /\ [Next]_vars => IInv'
  BY TypeStep, LoopStep, ContextStep, ReplyStep, SteadyStep, ConnectStep,
     ReviveStep, ScanStep, OutStep DEF IInv
<1> QED
  BY <1>1, <1>2, PTL DEF Spec

(* The variables of the client keep their types; in particular              *)
(* _current_node stays within the addresses and the loops within the pool.  *)
THEOREM TypeCorrect == Spec => []TypeOK
<1>1. IInv => TypeOK
  BY DEF IInv
<1> QED
  BY Invariance, <1>1, PTL

(* No failed handshake takes the protocol context away from a connection    *)
(* that is alive.                                                           *)
THEOREM ContextIsKept == Spec => []ContextKnown
<1>1. IInv => ContextKnown
  BY DEF IInv, ContextInv, ContextKnown
<1> QED
  BY Invariance, <1>1, PTL

(* The shared protocol context is never newer than a live session.          *)
THEOREM ContextIsNotNewer == Spec => []NeverNewerThanSession
<1>1. IInv => NeverNewerThanSession
  BY DEF IInv, ContextInv, NeverNewerThanSession
<1> QED
  BY Invariance, <1>1, PTL

(* A request is only written to a session with no reply outstanding.        *)
THEOREM RepliesAreInStep == Spec => []InStep
<1>1. TypeOK /\ ReplyInv => InStep
  <2> SUFFICES ASSUME TypeOK, ReplyInv, pc = "send" PROVE unread[target] = 0
    BY DEF InStep
  <2>1. unread[target] \in Nat /\ unread[target] <= 1 /\ unread[target] # 1
    BY DEF TypeOK, ReplyInv
  <2> QED
    BY <2>1
<1>2. IInv => InStep
  BY <1>1 DEF IInv
<1> QED
  BY Invariance, <1>2, PTL

(* connect() and random_node give up only when no node of the pool could be *)
(* used all along.                                                          *)
THEOREM NoNodeIsOverlooked == Spec => []OutOfNodes
<1>1. IInv => OutOfNodes
  BY DEF IInv
<1> QED
  BY Invariance, <1>1, PTL
=============================================================================
