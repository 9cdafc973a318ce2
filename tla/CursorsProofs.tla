---------------------------- MODULE CursorsProofs ----------------------------
(****************************************************************************)
(* What Cursors guarantees for any number of tasks, cursors, rows, pages    *)
(* and lost sessions.  The argument: the ids of one session grow, so the id *)
(* of a cursor that was opened in this session is held for its query or for *)
(* none, and a request keeps that id however often the cursor is opened.    *)
(* Of a cursor with one query, the answers that tasks decode are disjoint   *)
(* pages, behind them are the rows that the query has left, and none of     *)
(* these rows was taken before; so no row comes twice.  While one task uses *)
(* the cursor, what was taken is also all before the next page, and the     *)
(* query is held only as long as there are more.                            *)
(****************************************************************************)
EXTENDS Cursors, SequenceTheorems, TLAPS

-----------------------------------------------------------------------------
(* The invariant                                                            *)

(* A task that waits or decodes is at a cursor, which has come as far as    *)
(* that needs; a cursor with data has an id.                                *)
OnInv ==
    /\ \A t \in Task :
          /\ pc[t] # "idle" => on[t] \in Cursor
          /\ pc[t] \in {"opening", "opened"} => on[t] \in connected
          /\ pc[t] \in {"paging", "paged"} => on[t] \in fetched
          /\ pc[t] = "opened" => answer[t] = [of |-> on[t], next |-> 1] /\ wanted[t] # 0
          /\ pc[t] = "paged" => answer[t] \in Query
    /\ \A c \in fetched : id[c] # 0

(* The ids of this session are those up to the last one; that of a cursor   *)
(* of this session is its own, and so are those in its requests and in the  *)
(* answers that open it.                                                    *)
IdInv ==
    /\ DOMAIN held \subseteq 1 .. lastId
    /\ \A c \in Cursor : session[c] <= losses
    /\ \A c \in Cursor : session[c] = losses =>
          id[c] <= lastId /\ (id[c] \in DOMAIN held => held[id[c]].of = c)
    /\ \A t \in Task : pc[t] = "opened" =>
          /\ since[t] <= losses
          /\ since[t] = losses =>
                /\ wanted[t] <= lastId
                /\ wanted[t] \in DOMAIN held => held[wanted[t]].of = on[t]
    /\ \A t \in Task : pc[t] = "paging" /\ on[t] \notin outlived =>
          /\ wanted[t] <= lastId
          /\ wanted[t] \in DOMAIN held => held[wanted[t]].of = on[t]
    /\ \A t \in Task : pc[t] = "paged" /\ on[t] \notin outlived => answer[t].of = on[t]

IInv == TypeOK /\ OnInv /\ IdInv /\ OwnRows

-----------------------------------------------------------------------------
(* Pages and what the node holds                                            *)

HeldTypes == DOMAIN held \subseteq 1 .. MaxId /\ \A i \in DOMAIN held : held[i] \in Query

(* A page has the next rows of its query, and a row if any is left.         *)
LEMMA PageRows ==
    ASSUME NEW q \in Answer, q.next <= Size[q.of] + 1
    PROVE  /\ Page(q) \in Seq(Row) /\ Len(Page(q)) = PageLength(q)
           /\ PageLength(q) \in Nat /\ PageLength(q) <= PageSize
           /\ DOMAIN Page(q) = 1 .. PageLength(q)
           /\ \A m \in DOMAIN Page(q) : Page(q)[m] = <<q.of, q.next + m - 1>>
           /\ q \in Query => Page(q) # <<>>
           /\ IsLast(q) => q.next + PageLength(q) = Size[q.of] + 1
           /\ ~IsLast(q) => PageLength(q) = PageSize
<1> DEFINE c == q.of
           n == q.next
           size == Size[q.of]
           len == PageLength(q)
<1>0. size \in Nat /\ PageSize \in Nat \ {0} /\ c \in Cursor /\ n \in Nat \ {0} /\ n <= size + 1
  BY ConstantsAssumption DEF Answer
<1>1. IsLast(q) <=> n + PageSize > size
  BY DEF IsLast
<1>2. len = IF IsLast(q) THEN size + 1 - n ELSE PageSize
  BY DEF PageLength
<1>3. Page(q) = [m \in 1 .. len |-> <<c, n + m - 1>>]
  BY DEF Page
<1>4. q \in Query => n <= size
  BY DEF Query
<1> HIDE DEF c, n, size, len
<1>5. len \in Nat /\ len <= PageSize
  BY <1>0, <1>1, <1>2
<1>6. IsLast(q) => n + len = size + 1
  BY <1>0, <1>2
<1>7. ~IsLast(q) => len = PageSize
  BY <1>2
<1>8. \A m \in 1 .. len : <<c, n + m - 1>> \in Row
  BY <1>0, <1>5 DEF Row
<1>9. Page(q) \in Seq(Row) /\ Len(Page(q)) = len /\ DOMAIN Page(q) = 1 .. len
  BY <1>3, <1>5, <1>8
<1>10. \A m \in DOMAIN Page(q) : Page(q)[m] = <<c, n + m - 1>>
  BY <1>3, <1>9
<1>11. q \in Query => len > 0
  BY <1>0, <1>1, <1>2, <1>4
<1>12. q \in Query => Page(q) # <<>>
  BY <1>9, <1>11, EmptySeq
<1> QED BY <1>5, <1>6, <1>7, <1>9, <1>10, <1>12 DEF c, n, size, len

(* The first page is of the query, and may be empty.                        *)
LEMMA FirstPage ==
    ASSUME NEW c \in Cursor
    PROVE  [of |-> c, next |-> 1] \in Answer /\ 1 <= Size[c] + 1 /\ Size[c] \in Nat
BY ConstantsAssumption DEF Answer

(* A later page is of a query with rows left.                               *)
LEMMA QueryIsAnswer ==
    ASSUME NEW q \in Query
    PROVE  /\ q \in Answer /\ q.of \in Cursor /\ q.next \in Nat \ {0}
           /\ Size[q.of] \in Nat /\ q.next <= Size[q.of] /\ q.next <= Size[q.of] + 1
<1>1. q \in Answer /\ q.next <= Size[q.of]
  BY DEF Query
<1>2. q.of \in Cursor /\ q.next \in Nat \ {0}
  BY <1>1 DEF Answer
<1>3. Size[q.of] \in Nat
  BY <1>2, ConstantsAssumption
<1> QED BY <1>1, <1>2, <1>3

(* A query that is served stays the query of its cursor.                    *)
LEMMA Served ==
    ASSUME HeldTypes, NEW q \in Answer, NEW i \in 1 .. MaxId, Serve(q, i)
    PROVE  /\ HeldTypes'
           /\ DOMAIN held' \subseteq DOMAIN held \cup {i}
           /\ \A j \in DOMAIN held : j # i => j \in DOMAIN held'
           /\ \A j \in DOMAIN held' : held'[j] = IF j = i THEN Rest(q) ELSE held[j]
           /\ \A j \in DOMAIN held' : held'[j].of = IF j = i THEN q.of ELSE held[j].of
           /\ i \in DOMAIN held' <=> ~IsLast(q)
           /\ Rest(q).of = q.of /\ Rest(q).next = q.next + PageSize
<1>0. PageSize \in Nat \ {0} /\ MaxId \in Nat
  BY ConstantsAssumption
<1>1. q.of \in Cursor /\ q.next \in Nat \ {0} /\ Size[q.of] \in Nat
  BY ConstantsAssumption DEF Answer
<1>2. q = [of |-> q.of, next |-> q.next]
  BY DEF Answer
<1>3. Rest(q) = [of |-> q.of, next |-> q.next + PageSize]
  BY <1>2 DEF Rest
<1>4. IsLast(q) <=> q.next + PageSize > Size[q.of]
  BY DEF IsLast
<1>5. Rest(q).of = q.of /\ Rest(q).next = q.next + PageSize
  BY <1>3
<1>6. Rest(q) \in Answer
  BY <1>0, <1>1, <1>3 DEF Answer
<1>7. ~IsLast(q) => Rest(q) \in Query
  BY <1>0, <1>1, <1>4, <1>5, <1>6 DEF Query
<1>8. DOMAIN held' = IF IsLast(q) THEN DOMAIN held \ {i} ELSE DOMAIN held \cup {i}
  BY DEF Serve
<1>9. \A j \in DOMAIN held' : held'[j] = IF j = i THEN Rest(q) ELSE held[j]
  BY DEF Serve
<1>10. \A j \in DOMAIN held' : held'[j] \in Query
  <2> TAKE j \in DOMAIN held'
  <2>1. CASE j = i
    BY <1>7, <1>8, <1>9, <2>1
  <2>2. CASE j # i
    BY <1>8, <1>9, <2>2 DEF HeldTypes
  <2> QED BY <2>1, <2>2
<1>11. \A j \in DOMAIN held' : held'[j].of = IF j = i THEN q.of ELSE held[j].of
  BY <1>5, <1>9
<1>12. DOMAIN held' \subseteq DOMAIN held \cup {i}
  BY <1>8
<1>13. HeldTypes'
  BY <1>10, <1>12 DEF HeldTypes
<1>14. i \in DOMAIN held' <=> ~IsLast(q)
  BY <1>8
<1>15. \A j \in DOMAIN held : j # i => j \in DOMAIN held'
  BY <1>8
<1> QED BY <1>5, <1>9, <1>11, <1>12, <1>13, <1>14, <1>15

(* What is asked of a query that is held.                                   *)
LEMMA HeldQuery ==
    ASSUME HeldTypes, NEW i \in DOMAIN held
    PROVE  i \in 1 .. MaxId /\ i # 0 /\ held[i] \in Query /\ held[i] \in Answer
<1>1. MaxId \in Nat
  BY ConstantsAssumption
<1> QED BY <1>1, QueryIsAnswer DEF HeldTypes

(* A row is returned and the others remain.                                 *)
LEMMA Returned ==
    ASSUME TypeOK, NEW c \in Cursor, NEW p \in Seq(Row), p # <<>>, Returns(c, p)
    PROVE  /\ data' \in [Cursor -> Seq(Row)] /\ returned' \in [Cursor -> Seq(Row)]
           /\ data'[c] = Tail(p) /\ returned'[c] = Append(returned[c], Head(p))
           /\ \A d \in Cursor : d # c => data'[d] = data[d] /\ returned'[d] = returned[d]
           /\ Len(data'[c]) \in Nat /\ Len(returned[c]) \in Nat
           /\ Len(data'[c]) = Len(p) - 1 /\ Len(returned'[c]) = Len(returned[c]) + 1
           /\ \A m \in DOMAIN data'[c] :
                 m \in Nat \ {0} /\ m + 1 \in DOMAIN p /\ data'[c][m] = p[m + 1]
           /\ 1 \in DOMAIN p
           /\ \A m \in DOMAIN returned'[c] :
                 \/ m = Len(returned[c]) + 1 /\ returned'[c][m] = p[1]
                 \/ m \in DOMAIN returned[c] /\ returned'[c][m] = returned[c][m]
<1>0. data \in [Cursor -> Seq(Row)] /\ returned \in [Cursor -> Seq(Row)]
  BY DEF TypeOK
<1>1. Head(p) \in Row /\ Tail(p) \in Seq(Row) /\ Head(p) = p[1] /\ Len(Tail(p)) = Len(p) - 1
  BY HeadTailProperties
<1>2. data' = [data EXCEPT ![c] = Tail(p)]
  BY DEF Returns
<1>3. returned' = [returned EXCEPT ![c] = Append(returned[c], Head(p))]
  BY DEF Returns
<1>4. data' \in [Cursor -> Seq(Row)]
  BY <1>0, <1>1, <1>2
<1>5. Append(returned[c], Head(p)) \in Seq(Row)
  BY <1>0, <1>1, AppendProperties
<1>6. returned' \in [Cursor -> Seq(Row)]
  BY <1>0, <1>3, <1>5
<1>7. \A d \in Cursor : d # c => data'[d] = data[d] /\ returned'[d] = returned[d]
  BY <1>0, <1>2, <1>3
<1>8. data'[c] = Tail(p) /\ returned'[c] = Append(returned[c], Head(p))
  BY <1>0, <1>2, <1>3
<1>9. returned[c] \in Seq(Row) /\ Len(returned[c]) \in Nat
  BY <1>0
<1>10. \A m \in DOMAIN Tail(p) : m \in Nat \ {0} /\ m + 1 \in DOMAIN p /\ Tail(p)[m] = p[m + 1]
  BY HeadTailProperties
<1>11. /\ Len(Append(returned[c], Head(p))) = Len(returned[c]) + 1
       /\ DOMAIN Append(returned[c], Head(p)) = 1 .. (Len(returned[c]) + 1)
  BY <1>1, <1>9, AppendProperties
<1>12. \A m \in DOMAIN returned'[c] :
          \/ m = Len(returned[c]) + 1 /\ returned'[c][m] = p[1]
          \/ m \in DOMAIN returned[c] /\ returned'[c][m] = returned[c][m]
  <2>1. \A m \in 1 .. Len(returned[c]) : returned'[c][m] = returned[c][m]
    BY <1>1, <1>8, <1>9, AppendProperties
  <2>2. returned'[c][Len(returned[c]) + 1] = p[1]
    BY <1>1, <1>8, <1>9, AppendProperties
  <2>3. DOMAIN returned[c] = 1 .. Len(returned[c])
    BY <1>9
  <2> TAKE m \in DOMAIN returned'[c]
  <2>4. CASE m = Len(returned[c]) + 1
    BY <2>2, <2>4
  <2>5. CASE m \in 1 .. Len(returned[c])
    BY <2>1, <2>3, <2>5
  <2> QED BY <1>8, <1>9, <1>11, <2>4, <2>5
<1>13. 1 \in DOMAIN p
  <2>1. Len(p) \in Nat \ {0} /\ DOMAIN p = 1 .. Len(p)
    BY EmptySeq
  <2> QED BY <2>1
<1>14. Len(Tail(p)) \in Nat
  BY <1>1
<1> QED BY <1>1, <1>4, <1>6, <1>7, <1>8, <1>9, <1>10, <1>11, <1>12, <1>13, <1>14

-----------------------------------------------------------------------------
(* Type correctness, one part of the state at a time                        *)

CursorTypes ==
    /\ connected \subseteq Cursor /\ fetched \subseteq connected
    /\ more \subseteq fetched
    /\ id \in [Cursor -> 0 .. MaxId] /\ \A c \in more : id[c] # 0
RowTypes ==
    /\ data \in [Cursor -> Seq(Row)]
    /\ returned \in [Cursor -> Seq(Row)]
TaskTypes ==
    /\ pc \in [Task -> Places]
    /\ on \in [Task -> Cursor \cup {None}]
    /\ wanted \in [Task -> 0 .. MaxId]
    /\ answer \in [Task -> Answer \cup {None}]
    /\ since \in [Task -> 0 .. MaxLosses]
NodeTypes ==
    /\ up \in BOOLEAN /\ HeldTypes
    /\ lastId \in 0 .. MaxId /\ losses \in 0 .. MaxLosses
GhostTypes ==
    /\ opened \in [Cursor -> 0 .. 2]
    /\ shared \subseteq Cursor /\ failed \subseteq Cursor
    /\ missed \subseteq Cursor /\ outlived \subseteq Cursor
    /\ session \in [Cursor -> 0 .. MaxLosses]

LEMMA Types ==
    TypeOK <=> CursorTypes /\ RowTypes /\ TaskTypes /\ NodeTypes /\ GhostTypes
BY DEF TypeOK, CursorTypes, RowTypes, TaskTypes, NodeTypes, HeldTypes, GhostTypes

LEMMA TypesNext ==
    CursorTypes' /\ RowTypes' /\ TaskTypes' /\ NodeTypes' /\ GhostTypes' => TypeOK'
BY DEF TypeOK, CursorTypes, RowTypes, TaskTypes, NodeTypes, HeldTypes, GhostTypes

(* What the steps of a task within a call make of the tasks.                *)
LEMMA WaitsTasks ==
    ASSUME TaskTypes, NEW t \in Task, NEW c \in Cursor, NEW place \in Places,
           NEW i \in 0 .. MaxId, Waits(t, c, place, i)
    PROVE  /\ TaskTypes' /\ answer' = answer /\ since' = since
           /\ pc'[t] = place /\ on'[t] = c /\ wanted'[t] = i
           /\ \A u \in Task : u # t => pc'[u] = pc[u] /\ on'[u] = on[u] /\ wanted'[u] = wanted[u]
BY DEF Waits, TaskTypes

LEMMA DecodesTasks ==
    ASSUME TaskTypes, NEW t \in Task, NEW place \in Places, NEW q \in Answer,
           NEW i \in 0 .. MaxId, losses \in 0 .. MaxLosses, Decodes(t, place, q, i)
    PROVE  /\ TaskTypes' /\ on' = on
           /\ pc'[t] = place /\ wanted'[t] = i /\ answer'[t] = q /\ since'[t] = losses
           /\ \A u \in Task : u # t =>
                 /\ pc'[u] = pc[u] /\ wanted'[u] = wanted[u]
                 /\ answer'[u] = answer[u] /\ since'[u] = since[u]
BY DEF Decodes, TaskTypes

LEMMA OverTasks ==
    ASSUME TaskTypes, NEW t \in Task, Over(t)
    PROVE  /\ TaskTypes' /\ pc'[t] = "idle" /\ on'[t] = None
           /\ \A u \in Task : u # t =>
                 /\ pc'[u] = pc[u] /\ on'[u] = on[u] /\ wanted'[u] = wanted[u]
                 /\ answer'[u] = answer[u] /\ since'[u] = since[u]
<1>1. MaxId \in Nat /\ MaxLosses \in Nat
  BY ConstantsAssumption
<1>2. TaskTypes'
  BY <1>1 DEF Over, TaskTypes, Places
<1>3. pc'[t] = "idle" /\ on'[t] = None
  BY DEF Over, TaskTypes
<1>4. \A u \in Task : u # t =>
         /\ pc'[u] = pc[u] /\ on'[u] = on[u] /\ wanted'[u] = wanted[u]
         /\ answer'[u] = answer[u] /\ since'[u] = since[u]
  BY DEF Over, TaskTypes
<1> QED BY <1>2, <1>3, <1>4

(* What the answer that opens a query makes of it.                          *)
LEMMA OpenedEffect ==
    ASSUME TypeOK, OnInv, NEW t \in Task, Opened(t)
    PROVE  LET c == on[t]
               q == [of |-> c, next |-> 1]
               new == lastId + 1
           IN  /\ pc[t] = "opening" /\ c \in Cursor /\ c \in connected
               /\ new \in 1 .. MaxId /\ lastId' = new /\ losses \in Nat /\ lastId \in Nat
               /\ HeldTypes' /\ TaskTypes' /\ on' = on
               /\ pc'[t] = "opened" /\ answer'[t] = q /\ wanted'[t] = new /\ since'[t] = losses
               /\ \A u \in Task : u # t =>
                     /\ pc'[u] = pc[u] /\ wanted'[u] = wanted[u]
                     /\ answer'[u] = answer[u] /\ since'[u] = since[u]
               /\ DOMAIN held' \subseteq DOMAIN held \cup {new}
               /\ \A j \in DOMAIN held' : j # new => held'[j] = held[j]
               /\ \A j \in DOMAIN held' : held'[j].of = IF j = new THEN c ELSE held[j].of
               /\ new \in DOMAIN held' => held'[new].next = 1 + PageSize
               /\ new \in DOMAIN held' <=> ~IsLast(q)
<1> DEFINE c == on[t]
           q == [of |-> c, next |-> 1]
           new == lastId + 1
<1>0. TaskTypes /\ NodeTypes
  BY Types
<1>c. MaxId \in Nat /\ MaxLosses \in Nat
  BY ConstantsAssumption
<1>1. pc[t] = "opening" /\ c \in Cursor /\ c \in connected
  BY DEF Opened, OnInv
<1>2. lastId < MaxId /\ lastId' = lastId + 1 /\ Serve(q, new) /\ Decodes(t, "opened", q, new)
  BY DEF Opened
<1>3. q \in Answer /\ q.of = c /\ q.next = 1
  BY <1>1, FirstPage
<1>4. new \in 1 .. MaxId /\ new \in 0 .. MaxId /\ losses \in Nat /\ lastId \in Nat /\ losses \in 0 .. MaxLosses
  BY <1>0, <1>c, <1>2 DEF NodeTypes
<1>5. HeldTypes
  BY <1>0 DEF NodeTypes
<1> HIDE DEF c, q, new
<1>6. /\ HeldTypes'
      /\ DOMAIN held' \subseteq DOMAIN held \cup {new}
      /\ \A j \in DOMAIN held' : held'[j] = IF j = new THEN Rest(q) ELSE held[j]
      /\ \A j \in DOMAIN held' : held'[j].of = IF j = new THEN q.of ELSE held[j].of
      /\ new \in DOMAIN held' <=> ~IsLast(q)
      /\ Rest(q).next = q.next + PageSize
  BY <1>2, <1>3, <1>4, <1>5, Served
<1>7. "opened" \in Places
  BY DEF Places
<1>8. /\ TaskTypes' /\ on' = on
      /\ pc'[t] = "opened" /\ wanted'[t] = new /\ answer'[t] = q /\ since'[t] = losses
      /\ \A u \in Task : u # t =>
            /\ pc'[u] = pc[u] /\ wanted'[u] = wanted[u]
            /\ answer'[u] = answer[u] /\ since'[u] = since[u]
  BY <1>0, <1>2, <1>3, <1>4, <1>7, DecodesTasks
<1>9. new \in DOMAIN held' => held'[new].next = 1 + PageSize
  BY <1>3, <1>6
<1>10. lastId' = new
  BY <1>2 DEF new
<1>11. \A j \in DOMAIN held' : held'[j].of = IF j = new THEN c ELSE held[j].of
  BY <1>3, <1>6
<1>12. \A j \in DOMAIN held' : j # new => held'[j] = held[j]
  BY <1>6
<1> QED BY <1>1, <1>4, <1>6, <1>8, <1>9, <1>10, <1>11, <1>12 DEF c, q, new

(* What the answer with a page makes of the query.                          *)
LEMMA PagedEffect ==
    ASSUME TypeOK, OnInv, NEW t \in Task, Paged(t), wanted[t] \in DOMAIN held
    PROVE  LET i == wanted[t]
               q == held[i]
           IN  /\ pc[t] = "paging" /\ on[t] \in Cursor /\ on[t] \in fetched
               /\ q \in Query /\ q \in Answer
               /\ HeldTypes' /\ TaskTypes' /\ on' = on
               /\ pc'[t] = "paged" /\ answer'[t] = q /\ wanted'[t] = i
               /\ \A u \in Task : u # t =>
                     /\ pc'[u] = pc[u] /\ wanted'[u] = wanted[u]
                     /\ answer'[u] = answer[u] /\ since'[u] = since[u]
               /\ DOMAIN held' \subseteq DOMAIN held
               /\ \A j \in DOMAIN held' : j # i => held'[j] = held[j]
               /\ \A j \in DOMAIN held' : held'[j].of = held[j].of
               /\ i \in DOMAIN held' => held'[i].next = q.next + PageSize
               /\ i \in DOMAIN held' <=> ~IsLast(q)
<1> DEFINE i == wanted[t]
           q == held[i]
<1>0. TaskTypes /\ NodeTypes
  BY Types
<1>c. MaxId \in Nat /\ MaxLosses \in Nat
  BY ConstantsAssumption
<1>1. pc[t] = "paging" /\ on[t] \in Cursor /\ on[t] \in fetched
  BY DEF Paged, OnInv
<1>2. Serve(q, i) /\ Decodes(t, "paged", q, i)
  BY DEF Paged
<1>3. HeldTypes /\ losses \in 0 .. MaxLosses
  BY <1>0 DEF NodeTypes
<1>4. q \in Query /\ q \in Answer /\ i \in 1 .. MaxId /\ i \in 0 .. MaxId
  BY <1>c, <1>3, HeldQuery
<1>5. i \in DOMAIN held
  OBVIOUS
<1>6. held[i] = q
  OBVIOUS
<1>7. "paged" \in Places
  BY DEF Places
<1> HIDE DEF q, i
<1>8. /\ HeldTypes'
      /\ DOMAIN held' \subseteq DOMAIN held \cup {i}
      /\ \A j \in DOMAIN held' : held'[j] = IF j = i THEN Rest(q) ELSE held[j]
      /\ \A j \in DOMAIN held' : held'[j].of = IF j = i THEN q.of ELSE held[j].of
      /\ i \in DOMAIN held' <=> ~IsLast(q)
      /\ Rest(q).next = q.next + PageSize
  BY <1>2, <1>3, <1>4, Served
<1>9. /\ TaskTypes' /\ on' = on
      /\ pc'[t] = "paged" /\ wanted'[t] = i /\ answer'[t] = q
      /\ \A u \in Task : u # t =>
            /\ pc'[u] = pc[u] /\ wanted'[u] = wanted[u]
            /\ answer'[u] = answer[u] /\ since'[u] = since[u]
  BY <1>0, <1>2, <1>3, <1>4, <1>7, DecodesTasks
<1>10. DOMAIN held' \subseteq DOMAIN held
  BY <1>5, <1>8
<1>11. \A j \in DOMAIN held' : held'[j].of = held[j].of
  BY <1>6, <1>8
<1>12. i \in DOMAIN held' => held'[i].next = q.next + PageSize
  BY <1>8
<1>13. \A j \in DOMAIN held' : j # i => held'[j] = held[j]
  BY <1>8
<1> QED BY <1>1, <1>4, <1>8, <1>9, <1>10, <1>11, <1>12, <1>13 DEF q, i

(* The page that a task decodes has rows, all of its query.                 *)
LEMMA DecodedPage ==
    ASSUME OnInv, NEW t \in Task, pc[t] = "paged"
    PROVE  /\ answer[t] \in Query /\ answer[t] \in Answer /\ on[t] \in Cursor /\ on[t] \in fetched
           /\ Page(answer[t]) \in Seq(Row) /\ Page(answer[t]) # <<>>
           /\ \A m \in DOMAIN Page(answer[t]) :
                 Page(answer[t])[m] = <<answer[t].of, answer[t].next + m - 1>>
<1>1. answer[t] \in Query /\ on[t] \in Cursor /\ on[t] \in fetched
  BY DEF OnInv
<1> QED BY <1>1, QueryIsAnswer, PageRows

(* Every step keeps the types.                                              *)
LEMMA TypeStep ==
    ASSUME TypeOK, OnInv, IdInv, [Next]_vars
    PROVE  TypeOK'
<1>0. CursorTypes /\ RowTypes /\ TaskTypes /\ NodeTypes /\ GhostTypes
  BY Types
<1>c. MaxId \in Nat /\ MaxLosses \in Nat /\ 0 \in 0 .. MaxId /\ 0 \in 0 .. MaxLosses
  BY ConstantsAssumption
<1>p. {"connecting", "opening", "paging", "closing"} \subseteq Places
  BY DEF Places
<1> USE TypesNext
<1>1. ASSUME NEW t \in Task, NEW c \in Cursor, Enter(t, c) PROVE TypeOK'
  <2>1. CursorTypes' /\ RowTypes' /\ NodeTypes'
    BY <1>0, <1>1 DEF Enter, TakesNode, CursorTypes, RowTypes, NodeTypes, HeldTypes, nodeVars
  <2>2. Waits(t, c, "opening", 0) \/ Waits(t, c, "connecting", 0)
    BY <1>1 DEF Enter
  <2>3. TaskTypes'
    BY <1>0, <1>c, <1>p, <2>2, WaitsTasks
  <2>4. GhostTypes'
    BY <1>0, <1>1 DEF Enter, Begins, GhostTypes
  <2> QED BY <2>1, <2>3, <2>4
<1>2. ASSUME NEW t \in Task, NEW c \in Cursor, NextRow(t, c) PROVE TypeOK'
  <2>1. data[c] \in Seq(Row) /\ data[c] # <<>> /\ Returns(c, data[c])
    BY <1>0, <1>2 DEF NextRow, RowTypes
  <2>2. RowTypes'
    BY <2>1, Returned DEF RowTypes
  <2>3. CursorTypes' /\ TaskTypes' /\ NodeTypes'
    BY <1>0, <1>2 DEF NextRow, CursorTypes, TaskTypes, NodeTypes, HeldTypes, taskVars, nodeVars
  <2>4. GhostTypes'
    BY <1>0, <1>2 DEF NextRow, Begins, GhostTypes
  <2> QED BY <2>2, <2>3, <2>4
<1>3. ASSUME NEW t \in Task, NEW c \in Cursor, NoNextRow(t, c) PROVE TypeOK'
  <2>1. CursorTypes' /\ RowTypes' /\ TaskTypes' /\ NodeTypes'
    BY <1>0, <1>3 DEF NoNextRow, CursorTypes, RowTypes, TaskTypes, NodeTypes, HeldTypes,
                      cursorVars, taskVars, nodeVars
  <2>2. GhostTypes'
    BY <1>0, <1>3 DEF NoNextRow, Begins, GhostTypes
  <2> QED BY <2>1, <2>2
<1>4. ASSUME NEW t \in Task, NEW c \in Cursor, NextPage(t, c) PROVE TypeOK'
  <2>1. CursorTypes' /\ RowTypes' /\ NodeTypes'
    BY <1>0, <1>4 DEF NextPage, CursorTypes, RowTypes, NodeTypes, HeldTypes, cursorVars, nodeVars
  <2>2. Waits(t, c, "paging", id[c]) /\ id[c] \in 0 .. MaxId
    BY <1>0, <1>4 DEF NextPage, PageId, CursorTypes
  <2>3. TaskTypes'
    BY <1>0, <1>p, <2>2, WaitsTasks
  <2>4. GhostTypes'
    BY <1>0, <1>4 DEF NextPage, Begins, Asks, GhostTypes
  <2> QED BY <2>1, <2>3, <2>4
<1>5. ASSUME NEW t \in Task, NEW c \in Cursor, Close(t, c) PROVE TypeOK'
  <2>1. CursorTypes' /\ RowTypes' /\ NodeTypes'
    BY <1>0, <1>5 DEF Close, CursorTypes, RowTypes, NodeTypes, HeldTypes, cursorVars, nodeVars
  <2>2. Waits(t, c, "closing", id[c]) \/ UNCHANGED taskVars
    BY <1>5 DEF Close
  <2>3. id[c] \in 0 .. MaxId
    BY <1>0 DEF CursorTypes
  <2>4. CASE Waits(t, c, "closing", id[c])
    <3>1. TaskTypes'
      BY <1>0, <1>p, <2>3, <2>4, WaitsTasks
    <3>2. GhostTypes'
      BY <1>0, <1>5 DEF Close, Begins, Asks, GhostTypes
    <3> QED BY <2>1, <3>1, <3>2
  <2>5. CASE UNCHANGED taskVars
    <3>1. TaskTypes'
      BY <1>0, <2>5 DEF TaskTypes, taskVars
    <3>2. GhostTypes'
      BY <1>0, <1>5 DEF Close, Begins, Asks, GhostTypes
    <3> QED BY <2>1, <3>1, <3>2
  <2> QED BY <2>2, <2>4, <2>5
<1>6. ASSUME NEW t \in Task, Connected(t) PROVE TypeOK'
  <2>1. on[t] \in Cursor /\ Waits(t, on[t], "opening", 0)
    BY <1>6 DEF Connected, OnInv
  <2>2. CursorTypes' /\ RowTypes' /\ NodeTypes' /\ GhostTypes'
    BY <1>0, <1>6, <2>1 DEF Connected, TakesNode, CursorTypes, RowTypes, NodeTypes, HeldTypes,
                            GhostTypes, nodeVars, ghosts
  <2>3. TaskTypes'
    BY <1>0, <1>c, <1>p, <2>1, WaitsTasks
  <2> QED BY <2>2, <2>3
<1>7. ASSUME NEW t \in Task, Opened(t) PROVE TypeOK'
  <2>1. /\ HeldTypes' /\ TaskTypes' /\ on[t] \in Cursor
        /\ lastId' \in 1 .. MaxId
    BY <1>7, OpenedEffect
  <2>2. NodeTypes'
    BY <1>0, <1>7, <1>c, <2>1 DEF Opened, NodeTypes
  <2>3. CursorTypes' /\ RowTypes'
    BY <1>0, <1>7 DEF Opened, CursorTypes, RowTypes, cursorVars
  <2>4. GhostTypes'
    BY <1>0, <1>7, <2>1 DEF Opened, GhostTypes
  <2> QED BY <2>1, <2>2, <2>3, <2>4
<1>8. ASSUME NEW t \in Task, OpenFailed(t) PROVE TypeOK'
  <2>1. on[t] \in Cursor /\ Over(t)
    BY <1>8 DEF OpenFailed, OnInv
  <2>2. CursorTypes' /\ RowTypes' /\ NodeTypes' /\ GhostTypes'
    BY <1>0, <1>8, <2>1 DEF OpenFailed, CursorTypes, RowTypes, NodeTypes, HeldTypes, GhostTypes,
                            cursorVars, nodeVars
  <2>3. TaskTypes'
    BY <1>0, <2>1, OverTasks
  <2> QED BY <2>2, <2>3
<1>9. ASSUME NEW t \in Task, Paged(t) PROVE TypeOK'
  <2>1. CursorTypes' /\ RowTypes' /\ GhostTypes'
    BY <1>0, <1>9 DEF Paged, CursorTypes, RowTypes, GhostTypes, cursorVars, ghosts
  <2>2. CASE wanted[t] \in DOMAIN held
    <3>1. HeldTypes' /\ TaskTypes'
      BY <1>9, <2>2, PagedEffect
    <3>2. NodeTypes'
      BY <1>0, <1>9, <3>1 DEF Paged, NodeTypes
    <3> QED BY <2>1, <3>1, <3>2
  <2>3. CASE wanted[t] \notin DOMAIN held
    <3>1. Over(t) /\ held' = held
      BY <1>9, <2>3 DEF Paged
    <3>2. NodeTypes'
      BY <1>0, <1>9, <3>1 DEF Paged, NodeTypes, HeldTypes
    <3> QED BY <1>0, <2>1, <3>1, <3>2, OverTasks
  <2> QED BY <2>2, <2>3
<1>10. ASSUME NEW t \in Task, Closed(t) PROVE TypeOK'
  <2>1. CursorTypes' /\ RowTypes' /\ GhostTypes'
    BY <1>0, <1>10 DEF Closed, CursorTypes, RowTypes, GhostTypes, cursorVars
  <2>2. NodeTypes'
    BY <1>0, <1>10 DEF Closed, NodeTypes, HeldTypes
  <2>3. TaskTypes'
    BY <1>0, <1>10, OverTasks DEF Closed
  <2> QED BY <2>1, <2>2, <2>3
<1>11. ASSUME NEW t \in Task, Initialized(t) PROVE TypeOK'
  <2> DEFINE c == on[t]
             p == Page(answer[t])
  <2>1. /\ c \in Cursor /\ c \in connected /\ wanted[t] # 0 /\ Over(t)
        /\ answer[t] = [of |-> c, next |-> 1]
    BY <1>11 DEF Initialized, OnInv
  <2>2. p \in Seq(Row)
    BY <2>1, FirstPage, PageRows
  <2>3. /\ id' = [id EXCEPT ![c] = wanted[t]] /\ data' = [data EXCEPT ![c] = p]
        /\ fetched' = fetched \cup {c} /\ (more' = more \ {c} \/ more' = more \cup {c})
        /\ session' = [session EXCEPT ![c] = since[t]]
        /\ connected' = connected /\ returned' = returned
    BY <1>11 DEF Initialized, SetsMore
  <2>4. wanted[t] \in 0 .. MaxId /\ since[t] \in 0 .. MaxLosses
    BY <1>0 DEF TaskTypes
  <2>5. NodeTypes'
    BY <1>0, <1>11 DEF Initialized, NodeTypes, HeldTypes, nodeVars
  <2>6. TaskTypes'
    BY <1>0, <2>1, OverTasks
  <2> HIDE DEF c, p
  <2>7. RowTypes'
    BY <1>0, <2>1, <2>2, <2>3 DEF RowTypes
  <2>8. CursorTypes'
    <3>1. id' \in [Cursor -> 0 .. MaxId] /\ \A d \in Cursor : id'[d] = IF d = c THEN wanted[t] ELSE id[d]
      BY <1>0, <2>1, <2>3, <2>4 DEF CursorTypes
    <3>2. \A d \in more' : id'[d] # 0
      BY <1>0, <2>1, <2>3, <3>1 DEF CursorTypes
    <3> QED BY <1>0, <2>1, <2>3, <3>1, <3>2 DEF CursorTypes
  <2>9. GhostTypes'
    BY <1>0, <1>11, <2>1, <2>3, <2>4 DEF Initialized, GhostTypes
  <2> QED BY <2>5, <2>6, <2>7, <2>8, <2>9
<1>12. ASSUME NEW t \in Task, PageTaken(t) PROVE TypeOK'
  <2>1. /\ Page(answer[t]) \in Seq(Row) /\ Page(answer[t]) # <<>> /\ on[t] \in Cursor
        /\ on[t] \in fetched /\ Over(t) /\ Returns(on[t], Page(answer[t]))
    BY <1>12, DecodedPage DEF PageTaken
  <2>2. RowTypes'
    BY <2>1, Returned DEF RowTypes
  <2>3. more' = more \ {on[t]} \/ more' = more \cup {on[t]}
    BY <1>12 DEF PageTaken, SetsMore
  <2>4. CursorTypes'
    BY <1>0, <1>12, <2>1, <2>3 DEF PageTaken, CursorTypes, OnInv
  <2>5. NodeTypes' /\ GhostTypes'
    BY <1>0, <1>12 DEF PageTaken, NodeTypes, HeldTypes, GhostTypes, nodeVars
  <2>6. TaskTypes'
    BY <1>0, <2>1, OverTasks
  <2> QED BY <2>2, <2>4, <2>5, <2>6
<1>13. ASSUME NEW t \in Task, DecodeFailed(t) PROVE TypeOK'
  <2>1. on[t] \in Cursor /\ Over(t)
    BY <1>13 DEF DecodeFailed, OnInv
  <2>2. CursorTypes' /\ RowTypes' /\ NodeTypes' /\ GhostTypes'
    BY <1>0, <1>13, <2>1 DEF DecodeFailed, CursorTypes, RowTypes, NodeTypes, HeldTypes, GhostTypes,
                             cursorVars, nodeVars
  <2>3. TaskTypes'
    BY <1>0, <2>1, OverTasks
  <2> QED BY <2>2, <2>3
<1>14. ASSUME Lose PROVE TypeOK'
  <2>1. CursorTypes' /\ RowTypes'
    BY <1>0, <1>14 DEF Lose, CursorTypes, RowTypes, cursorVars
  <2>2. HeldTypes'
    BY <1>14, EmptySeq DEF Lose, HeldTypes
  <2>3. NodeTypes'
    <3>1. losses < MaxLosses /\ losses' = losses + 1 /\ lastId' = 0 /\ up' = FALSE
      BY <1>14 DEF Lose
    <3>2. losses' \in 0 .. MaxLosses /\ lastId' \in 0 .. MaxId
      BY <1>0, <1>c, <3>1 DEF NodeTypes
    <3> QED BY <2>2, <3>1, <3>2 DEF NodeTypes
  <2>4. TaskTypes'
    BY <1>0, <1>14, <1>c DEF Lose, TaskTypes, Places
  <2>5. {on[t] : t \in {u \in Task : pc[u] = "opening"}} \subseteq Cursor
    BY DEF OnInv
  <2>6. GhostTypes'
    BY <1>0, <1>14, <2>5 DEF Lose, GhostTypes
  <2> QED BY <2>1, <2>3, <2>4, <2>6
<1>15. CASE Reconnect
  BY <1>0, <1>15 DEF Reconnect, CursorTypes, RowTypes, TaskTypes, NodeTypes, HeldTypes,
                     GhostTypes, cursorVars, taskVars, ghosts
<1>16. CASE UNCHANGED vars
  BY <1>0, <1>16 DEF vars, CursorTypes, RowTypes, TaskTypes, NodeTypes, HeldTypes,
                     GhostTypes, cursorVars, taskVars, nodeVars, ghosts
<1> QED
  BY <1>1, <1>2, <1>3, <1>4, <1>5, <1>6, <1>7, <1>8, <1>9, <1>10, <1>11, <1>12, <1>13, <1>14,
     <1>15, <1>16 DEF Next, Calls, Answers

-----------------------------------------------------------------------------
(* What a step changes                                                      *)

(* A call of a task at a cursor: where the task gets to, ...                *)
CallPlaces(t, c) ==
    \/ pc'[t] = pc[t] /\ on'[t] = on[t] /\ wanted'[t] = wanted[t] /\ connected' = connected
    \/ pc'[t] = "connecting" /\ on'[t] = c /\ c \notin fetched /\ connected' = connected
    \/ pc'[t] = "opening" /\ on'[t] = c /\ c \notin fetched /\ connected' = connected \cup {c}
    \/ /\ pc'[t] = "paging" /\ on'[t] = c /\ c \in more /\ wanted'[t] = id[c]
       /\ data[c] = <<>> /\ data' = data /\ connected' = connected
       /\ session[c] = losses \/ c \in outlived'
    \/ /\ pc'[t] = "closing" /\ on'[t] = c /\ c \in more /\ wanted'[t] = id[c]
       /\ connected' = connected

(* ... and what it leaves alone.                                            *)
LEMMA CallEffect ==
    ASSUME TypeOK, OnInv, NEW t \in Task, NEW c \in Cursor, Calls(t, c)
    PROVE  /\ Begins(t, c) /\ pc[t] = "idle" /\ shared \subseteq shared'
           /\ \A u \in Task : on[u] = c => c \in shared'
           /\ connected \subseteq connected' /\ outlived \subseteq outlived'
           /\ fetched' = fetched /\ more' = more /\ id' = id
           /\ held' = held /\ lastId' = lastId /\ losses' = losses
           /\ session' = session /\ opened' = opened /\ failed' = failed /\ missed' = missed
           /\ answer' = answer /\ since' = since
           /\ \A d \in Cursor : d # c =>
                 /\ data'[d] = data[d] /\ returned'[d] = returned[d]
                 /\ d \in connected' <=> d \in connected
           /\ NextRow(t, c) \/ (data' = data /\ returned' = returned)
           /\ \A u \in Task : u # t => pc'[u] = pc[u] /\ on'[u] = on[u] /\ wanted'[u] = wanted[u]
           /\ CallPlaces(t, c)
<1>0. CursorTypes /\ RowTypes /\ TaskTypes
  BY Types
<1>c. 0 \in 0 .. MaxId
  BY ConstantsAssumption
<1>p. {"connecting", "opening", "paging", "closing"} \subseteq Places
  BY DEF Places
<1>1. Begins(t, c) /\ pc[t] = "idle"
  BY DEF Calls, Enter, NextRow, NoNextRow, NextPage, Close, Begins
<1>2. shared \subseteq shared' /\ \A u \in Task : on[u] = c => c \in shared'
  BY <1>1 DEF Begins
<1>3. /\ fetched' = fetched /\ more' = more /\ id' = id
      /\ held' = held /\ lastId' = lastId /\ losses' = losses
      /\ session' = session /\ opened' = opened /\ failed' = failed /\ missed' = missed
      /\ outlived \subseteq outlived'
  BY DEF Calls, Enter, NextRow, NoNextRow, NextPage, Close, Asks, cursorVars, nodeVars
<1>4. NextRow(t, c) \/ (data' = data /\ returned' = returned)
  <2>1. CASE Enter(t, c)
    BY <2>1 DEF Enter
  <2>2. CASE NoNextRow(t, c) \/ NextPage(t, c) \/ Close(t, c)
    BY <2>2 DEF NoNextRow, NextPage, Close, cursorVars
  <2>3. CASE NextRow(t, c)
    BY <2>3
  <2> QED BY <2>1, <2>2, <2>3 DEF Calls
<1>5. \A d \in Cursor : d # c => data'[d] = data[d] /\ returned'[d] = returned[d]
  <2>1. CASE NextRow(t, c)
    BY <1>0, <2>1 DEF NextRow, Returns, RowTypes
  <2> QED BY <1>4, <2>1
<1>6. /\ connected \subseteq connected'
      /\ \A d \in Cursor : d # c => (d \in connected' <=> d \in connected)
  BY DEF Calls, Enter, TakesNode, NextRow, NoNextRow, NextPage, Close, cursorVars
<1>7. /\ answer' = answer /\ since' = since /\ CallPlaces(t, c)
      /\ \A u \in Task : u # t => pc'[u] = pc[u] /\ on'[u] = on[u] /\ wanted'[u] = wanted[u]
  <2>1. CASE Enter(t, c)
    <3>1. c \notin fetched
      BY <1>0, <2>1 DEF Enter, Unopened, CursorTypes, OnInv
    <3>2. CASE Waits(t, c, "opening", 0) /\ connected' = connected \cup {c}
      <4>1. /\ answer' = answer /\ since' = since /\ pc'[t] = "opening" /\ on'[t] = c
            /\ \A u \in Task : u # t => pc'[u] = pc[u] /\ on'[u] = on[u] /\ wanted'[u] = wanted[u]
        BY <1>0, <1>c, <1>p, <3>2, WaitsTasks
      <4> QED BY <3>1, <3>2, <4>1 DEF CallPlaces
    <3>3. CASE Waits(t, c, "connecting", 0) /\ connected' = connected
      <4>1. /\ answer' = answer /\ since' = since /\ pc'[t] = "connecting" /\ on'[t] = c
            /\ \A u \in Task : u # t => pc'[u] = pc[u] /\ on'[u] = on[u] /\ wanted'[u] = wanted[u]
        BY <1>0, <1>c, <1>p, <3>3, WaitsTasks
      <4> QED BY <3>1, <3>3, <4>1 DEF CallPlaces
    <3> QED BY <2>1, <3>2, <3>3 DEF Enter, TakesNode
  <2>2. CASE NextRow(t, c) \/ NoNextRow(t, c)
    BY <2>2 DEF NextRow, NoNextRow, CallPlaces, taskVars, cursorVars
  <2>3. CASE NextPage(t, c)
    <3>1. Waits(t, c, "paging", id[c]) /\ id[c] \in 0 .. MaxId
      BY <1>0, <2>3 DEF NextPage, PageId, CursorTypes
    <3>2. /\ answer' = answer /\ since' = since
          /\ pc'[t] = "paging" /\ on'[t] = c /\ wanted'[t] = id[c]
          /\ \A u \in Task : u # t => pc'[u] = pc[u] /\ on'[u] = on[u] /\ wanted'[u] = wanted[u]
      BY <1>0, <1>p, <3>1, WaitsTasks
    <3>3. /\ c \in more /\ data[c] = <<>> /\ data' = data /\ connected' = connected
          /\ session[c] = losses \/ c \in outlived'
      BY <2>3 DEF NextPage, Asks, cursorVars
    <3> QED BY <3>2, <3>3 DEF CallPlaces
  <2>4. CASE Close(t, c)
    <3>1. connected' = connected
      BY <2>4 DEF Close, cursorVars
    <3>2. CASE ToClose(c)
      <4>1. Waits(t, c, "closing", id[c]) /\ id[c] \in 0 .. MaxId /\ c \in more
        BY <1>0, <2>4, <3>2 DEF Close, ToClose, CursorTypes
      <4>2. /\ answer' = answer /\ since' = since
            /\ pc'[t] = "closing" /\ on'[t] = c /\ wanted'[t] = id[c]
            /\ \A u \in Task : u # t => pc'[u] = pc[u] /\ on'[u] = on[u] /\ wanted'[u] = wanted[u]
        BY <1>0, <1>p, <4>1, WaitsTasks
      <4> QED BY <3>1, <4>1, <4>2 DEF CallPlaces
    <3>3. CASE ~ToClose(c)
      BY <2>4, <3>1, <3>3 DEF Close, CallPlaces, taskVars
    <3> QED BY <3>2, <3>3
  <2> QED BY <2>1, <2>2, <2>3, <2>4 DEF Calls
<1> QED BY <1>1, <1>2, <1>3, <1>4, <1>5, <1>6, <1>7

(* An answer to a task: where the task gets to, ...                         *)
AnswerPlaces(t) ==
    \/ pc'[t] = "idle" /\ on'[t] = None
    \/ pc[t] = "connecting" /\ pc'[t] = "opening" /\ on'[t] = on[t] /\ Connected(t)
    \/ pc'[t] = "opened" /\ on'[t] = on[t] /\ Opened(t)
    \/ pc'[t] = "paged" /\ on'[t] = on[t] /\ Paged(t) /\ wanted[t] \in DOMAIN held

(* ... and what it leaves alone.                                            *)
LEMMA AnswerEffect ==
    ASSUME TypeOK, OnInv, NEW t \in Task, Answers(t)
    PROVE  /\ pc[t] # "idle" /\ on[t] \in Cursor
           /\ shared' = shared /\ outlived' = outlived /\ losses' = losses
           /\ \A u \in Task : u # t =>
                 /\ pc'[u] = pc[u] /\ on'[u] = on[u] /\ wanted'[u] = wanted[u]
                 /\ answer'[u] = answer[u] /\ since'[u] = since[u]
           /\ AnswerPlaces(t)
<1>0. TaskTypes
  BY Types
<1>c. 0 \in 0 .. MaxId
  BY ConstantsAssumption
<1>1. pc[t] # "idle" /\ on[t] \in Cursor
  BY DEF Answers, Connected, Opened, OpenFailed, Paged, Closed, Initialized, PageTaken,
         DecodeFailed, OnInv
<1>2. shared' = shared /\ outlived' = outlived /\ losses' = losses
  BY DEF Answers, Connected, Opened, OpenFailed, Paged, Closed, Initialized, PageTaken,
         DecodeFailed, ghosts, nodeVars
<1>3. /\ AnswerPlaces(t)
      /\ \A u \in Task : u # t =>
            /\ pc'[u] = pc[u] /\ on'[u] = on[u] /\ wanted'[u] = wanted[u]
            /\ answer'[u] = answer[u] /\ since'[u] = since[u]
  <2>1. CASE Connected(t)
    <3>1. Waits(t, on[t], "opening", 0) /\ "opening" \in Places /\ pc[t] = "connecting"
      BY <2>1 DEF Connected, Places
    <3> QED BY <1>0, <1>1, <1>c, <2>1, <3>1, WaitsTasks DEF AnswerPlaces
  <2>2. CASE Opened(t)
    <3>1. /\ pc'[t] = "opened" /\ on' = on
          /\ \A u \in Task : u # t =>
                /\ pc'[u] = pc[u] /\ wanted'[u] = wanted[u]
                /\ answer'[u] = answer[u] /\ since'[u] = since[u]
      BY <2>2, OpenedEffect
    <3> QED BY <2>2, <3>1 DEF AnswerPlaces
  <2>3. CASE Paged(t) /\ wanted[t] \in DOMAIN held
    <3>1. /\ pc'[t] = "paged" /\ on' = on
          /\ \A u \in Task : u # t =>
                /\ pc'[u] = pc[u] /\ wanted'[u] = wanted[u]
                /\ answer'[u] = answer[u] /\ since'[u] = since[u]
      BY <2>3, PagedEffect
    <3> QED BY <2>3, <3>1 DEF AnswerPlaces
  <2>4. CASE Over(t)
    BY <1>0, <2>4, OverTasks DEF AnswerPlaces
  <2> QED BY <2>1, <2>2, <2>3, <2>4 DEF Answers, OpenFailed, Paged, Closed, Initialized, PageTaken,
                                        DecodeFailed
<1> QED BY <1>1, <1>2, <1>3

(* An answer changes no cursor but the one it is for.                       *)
LEMMA AnswerCursors ==
    ASSUME TypeOK, OnInv, NEW t \in Task, Answers(t)
    PROVE  /\ \A c \in Cursor : c # on[t] =>
                 /\ data'[c] = data[c] /\ returned'[c] = returned[c] /\ id'[c] = id[c]
                 /\ opened'[c] = opened[c] /\ session'[c] = session[c]
                 /\ c \in more' <=> c \in more
                 /\ c \in fetched' <=> c \in fetched
                 /\ c \in connected' <=> c \in connected
                 /\ c \in failed' <=> c \in failed
                 /\ c \in missed' <=> c \in missed
           /\ connected \subseteq connected' /\ fetched \subseteq fetched'
           /\ failed \subseteq failed' /\ missed \subseteq missed'
<1>0. CursorTypes /\ RowTypes /\ GhostTypes
  BY Types
<1>1. on[t] \in Cursor
  BY AnswerEffect
<1>2. CASE Connected(t)
  BY <1>1, <1>2 DEF Connected, TakesNode, ghosts
<1>3. CASE Opened(t)
  BY <1>0, <1>1, <1>3 DEF Opened, GhostTypes, cursorVars
<1>4. CASE OpenFailed(t)
  BY <1>4 DEF OpenFailed, cursorVars
<1>5. CASE Paged(t)
  BY <1>5 DEF Paged, cursorVars, ghosts
<1>6. CASE Closed(t)
  BY <1>6 DEF Closed, cursorVars
<1>7. CASE Initialized(t)
  BY <1>0, <1>1, <1>7 DEF Initialized, SetsMore, CursorTypes, RowTypes, GhostTypes
<1>8. CASE PageTaken(t)
  BY <1>0, <1>1, <1>8 DEF PageTaken, SetsMore, Returns, RowTypes
<1>9. CASE DecodeFailed(t)
  BY <1>9 DEF DecodeFailed, cursorVars
<1> QED BY <1>2, <1>3, <1>4, <1>5, <1>6, <1>7, <1>8, <1>9 DEF Answers

(* An answer to anything but the opening of a query opens none.             *)
LEMMA HeldShrinks ==
    ASSUME TypeOK, OnInv, NEW t \in Task, Answers(t), ~Opened(t)
    PROVE  /\ DOMAIN held' \subseteq DOMAIN held /\ lastId' = lastId
           /\ \A j \in DOMAIN held' : held'[j].of = held[j].of
           /\ ~Paged(t) => \A j \in DOMAIN held' : held'[j] = held[j]
<1>1. lastId' = lastId
  BY DEF Answers, Connected, OpenFailed, Paged, Closed, Initialized, PageTaken, DecodeFailed, nodeVars
<1>2. CASE Paged(t)
  <2>1. CASE wanted[t] \in DOMAIN held
    BY <1>1, <1>2, <2>1, PagedEffect
  <2>2. CASE wanted[t] \notin DOMAIN held
    BY <1>1, <1>2, <2>2 DEF Paged
  <2> QED BY <2>1, <2>2
<1>3. CASE Closed(t)
  BY <1>1, <1>3 DEF Closed
<1>4. CASE Connected(t) \/ OpenFailed(t) \/ Initialized(t) \/ PageTaken(t) \/ DecodeFailed(t)
  BY <1>1, <1>4 DEF Connected, OpenFailed, Initialized, PageTaken, DecodeFailed, nodeVars
<1> QED BY <1>2, <1>3, <1>4 DEF Answers

(* The loss of a session ends the requests, and only them.                  *)
LEMMA LoseEffect ==
    ASSUME TypeOK, Lose
    PROVE  /\ DOMAIN held' = {} /\ losses' = losses + 1 /\ losses \in Nat /\ lastId' = 0
           /\ answer' = answer /\ since' = since
           /\ \A t \in Task : IF pc[t] \in {"opening", "paging", "closing"}
                              THEN pc'[t] = "idle" /\ on'[t] = None
                              ELSE pc'[t] = pc[t] /\ on'[t] = on[t] /\ wanted'[t] = wanted[t]
           /\ connected' = connected /\ fetched' = fetched /\ data' = data /\ more' = more /\ id' = id
           /\ returned' = returned /\ opened' = opened /\ shared' = shared /\ missed' = missed
           /\ session' = session /\ outlived' = outlived /\ failed \subseteq failed'
           /\ \A t \in Task : pc[t] = "opening" => on[t] \in failed'
<1>1. NodeTypes
  BY Types
<1>2. losses \in Nat
  BY <1>1, ConstantsAssumption DEF NodeTypes
<1> QED BY <1>2, EmptySeq DEF Lose, cursorVars

-----------------------------------------------------------------------------
(* Every step keeps the invariant                                           *)

(* Every step keeps what tasks and cursors have come to.                    *)
LEMMA OnStep ==
    ASSUME TypeOK, OnInv, [Next]_vars
    PROVE  OnInv'
<1>0. CursorTypes /\ TaskTypes /\ NodeTypes
  BY Types
<1>1. ASSUME NEW t \in Task, NEW c \in Cursor, Calls(t, c) PROVE OnInv'
  <2>1. /\ connected \subseteq connected' /\ fetched' = fetched /\ id' = id /\ answer' = answer
        /\ \A u \in Task : u # t => pc'[u] = pc[u] /\ on'[u] = on[u] /\ wanted'[u] = wanted[u]
        /\ CallPlaces(t, c)
    BY <1>1, CallEffect
  <2>2. more \subseteq fetched
    BY <1>0 DEF CursorTypes
  <2> QED BY <2>1, <2>2 DEF OnInv, CallPlaces
<1>2. ASSUME NEW t \in Task, Answers(t) PROVE OnInv'
  <2>1. /\ pc[t] # "idle" /\ on[t] \in Cursor /\ AnswerPlaces(t)
        /\ \A u \in Task : u # t =>
              /\ pc'[u] = pc[u] /\ on'[u] = on[u] /\ wanted'[u] = wanted[u] /\ answer'[u] = answer[u]
    BY <1>2, AnswerEffect
  <2>2. connected \subseteq connected' /\ fetched \subseteq fetched'
    BY <1>2, AnswerCursors
  <2>3. \A c \in fetched' : id'[c] # 0
    <3>1. CASE Initialized(t)
      <4>1. fetched' = fetched \cup {on[t]} /\ id' = [id EXCEPT ![on[t]] = wanted[t]] /\ wanted[t] # 0
        BY <3>1 DEF Initialized, OnInv
      <4>2. fetched \subseteq Cursor
        BY <1>0 DEF CursorTypes
      <4> QED BY <1>0, <2>1, <4>1, <4>2 DEF CursorTypes, OnInv
    <3>2. CASE ~Initialized(t)
      BY <1>2, <3>2 DEF Answers, Connected, Opened, OpenFailed, Paged, Closed, PageTaken, DecodeFailed,
                        cursorVars, OnInv
    <3> QED BY <3>1, <3>2
  <2>4. /\ pc'[t] # "idle" => on'[t] \in Cursor
        /\ pc'[t] \in {"opening", "opened"} => on'[t] \in connected'
        /\ pc'[t] \in {"paging", "paged"} => on'[t] \in fetched'
        /\ pc'[t] = "opened" => answer'[t] = [of |-> on'[t], next |-> 1] /\ wanted'[t] # 0
        /\ pc'[t] = "paged" => answer'[t] \in Query
    <3>1. CASE Connected(t)
      BY <2>1, <3>1 DEF Connected, TakesNode, AnswerPlaces, Opened, Paged
    <3>2. CASE Opened(t)
      <4>1. /\ pc'[t] = "opened" /\ on' = on /\ on[t] \in Cursor /\ on[t] \in connected
            /\ answer'[t] = [of |-> on[t], next |-> 1]
            /\ wanted'[t] = lastId + 1 /\ lastId \in Nat
        BY <3>2, OpenedEffect
      <4> QED BY <2>2, <4>1
    <3>3. CASE Paged(t) /\ wanted[t] \in DOMAIN held
      <4>1. /\ pc'[t] = "paged" /\ on' = on /\ on[t] \in Cursor /\ on[t] \in fetched
            /\ answer'[t] \in Query
        BY <3>3, PagedEffect
      <4> QED BY <2>2, <4>1
    <3>4. CASE pc'[t] = "idle"
      BY <3>4
    <3> QED BY <2>1, <3>1, <3>2, <3>3, <3>4 DEF AnswerPlaces
  <2> QED BY <2>1, <2>2, <2>3, <2>4 DEF OnInv
<1>3. CASE Lose
  BY <1>3, LoseEffect DEF OnInv
<1>4. CASE Reconnect \/ UNCHANGED vars
  BY <1>4 DEF Reconnect, vars, OnInv, cursorVars, taskVars
<1> QED BY <1>1, <1>2, <1>3, <1>4 DEF Next

(* Every step keeps the ids of the session apart.                           *)
LEMMA IdStep ==
    ASSUME TypeOK, OnInv, IdInv, [Next]_vars
    PROVE  IdInv'
<1>0. CursorTypes /\ TaskTypes /\ NodeTypes /\ GhostTypes
  BY Types
<1>c. MaxId \in Nat /\ MaxLosses \in Nat
  BY ConstantsAssumption
<1>n. lastId \in Nat /\ losses \in Nat
  BY <1>0, <1>c DEF NodeTypes
<1>1. ASSUME NEW t \in Task, NEW c \in Cursor, Calls(t, c) PROVE IdInv'
  <2>1. /\ held' = held /\ lastId' = lastId /\ losses' = losses
        /\ session' = session /\ id' = id /\ answer' = answer /\ since' = since
        /\ outlived \subseteq outlived' /\ pc[t] = "idle" /\ CallPlaces(t, c)
        /\ \A u \in Task : u # t => pc'[u] = pc[u] /\ on'[u] = on[u] /\ wanted'[u] = wanted[u]
    BY <1>1, CallEffect
  <2>2. pc'[t] = "paging" /\ on'[t] \notin outlived' =>
           /\ wanted'[t] <= lastId
           /\ wanted'[t] \in DOMAIN held => held[wanted'[t]].of = on'[t]
    BY <2>1 DEF CallPlaces, IdInv
  <2>3. pc'[t] # "opened" /\ pc'[t] # "paged"
    BY <2>1 DEF CallPlaces
  <2>4. \A u \in Task : pc'[u] = "opened" =>
           /\ since'[u] <= losses'
           /\ since'[u] = losses' =>
                 /\ wanted'[u] <= lastId'
                 /\ wanted'[u] \in DOMAIN held' => held'[wanted'[u]].of = on'[u]
    BY <2>1, <2>3 DEF IdInv
  <2>5. \A u \in Task : pc'[u] = "paging" /\ on'[u] \notin outlived' =>
           /\ wanted'[u] <= lastId'
           /\ wanted'[u] \in DOMAIN held' => held'[wanted'[u]].of = on'[u]
    BY <2>1, <2>2 DEF IdInv
  <2>6. \A u \in Task : pc'[u] = "paged" /\ on'[u] \notin outlived' => answer'[u].of = on'[u]
    BY <2>1, <2>3 DEF IdInv
  <2> QED BY <2>1, <2>4, <2>5, <2>6 DEF IdInv
<1>2. ASSUME NEW t \in Task, Opened(t) PROVE IdInv'
  <2> DEFINE c == on[t]
             new == lastId + 1
  <2>1. /\ lastId' = new /\ on' = on
        /\ pc'[t] = "opened" /\ wanted'[t] = new /\ since'[t] = losses
        /\ \A u \in Task : u # t =>
              /\ pc'[u] = pc[u] /\ wanted'[u] = wanted[u]
              /\ answer'[u] = answer[u] /\ since'[u] = since[u]
        /\ DOMAIN held' \subseteq DOMAIN held \cup {new}
        /\ \A j \in DOMAIN held' : held'[j].of = IF j = new THEN c ELSE held[j].of
    BY <1>2, OpenedEffect
  <2>2. losses' = losses /\ outlived' = outlived /\ id' = id /\ session' = session
    BY <1>2 DEF Opened, cursorVars
  <2> HIDE DEF c
  <2>3. DOMAIN held' \subseteq 1 .. lastId'
    BY <1>n, <2>1 DEF IdInv
  <2>4. \A i \in Nat : i <= lastId =>
           /\ i <= lastId'
           /\ \A d : (i \in DOMAIN held => held[i].of = d) => (i \in DOMAIN held' => held'[i].of = d)
    BY <1>n, <2>1
  <2>5. \A d \in Cursor : session'[d] = losses' =>
            id'[d] <= lastId' /\ (id'[d] \in DOMAIN held' => held'[id'[d]].of = d)
    <3> TAKE d \in Cursor
    <3>1. id[d] \in Nat
      BY <1>0, <1>c DEF CursorTypes
    <3> QED BY <2>2, <2>4, <3>1 DEF IdInv
  <2>6. ASSUME NEW u \in Task, pc'[u] = "opened"
        PROVE  /\ since'[u] <= losses'
               /\ since'[u] = losses' =>
                     /\ wanted'[u] <= lastId'
                     /\ wanted'[u] \in DOMAIN held' => held'[wanted'[u]].of = on'[u]
    <3>1. CASE u = t
      <4>1. on'[u] = c
        BY <2>1, <3>1 DEF c
      <4> QED BY <1>n, <2>1, <2>2, <3>1, <4>1
    <3>2. CASE u # t
      <4>1. wanted[u] \in Nat
        BY <1>0, <1>c DEF TaskTypes
      <4>2. /\ pc[u] = "opened" /\ on'[u] = on[u] /\ wanted'[u] = wanted[u]
            /\ since'[u] = since[u]
        BY <2>1, <2>6, <3>2
      <4>3. /\ since[u] <= losses
            /\ since[u] = losses =>
                  /\ wanted[u] <= lastId
                  /\ wanted[u] \in DOMAIN held => held[wanted[u]].of = on[u]
        BY <4>2 DEF IdInv
      <4> QED BY <2>2, <2>4, <4>1, <4>2, <4>3
    <3> QED BY <3>1, <3>2
  <2>7. ASSUME NEW u \in Task, pc'[u] = "paging", on'[u] \notin outlived'
        PROVE  /\ wanted'[u] <= lastId'
               /\ wanted'[u] \in DOMAIN held' => held'[wanted'[u]].of = on'[u]
    <3>1. u # t /\ pc[u] = "paging" /\ on'[u] = on[u] /\ wanted'[u] = wanted[u]
      BY <2>1, <2>7
    <3>2. wanted[u] \in Nat
      BY <1>0, <1>c DEF TaskTypes
    <3> QED BY <2>2, <2>4, <2>7, <3>1, <3>2 DEF IdInv
  <2>8. \A u \in Task : pc'[u] = "paged" /\ on'[u] \notin outlived' => answer'[u].of = on'[u]
    <3> TAKE u \in Task
    <3>1. CASE u = t
      BY <2>1, <3>1
    <3>2. CASE u # t
      BY <2>1, <2>2, <3>2 DEF IdInv
    <3> QED BY <3>1, <3>2
  <2>9. \A d \in Cursor : session'[d] <= losses'
    BY <2>2 DEF IdInv
  <2> QED BY <2>3, <2>5, <2>6, <2>7, <2>8, <2>9 DEF IdInv
<1>3. ASSUME NEW t \in Task, Answers(t), ~Opened(t) PROVE IdInv'
  <2>1. /\ outlived' = outlived /\ losses' = losses /\ AnswerPlaces(t) /\ on[t] \in Cursor
        /\ \A u \in Task : u # t =>
              /\ pc'[u] = pc[u] /\ on'[u] = on[u] /\ wanted'[u] = wanted[u]
              /\ answer'[u] = answer[u] /\ since'[u] = since[u]
    BY <1>3, AnswerEffect
  <2>2. /\ DOMAIN held' \subseteq DOMAIN held /\ lastId' = lastId
        /\ \A j \in DOMAIN held' : held'[j].of = held[j].of
    BY <1>3, HeldShrinks
  <2>3. pc'[t] # "paging" /\ pc'[t] # "opened"
    BY <1>3, <2>1 DEF AnswerPlaces
  <2>4. pc'[t] = "paged" /\ on'[t] \notin outlived' => answer'[t].of = on'[t]
    <3> SUFFICES ASSUME pc'[t] = "paged", on'[t] \notin outlived' PROVE answer'[t].of = on'[t]
      OBVIOUS
    <3>1. Paged(t) /\ wanted[t] \in DOMAIN held /\ on'[t] = on[t]
      BY <1>3, <2>1 DEF AnswerPlaces
    <3>2. pc[t] = "paging" /\ answer'[t] = held[wanted[t]]
      BY <3>1, PagedEffect
    <3>3. held[wanted[t]].of = on[t]
      BY <2>1, <3>1, <3>2 DEF IdInv
    <3> QED BY <3>1, <3>2, <3>3
  <2>5. /\ \A d \in Cursor : session'[d] <= losses
        /\ \A d \in Cursor : session'[d] = losses =>
              id'[d] <= lastId /\ (id'[d] \in DOMAIN held => held[id'[d]].of = d)
    <3>1. CASE Initialized(t)
      <4>1. /\ id' = [id EXCEPT ![on[t]] = wanted[t]] /\ pc[t] = "opened"
            /\ session' = [session EXCEPT ![on[t]] = since[t]]
        BY <3>1 DEF Initialized
      <4>2. \A d \in Cursor : /\ id'[d] = IF d = on[t] THEN wanted[t] ELSE id[d]
                              /\ session'[d] = IF d = on[t] THEN since[t] ELSE session[d]
        BY <1>0, <4>1 DEF CursorTypes, GhostTypes
      <4> QED BY <4>1, <4>2 DEF IdInv
    <3>2. CASE ~Initialized(t)
      <4>1. id' = id /\ session' = session
        BY <1>3, <3>2 DEF Answers, Connected, OpenFailed, Paged, Closed, PageTaken, DecodeFailed,
                          cursorVars, ghosts
      <4> QED BY <4>1 DEF IdInv
    <3> QED BY <3>1, <3>2
  <2>6. \A u \in Task : pc'[u] = "opened" =>
           /\ since'[u] <= losses'
           /\ since'[u] = losses' =>
                 /\ wanted'[u] <= lastId'
                 /\ wanted'[u] \in DOMAIN held' => held'[wanted'[u]].of = on'[u]
    BY <2>1, <2>2, <2>3 DEF IdInv
  <2>7. \A u \in Task : pc'[u] = "paging" /\ on'[u] \notin outlived' =>
           /\ wanted'[u] <= lastId'
           /\ wanted'[u] \in DOMAIN held' => held'[wanted'[u]].of = on'[u]
    BY <2>1, <2>2, <2>3 DEF IdInv
  <2>8. \A u \in Task : pc'[u] = "paged" /\ on'[u] \notin outlived' => answer'[u].of = on'[u]
    BY <2>1, <2>4 DEF IdInv
  <2>9. DOMAIN held' \subseteq 1 .. lastId'
    BY <2>2 DEF IdInv
  <2>10. \A d \in Cursor : session'[d] <= losses' /\ (session'[d] = losses' =>
              id'[d] <= lastId' /\ (id'[d] \in DOMAIN held' => held'[id'[d]].of = d))
    BY <2>1, <2>2, <2>5
  <2> QED BY <2>6, <2>7, <2>8, <2>9, <2>10 DEF IdInv
<1>4. CASE Lose
  <2>1. /\ DOMAIN held' = {} /\ losses' = losses + 1 /\ session' = session /\ lastId' = 0
        /\ since' = since /\ answer' = answer /\ outlived' = outlived
        /\ \A t \in Task : IF pc[t] \in {"opening", "paging", "closing"}
                           THEN pc'[t] = "idle" /\ on'[t] = None
                           ELSE pc'[t] = pc[t] /\ on'[t] = on[t] /\ wanted'[t] = wanted[t]
    BY <1>4, LoseEffect
  <2>2. \A c \in Cursor : session[c] <= losses /\ session[c] \in Nat
    BY <1>0, <1>c DEF IdInv, GhostTypes
  <2>3. \A c \in Cursor : session'[c] <= losses' /\ session'[c] # losses'
    BY <1>n, <2>1, <2>2
  <2>4. \A t \in Task : since[t] \in Nat
    BY <1>0, <1>c DEF TaskTypes
  <2>5. \A t \in Task : pc'[t] = "opened" => since'[t] <= losses' /\ since'[t] # losses'
    <3> TAKE t \in Task
    <3>1. pc'[t] = "opened" => pc[t] = "opened"
      BY <2>1
    <3>2. pc[t] = "opened" => since[t] <= losses
      BY DEF IdInv
    <3> QED BY <1>n, <2>1, <2>4, <3>1, <3>2
  <2>6. \A t \in Task : pc'[t] # "paging"
    BY <2>1
  <2>7. \A t \in Task : pc'[t] = "paged" /\ on'[t] \notin outlived' => answer'[t].of = on'[t]
    BY <2>1 DEF IdInv
  <2> QED BY <2>1, <2>3, <2>5, <2>6, <2>7 DEF IdInv
<1>5. CASE Reconnect \/ UNCHANGED vars
  BY <1>5 DEF Reconnect, vars, IdInv, cursorVars, taskVars, nodeVars, ghosts
<1> QED BY <1>1, <1>2, <1>3, <1>4, <1>5 DEF Next, Answers

(* Returning a row of its own page keeps the rows of a cursor its own.      *)
LEMMA OwnReturned ==
    ASSUME TypeOK, OwnRows, outlived \subseteq outlived',
           NEW c \in Cursor, NEW p \in Seq(Row), p # <<>>, Returns(c, p),
           c \notin outlived => \A m \in DOMAIN p : p[m][1] = c
    PROVE  OwnRows'
<1> SUFFICES ASSUME NEW d \in Cursor, d \notin outlived'
             PROVE  /\ \A n \in DOMAIN returned'[d] : returned'[d][n][1] = d
                    /\ \A n \in DOMAIN data'[d] : data'[d][n][1] = d
  BY DEF OwnRows
<1>1. /\ \A n \in DOMAIN returned[d] : returned[d][n][1] = d
      /\ \A n \in DOMAIN data[d] : data[d][n][1] = d
  BY DEF OwnRows
<1>2. CASE d # c
  <2>1. data'[d] = data[d] /\ returned'[d] = returned[d]
    BY <1>2, Returned
  <2> QED BY <1>1, <2>1
<1>3. CASE d = c
  <2>1. \A m \in DOMAIN data'[c] : m + 1 \in DOMAIN p /\ data'[c][m] = p[m + 1]
    BY Returned
  <2>2. /\ 1 \in DOMAIN p
        /\ \A m \in DOMAIN returned'[c] :
              \/ m = Len(returned[c]) + 1 /\ returned'[c][m] = p[1]
              \/ m \in DOMAIN returned[c] /\ returned'[c][m] = returned[c][m]
    BY Returned
  <2>3. \A m \in DOMAIN p : p[m][1] = c
    BY <1>3
  <2> QED BY <1>1, <1>3, <2>1, <2>2, <2>3
<1> QED BY <1>2, <1>3

(* Every step keeps the rows of a cursor its own.                           *)
LEMMA OwnStep ==
    ASSUME IInv, [Next]_vars
    PROVE  OwnRows'
<1>0. TypeOK /\ OnInv /\ IdInv /\ OwnRows
  BY DEF IInv
<1>1. RowTypes
  BY <1>0, Types
<1>2. outlived \subseteq outlived'
  BY DEF Next, Calls, Answers, Enter, NextRow, NoNextRow, NextPage, Close, Asks, Connected,
         Opened, OpenFailed, Paged, Closed, Initialized, PageTaken, DecodeFailed, Lose, Reconnect,
         vars, ghosts
<1>3. ASSUME NEW t \in Task, NEW c \in Cursor, NextRow(t, c) PROVE OwnRows'
  <2>1. Returns(c, data[c]) /\ data[c] # <<>> /\ data[c] \in Seq(Row)
    BY <1>1, <1>3 DEF NextRow, RowTypes
  <2>2. c \notin outlived => \A m \in DOMAIN data[c] : data[c][m][1] = c
    BY <1>0 DEF OwnRows
  <2> QED BY <1>0, <1>2, <2>1, <2>2, OwnReturned
<1>4. ASSUME NEW t \in Task, Initialized(t) PROVE OwnRows'
  <2> DEFINE c == on[t]
             p == Page(answer[t])
  <2>1. c \in Cursor /\ answer[t] = [of |-> c, next |-> 1]
    BY <1>0, <1>4 DEF Initialized, OnInv
  <2>2. \A m \in DOMAIN p : p[m] = <<c, answer[t].next + m - 1>>
    BY <2>1, FirstPage, PageRows
  <2>3. returned' = returned /\ data' = [data EXCEPT ![c] = p]
    BY <1>4 DEF Initialized
  <2> HIDE DEF c, p
  <2>4. \A d \in Cursor : data'[d] = IF d = c THEN p ELSE data[d]
    BY <1>1, <2>1, <2>3 DEF RowTypes
  <2>5. \A m \in DOMAIN p : p[m][1] = c
    BY <2>2
  <2> QED BY <1>0, <1>2, <2>3, <2>4, <2>5 DEF OwnRows
<1>5. ASSUME NEW t \in Task, PageTaken(t) PROVE OwnRows'
  <2> DEFINE p == Page(answer[t])
  <2>1. pc[t] = "paged" /\ Returns(on[t], p)
    BY <1>5 DEF PageTaken
  <2>2. /\ p \in Seq(Row) /\ p # <<>> /\ on[t] \in Cursor
        /\ \A m \in DOMAIN p : p[m] = <<answer[t].of, answer[t].next + m - 1>>
    BY <1>0, <2>1, DecodedPage
  <2>3. on[t] \notin outlived => answer[t].of = on[t]
    BY <1>0, <2>1 DEF IdInv
  <2> HIDE DEF p
  <2>4. on[t] \notin outlived => \A m \in DOMAIN p : p[m][1] = on[t]
    BY <2>2, <2>3
  <2> QED BY <1>0, <1>2, <2>1, <2>2, <2>4, OwnReturned
<1>6. CASE UNCHANGED <<data, returned>>
  BY <1>0, <1>2, <1>6 DEF OwnRows
<1> QED
  BY <1>3, <1>4, <1>5, <1>6 DEF Next, Calls, Answers, Enter, NoNextRow, NextPage, Close,
     Connected, Opened, OpenFailed, Paged, Closed, DecodeFailed, Lose, Reconnect, vars, cursorVars, ghosts

(* The invariant holds at the start.                                        *)
LEMMA InitIInv == Init => IInv
<1> SUFFICES ASSUME Init PROVE IInv
  OBVIOUS
<1>c. MaxId \in Nat /\ MaxLosses \in Nat
  BY ConstantsAssumption
<1>0. <<>> \in Seq(Row) /\ DOMAIN <<>> = {}
  BY EmptySeq
<1>1. CursorTypes /\ RowTypes /\ TaskTypes /\ GhostTypes
  BY <1>0, <1>c DEF Init, CursorTypes, RowTypes, TaskTypes, GhostTypes, Places
<1>2. NodeTypes
  BY <1>0, <1>c DEF Init, NodeTypes, HeldTypes
<1>3. OnInv /\ IdInv /\ OwnRows
  BY <1>0 DEF Init, OnInv, IdInv, OwnRows
<1> QED BY <1>1, <1>2, <1>3, Types DEF IInv

(* Every step keeps it.                                                     *)
LEMMA IInvStep == IInv /\ [Next]_vars => IInv'
BY TypeStep, OnStep, IdStep, OwnStep DEF IInv

-----------------------------------------------------------------------------
(* How often a cursor was opened                                            *)

(* A cursor has no rows before it has data; before a query was opened for   *)
(* it, the node holds none and no task decodes an answer that opens one;    *)
(* after one was opened, the node holds one at most.                        *)
Fresh(c) ==
    /\ c \notin fetched => data[c] = <<>> /\ returned[c] = <<>>
    /\ opened[c] = 0 =>
          /\ c \notin fetched /\ NotHeld(c)
          /\ \A t \in Task : pc[t] = "opened" => on[t] # c
    /\ opened[c] # 0 => c \in connected
    /\ opened[c] <= 1 =>
          \A i, j \in DOMAIN held : held[i].of = c /\ held[j].of = c => i = j
FreshInv == \A c \in Cursor : Fresh(c)

(* It is kept where nothing is opened or held anew.                         *)
LEMMA FreshKept ==
    ASSUME NEW c \in Cursor, Fresh(c), opened'[c] = opened[c],
           c \in fetched' => c \in fetched, c \in connected => c \in connected',
           c \notin fetched' => data'[c] = data[c] /\ returned'[c] = returned[c],
           c \notin fetched' => c \notin fetched,
           \A t \in Task : pc'[t] = "opened" /\ on'[t] = c => pc[t] = "opened" /\ on[t] = c,
           DOMAIN held' \subseteq DOMAIN held, \A i \in DOMAIN held' : held'[i].of = held[i].of
    PROVE  Fresh(c)'
BY DEF Fresh, NotHeld

(* Every step keeps it.                                                     *)
LEMMA FreshStep ==
    ASSUME TypeOK, OnInv, FreshInv, [Next]_vars
    PROVE  FreshInv'
<1>0. CursorTypes /\ RowTypes /\ TaskTypes /\ NodeTypes /\ GhostTypes
  BY Types
<1> SUFFICES ASSUME NEW d \in Cursor PROVE Fresh(d)'
  BY DEF FreshInv
<1>f. Fresh(d)
  BY DEF FreshInv
<1>1. ASSUME NEW t \in Task, NEW c \in Cursor, Calls(t, c) PROVE Fresh(d)'
  <2>1. /\ opened' = opened /\ fetched' = fetched /\ connected \subseteq connected' /\ held' = held
        /\ NextRow(t, c) \/ (data' = data /\ returned' = returned)
        /\ data'[d] # data[d] \/ returned'[d] # returned[d] => d = c
        /\ pc'[t] # "opened" \/ (pc'[t] = pc[t] /\ on'[t] = on[t])
        /\ \A u \in Task : u # t => pc'[u] = pc[u] /\ on'[u] = on[u]
    BY <1>1, CallEffect DEF CallPlaces
  <2>2. d \notin fetched => data'[d] = data[d] /\ returned'[d] = returned[d]
    BY <2>1 DEF NextRow
  <2> QED BY <1>f, <2>1, <2>2, FreshKept
<1>2. ASSUME NEW t \in Task, Opened(t) PROVE Fresh(d)'
  <2> DEFINE c == on[t]
             new == lastId + 1
  <2>1. /\ pc[t] = "opening" /\ c \in Cursor /\ c \in connected /\ on' = on /\ pc'[t] = "opened"
        /\ \A u \in Task : u # t => pc'[u] = pc[u]
        /\ DOMAIN held' \subseteq DOMAIN held \cup {new}
        /\ \A j \in DOMAIN held' : held'[j].of = IF j = new THEN c ELSE held[j].of
    BY <1>2, OpenedEffect
  <2>2. /\ connected' = connected /\ fetched' = fetched /\ data' = data /\ returned' = returned
        /\ opened' = [opened EXCEPT ![c] = IF @ = 0 THEN 1 ELSE 2]
    BY <1>2 DEF Opened, cursorVars
  <2>3. opened'[c] = IF opened[c] = 0 THEN 1 ELSE 2
    BY <1>0, <2>1, <2>2 DEF GhostTypes
  <2>4. CASE d = c
    <3>1. opened'[d] <= 1 => opened[d] = 0
      BY <2>3, <2>4
    <3>2. opened[d] = 0 => NotHeld(d)
      BY <1>f DEF Fresh
    <3>3. opened'[d] <= 1 => \A i, j \in DOMAIN held' : held'[i].of = d /\ held'[j].of = d => i = j
      BY <2>1, <2>4, <3>1, <3>2 DEF NotHeld
    <3>4. opened'[d] # 0 /\ d \in connected'
      BY <2>1, <2>2, <2>3, <2>4
    <3>5. d \notin fetched' => data'[d] = <<>> /\ returned'[d] = <<>>
      BY <1>f, <2>2 DEF Fresh
    <3> QED BY <3>3, <3>4, <3>5 DEF Fresh
  <2>5. CASE d # c
    <3>1. opened'[d] = opened[d]
      BY <1>0, <2>1, <2>2, <2>5 DEF GhostTypes
    <3>2. \A u \in Task : pc'[u] = "opened" /\ on'[u] = d => pc[u] = "opened" /\ on[u] = d
      BY <2>1, <2>5
    <3> HIDE DEF c, new
    <3>3. \A j \in DOMAIN held' : held'[j].of = d => j \in DOMAIN held /\ held[j].of = d
      BY <2>1, <2>5
    <3> QED BY <1>f, <2>2, <3>1, <3>2, <3>3 DEF Fresh, NotHeld
  <2> QED BY <2>4, <2>5
<1>3. ASSUME NEW t \in Task, Answers(t), ~Opened(t) PROVE Fresh(d)'
  <2>1. /\ \A u \in Task : u # t => pc'[u] = pc[u] /\ on'[u] = on[u]
        /\ AnswerPlaces(t) /\ on[t] \in Cursor
    BY <1>3, AnswerEffect
  <2>2. pc'[t] # "opened"
    BY <1>3, <2>1 DEF AnswerPlaces
  <2>3. DOMAIN held' \subseteq DOMAIN held /\ \A j \in DOMAIN held' : held'[j].of = held[j].of
    BY <1>3, HeldShrinks
  <2>4. opened' = opened /\ connected \subseteq connected'
    <3>1. opened' = opened
      BY <1>3 DEF Answers, Connected, OpenFailed, Paged, Closed, Initialized, PageTaken, DecodeFailed, ghosts
    <3> QED BY <1>3, <3>1, AnswerCursors
  <2>5. CASE Initialized(t) /\ d = on[t]
    <3>1. pc[t] = "opened" /\ d \in fetched'
      BY <2>5 DEF Initialized
    <3>2. opened[d] # 0
      BY <1>f, <2>5, <3>1 DEF Fresh
    <3> QED BY <1>f, <2>3, <2>4, <3>1, <3>2 DEF Fresh
  <2>6. CASE ~(Initialized(t) /\ d = on[t])
    <3>1. d \in fetched' <=> d \in fetched
      <4>1. CASE d = on[t]
        BY <1>3, <2>6, <4>1 DEF Answers, Connected, OpenFailed, Paged, Closed, PageTaken, DecodeFailed,
                          cursorVars
      <4>2. CASE d # on[t]
        BY <1>3, <4>2, AnswerCursors
      <4> QED BY <4>1, <4>2
    <3>2. d \notin fetched => data'[d] = data[d] /\ returned'[d] = returned[d]
      <4>1. CASE d # on[t]
        BY <1>3, <4>1, AnswerCursors
      <4>2. CASE PageTaken(t) /\ d = on[t]
        BY <4>2 DEF PageTaken, OnInv
      <4>3. CASE ~PageTaken(t) /\ d = on[t]
        BY <1>3, <2>6, <4>3 DEF Answers, Connected, OpenFailed, Paged, Closed, DecodeFailed,
                                cursorVars, ghosts
      <4> QED BY <4>1, <4>2, <4>3
    <3>3. \A u \in Task : pc'[u] = "opened" /\ on'[u] = d => pc[u] = "opened" /\ on[u] = d
      BY <2>1, <2>2
    <3> QED BY <1>f, <2>3, <2>4, <3>1, <3>2, <3>3, FreshKept
  <2> QED BY <2>5, <2>6
<1>4. CASE Lose
  <2>1. /\ DOMAIN held' = {} /\ connected' = connected /\ fetched' = fetched
        /\ data' = data /\ returned' = returned /\ opened' = opened
        /\ \A t \in Task : pc'[t] = "opened" => pc[t] = "opened" /\ on'[t] = on[t]
    BY <1>4, LoseEffect
  <2> QED BY <1>f, <2>1 DEF Fresh, NotHeld
<1>5. CASE Reconnect \/ UNCHANGED vars
  BY <1>f, <1>5 DEF Reconnect, vars, Fresh, NotHeld, cursorVars, taskVars, nodeVars, ghosts
<1> QED BY <1>1, <1>2, <1>3, <1>4, <1>5 DEF Next

-----------------------------------------------------------------------------
(* No row comes twice                                                       *)

(* Rows with different numbers, here and in other rows; with numbers below  *)
(* k; with none of the numbers of the page that begins with k.              *)
Distinct(s) == \A m, n \in DOMAIN s : m # n => s[m][2] # s[n][2]
Apart(s, p) == \A m \in DOMAIN s, n \in DOMAIN p : s[m][2] # p[n][2]
Below(s, k) == \A m \in DOMAIN s : s[m][2] < k
Outside(s, k) == \A m \in DOMAIN s : s[m][2] < k \/ s[m][2] >= k + PageSize

(* The task decodes an answer for the cursor.                               *)
Decoding(t, c) == on[t] = c /\ pc[t] \in {"opened", "paged"}

(* No row of the cursor comes twice among those that were returned, those   *)
(* of its page, those of the pages that tasks decode, and those that its    *)
(* query has left.                                                          *)
Once(c) ==
    /\ Distinct(returned[c]) /\ Distinct(data[c]) /\ Apart(returned[c], data[c])
    /\ \A i \in DOMAIN held : held[i].of = c =>
          Below(returned[c], held[i].next) /\ Below(data[c], held[i].next)
    /\ \A t \in Task : Decoding(t, c) =>
          Outside(returned[c], answer[t].next) /\ Outside(data[c], answer[t].next)
    /\ \A t \in Task, i \in DOMAIN held : Decoding(t, c) /\ held[i].of = c =>
          answer[t].next + PageSize <= held[i].next
    /\ \A t, u \in Task : t # u /\ Decoding(t, c) /\ Decoding(u, c) =>
          \/ answer[t].next + PageSize <= answer[u].next
          \/ answer[u].next + PageSize <= answer[t].next
OnceInv == \A c \in Cursor \ outlived : opened[c] <= 1 => Once(c)

(* Rows have numbers.                                                       *)
LEMMA RowNumbers ==
    ASSUME NEW s \in Seq(Row)
    PROVE  \A m \in DOMAIN s : s[m] \in Row /\ s[m][2] \in Nat
<1>1. \A m \in DOMAIN s : s[m] \in Row
  OBVIOUS
<1>2. \A r \in Row : r[2] \in Nat
  BY DEF Row
<1> QED BY <1>1, <1>2

(* There is nothing in no rows.                                             *)
LEMMA NoRows ==
    \A k, p : Distinct(<<>>) /\ Below(<<>>, k) /\ Outside(<<>>, k) /\ Apart(<<>>, p)
<1>1. DOMAIN <<>> = {}
  BY EmptySeq
<1> QED BY <1>1 DEF Distinct, Below, Outside, Apart

(* The numbers of the rows of a page.                                       *)
LEMMA PageNumbers ==
    ASSUME NEW q \in Answer, q.next <= Size[q.of] + 1
    PROVE  /\ Page(q) \in Seq(Row) /\ Distinct(Page(q)) /\ Below(Page(q), q.next + PageSize)
           /\ \A s \in Seq(Row) : Outside(s, q.next) => Apart(s, Page(q))
           /\ \A k \in Nat : k + PageSize <= q.next \/ q.next + PageSize <= k => Outside(Page(q), k)
<1> DEFINE p == Page(q)
           n == q.next
           len == PageLength(q)
<1>0. n \in Nat /\ PageSize \in Nat \ {0}
  BY ConstantsAssumption DEF Answer
<1>1. /\ p \in Seq(Row) /\ len \in Nat /\ len <= PageSize /\ DOMAIN p = 1 .. len
      /\ \A m \in DOMAIN p : p[m] = <<q.of, n + m - 1>>
  BY PageRows
<1> HIDE DEF p, n, len
<1>2. \A m \in DOMAIN p : m \in 1 .. len /\ p[m][2] = n + m - 1
  BY <1>1
<1>3. Distinct(p)
  BY <1>0, <1>1, <1>2 DEF Distinct
<1>4. \A m \in DOMAIN p : p[m][2] \in Nat /\ n <= p[m][2] /\ p[m][2] < n + PageSize
  BY <1>0, <1>1, <1>2
<1>5. Below(p, n + PageSize)
  BY <1>4 DEF Below
<1>6. ASSUME NEW s \in Seq(Row), Outside(s, n) PROVE Apart(s, p)
  BY <1>0, <1>4, <1>6, RowNumbers DEF Outside, Apart
<1>7. ASSUME NEW k \in Nat, k + PageSize <= n \/ n + PageSize <= k PROVE Outside(p, k)
  BY <1>0, <1>4, <1>7 DEF Outside
<1> QED BY <1>1, <1>3, <1>5, <1>6, <1>7 DEF p, n

(* Returning the first row of a page moves no row to a second place.        *)
LEMMA OnceReturned ==
    ASSUME TypeOK, NEW c \in Cursor, NEW p \in Seq(Row), p # <<>>, Returns(c, p),
           Distinct(returned[c]), Distinct(p), Apart(returned[c], p)
    PROVE  /\ Distinct(returned'[c]) /\ Distinct(data'[c]) /\ Apart(returned'[c], data'[c])
           /\ \A k : Below(returned[c], k) /\ Below(p, k) => Below(returned'[c], k) /\ Below(data'[c], k)
           /\ \A k : Outside(returned[c], k) /\ Outside(p, k) =>
                 Outside(returned'[c], k) /\ Outside(data'[c], k)
<1> DEFINE r == returned[c]
           a == returned'[c]
           b == data'[c]
           len == Len(returned[c])
<1>1. /\ 1 \in DOMAIN p
      /\ \A m \in DOMAIN b : m \in Nat \ {0} /\ m + 1 \in DOMAIN p /\ b[m] = p[m + 1]
      /\ \A m \in DOMAIN a : \/ m = len + 1 /\ a[m] = p[1]
                             \/ m \in DOMAIN r /\ a[m] = r[m]
      /\ len \in Nat
  BY Returned
<1>2. Distinct(r) /\ Distinct(p) /\ Apart(r, p)
  OBVIOUS
<1>3. r \in Seq(Row)
  BY Types DEF RowTypes
<1>4. DOMAIN r = 1 .. len
  BY <1>3
<1> HIDE DEF r, a, b, len
<1>5. Distinct(a)
  BY <1>1, <1>2, <1>4 DEF Distinct, Apart
<1>6. Distinct(b)
  BY <1>1, <1>2 DEF Distinct
<1>7. Apart(a, b)
  BY <1>1, <1>2 DEF Apart, Distinct
<1>8. \A k : Below(r, k) /\ Below(p, k) => Below(a, k) /\ Below(b, k)
  BY <1>1 DEF Below
<1>9. \A k : Outside(r, k) /\ Outside(p, k) => Outside(a, k) /\ Outside(b, k)
  BY <1>1 DEF Outside
<1> QED BY <1>5, <1>6, <1>7, <1>8, <1>9 DEF r, a, b

(* Where a page begins, and where the rest of a query does, is a number.    *)
LEMMA Numbers ==
    ASSUME TypeOK, OnInv
    PROVE  /\ \A i \in DOMAIN held : held[i].next \in Nat
           /\ \A t \in Task, c \in Cursor : Decoding(t, c) => answer[t].next \in Nat
           /\ PageSize \in Nat \ {0}
<1>1. \A i \in DOMAIN held : held[i].next \in Nat
  BY Types, QueryIsAnswer DEF NodeTypes, HeldTypes
<1>2. ASSUME NEW t \in Task, NEW c \in Cursor, Decoding(t, c) PROVE answer[t].next \in Nat
  <2>1. CASE pc[t] = "opened"
    <3>1. answer[t] = [of |-> on[t], next |-> 1]
      BY <2>1 DEF OnInv
    <3> QED BY <3>1
  <2>2. CASE pc[t] = "paged"
    BY <2>2, DecodedPage, QueryIsAnswer
  <2> QED BY <1>2, <2>1, <2>2 DEF Decoding
<1> QED BY <1>1, <1>2, ConstantsAssumption

(* Steps at other cursors do not disturb the rows of a cursor.              *)
LEMMA OnceKept ==
    ASSUME TypeOK, OnInv, TypeOK', OnInv', NEW c \in Cursor, Once(c),
           data'[c] = data[c], returned'[c] = returned[c],
           \A t \in Task : Decoding(t, c)' => Decoding(t, c) /\ answer'[t] = answer[t],
           \A i \in DOMAIN held' : held'[i].of = c =>
              i \in DOMAIN held /\ held[i].of = c /\ held[i].next <= held'[i].next
    PROVE  Once(c)'
<1>1. RowTypes
  BY Types
<1>2. returned[c] \in Seq(Row) /\ data[c] \in Seq(Row)
  BY <1>1 DEF RowTypes
<1>3. /\ \A i \in DOMAIN held : held[i].next \in Nat
      /\ \A t \in Task : Decoding(t, c) => answer[t].next \in Nat
      /\ PageSize \in Nat
  BY Numbers
<1>4. \A i \in DOMAIN held' : held'[i].next \in Nat
  BY Types, TypesNext, QueryIsAnswer DEF TypeOK, Query, Answer
<1>5. \A i \in DOMAIN held' : held'[i].of = c =>
         Below(returned[c], held'[i].next) /\ Below(data[c], held'[i].next)
  <2> SUFFICES ASSUME NEW i \in DOMAIN held', held'[i].of = c
               PROVE  Below(returned[c], held'[i].next) /\ Below(data[c], held'[i].next)
    OBVIOUS
  <2>1. /\ Below(returned[c], held[i].next) /\ Below(data[c], held[i].next)
        /\ held[i].next \in Nat /\ held'[i].next \in Nat /\ held[i].next <= held'[i].next
    BY <1>3, <1>4 DEF Once
  <2> QED BY <1>2, <2>1, RowNumbers DEF Below
<1>6. \A t \in Task, i \in DOMAIN held' : Decoding(t, c)' /\ held'[i].of = c =>
         answer'[t].next + PageSize <= held'[i].next
  <2> SUFFICES ASSUME NEW t \in Task, NEW i \in DOMAIN held', Decoding(t, c)', held'[i].of = c
               PROVE  answer'[t].next + PageSize <= held'[i].next
    OBVIOUS
  <2>1. /\ answer'[t] = answer[t] /\ answer[t].next \in Nat
        /\ answer[t].next + PageSize <= held[i].next
        /\ held[i].next \in Nat /\ held'[i].next \in Nat /\ held[i].next <= held'[i].next
    BY <1>3, <1>4 DEF Once
  <2> QED BY <1>3, <2>1
<1>7. \A t \in Task : Decoding(t, c)' =>
         Outside(returned[c], answer'[t].next) /\ Outside(data[c], answer'[t].next)
  BY DEF Once
<1>8. \A t, u \in Task : t # u /\ Decoding(t, c)' /\ Decoding(u, c)' =>
         \/ answer'[t].next + PageSize <= answer'[u].next
         \/ answer'[u].next + PageSize <= answer'[t].next
  BY DEF Once
<1>9. (Distinct(returned[c]) /\ Distinct(data[c]) /\ Apart(returned[c], data[c]))'
  BY DEF Once, Distinct, Apart
<1>10. \A i \in DOMAIN held' : held'[i].of = c =>
          (Below(returned[c], held[i].next) /\ Below(data[c], held[i].next))'
  BY <1>5 DEF Below
<1>11. \A t \in Task : Decoding(t, c)' =>
          (Outside(returned[c], answer[t].next) /\ Outside(data[c], answer[t].next))'
  BY <1>7 DEF Outside
<1> QED BY <1>6, <1>8, <1>9, <1>10, <1>11 DEF Once

(* Taking the rows p for the cursor, of the page or of an answer to a task  *)
(* t that is at it no longer.                                               *)
LEMMA OnceTaken ==
    ASSUME TypeOK, OnInv, NEW c \in Cursor, Once(c), NEW p \in Seq(Row), p # <<>>, Returns(c, p),
           Distinct(p), Apart(returned[c], p),
           \A i \in DOMAIN held : held[i].of = c => Below(p, held[i].next),
           \A t \in Task : Decoding(t, c)' =>
              Decoding(t, c) /\ answer'[t] = answer[t] /\ Outside(p, answer[t].next),
           held' = held
    PROVE  Once(c)'
<1>1. /\ Distinct(returned'[c]) /\ Distinct(data'[c]) /\ Apart(returned'[c], data'[c])
      /\ \A k : Below(returned[c], k) /\ Below(p, k) => Below(returned'[c], k) /\ Below(data'[c], k)
      /\ \A k : Outside(returned[c], k) /\ Outside(p, k) =>
            Outside(returned'[c], k) /\ Outside(data'[c], k)
  BY OnceReturned DEF Once
<1>2. \A i \in DOMAIN held : held[i].of = c =>
         Below(returned'[c], held[i].next) /\ Below(data'[c], held[i].next)
  BY <1>1 DEF Once
<1>3. \A t \in Task : Decoding(t, c)' =>
         Outside(returned'[c], answer[t].next) /\ Outside(data'[c], answer[t].next)
  BY <1>1 DEF Once
<1>4. (Distinct(returned[c]) /\ Distinct(data[c]) /\ Apart(returned[c], data[c]))'
  BY <1>1 DEF Distinct, Apart
<1>5. \A i \in DOMAIN held' : held'[i].of = c =>
         (Below(returned[c], held[i].next) /\ Below(data[c], held[i].next))'
  BY <1>2 DEF Below
<1>6. \A t \in Task : Decoding(t, c)' =>
         (Outside(returned[c], answer[t].next) /\ Outside(data[c], answer[t].next))'
  BY <1>3 DEF Outside
<1>7. \A t \in Task, i \in DOMAIN held' : Decoding(t, c)' /\ held'[i].of = c =>
         answer'[t].next + PageSize <= held'[i].next
  BY DEF Once
<1>8. \A t, u \in Task : t # u /\ Decoding(t, c)' /\ Decoding(u, c)' =>
         \/ answer'[t].next + PageSize <= answer'[u].next
         \/ answer'[u].next + PageSize <= answer'[t].next
  BY DEF Once
<1> QED BY <1>4, <1>5, <1>6, <1>7, <1>8 DEF Once

(* Every step keeps it.                                                     *)
LEMMA OnceStep ==
    ASSUME IInv, IInv', FreshInv, OnceInv, [Next]_vars
    PROVE  OnceInv'
<1>i. TypeOK /\ OnInv /\ IdInv /\ TypeOK' /\ OnInv'
  BY DEF IInv
<1>0. CursorTypes /\ RowTypes /\ TaskTypes /\ NodeTypes /\ GhostTypes
  BY <1>i, Types
<1>n. /\ \A i \in DOMAIN held : held[i].next \in Nat
      /\ \A t \in Task, c \in Cursor : Decoding(t, c) => answer[t].next \in Nat
      /\ PageSize \in Nat \ {0}
  BY <1>i, Numbers
<1>o. outlived \subseteq outlived'
  BY DEF Next, Calls, Answers, Enter, NextRow, NoNextRow, NextPage, Close, Asks, Connected,
         Opened, OpenFailed, Paged, Closed, Initialized, PageTaken, DecodeFailed, Lose, Reconnect,
         vars, ghosts
<1> SUFFICES ASSUME NEW d \in Cursor, d \notin outlived', opened'[d] <= 1
             PROVE  Once(d)'
  BY DEF OnceInv
<1>d. d \notin outlived
  BY <1>o
<1>1. ASSUME NEW t \in Task, NEW c \in Cursor, Calls(t, c) PROVE Once(d)'
  <2>1. /\ opened' = opened /\ held' = held /\ answer' = answer /\ pc[t] = "idle"
        /\ NextRow(t, c) \/ (data' = data /\ returned' = returned)
        /\ d # c => data'[d] = data[d] /\ returned'[d] = returned[d]
        /\ \A u \in Task : u # t => pc'[u] = pc[u] /\ on'[u] = on[u]
        /\ CallPlaces(t, c)
    BY <1>i, <1>1, CallEffect
  <2>2. Once(d)
    BY <1>d, <2>1 DEF OnceInv
  <2>3. pc'[t] \notin {"opened", "paged"}
    BY <2>1 DEF CallPlaces
  <2>4. \A u \in Task : Decoding(u, d)' => Decoding(u, d) /\ answer'[u] = answer[u]
    BY <2>1, <2>3 DEF Decoding
  <2>5. CASE data'[d] = data[d] /\ returned'[d] = returned[d]
    <3>1. \A i \in DOMAIN held' : held'[i].of = d =>
             i \in DOMAIN held /\ held[i].of = d /\ held[i].next <= held'[i].next
      BY <1>n, <2>1
    <3> QED BY <1>i, <2>2, <2>4, <2>5, <3>1, OnceKept
  <2>6. CASE NextRow(t, d)
    <3>1. data[d] \in Seq(Row) /\ data[d] # <<>> /\ Returns(d, data[d])
      BY <1>0, <2>6 DEF NextRow, RowTypes
    <3>2. /\ Distinct(data[d]) /\ Apart(returned[d], data[d])
          /\ \A i \in DOMAIN held : held[i].of = d => Below(data[d], held[i].next)
          /\ \A u \in Task : Decoding(u, d) => Outside(data[d], answer[u].next)
      BY <2>2 DEF Once
    <3> QED BY <1>i, <2>1, <2>2, <2>4, <3>1, <3>2, OnceTaken
  <2> QED BY <2>1, <2>5, <2>6
<1>2. ASSUME NEW t \in Task, Opened(t) PROVE Once(d)'
  <2> DEFINE c == on[t]
             new == lastId + 1
  <2>1. /\ pc[t] = "opening" /\ c \in Cursor /\ on' = on /\ pc'[t] = "opened"
        /\ answer'[t] = [of |-> c, next |-> 1]
        /\ \A u \in Task : u # t => pc'[u] = pc[u] /\ answer'[u] = answer[u]
        /\ DOMAIN held' \subseteq DOMAIN held \cup {new}
        /\ \A j \in DOMAIN held' : j # new => held'[j] = held[j]
        /\ \A j \in DOMAIN held' : held'[j].of = IF j = new THEN c ELSE held[j].of
        /\ new \in DOMAIN held' => held'[new].next = 1 + PageSize
    BY <1>i, <1>2, OpenedEffect
  <2>2. /\ fetched' = fetched /\ data' = data /\ returned' = returned
        /\ opened' = [opened EXCEPT ![c] = IF @ = 0 THEN 1 ELSE 2]
    BY <1>2 DEF Opened, cursorVars
  <2>3. CASE d = c
    <3>1. opened[d] = 0
      BY <1>0, <2>1, <2>2, <2>3 DEF GhostTypes
    <3>2. /\ data[d] = <<>> /\ returned[d] = <<>> /\ NotHeld(d) /\ d \notin fetched
          /\ \A u \in Task : pc[u] = "opened" => on[u] # d
      BY <3>1 DEF FreshInv, Fresh
    <3>3. \A u \in Task : u # t => ~Decoding(u, d)'
      BY <1>i, <2>1, <3>2 DEF Decoding, OnInv
    <3>4. \A i \in DOMAIN held' : held'[i].of = d => i = new /\ held'[i].next = 1 + PageSize
      BY <2>1, <3>2 DEF NotHeld
    <3>5. /\ data'[d] = <<>> /\ returned'[d] = <<>> /\ answer'[t].next = 1
      BY <2>1, <2>2, <3>2
    <3>6. \A k : /\ Distinct(returned'[d]) /\ Distinct(data'[d]) /\ Apart(returned'[d], data'[d])
                 /\ Below(returned'[d], k) /\ Below(data'[d], k)
                 /\ Outside(returned'[d], k) /\ Outside(data'[d], k)
      BY <3>5, NoRows
    <3>7. (Distinct(returned[d]) /\ Distinct(data[d]) /\ Apart(returned[d], data[d]))'
      BY <3>6 DEF Distinct, Apart
    <3>8. \A i \in DOMAIN held' : (Below(returned[d], held[i].next) /\ Below(data[d], held[i].next))'
      BY <3>6 DEF Below
    <3>9. \A u \in Task : (Outside(returned[d], answer[u].next) /\ Outside(data[d], answer[u].next))'
      BY <3>6 DEF Outside
    <3>10. \A u \in Task, i \in DOMAIN held' : Decoding(u, d)' /\ held'[i].of = d =>
              answer'[u].next + PageSize <= held'[i].next
      BY <1>n, <3>3, <3>4, <3>5
    <3> QED BY <3>3, <3>7, <3>8, <3>9, <3>10 DEF Once
  <2>4. CASE d # c
    <3>1. opened'[d] = opened[d]
      BY <1>0, <2>1, <2>2, <2>4 DEF GhostTypes
    <3>2. Once(d)
      BY <1>d, <3>1 DEF OnceInv
    <3>3. \A u \in Task : Decoding(u, d)' => Decoding(u, d) /\ answer'[u] = answer[u]
      BY <2>1, <2>4 DEF Decoding
    <3> HIDE DEF c, new
    <3>4. \A i \in DOMAIN held' : held'[i].of = d =>
             i \in DOMAIN held /\ held[i].of = d /\ held[i].next <= held'[i].next
      BY <1>n, <2>1, <2>4
    <3> QED BY <1>i, <2>2, <3>2, <3>3, <3>4, OnceKept
  <2> QED BY <2>3, <2>4
<1>3. ASSUME NEW t \in Task, Paged(t), wanted[t] \in DOMAIN held PROVE Once(d)'
  <2> DEFINE c == on[t]
             i == wanted[t]
             q == held[i]
  <2>1. /\ pc[t] = "paging" /\ c \in Cursor /\ on' = on /\ pc'[t] = "paged" /\ answer'[t] = q
        /\ \A u \in Task : u # t => pc'[u] = pc[u] /\ answer'[u] = answer[u]
        /\ DOMAIN held' \subseteq DOMAIN held
        /\ \A j \in DOMAIN held' : j # i => held'[j] = held[j]
        /\ \A j \in DOMAIN held' : held'[j].of = held[j].of
        /\ i \in DOMAIN held' => held'[i].next = q.next + PageSize
    BY <1>i, <1>3, PagedEffect
  <2>2. /\ data' = data /\ returned' = returned /\ opened' = opened /\ outlived' = outlived
    BY <1>3 DEF Paged, cursorVars, ghosts
  <2>3. Once(d) /\ Fresh(d)
    BY <1>d, <2>2 DEF OnceInv, FreshInv
  <2>4. \A j \in DOMAIN held' : held[j].next <= held'[j].next
    BY <1>n, <2>1
  <2>5. CASE d # c
    <3>1. \A u \in Task : Decoding(u, d)' => Decoding(u, d) /\ answer'[u] = answer[u]
      BY <2>1, <2>5 DEF Decoding
    <3> QED BY <1>i, <2>1, <2>2, <2>3, <2>4, <3>1, OnceKept
  <2>6. CASE d = c
    <3>1. q.of = d /\ i \in DOMAIN held
      BY <1>3, <1>i, <1>d, <2>1, <2>6 DEF IdInv
    <3>2. \A j \in DOMAIN held : held[j].of = d => j = i
      BY <2>2, <2>3, <3>1 DEF Fresh
    <3>3. /\ Below(returned[d], q.next) /\ Below(data[d], q.next) /\ q.next \in Nat
          /\ \A u \in Task : Decoding(u, d) => answer[u].next + PageSize <= q.next
      BY <1>n, <2>3, <3>1 DEF Once
    <3>4. /\ Outside(returned[d], q.next) /\ Outside(data[d], q.next)
          /\ Below(returned[d], q.next + PageSize) /\ Below(data[d], q.next + PageSize)
      <4>1. returned[d] \in Seq(Row) /\ data[d] \in Seq(Row)
        BY <1>0 DEF RowTypes
      <4> QED BY <1>n, <3>3, <4>1, RowNumbers DEF Below, Outside
    <3>5. \A j \in DOMAIN held' : held'[j].of = d => j = i /\ held'[j].next = q.next + PageSize
      BY <2>1, <3>2
    <3>6. \A u \in Task : Decoding(u, d)' =>
             \/ u = t /\ answer'[u].next = q.next
             \/ /\ u # t /\ Decoding(u, d) /\ answer'[u].next = answer[u].next
                /\ answer[u].next \in Nat /\ answer[u].next + PageSize <= q.next
      BY <1>n, <2>1, <3>3 DEF Decoding
    <3> HIDE DEF c, i, q
    <3>7. (Distinct(returned[d]) /\ Distinct(data[d]) /\ Apart(returned[d], data[d]))'
      BY <2>2, <2>3 DEF Once, Distinct, Apart
    <3>8. \A j \in DOMAIN held' : held'[j].of = d =>
             (Below(returned[d], held[j].next) /\ Below(data[d], held[j].next))'
      <4>1. \A j \in DOMAIN held' : held'[j].of = d =>
               Below(returned[d], held'[j].next) /\ Below(data[d], held'[j].next)
        BY <3>4, <3>5
      <4> QED BY <2>2, <4>1 DEF Below
    <3>9. \A u \in Task : Decoding(u, d)' =>
             (Outside(returned[d], answer[u].next) /\ Outside(data[d], answer[u].next))'
      <4>1. \A u \in Task : Decoding(u, d)' =>
               Outside(returned[d], answer'[u].next) /\ Outside(data[d], answer'[u].next)
        BY <2>3, <3>4, <3>6 DEF Once
      <4> QED BY <2>2, <4>1 DEF Outside
    <3>10. \A u \in Task, j \in DOMAIN held' : Decoding(u, d)' /\ held'[j].of = d =>
              answer'[u].next + PageSize <= held'[j].next
      BY <1>n, <3>3, <3>5, <3>6
    <3>11. \A u, v \in Task : u # v /\ Decoding(u, d)' /\ Decoding(v, d)' =>
              \/ answer'[u].next + PageSize <= answer'[v].next
              \/ answer'[v].next + PageSize <= answer'[u].next
      <4> SUFFICES ASSUME NEW u \in Task, NEW v \in Task, u # v, Decoding(u, d)', Decoding(v, d)'
                   PROVE  \/ answer'[u].next + PageSize <= answer'[v].next
                          \/ answer'[v].next + PageSize <= answer'[u].next
        OBVIOUS
      <4>1. CASE u = t
        BY <3>6, <4>1
      <4>2. CASE v = t
        BY <3>6, <4>2
      <4>3. CASE u # t /\ v # t
        BY <2>3, <3>6, <4>3 DEF Once
      <4> QED BY <4>1, <4>2, <4>3
    <3> QED BY <3>7, <3>8, <3>9, <3>10, <3>11 DEF Once
  <2> QED BY <2>5, <2>6
<1>4. ASSUME NEW t \in Task, Initialized(t) \/ PageTaken(t) PROVE Once(d)'
  <2> DEFINE c == on[t]
             p == Page(answer[t])
  <2>0. Answers(t) /\ ~Opened(t) /\ ~Paged(t)
    BY <1>4 DEF Answers, Initialized, PageTaken, Opened, Paged
  <2>1. /\ c \in Cursor
        /\ \A u \in Task : u # t => pc'[u] = pc[u] /\ on'[u] = on[u] /\ answer'[u] = answer[u]
    BY <1>i, <2>0, AnswerEffect
  <2>2. pc'[t] = "idle"
    BY <1>0, <1>4, OverTasks DEF Initialized, PageTaken
  <2>3. d # c => data'[d] = data[d] /\ returned'[d] = returned[d]
    BY <1>i, <2>0, AnswerCursors
  <2>4. held' = held /\ opened' = opened
    BY <1>4 DEF Initialized, PageTaken, nodeVars
  <2>5. Once(d)
    BY <1>d, <2>4 DEF OnceInv
  <2>6. \A u \in Task : Decoding(u, d)' => u # t /\ Decoding(u, d) /\ answer'[u] = answer[u]
    BY <2>1, <2>2 DEF Decoding
  <2>7. \A i \in DOMAIN held' : held'[i].of = d =>
           i \in DOMAIN held /\ held[i].of = d /\ held[i].next <= held'[i].next
    BY <1>n, <2>4
  <2>8. CASE d # c
    BY <1>i, <2>3, <2>5, <2>6, <2>7, <2>8, OnceKept
  <2>9. CASE d = c
    <3>1. /\ Decoding(t, d) /\ answer[t].next \in Nat /\ answer[t].of = d
          /\ answer[t] \in Answer /\ answer[t].next <= Size[answer[t].of] + 1
      <4>1. CASE Initialized(t)
        <5>1. pc[t] = "opened" /\ answer[t] = [of |-> d, next |-> 1]
          BY <1>i, <2>9, <4>1 DEF Initialized, OnInv
        <5>2. Decoding(t, d) /\ answer[t].of = d /\ answer[t].next = 1
          BY <2>9, <5>1 DEF Decoding
        <5> QED BY <5>1, <5>2, FirstPage
      <4>2. CASE PageTaken(t)
        <5>1. pc[t] = "paged" /\ answer[t] \in Query
          BY <1>i, <4>2 DEF PageTaken, OnInv
        <5>2. answer[t].of = d
          BY <1>i, <1>d, <2>9, <5>1 DEF IdInv
        <5>3. answer[t].next \in Nat
          BY <5>1, QueryIsAnswer
        <5> QED BY <2>9, <5>1, <5>2, <5>3, QueryIsAnswer DEF Decoding
      <4> QED BY <1>4, <4>1, <4>2
    <3>2. returned[d] \in Seq(Row)
      BY <1>0 DEF RowTypes
    <3>3. /\ p \in Seq(Row) /\ Distinct(p) /\ Below(p, answer[t].next + PageSize)
          /\ \A s \in Seq(Row) : Outside(s, answer[t].next) => Apart(s, p)
          /\ \A k \in Nat : k + PageSize <= answer[t].next \/ answer[t].next + PageSize <= k =>
                Outside(p, k)
      BY <3>1, PageNumbers
    <3> HIDE DEF c, p
    <3>4. Apart(returned[d], p)
      BY <2>5, <3>1, <3>2, <3>3 DEF Once
    <3>5. \A i \in DOMAIN held : held[i].of = d => Below(p, held[i].next)
      <4> SUFFICES ASSUME NEW i \in DOMAIN held, held[i].of = d PROVE Below(p, held[i].next)
        OBVIOUS
      <4>1. answer[t].next + PageSize <= held[i].next /\ held[i].next \in Nat
        BY <1>n, <2>5, <3>1 DEF Once
      <4> QED BY <1>n, <3>1, <3>3, <4>1, RowNumbers DEF Below
    <3>6. \A u \in Task : Decoding(u, d)' =>
             Decoding(u, d) /\ answer'[u] = answer[u] /\ Outside(p, answer[u].next)
      <4> SUFFICES ASSUME NEW u \in Task, Decoding(u, d)' PROVE Outside(p, answer[u].next)
        BY <2>6
      <4>1. u # t /\ Decoding(u, d) /\ answer[u].next \in Nat
        BY <1>n, <2>6
      <4>2. \/ answer[t].next + PageSize <= answer[u].next
            \/ answer[u].next + PageSize <= answer[t].next
        BY <2>5, <3>1, <4>1 DEF Once
      <4> QED BY <3>3, <4>1, <4>2
    <3>7. CASE PageTaken(t)
      <4>1. p # <<>> /\ Returns(d, p)
        BY <1>i, <2>9, <3>7, DecodedPage DEF PageTaken, p, c
      <4> QED BY <1>i, <2>4, <2>5, <3>3, <3>4, <3>5, <3>6, <4>1, OnceTaken
    <3>8. CASE Initialized(t)
      <4>1. returned' = returned /\ data' = [data EXCEPT ![d] = p]
        BY <2>9, <3>8 DEF Initialized, p, c
      <4>2. data'[d] = p
        BY <1>0, <4>1 DEF RowTypes
      <4>3. (Distinct(returned[d]) /\ Distinct(data[d]) /\ Apart(returned[d], data[d]))'
        BY <2>5, <3>3, <3>4, <4>1, <4>2 DEF Once, Distinct, Apart
      <4>4. \A i \in DOMAIN held' : held'[i].of = d =>
               (Below(returned[d], held[i].next) /\ Below(data[d], held[i].next))'
        BY <2>4, <2>5, <3>5, <4>1, <4>2 DEF Once, Below
      <4>5. \A u \in Task : Decoding(u, d)' =>
               (Outside(returned[d], answer[u].next) /\ Outside(data[d], answer[u].next))'
        BY <2>5, <3>6, <4>1, <4>2 DEF Once, Outside
      <4>6. \A u \in Task, i \in DOMAIN held' : Decoding(u, d)' /\ held'[i].of = d =>
               answer'[u].next + PageSize <= held'[i].next
        BY <2>4, <2>5, <2>6 DEF Once
      <4>7. \A u, v \in Task : u # v /\ Decoding(u, d)' /\ Decoding(v, d)' =>
               \/ answer'[u].next + PageSize <= answer'[v].next
               \/ answer'[v].next + PageSize <= answer'[u].next
        BY <2>5, <2>6 DEF Once
      <4> QED BY <4>3, <4>4, <4>5, <4>6, <4>7 DEF Once
    <3> QED BY <1>4, <3>7, <3>8
  <2> QED BY <2>8, <2>9
<1>5. ASSUME NEW t \in Task, Answers(t), ~Opened(t), ~(Paged(t) /\ wanted[t] \in DOMAIN held),
             ~Initialized(t), ~PageTaken(t)
      PROVE  Once(d)'
  <2>1. /\ AnswerPlaces(t)
        /\ \A u \in Task : u # t => pc'[u] = pc[u] /\ on'[u] = on[u] /\ answer'[u] = answer[u]
    BY <1>i, <1>5, AnswerEffect
  <2>2. pc'[t] \notin {"opened", "paged"}
    BY <1>5, <2>1 DEF AnswerPlaces
  <2>3. data' = data /\ returned' = returned /\ opened' = opened
    BY <1>5 DEF Answers, Connected, OpenFailed, Paged, Closed, DecodeFailed, cursorVars, ghosts
  <2>4. DOMAIN held' \subseteq DOMAIN held /\ \A i \in DOMAIN held' : held'[i] = held[i]
    <3>1. CASE Paged(t)
      BY <1>5, <3>1 DEF Paged
    <3>2. CASE ~Paged(t)
      BY <1>i, <1>5, <3>2, HeldShrinks
    <3> QED BY <3>1, <3>2
  <2>5. Once(d)
    BY <1>d, <2>3 DEF OnceInv
  <2>6. \A u \in Task : Decoding(u, d)' => Decoding(u, d) /\ answer'[u] = answer[u]
    BY <2>1, <2>2 DEF Decoding
  <2>7. \A i \in DOMAIN held' : held'[i].of = d =>
           i \in DOMAIN held /\ held[i].of = d /\ held[i].next <= held'[i].next
    BY <1>n, <2>4
  <2> QED BY <1>i, <2>3, <2>5, <2>6, <2>7, OnceKept
<1>6. CASE Lose
  <2>1. /\ DOMAIN held' = {} /\ data' = data /\ returned' = returned /\ opened' = opened
        /\ answer' = answer
        /\ \A t \in Task : pc'[t] \in {"opened", "paged"} => pc'[t] = pc[t] /\ on'[t] = on[t]
    BY <1>i, <1>6, LoseEffect
  <2>2. Once(d)
    BY <1>d, <2>1 DEF OnceInv
  <2>3. \A u \in Task : Decoding(u, d)' => Decoding(u, d) /\ answer'[u] = answer[u]
    BY <2>1 DEF Decoding
  <2> QED BY <1>i, <2>1, <2>2, <2>3, OnceKept
<1>7. CASE Reconnect \/ UNCHANGED vars
  <2>1. /\ held' = held /\ data' = data /\ returned' = returned /\ opened' = opened
        /\ pc' = pc /\ on' = on /\ answer' = answer
    BY <1>7 DEF Reconnect, vars, cursorVars, taskVars, nodeVars, ghosts
  <2>2. Once(d)
    BY <1>d, <2>1 DEF OnceInv
  <2>3. \A u \in Task : Decoding(u, d)' => Decoding(u, d) /\ answer'[u] = answer[u]
    BY <2>1 DEF Decoding
  <2>4. \A i \in DOMAIN held' : held'[i].of = d =>
           i \in DOMAIN held /\ held[i].of = d /\ held[i].next <= held'[i].next
    BY <1>n, <2>1
  <2> QED BY <1>i, <2>1, <2>2, <2>3, <2>4, OnceKept
<1> QED
  <2>1. \A t \in Task : Answers(t) => Once(d)'
    BY <1>2, <1>3, <1>4, <1>5
  <2> QED BY <1>1, <1>6, <1>7, <2>1 DEF Next

-----------------------------------------------------------------------------
(* Cursors that one task uses at a time                                     *)

(* An idle task is at no cursor; two tasks are at one only when it is       *)
(* shared.                                                                  *)
ShareInv ==
    /\ \A t \in Task : pc[t] = "idle" => on[t] = None
    /\ \A t, u \in Task : t # u /\ on[t] = on[u] /\ on[t] \in Cursor => on[t] \in shared

(* A cursor that has a node but no data is being opened; while it is, it    *)
(* has the first query or page of it, and afterwards what is held of it has *)
(* its id and is wanted: there are more pages, or one is decoded that was   *)
(* not the last.                                                            *)
Solo(c) ==
    /\ c \in connected \ fetched => \E t \in Task : on[t] = c /\ pc[t] \in {"opening", "opened"}
    /\ \A t \in Task : on[t] = c =>
          /\ pc[t] \in {"connecting", "opening"} => opened[c] = 0
          /\ pc[t] = "opened" =>
                /\ c \notin fetched
                /\ \A i \in DOMAIN held : held[i].of = c => i = wanted[t] /\ ~IsLast(answer[t])
          /\ pc[t] \in {"paging", "closing"} => wanted[t] = id[c] /\ c \in more
          /\ pc[t] \in {"paging", "paged"} => data[c] = <<>>
          /\ pc[t] = "paged" => \A i \in DOMAIN held : held[i].of = c => ~IsLast(answer[t])
    /\ c \in fetched => \A i \in DOMAIN held : held[i].of = c => i = id[c] /\ c \in more
SoloInv == \A c \in Cursor \ (shared \cup failed) : Solo(c)

(* Every step keeps it that only shared cursors have two tasks.             *)
LEMMA ShareStep ==
    ASSUME TypeOK, OnInv, ShareInv, [Next]_vars
    PROVE  ShareInv'
<1>c. None \notin Cursor
  BY ConstantsAssumption
<1>1. ASSUME NEW t \in Task, NEW c \in Cursor, Calls(t, c) PROVE ShareInv'
  <2>1. /\ pc[t] = "idle" /\ shared \subseteq shared' /\ CallPlaces(t, c)
        /\ \A u \in Task : on[u] = c => c \in shared'
        /\ \A u \in Task : u # t => pc'[u] = pc[u] /\ on'[u] = on[u]
    BY <1>1, CallEffect
  <2>2. on[t] = None /\ (on'[t] = c \/ (on'[t] = None /\ pc'[t] = "idle"))
    BY <2>1 DEF CallPlaces, ShareInv
  <2>3. pc'[t] = "idle" => on'[t] = None
    BY <2>1, <2>2 DEF CallPlaces
  <2>4. \A u, v \in Task : u # v /\ on'[u] = on'[v] /\ on'[u] \in Cursor => on'[u] \in shared'
    BY <1>c, <2>1, <2>2 DEF ShareInv
  <2>5. \A u \in Task : pc'[u] = "idle" => on'[u] = None
    BY <2>1, <2>3 DEF ShareInv
  <2> QED BY <2>4, <2>5 DEF ShareInv
<1>2. ASSUME NEW t \in Task, Answers(t) PROVE ShareInv'
  <2>1. /\ shared' = shared /\ AnswerPlaces(t)
        /\ \A u \in Task : u # t => pc'[u] = pc[u] /\ on'[u] = on[u]
    BY <1>2, AnswerEffect
  <2>2. (pc'[t] = "idle" /\ on'[t] = None) \/ (pc'[t] # "idle" /\ on'[t] = on[t])
    BY <2>1 DEF AnswerPlaces
  <2> QED BY <1>c, <2>1, <2>2 DEF ShareInv
<1>3. CASE Lose
  <2>1. /\ shared' = shared
        /\ \A t \in Task : (pc'[t] = "idle" /\ on'[t] = None) \/ (pc'[t] = pc[t] /\ on'[t] = on[t])
    BY <1>3, LoseEffect
  <2> QED BY <1>c, <2>1 DEF ShareInv
<1>4. CASE Reconnect \/ UNCHANGED vars
  BY <1>4 DEF Reconnect, vars, ShareInv, taskVars, ghosts
<1> QED BY <1>1, <1>2, <1>3, <1>4 DEF Next

(* What is said of one cursor is kept where nothing is opened or taken.     *)
LEMMA SoloKept ==
    ASSUME NEW c \in Cursor, Solo(c), opened'[c] = opened[c], id'[c] = id[c], data'[c] = data[c],
           c \in fetched' <=> c \in fetched, c \in more' <=> c \in more,
           c \in connected' => c \in connected,
           \A t \in Task : on'[t] = c =>
              on[t] = c /\ pc'[t] = pc[t] /\ wanted'[t] = wanted[t] /\ answer'[t] = answer[t],
           \A t \in Task : on[t] = c /\ pc[t] \in {"opening", "opened"} => on'[t] = c,
           \A i \in DOMAIN held' : held'[i].of = c => i \in DOMAIN held /\ held[i].of = c
    PROVE  Solo(c)'
<1>1. \A t \in Task : on'[t] = c /\ pc'[t] \in {"opened", "paged"} =>
         (IsLast(answer[t]) <=> IsLast(answer[t])')
  BY DEF IsLast
<1>2. c \in connected' \ fetched' => \E t \in Task : on'[t] = c /\ pc'[t] \in {"opening", "opened"}
  BY DEF Solo
<1>3. c \in fetched' => \A i \in DOMAIN held' : held'[i].of = c => i = id'[c] /\ c \in more'
  BY DEF Solo
<1>4. ASSUME NEW t \in Task, on'[t] = c
      PROVE  /\ pc'[t] \in {"connecting", "opening"} => opened'[c] = 0
             /\ pc'[t] = "opened" =>
                   /\ c \notin fetched'
                   /\ \A i \in DOMAIN held' : held'[i].of = c => i = wanted'[t] /\ ~IsLast(answer[t])'
             /\ pc'[t] \in {"paging", "closing"} => wanted'[t] = id'[c] /\ c \in more'
             /\ pc'[t] \in {"paging", "paged"} => data'[c] = <<>>
             /\ pc'[t] = "paged" => \A i \in DOMAIN held' : held'[i].of = c => ~IsLast(answer[t])'
  <2>1. on[t] = c /\ pc'[t] = pc[t] /\ wanted'[t] = wanted[t]
    BY <1>4
  <2>2. /\ pc[t] \in {"connecting", "opening"} => opened[c] = 0
        /\ pc[t] = "opened" =>
              /\ c \notin fetched
              /\ \A i \in DOMAIN held : held[i].of = c => i = wanted[t] /\ ~IsLast(answer[t])
        /\ pc[t] \in {"paging", "closing"} => wanted[t] = id[c] /\ c \in more
        /\ pc[t] \in {"paging", "paged"} => data[c] = <<>>
        /\ pc[t] = "paged" => \A i \in DOMAIN held : held[i].of = c => ~IsLast(answer[t])
    BY <2>1 DEF Solo
  <2> QED BY <1>1, <1>4, <2>1, <2>2
<1> QED BY <1>2, <1>3, <1>4 DEF Solo

(* A cursor at which no task is any more.                                   *)
LEMMA SoloLeft ==
    ASSUME NEW c \in Cursor, Unused(c)', c \in connected' => c \in fetched',
           c \in fetched' => \A i \in DOMAIN held' : held'[i].of = c => i = id'[c] /\ c \in more'
    PROVE  Solo(c)'
BY DEF Unused, Solo

(* Every step keeps what is said of cursors that one task uses at a time.   *)
LEMMA SoloStep ==
    ASSUME TypeOK, OnInv, FreshInv, ShareInv, SoloInv, [Next]_vars
    PROVE  SoloInv'
<1>0. CursorTypes /\ RowTypes /\ TaskTypes /\ NodeTypes /\ GhostTypes
  BY Types
<1>c. None \notin Cursor
  BY ConstantsAssumption
<1> SUFFICES ASSUME NEW d \in Cursor, d \notin shared', d \notin failed' PROVE Solo(d)'
  BY DEF SoloInv
<1>f. Fresh(d)
  BY DEF FreshInv
<1>1. ASSUME NEW t \in Task, NEW c \in Cursor, Calls(t, c) PROVE Solo(d)'
  <2>1. /\ pc[t] = "idle" /\ shared \subseteq shared' /\ failed' = failed
        /\ \A u \in Task : on[u] = c => c \in shared'
        /\ connected \subseteq connected'
        /\ fetched' = fetched /\ more' = more /\ id' = id /\ held' = held /\ opened' = opened
        /\ answer' = answer
        /\ \A e \in Cursor : e # c => data'[e] = data[e] /\ (e \in connected' <=> e \in connected)
        /\ \A u \in Task : u # t => pc'[u] = pc[u] /\ on'[u] = on[u] /\ wanted'[u] = wanted[u]
        /\ CallPlaces(t, c)
    BY <1>1, CallEffect
  <2>2. Solo(d) /\ on[t] = None
    BY <2>1 DEF SoloInv, ShareInv
  <2>3. CASE d # c
    <3>1. on'[t] # d
      BY <1>c, <2>1, <2>2, <2>3 DEF CallPlaces
    <3>2. \A u \in Task : on'[u] = d =>
             on[u] = d /\ pc'[u] = pc[u] /\ wanted'[u] = wanted[u] /\ answer'[u] = answer[u]
      BY <2>1, <3>1
    <3>3. \A u \in Task : on[u] = d /\ pc[u] \in {"opening", "opened"} => on'[u] = d
      BY <1>c, <2>1, <2>2
    <3>4. data'[d] = data[d] /\ (d \in connected' <=> d \in connected)
      BY <2>1, <2>3
    <3> QED BY <2>1, <2>2, <3>2, <3>3, <3>4, SoloKept
  <2>4. CASE d = c
    <3>1. Unused(d)
      BY <2>1, <2>4 DEF Unused
    <3>2. d \in connected => d \in fetched
      BY <2>2, <3>1 DEF Solo, Unused
    <3>3. d \in fetched' => \A i \in DOMAIN held' : held'[i].of = d => i = id'[d] /\ d \in more'
      BY <2>1, <2>2 DEF Solo
    <3>4. d \notin fetched => opened[d] = 0
      BY <1>f, <3>2 DEF Fresh
    <3>5. \A u \in Task : u # t => on'[u] # d
      BY <2>1, <3>1 DEF Unused
    <3>6. CASE on'[t] = on[t] /\ connected' = connected
      BY <2>1, <3>1, <3>2, <3>3, <3>5, <3>6, SoloLeft DEF Unused
    <3>7. CASE pc'[t] = "connecting" /\ d \notin fetched /\ connected' = connected
      BY <2>1, <3>2, <3>3, <3>4, <3>5, <3>7 DEF Solo
    <3>8. CASE pc'[t] = "opening" /\ on'[t] = d /\ d \notin fetched
      BY <2>1, <3>3, <3>4, <3>5, <3>8 DEF Solo
    <3>9. CASE /\ pc'[t] = "paging" /\ d \in more /\ wanted'[t] = id[d] /\ data[d] = <<>>
               /\ data' = data /\ connected' = connected
      BY <2>1, <3>2, <3>3, <3>5, <3>9 DEF Solo
    <3>10. CASE pc'[t] = "closing" /\ d \in more /\ wanted'[t] = id[d] /\ connected' = connected
      BY <2>1, <3>2, <3>3, <3>5, <3>10 DEF Solo
    <3> QED BY <2>1, <2>4, <3>6, <3>7, <3>8, <3>9, <3>10 DEF CallPlaces
  <2> QED BY <2>3, <2>4
<1>2. ASSUME NEW t \in Task, Answers(t) PROVE Solo(d)'
  <2> DEFINE c == on[t]
  <2>1. /\ pc[t] # "idle" /\ c \in Cursor /\ shared' = shared /\ AnswerPlaces(t)
        /\ \A u \in Task : u # t => /\ pc'[u] = pc[u] /\ on'[u] = on[u] /\ wanted'[u] = wanted[u]
                                    /\ answer'[u] = answer[u]
    BY <1>2, AnswerEffect
  <2>2. failed \subseteq failed'
    BY <1>2, AnswerCursors
  <2>3. Solo(d)
    BY <2>1, <2>2 DEF SoloInv
  <2>4. on'[t] = None \/ on'[t] = c
    BY <2>1 DEF AnswerPlaces
  <2>5. CASE d # c
    <3>1. /\ data'[d] = data[d] /\ id'[d] = id[d] /\ opened'[d] = opened[d]
          /\ d \in more' <=> d \in more
          /\ d \in fetched' <=> d \in fetched
          /\ d \in connected' <=> d \in connected
      BY <1>2, <2>5, AnswerCursors
    <3>2. on'[t] # d /\ on[t] # d
      BY <1>c, <2>4, <2>5
    <3>3. \A u \in Task : on'[u] = d =>
             on[u] = d /\ pc'[u] = pc[u] /\ wanted'[u] = wanted[u] /\ answer'[u] = answer[u]
      BY <2>1, <3>2
    <3>4. \A u \in Task : on[u] = d /\ pc[u] \in {"opening", "opened"} => on'[u] = d
      BY <2>1, <3>2
    <3>5. \A i \in DOMAIN held' : held'[i].of = d => i \in DOMAIN held /\ held[i].of = d
      <4>1. CASE Opened(t)
        <5>1. /\ DOMAIN held' \subseteq DOMAIN held \cup {lastId + 1}
              /\ \A j \in DOMAIN held' : held'[j].of = IF j = lastId + 1 THEN c ELSE held[j].of
          BY <4>1, OpenedEffect
        <5> QED BY <2>5, <5>1
      <4>2. CASE ~Opened(t)
        BY <1>2, <4>2, HeldShrinks
      <4> QED BY <4>1, <4>2
    <3> QED BY <2>3, <3>1, <3>3, <3>4, <3>5, SoloKept
  <2>6. CASE d = c
    <3>1. \A u \in Task : on[u] = d => u = t
      BY <2>1, <2>6 DEF ShareInv
    <3>2. \A u \in Task : u # t => on'[u] # d
      BY <2>1, <3>1
    <3>3. on'[t] = None => Unused(d)'
      BY <1>c, <3>2 DEF Unused
    <3>t. /\ pc[t] \in {"connecting", "opening"} => opened[d] = 0
          /\ pc[t] = "opened" =>
                /\ d \notin fetched
                /\ \A i \in DOMAIN held : held[i].of = d => i = wanted[t] /\ ~IsLast(answer[t])
          /\ pc[t] \in {"paging", "closing"} => wanted[t] = id[d] /\ d \in more
          /\ pc[t] \in {"paging", "paged"} => data[d] = <<>>
          /\ pc[t] = "paged" => \A i \in DOMAIN held : held[i].of = d => ~IsLast(answer[t])
      BY <2>3, <2>6 DEF Solo
    <3>h. d \in fetched => \A i \in DOMAIN held : held[i].of = d => i = id[d] /\ d \in more
      BY <2>3 DEF Solo
    <3>u. d \in connected \ fetched => pc[t] \in {"opening", "opened"}
      BY <2>3, <3>1 DEF Solo
    <3>4. CASE Connected(t)
      <4>1. /\ pc[t] = "connecting" /\ fetched' = fetched /\ id' = id /\ more' = more /\ held' = held
            /\ opened' = opened
        BY <3>4 DEF Connected, nodeVars, ghosts
      <4>2. pc'[t] = "opening" /\ on'[t] = d
        BY <2>1, <2>6, <3>4 DEF AnswerPlaces, Connected, Opened, Paged, TakesNode, Waits, TaskTypes
      <4> QED BY <3>2, <3>h, <3>t, <4>1, <4>2 DEF Solo
    <3>5. CASE Opened(t)
      <4> DEFINE q == [of |-> c, next |-> 1]
                 new == lastId + 1
      <4>1. /\ pc[t] = "opening" /\ on' = on /\ pc'[t] = "opened" /\ answer'[t] = q /\ wanted'[t] = new
            /\ DOMAIN held' \subseteq DOMAIN held \cup {new}
            /\ \A j \in DOMAIN held' : held'[j].of = IF j = new THEN c ELSE held[j].of
            /\ new \in DOMAIN held' <=> ~IsLast(q)
        BY <3>5, OpenedEffect
      <4>2. fetched' = fetched /\ d \notin fetched /\ NotHeld(d)
        BY <1>f, <3>5, <3>t, <4>1 DEF Opened, Fresh, cursorVars
      <4>3. IsLast(q)' <=> IsLast(q)
        BY <4>1 DEF IsLast
      <4> HIDE DEF q, new, c
      <4>4. \A i \in DOMAIN held' : held'[i].of = d => i = wanted'[t] /\ ~IsLast(answer[t])'
        BY <4>1, <4>2, <4>3 DEF NotHeld
      <4>5. on'[t] = d
        BY <2>6, <4>1 DEF c
      <4> QED BY <3>2, <4>1, <4>2, <4>4, <4>5 DEF Solo
    <3>6. CASE Initialized(t)
      <4>1. /\ pc[t] = "opened" /\ fetched' = fetched \cup {d} /\ held' = held
            /\ id' = [id EXCEPT ![d] = wanted[t]]
            /\ more' = IF IsLast(answer[t]) THEN more \ {d} ELSE more \cup {d}
            /\ Over(t)
        BY <2>6, <3>6 DEF Initialized, SetsMore, nodeVars
      <4>2. on'[t] = None /\ id'[d] = wanted[t]
        BY <1>0, <4>1, OverTasks DEF CursorTypes
      <4> QED BY <3>3, <3>t, <4>1, <4>2, SoloLeft
    <3>7. CASE Paged(t) /\ wanted[t] \in DOMAIN held
      <4>1. /\ pc[t] = "paging" /\ on' = on /\ d \in fetched
            /\ pc'[t] = "paged" /\ answer'[t] = held[wanted[t]]
            /\ DOMAIN held' \subseteq DOMAIN held
            /\ \A j \in DOMAIN held' : held'[j].of = held[j].of
            /\ wanted[t] \in DOMAIN held' <=> ~IsLast(held[wanted[t]])
        BY <2>6, <3>7, PagedEffect
      <4>2. fetched' = fetched /\ more' = more /\ id' = id /\ data' = data
        BY <3>7 DEF Paged, cursorVars
      <4>3. IsLast(answer[t])' <=> IsLast(held[wanted[t]])
        BY <4>1 DEF IsLast
      <4>4. \A i \in DOMAIN held' : held'[i].of = d => i = id'[d] /\ d \in more'
        BY <3>h, <4>1, <4>2
      <4>5. wanted[t] = id[d] /\ data[d] = <<>>
        BY <3>t, <4>1
      <4>6. \A i \in DOMAIN held' : held'[i].of = d => ~IsLast(answer[t])'
        BY <4>1, <4>2, <4>3, <4>4, <4>5
      <4> HIDE DEF c
      <4> QED BY <3>2, <4>1, <4>2, <4>4, <4>5, <4>6 DEF Solo
    <3>8. CASE PageTaken(t)
      <4>1. /\ pc[t] = "paged" /\ fetched' = fetched /\ id' = id /\ held' = held
            /\ more' = IF IsLast(answer[t]) THEN more \ {d} ELSE more \cup {d}
            /\ Over(t) /\ d \in fetched
        BY <2>6, <3>8 DEF PageTaken, SetsMore, nodeVars, OnInv
      <4>2. on'[t] = None
        BY <1>0, <4>1, OverTasks
      <4> QED BY <3>3, <3>h, <3>t, <4>1, <4>2, SoloLeft
    <3>9. CASE OpenFailed(t) \/ (DecodeFailed(t) /\ pc[t] = "opened")
      <4>1. d \in failed'
        BY <2>6, <3>9 DEF OpenFailed, DecodeFailed
      <4> QED BY <4>1
    <3>10. CASE \/ Paged(t) /\ wanted[t] \notin DOMAIN held
                \/ Closed(t)
                \/ DecodeFailed(t) /\ pc[t] = "paged"
      <4>1. /\ connected' = connected /\ fetched' = fetched /\ id' = id /\ more' = more
            /\ DOMAIN held' \subseteq DOMAIN held /\ \A i \in DOMAIN held' : held'[i] = held[i]
            /\ Over(t) /\ pc[t] \in {"paging", "closing", "paged"}
        BY <3>10 DEF Paged, Closed, DecodeFailed, cursorVars, nodeVars
      <4>2. on'[t] = None
        BY <1>0, <4>1, OverTasks
      <4>3. d \in connected => d \in fetched
        BY <3>u, <4>1
      <4> QED BY <3>3, <3>h, <4>1, <4>2, <4>3, SoloLeft
    <3>11. DecodeFailed(t) => pc[t] \in {"opened", "paged"}
      BY DEF DecodeFailed
    <3> QED BY <1>2, <3>4, <3>5, <3>6, <3>7, <3>8, <3>9, <3>10, <3>11 DEF Answers
  <2> QED BY <2>5, <2>6
<1>3. CASE Lose
  <2>1. /\ DOMAIN held' = {} /\ answer' = answer
        /\ \A t \in Task : IF pc[t] \in {"opening", "paging", "closing"}
                           THEN pc'[t] = "idle" /\ on'[t] = None
                           ELSE pc'[t] = pc[t] /\ on'[t] = on[t] /\ wanted'[t] = wanted[t]
        /\ connected' = connected /\ fetched' = fetched /\ data' = data /\ more' = more /\ id' = id
        /\ opened' = opened /\ shared' = shared /\ failed \subseteq failed'
        /\ \A t \in Task : pc[t] = "opening" => on[t] \in failed'
    BY <1>3, LoseEffect
  <2>2. Solo(d)
    BY <2>1 DEF SoloInv
  <2>3. \A t \in Task : on'[t] = d =>
           on[t] = d /\ pc'[t] = pc[t] /\ wanted'[t] = wanted[t] /\ answer'[t] = answer[t]
    BY <1>c, <2>1
  <2>4. \A t \in Task : on[t] = d /\ pc[t] \in {"opening", "opened"} => on'[t] = d
    BY <2>1
  <2> QED BY <2>1, <2>2, <2>3, <2>4, SoloKept
<1>4. CASE Reconnect \/ UNCHANGED vars
  BY <1>4, SoloKept DEF Reconnect, vars, cursorVars, taskVars, nodeVars, ghosts, SoloInv
<1> QED BY <1>1, <1>2, <1>3, <1>4 DEF Next

-----------------------------------------------------------------------------
(* The rows of a cursor that one task uses at a time                        *)

(* While every cursor asks in its session, the rows that were taken and     *)
(* those that are left of the page are the rows of the query in order, up   *)
(* to the page that a task decodes or the rows that are held, or up to the  *)
(* last.                                                                    *)
Count(c) ==
    LET n == Len(returned[c])
        p == n + Len(data[c]) + 1
    IN  /\ \A t \in Task : on[t] = c /\ pc[t] = "opened" =>
              \A i \in DOMAIN held : held[i].of = c => held[i].next = 1 + PageSize
        /\ c \in fetched =>
              /\ \A m \in DOMAIN returned[c] : returned[c][m] = <<c, m>>
              /\ \A m \in DOMAIN data[c] : data[c][m] = <<c, n + m>>
              /\ c \notin more => p = Size[c] + 1
              /\ \A t \in Task : on[t] = c /\ pc[t] = "paged" =>
                    /\ answer[t].of = c /\ answer[t].next = p
                    /\ \A i \in DOMAIN held : held[i].of = c => held[i].next = p + PageSize
              /\ (\A t \in Task : ~(on[t] = c /\ pc[t] = "paged")) =>
                    \A i \in DOMAIN held : held[i].of = c => held[i].next = p
CountInv == outlived = {} => \A c \in Cursor \ (shared \cup failed \cup missed) : Count(c)

(* It is kept where nothing is opened or taken.                             *)
LEMMA CountKept ==
    ASSUME NEW c \in Cursor, Count(c), data'[c] = data[c], returned'[c] = returned[c],
           c \in fetched' <=> c \in fetched, c \in more' <=> c \in more,
           \A t \in Task : on'[t] = c /\ pc'[t] \in {"opened", "paged"} =>
              on[t] = c /\ pc'[t] = pc[t] /\ answer'[t] = answer[t],
           \A t \in Task : on[t] = c /\ pc[t] = "paged" => on'[t] = c /\ pc'[t] = "paged",
           \A i \in DOMAIN held' : held'[i].of = c =>
              i \in DOMAIN held /\ held[i].of = c /\ held'[i].next = held[i].next
    PROVE  Count(c)'
BY DEF Count

(* The rows of a cursor of which no page is decoded any more.               *)
LEMMA CountRows ==
    ASSUME NEW c \in Cursor, c \in fetched',
           \A t \in Task : ~(on'[t] = c /\ pc'[t] \in {"opened", "paged"}),
           NEW n \in Nat, Len(returned'[c]) = n, NEW k \in Nat, Len(data'[c]) = k,
           \A m \in DOMAIN returned'[c] : returned'[c][m] = <<c, m>>,
           \A m \in DOMAIN data'[c] : data'[c][m] = <<c, n + m>>,
           c \notin more' => n + k + 1 = Size[c] + 1,
           \A i \in DOMAIN held' : held'[i].of = c => held'[i].next = n + k + 1
    PROVE  Count(c)'
BY DEF Count

(* A row is returned of rows that continue those taken before.              *)
LEMMA CountReturned ==
    ASSUME TypeOK, NEW c \in Cursor, NEW p \in Seq(Row), p # <<>>, Returns(c, p),
           \A m \in DOMAIN returned[c] : returned[c][m] = <<c, m>>,
           \A m \in DOMAIN p : p[m] = <<c, Len(returned[c]) + m>>
    PROVE  /\ Len(returned[c]) \in Nat /\ Len(p) \in Nat /\ Len(data'[c]) \in Nat
           /\ Len(returned'[c]) = Len(returned[c]) + 1 /\ Len(data'[c]) = Len(p) - 1
           /\ \A m \in DOMAIN returned'[c] : returned'[c][m] = <<c, m>>
           /\ \A m \in DOMAIN data'[c] : data'[c][m] = <<c, Len(returned'[c]) + m>>
<1>1. /\ Len(data'[c]) \in Nat /\ Len(returned[c]) \in Nat
      /\ Len(data'[c]) = Len(p) - 1 /\ Len(returned'[c]) = Len(returned[c]) + 1
      /\ \A m \in DOMAIN data'[c] :
            m \in Nat \ {0} /\ m + 1 \in DOMAIN p /\ data'[c][m] = p[m + 1]
      /\ 1 \in DOMAIN p
      /\ \A m \in DOMAIN returned'[c] :
            \/ m = Len(returned[c]) + 1 /\ returned'[c][m] = p[1]
            \/ m \in DOMAIN returned[c] /\ returned'[c][m] = returned[c][m]
  BY Returned
<1>2. Len(p) \in Nat
  BY DEF Row
<1> DEFINE n == Len(returned[c])
<1>3. p[1] = <<c, n + 1>>
  BY <1>1
<1>4. \A m \in DOMAIN returned'[c] : returned'[c][m] = <<c, m>>
  BY <1>1, <1>3
<1>5. ASSUME NEW m \in DOMAIN data'[c] PROVE data'[c][m] = <<c, Len(returned'[c]) + m>>
  <2>1. m \in Nat /\ data'[c][m] = <<c, n + (m + 1)>>
    BY <1>1
  <2> HIDE DEF n
  <2>2. n \in Nat /\ Len(returned'[c]) = n + 1
    BY <1>1 DEF n
  <2>3. n + (m + 1) = Len(returned'[c]) + m
    BY <2>1, <2>2
  <2> QED BY <2>1, <2>3
<1> QED BY <1>1, <1>2, <1>4, <1>5

(* Every step keeps the rows of such cursors complete.                      *)
LEMMA CountStep ==
    ASSUME TypeOK, OnInv, IdInv, FreshInv, ShareInv, SoloInv, CountInv, [Next]_vars
    PROVE  CountInv'
<1>0. CursorTypes /\ RowTypes /\ TaskTypes /\ NodeTypes /\ GhostTypes
  BY Types
<1>c. None \notin Cursor /\ PageSize \in Nat \ {0} /\ MaxId \in Nat
  BY ConstantsAssumption
<1> SUFFICES ASSUME outlived' = {}, NEW d \in Cursor,
                    d \notin shared', d \notin failed', d \notin missed'
             PROVE  Count(d)'
  BY DEF CountInv
<1>f. Fresh(d)
  BY DEF FreshInv
<1>s. Size[d] \in Nat
  BY ConstantsAssumption
<1>1. ASSUME NEW t \in Task, NEW c \in Cursor, Calls(t, c) PROVE Count(d)'
  <2>1. /\ pc[t] = "idle" /\ shared \subseteq shared' /\ failed' = failed /\ missed' = missed
        /\ \A u \in Task : on[u] = c => c \in shared'
        /\ outlived \subseteq outlived' /\ connected \subseteq connected'
        /\ fetched' = fetched /\ more' = more /\ held' = held /\ answer' = answer
        /\ \A e \in Cursor : e # c => data'[e] = data[e] /\ returned'[e] = returned[e]
        /\ NextRow(t, c) \/ (data' = data /\ returned' = returned)
        /\ \A u \in Task : u # t => pc'[u] = pc[u] /\ on'[u] = on[u] /\ wanted'[u] = wanted[u]
        /\ CallPlaces(t, c)
    BY <1>1, CallEffect
  <2>2. Count(d)
    BY <2>1 DEF CountInv
  <2>3. pc'[t] \notin {"opened", "paged"}
    BY <2>1 DEF CallPlaces
  <2>4. \A u \in Task : on'[u] = d /\ pc'[u] \in {"opened", "paged"} =>
           on[u] = d /\ pc'[u] = pc[u] /\ answer'[u] = answer[u]
    BY <2>1, <2>3
  <2>5. \A u \in Task : on[u] = d /\ pc[u] = "paged" => on'[u] = d /\ pc'[u] = "paged"
    BY <2>1
  <2>6. CASE data'[d] = data[d] /\ returned'[d] = returned[d]
    BY <2>1, <2>2, <2>4, <2>5, <2>6, CountKept
  <2>7. CASE d = c /\ NextRow(t, c)
    <3>1. \A u \in Task : on[u] # d
      BY <2>1, <2>7
    <3>2. data[d] \in Seq(Row) /\ data[d] # <<>> /\ Returns(d, data[d]) /\ d \in fetched
      BY <1>0, <2>7 DEF NextRow, RowTypes
    <3>3. /\ \A m \in DOMAIN returned[d] : returned[d][m] = <<d, m>>
          /\ \A m \in DOMAIN data[d] : data[d][m] = <<d, Len(returned[d]) + m>>
          /\ d \notin more => Len(returned[d]) + Len(data[d]) + 1 = Size[d] + 1
          /\ \A i \in DOMAIN held : held[i].of = d =>
                held[i].next = Len(returned[d]) + Len(data[d]) + 1
      BY <2>2, <3>1, <3>2 DEF Count
    <3>4. /\ Len(returned[d]) \in Nat /\ Len(data[d]) \in Nat /\ Len(data'[d]) \in Nat
          /\ Len(returned'[d]) = Len(returned[d]) + 1 /\ Len(data'[d]) = Len(data[d]) - 1
          /\ \A m \in DOMAIN returned'[d] : returned'[d][m] = <<d, m>>
          /\ \A m \in DOMAIN data'[d] : data'[d][m] = <<d, Len(returned'[d]) + m>>
      BY <3>2, <3>3, CountReturned
    <3> DEFINE n == Len(returned[d])
               k == Len(data[d])
               m1 == Len(returned'[d])
               k1 == Len(data'[d])
    <3>5. n \in Nat /\ k \in Nat /\ k1 \in Nat /\ m1 = n + 1 /\ k1 = k - 1
      BY <3>4
    <3>6. /\ d \notin more => n + k + 1 = Size[d] + 1
          /\ \A i \in DOMAIN held : held[i].of = d => held[i].next = n + k + 1
      BY <3>3
    <3>7. \A u \in Task : ~(on'[u] = d /\ pc'[u] \in {"opened", "paged"})
      BY <2>4, <3>1
    <3> HIDE DEF n, k, m1, k1
    <3>8. m1 \in Nat /\ m1 + k1 + 1 = n + k + 1
      BY <3>5
    <3>9. d \notin more' => m1 + k1 + 1 = Size[d] + 1
      BY <2>1, <3>6, <3>8
    <3>10. \A i \in DOMAIN held' : held'[i].of = d => held'[i].next = m1 + k1 + 1
      BY <2>1, <3>6, <3>8
    <3>11. /\ Len(returned'[d]) = m1 /\ Len(data'[d]) = k1
           /\ \A m \in DOMAIN returned'[d] : returned'[d][m] = <<d, m>>
           /\ \A m \in DOMAIN data'[d] : data'[d][m] = <<d, m1 + m>>
      BY <3>4 DEF m1, k1
    <3>12. d \in fetched'
      BY <2>1, <3>2
    <3> QED BY <3>5, <3>7, <3>8, <3>9, <3>10, <3>11, <3>12, CountRows
  <2> QED BY <2>1, <2>6, <2>7
<1>2. ASSUME NEW t \in Task, Answers(t) PROVE Count(d)'
  <2> DEFINE c == on[t]
  <2>1. /\ pc[t] # "idle" /\ c \in Cursor /\ shared' = shared /\ AnswerPlaces(t)
        /\ outlived' = outlived
        /\ \A u \in Task : u # t => /\ pc'[u] = pc[u] /\ on'[u] = on[u] /\ wanted'[u] = wanted[u]
                                    /\ answer'[u] = answer[u]
    BY <1>2, AnswerEffect
  <2>2. failed \subseteq failed' /\ missed \subseteq missed'
    BY <1>2, AnswerCursors
  <2>3. Count(d) /\ Solo(d)
    BY <2>1, <2>2 DEF CountInv, SoloInv
  <2>4. on'[t] = None \/ on'[t] = c
    BY <2>1 DEF AnswerPlaces
  <2>5. CASE d # c
    <3>1. /\ data'[d] = data[d] /\ returned'[d] = returned[d]
          /\ d \in more' <=> d \in more
          /\ d \in fetched' <=> d \in fetched
      BY <1>2, <2>5, AnswerCursors
    <3>2. on'[t] # d /\ on[t] # d
      BY <1>c, <2>4, <2>5
    <3>3. \A u \in Task : on'[u] = d /\ pc'[u] \in {"opened", "paged"} =>
             on[u] = d /\ pc'[u] = pc[u] /\ answer'[u] = answer[u]
      BY <2>1, <3>2
    <3>4. \A u \in Task : on[u] = d /\ pc[u] = "paged" => on'[u] = d /\ pc'[u] = "paged"
      BY <2>1, <3>2
    <3>5. \A i \in DOMAIN held' : held'[i].of = d =>
             i \in DOMAIN held /\ held[i].of = d /\ held'[i].next = held[i].next
      <4>1. CASE Opened(t)
        <5>1. /\ DOMAIN held' \subseteq DOMAIN held \cup {lastId + 1}
              /\ \A j \in DOMAIN held' : j # lastId + 1 => held'[j] = held[j]
              /\ \A j \in DOMAIN held' : held'[j].of = IF j = lastId + 1 THEN c ELSE held[j].of
          BY <4>1, OpenedEffect
        <5> QED BY <2>5, <5>1
      <4>2. CASE Paged(t) /\ wanted[t] \in DOMAIN held
        <5>1. /\ pc[t] = "paging" /\ DOMAIN held' \subseteq DOMAIN held
              /\ \A j \in DOMAIN held' : j # wanted[t] => held'[j] = held[j]
              /\ \A j \in DOMAIN held' : held'[j].of = held[j].of
          BY <4>2, PagedEffect
        <5>2. held[wanted[t]].of = c
          BY <2>1, <4>2, <5>1 DEF IdInv
        <5> QED BY <2>5, <5>1, <5>2
      <4>3. CASE Paged(t) /\ wanted[t] \notin DOMAIN held
        BY <4>3 DEF Paged
      <4>4. CASE ~Opened(t) /\ ~Paged(t)
        BY <1>2, <4>4, HeldShrinks
      <4> QED BY <4>1, <4>2, <4>3, <4>4
    <3> QED BY <2>3, <3>1, <3>3, <3>4, <3>5, CountKept
  <2>6. CASE d = c
    <3> DEFINE n == Len(returned[d])
               k == Len(data[d])
    <3>n. n \in Nat /\ k \in Nat /\ returned[d] \in Seq(Row) /\ data[d] \in Seq(Row)
      BY <1>0 DEF RowTypes
    <3>1. \A u \in Task : on[u] = d => u = t
      BY <2>1, <2>6 DEF ShareInv
    <3>2. \A u \in Task : u # t => on'[u] # d
      BY <2>1, <3>1
    <3>3. \A u \in Task : on'[t] = None \/ pc'[t] \notin {"opened", "paged"} =>
             ~(on'[u] = d /\ pc'[u] \in {"opened", "paged"})
      BY <1>c, <3>2
    <3>t. /\ pc[t] = "opening" => opened[d] = 0
          /\ pc[t] = "opened" =>
                /\ d \notin fetched
                /\ \A i \in DOMAIN held : held[i].of = d => i = wanted[t] /\ ~IsLast(answer[t])
          /\ pc[t] = "paging" => wanted[t] = id[d]
          /\ pc[t] \in {"paging", "paged"} => data[d] = <<>>
          /\ pc[t] = "paged" => \A i \in DOMAIN held : held[i].of = d => ~IsLast(answer[t])
      BY <2>3, <2>6 DEF Solo
    <3>h. d \in fetched => \A i \in DOMAIN held : held[i].of = d => i = id[d] /\ d \in more
      BY <2>3 DEF Solo
    <3>r. d \in fetched =>
             /\ \A m \in DOMAIN returned[d] : returned[d][m] = <<d, m>>
             /\ \A m \in DOMAIN data[d] : data[d][m] = <<d, n + m>>
             /\ d \notin more => n + k + 1 = Size[d] + 1
      BY <2>3 DEF Count
    <3>p. d \in fetched /\ pc[t] = "paged" =>
             /\ answer[t].of = d /\ answer[t].next = n + k + 1
             /\ \A i \in DOMAIN held : held[i].of = d => held[i].next = (n + k + 1) + PageSize
      BY <2>3, <2>6 DEF Count
    <3>g. d \in fetched /\ pc[t] # "paged" =>
             \A i \in DOMAIN held : held[i].of = d => held[i].next = n + k + 1
      BY <2>3, <3>1 DEF Count
    <3>o. pc[t] = "opened" => \A i \in DOMAIN held : held[i].of = d => held[i].next = 1 + PageSize
      BY <2>3, <2>6 DEF Count
    <3>4. CASE Connected(t) \/ Closed(t) \/ (Paged(t) /\ wanted[t] \notin DOMAIN held)
      <4>1. /\ fetched' = fetched /\ more' = more /\ data' = data /\ returned' = returned
            /\ DOMAIN held' \subseteq DOMAIN held /\ \A i \in DOMAIN held' : held'[i] = held[i]
            /\ pc[t] \in {"connecting", "closing", "paging"}
        BY <3>4 DEF Connected, Closed, Paged, cursorVars, nodeVars, ghosts
      <4>2. pc'[t] \notin {"opened", "paged"}
        BY <2>1, <3>4, <4>1 DEF AnswerPlaces, Opened, Paged, Connected, Closed
      <4>3. \A u \in Task : on'[u] = d /\ pc'[u] \in {"opened", "paged"} =>
               on[u] = d /\ pc'[u] = pc[u] /\ answer'[u] = answer[u]
        BY <3>3, <4>2
      <4>4. \A u \in Task : on[u] = d /\ pc[u] = "paged" => on'[u] = d /\ pc'[u] = "paged"
        BY <3>1, <4>1
      <4> QED BY <2>3, <4>1, <4>3, <4>4, CountKept
    <3>5. CASE Opened(t)
      <4> DEFINE new == lastId + 1
      <4>1. /\ pc[t] = "opening" /\ pc'[t] = "opened"
            /\ DOMAIN held' \subseteq DOMAIN held \cup {new}
            /\ \A j \in DOMAIN held' : held'[j].of = IF j = new THEN c ELSE held[j].of
            /\ new \in DOMAIN held' => held'[new].next = 1 + PageSize
        BY <3>5, OpenedEffect
      <4>2. fetched' = fetched /\ d \notin fetched /\ NotHeld(d)
        BY <1>f, <3>5, <3>t, <4>1 DEF Opened, Fresh, cursorVars
      <4> HIDE DEF new, c
      <4>3. \A i \in DOMAIN held' : held'[i].of = d => held'[i].next = 1 + PageSize
        BY <4>1, <4>2 DEF NotHeld
      <4> QED BY <4>2, <4>3 DEF Count
    <3>6. CASE Initialized(t)
      <4> DEFINE q == answer[t]
      <4>1. /\ pc[t] = "opened" /\ fetched' = fetched \cup {d} /\ held' = held /\ Over(t)
            /\ more' = IF IsLast(q) THEN more \ {d} ELSE more \cup {d}
            /\ data' = [data EXCEPT ![d] = Page(q)] /\ returned' = returned
        BY <2>6, <3>6 DEF Initialized, SetsMore, nodeVars
      <4>2. on'[t] = None
        BY <1>0, <4>1, OverTasks
      <4>3. q = [of |-> d, next |-> 1]
        BY <2>6, <4>1 DEF OnInv
      <4>4. q \in Answer /\ q.of = d /\ q.next = 1 /\ q.next <= Size[q.of] + 1
        BY <4>3, FirstPage
      <4> HIDE DEF q
      <4>5. /\ Len(Page(q)) = PageLength(q) /\ PageLength(q) \in Nat
            /\ \A m \in DOMAIN Page(q) : Page(q)[m] = <<d, q.next + m - 1>>
            /\ DOMAIN Page(q) = 1 .. PageLength(q)
            /\ IsLast(q) => q.next + PageLength(q) = Size[d] + 1
            /\ ~IsLast(q) => PageLength(q) = PageSize
        BY <4>4, PageRows
      <4>6. data'[d] = Page(q) /\ returned'[d] = <<>>
        BY <1>0, <1>f, <3>t, <4>1 DEF RowTypes, Fresh
      <4>7. Len(returned'[d]) = 0 /\ DOMAIN returned'[d] = {}
        BY <4>6, EmptySeq
      <4> DEFINE len == PageLength(q)
      <4>8. \A m \in DOMAIN data'[d] : data'[d][m] = <<d, 0 + m>>
        <5> SUFFICES ASSUME NEW m \in 1 .. PageLength(q) PROVE Page(q)[m] = <<d, 0 + m>>
          BY <4>5, <4>6
        <5>1. m \in Nat /\ q.next + m - 1 = 0 + m
          BY <4>4, <4>5
        <5> QED BY <4>5, <5>1
      <4>9. d \notin more' => 0 + PageLength(q) + 1 = Size[d] + 1
        BY <1>s, <4>1, <4>4, <4>5
      <4>10. \A i \in DOMAIN held' : held'[i].of = d => held'[i].next = 0 + PageLength(q) + 1
        <5> SUFFICES ASSUME NEW i \in DOMAIN held, held[i].of = d
                     PROVE  held[i].next = 0 + PageLength(q) + 1
          BY <4>1
        <5>1. held[i].next = 1 + PageSize /\ ~IsLast(q)
          BY <3>o, <3>t, <4>1 DEF q
        <5> QED BY <1>c, <4>5, <5>1
      <4>11. Len(data'[d]) = PageLength(q) /\ d \in fetched'
        BY <4>1, <4>5, <4>6
      <4>12. \A m \in DOMAIN returned'[d] : returned'[d][m] = <<d, m>>
        BY <4>7
      <4>13. \A u \in Task : ~(on'[u] = d /\ pc'[u] \in {"opened", "paged"})
        BY <3>3, <4>2
      <4> HIDE DEF len
      <4> QED BY <4>5, <4>7, <4>8, <4>9, <4>10, <4>11, <4>12, <4>13, CountRows
    <3>7. CASE Paged(t) /\ wanted[t] \in DOMAIN held
      <4> DEFINE i == wanted[t]
      <4>1. /\ pc[t] = "paging" /\ on' = on /\ d \in fetched
            /\ pc'[t] = "paged" /\ answer'[t] = held[i] /\ i \in DOMAIN held
            /\ DOMAIN held' \subseteq DOMAIN held
            /\ \A j \in DOMAIN held' : held'[j].of = held[j].of
            /\ i \in DOMAIN held' => held'[i].next = held[i].next + PageSize
        BY <2>6, <3>7, PagedEffect
      <4>2. /\ fetched' = fetched /\ more' = more /\ data' = data /\ returned' = returned
        BY <3>7 DEF Paged, cursorVars, ghosts
      <4>3. held[i].of = d
        BY <2>1, <2>6, <4>1 DEF IdInv
      <4>4. held[i].next = n + k + 1 /\ i = id[d]
        BY <3>g, <3>t, <4>1, <4>3
      <4>5. \A j \in DOMAIN held' : held'[j].of = d => held'[j].next = (n + k + 1) + PageSize
        BY <3>h, <4>1, <4>4
      <4>6. answer'[t].of = d /\ answer'[t].next = n + k + 1
        BY <4>1, <4>3, <4>4
      <4>7. on'[t] = d
        BY <2>6, <4>1
      <4> HIDE DEF i, c
      <4>8. /\ Len(returned'[d]) = n /\ Len(data'[d]) = k
            /\ returned'[d] = returned[d] /\ data'[d] = data[d]
        BY <4>2
      <4> QED BY <3>2, <3>r, <4>1, <4>2, <4>5, <4>6, <4>7, <4>8 DEF Count
    <3>8. CASE PageTaken(t)
      <4> DEFINE q == answer[t]
      <4>1. /\ pc[t] = "paged" /\ fetched' = fetched /\ held' = held /\ Over(t) /\ d \in fetched
            /\ more' = IF IsLast(q) THEN more \ {d} ELSE more \cup {d}
            /\ Returns(d, Page(q)) /\ q \in Query
        BY <2>6, <3>8 DEF PageTaken, SetsMore, nodeVars, OnInv
      <4>2. on'[t] = None
        BY <1>0, <4>1, OverTasks
      <4>3. q.of = d /\ q.next = n + k + 1 /\ data[d] = <<>>
        BY <3>p, <3>t, <4>1
      <4>4. k = 0
        BY <4>3, EmptySeq
      <4> HIDE DEF q, n, k
      <4>5. /\ q \in Answer /\ q.next <= Size[q.of] + 1
        BY <4>1, QueryIsAnswer
      <4>6. /\ Page(q) \in Seq(Row) /\ Page(q) # <<>> /\ Len(Page(q)) = PageLength(q)
            /\ PageLength(q) \in Nat /\ DOMAIN Page(q) = 1 .. PageLength(q)
            /\ \A m \in DOMAIN Page(q) : Page(q)[m] = <<d, q.next + m - 1>>
            /\ IsLast(q) => q.next + PageLength(q) = Size[d] + 1
            /\ ~IsLast(q) => PageLength(q) = PageSize
        BY <4>1, <4>3, <4>5, PageRows
      <4>7. \A m \in DOMAIN Page(q) : Page(q)[m] = <<d, n + m>>
        <5> SUFFICES ASSUME NEW m \in 1 .. PageLength(q) PROVE Page(q)[m] = <<d, n + m>>
          BY <4>6
        <5>1. m \in Nat /\ q.next + m - 1 = n + m
          BY <3>n, <4>3, <4>4, <4>6
        <5> QED BY <4>6, <5>1
      <4>8. /\ Len(data'[d]) \in Nat
            /\ Len(returned'[d]) = n + 1 /\ Len(data'[d]) = PageLength(q) - 1
            /\ \A m \in DOMAIN returned'[d] : returned'[d][m] = <<d, m>>
            /\ \A m \in DOMAIN data'[d] : data'[d][m] = <<d, Len(returned'[d]) + m>>
        <5>1. \A m \in DOMAIN Page(q) : Page(q)[m] = <<d, Len(returned[d]) + m>>
          BY <4>7 DEF n
        <5>2. \A m \in DOMAIN returned[d] : returned[d][m] = <<d, m>>
          BY <3>r, <4>1
        <5> QED BY <4>1, <4>6, <5>1, <5>2, CountReturned DEF n
      <4>9. (n + 1) + Len(data'[d]) + 1 = q.next + PageLength(q) /\ n + 1 \in Nat
        BY <3>n, <4>3, <4>4, <4>6, <4>8
      <4>10. d \notin more' => (n + 1) + Len(data'[d]) + 1 = Size[d] + 1
        BY <4>1, <4>6, <4>9
      <4>11. \A i \in DOMAIN held' : held'[i].of = d => held'[i].next = (n + 1) + Len(data'[d]) + 1
        <5> SUFFICES ASSUME NEW i \in DOMAIN held, held[i].of = d
                     PROVE  held[i].next = (n + 1) + Len(data'[d]) + 1
          BY <4>1
        <5>1. held[i].next = q.next + PageSize /\ ~IsLast(q)
          BY <3>p, <3>t, <4>1, <4>3 DEF q
        <5> QED BY <4>6, <4>9, <5>1
      <4>12. \A u \in Task : ~(on'[u] = d /\ pc'[u] \in {"opened", "paged"})
        BY <3>3, <4>2
      <4>13. d \in fetched'
        BY <4>1
      <4> QED BY <4>8, <4>9, <4>10, <4>11, <4>12, <4>13, CountRows
    <3>9. CASE OpenFailed(t) \/ DecodeFailed(t)
      <4>1. d \in failed' \/ d \in missed'
        BY <2>6, <3>9 DEF OpenFailed, DecodeFailed
      <4> QED BY <4>1
    <3> QED BY <1>2, <3>4, <3>5, <3>6, <3>7, <3>8, <3>9 DEF Answers
  <2> QED BY <2>5, <2>6
<1>3. CASE Lose
  <2>1. /\ DOMAIN held' = {} /\ answer' = answer
        /\ \A t \in Task : IF pc[t] \in {"opening", "paging", "closing"}
                           THEN pc'[t] = "idle" /\ on'[t] = None
                           ELSE pc'[t] = pc[t] /\ on'[t] = on[t] /\ wanted'[t] = wanted[t]
        /\ fetched' = fetched /\ data' = data /\ more' = more /\ returned' = returned
        /\ shared' = shared /\ missed' = missed /\ outlived' = outlived /\ failed \subseteq failed'
    BY <1>3, LoseEffect
  <2>2. Count(d)
    BY <2>1 DEF CountInv
  <2>3. \A t \in Task : on'[t] = d /\ pc'[t] \in {"opened", "paged"} =>
           on[t] = d /\ pc'[t] = pc[t] /\ answer'[t] = answer[t]
    BY <2>1
  <2>4. \A t \in Task : on[t] = d /\ pc[t] = "paged" => on'[t] = d /\ pc'[t] = "paged"
    BY <2>1
  <2> QED BY <2>1, <2>2, <2>3, <2>4, CountKept
<1>4. CASE Reconnect \/ UNCHANGED vars
  BY <1>4, CountKept DEF Reconnect, vars, cursorVars, taskVars, nodeVars, ghosts, CountInv
<1> QED BY <1>1, <1>2, <1>3, <1>4 DEF Next

-----------------------------------------------------------------------------
(* The theorems                                                             *)

(* The invariant holds in every behaviour of the cursors and the node.      *)
THEOREM Invariance == Spec => []IInv
<1>1. Init => IInv
  BY InitIInv
<1>2. IInv /\ [Next]_vars => IInv'
  BY IInvStep
<1> QED BY <1>1, <1>2, PTL DEF Spec

(* The variables keep their types: a cursor has data only with a connection *)
(* and more pages only with an id (cursors.py:146-157).                     *)
THEOREM TypeCorrect == Spec => []TypeOK
<1>1. IInv => TypeOK
  BY DEF IInv
<1> QED BY <1>1, Invariance, PTL

(* Whoever shares or opens it again, and whatever cursors of an earlier     *)
(* session ask for, a cursor that asks within its own session returns rows  *)
(* of its own query only (cursors.py:186, 226).                             *)
THEOREM RowsAreOwn == Spec => []OwnRows
<1>1. IInv => OwnRows
  BY DEF IInv
<1> QED BY <1>1, Invariance, PTL

(* Openings, pages, tasks and rows stay as the invariants say.              *)
RowsInv == FreshInv /\ OnceInv /\ ShareInv /\ SoloInv /\ CountInv

LEMMA InitRowsInv == Init => RowsInv
<1> SUFFICES ASSUME Init PROVE RowsInv
  OBVIOUS
<1>1. /\ connected = {} /\ fetched = {} /\ DOMAIN held = {}
      /\ \A c \in Cursor : data[c] = <<>> /\ returned[c] = <<>> /\ opened[c] = 0
      /\ \A t \in Task : pc[t] = "idle" /\ on[t] = None
      /\ None \notin Cursor
  BY EmptySeq, ConstantsAssumption DEF Init
<1>2. FreshInv
  BY <1>1 DEF FreshInv, Fresh, NotHeld
<1>3. OnceInv
  BY <1>1, EmptySeq DEF OnceInv, Once, Distinct, Apart, Below, Outside, Decoding
<1>4. ShareInv /\ SoloInv
  BY <1>1 DEF ShareInv, SoloInv, Solo
<1>5. CountInv
  BY <1>1 DEF CountInv, Count
<1> QED BY <1>2, <1>3, <1>4, <1>5 DEF RowsInv

THEOREM RowsInvariance == Spec => []RowsInv
<1>1. Init => RowsInv
  BY InitRowsInv
<1>2. IInv /\ IInv' /\ RowsInv /\ [Next]_vars => RowsInv'
  BY FreshStep, OnceStep, ShareStep, SoloStep, CountStep DEF RowsInv, IInv
<1> QED BY <1>1, <1>2, Invariance, PTL DEF Spec

(* However many tasks ask for pages at a time, and in whatever order they   *)
(* decode and take them, a cursor with one query that asks within its       *)
(* session returns no row twice: the pages that are being decoded, the rows *)
(* that were taken and what the query has left have no row in common        *)
(* (query.py:206, 211, cursors.py:157).                                     *)
THEOREM RowsComeOnce == Spec => []RowsOnce
<1>1. RowsInv => RowsOnce
  BY DEF RowsInv, OnceInv, Once, Distinct, RowsOnce
<1> QED BY <1>1, RowsInvariance, PTL

(* Who is told that there are no more rows has got them all, in order       *)
(* (cursors.py:222-232).                                                    *)
THEOREM EndsAreComplete == Spec => []EndIsComplete
<1>1. IInv /\ RowsInv => EndIsComplete
  <2> SUFFICES ASSUME IInv, RowsInv, outlived = {},
                      NEW c \in connected \ (shared \cup failed \cup missed), Unused(c), Exhausted(c)
               PROVE  returned[c] = [n \in 1 .. Size[c] |-> <<c, n>>]
    BY DEF EndIsComplete
  <2>1. CursorTypes /\ RowTypes
    BY Types DEF IInv
  <2>2. c \in Cursor /\ Solo(c) /\ Count(c)
    BY <2>1 DEF CursorTypes, RowsInv, SoloInv, CountInv
  <2>3. c \in fetched
    BY <2>2 DEF Solo, Unused
  <2>4. data[c] = <<>> /\ c \notin more
    BY <2>3 DEF Exhausted
  <2>5. /\ Len(returned[c]) + Len(data[c]) + 1 = Size[c] + 1
        /\ \A m \in DOMAIN returned[c] : returned[c][m] = <<c, m>>
    BY <2>2, <2>3, <2>4 DEF Count
  <2>6. returned[c] \in Seq(Row) /\ Len(returned[c]) \in Nat /\ Size[c] \in Nat
    BY <2>1, <2>2, ConstantsAssumption DEF RowTypes
  <2>7. Len(data[c]) = 0
    BY <2>4, EmptySeq
  <2>8. Len(returned[c]) = Size[c]
    BY <2>5, <2>6, <2>7
  <2>9. /\ DOMAIN returned[c] = 1 .. Size[c]
        /\ returned[c] = [n \in 1 .. Size[c] |-> returned[c][n]]
    BY <2>6, <2>8
  <2>10. \A n \in 1 .. Size[c] : returned[c][n] = <<c, n>>
    BY <2>5, <2>9
  <2> QED BY <2>9, <2>10
<1> QED BY <1>1, Invariance, RowsInvariance, PTL

(* Nothing of a cursor that is at its end or that close() is done with is   *)
(* left open on the node, in its session or a later one (cursors.py:130).   *)
THEOREM NothingIsLeftOpen == Spec => NothingLeftOpen
<1> DEFINE Closes == \A c \in connected' \ (shared' \cup failed') :
                        MayBeLeft(c)' \/ (\E t \in Task : Closed(t) /\ on[t] = c) => NotHeld(c)'
<1>1. IInv /\ RowsInv /\ IInv' /\ RowsInv' /\ [Next]_vars => [Closes]_vars
  <2> SUFFICES ASSUME IInv, RowsInv, IInv', RowsInv', Next, NEW c \in connected', c \notin shared',
                      c \notin failed'
               PROVE  MayBeLeft(c)' \/ (\E t \in Task : Closed(t) /\ on[t] = c) => NotHeld(c)'
    BY Zenon
  <2>1. c \in Cursor
    BY DEF IInv, TypeOK
  <2>2. Solo(c)'
    BY <2>1 DEF RowsInv, SoloInv
  <2>3. ASSUME MayBeLeft(c)' PROVE NotHeld(c)'
    <3>1. c \in fetched'
      BY <2>2, <2>3 DEF Solo, MayBeLeft, Unused
    <3>2. c \notin more'
      BY <3>1, <2>3 DEF MayBeLeft, Exhausted, ToClose, IInv, OnInv
    <3> QED BY <2>2, <3>1, <3>2 DEF Solo, NotHeld
  <2>4. ASSUME NEW t \in Task, Closed(t), on[t] = c PROVE NotHeld(c)'
    <3>1. /\ pc[t] = "closing" /\ connected' = connected /\ fetched' = fetched /\ more' = more
          /\ shared' = shared /\ failed' = failed /\ id' = id
          /\ DOMAIN held' = DOMAIN held \ {wanted[t]}
      BY <2>4 DEF Closed, cursorVars
    <3>2. Solo(c)
      BY <2>1, <3>1 DEF RowsInv, SoloInv
    <3>3. wanted[t] = id[c] /\ c \in more
      BY <2>4, <3>1, <3>2 DEF Solo
    <3>4. c \in fetched
      BY <3>3 DEF IInv, TypeOK
    <3> QED BY <2>2, <3>1, <3>3, <3>4 DEF Solo, NotHeld
  <2> QED BY <2>3, <2>4
<1>2. Spec => [][Closes]_vars
  BY <1>1, Invariance, RowsInvariance, PTL DEF Spec
<1> QED BY <1>2 DEF NothingLeftOpen
=============================================================================
