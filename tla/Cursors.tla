------------------------------ MODULE Cursors -------------------------------
(****************************************************************************)
(* Cursors of scan, SQL and vector queries: the object that the application *)
(* iterates over, and the query that a node keeps open for it page by page. *)
(*                                                                          *)
(* A task is a coroutine; a thread with a blocking cursor is the case of a  *)
(* task that has the cursor for itself.  All cursors here use one           *)
(* connection.  The n-th row of the query of cursor c is <<c, n>>.  What is *)
(* done with a row that was taken (unwrap_binary), and the field names that *)
(* a cursor of SQL fields may return first, are left out.                   *)
(*                                                                          *)
(* Between the answer of the node and the step that takes it, perform_async *)
(* awaits parse_async and to_python_async, which may look up types: answers *)
(* of several tasks are taken in any order, later than other steps, or not  *)
(* at all when decoding fails (query.py:206, 211).                          *)
(****************************************************************************)
EXTENDS Naturals, Sequences

CONSTANTS
    Task,         \* coroutines
    Cursor,       \* cursor objects
    Fields,       \* those of them that are AioSqlFieldsCursor
    Objects,      \* those whose rows hold binary objects, of types to look up
    Size,         \* the number of rows of each cursor's query
    PageSize,     \* the number of rows in a page
    MaxId,        \* the greatest cursor id (a bound)
    MaxLosses,    \* how often the session is lost (a bound)
    None          \* no cursor

ASSUME ConstantsAssumption ==
    /\ Fields \subseteq Cursor /\ Objects \subseteq Cursor /\ None \notin Cursor
    /\ Size \in [Cursor -> Nat] /\ PageSize \in Nat \ {0} /\ MaxId \in Nat /\ MaxLosses \in Nat

VARIABLES
    connected,  \* the cursors whose connection is set
    fetched,    \* the cursors whose data is set
    data,       \* the rows of the current page that are not yet returned
    more,       \* the cursors whose more is True
    id,         \* cursor_id, 0 when it is not set
    pc,         \* where each task is
    on,         \* the cursor it waits for
    wanted,     \* the cursor id in its request, or in the answer that opened a query
    answer,     \* the answer it decodes: the query, with the row the page begins with
    since,      \* the number of the session in which its query was opened
    up,         \* the connection has a session
    held,       \* the queries that are open on the node: their cursor and next row
    lastId,     \* the last cursor id the node gave in this session
    losses,     \* how many sessions were lost
    returned,   \* the rows that __anext__ took from the pages, in that order
    opened,     \* how many queries were opened for the cursor, 2 for more than one
    shared,     \* the cursors that two tasks used at a time
    failed,     \* the cursors whose query, or the answer to it, failed once
    missed,     \* the cursors a page of which could not be decoded
    session,    \* the number of the session that the cursor's query is of
    outlived    \* the cursors that asked for something in a later session

cursorVars == <<connected, fetched, data, more, id>>
taskVars   == <<pc, on, wanted, answer, since>>
nodeVars   == <<up, held, lastId, losses>>
ghosts     == <<returned, opened, shared, failed, missed, session, outlived>>
vars       == <<cursorVars, taskVars, nodeVars, ghosts>>

Row == Cursor \X (Nat \ {0})
Answer == [of : Cursor, next : Nat \ {0}]
Query == {q \in Answer : q.next <= Size[q.of]}
Places == {"idle", "connecting", "opening", "opened", "paging", "paged", "closing"}

TypeOK ==
    /\ connected \subseteq Cursor /\ fetched \subseteq connected
    /\ data \in [Cursor -> Seq(Row)]
    /\ more \subseteq fetched
    /\ id \in [Cursor -> 0 .. MaxId] /\ \A c \in more : id[c] # 0
    /\ pc \in [Task -> Places]
    /\ on \in [Task -> Cursor \cup {None}]
    /\ wanted \in [Task -> 0 .. MaxId]
    /\ answer \in [Task -> Answer \cup {None}]
    /\ since \in [Task -> 0 .. MaxLosses]
    /\ up \in BOOLEAN
    /\ DOMAIN held \subseteq 1 .. MaxId /\ \A i \in DOMAIN held : held[i] \in Query
    /\ lastId \in 0 .. MaxId /\ losses \in 0 .. MaxLosses
    /\ returned \in [Cursor -> Seq(Row)]
    /\ opened \in [Cursor -> 0 .. 2]
    /\ shared \subseteq Cursor /\ failed \subseteq Cursor
    /\ missed \subseteq Cursor /\ outlived \subseteq Cursor
    /\ session \in [Cursor -> 0 .. MaxLosses]

Init ==
    /\ connected = {} /\ fetched = {} /\ more = {}
    /\ data = [c \in Cursor |-> <<>>] /\ id = [c \in Cursor |-> 0]
    /\ pc = [t \in Task |-> "idle"]
    /\ on = [t \in Task |-> None] /\ wanted = [t \in Task |-> 0]
    /\ answer = [t \in Task |-> None] /\ since = [t \in Task |-> 0]
    /\ up = TRUE /\ held = <<>> /\ lastId = 0 /\ losses = 0
    /\ returned = [c \in Cursor |-> <<>>]
    /\ shared = {} /\ failed = {} /\ missed = {}
    /\ outlived = {} /\ session = [c \in Cursor |-> 0]
    /\ opened = [c \in Cursor |-> 0]

-----------------------------------------------------------------------------
(* The node.                                                                *)

(* The page of a query from its next row on, and what is left of the query. *)
IsLast(q) == q.next + PageSize > Size[q.of]
PageLength(q) == IF IsLast(q) THEN Size[q.of] + 1 - q.next ELSE PageSize
Page(q) == [n \in 1 .. PageLength(q) |-> <<q.of, q.next + n - 1>>]
Rest(q) == [q EXCEPT !.next = @ + PageSize]

(* The node serves the query q under the id i and, when these were the last *)
(* rows, closes it.                                                         *)
Serve(q, i) ==
    held' = [j \in IF IsLast(q) THEN DOMAIN held \ {i} ELSE DOMAIN held \cup {i} |->
                IF j = i THEN Rest(q) ELSE held[j]]

-----------------------------------------------------------------------------
(* The cursor.                                                              *)

(* A task begins to work on a cursor.                                       *)
Begins(t, c) ==
    /\ pc[t] = "idle"
    /\ shared' = IF \E u \in Task : on[u] = c THEN shared \cup {c} ELSE shared

(* It waits for the answer to a request with the given id, if any, ...      *)
Waits(t, c, place, i) ==
    /\ pc' = [pc EXCEPT ![t] = place]
    /\ on' = [on EXCEPT ![t] = c] /\ wanted' = [wanted EXCEPT ![t] = i]
    /\ UNCHANGED <<answer, since>>

(* ... decodes the first page of a query with the id i, or one from its row *)
(* n on, ...                                                                *)
Decodes(t, place, q, i) ==
    /\ pc' = [pc EXCEPT ![t] = place]
    /\ answer' = [answer EXCEPT ![t] = q]
    /\ wanted' = [wanted EXCEPT ![t] = i]
    /\ since' = [since EXCEPT ![t] = losses]
    /\ UNCHANGED on

(* ... or is back in the application, with a result or an exception.        *)
Over(t) ==
    /\ pc' = [pc EXCEPT ![t] = "idle"]
    /\ on' = [on EXCEPT ![t] = None] /\ wanted' = [wanted EXCEPT ![t] = 0]
    /\ answer' = [answer EXCEPT ![t] = None] /\ since' = [since EXCEPT ![t] = 0]

(* Awaiting a cursor opens its query unless that has been tried; the cursor *)
(* of SQL fields tries again when it got no id.                             *)
Unopened(c) == c \notin connected \/ (c \in Fields /\ id[c] = 0)

TakesNode(c) == connected' = connected \cup {c}

(* __aenter__: random_node returns at once, or waits for a reconnection.    *)
Enter(t, c) ==
    /\ Begins(t, c) /\ Unopened(c)
    /\ IF up
       THEN TakesNode(c) /\ Waits(t, c, "opening", 0)
       ELSE Waits(t, c, "connecting", 0) /\ UNCHANGED connected
    /\ UNCHANGED <<fetched, data, more, id, nodeVars>>
    /\ UNCHANGED <<returned, opened, failed, missed, session, outlived>>

(* random_node has its node, whose query is then asked for.                 *)
Connected(t) ==
    /\ pc[t] = "connecting" /\ up
    /\ TakesNode(on[t])
    /\ Waits(t, on[t], "opening", 0)
    /\ UNCHANGED <<fetched, data, more, id, nodeVars, ghosts>>

(* The node opens the query and answers with its id and its first page.     *)
Opened(t) ==
    LET q == [of |-> on[t], next |-> 1]
    IN  /\ pc[t] = "opening" /\ lastId < MaxId
        /\ lastId' = lastId + 1 /\ Serve(q, lastId + 1)
        /\ Decodes(t, "opened", q, lastId + 1)
        /\ opened' = [opened EXCEPT ![on[t]] = IF @ = 0 THEN 1 ELSE 2]
        /\ UNCHANGED <<cursorVars, up, losses>>
        /\ UNCHANGED <<returned, shared, failed, missed, session, outlived>>

(* There are more pages unless the decoded one was the last.                *)
SetsMore(c, q) == more' = IF IsLast(q) THEN more \ {c} ELSE more \cup {c}

(* _finalize_init.                                                          *)
Initialized(t) ==
    LET c == on[t]
    IN  /\ pc[t] = "opened"
        /\ id' = [id EXCEPT ![c] = wanted[t]]
        /\ SetsMore(c, answer[t])
        /\ data' = [data EXCEPT ![c] = Page(answer[t])]
        /\ fetched' = fetched \cup {c}
        /\ session' = [session EXCEPT ![c] = since[t]]
        /\ Over(t)
        /\ UNCHANGED <<connected, nodeVars>>
        /\ UNCHANGED <<returned, opened, shared, failed, missed, outlived>>

(* The node refuses the query.                                              *)
OpenFailed(t) ==
    /\ pc[t] = "opening"
    /\ failed' = failed \cup {on[t]}
    /\ Over(t)
    /\ UNCHANGED <<cursorVars, nodeVars, returned, opened, shared>>
    /\ UNCHANGED <<missed, session, outlived>>

(* Mutant: the row that is returned stays on the page.                      *)
KeepsRow(c, page) ==
    /\ returned' = [returned EXCEPT ![c] = Append(@, Head(page))]
    /\ data' = [data EXCEPT ![c] = page]

(* A row is returned and the rest of the page kept.                         *)
Returns(c, page) ==
    /\ returned' = [returned EXCEPT ![c] = Append(@, Head(page))]
    /\ data' = [data EXCEPT ![c] = Tail(page)]

(* __anext__ returns the next row of the page ...                           *)
NextRow(t, c) ==
    /\ Begins(t, c) /\ c \in fetched /\ data[c] # <<>>
    /\ Returns(c, data[c])
    /\ UNCHANGED <<connected, fetched, more, id, taskVars, nodeVars>>
    /\ UNCHANGED <<opened, failed, missed, session, outlived>>

(* Mutant: the end of the page is taken for that of the query.              *)
IgnoresMore(c) == c \notin fetched \/ data[c] = <<>>

(* Nothing was fetched or nothing is left.                                  *)
Exhausted(c) == c \notin fetched \/ (data[c] = <<>> /\ c \notin more)

(* ... or stops the iteration ...                                           *)
NoNextRow(t, c) ==
    /\ Begins(t, c) /\ c \in connected /\ Exhausted(c)
    /\ UNCHANGED <<cursorVars, taskVars, nodeVars, returned, opened, failed>>
    /\ UNCHANGED <<missed, session, outlived>>

(* Mutant: a page is asked for with the newest id.                          *)
NewestId(c) == lastId

(* The cursor id in the request for a page.                                 *)
PageId(c) == id[c]

(* A request with the cursor's id, maybe in a session that is not its own.  *)
Asks(c) ==
    outlived' = IF session[c] = losses THEN outlived ELSE outlived \cup {c}

(* ... or asks for the next page.  Without a session the request raises,    *)
(* which changes nothing.                                                   *)
NextPage(t, c) ==
    /\ Begins(t, c) /\ c \in fetched /\ data[c] = <<>> /\ c \in more /\ up
    /\ Waits(t, c, "paging", PageId(c)) /\ Asks(c)
    /\ UNCHANGED <<cursorVars, nodeVars, returned, opened, failed, missed, session>>

(* The node answers with the next page of what it holds under the id, or,   *)
(* when it holds nothing, with an error that is raised.                     *)
Paged(t) ==
    LET i == wanted[t]
    IN  /\ pc[t] = "paging"
        /\ IF i \in DOMAIN held
           THEN Serve(held[i], i) /\ Decodes(t, "paged", held[i], i)
           ELSE Over(t) /\ UNCHANGED held
        /\ UNCHANGED <<cursorVars, up, lastId, losses, ghosts>>

(* _process_page_response: the page replaces what is left of another, and   *)
(* its first row is returned.                                               *)
PageTaken(t) ==
    /\ pc[t] = "paged"
    /\ SetsMore(on[t], answer[t]) /\ Returns(on[t], Page(answer[t]))
    /\ Over(t)
    /\ UNCHANGED <<connected, fetched, id, nodeVars>>
    /\ UNCHANGED <<opened, shared, failed, missed, session, outlived>>

(* An answer cannot be decoded: the type of an object of it is not found.   *)
DecodeFailed(t) ==
    /\ on[t] \in Objects
    /\ \/ pc[t] = "opened" /\ failed' = failed \cup {on[t]} /\ UNCHANGED missed
       \/ pc[t] = "paged" /\ missed' = missed \cup {on[t]} /\ UNCHANGED failed
    /\ Over(t)
    /\ UNCHANGED <<cursorVars, nodeVars, returned, opened, shared>>
    /\ UNCHANGED <<session, outlived>>

(* Mutant: close() asks the node only when there are no more pages.         *)
ClosesAtEnd(c) == c \in connected /\ id[c] # 0 /\ c \notin more

(* close() has something to ask of the node.                                *)
ToClose(c) == c \in connected /\ id[c] # 0 /\ c \in more

(* close() asks the node to close a query that has more pages; it ignores   *)
(* the status of the answer.                                                *)
Close(t, c) ==
    /\ Begins(t, c) /\ c \in connected
    /\ IF ToClose(c)
       THEN up /\ Waits(t, c, "closing", id[c]) /\ Asks(c)
       ELSE UNCHANGED <<taskVars, outlived>>
    /\ UNCHANGED <<cursorVars, nodeVars, returned, opened, failed, missed, session>>

Closed(t) ==
    /\ pc[t] = "closing"
    /\ held' = [i \in DOMAIN held \ {wanted[t]} |-> held[i]]
    /\ Over(t)
    /\ UNCHANGED <<cursorVars, up, lastId, losses>>
    /\ UNCHANGED <<returned, opened, shared, failed, missed, session, outlived>>

-----------------------------------------------------------------------------
(* The session.                                                             *)

(* The session is lost, and with it the queries the node held for it; the   *)
(* requests without an answer raise.  The next session numbers its cursors  *)
(* afresh.                                                                  *)
Lose ==
    /\ up /\ losses < MaxLosses
    /\ up' = FALSE /\ losses' = losses + 1
    /\ held' = <<>> /\ lastId' = 0
    /\ failed' = failed \cup {on[t] : t \in {u \in Task : pc[u] = "opening"}}
    /\ LET raise == {t \in Task : pc[t] \in {"opening", "paging", "closing"}}
       IN  /\ pc' = [t \in Task |-> IF t \in raise THEN "idle" ELSE pc[t]]
           /\ on' = [t \in Task |-> IF t \in raise THEN None ELSE on[t]]
           /\ wanted' = [t \in Task |-> IF t \in raise THEN 0 ELSE wanted[t]]
    /\ UNCHANGED <<cursorVars, answer, since, returned, opened, shared>>
    /\ UNCHANGED <<missed, session, outlived>>

(* The connection reconnects.                                               *)
Reconnect ==
    /\ ~up /\ up' = TRUE
    /\ UNCHANGED <<cursorVars, taskVars, held, lastId, losses, ghosts>>

-----------------------------------------------------------------------------
Calls(t, c) == Enter(t, c) \/ NextRow(t, c) \/ NoNextRow(t, c) \/ NextPage(t, c) \/ Close(t, c)
Answers(t) ==
    \/ Connected(t) \/ Opened(t) \/ OpenFailed(t) \/ Paged(t) \/ Closed(t)
    \/ Initialized(t) \/ PageTaken(t) \/ DecodeFailed(t)

Next ==
    \/ \E t \in Task : Answers(t) \/ \E c \in Cursor : Calls(t, c)
    \/ Lose \/ Reconnect

Spec == Init /\ [][Next]_vars

-----------------------------------------------------------------------------
(* Properties.                                                              *)

(* A cursor that asks for nothing beyond its session returns rows of its    *)
(* own query only, whoever uses which cursors at the same time, be it with  *)
(* an id of an earlier session (cursors.py:186, 226).                       *)
OwnRows ==
    \A c \in Cursor \ outlived :
        /\ \A n \in DOMAIN returned[c] : returned[c][n][1] = c
        /\ \A n \in DOMAIN data[c] : data[c][n][1] = c

(* Where one query was opened for such a cursor, no row comes twice, even   *)
(* when several tasks ask for pages at a time and take them in another      *)
(* order than the node gave them: the pages replace each other              *)
(* (cursors.py:157) and are not mixed.                                      *)
RowsOnce ==
    \A c \in Cursor \ outlived : opened[c] <= 1 =>
        \A m, n \in DOMAIN returned[c] : m # n => returned[c][m] # returned[c][n]

(* No task is at the cursor.                                                *)
Unused(c) == \A t \in Task : on[t] # c

(* As long as no cursor asks beyond its session, who would be told that     *)
(* there are no more rows has got them all in order, if no two tasks shared *)
(* the cursor and neither its query nor a page failed (cursors.py:222-232). *)
EndIsComplete ==
    outlived = {} =>
        \A c \in connected \ (shared \cup failed \cup missed) : Unused(c) /\ Exhausted(c) =>
            returned[c] = [n \in 1 .. Size[c] |-> <<c, n>>]

(* No task is at the cursor, and it is at its end or has nothing to close.  *)
MayBeLeft(c) == Unused(c) /\ (Exhausted(c) \/ ~ToClose(c))
NotHeld(c) == \A i \in DOMAIN held : held[i].of # c

(* When a cursor is at its end, or close() finds nothing to close of it or  *)
(* has closed it, nothing of it is left open on the node, also when a page  *)
(* of it could not be decoded (cursors.py:130).                             *)
NothingLeftOpen ==
    [][\A c \in connected' \ (shared' \cup failed') :
          MayBeLeft(c)' \/ (\E t \in Task : Closed(t) /\ on[t] = c) => NotHeld(c)']_vars
=============================================================================
