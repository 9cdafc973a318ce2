----------------------------- MODULE QueryEvents -----------------------------
(***************************************************************************)
(* What the listeners of monitoring.py hear of one query of a caller, from *)
(* Query.perform of queries/query.py: its start, and its end on every way  *)
(* out.  Module Session composes it with the request and the response.     *)
(***************************************************************************)
EXTENDS Sequences

VARIABLES
  debug,           \* whether the DEBUG level is enabled for the logger; nothing changes it here
  step,            \* of the call: "idle", "sent", "answered", "returned", or "local": nothing was sent
  outcome,         \* <<>>, <<"value", v>> or <<"error", name>>
  heard            \* the events of the query, in order
query == <<debug, step, outcome, heard>>

(* Mutant: only the success of a query is published. *)
Ended_OnlySuccess(events, how) == IF debug /\ how = "success" THEN Append(events, how) ELSE events
\* The end of a query is published only below the check for the log level.
Ended(events, how) == IF debug THEN Append(events, how) ELSE events
-----------------------------------------------------------------------------
\* There is no query: the call is refused before, or answered by the client itself.
Object_(what, events) ==
  step' = "local" /\ outcome' = <<"error", what>> /\ heard' = events /\ UNCHANGED debug
Refused(what) == step = "idle" /\ Object_(what, <<>>)
AnsweredLocally(v) == step = "idle" /\ step' = "local" /\ outcome' = <<"value", v>> /\ UNCHANGED <<debug, heard>>

\* The request is written, or something raises while it is.
Unwritten(what) == step = "idle" /\ Object_(what, Ended(<<"start">>, "fail"))
Started == step = "idle" /\ step' = "sent" /\ heard' = <<"start">> /\ UNCHANGED <<debug, outcome>>
Answered == step = "sent" /\ step' = "answered" /\ UNCHANGED <<debug, outcome, heard>>

Ends(result, how) ==
  step' = "returned" /\ outcome' = result /\ heard' = Ended(heard, how) /\ UNCHANGED debug
Succeeds(v) == step = "answered" /\ Ends(<<"value", v>>, "success")
Fails(what) == step \in {"sent", "answered"} /\ Ends(<<"error", what>>, "fail")

\* The caller takes the result: nothing is under way.
Taken == step \in {"returned", "local"} /\ step' = "idle" /\ outcome' = <<>> /\ heard' = <<>> /\ UNCHANGED debug
-----------------------------------------------------------------------------
QueryInit == debug \in BOOLEAN /\ step = "idle" /\ outcome = <<>> /\ heard = <<>>
QueryNext ==
  \/ \E v : Refused(v) \/ AnsweredLocally(v) \/ Unwritten(v) \/ Succeeds(v) \/ Fails(v)
  \/ Started \/ Answered \/ Taken
QuerySpec == QueryInit /\ [][QueryNext]_query
-----------------------------------------------------------------------------
\* A query whose start the listeners were told ends for them exactly once before its caller goes on, as
\* the caller sees it end, at the DEBUG level.  At every other level they are told of the start alone.  A
\* query that was sent was told, and nobody hears of a call without one (Query.perform, monitoring.py).
EveryQueryReported ==
  LET ended == IF outcome[1] = "value" THEN "success" ELSE "fail"
      told == IF debug THEN <<"start", ended>> ELSE <<"start">>
  IN /\ step = "returned" => heard = told
     /\ step = "local" => heard \in {<<>>, told}
=============================================================================
