--------------------------- MODULE MCBinaryTypes ---------------------------
(***************************************************************************)
(* Two tasks; a person with a city in its last field, and a class of       *)
(* cities without fields.                                                  *)
(***************************************************************************)
EXTENDS BinaryTypes
CONSTANTS
  MaxCalls,        \* bound: calls of all tasks
  MaxChanges       \* bound: changes of fields
VARIABLES calls, changes
TwoTasks == {"t1", "t2"}
Persons == {"person", "city"}
Classes == [o \in Persons |-> IF o = "person" THEN <<"Person", 1, "program">> ELSE <<"City", 1, "program">>]
CityInPerson == [o \in Persons |-> IF o = "person" THEN "city" ELSE "nothing"]
EmptyCity == {<<"City", 0, "program">>}
OthersTypes == {<<"City", 1>>}

MCInit == Init /\ calls = MaxCalls /\ changes = MaxChanges
MCNext ==
  \/ calls > 0 /\ calls' = calls - 1 /\ UNCHANGED changes /\ \E t \in Tasks : Call(t)
  \/ changes > 0 /\ changes' = changes - 1 /\ UNCHANGED calls /\ \E o \in Objects : SetAttr(o)
  \/ /\ UNCHANGED <<calls, changes>>
     /\ \/ \E t \in Tasks : Runs(t) \/ Resumes(t) \/ NodeAnswers(t) \/ NodePuts(t)
        \/ \E key \in Foreign : OtherProgram(key)
MCSpec == MCInit /\ [][MCNext]_<<vars, calls, changes>> /\ Fairness
=============================================================================
