---------------------------- MODULE BinaryTypes ----------------------------
(***************************************************************************)
(* The coroutines of one AioClient that write, hash, read and register     *)
(* complex objects (binary.py, datatypes/complex.py) and share its         *)
(* registry of classes, the mutex of its lookups and its footer style      *)
(* (client.py, aio_client.py), against the metadata of the cluster, which  *)
(* other programs extend.  The blocking client is the case of one task.    *)
(*                                                                         *)
(* A task works off an agenda of the steps its call is made of.  It is     *)
(* "run" between two suspensions and then the only one that is; it is      *)
(* suspended in the queue of the mutex and in its two requests.  A class   *)
(* is <<type, schema, origin>>: the schema id, and "cluster" for one that  *)
(* was made from the metadata.                                             *)
(***************************************************************************)
EXTENDS Integers, Sequences

CONSTANTS
  Tasks,
  Objects,
  ClassOf,         \* the class of each object
  Inner,           \* the object in the last field of each object, or NoObject
  NoObject,
  Offered,         \* the classes a program may register
  Foreign,         \* <<type, schema>> that other programs may register
  OthersCompact    \* whether other programs write compact footers

Key(class) == <<class[1], class[2]>>
NoSchema == 0      \* the id of a schema without fields, and a query without a schema
Own == {ClassOf[o] : o \in Objects} \cup Offered
Keys == {Key(class) : class \in Own} \cup Foreign
Values == 0..1     \* of the fields of an object but the last

ASSUME ObjectsAssumption ==
  /\ NoObject \notin Objects
  /\ Inner \in [Objects -> Objects \cup {NoObject}]
  /\ \A o \in Objects : Inner[o] # NoObject => Inner[Inner[o]] = NoObject
ASSUME ForeignAssumption == \A key \in Foreign : key = Key(key)
ASSUME StyleAssumption == OthersCompact \in BOOLEAN

VARIABLES
  registry,        \* _registry: a class for some keys
  mux,             \* the task that holds _registry_mux, or NoTask
  queue,           \* the tasks that wait for it
  style,           \* _compact_footer: "unknown", "compact" or "full"
  object,          \* of each object [plain, buffer: _buffer, hash: what _hashcode was computed from]
  cluster,         \* the keys that the cluster has metadata for
  stored,          \* <<key, whether compact>> of the objects this client has sent
  at,              \* of each task: "idle", "run", "wait", "ask", "asked", "put" or "done"
  agenda,          \* of each task: its steps to come
  found,           \* of each task: the classes its last query returned
  info,            \* of each task: the keys in the answer to its lookup
  out              \* of each task and object: the bytes written, <<>> or <<bytes>>
shared == <<registry, mux, queue, style>>
nodes == <<cluster, stored>>
local == <<at, agenda, found, info, out>>
vars == <<shared, object, nodes, local>>
NoTask == "none"
-----------------------------------------------------------------------------
(***************************************************************************)
(* The registry.                                                           *)
(***************************************************************************)
\* The classes of a key; without a schema, or for the id of an empty one, all of the type.
GetFromRegistry(reg, type, schema) ==
  {reg[k] : k \in {x \in DOMAIN reg : x[1] = type /\ schema \in {NoSchema, x[2]}}}

CreateDataclass(key) == <<key[1], key[2], "cluster">>

\* Only what is missing is added.
SyncBinaryRegistry(reg, keys) ==
  [k \in DOMAIN reg \cup keys |-> IF k \in DOMAIN reg THEN reg[k] ELSE CreateDataclass(k)]
-----------------------------------------------------------------------------
(***************************************************************************)
(* What a call consists of.                                                *)
(***************************************************************************)
(* Mutant: the class is in the registry before the cluster has it. *)
Registers_AssignFirst(class) == <<<<"query", class[1], class[2]>>, <<"assign", class>>, <<"put", class>>>>
\* A class that is found, its own or one made from the metadata, is not put.
Registers(class) == <<<<"query", class[1], class[2]>>, <<"put", class>>, <<"assign", class>>>>

FromPython(o) == <<<<"enter", o>>>>
\* Header and fields, then the object in the last field, then the footer.
Body(o, save) ==
  <<<<"open", o>>>> \o (IF Inner[o] = NoObject THEN <<>> ELSE FromPython(Inner[o])) \o <<<<"footer", o, save>>>>

\* A value, or a key that no partition is computed for; a key with its partition; one object of an answer.
Sends(o) == FromPython(o) \o <<<<"send", o>>>>
Routes(o) == <<<<"hash", o>>>> \o Sends(o)
Reads(key, compact) ==
  <<<<"query", key[1], key[2]>>, <<"dataclass", key>>, <<"style", compact>>, <<"query", key[1], key[2]>>>>
-----------------------------------------------------------------------------
Turn == \A t \in Tasks : at[t] # "run"
Doing(t, what) == at[t] = "run" /\ agenda[t] # <<>> /\ Head(agenda[t])[1] = what
Goes(t, where, steps) == at' = [at EXCEPT ![t] = where] /\ agenda' = [agenda EXCEPT ![t] = steps]
Continues(t, steps) == Goes(t, "run", steps \o Tail(agenda[t]))
Ends(t) ==
  /\ Goes(t, "idle", <<>>)
  /\ found' = [found EXCEPT ![t] = {}] /\ info' = [info EXCEPT ![t] = {}]
  /\ out' = [out EXCEPT ![t] = [o \in Objects |-> <<>>]]

Begin(t, steps) ==
  /\ at[t] = "idle" /\ Turn
  /\ Goes(t, "run", steps)
  /\ UNCHANGED <<shared, object, nodes, found, info, out>>
Call(t) ==
  \/ \E o \in Objects : Begin(t, Sends(o)) \/ Begin(t, Routes(o))
  \/ \E class \in Offered : Begin(t, Registers(class))
  \/ \E key \in Keys : Begin(t, <<<<"query", key[1], NoSchema>>>>)
  \/ \E x \in stored \cup {<<key, OthersCompact>> : key \in cluster} : Begin(t, Reads(x[1], x[2]))
Return(t) ==
  /\ at[t] = "run" /\ agenda[t] = <<>>
  /\ Ends(t)
  /\ UNCHANGED <<shared, object, nodes>>

(***************************************************************************)
(* query_binary_type and register_binary_type.                             *)
(***************************************************************************)
\* Found at once, or under the mutex, which a free lock without waiters gives without a suspension.
Query(t) ==
  LET q == Head(agenda[t])
      classes == GetFromRegistry(registry, q[2], q[3])
      waits == mux # NoTask \/ queue # <<>>
  IN /\ Doing(t, "query")
     /\ IF classes # {} THEN /\ Continues(t, <<>>)
                             /\ found' = [found EXCEPT ![t] = classes]
                             /\ UNCHANGED <<mux, queue>>
        ELSE /\ Goes(t, IF waits THEN "wait" ELSE "ask", agenda[t])
             /\ queue' = IF waits THEN Append(queue, t) ELSE queue
             /\ mux' = IF waits THEN mux ELSE t
             /\ UNCHANGED found
     /\ UNCHANGED <<registry, style, object, nodes, info, out>>

(* Mutant: the second look is missing. *)
Acquire_Asks(t) ==
  /\ at[t] = "wait" /\ mux = NoTask /\ Head(queue) = t /\ Turn
  /\ queue' = Tail(queue)
  /\ Goes(t, "ask", agenda[t]) /\ mux' = t
  /\ UNCHANGED <<found, registry, style, object, nodes, info, out>>
\* The first in the queue has the mutex and looks again.
Acquire(t) ==
  LET q == Head(agenda[t])
      classes == GetFromRegistry(registry, q[2], q[3])
  IN /\ at[t] = "wait" /\ mux = NoTask /\ Head(queue) = t /\ Turn
     /\ queue' = Tail(queue)
     /\ IF classes # {} THEN Continues(t, <<>>) /\ found' = [found EXCEPT ![t] = classes] /\ UNCHANGED mux
        ELSE Goes(t, "ask", agenda[t]) /\ mux' = t /\ UNCHANGED found
     /\ UNCHANGED <<registry, style, object, nodes, info, out>>

\* External: the metadata of the type as it is when the node reads the request.
NodeAnswers(t) ==
  /\ at[t] = "ask"
  /\ at' = [at EXCEPT ![t] = "asked"]
  /\ info' = [info EXCEPT ![t] = {k \in cluster : k[1] = Head(agenda[t])[2]}]
  /\ UNCHANGED <<shared, object, nodes, agenda, found, out>>

Synchronise(t) ==
  LET q == Head(agenda[t])
  IN /\ at[t] = "asked" /\ Turn
     /\ registry' = SyncBinaryRegistry(registry, info[t])
     /\ found' = [found EXCEPT ![t] = GetFromRegistry(registry', q[2], q[3])]
     /\ mux' = NoTask
     /\ Continues(t, <<>>)
     /\ UNCHANGED <<queue, style, object, nodes, info, out>>

PutBinaryType(t) ==
  /\ Doing(t, "put")
  /\ IF found[t] = {} THEN Goes(t, "put", agenda[t]) ELSE Continues(t, <<>>)
  /\ UNCHANGED <<shared, object, nodes, found, info, out>>

\* External.
NodePuts(t) ==
  /\ at[t] = "put"
  /\ at' = [at EXCEPT ![t] = "done"]
  /\ cluster' = cluster \cup {Key(Head(agenda[t])[2])}
  /\ UNCHANGED <<shared, object, stored, agenda, found, info, out>>

PutReturns(t) ==
  /\ at[t] = "done" /\ Turn
  /\ Continues(t, <<>>)
  /\ UNCHANGED <<shared, object, nodes, found, info, out>>

Assign(t) ==
  LET class == Head(agenda[t])[2]
  IN /\ Doing(t, "assign")
     /\ registry' = [k \in DOMAIN registry \cup {Key(class)} |-> IF k = Key(class) THEN class ELSE registry[k]]
     /\ Continues(t, <<>>)
     /\ UNCHANGED <<mux, queue, style, object, nodes, found, info, out>>

(* Mutant: the mutex is not left. *)
RequestFails_Locked(t) ==
  /\ at[t] \in {"ask", "asked", "put", "done"} /\ Turn
  /\ Ends(t)
  /\ UNCHANGED <<shared, object, nodes>>
\* A request is refused or its connection lost, before or after the node has done it: the exception
\* leaves the mutex and ends the call.
RequestFails(t) ==
  /\ at[t] \in {"ask", "asked", "put", "done"} /\ Turn
  /\ mux' = IF mux = t THEN NoTask ELSE mux
  /\ Ends(t)
  /\ UNCHANGED <<registry, queue, style, object, nodes>>
-----------------------------------------------------------------------------
(***************************************************************************)
(* Writing, hashing and changing an object.                                *)
(***************************************************************************)
\* The footers are compact until the client has read an object with others.
CompactFooter == style # "full"

\* The bytes of an earlier serialisation, or the class is registered and the object written.
Enter(t) ==
  LET o == Head(agenda[t])[2]
  IN /\ Doing(t, "enter")
     /\ IF object[o].buffer # <<>> THEN out' = [out EXCEPT ![t][o] = object[o].buffer] /\ Continues(t, <<>>)
        ELSE Continues(t, Registers(ClassOf[o]) \o Body(o, FALSE)) /\ UNCHANGED out
     /\ UNCHANGED <<shared, object, nodes, found, info>>

\* The flags of the header and the fields are read here, the footer is written after the inner object.
\* disturbed (history): the object was changed, or the style learned, before the footer was written.
Open(t) ==
  LET o == Head(agenda[t])[2]
  IN /\ Doing(t, "open")
     /\ out' = [out EXCEPT ![t][o] = <<[class |-> ClassOf[o], plain |-> object[o].plain, inner |-> <<>>,
                                        header |-> CompactFooter, footer |-> CompactFooter,
                                        hashed |-> FALSE, open |-> TRUE, disturbed |-> FALSE]>>]
     /\ Continues(t, <<>>)
     /\ UNCHANGED <<shared, object, nodes, found, info>>

WriteFooter(t) ==
  LET o == Head(agenda[t])[2]
      save == Head(agenda[t])[3]
      written == [out[t][o][1] EXCEPT !.inner = IF Inner[o] = NoObject THEN <<>> ELSE out[t][Inner[o]],
                                      !.footer = CompactFooter, !.hashed = save, !.open = FALSE]
  IN /\ Doing(t, "footer")
     /\ out' = [out EXCEPT ![t][o] = <<written>>]
     /\ object' = [object EXCEPT ![o].hash = <<written>>, ![o].buffer = IF save THEN <<written>> ELSE @]
     /\ Continues(t, <<>>)
     /\ UNCHANGED <<shared, nodes, found, info>>

\* The object is serialised for its hash code, and the bytes kept; its class is not registered.
Hashcode(t) ==
  LET o == Head(agenda[t])[2]
  IN /\ Doing(t, "hash")
     /\ Continues(t, IF object[o].hash # <<>> THEN <<>> ELSE Body(o, TRUE))
     /\ UNCHANGED <<shared, object, nodes, found, info, out>>

Parts(bytes) == {bytes} \cup {bytes.inner[i] : i \in DOMAIN bytes.inner}
Send(t) ==
  /\ Doing(t, "send")
  /\ stored' = stored \cup {<<Key(p.class), p.header>> : p \in Parts(out[t][Head(agenda[t])[2]][1])}
  /\ Continues(t, <<>>)
  /\ UNCHANGED <<shared, object, cluster, found, info, out>>

\* history: what the objects that are being written are marked with
Disturbed(these) ==
  out' = [u \in Tasks |-> [x \in Objects |->
            IF x \in these /\ out[u][x] # <<>> /\ out[u][x][1].open
            THEN <<[out[u][x][1] EXCEPT !.disturbed = TRUE]>> ELSE out[u][x]]]

(* Mutant: the bytes are not dropped. *)
SetAttr_KeepsBuffer(o) ==
  /\ Turn
  /\ \E v \in Values \ {object[o].plain} :
       object' = [object EXCEPT ![o] = [plain |-> v, buffer |-> @.buffer, hash |-> <<>>]]
  /\ Disturbed({o})
  /\ UNCHANGED <<shared, nodes, at, agenda, found, info>>
\* A program changes a field: what was kept of the object is dropped.
SetAttr(o) ==
  /\ Turn
  /\ \E v \in Values \ {object[o].plain} :
       object' = [object EXCEPT ![o] = [plain |-> v, buffer |-> <<>>, hash |-> <<>>]]
  /\ Disturbed({o})
  /\ UNCHANGED <<shared, nodes, at, agenda, found, info>>
-----------------------------------------------------------------------------
(***************************************************************************)
(* Reading an object.                                                      *)
(***************************************************************************)
\* RuntimeError for a type that is not registered; AttributeError for the id of an empty schema, the
\* answer for which is not a class.
GetDataclass(t) ==
  LET key == Head(agenda[t])[2]
  IN /\ Doing(t, "dataclass")
     /\ IF found[t] = {} \/ key[2] = NoSchema THEN Ends(t)
        ELSE Continues(t, <<>>) /\ UNCHANGED <<found, info, out>>
     /\ UNCHANGED <<shared, object, nodes>>

\* The style of the footers is learned once; another one raises a Warning.
LearnStyle(t) ==
  LET learned == IF Head(agenda[t])[2] THEN "compact" ELSE "full"
  IN /\ Doing(t, "style")
     /\ IF style \in {"unknown", learned}
        THEN /\ style' = learned
             /\ IF learned = style \/ learned = "compact" THEN UNCHANGED out ELSE Disturbed(Objects)
             /\ Continues(t, <<>>) /\ UNCHANGED <<found, info>>
        ELSE Ends(t) /\ UNCHANGED style
     /\ UNCHANGED <<registry, mux, queue, object, nodes>>
-----------------------------------------------------------------------------
\* External: another program registers a class.
OtherProgram(key) ==
  /\ key \notin cluster
  /\ cluster' = cluster \cup {key}
  /\ UNCHANGED <<shared, object, stored, local>>

Init ==
  /\ registry = [k \in {} |-> <<>>] /\ mux = NoTask /\ queue = <<>> /\ style = "unknown"
  /\ object = [o \in Objects |-> [plain |-> 0, buffer |-> <<>>, hash |-> <<>>]]
  /\ cluster = {} /\ stored = {}
  /\ at = [t \in Tasks |-> "idle"] /\ agenda = [t \in Tasks |-> <<>>]
  /\ found = [t \in Tasks |-> {}] /\ info = [t \in Tasks |-> {}]
  /\ out = [t \in Tasks |-> [o \in Objects |-> <<>>]]

Runs(t) ==
  \/ Query(t) \/ PutBinaryType(t) \/ Assign(t) \/ Enter(t) \/ Open(t) \/ WriteFooter(t) \/ Hashcode(t)
  \/ Send(t) \/ GetDataclass(t) \/ LearnStyle(t) \/ Return(t)
Resumes(t) == Acquire(t) \/ Synchronise(t) \/ PutReturns(t) \/ RequestFails(t)
Next ==
  \/ \E t \in Tasks : Call(t) \/ Runs(t) \/ Resumes(t) \/ NodeAnswers(t) \/ NodePuts(t)
  \/ \E o \in Objects : SetAttr(o)
  \/ \E key \in Foreign : OtherProgram(key)
Spec == Init /\ [][Next]_vars

\* A task runs until it is suspended, the event loop resumes whoever is ready, and a node answers or its
\* connection is lost.
Fairness ==
  \A t \in Tasks : /\ WF_vars(Runs(t)) /\ WF_vars(Resumes(t))
                   /\ WF_vars(NodeAnswers(t)) /\ WF_vars(NodePuts(t))
FairSpec == Spec /\ Fairness
-----------------------------------------------------------------------------
(***************************************************************************)
(* Properties.                                                             *)
(***************************************************************************)
\* A type without a schema is known with any of its schemas.
Known(class) == Key(class) \in cluster \/ (class[2] = NoSchema /\ \E k \in cluster : k[1] = class[1])
SentBy(t) == IF Doing(t, "send") THEN Parts(out[t][Head(agenda[t])[2]][1]) ELSE {}

\* The cluster knows the type and the schema of every object in a request, the inner ones too, but for
\* those that were serialised for their hash code: whoever finds a class in the registry may send its
\* objects, because it is there only once the cluster has it (register_binary_type of aio_client.py).
WrittenAreKnown == \A t \in Tasks : \A p \in SentBy(t) : ~p.hashed => Known(p.class)

\* Bytes that are kept, hashed or sent are those of the object as it is, with the footer its header
\* announces, unless it was changed, or the style learned, while they were written; inner objects of
\* bytes that were kept may have changed since (the reset in _setattr of binary.py).
Current(o, bytes) == bytes.disturbed \/ (bytes.plain = object[o].plain /\ bytes.header = bytes.footer)
BytesAreCurrent ==
  /\ \A o \in Objects : \A bytes \in {object[o].buffer, object[o].hash} \ {<<>>} : Current(o, bytes[1])
  /\ \A t \in Tasks : Doing(t, "send") => LET o == Head(agenda[t])[2] IN Current(o, out[t][o][1])

\* No class is dropped, a class gives way only to one that a program registers or writes, never to one
\* made from the metadata, and no task asks the cluster for what the registry has, however long it
\* waited for the mutex (_sync_binary_registry, the second look of query_binary_type).
RegistryIsKept ==
  [][/\ \A k \in DOMAIN registry :
          /\ k \in DOMAIN registry'
          /\ registry'[k] # registry[k] => registry'[k] \in Own /\ Key(registry'[k]) = k
     /\ \A t \in Tasks : at'[t] = "ask" /\ at[t] # "ask" =>
          LET q == Head(agenda[t]) IN GetFromRegistry(registry, q[2], q[3]) = {}]_vars

\* Every call returns, whatever fails while others wait for the mutex (query_binary_type).
CallsReturn == \A t \in Tasks : at[t] # "idle" ~> at[t] = "idle"
=============================================================================
