------------------------------ MODULE Handshake ------------------------------
(***************************************************************************)
(* A connection and the node behind it: the handshake with its fallback to *)
(* older versions, the protocol context that it leaves with the client     *)
(* (connection.py, shared with aio_connection.py, protocol_context.py),    *)
(* and the node being lost and replaced by another version between any two *)
(* steps, as in a rolling upgrade.  How a handshake is laid out in bytes   *)
(* is a parameter: module Session gives it the messages of the client and  *)
(* of the node, and composes this connection with the calls made on it.    *)
(***************************************************************************)
EXTENDS Contexts

CONSTANTS
  Clients,         \* records [api: "sync" or "aio", compact, credentials, timezone]
  Nodes,           \* records [version, features]
  Logins,          \* the credentials the nodes know, {} when they ask for none
  MaxReplacements, \* bound: how often the node is replaced
  HandshakeRequest(_, _),  \* the bytes a client asks with, from its context and itself
  ReadRequest(_),          \* external: what the node reads in them, [version, features, credentials]
  Consent(_, _),           \* external: the node's answer, from common features and the context agreed
  Refusal(_, _, _),        \* external: the same, from its version, that context and a status
  ReadResponse(_, _, _)    \* what a client reads in it, from the bytes, its context and itself

CLIENT_STATUS_AUTH_FAILURE == 2000
UNSUPPORTED_VERSION == 1

FeaturesOf(context) == IF context.features = <<>> THEN {} ELSE context.features[1]
Agreement(context, features) == ProtocolContext(context.version, <<FeaturesOf(context) \cap features>>)

\* Each side reads the versions and features that the other writes, laid out by the version the client asks for, and the versions
\* of nodes are triples of numbers.
LayoutAssumption ==
  \A c \in Clients, context \in Contexts :
    /\ LET read == ReadRequest(HandshakeRequest(context, c))
       IN read.version = context.version /\ read.features = FeaturesOf(context)
    /\ \A n \in Nodes :
         LET agreed == Agreement(context, n.features)
         IN /\ ReadResponse(Consent(FeaturesOf(context) \cap n.features, agreed), context, c)
                 = [op_code |-> 1, features |-> agreed.features]
            /\ \A status \in {UNSUPPORTED_VERSION, CLIENT_STATUS_AUTH_FAILURE} :
                 ReadResponse(Refusal(n.version, agreed, status), context, c)
                   = [op_code |-> 0, expected |-> n.version, client_status |-> status]
ASSUME HandshakeAssumption ==
  /\ LayoutAssumption
  /\ \A n \in Nodes : n.version \in Nat \X Nat \X Nat
  /\ MaxReplacements \in Nat

VARIABLES
  client,
  server,          \* the version and the features of the node
  left,            \* replacements left
  ctx,             \* client.protocol_context: <<>> or <<context>>
  detecting,       \* whether this connect() found no context
  session,         \* the context the node has agreed to: <<>> or <<context>>
  conn,            \* "down", "handshake", "answered" or "up"
  wire             \* the bytes on their way
connection == <<client, server, left, ctx, detecting, session, conn>>
-----------------------------------------------------------------------------
\* The first attempt, and each one with the version of the last refusal.
Attempt(context) ==
  /\ ctx' = <<context>>
  /\ wire' = HandshakeRequest(context, client)
  /\ conn' = "handshake"

Connect ==
  /\ conn = "down"
  /\ detecting' = (ctx = <<>>)
  /\ Attempt(IF ctx = <<>> THEN HighestContext ELSE ctx[1])
  /\ UNCHANGED <<client, server, left, session>>

\* External: the version first, then the credentials, then what both sides have.
NodeAnswers(asked) ==
  LET common == asked.features \cap server.features
      agreed == ProtocolContext(asked.version, <<common>>)
      newer == Rank(asked.version) > Rank(server.version)
      known == Logins = {} \/ asked.credentials \in Logins
  IN /\ conn' = "answered"
     /\ wire' = IF newer THEN Refusal(server.version, agreed, UNSUPPORTED_VERSION)
                ELSE IF ~known THEN Refusal(server.version, agreed, CLIENT_STATUS_AUTH_FAILURE)
                ELSE Consent(common, agreed)
     /\ session' = IF newer \/ ~known THEN <<>> ELSE <<agreed>>
     /\ UNCHANGED <<client, server, left, ctx, detecting>>
NodeAnswersHandshake == conn = "handshake" /\ \E asked \in {ReadRequest(wire)} : NodeAnswers(asked)

ConnectionFails(context) ==
  /\ conn' = "down" /\ wire' = <<>> /\ session' = <<>> /\ detecting' = FALSE /\ ctx' = context

(* Mutant: the features stay those the client asked for. *)
OnHandshakeSuccess_AskedFeatures(response) == ctx' = ctx
OnHandshakeSuccess(response) == ctx' = <<WithFeatures(ctx[1], response.features)>>
\* A refusal for the version starts over with the one the node expects, if the client has it.
\* A refusal leaves the context: only another exception restores None.
HandshakeEnds(response) ==
  \/ /\ response.op_code # 0
     /\ OnHandshakeSuccess(response)
     /\ conn' = "up" /\ wire' = <<>> /\ detecting' = FALSE
     /\ UNCHANGED session
  \/ /\ response.op_code = 0
     /\ response.client_status # CLIENT_STATUS_AUTH_FAILURE
     /\ response.expected \in PROTOCOLS
     /\ Attempt(WithVersion(ctx[1], response.expected))
     /\ session' = <<>> /\ UNCHANGED detecting
  \/ /\ response.op_code = 0
     /\ response.client_status = CLIENT_STATUS_AUTH_FAILURE \/ response.expected \notin PROTOCOLS
     /\ ConnectionFails(ctx)
FinishHandshake ==
  /\ conn = "answered"
  /\ \E response \in {ReadResponse(wire, ctx[1], client)} : HandshakeEnds(response)
  /\ UNCHANGED <<client, server, left>>

\* A handshake that is cut off restores the context that connect() found undefined.
LoseHandshake ==
  /\ conn \in {"handshake", "answered"}
  /\ ConnectionFails(IF detecting THEN <<>> ELSE ctx)
  /\ UNCHANGED <<client, server, left>>

LoseConnection ==
  /\ conn = "up"
  /\ conn' = "down" /\ session' = <<>> /\ wire' = <<>>
  /\ UNCHANGED <<client, server, left, ctx, detecting>>

\* External: another node takes the address.
Replace ==
  /\ conn = "down" /\ left > 0
  /\ left' = left - 1
  /\ server' \in Nodes
  /\ UNCHANGED <<client, ctx, detecting, session, conn, wire>>

\* A request is written, answered or read: the connection is as it was.
Talk == conn = "up" /\ UNCHANGED connection
-----------------------------------------------------------------------------
HandshakeInit ==
  /\ client \in Clients /\ server \in Nodes
  /\ left = MaxReplacements /\ ctx = <<>> /\ detecting = FALSE /\ session = <<>> /\ conn = "down" /\ wire = <<>>
HandshakeNext ==
  \/ Connect \/ NodeAnswersHandshake \/ FinishHandshake
  \/ LoseHandshake \/ LoseConnection \/ Replace \/ Talk
HandshakeSpec == HandshakeInit /\ [][HandshakeNext]_<<connection, wire>>
-----------------------------------------------------------------------------
\* The session the client believes in is the one the node has agreed to, version and features: the
\* two lay out requests, responses and configurations by it (on_handshake_success, the fallback of
\* connect, the properties of the protocol context).
SessionAgreed ==
  conn = "up" => /\ ctx = session
                 /\ Rank(ctx[1].version) <= Rank(server.version)
                 /\ ctx[1].features # <<>> => ctx[1].features[1] \subseteq server.features
=============================================================================
