----------------------------- MODULE SessionProofs -----------------------------
(***************************************************************************)
(* Theorems about the parts of a session that are not recursive over data: *)
(* its connection and context (Handshake), the events of its queries       *)
(* (QueryEvents) and the headers of its messages (Headers).                *)
(***************************************************************************)
EXTENDS Handshake, QueryEvents, Headers, SequenceTheorems, TLAPS

(***************************************************************************)
(* The protocol context.                                                   *)
(***************************************************************************)
LEMMA RankOfProtocol ==
  ASSUME NEW v \in PROTOCOLS PROVE Rank(v) \in Nat
  BY DEF PROTOCOLS, Rank

\* A context has features from 1.7.0 on, and none below.
LEMMA ContextFields ==
  ASSUME NEW c \in Contexts
  PROVE  /\ c.version \in PROTOCOLS
         /\ c = [version |-> c.version, features |-> c.features]
         /\ Rank(c.version) >= 170 => \E f \in FeatureSets : c.features = <<f>>
         /\ Rank(c.version) < 170 => c.features = <<>>
  <1>1. PICK v \in PROTOCOLS, f \in FeatureSets : c = ProtocolContext(v, <<f>>)
    BY DEF Contexts
  <1>2. CASE Rank(v) >= 170
    <2>1. c = [version |-> v, features |-> <<f>>]
      BY <1>1, <1>2 DEF ProtocolContext, EnsureConsistency, IsFeatureFlagsSupported, AtLeast, Rank
    <2>2. c.version = v /\ c.features = <<f>>
      BY <2>1
    <2>3. Rank(v) \in Nat
      BY RankOfProtocol
    <2> QED BY <2>1, <2>2, <2>3, <1>2
  <1>3. CASE ~(Rank(v) >= 170)
    <2>1. c = [version |-> v, features |-> <<>>]
      BY <1>1, <1>3 DEF ProtocolContext, EnsureConsistency, IsFeatureFlagsSupported, AtLeast, Rank
    <2>2. c.version = v /\ c.features = <<>>
      BY <2>1
    <2>3. Rank(v) \in Nat
      BY RankOfProtocol
    <2> QED BY <2>1, <2>2, <2>3, <1>3
  <1> QED BY <1>2, <1>3

\* A context is determined by its version and, from 1.7.0 on, its features.
LEMMA ContextIs ==
  ASSUME NEW v \in PROTOCOLS, NEW f \in FeatureSets
  PROVE  /\ ProtocolContext(v, <<f>>) \in Contexts
         /\ ProtocolContext(v, <<f>>).version = v
         /\ Rank(v) >= 170 => ProtocolContext(v, <<f>>) = [version |-> v, features |-> <<f>>]
         /\ Rank(v) < 170 => ProtocolContext(v, <<f>>) = [version |-> v, features |-> <<>>]
  <1>1. ProtocolContext(v, <<f>>) \in Contexts
    BY DEF Contexts
  <1>2. CASE Rank(v) >= 170
    <2>1. ProtocolContext(v, <<f>>) = [version |-> v, features |-> <<f>>]
      BY <1>2 DEF ProtocolContext, EnsureConsistency, IsFeatureFlagsSupported, AtLeast, Rank
    <2> QED BY <1>1, <1>2, <2>1, RankOfProtocol
  <1>3. CASE ~(Rank(v) >= 170)
    <2>1. ProtocolContext(v, <<f>>) = [version |-> v, features |-> <<>>]
      BY <1>3 DEF ProtocolContext, EnsureConsistency, IsFeatureFlagsSupported, AtLeast, Rank
    <2> QED BY <1>1, <1>3, <2>1, RankOfProtocol
  <1> QED BY <1>2, <1>3

\* The first attempt of a client asks for the newest version.
LEMMA HighestIsContext ==
  HighestContext \in Contexts
  <1> DEFINE v == CHOOSE v \in PROTOCOLS : \A w \in PROTOCOLS : Rank(w) <= Rank(v)
  <1>1. \E u \in PROTOCOLS : \A w \in PROTOCOLS : Rank(w) <= Rank(u)
    <2>1. <<1, 7, 1>> \in PROTOCOLS
      BY DEF PROTOCOLS
    <2>2. \A w \in PROTOCOLS : Rank(w) <= Rank(<<1, 7, 1>>)
      BY DEF PROTOCOLS, Rank
    <2> QED BY <2>1, <2>2
  <1>2. v \in PROTOCOLS
    BY <1>1
  <1>3. HighestContext = ProtocolContext(v, <<AllSupported>>)
    BY DEF HighestContext
  <1> HIDE DEF v
  <1>4. AllSupported \in FeatureSets
    BY DEF FeatureSets
  <1> QED BY <1>2, <1>3, <1>4 DEF Contexts

\* A fallback gives a context again: below 1.7.0 the features are dropped with the version.
LEMMA OlderVersion ==
  ASSUME NEW c \in Contexts, NEW v \in PROTOCOLS, Rank(v) < Rank(c.version)
  PROVE  /\ WithVersion(c, v) \in Contexts
         /\ WithVersion(c, v).version = v
         /\ FeaturesOf(WithVersion(c, v)) \subseteq FeaturesOf(c)
  <1>0. Rank(v) \in Nat /\ Rank(c.version) \in Nat /\ c.version \in PROTOCOLS
    BY RankOfProtocol, ContextFields
  <1>1. c = [version |-> c.version, features |-> c.features]
    BY ContextFields
  <1>4. [c EXCEPT !.version = v] = [version |-> v, features |-> c.features]
    BY <1>1
  <1>2. CASE Rank(v) >= 170
    <2>1. PICK f \in FeatureSets : c.features = <<f>>
      BY <1>0, <1>2, ContextFields
    <2>2. WithVersion(c, v) = [version |-> v, features |-> <<f>>]
      BY <1>4, <1>2, <2>1 DEF WithVersion, EnsureConsistency, IsFeatureFlagsSupported, AtLeast, Rank
    <2>3. WithVersion(c, v) = ProtocolContext(v, <<f>>)
      BY <2>2, <1>2, ContextIs
    <2>4. WithVersion(c, v).version = v /\ WithVersion(c, v).features = <<f>>
      BY <2>2
    <2>5. WithVersion(c, v) \in Contexts
      BY <2>3, ContextIs
    <2>6. FeaturesOf(WithVersion(c, v)) = FeaturesOf(c)
      BY <2>1, <2>4 DEF FeaturesOf
    <2> QED BY <2>4, <2>5, <2>6
  <1>3. CASE ~(Rank(v) >= 170)
    <2>0. Rank(v) < 170
      BY <1>0, <1>3
    <2>1. WithVersion(c, v) = [version |-> v, features |-> <<>>]
      <3> DEFINE d == [version |-> v, features |-> c.features]
      <3>1. ~IsFeatureFlagsSupported(d)
        BY <1>3 DEF IsFeatureFlagsSupported, AtLeast, Rank
      <3>2. WithVersion(c, v) = [d EXCEPT !.features = <<>>]
        BY <1>4, <3>1 DEF WithVersion, EnsureConsistency
      <3> QED BY <3>2
    <2>2. {} \in FeatureSets
      BY DEF FeatureSets
    <2>3. ProtocolContext(v, <<{}>>) \in Contexts /\ ProtocolContext(v, <<{}>>) = [version |-> v, features |-> <<>>]
      BY <2>2, <2>0, ContextIs
    <2>4. FeaturesOf(WithVersion(c, v)) = {}
      BY <2>1 DEF FeaturesOf
    <2> QED BY <2>1, <2>3, <2>4
  <1> QED BY <1>2, <1>3

\* What the client and the node agree on is a context with the version asked for and common features.
LEMMA AgreementIsContext ==
  ASSUME NEW c \in Contexts, NEW f
  PROVE  /\ Agreement(c, f) \in Contexts
         /\ Agreement(c, f).version = c.version
         /\ FeaturesOf(Agreement(c, f)) \subseteq FeaturesOf(c) \cap f
         /\ Agreement(c, f).features # <<>> => Agreement(c, f).features[1] \subseteq f
         /\ WithFeatures(c, Agreement(c, f).features) = Agreement(c, f)
  <1>0. /\ c.version \in PROTOCOLS /\ Rank(c.version) \in Nat
        /\ c = [version |-> c.version, features |-> c.features]
    BY ContextFields, RankOfProtocol
  <1> DEFINE g == FeaturesOf(c) \cap f
  <1>1. g \in FeatureSets
    <2>1. CASE Rank(c.version) >= 170
      BY <2>1, ContextFields DEF FeaturesOf, FeatureSets
    <2>2. CASE Rank(c.version) < 170
      BY <2>2, ContextFields DEF FeaturesOf, FeatureSets
    <2> QED BY <2>1, <2>2, <1>0
  <1>2. Agreement(c, f) = ProtocolContext(c.version, <<g>>)
    BY DEF Agreement
  <1> HIDE DEF g
  <1>3. Agreement(c, f) \in Contexts /\ Agreement(c, f).version = c.version
    BY <1>0, <1>1, <1>2, ContextIs
  <1>4. CASE Rank(c.version) >= 170
    <2>1. Agreement(c, f) = [version |-> c.version, features |-> <<g>>]
      BY <1>0, <1>1, <1>2, <1>4, ContextIs
    <2>2. WithFeatures(c, <<g>>) = [version |-> c.version, features |-> <<g>>]
      BY <1>0, <1>4 DEF WithFeatures, EnsureConsistency, IsFeatureFlagsSupported, AtLeast, Rank
    <2> QED BY <1>3, <2>1, <2>2 DEF FeaturesOf, g
  <1>5. CASE Rank(c.version) < 170
    <2>1. Agreement(c, f) = [version |-> c.version, features |-> <<>>]
      BY <1>0, <1>1, <1>2, <1>5, ContextIs
    <2>2. ~(Rank(c.version) >= 170)
      BY <1>5, <1>0
    <2>3. WithFeatures(c, <<>>) = [version |-> c.version, features |-> <<>>]
      BY <1>0, <2>2 DEF WithFeatures, EnsureConsistency, IsFeatureFlagsSupported, AtLeast, Rank
    <2> QED BY <1>3, <2>1, <2>3 DEF FeaturesOf, g
  <1> QED BY <1>4, <1>5, <1>0

(***************************************************************************)
(* The connection.                                                         *)
(***************************************************************************)
ContextInv ==
  /\ client \in Clients /\ server \in Nodes
  /\ conn \in {"down", "handshake", "answered", "up"}
  /\ ctx = <<>> \/ \E c \in Contexts : ctx = <<c>>
  /\ conn # "down" => ctx # <<>>

\* What is on its way in a handshake is what the client asked, or the answer of this node to it.
AskedInv == conn = "handshake" => wire = HandshakeRequest(ctx[1], client)
Accepted ==
  LET agreed == Agreement(ctx[1], server.features)
  IN /\ Rank(ctx[1].version) <= Rank(server.version)
     /\ session = <<agreed>>
     /\ wire = Consent(FeaturesOf(ctx[1]) \cap server.features, agreed)
RefusedWith(status) ==
  /\ session = <<>>
  /\ wire = Refusal(server.version, Agreement(ctx[1], server.features), status)
AnsweredInv ==
  conn = "answered" =>
    \/ Accepted
    \/ RefusedWith(UNSUPPORTED_VERSION) /\ Rank(server.version) < Rank(ctx[1].version)
    \/ RefusedWith(CLIENT_STATUS_AUTH_FAILURE)

HandshakeInv == ContextInv /\ AskedInv /\ AnsweredInv /\ SessionAgreed

\* What the layout of the messages promises for one client and one context.
LEMMA RequestIsRead ==
  ASSUME NEW c \in Clients, NEW context \in Contexts
  PROVE  /\ ReadRequest(HandshakeRequest(context, c)).version = context.version
         /\ ReadRequest(HandshakeRequest(context, c)).features = FeaturesOf(context)
  BY HandshakeAssumption DEF LayoutAssumption

LEMMA ConsentIsRead ==
  ASSUME NEW c \in Clients, NEW context \in Contexts, NEW n \in Nodes
  PROVE  ReadResponse(Consent(FeaturesOf(context) \cap n.features, Agreement(context, n.features)), context, c)
           = [op_code |-> 1, features |-> Agreement(context, n.features).features]
  BY HandshakeAssumption DEF LayoutAssumption

LEMMA RefusalIsRead ==
  ASSUME NEW c \in Clients, NEW context \in Contexts, NEW n \in Nodes,
         NEW status \in {UNSUPPORTED_VERSION, CLIENT_STATUS_AUTH_FAILURE}
  PROVE  ReadResponse(Refusal(n.version, Agreement(context, n.features), status), context, c)
           = [op_code |-> 0, expected |-> n.version, client_status |-> status]
  BY HandshakeAssumption DEF LayoutAssumption

LEMMA RankOfNode ==
  ASSUME NEW n \in Nodes PROVE Rank(n.version) \in Nat
  <1>1. n.version \in Nat \X Nat \X Nat
    BY HandshakeAssumption
  <1> QED BY <1>1 DEF Rank

\* An attempt in a context of the client leaves nothing of the handshake before it.
LEMMA AttemptStep ==
  ASSUME HandshakeInv, NEW c \in Contexts, Attempt(c), UNCHANGED <<client, server>>
  PROVE  HandshakeInv'
  <1>1. ctx' = <<c>> /\ ctx'[1] = c /\ conn' = "handshake" /\ wire' = HandshakeRequest(c, client)
    BY DEF Attempt
  <1>2. ContextInv'
    BY <1>1 DEF HandshakeInv, ContextInv
  <1>3. AskedInv'
    BY <1>1 DEF AskedInv
  <1>4. AnsweredInv' /\ SessionAgreed'
    BY <1>1 DEF AnsweredInv, SessionAgreed
  <1> QED BY <1>2, <1>3, <1>4 DEF HandshakeInv

LEMMA ConnectStep ==
  ASSUME HandshakeInv, Connect PROVE HandshakeInv'
  <1> DEFINE c == IF ctx = <<>> THEN HighestContext ELSE ctx[1]
  <1>1. c \in Contexts
    BY HighestIsContext DEF HandshakeInv, ContextInv
  <1>2. Attempt(c) /\ UNCHANGED <<client, server>>
    BY DEF Connect
  <1> HIDE DEF c
  <1> QED BY <1>1, <1>2, AttemptStep

\* A node that is as new as the client asks for and knows it agrees to what both have.
LEMMA AnswerStep ==
  ASSUME HandshakeInv, NodeAnswersHandshake PROVE HandshakeInv'
  <1>1. PICK c \in Contexts : ctx = <<c>>
    BY DEF HandshakeInv, ContextInv, NodeAnswersHandshake
  <1> DEFINE asked == ReadRequest(wire)
  <1>2. wire = HandshakeRequest(c, client) /\ client \in Clients /\ server \in Nodes
    BY <1>1 DEF HandshakeInv, ContextInv, AskedInv, NodeAnswersHandshake
  <1>3. asked.version = c.version /\ asked.features = FeaturesOf(c)
    BY <1>2, RequestIsRead
  <1>4. NodeAnswers(asked)
    BY DEF NodeAnswersHandshake
  <1> HIDE DEF asked
  <1> DEFINE agreed == Agreement(c, server.features)
  <1>5. agreed = ProtocolContext(asked.version, <<asked.features \cap server.features>>)
    BY <1>3 DEF Agreement
  <1>6. UNCHANGED <<client, server, ctx>> /\ conn' = "answered"
    BY <1>4 DEF NodeAnswers
  <1>7. Rank(c.version) \in Nat /\ Rank(server.version) \in Nat
    BY <1>2, ContextFields, RankOfProtocol, RankOfNode
  <1>8. \/ Rank(c.version) > Rank(server.version) /\ wire' = Refusal(server.version, agreed, UNSUPPORTED_VERSION)
           /\ session' = <<>>
        \/ wire' = Refusal(server.version, agreed, CLIENT_STATUS_AUTH_FAILURE) /\ session' = <<>>
        \/ ~(Rank(c.version) > Rank(server.version)) /\ session' = <<agreed>>
           /\ wire' = Consent(FeaturesOf(c) \cap server.features, agreed)
    BY <1>3, <1>4, <1>5 DEF NodeAnswers
  <1> HIDE DEF agreed
  <1>9. AnsweredInv'
    <2>1. ctx'[1] = c /\ server' = server /\ agreed = Agreement(ctx'[1], server'.features)
      BY <1>1, <1>6 DEF agreed
    <2>2. CASE Rank(c.version) > Rank(server.version) /\ wire' = Refusal(server.version, agreed, UNSUPPORTED_VERSION)
               /\ session' = <<>>
      BY <2>1, <2>2, <1>7 DEF AnsweredInv, RefusedWith
    <2>3. CASE wire' = Refusal(server.version, agreed, CLIENT_STATUS_AUTH_FAILURE) /\ session' = <<>>
      BY <2>1, <2>3 DEF AnsweredInv, RefusedWith
    <2>4. CASE ~(Rank(c.version) > Rank(server.version)) /\ session' = <<agreed>>
               /\ wire' = Consent(FeaturesOf(c) \cap server.features, agreed)
      BY <2>1, <2>4, <1>7 DEF AnsweredInv, Accepted
    <2> QED BY <1>8, <2>2, <2>3, <2>4
  <1>10. ContextInv'
    BY <1>1, <1>6 DEF HandshakeInv, ContextInv
  <1>11. AskedInv' /\ SessionAgreed'
    BY <1>6 DEF AskedInv, SessionAgreed
  <1> QED BY <1>9, <1>10, <1>11 DEF HandshakeInv

\* A connection that fails in whatever context the client had.
LEMMA FailStep ==
  ASSUME HandshakeInv, NEW c, c = <<>> \/ c = ctx, ConnectionFails(c), UNCHANGED <<client, server>>
  PROVE  HandshakeInv'
  <1>1. conn' = "down" /\ ctx' = c
    BY DEF ConnectionFails
  <1>2. ContextInv'
    BY <1>1 DEF HandshakeInv, ContextInv
  <1>3. AskedInv' /\ AnsweredInv' /\ SessionAgreed'
    BY <1>1 DEF AskedInv, AnsweredInv, SessionAgreed
  <1> QED BY <1>2, <1>3 DEF HandshakeInv

\* The client reads one of three answers, and each as it was meant.
LEMMA AnswerIsRead ==
  ASSUME HandshakeInv, conn = "answered", NEW c \in Contexts, ctx = <<c>>
  PROVE  LET agreed == Agreement(c, server.features)
             response == ReadResponse(wire, ctx[1], client)
         IN /\ client \in Clients /\ server \in Nodes
            /\ \/ /\ Rank(c.version) <= Rank(server.version) /\ session = <<agreed>>
                  /\ response = [op_code |-> 1, features |-> agreed.features]
               \/ /\ Rank(server.version) < Rank(c.version) /\ session = <<>>
                  /\ response = [op_code |-> 0, expected |-> server.version, client_status |-> UNSUPPORTED_VERSION]
               \/ /\ session = <<>>
                  /\ response = [op_code |-> 0, expected |-> server.version,
                                 client_status |-> CLIENT_STATUS_AUTH_FAILURE]
  <1> DEFINE agreed == Agreement(c, server.features)
             response == ReadResponse(wire, ctx[1], client)
  <1>1. client \in Clients /\ server \in Nodes /\ ctx[1] = c
    BY DEF HandshakeInv, ContextInv
  <1>2. CASE Accepted
    <2>1. wire = Consent(FeaturesOf(c) \cap server.features, agreed) /\ session = <<agreed>>
          /\ Rank(c.version) <= Rank(server.version)
      BY <1>1, <1>2 DEF Accepted
    <2>2. response = [op_code |-> 1, features |-> agreed.features]
      BY <1>1, <2>1, ConsentIsRead
    <2> QED BY <1>1, <2>1, <2>2
  <1>3. ASSUME NEW status \in {UNSUPPORTED_VERSION, CLIENT_STATUS_AUTH_FAILURE}, RefusedWith(status)
        PROVE  session = <<>> /\ response = [op_code |-> 0, expected |-> server.version, client_status |-> status]
    <2>1. wire = Refusal(server.version, agreed, status) /\ session = <<>>
      BY <1>1, <1>3 DEF RefusedWith
    <2> QED BY <1>1, <2>1, RefusalIsRead
  <1>4. CASE RefusedWith(UNSUPPORTED_VERSION) /\ Rank(server.version) < Rank(ctx[1].version)
    BY <1>1, <1>3, <1>4
  <1>5. CASE RefusedWith(CLIENT_STATUS_AUTH_FAILURE)
    BY <1>1, <1>3, <1>5
  <1> QED BY <1>2, <1>4, <1>5 DEF HandshakeInv, AnsweredInv

\* What the end of a handshake can be: the session that was agreed, an older version that both have, or none.
LEMMA HandshakeEnd ==
  ASSUME HandshakeInv, FinishHandshake, NEW c \in Contexts, ctx = <<c>>
  PROVE  LET agreed == Agreement(c, server.features)
         IN /\ UNCHANGED <<client, server>>
            /\ \/ /\ conn' = "up" /\ ctx' = <<agreed>> /\ session' = <<agreed>>
                  /\ Rank(c.version) <= Rank(server.version)
               \/ /\ server.version \in PROTOCOLS /\ Rank(server.version) < Rank(c.version)
                  /\ Attempt(WithVersion(c, server.version))
               \/ ConnectionFails(ctx)
  <1> DEFINE agreed == Agreement(c, server.features)
             response == ReadResponse(wire, ctx[1], client)
  <1>1. conn = "answered" /\ HandshakeEnds(response) /\ UNCHANGED <<client, server>> /\ ctx[1] = c
    BY DEF FinishHandshake
  <1>2. \/ /\ Rank(c.version) <= Rank(server.version) /\ session = <<agreed>>
           /\ response = [op_code |-> 1, features |-> agreed.features]
        \/ /\ Rank(server.version) < Rank(c.version)
           /\ response = [op_code |-> 0, expected |-> server.version, client_status |-> UNSUPPORTED_VERSION]
        \/ response = [op_code |-> 0, expected |-> server.version, client_status |-> CLIENT_STATUS_AUTH_FAILURE]
    BY <1>1, AnswerIsRead
  <1>3. WithFeatures(c, agreed.features) = agreed
    BY AgreementIsContext
  <1> HIDE DEF agreed, response
  <1>4. CASE /\ Rank(c.version) <= Rank(server.version) /\ session = <<agreed>>
             /\ response = [op_code |-> 1, features |-> agreed.features]
    <2>1. response.op_code # 0 /\ response.features = agreed.features
      BY <1>4
    <2>2. OnHandshakeSuccess(response) /\ conn' = "up" /\ session' = session
      BY <1>1, <2>1 DEF HandshakeEnds
    <2>3. ctx' = <<agreed>>
      BY <1>1, <1>3, <2>1, <2>2 DEF OnHandshakeSuccess
    <2> QED BY <1>1, <1>4, <2>2, <2>3 DEF agreed
  <1>5. CASE /\ Rank(server.version) < Rank(c.version)
             /\ response = [op_code |-> 0, expected |-> server.version, client_status |-> UNSUPPORTED_VERSION]
    <2>1. response.op_code = 0 /\ response.expected = server.version
      BY <1>5
    <2> QED BY <1>1, <1>5, <2>1 DEF HandshakeEnds
  <1>6. CASE response = [op_code |-> 0, expected |-> server.version, client_status |-> CLIENT_STATUS_AUTH_FAILURE]
    <2>1. response.op_code = 0 /\ response.client_status = CLIENT_STATUS_AUTH_FAILURE
      BY <1>6
    <2> QED BY <1>1, <2>1 DEF HandshakeEnds
  <1> QED BY <1>2, <1>4, <1>5, <1>6

LEMMA FinishStep ==
  ASSUME HandshakeInv, FinishHandshake PROVE HandshakeInv'
  <1>1. PICK c \in Contexts : ctx = <<c>>
    BY DEF HandshakeInv, ContextInv, FinishHandshake
  <1> DEFINE agreed == Agreement(c, server.features)
  <1>2. UNCHANGED <<client, server>>
    BY DEF FinishHandshake
  <1>3. ASSUME conn' = "up", ctx' = <<agreed>>, session' = <<agreed>>, Rank(c.version) <= Rank(server.version)
        PROVE  HandshakeInv'
    <2>1. /\ agreed \in Contexts /\ agreed.version = c.version
          /\ agreed.features # <<>> => agreed.features[1] \subseteq server.features
      BY AgreementIsContext
    <2> HIDE DEF agreed
    <2>2. ctx'[1] = agreed
      BY <1>3
    <2>3. ContextInv'
      BY <1>2, <1>3, <2>1 DEF HandshakeInv, ContextInv
    <2>4. SessionAgreed'
      BY <1>2, <1>3, <2>1, <2>2 DEF SessionAgreed
    <2>5. AskedInv' /\ AnsweredInv'
      BY <1>3 DEF AskedInv, AnsweredInv
    <2> QED BY <2>3, <2>4, <2>5 DEF HandshakeInv
  <1>4. ASSUME server.version \in PROTOCOLS, Rank(server.version) < Rank(c.version),
               Attempt(WithVersion(c, server.version))
        PROVE  HandshakeInv'
    <2>1. WithVersion(c, server.version) \in Contexts
      BY <1>4, OlderVersion
    <2> QED BY <1>2, <1>4, <2>1, AttemptStep
  <1>5. ASSUME ConnectionFails(ctx) PROVE HandshakeInv'
    BY <1>2, <1>5, FailStep
  <1> QED BY <1>1, <1>3, <1>4, <1>5, HandshakeEnd

\* The invariant is inductive: one case for each step of the handshake, of a loss and of a replacement.
LEMMA HandshakeStep ==
  HandshakeInv /\ [HandshakeNext]_<<connection, wire>> => HandshakeInv'
  <1> SUFFICES ASSUME HandshakeInv, [HandshakeNext]_<<connection, wire>> PROVE HandshakeInv'
    OBVIOUS
  <1>1. CASE Connect
    BY <1>1, ConnectStep
  <1>2. CASE NodeAnswersHandshake
    BY <1>2, AnswerStep
  <1>3. CASE FinishHandshake
    BY <1>3, FinishStep
  <1>4. CASE LoseHandshake
    BY <1>4, FailStep DEF LoseHandshake
  <1>5. CASE LoseConnection
    <2>1. conn' = "down" /\ ContextInv'
      BY <1>5 DEF LoseConnection, HandshakeInv, ContextInv
    <2> QED BY <2>1 DEF HandshakeInv, AskedInv, AnsweredInv, SessionAgreed
  <1>6. CASE Replace
    <2>1. conn' = "down" /\ ContextInv'
      BY <1>6 DEF Replace, HandshakeInv, ContextInv
    <2> QED BY <2>1 DEF HandshakeInv, AskedInv, AnsweredInv, SessionAgreed
  <1>7. CASE Talk
    <2>1. conn = "up" /\ UNCHANGED <<client, server, ctx, session, conn>>
      BY <1>7 DEF Talk, connection
    <2>2. ContextInv' /\ SessionAgreed'
      BY <2>1 DEF HandshakeInv, ContextInv, SessionAgreed
    <2>3. AskedInv' /\ AnsweredInv'
      BY <2>1 DEF AskedInv, AnsweredInv
    <2> QED BY <2>2, <2>3 DEF HandshakeInv
  <1>8. CASE UNCHANGED <<connection, wire>>
    BY <1>8 DEF connection, HandshakeInv, ContextInv, AskedInv, AnsweredInv, Accepted, RefusedWith, SessionAgreed
  <1> QED BY <1>1, <1>2, <1>3, <1>4, <1>5, <1>6, <1>7, <1>8 DEF HandshakeNext

\* What is on its way in a handshake is what the client asked or what this node answered to it, and the
\* context is one that the setters of ProtocolContext leave (connect, _connect_version).
THEOREM HandshakeInvariant == HandshakeSpec => []HandshakeInv
  <1>1. HandshakeInit => HandshakeInv
    BY DEF HandshakeInit, HandshakeInv, ContextInv, AskedInv, AnsweredInv, SessionAgreed
  <1> QED BY <1>1, HandshakeStep, PTL DEF HandshakeSpec

\* The client lays out its messages by exactly what the node agreed to, in every session after any
\* number of fallbacks, losses and replacements of the node (_on_handshake_success, connect).
THEOREM SessionsAgree == HandshakeSpec => []SessionAgreed
  <1>1. HandshakeInv => SessionAgreed
    BY DEF HandshakeInv
  <1> QED BY <1>1, HandshakeInvariant, PTL

\* Each attempt of one connect() after the first asks for an older version than the one before it, so
\* that the fallback of connect() ends after as many attempts as there are versions.
FallbackDescends ==
  [][conn = "answered" /\ conn' = "handshake" => Rank(ctx'[1].version) < Rank(ctx[1].version)]_<<connection, wire>>
\* So the loop of connect() over the versions descends, whichever nodes answer it.
THEOREM FallbackEnds == HandshakeSpec => FallbackDescends
  <1>1. ASSUME HandshakeInv, [HandshakeNext]_<<connection, wire>>, conn = "answered", conn' = "handshake"
        PROVE  Rank(ctx'[1].version) < Rank(ctx[1].version)
    <2>1. PICK c \in Contexts : ctx = <<c>>
      BY <1>1 DEF HandshakeInv, ContextInv
    <2>2. FinishHandshake
      BY <1>1 DEF HandshakeNext, Connect, NodeAnswersHandshake, LoseHandshake, ConnectionFails, LoseConnection,
                  Replace, Talk, connection
    <2>3. /\ server.version \in PROTOCOLS /\ Rank(server.version) < Rank(c.version)
          /\ Attempt(WithVersion(c, server.version))
      BY <1>1, <2>1, <2>2, HandshakeEnd DEF ConnectionFails
    <2>4. WithVersion(c, server.version).version = server.version
      BY <2>3, OlderVersion
    <2> QED BY <2>1, <2>3, <2>4 DEF Attempt
  <1>2. HandshakeInv /\ [HandshakeNext]_<<connection, wire>> =>
          [conn = "answered" /\ conn' = "handshake" =>
             Rank(ctx'[1].version) < Rank(ctx[1].version)]_<<connection, wire>>
    BY <1>1
  <1> QED BY <1>2, HandshakeInvariant, PTL DEF HandshakeSpec, FallbackDescends

\* While a client keeps its context, the context never takes on a newer version or another feature,
\* whatever node answers: a cluster that is upgraded is used as the old one until a connect() that
\* finds no context (the setters of ProtocolContext in _on_handshake_success and the fallback).
ContextOnlyShrinks ==
  [][ctx # <<>> /\ ctx' # <<>> =>
       /\ Rank(ctx'[1].version) <= Rank(ctx[1].version)
       /\ FeaturesOf(ctx'[1]) \subseteq FeaturesOf(ctx[1])]_<<connection, wire>>
\* So no answer of a node makes the client use more than its own context had.
THEOREM ContextsOnlyShrink == HandshakeSpec => ContextOnlyShrinks
  <1> DEFINE Smaller == /\ Rank(ctx'[1].version) <= Rank(ctx[1].version)
                        /\ FeaturesOf(ctx'[1]) \subseteq FeaturesOf(ctx[1])
  <1>1. ASSUME HandshakeInv, [HandshakeNext]_<<connection, wire>>, ctx # <<>>, ctx' # <<>> PROVE Smaller
    <2>1. PICK c \in Contexts : ctx = <<c>>
      BY <1>1 DEF HandshakeInv, ContextInv
    <2>2. Rank(c.version) \in Nat
      BY ContextFields, RankOfProtocol
    <2>3. ASSUME ctx' = ctx PROVE Smaller
      BY <2>1, <2>2, <2>3
    <2>4. CASE FinishHandshake
      <3>1. CASE ctx' = <<Agreement(c, server.features)>>
        BY <2>1, <2>2, <3>1, AgreementIsContext
      <3>2. CASE /\ server.version \in PROTOCOLS /\ Rank(server.version) < Rank(c.version)
                 /\ Attempt(WithVersion(c, server.version))
        <4>1. /\ WithVersion(c, server.version).version = server.version
              /\ FeaturesOf(WithVersion(c, server.version)) \subseteq FeaturesOf(c)
          BY <3>2, OlderVersion
        <4>2. ctx'[1] = WithVersion(c, server.version) /\ Rank(server.version) \in Nat
          BY <3>2, RankOfProtocol DEF Attempt
        <4> QED BY <2>1, <2>2, <3>2, <4>1, <4>2
      <3>3. CASE ConnectionFails(ctx)
        BY <2>3, <3>3 DEF ConnectionFails
      <3> QED BY <1>1, <2>1, <2>4, <3>1, <3>2, <3>3, HandshakeEnd
    <2>5. CASE Connect
      <3>1. ctx' = ctx
        BY <2>1, <2>5 DEF Connect, Attempt
      <3> QED BY <2>3, <3>1
    <2>6. CASE LoseHandshake
      <3>1. ctx' = ctx
        BY <1>1, <2>6 DEF LoseHandshake, ConnectionFails
      <3> QED BY <2>3, <3>1
    <2>7. CASE \/ NodeAnswersHandshake \/ LoseConnection \/ Replace \/ Talk \/ UNCHANGED <<connection, wire>>
      <3>1. ctx' = ctx
        BY <2>7 DEF NodeAnswersHandshake, NodeAnswers, LoseConnection, Replace, Talk, connection
      <3> QED BY <2>3, <3>1
    <2> HIDE DEF Smaller
    <2> QED BY <1>1, <2>4, <2>5, <2>6, <2>7 DEF HandshakeNext
  <1>2. HandshakeInv /\ [HandshakeNext]_<<connection, wire>> =>
          [ctx # <<>> /\ ctx' # <<>> => Smaller]_<<connection, wire>>
    BY <1>1
  <1> QED BY <1>2, HandshakeInvariant, PTL DEF HandshakeSpec, ContextOnlyShrinks

(***************************************************************************)
(* The events of a query.                                                  *)
(***************************************************************************)
EventsInv ==
  /\ debug \in BOOLEAN
  /\ step \in {"idle", "sent", "answered", "returned", "local"}
  /\ step = "idle" => heard = <<>>
  /\ step \in {"sent", "answered"} => heard = <<"start">>
  /\ EveryQueryReported

LEMMA Reported ==
  ASSUME NEW how PROVE Ended(<<"start">>, how) = IF debug THEN <<"start", how>> ELSE <<"start">>
  <1> DEFINE S == {"start", how}
  <1>1. <<"start">> \in Seq(S) /\ how \in S /\ <<"start", how>> \in Seq(S)
    OBVIOUS
  <1> HIDE DEF S
  <1>2. Append(<<"start">>, how) = <<"start", how>>
    <2>1. /\ Append(<<"start">>, how) \in Seq(S) /\ Len(Append(<<"start">>, how)) = 2
          /\ Append(<<"start">>, how)[1] = "start" /\ Append(<<"start">>, how)[2] = how
      BY <1>1, AppendProperties
    <2>2. Len(<<"start", how>>) = 2 /\ <<"start", how>>[1] = "start" /\ <<"start", how>>[2] = how
      OBVIOUS
    <2>3. \A i \in 1 .. Len(Append(<<"start">>, how)) : Append(<<"start">>, how)[i] = <<"start", how>>[i]
      BY <2>1, <2>2
    <2>4. Len(Append(<<"start">>, how)) = Len(<<"start", how>>)
      BY <2>1, <2>2
    <2> QED BY ONLY <1>1, <2>1, <2>3, <2>4, SeqEqual
  <1> QED BY <1>2 DEF Ended

\* The invariant is inductive: one case for each way in and out of Query.perform.
LEMMA EventsStep == EventsInv /\ [QueryNext]_query => EventsInv'
  <1> SUFFICES ASSUME EventsInv, [QueryNext]_query PROVE EventsInv'
    OBVIOUS
  <1>1. ASSUME NEW v, Refused(v) PROVE EventsInv'
    BY <1>1 DEF Refused, Object_, EventsInv, EveryQueryReported
  <1>2. ASSUME NEW v, AnsweredLocally(v) PROVE EventsInv'
    BY <1>2 DEF AnsweredLocally, EventsInv, EveryQueryReported
  <1>3. ASSUME NEW v, Unwritten(v) PROVE EventsInv'
    BY <1>3, Reported DEF Unwritten, Object_, EventsInv, EveryQueryReported
  <1>4. ASSUME NEW v, Succeeds(v) PROVE EventsInv'
    BY <1>4, Reported DEF Succeeds, Ends, EventsInv, EveryQueryReported
  <1>5. ASSUME NEW v, Fails(v) PROVE EventsInv'
    BY <1>5, Reported DEF Fails, Ends, EventsInv, EveryQueryReported
  <1>6. CASE Started \/ Answered \/ Taken
    BY <1>6 DEF Started, Answered, Taken, EventsInv, EveryQueryReported
  <1>7. CASE UNCHANGED query
    BY <1>7 DEF query, EventsInv, EveryQueryReported
  <1> QED BY <1>1, <1>2, <1>3, <1>4, <1>5, <1>6, <1>7 DEF QueryNext

\* Whatever way a query that was sent ends, the listeners hear its start, and at the DEBUG level its end
\* once and as its caller sees it; at the other levels they hear no end (Query.perform).
THEOREM QueriesAreReported == QuerySpec => []EveryQueryReported
  <1>1. QueryInit => EventsInv
    BY DEF QueryInit, EventsInv, EveryQueryReported
  <1>2. EventsInv => EveryQueryReported
    BY DEF EventsInv
  <1> QED BY <1>1, <1>2, EventsStep, PTL DEF QuerySpec

(***************************************************************************)
(* The buffer.                                                             *)
(***************************************************************************)
IsBuffer(b) == Len(b) \in Nat /\ b = [i \in 1 .. Len(b) |-> b[i]]
\* A stream that nothing has stopped.
IsStream(s) ==
  /\ s = [buf |-> s.buf, pos |-> s.pos, err |-> NoError, compact |-> s.compact]
  /\ IsBuffer(s.buf) /\ s.pos \in Nat
\* The field v of width w is at a place of a buffer.
Holds(buf, at, v, w) == at + w <= Len(buf) /\ \A i \in 1 .. w : buf[at + i] = <<v, i, w>>

LEMMA BufferInSeq ==
  ASSUME NEW b, IsBuffer(b), NEW S, \A i \in 1 .. Len(b) : b[i] \in S
  PROVE  b \in Seq(S)
  <1>1. b \in [1 .. Len(b) -> S]
    BY DEF IsBuffer
  <1> QED BY <1>1 DEF IsBuffer

LEMMA SeqIsBuffer ==
  ASSUME NEW S, NEW b \in Seq(S) PROVE IsBuffer(b)
  <1>1. Len(b) \in Nat /\ b \in [1 .. Len(b) -> S]
    BY LenProperties
  <1> QED BY <1>1 DEF IsBuffer

LEMMA FunctionIsBuffer ==
  ASSUME NEW n \in Nat, NEW b, NEW S, b \in [1 .. n -> S]
  PROVE  IsBuffer(b) /\ Len(b) = n
  <1>1. b \in Seq(S) /\ Len(b) = n
    OBVIOUS
  <1> QED BY <1>1, SeqIsBuffer

LEMMA BytesOfField ==
  ASSUME NEW v, NEW w \in Nat
  PROVE  /\ IsBuffer(Bytes(v, w)) /\ Len(Bytes(v, w)) = w
         /\ \A i \in 1 .. w : Bytes(v, w)[i] = <<v, i, w>>
  <1> DEFINE S == {<<v, i, w>> : i \in 1 .. w}
  <1>1. Bytes(v, w) \in [1 .. w -> S]
    BY DEF Bytes
  <1>2. \A i \in 1 .. w : Bytes(v, w)[i] = <<v, i, w>>
    BY DEF Bytes
  <1> HIDE DEF S
  <1> QED BY <1>1, <1>2, FunctionIsBuffer

\* A field is read back as the value that was written, from the bytes of the field alone.
LEMMA WholeField ==
  ASSUME NEW v, NEW w \in Nat, w > 0 PROVE Whole(Bytes(v, w), w) = v
  <1>1. Bytes(v, w)[1] = <<v, 1, w>>
    BY BytesOfField
  <1>2. Len(Bytes(v, w)) = w
    BY BytesOfField
  <1>3. Bytes(v, w)[1][1] = v
    BY <1>1
  <1> QED BY <1>1, <1>2, <1>3 DEF Whole

LEMMA FieldIsRead ==
  ASSUME NEW s, IsBuffer(s.buf), NEW at \in Nat, NEW v, NEW w \in Nat, w > 0, Holds(s.buf, at, v, w)
  PROVE  FieldAt(s, at, w) = v
  <1>0. Len(s.buf) \in Nat /\ at + w <= Len(s.buf)
    BY DEF IsBuffer, Holds
  <1> DEFINE S == {s.buf[i] : i \in 1 .. Len(s.buf)}
             slice == SubSeq(s.buf, at + 1, at + w)
  <1>1. \A i \in at + 1 .. at + w : s.buf[i] \in S
    BY <1>0
  <1> HIDE DEF S
  <1>2. /\ slice \in Seq(S) /\ Len(slice) = w
        /\ \A i \in 1 .. w : slice[i] = s.buf[at + i]
    <2>1. /\ slice \in Seq(S)
          /\ Len(slice) = IF at + 1 <= at + w THEN (at + w) - (at + 1) + 1 ELSE 0
          /\ \A i \in 1 .. (at + w) - (at + 1) + 1 : slice[i] = s.buf[at + 1 + i - 1]
      BY <1>1, SubSeqProperties, at + 1 \in Int, at + w \in Int
    <2> QED BY <2>1
  <1>3. slice = Bytes(v, w)
    <2>1. IsBuffer(slice)
      BY <1>2, SeqIsBuffer
    <2>2. \A i \in 1 .. w : slice[i] = Bytes(v, w)[i]
      BY <1>2, BytesOfField DEF Holds
    <2>3. IsBuffer(Bytes(v, w)) /\ Len(Bytes(v, w)) = w /\ Len(slice) = w
      BY <1>2, BytesOfField
    <2> HIDE DEF slice
    <2> QED BY <2>1, <2>2, <2>3 DEF IsBuffer
  <1>4. Slice(s, at, w) = slice
    BY <1>0 DEF Slice
  <1> QED BY <1>3, <1>4, WholeField DEF FieldAt

LEMMA Concatenated ==
  ASSUME NEW a, IsBuffer(a), NEW b, IsBuffer(b)
  PROVE  /\ IsBuffer(a \o b) /\ Len(a \o b) = Len(a) + Len(b)
         /\ \A i \in 1 .. Len(a) : (a \o b)[i] = a[i]
         /\ \A i \in 1 .. Len(b) : (a \o b)[Len(a) + i] = b[i]
  <1> DEFINE S == {a[i] : i \in 1 .. Len(a)} \cup {b[i] : i \in 1 .. Len(b)}
  <1>1. (\A i \in 1 .. Len(a) : a[i] \in S) /\ (\A i \in 1 .. Len(b) : b[i] \in S)
    OBVIOUS
  <1> HIDE DEF S
  <1>2. a \in Seq(S) /\ b \in Seq(S)
    BY <1>1, BufferInSeq
  <1>3. /\ a \o b \in Seq(S) /\ Len(a \o b) = Len(a) + Len(b)
        /\ \A i \in 1 .. Len(a) + Len(b) : (a \o b)[i] = IF i <= Len(a) THEN a[i] ELSE b[i - Len(a)]
    BY ONLY <1>2, ConcatProperties
  <1>4. Len(a) \in Nat /\ Len(b) \in Nat
    BY DEF IsBuffer
  <1>5. IsBuffer(a \o b)
    BY <1>3, SeqIsBuffer
  <1> QED BY <1>3, <1>4, <1>5

LEMMA Part ==
  ASSUME NEW b, IsBuffer(b), NEW m \in Nat, NEW n \in Nat, n <= Len(b), m >= 1, m <= n + 1
  PROVE  /\ IsBuffer(SubSeq(b, m, n)) /\ Len(SubSeq(b, m, n)) = n - m + 1
         /\ \A i \in 1 .. n - m + 1 : SubSeq(b, m, n)[i] = b[m + i - 1]
  <1> DEFINE S == {b[i] : i \in 1 .. Len(b)}
  <1>1. \A i \in m .. n : b[i] \in S
    BY DEF IsBuffer
  <1> HIDE DEF S
  <1>2. /\ SubSeq(b, m, n) \in Seq(S)
        /\ Len(SubSeq(b, m, n)) = IF m <= n THEN n - m + 1 ELSE 0
        /\ \A i \in 1 .. n - m + 1 : SubSeq(b, m, n)[i] = b[m + i - 1]
    BY <1>1, SubSeqProperties, m \in Int, n \in Int
  <1>3. IsBuffer(SubSeq(b, m, n))
    BY <1>2, SeqIsBuffer
  <1> QED BY <1>2, <1>3

LEMMA NoPart ==
  ASSUME NEW b, NEW m \in Int, NEW n \in Int, n < m
  PROVE  IsBuffer(SubSeq(b, m, n)) /\ Len(SubSeq(b, m, n)) = 0
  <1>1. SubSeq(b, m, n) = <<>>
    BY SubSeqEmpty
  <1>2. <<>> \in Seq({}) /\ Len(<<>>) = 0
    OBVIOUS
  <1> QED BY <1>1, <1>2, SeqIsBuffer

LEMMA Zeros ==
  ASSUME NEW n \in Nat
  PROVE  IsBuffer(Pads(n)) /\ Len(Pads(n)) = n /\ \A i \in 1 .. n : Pads(n)[i] = Pad
  <1>1. Pads(n) \in [1 .. n -> {Pad}]
    BY DEF Pads
  <1> QED BY <1>1, FunctionIsBuffer DEF Pads

\* write: the bytes take their place, what is before and behind stays, and a gap is filled with zeros
\* (a BytesIO).
LEMMA OverwrittenBuffer ==
  ASSUME NEW b, IsBuffer(b), NEW bytes, IsBuffer(bytes), NEW at \in Nat
  PROVE  LET o == Overwritten(b, at, bytes)
         IN /\ IsBuffer(o)
            /\ Len(o) = IF at + Len(bytes) <= Len(b) THEN Len(b) ELSE at + Len(bytes)
            /\ \A i \in 1 .. Len(bytes) : o[at + i] = bytes[i]
            /\ \A i \in 1 .. Len(b) : i <= at \/ i > at + Len(bytes) => o[i] = b[i]
  <1> DEFINE front == IF at <= Len(b) THEN SubSeq(b, 1, at) ELSE b \o Pads(at - Len(b))
             rest == SubSeq(b, at + Len(bytes) + 1, Len(b))
             n == Len(bytes)
             k == IF at + n <= Len(b) THEN Len(b) - (at + n) ELSE 0
  <1>0. Len(b) \in Nat /\ n \in Nat /\ k \in Nat
    BY DEF IsBuffer
  <1>1. /\ IsBuffer(front) /\ Len(front) = at
        /\ \A i \in 1 .. Len(b) : i <= at => front[i] = b[i]
    <2>1. CASE at <= Len(b)
      <3>1. /\ IsBuffer(SubSeq(b, 1, at)) /\ Len(SubSeq(b, 1, at)) = at - 1 + 1
            /\ \A i \in 1 .. at - 1 + 1 : SubSeq(b, 1, at)[i] = b[1 + i - 1]
        BY <2>1, <1>0, Part, 1 \in Nat, 1 >= 1, 1 <= at + 1
      <3> QED BY <2>1, <3>1, <1>0
    <2>2. CASE ~(at <= Len(b))
      <3>1. at - Len(b) \in Nat
        BY <2>2, <1>0
      <3>2. IsBuffer(Pads(at - Len(b))) /\ Len(Pads(at - Len(b))) = at - Len(b)
        BY <3>1, Zeros
      <3>3. /\ IsBuffer(b \o Pads(at - Len(b))) /\ Len(b \o Pads(at - Len(b))) = Len(b) + Len(Pads(at - Len(b)))
            /\ \A i \in 1 .. Len(b) : (b \o Pads(at - Len(b)))[i] = b[i]
        BY <3>2, Concatenated
      <3> QED BY <2>2, <3>2, <3>3, <1>0
    <2> QED BY <2>1, <2>2
  <1>2. /\ IsBuffer(rest) /\ Len(rest) = k
        /\ \A i \in 1 .. k : rest[i] = b[at + n + i]
    <2>1. CASE at + n <= Len(b)
      <3>1. /\ IsBuffer(rest) /\ Len(rest) = Len(b) - (at + n + 1) + 1
            /\ \A i \in 1 .. Len(b) - (at + n + 1) + 1 : rest[i] = b[(at + n + 1) + i - 1]
        BY <2>1, <1>0, Part, at + n + 1 \in Nat, at + n + 1 >= 1, at + n + 1 <= Len(b) + 1
      <3> QED BY <2>1, <3>1, <1>0
    <2>2. CASE ~(at + n <= Len(b))
      <3>1. at + n + 1 \in Int /\ Len(b) \in Int /\ Len(b) < at + n + 1
        BY <2>2, <1>0
      <3>2. IsBuffer(rest) /\ Len(rest) = 0
        BY <3>1, NoPart
      <3> QED BY <2>2, <3>2
    <2> QED BY <2>1, <2>2
  <1> DEFINE o == Overwritten(b, at, bytes)
  <1>3. o = (front \o bytes) \o rest
    BY DEF Overwritten
  <1> HIDE DEF front, rest, k, n
  <1>4. /\ IsBuffer(front \o bytes) /\ Len(front \o bytes) = at + n
        /\ \A i \in 1 .. at : (front \o bytes)[i] = front[i]
        /\ \A i \in 1 .. n : (front \o bytes)[at + i] = bytes[i]
    <2>1. /\ IsBuffer(front \o bytes) /\ Len(front \o bytes) = Len(front) + Len(bytes)
          /\ \A i \in 1 .. Len(front) : (front \o bytes)[i] = front[i]
          /\ \A i \in 1 .. Len(bytes) : (front \o bytes)[Len(front) + i] = bytes[i]
      <3>1. IsBuffer(front) /\ IsBuffer(bytes)
        BY <1>1
      <3> QED BY ONLY <3>1, Concatenated
    <2> QED BY <1>1, <2>1 DEF n
  <1> HIDE DEF o
  <1>5. /\ IsBuffer(o) /\ Len(o) = at + n + k
        /\ \A i \in 1 .. at + n : o[i] = (front \o bytes)[i]
        /\ \A i \in 1 .. k : o[at + n + i] = rest[i]
    <2>1. /\ IsBuffer((front \o bytes) \o rest)
          /\ Len((front \o bytes) \o rest) = Len(front \o bytes) + Len(rest)
          /\ \A i \in 1 .. Len(front \o bytes) : ((front \o bytes) \o rest)[i] = (front \o bytes)[i]
          /\ \A i \in 1 .. Len(rest) : ((front \o bytes) \o rest)[Len(front \o bytes) + i] = rest[i]
      <3>1. IsBuffer(front \o bytes) /\ IsBuffer(rest)
        BY <1>2, <1>4
      <3> QED BY ONLY <3>1, Concatenated
    <2> QED BY <1>2, <1>3, <1>4, <2>1
  <1>6. Len(o) = IF at + n <= Len(b) THEN Len(b) ELSE at + n
    <2>1. Len(o) = at + n + k
      BY <1>5
    <2>2. CASE at + n <= Len(b)
      BY <2>1, <2>2, <1>0 DEF k
    <2>3. CASE ~(at + n <= Len(b))
      BY <2>1, <2>3, <1>0 DEF k
    <2> QED BY <2>2, <2>3
  <1>7. \A i \in 1 .. n : o[at + i] = bytes[i]
    <2>1. ASSUME NEW i \in 1 .. n PROVE o[at + i] = bytes[i]
      <3>1. at + i \in 1 .. at + n
        BY <1>0
      <3> QED BY <3>1, <1>4, <1>5
    <2> QED BY <2>1
  <1>8. ASSUME NEW i \in 1 .. Len(b), i <= at PROVE o[i] = b[i]
    <2>1. i \in 1 .. at /\ i \in 1 .. at + n
      BY <1>8, <1>0
    <2> QED BY <2>1, <1>1, <1>4, <1>5
  <1>9. ASSUME NEW i \in 1 .. Len(b), i > at + n PROVE o[i] = b[i]
    <2>1. i - (at + n) \in 1 .. k
      BY <1>9, <1>0 DEF k
    <2>2. at + n + (i - (at + n)) = i
      BY <1>0
    <2>3. o[at + n + (i - (at + n))] = rest[i - (at + n)] /\ rest[i - (at + n)] = b[at + n + (i - (at + n))]
      BY <2>1, <1>2, <1>5
    <2> QED BY <2>2, <2>3
  <1> QED BY <1>5, <1>6, <1>7, <1>8, <1>9 DEF n, o

\* What Put does to a stream: the field is where the stream was, every other field stays.
LEMMA PutField ==
  ASSUME NEW s, IsStream(s), NEW v, NEW w \in Nat
  PROVE  LET t == Put(s, v, w)
         IN /\ IsStream(t) /\ t.pos = s.pos + w /\ t.compact = s.compact
            /\ Len(t.buf) = IF s.pos + w <= Len(s.buf) THEN Len(s.buf) ELSE s.pos + w
            /\ Holds(t.buf, s.pos, v, w)
            /\ \A i \in 1 .. Len(s.buf) : i <= s.pos \/ i > s.pos + w => t.buf[i] = s.buf[i]
  <1> DEFINE o == Overwritten(s.buf, s.pos, Bytes(v, w))
             t == Put(s, v, w)
  <1>1. IsBuffer(Bytes(v, w)) /\ Len(Bytes(v, w)) = w /\ \A i \in 1 .. w : Bytes(v, w)[i] = <<v, i, w>>
    BY BytesOfField
  <1>2. IsBuffer(s.buf) /\ s.pos \in Nat /\ Len(s.buf) \in Nat
    BY DEF IsStream, IsBuffer
  <1>3. /\ IsBuffer(o)
        /\ Len(o) = IF s.pos + w <= Len(s.buf) THEN Len(s.buf) ELSE s.pos + w
        /\ \A i \in 1 .. w : o[s.pos + i] = <<v, i, w>>
        /\ \A i \in 1 .. Len(s.buf) : i <= s.pos \/ i > s.pos + w => o[i] = s.buf[i]
    <2>1. /\ IsBuffer(o)
          /\ Len(o) = IF s.pos + Len(Bytes(v, w)) <= Len(s.buf) THEN Len(s.buf) ELSE s.pos + Len(Bytes(v, w))
          /\ \A i \in 1 .. Len(Bytes(v, w)) : o[s.pos + i] = Bytes(v, w)[i]
          /\ \A i \in 1 .. Len(s.buf) : i <= s.pos \/ i > s.pos + Len(Bytes(v, w)) => o[i] = s.buf[i]
      <3>1. IsBuffer(s.buf) /\ IsBuffer(Bytes(v, w)) /\ s.pos \in Nat
        BY <1>1, <1>2
      <3> QED BY ONLY <3>1, OverwrittenBuffer
    <2> HIDE DEF o
    <2> QED BY <1>1, <2>1
  <1> HIDE DEF o
  <1>4. t = [buf |-> o, pos |-> s.pos + w, err |-> NoError, compact |-> s.compact]
    <2>1. s.err = NoError /\ ~Raised(s)
      BY DEF IsStream, Raised
    <2>2. t = [s EXCEPT !.pos = s.pos + w, !.buf = o]
      BY <2>1, <1>1 DEF Put, Write, o
    <2>3. PICK b, p, c : s = [buf |-> b, pos |-> p, err |-> NoError, compact |-> c]
      BY DEF IsStream
    <2>4. [s EXCEPT !.pos = s.pos + w, !.buf = o] = [buf |-> o, pos |-> s.pos + w, err |-> NoError, compact |-> c]
      <3> DEFINE m == [s EXCEPT !.pos = s.pos + w]
                 p2 == s.pos + w
      <3>1. [s EXCEPT !.pos = s.pos + w, !.buf = o] = [m EXCEPT !.buf = o]
        OBVIOUS
      <3>2. m = [buf |-> b, pos |-> p2, err |-> NoError, compact |-> c]
        BY ONLY <2>3
      <3> HIDE DEF m, p2
      <3>3. [m EXCEPT !.buf = o] = [buf |-> o, pos |-> p2, err |-> NoError, compact |-> c]
        BY ONLY <3>2
      <3> QED BY <3>1, <3>3 DEF p2
    <2>5. s.compact = c
      BY ONLY <2>3
    <2> QED BY ONLY <2>2, <2>4, <2>5
  <1> HIDE DEF t
  <1>5. t.buf = o /\ t.pos = s.pos + w /\ t.compact = s.compact
    BY <1>4
  <1>6. IsStream(t)
    BY <1>2, <1>3, <1>4, <1>5 DEF IsStream
  <1>7. Holds(t.buf, s.pos, v, w)
    BY <1>2, <1>3, <1>5 DEF Holds
  <1> QED BY <1>3, <1>5, <1>6, <1>7 DEF t

\* At the end of a buffer, or behind it, a field is appended.
LEMMA PutLast ==
  ASSUME NEW s, IsStream(s), Len(s.buf) <= s.pos, NEW v, NEW w \in Nat
  PROVE  LET t == Put(s, v, w)
         IN /\ IsStream(t) /\ t.pos = s.pos + w /\ Len(t.buf) = s.pos + w /\ t.compact = s.compact
            /\ Holds(t.buf, s.pos, v, w)
            /\ \A u : \A at \in Nat, n \in Nat : Holds(s.buf, at, u, n) => Holds(t.buf, at, u, n)
  <1> DEFINE t == Put(s, v, w)
  <1>1. /\ IsStream(t) /\ t.pos = s.pos + w /\ t.compact = s.compact
        /\ Len(t.buf) = IF s.pos + w <= Len(s.buf) THEN Len(s.buf) ELSE s.pos + w
        /\ Holds(t.buf, s.pos, v, w)
        /\ \A i \in 1 .. Len(s.buf) : i <= s.pos \/ i > s.pos + w => t.buf[i] = s.buf[i]
    BY PutField
  <1> HIDE DEF t
  <1>2. s.pos \in Nat /\ Len(s.buf) \in Nat
    BY DEF IsStream, IsBuffer
  <1>3. Len(t.buf) = s.pos + w
    BY <1>1, <1>2
  <1>4. ASSUME NEW at \in Nat, NEW n \in Nat, NEW u, Holds(s.buf, at, u, n) PROVE Holds(t.buf, at, u, n)
    <2>1. at + n <= Len(s.buf)
      BY <1>4 DEF Holds
    <2>2. ASSUME NEW i \in 1 .. n PROVE t.buf[at + i] = <<u, i, n>>
      <3>1. at + i \in 1 .. Len(s.buf) /\ at + i <= s.pos
        BY <2>1, <1>2
      <3>2. s.buf[at + i] = <<u, i, n>>
        BY <1>4 DEF Holds
      <3> QED BY <1>1, <3>1, <3>2
    <2>3. at + n <= Len(t.buf)
      BY <1>2, <1>3, <2>1
    <2> QED BY ONLY <2>2, <2>3 DEF Holds
  <1> QED BY <1>1, <1>3, <1>4 DEF t

LEMMA PutAtEnd ==
  ASSUME NEW s, IsStream(s), s.pos = Len(s.buf), NEW v, NEW w \in Nat
  PROVE  LET t == Put(s, v, w)
         IN /\ IsStream(t) /\ t.pos = s.pos + w /\ Len(t.buf) = s.pos + w /\ t.compact = s.compact
            /\ Holds(t.buf, s.pos, v, w)
            /\ \A u : \A at \in Nat, n \in Nat : Holds(s.buf, at, u, n) => Holds(t.buf, at, u, n)
  <1>1. Len(s.buf) <= s.pos
    BY DEF IsStream
  <1> QED BY <1>1, PutLast

LEMMA HoldsInFront ==
  ASSUME NEW a, IsBuffer(a), NEW b, IsBuffer(b), NEW at \in Nat, NEW u, NEW n \in Nat, Holds(a, at, u, n)
  PROVE  Holds(a \o b, at, u, n)
  <1>1. /\ Len(a) \in Nat /\ Len(b) \in Nat /\ Len(a \o b) = Len(a) + Len(b)
        /\ \A i \in 1 .. Len(a) : (a \o b)[i] = a[i]
    BY Concatenated DEF IsBuffer
  <1>2. at + n <= Len(a) /\ \A i \in 1 .. n : a[at + i] = <<u, i, n>>
    BY DEF Holds
  <1>3. ASSUME NEW i \in 1 .. n PROVE (a \o b)[at + i] = <<u, i, n>>
    <2>1. at + i \in 1 .. Len(a)
      BY <1>1, <1>2
    <2> QED BY <1>1, <1>2, <2>1
  <1>4. at + n <= Len(a \o b)
    BY <1>1, <1>2
  <1> QED BY ONLY <1>3, <1>4 DEF Holds

LEMMA EmptyStream ==
  ASSUME NEW compact
  PROVE  IsStream(Empty(compact)) /\ Empty(compact).pos = 0 /\ Len(Empty(compact).buf) = 0
  <1>1. <<>> \in Seq({}) /\ Len(<<>>) = 0
    OBVIOUS
  <1>2. IsBuffer(<<>>)
    BY <1>1, SeqIsBuffer
  <1>3. Empty(compact) = [buf |-> <<>>, pos |-> 0, err |-> NoError, compact |-> compact]
    BY DEF Empty, Over
  <1> QED BY <1>1, <1>2, <1>3 DEF IsStream

(***************************************************************************)
(* The header of a response.                                               *)
(***************************************************************************)
Flags(topology, error) ==
  (IF topology # None THEN {"RHF_TOPOLOGY_CHANGED"} ELSE {}) \cup (IF error THEN {"RHF_ERROR"} ELSE {})
StatusAt(topology) == 14 + (IF topology # None THEN 12 ELSE 0)

LEMMA HeaderWritten ==
  ASSUME NEW c, NEW topology, NEW error \in BOOLEAN
  PROVE  LET h == PutHeader(c, topology, error)
         IN /\ IsBuffer(h.buf)
            /\ ~IsStatusFlagsSupported(c) =>
                 Len(h.buf) = 16 /\ Holds(h.buf, 12, Num(IF error THEN 1 ELSE 0), 4)
            /\ IsStatusFlagsSupported(c) =>
                 /\ Len(h.buf) = StatusAt(topology) + (IF error THEN 4 ELSE 0)
                 /\ Holds(h.buf, 12, <<"rhf", Flags(topology, error)>>, 2)
                 /\ topology # None => Holds(h.buf, 14, topology, 8)
                 /\ error => Holds(h.buf, StatusAt(topology), Num(1), 4)
  <1> DEFINE h == PutHeader(c, topology, error)
             nothing == Empty(FALSE)
             first == Put(nothing, Num(0), 4)
             headed == Put(first, <<"id", 0>>, 8)
             flagged == Put(headed, <<"rhf", Flags(topology, error)>>, 2)
             version == Put(flagged, topology, 8)
             told == IF topology # None THEN Put(version, Num(0), 4) ELSE flagged
  <1>1. h = IF ~IsStatusFlagsSupported(c) THEN Put(headed, Num(IF error THEN 1 ELSE 0), 4)
            ELSE IF error THEN Put(told, Num(1), 4) ELSE told
    BY DEF PutHeader, Flags
  <1>2. IsStream(first) /\ first.pos = 4 /\ Len(first.buf) = 4
    <2>1. IsStream(nothing) /\ nothing.pos = Len(nothing.buf) /\ nothing.pos = 0
      BY EmptyStream
    <2> HIDE DEF nothing
    <2>2. IsStream(first) /\ first.pos = nothing.pos + 4 /\ Len(first.buf) = nothing.pos + 4
      BY <2>1, PutAtEnd, 4 \in Nat
    <2> HIDE DEF first
    <2> QED BY <2>1, <2>2
  <1> HIDE DEF first
  <1>3. IsStream(headed) /\ headed.pos = 12 /\ Len(headed.buf) = 12
    <2>1. IsStream(headed) /\ headed.pos = first.pos + 8 /\ Len(headed.buf) = first.pos + 8
      BY <1>2, PutAtEnd, 8 \in Nat
    <2> QED BY <1>2, <2>1
  <1> HIDE DEF headed
  <1>4. /\ IsStream(flagged) /\ flagged.pos = 14 /\ Len(flagged.buf) = 14
        /\ Holds(flagged.buf, 12, <<"rhf", Flags(topology, error)>>, 2)
    <2>1. /\ IsStream(flagged) /\ flagged.pos = headed.pos + 2 /\ Len(flagged.buf) = headed.pos + 2
          /\ Holds(flagged.buf, headed.pos, <<"rhf", Flags(topology, error)>>, 2)
      BY <1>3, PutAtEnd, 2 \in Nat
    <2> QED BY <1>3, <2>1
  <1> HIDE DEF flagged
  <1>5. /\ IsStream(version) /\ version.pos = 22 /\ Len(version.buf) = 22
        /\ Holds(version.buf, 12, <<"rhf", Flags(topology, error)>>, 2)
        /\ Holds(version.buf, 14, topology, 8)
    <2>1. /\ IsStream(version) /\ version.pos = flagged.pos + 8 /\ Len(version.buf) = flagged.pos + 8
          /\ Holds(version.buf, flagged.pos, topology, 8)
          /\ \A u : \A at \in Nat, n \in Nat : Holds(flagged.buf, at, u, n) => Holds(version.buf, at, u, n)
      BY <1>4, PutAtEnd, 8 \in Nat
    <2> QED BY <1>4, <2>1
  <1> HIDE DEF version
  <1>6. /\ IsStream(told) /\ told.pos = StatusAt(topology) /\ Len(told.buf) = StatusAt(topology)
        /\ Holds(told.buf, 12, <<"rhf", Flags(topology, error)>>, 2)
        /\ topology # None => Holds(told.buf, 14, topology, 8)
    <2>1. CASE topology # None
      <3> DEFINE last == Put(version, Num(0), 4)
      <3>1. /\ IsStream(last) /\ last.pos = version.pos + 4 /\ Len(last.buf) = version.pos + 4
            /\ \A u : \A at \in Nat, n \in Nat : Holds(version.buf, at, u, n) => Holds(last.buf, at, u, n)
        BY <1>5, PutAtEnd, 4 \in Nat
      <3>2. told = last
        BY <2>1
      <3> HIDE DEF last, told
      <3> QED BY <1>5, <2>1, <3>1, <3>2 DEF StatusAt
    <2>2. CASE topology = None
      <3>1. told = flagged
        BY <2>2
      <3> HIDE DEF told
      <3> QED BY <1>4, <2>2, <3>1 DEF StatusAt
    <2> QED BY <2>1, <2>2
  <1> HIDE DEF told
  <1>7. StatusAt(topology) \in Nat
    BY DEF StatusAt
  <1> HIDE DEF h
  <1>8. CASE ~IsStatusFlagsSupported(c)
    <2> DEFINE status == Num(IF error THEN 1 ELSE 0)
               last == Put(headed, status, 4)
    <2>1. /\ IsStream(last) /\ last.pos = headed.pos + 4 /\ Len(last.buf) = headed.pos + 4
          /\ Holds(last.buf, headed.pos, status, 4)
      BY <1>3, PutAtEnd, 4 \in Nat
    <2>2. h = last
      BY <1>1, <1>8
    <2> HIDE DEF last
    <2>3. IsBuffer(h.buf) /\ Len(h.buf) = 16 /\ Holds(h.buf, 12, status, 4)
      BY <1>3, <2>1, <2>2 DEF IsStream
    <2> QED BY <1>8, <2>3 DEF h
  <1>9. CASE IsStatusFlagsSupported(c) /\ error
    <2> DEFINE last == Put(told, Num(1), 4)
    <2>1. /\ IsStream(last) /\ last.pos = told.pos + 4 /\ Len(last.buf) = told.pos + 4
          /\ Holds(last.buf, told.pos, Num(1), 4)
          /\ \A u : \A at \in Nat, n \in Nat : Holds(told.buf, at, u, n) => Holds(last.buf, at, u, n)
      BY <1>6, PutAtEnd, 4 \in Nat
    <2>2. h = last
      BY <1>1, <1>9
    <2> HIDE DEF last
    <2>3. /\ IsBuffer(h.buf) /\ Len(h.buf) = StatusAt(topology) + 4
          /\ Holds(h.buf, 12, <<"rhf", Flags(topology, error)>>, 2)
          /\ topology # None => Holds(h.buf, 14, topology, 8)
          /\ Holds(h.buf, StatusAt(topology), Num(1), 4)
      BY <1>6, <1>7, <2>1, <2>2 DEF IsStream
    <2> QED BY <1>9, <2>3 DEF h
  <1>10. CASE IsStatusFlagsSupported(c) /\ ~error
    <2>1. h = told
      BY <1>1, <1>10
    <2>2. /\ IsBuffer(h.buf) /\ Len(h.buf) = StatusAt(topology) + 0
          /\ Holds(h.buf, 12, <<"rhf", Flags(topology, error)>>, 2)
          /\ topology # None => Holds(h.buf, 14, topology, 8)
      BY <1>6, <1>7, <2>1 DEF IsStream
    <2> QED BY <1>10, <2>2 DEF h
  <1> QED BY <1>8, <1>9, <1>10

\* The header of a response is read as the node wrote it: the version of the topology if it was sent,
\* the status if there is one, and nothing of the data behind it, under every context and for all data
\* (Response.__parse_header, which skips to each field by the flags of the ones before).
THEOREM ResponseHeaderIsRead ==
  ASSUME NEW c, NEW topology, NEW error \in BOOLEAN, IsStatusFlagsSupported(c) \/ topology = None,
         NEW body, IsBuffer(body), NEW compact
  PROVE  LET h == PutHeader(c, topology, error)
             s == Over(h.buf \o body, compact)
         IN GetHeader(s, c) = [affinity |-> topology, status |-> Num(IF error THEN 1 ELSE 0),
                               s |-> Seek(s, Len(h.buf)), error |-> error]
  <1> DEFINE h == PutHeader(c, topology, error)
             s == Over(h.buf \o body, compact)
             e == IF error THEN 1 ELSE 0
  <1>1. /\ IsBuffer(h.buf)
        /\ ~IsStatusFlagsSupported(c) => Len(h.buf) = 16 /\ Holds(h.buf, 12, Num(e), 4)
        /\ IsStatusFlagsSupported(c) =>
             /\ Len(h.buf) = StatusAt(topology) + (IF error THEN 4 ELSE 0)
             /\ Holds(h.buf, 12, <<"rhf", Flags(topology, error)>>, 2)
             /\ topology # None => Holds(h.buf, 14, topology, 8)
             /\ error => Holds(h.buf, StatusAt(topology), Num(1), 4)
    BY HeaderWritten
  <1> HIDE DEF h
  <1>2. s.buf = h.buf \o body /\ s.pos = 0 /\ IsBuffer(s.buf) /\ ~Raised(s)
    BY <1>1, Concatenated DEF Over, Raised
  <1> HIDE DEF s
  <1>3. ASSUME NEW at \in Nat, NEW u, NEW n \in Nat, n > 0, Holds(h.buf, at, u, n)
        PROVE  FieldAt(s, at, n) = u
    <2>1. Holds(s.buf, at, u, n)
      BY <1>1, <1>2, <1>3, HoldsInFront
    <2> QED BY <1>2, <1>3, <2>1, FieldIsRead
  <1>4. CASE ~IsStatusFlagsSupported(c)
    <2>1. FieldAt(s, s.pos + 12, 4) = Num(e) /\ s.pos + 16 = 16 /\ Len(h.buf) = 16
      BY <1>1, <1>2, <1>3, <1>4
    <2>2. Num(e)[1] = "n" /\ (Num(e) # Num(0)) = error
      BY DEF Num
    <2>3. topology = None
      BY <1>4
    <2> HIDE DEF e
    <2>4. /\ GetHeader(s, c).affinity = None
          /\ GetHeader(s, c) = [affinity |-> None, status |-> IF ~error THEN Num(0) ELSE Num(e),
                                s |-> Seek(s, s.pos + 16 + 0), error |-> error]
      BY <1>4, <2>1, <2>2 DEF GetHeader
    <2>5. (IF ~error THEN Num(0) ELSE Num(e)) = Num(e)
      BY DEF e
    <2>6. s.pos + 16 + 0 = Len(h.buf)
      BY <1>2, <2>1
    <2> QED BY <2>3, <2>4, <2>5, <2>6 DEF h, s, e
  <1>5. CASE IsStatusFlagsSupported(c)
    <2> DEFINE flags == Flags(topology, error)
    <2>1. FieldAt(s, s.pos + 12, 2) = <<"rhf", flags>>
      <3>1. Holds(h.buf, 12, <<"rhf", flags>>, 2)
        BY <1>1, <1>5
      <3> HIDE DEF flags
      <3>2. FieldAt(s, 12, 2) = <<"rhf", flags>>
        BY <3>1, <1>3, 12 \in Nat, 2 \in Nat, 2 > 0
      <3>3. s.pos + 12 = 12
        BY <1>2
      <3> QED BY <3>2, <3>3
    <2>2. ("RHF_TOPOLOGY_CHANGED" \in flags) = (topology # None) /\ ("RHF_ERROR" \in flags) = error
      BY DEF Flags
    <2> HIDE DEF flags
    <2>3. topology # None => FieldAt(s, s.pos + 14, 8) = topology
      <3>1. topology # None => Holds(h.buf, 14, topology, 8)
        BY <1>1, <1>5
      <3>2. topology # None => FieldAt(s, 14, 8) = topology
        BY <3>1, <1>3, 14 \in Nat, 8 \in Nat, 8 > 0
      <3>3. s.pos + 14 = 14
        BY <1>2
      <3> QED BY <3>2, <3>3
    <2>4. StatusAt(topology) \in Nat /\ s.pos + 14 + (IF topology # None THEN 12 ELSE 0) = StatusAt(topology)
      BY <1>2 DEF StatusAt
    <2>5. error => FieldAt(s, StatusAt(topology), 4) = Num(1)
      BY <1>1, <1>3, <1>5, <2>4
    <2>6. GetHeader(s, c) = [affinity |-> IF topology # None THEN FieldAt(s, s.pos + 14, 8) ELSE None,
                             status |-> IF ~error THEN Num(0) ELSE FieldAt(s, StatusAt(topology), 4),
                             s |-> Seek(s, IF error THEN StatusAt(topology) + 4 ELSE StatusAt(topology)),
                             error |-> error]
      BY <1>5, <2>1, <2>2, <2>4 DEF GetHeader
    <2>7. (IF topology # None THEN FieldAt(s, s.pos + 14, 8) ELSE None) = topology
      BY <2>3
    <2>8. (IF ~error THEN Num(0) ELSE FieldAt(s, StatusAt(topology), 4)) = Num(e)
      BY <2>5
    <2>9. (IF error THEN StatusAt(topology) + 4 ELSE StatusAt(topology)) = Len(h.buf)
      BY <1>1, <1>5, <2>4
    <2> HIDE DEF e
    <2> QED BY <2>6, <2>7, <2>8, <2>9 DEF h, s, e
  <1> QED BY <1>4, <1>5

(***************************************************************************)
(* The header of a request.                                                *)
(***************************************************************************)
\* A field that is written leaves the fields before it.
LEMMA PutBehind ==
  ASSUME NEW s, IsStream(s), NEW v, NEW w \in Nat,
         NEW at \in Nat, NEW u, NEW n \in Nat, Holds(s.buf, at, u, n), at + n <= s.pos
  PROVE  Holds(Put(s, v, w).buf, at, u, n)
  <1> DEFINE t == Put(s, v, w)
  <1>1. /\ Len(t.buf) = IF s.pos + w <= Len(s.buf) THEN Len(s.buf) ELSE s.pos + w
        /\ \A i \in 1 .. Len(s.buf) : i <= s.pos \/ i > s.pos + w => t.buf[i] = s.buf[i]
    BY PutField
  <1>2. s.pos \in Nat /\ Len(s.buf) \in Nat
    BY DEF IsStream, IsBuffer
  <1> HIDE DEF t
  <1>3. at + n <= Len(s.buf) /\ \A i \in 1 .. n : s.buf[at + i] = <<u, i, n>>
    BY DEF Holds
  <1>4. at + n <= Len(t.buf)
    BY <1>1, <1>2, <1>3
  <1>5. ASSUME NEW i \in 1 .. n PROVE t.buf[at + i] = <<u, i, n>>
    <2>1. at + i \in 1 .. Len(s.buf) /\ at + i <= s.pos
      BY <1>2, <1>3
    <2> QED BY <1>1, <1>3, <2>1
  <1>6. Holds(t.buf, at, u, n)
    BY ONLY <1>4, <1>5 DEF Holds
  <1> QED BY <1>6 DEF t

LEMMA SeekStream ==
  ASSUME NEW s, IsStream(s), NEW n \in Nat
  PROVE  IsStream(Seek(s, n)) /\ Seek(s, n).pos = n /\ Seek(s, n).buf = s.buf /\ Seek(s, n).compact = s.compact
  <1>1. PICK b, p, c : s = [buf |-> b, pos |-> p, err |-> NoError, compact |-> c]
    BY DEF IsStream
  <1>2. s.buf = b /\ s.compact = c /\ ~Raised(s)
    BY <1>1 DEF Raised
  <1>3. Seek(s, n) = [buf |-> b, pos |-> n, err |-> NoError, compact |-> c]
    BY <1>1, <1>2 DEF Seek
  <1>4. Seek(s, n).buf = b /\ Seek(s, n).pos = n /\ Seek(s, n).compact = c
    BY <1>3
  <1>5. IsBuffer(b)
    BY <1>2 DEF IsStream
  <1> QED BY <1>2, <1>3, <1>4, <1>5 DEF IsStream

\* The header is written last, over the gap that was left for it: it declares the length of what is
\* behind its length field, and the fields that follow are as they were written.
LEMMA QueryHeaderWritten ==
  ASSUME NEW t, IsStream(t), NEW at \in Nat, NEW q, q.config \in BOOLEAN, NEW id
  PROVE  LET r == WriteQueryHeader(t, at, q, id)
             end == at + QueryHeaderLen(q)
         IN /\ IsStream(r)
            /\ Len(r.buf) = IF end <= Len(t.buf) THEN Len(t.buf) ELSE end
            /\ Holds(r.buf, at, Num(t.pos - at - 4), 4)
            /\ Holds(r.buf, at + 4, <<"op", q.op>>, 2)
            /\ Holds(r.buf, at + 6, <<"id", id>>, 8)
            /\ q.config => Holds(r.buf, at + 14, Num(-18), 4)
            /\ \A i \in 1 .. Len(t.buf) : i <= at \/ i > end => r.buf[i] = t.buf[i]
  <1> DEFINE length == Num(t.pos - at - 4)
             back == Seek(t, at)
             x == Put(back, length, 4)
             y == Put(x, <<"op", q.op>>, 2)
             z == Put(y, <<"id", id>>, 8)
             last == Put(z, Num(-18), 4)
             r == WriteQueryHeader(t, at, q, id)
             Other(b, n) == /\ Len(b) = IF at + n <= Len(t.buf) THEN Len(t.buf) ELSE at + n
                            /\ \A i \in 1 .. Len(t.buf) : i <= at \/ i > at + n => b[i] = t.buf[i]
  <1>0. Len(t.buf) \in Nat
    BY DEF IsStream, IsBuffer
  <1>1. r = IF q.config THEN last ELSE z
    BY DEF WriteQueryHeader
  <1> HIDE DEF r, length
  <1>2. IsStream(back) /\ back.pos = at /\ back.buf = t.buf
    BY SeekStream
  <1> HIDE DEF back
  <1>3. /\ IsStream(x) /\ x.pos = at + 4 /\ Holds(x.buf, at, length, 4) /\ Other(x.buf, 4)
    <2>1. /\ IsStream(x) /\ x.pos = back.pos + 4
          /\ Len(x.buf) = IF back.pos + 4 <= Len(back.buf) THEN Len(back.buf) ELSE back.pos + 4
          /\ Holds(x.buf, back.pos, length, 4)
          /\ \A i \in 1 .. Len(back.buf) : i <= back.pos \/ i > back.pos + 4 => x.buf[i] = back.buf[i]
      BY <1>2, PutField, 4 \in Nat
    <2> HIDE DEF x
    <2> QED BY <1>2, <2>1
  <1> HIDE DEF x
  <1>4. /\ IsStream(y) /\ y.pos = at + 6 /\ Holds(y.buf, at + 4, <<"op", q.op>>, 2) /\ Other(y.buf, 6)
        /\ Holds(y.buf, at, length, 4)
    <2>1. /\ IsStream(y) /\ y.pos = x.pos + 2
          /\ Len(y.buf) = IF x.pos + 2 <= Len(x.buf) THEN Len(x.buf) ELSE x.pos + 2
          /\ Holds(y.buf, x.pos, <<"op", q.op>>, 2)
          /\ \A i \in 1 .. Len(x.buf) : i <= x.pos \/ i > x.pos + 2 => y.buf[i] = x.buf[i]
      BY <1>3, PutField, 2 \in Nat
    <2>2. Holds(y.buf, at, length, 4)
      BY <1>3, PutBehind, 2 \in Nat, 4 \in Nat, at + 4 <= x.pos
    <2> HIDE DEF y
    <2>3. Other(y.buf, 6)
      BY <1>0, <1>3, <2>1
    <2> QED BY <1>3, <2>1, <2>2, <2>3
  <1> HIDE DEF y
  <1>5. /\ IsStream(z) /\ z.pos = at + 14 /\ Holds(z.buf, at + 6, <<"id", id>>, 8) /\ Other(z.buf, 14)
        /\ Holds(z.buf, at, length, 4) /\ Holds(z.buf, at + 4, <<"op", q.op>>, 2)
    <2>1. /\ IsStream(z) /\ z.pos = y.pos + 8
          /\ Len(z.buf) = IF y.pos + 8 <= Len(y.buf) THEN Len(y.buf) ELSE y.pos + 8
          /\ Holds(z.buf, y.pos, <<"id", id>>, 8)
          /\ \A i \in 1 .. Len(y.buf) : i <= y.pos \/ i > y.pos + 8 => z.buf[i] = y.buf[i]
      BY <1>4, PutField, 8 \in Nat
    <2>2. Holds(z.buf, at, length, 4)
      BY <1>4, PutBehind, 8 \in Nat, 4 \in Nat, at + 4 <= y.pos
    <2>3. Holds(z.buf, at + 4, <<"op", q.op>>, 2)
      BY <1>4, PutBehind, 8 \in Nat, 2 \in Nat, at + 4 \in Nat, at + 4 + 2 <= y.pos
    <2> HIDE DEF z
    <2>4. Other(z.buf, 14)
      BY <1>0, <1>4, <2>1
    <2> QED BY <1>4, <2>1, <2>2, <2>3, <2>4
  <1> HIDE DEF z
  <1>6. /\ IsStream(last) /\ Holds(last.buf, at + 14, Num(-18), 4) /\ Other(last.buf, 18)
        /\ Holds(last.buf, at, length, 4) /\ Holds(last.buf, at + 4, <<"op", q.op>>, 2)
        /\ Holds(last.buf, at + 6, <<"id", id>>, 8)
    <2>1. /\ IsStream(last)
          /\ Len(last.buf) = IF z.pos + 4 <= Len(z.buf) THEN Len(z.buf) ELSE z.pos + 4
          /\ Holds(last.buf, z.pos, Num(-18), 4)
          /\ \A i \in 1 .. Len(z.buf) : i <= z.pos \/ i > z.pos + 4 => last.buf[i] = z.buf[i]
      <3>1. IsStream(z)
        BY <1>5
      <3> HIDE DEF Other
      <3> QED BY ONLY <3>1, PutField, 4 \in Nat
    <2>2. Holds(last.buf, at, length, 4)
      BY <1>5, PutBehind, 4 \in Nat, at + 4 <= z.pos
    <2>3. Holds(last.buf, at + 4, <<"op", q.op>>, 2)
      BY <1>5, PutBehind, 4 \in Nat, 2 \in Nat, at + 4 \in Nat, at + 4 + 2 <= z.pos
    <2>4. Holds(last.buf, at + 6, <<"id", id>>, 8)
      BY <1>5, PutBehind, 4 \in Nat, 8 \in Nat, at + 6 \in Nat, at + 6 + 8 <= z.pos
    <2> HIDE DEF last
    <2>5. Other(last.buf, 18)
      BY <1>0, <1>5, <2>1
    <2> QED BY <1>5, <2>1, <2>2, <2>3, <2>4, <2>5
  <1> HIDE DEF last
  <1>7. CASE q.config
    <2>1. r = last /\ QueryHeaderLen(q) = 18
      BY <1>1, <1>7 DEF QueryHeaderLen
    <2> QED BY <1>6, <2>1 DEF r, length
  <1>8. CASE ~q.config
    <2>1. r = z /\ QueryHeaderLen(q) = 14
      BY <1>1, <1>8 DEF QueryHeaderLen
    <2> QED BY <1>5, <1>8, <2>1 DEF r, length
  <1> QED BY <1>7, <1>8

\* A request declares its own length, and its operation and its id are read as they were written,
\* whatever fields follow.  Its writer stops at the last of them, or behind the header if there is none
\* (Query._build_header, which writes over the gap that from_python left).
THEOREM RequestHeaderIsRead ==
  ASSUME NEW t, IsStream(t), NEW at \in Nat, NEW q, q.config \in BOOLEAN, NEW id,
         t.pos = IF at + QueryHeaderLen(q) <= Len(t.buf) THEN Len(t.buf) ELSE at + QueryHeaderLen(q)
  PROVE  LET r == WriteQueryHeader(t, at, q, id)
         IN /\ IsStream(r) /\ Len(r.buf) = t.pos
            /\ FieldAt(r, at, 4) = Num(Len(r.buf) - at - 4)
            /\ FieldAt(r, at + 4, 2) = <<"op", q.op>>
            /\ FieldAt(r, at + 6, 8) = <<"id", id>>
            /\ \A i \in 1 .. Len(t.buf) : i <= at \/ i > at + QueryHeaderLen(q) => r.buf[i] = t.buf[i]
  <1> DEFINE r == WriteQueryHeader(t, at, q, id)
             end == at + QueryHeaderLen(q)
  <1>1. /\ IsStream(r) /\ Len(r.buf) = t.pos
        /\ Holds(r.buf, at, Num(t.pos - at - 4), 4)
        /\ Holds(r.buf, at + 4, <<"op", q.op>>, 2)
        /\ Holds(r.buf, at + 6, <<"id", id>>, 8)
        /\ \A i \in 1 .. Len(t.buf) : i <= at \/ i > end => r.buf[i] = t.buf[i]
    BY QueryHeaderWritten
  <1> HIDE DEF r
  <1>2. IsBuffer(r.buf)
    BY <1>1 DEF IsStream
  <1>3. FieldAt(r, at, 4) = Num(t.pos - at - 4)
    BY ONLY <1>1, <1>2, FieldIsRead, at \in Nat, 4 \in Nat, 4 > 0
  <1>4. FieldAt(r, at + 4, 2) = <<"op", q.op>>
    BY ONLY <1>1, <1>2, FieldIsRead, at \in Nat, at + 4 \in Nat, 2 \in Nat, 2 > 0
  <1>5. FieldAt(r, at + 6, 8) = <<"id", id>>
    BY ONLY <1>1, <1>2, FieldIsRead, at \in Nat, at + 6 \in Nat, 8 \in Nat, 8 > 0
  <1> QED BY <1>1, <1>2, <1>3, <1>4, <1>5 DEF r, end

(***************************************************************************)
(* The CacheInfo.                                                          *)
(***************************************************************************)
InfoFlags(policy, inTx) ==
  (IF policy THEN {"EXPIRY_POLICY_MASK"} ELSE {}) \cup (IF inTx THEN {"TRANSACTIONS_MASK"} ELSE {})
TxAt(at, policy) == at + 5 + (IF policy THEN 24 ELSE 0)
\* A buffer holds the fields of a CacheInfo.
HoldsInfo(buf, at, info, inTx, tx) ==
  /\ Holds(buf, at, <<"cache", info.cache_id>>, 4)
  /\ Holds(buf, at + 4, <<"flags", InfoFlags(info.policy # None, inTx)>>, 1)
  /\ info.policy # None => \A i \in 1 .. 3 : Holds(buf, at + 5 + 8 * (i - 1), Num(info.policy[2][i][2]), 8)
  /\ inTx => Holds(buf, TxAt(at, info.policy # None), tx, 4)

LEMMA PolicyWritten ==
  ASSUME NEW s, IsStream(s), Len(s.buf) <= s.pos, NEW p
  PROVE  LET t == PutPolicy(s, p)
         IN /\ IsStream(t) /\ t.pos = s.pos + 24 /\ Len(t.buf) = s.pos + 24 /\ t.compact = s.compact
            /\ \A i \in 1 .. 3 : Holds(t.buf, s.pos + 8 * (i - 1), Num(p[2][i][2]), 8)
            /\ \A u : \A at \in Nat, n \in Nat : Holds(s.buf, at, u, n) => Holds(t.buf, at, u, n)
  <1> DEFINE create == Num(p[2][1][2])
             update == Num(p[2][2][2])
             access == Num(p[2][3][2])
             x == Put(s, create, 8)
             y == Put(x, update, 8)
             z == Put(y, access, 8)
             Kept(a, b) == \A u : \A at \in Nat, n \in Nat : Holds(a, at, u, n) => Holds(b, at, u, n)
  <1>0. s.pos \in Nat
    BY DEF IsStream
  <1>1. PutPolicy(s, p) = z
    BY DEF PutPolicy
  <1> HIDE DEF create, update, access
  <1>2. /\ IsStream(x) /\ x.pos = s.pos + 8 /\ Len(x.buf) = s.pos + 8 /\ x.compact = s.compact
        /\ Holds(x.buf, s.pos, create, 8) /\ Kept(s.buf, x.buf)
    BY PutLast, 8 \in Nat
  <1> HIDE DEF x
  <1>3. /\ IsStream(y) /\ y.pos = x.pos + 8 /\ Len(y.buf) = x.pos + 8 /\ y.compact = x.compact
        /\ Holds(y.buf, x.pos, update, 8) /\ Kept(x.buf, y.buf)
    BY <1>2, PutAtEnd, 8 \in Nat
  <1> HIDE DEF y
  <1>4. /\ IsStream(z) /\ z.pos = y.pos + 8 /\ Len(z.buf) = y.pos + 8 /\ z.compact = y.compact
        /\ Holds(z.buf, y.pos, access, 8) /\ Kept(y.buf, z.buf)
    BY <1>2, <1>3, PutAtEnd, 8 \in Nat
  <1> HIDE DEF z
  <1>5. x.pos = s.pos + 8 /\ y.pos = s.pos + 16 /\ z.pos = s.pos + 24
    BY <1>0, <1>2, <1>3, <1>4
  <1>6. Holds(z.buf, s.pos, create, 8)
    BY <1>0, <1>2, <1>3, <1>4, 8 \in Nat
  <1>7. Holds(z.buf, s.pos + 8, update, 8)
    BY <1>0, <1>3, <1>4, <1>5, 8 \in Nat, s.pos + 8 \in Nat
  <1>8. Holds(z.buf, s.pos + 16, access, 8)
    BY <1>4, <1>5
  <1>9. ASSUME NEW i \in 1 .. 3 PROVE Holds(z.buf, s.pos + 8 * (i - 1), Num(p[2][i][2]), 8)
    <2>1. CASE i = 1
      <3>1. s.pos + 8 * (i - 1) = s.pos
        BY <2>1, <1>0
      <3> QED BY <2>1, <3>1, <1>6 DEF create
    <2>2. CASE i = 2
      <3>1. s.pos + 8 * (i - 1) = s.pos + 8
        BY <2>2, <1>0
      <3> QED BY <2>2, <3>1, <1>7 DEF update
    <2>3. CASE i = 3
      <3>1. s.pos + 8 * (i - 1) = s.pos + 16
        BY <2>3, <1>0
      <3> QED BY <2>3, <3>1, <1>8 DEF access
    <2> QED BY <2>1, <2>2, <2>3
  <1>10. Kept(s.buf, z.buf)
    BY <1>2, <1>3, <1>4
  <1>11. Len(z.buf) = s.pos + 24 /\ z.compact = s.compact
    BY <1>0, <1>2, <1>3, <1>4, <1>5
  <1> QED BY <1>1, <1>4, <1>5, <1>9, <1>10, <1>11

\* CacheInfo.from_python, where it does not raise.
LEMMA CacheInfoWritten ==
  ASSUME NEW s, IsStream(s), Len(s.buf) <= s.pos, NEW info, NEW c, NEW tx,
         info.policy # None => IsExpiryPolicySupported(c)
  PROVE  LET t == PutCacheInfo(s, info, c, tx)
             inTx == IsTransactionsSupported(c) /\ tx # None
         IN /\ IsStream(t) /\ t.compact = s.compact
            /\ t.pos = TxAt(s.pos, info.policy # None) + (IF inTx THEN 4 ELSE 0) /\ Len(t.buf) = t.pos
            /\ HoldsInfo(t.buf, s.pos, info, inTx, tx)
  <1> DEFINE policy == info.policy # None
             inTx == IsTransactionsSupported(c) /\ tx # None
             id == <<"cache", info.cache_id>>
             flags == <<"flags", InfoFlags(policy, inTx)>>
             named == Put(s, id, 4)
             headed == Put(named, flags, 1)
             lasting == IF policy THEN PutPolicy(headed, info.policy) ELSE headed
             t == PutCacheInfo(s, info, c, tx)
             at == TxAt(s.pos, policy)
             Kept(a, b) == \A u : \A i \in Nat, n \in Nat : Holds(a, i, u, n) => Holds(b, i, u, n)
             Spans(b) == policy => \A i \in 1 .. 3 :
                           Holds(b, s.pos + 5 + 8 * (i - 1), Num(info.policy[2][i][2]), 8)
  <1>0. s.pos \in Nat
    BY DEF IsStream
  <1>1. t = IF inTx THEN Put(lasting, tx, 4) ELSE lasting
    BY DEF PutCacheInfo, InfoFlags
  <1> HIDE DEF t, id, flags, inTx
  <1>2. /\ IsStream(named) /\ named.pos = s.pos + 4 /\ Len(named.buf) = s.pos + 4 /\ named.compact = s.compact
        /\ Holds(named.buf, s.pos, id, 4)
    BY PutLast, 4 \in Nat
  <1> HIDE DEF named
  <1>3. /\ IsStream(headed) /\ headed.pos = s.pos + 5 /\ Len(headed.buf) = s.pos + 5
        /\ headed.compact = s.compact
        /\ Holds(headed.buf, s.pos, id, 4) /\ Holds(headed.buf, s.pos + 4, flags, 1)
    <2>1. /\ IsStream(headed) /\ headed.pos = named.pos + 1 /\ Len(headed.buf) = named.pos + 1
          /\ headed.compact = named.compact
          /\ Holds(headed.buf, named.pos, flags, 1) /\ Kept(named.buf, headed.buf)
      BY <1>2, PutAtEnd, 1 \in Nat
    <2> HIDE DEF headed
    <2>2. Holds(headed.buf, s.pos, id, 4)
      BY <1>0, <1>2, <2>1, 4 \in Nat
    <2> HIDE DEF Kept
    <2> QED BY <1>0, <1>2, <2>1, <2>2
  <1> HIDE DEF headed
  <1>4. /\ IsStream(lasting) /\ lasting.pos = at /\ Len(lasting.buf) = at /\ lasting.compact = s.compact
        /\ Holds(lasting.buf, s.pos, id, 4) /\ Holds(lasting.buf, s.pos + 4, flags, 1)
        /\ Spans(lasting.buf)
    <2>1. CASE policy
      <3> DEFINE timed == PutPolicy(headed, info.policy)
      <3>1. Len(headed.buf) <= headed.pos
        BY <1>0, <1>3
      <3>2. /\ IsStream(timed) /\ timed.pos = headed.pos + 24 /\ Len(timed.buf) = headed.pos + 24
            /\ timed.compact = headed.compact
            /\ \A i \in 1 .. 3 : Holds(timed.buf, headed.pos + 8 * (i - 1), Num(info.policy[2][i][2]), 8)
            /\ Kept(headed.buf, timed.buf)
        BY <1>3, <3>1, PolicyWritten
      <3>3. lasting = timed
        BY <2>1
      <3> HIDE DEF timed, lasting
      <3>4. Holds(timed.buf, s.pos, id, 4) /\ Holds(timed.buf, s.pos + 4, flags, 1)
        BY <1>0, <1>3, <3>2, 4 \in Nat, 1 \in Nat, s.pos + 4 \in Nat
      <3>5. at = s.pos + 29
        BY <2>1, <1>0 DEF TxAt
      <3>6. Spans(timed.buf)
        BY <1>3, <3>2
      <3> HIDE DEF at, Spans, Kept
      <3>7. timed.pos = at /\ Len(timed.buf) = at /\ timed.compact = s.compact
        BY <1>0, <1>3, <3>2, <3>5
      <3> QED BY <3>2, <3>3, <3>4, <3>6, <3>7
    <2>2. CASE ~policy
      <3>1. lasting = headed /\ at = s.pos + 5
        BY <2>2, <1>0 DEF TxAt
      <3> HIDE DEF lasting, at
      <3> QED BY <1>3, <2>2, <3>1
    <2> QED BY <2>1, <2>2
  <1> HIDE DEF lasting
  <1>5. at \in Nat
    BY <1>0 DEF TxAt
  <1> HIDE DEF at
  <1>6. CASE inTx
    <2> DEFINE last == Put(lasting, tx, 4)
    <2>1. /\ IsStream(last) /\ last.pos = lasting.pos + 4 /\ Len(last.buf) = lasting.pos + 4
          /\ last.compact = lasting.compact
          /\ Holds(last.buf, lasting.pos, tx, 4) /\ Kept(lasting.buf, last.buf)
      <3>1. IsStream(lasting) /\ lasting.pos = Len(lasting.buf)
        BY <1>4
      <3> HIDE DEF Spans
      <3> QED BY ONLY <3>1, PutAtEnd, 4 \in Nat
    <2>2. t = last
      BY <1>1, <1>6
    <2> HIDE DEF last
    <2>3. Holds(last.buf, s.pos, id, 4) /\ Holds(last.buf, s.pos + 4, flags, 1)
      BY <1>0, <1>4, <2>1, 4 \in Nat, 1 \in Nat, s.pos + 4 \in Nat
    <2>4. Spans(last.buf)
      <3>1. ASSUME policy, NEW i \in 1 .. 3
            PROVE  Holds(last.buf, s.pos + 5 + 8 * (i - 1), Num(info.policy[2][i][2]), 8)
        <4>1. s.pos + 5 + 8 * (i - 1) \in Nat
          BY <1>0
        <4>2. Holds(lasting.buf, s.pos + 5 + 8 * (i - 1), Num(info.policy[2][i][2]), 8)
          BY <1>4, <3>1
        <4> QED BY <2>1, <4>1, <4>2, 8 \in Nat
      <3> QED BY <3>1
    <2>5. HoldsInfo(last.buf, s.pos, info, inTx, tx)
      BY <1>4, <2>1, <2>3, <2>4 DEF HoldsInfo, id, flags, at
    <2> HIDE DEF Kept
    <2> QED BY <1>4, <1>6, <2>1, <2>2, <2>5 DEF t, inTx, at
  <1>7. CASE ~inTx
    <2>1. t = lasting
      BY <1>1, <1>7
    <2>2. HoldsInfo(lasting.buf, s.pos, info, inTx, tx)
      BY <1>4, <1>7 DEF HoldsInfo, id, flags
    <2>3. at + 0 = at
      BY <1>5
    <2> QED BY <1>4, <1>7, <2>1, <2>2, <2>3 DEF t, inTx, at
  <1> QED BY <1>6, <1>7

\* What the node reads of a buffer that holds the fields, whatever else it holds.
LEMMA InfoIsRead ==
  ASSUME NEW u, IsBuffer(u.buf), u.pos \in Nat, NEW info, NEW inTx \in BOOLEAN, NEW tx,
         HoldsInfo(u.buf, u.pos, info, inTx, tx)
  PROVE  LET policy == info.policy # None
         IN ReadCacheInfo(u) = [cache |-> info.cache_id, flags |-> InfoFlags(policy, inTx),
                                policy |-> IF policy THEN [i \in 1 .. 3 |-> info.policy[2][i][2]] ELSE <<>>,
                                tx |-> IF inTx THEN tx ELSE None,
                                s |-> Seek(u, TxAt(u.pos, policy) + (IF inTx THEN 4 ELSE 0))]
  <1> DEFINE policy == info.policy # None
             flags == InfoFlags(policy, inTx)
             at == TxAt(u.pos, policy)
             read == IF policy THEN [i \in 1 .. 3 |-> FieldAt(u, u.pos + 5 + 8 * (i - 1), 8)[2]] ELSE <<>>
             spans == IF policy THEN [i \in 1 .. 3 |-> info.policy[2][i][2]] ELSE <<>>
  <1>1. FieldAt(u, u.pos, 4) = <<"cache", info.cache_id>>
    <2>1. Holds(u.buf, u.pos, <<"cache", info.cache_id>>, 4)
      BY DEF HoldsInfo
    <2> QED BY <2>1, FieldIsRead, 4 \in Nat, 4 > 0
  <1>2. FieldAt(u, u.pos + 4, 1) = <<"flags", flags>>
    <2>1. Holds(u.buf, u.pos + 4, <<"flags", flags>>, 1) /\ u.pos + 4 \in Nat
      BY DEF HoldsInfo
    <2> HIDE DEF flags
    <2> QED BY <2>1, FieldIsRead, 1 \in Nat, 1 > 0
  <1>3. ("EXPIRY_POLICY_MASK" \in flags) = policy /\ ("TRANSACTIONS_MASK" \in flags) = inTx
    BY DEF InfoFlags
  <1>4. ASSUME policy, NEW i \in 1 .. 3
        PROVE  FieldAt(u, u.pos + 5 + 8 * (i - 1), 8)[2] = info.policy[2][i][2]
    <2>1. Holds(u.buf, u.pos + 5 + 8 * (i - 1), Num(info.policy[2][i][2]), 8)
      BY <1>4 DEF HoldsInfo
    <2>2. u.pos + 5 + 8 * (i - 1) \in Nat
      OBVIOUS
    <2>3. FieldAt(u, u.pos + 5 + 8 * (i - 1), 8) = Num(info.policy[2][i][2])
      BY <2>1, <2>2, FieldIsRead, 8 \in Nat, 8 > 0
    <2> QED BY <2>3 DEF Num
  <1>5. read = spans
    BY <1>4
  <1>6. inTx => FieldAt(u, at, 4) = tx
    <2>1. at \in Nat
      BY DEF TxAt
    <2>2. inTx => Holds(u.buf, at, tx, 4)
      BY DEF HoldsInfo
    <2> HIDE DEF at
    <2> QED BY <2>1, <2>2, FieldIsRead, 4 \in Nat, 4 > 0
  <1> HIDE DEF flags
  <1>7. u.pos + 5 + (IF policy THEN 24 ELSE 0) = at
    BY DEF TxAt
  <1>8. ReadCacheInfo(u) = [cache |-> info.cache_id, flags |-> flags, policy |-> read,
                            tx |-> IF inTx THEN FieldAt(u, at, 4) ELSE None,
                            s |-> Seek(u, at + (IF inTx THEN 4 ELSE 0))]
    <2>1. FieldAt(u, u.pos, 4)[2] = info.cache_id /\ FieldAt(u, u.pos + 4, 1)[2] = flags
      BY <1>1, <1>2
    <2> HIDE DEF at, policy
    <2> QED BY <1>3, <1>7, <2>1 DEF ReadCacheInfo
  <1>9. (IF inTx THEN FieldAt(u, at, 4) ELSE None) = IF inTx THEN tx ELSE None
    BY <1>6
  <1> QED
    <2> HIDE DEF read, spans, at, policy
    <2>1. ReadCacheInfo(u) = [cache |-> info.cache_id, flags |-> flags, policy |-> spans,
                              tx |-> IF inTx THEN tx ELSE None,
                              s |-> Seek(u, at + (IF inTx THEN 4 ELSE 0))]
      BY <1>5, <1>8, <1>9
    <2> QED BY <2>1 DEF spans, at, policy, flags

\* The fields of a CacheInfo stay where the bytes stay.
LEMMA InfoStays ==
  ASSUME NEW a, NEW b, NEW at, NEW info, NEW inTx, NEW tx, at \in Nat, inTx \in BOOLEAN, Len(b) \in Nat,
         HoldsInfo(a, at, info, inTx, tx),
         TxAt(at, info.policy # None) + (IF inTx THEN 4 ELSE 0) <= Len(b),
         \A i \in at + 1 .. TxAt(at, info.policy # None) + (IF inTx THEN 4 ELSE 0) : b[i] = a[i]
  PROVE  HoldsInfo(b, at, info, inTx, tx)
  <1> DEFINE policy == info.policy # None
             txAt == TxAt(at, policy)
             end == txAt + (IF inTx THEN 4 ELSE 0)
  <1>1. txAt = at + 5 + (IF policy THEN 24 ELSE 0)
    BY DEF TxAt
  <1>2. end \in Nat /\ end <= Len(b) /\ \A i \in at + 1 .. end : b[i] = a[i]
    BY <1>1
  <1>3. ASSUME NEW k \in Nat, NEW u, NEW n \in Nat, Holds(a, k, u, n), at <= k, k + n <= end
        PROVE  Holds(b, k, u, n)
    <2> HIDE DEF end
    <2>1. ASSUME NEW i \in 1 .. n PROVE b[k + i] = <<u, i, n>>
      <3>1. k + i \in at + 1 .. end
        BY <1>2, <1>3
      <3>2. a[k + i] = <<u, i, n>>
        BY <1>3 DEF Holds
      <3> QED BY <1>2, <3>1, <3>2
    <2>2. k + n <= Len(b)
      BY <1>2, <1>3
    <2> QED BY ONLY <2>1, <2>2 DEF Holds
  <1>4. Holds(b, at, <<"cache", info.cache_id>>, 4)
    <2>1. Holds(a, at, <<"cache", info.cache_id>>, 4)
      BY DEF HoldsInfo
    <2>2. at <= at /\ at + 4 <= end
      BY <1>1
    <2> HIDE DEF end
    <2> QED BY <1>3, <2>1, <2>2, 4 \in Nat
  <1>5. Holds(b, at + 4, <<"flags", InfoFlags(policy, inTx)>>, 1)
    <2>1. Holds(a, at + 4, <<"flags", InfoFlags(policy, inTx)>>, 1)
      BY DEF HoldsInfo
    <2>2. at <= at + 4 /\ at + 4 + 1 <= end
      BY <1>1
    <2> HIDE DEF end, policy
    <2> QED BY <1>3, <2>1, <2>2, 1 \in Nat, at + 4 \in Nat
  <1>6. ASSUME policy, NEW i \in 1 .. 3
        PROVE  Holds(b, at + 5 + 8 * (i - 1), Num(info.policy[2][i][2]), 8)
    <2>1. Holds(a, at + 5 + 8 * (i - 1), Num(info.policy[2][i][2]), 8)
      BY <1>6 DEF HoldsInfo
    <2>2. at <= at + 5 + 8 * (i - 1) /\ at + 5 + 8 * (i - 1) + 8 <= end
      BY <1>1, <1>6
    <2>3. at + 5 + 8 * (i - 1) \in Nat
      OBVIOUS
    <2> HIDE DEF end, policy
    <2> QED BY <1>3, <2>1, <2>2, <2>3, 8 \in Nat
  <1>7. ASSUME inTx PROVE Holds(b, txAt, tx, 4)
    <2>1. Holds(a, txAt, tx, 4)
      BY <1>7 DEF HoldsInfo
    <2>2. txAt \in Nat /\ at <= txAt /\ txAt + 4 <= end
      BY <1>1, <1>7
    <2> HIDE DEF end, txAt
    <2> QED BY <1>3, <2>1, <2>2, 4 \in Nat
  <1> QED BY <1>4, <1>5, <1>6, <1>7 DEF HoldsInfo

\* A request on a cache, with whatever fields follow its CacheInfo: the node reads the length of the
\* request, its operation and its id, and in the CacheInfo the cache, the policy of the Cache object and
\* the transaction of the caller, as they were written, and the first field that follows is next
\* (CacheInfo.from_python, where the policy moves what is behind it, and Query.from_python).
THEOREM CacheRequestIsRead ==
  ASSUME NEW compact, NEW info, NEW c, info.policy # None => IsExpiryPolicySupported(c), NEW tx,
         NEW q, q.config = FALSE, NEW id,
         NEW t, t = PutCacheInfo(Skip(Empty(compact), QueryHeaderLen(q)), info, c, tx),
         NEW w, IsStream(w), w.pos = Len(w.buf), t.pos <= w.pos, \A i \in 1 .. t.pos : w.buf[i] = t.buf[i],
         NEW other
  PROVE  LET r == WriteQueryHeader(w, 0, q, id)
             u == Over(r.buf, other)
             inTx == IsTransactionsSupported(c) /\ tx # None
             policy == info.policy # None
         IN /\ ~Raised(r)
            /\ FieldAt(u, 0, 4) = Num(Len(u.buf) - 4)
            /\ FieldAt(u, 4, 2) = <<"op", q.op>>
            /\ FieldAt(u, 6, 8) = <<"id", id>>
            /\ ReadCacheInfo(Seek(u, QueryHeaderLen(q))) =
                 [cache |-> info.cache_id, flags |-> InfoFlags(policy, inTx),
                  policy |-> IF policy THEN [i \in 1 .. 3 |-> info.policy[2][i][2]] ELSE <<>>,
                  tx |-> IF inTx THEN tx ELSE None,
                  s |-> Seek(Seek(u, QueryHeaderLen(q)), t.pos)]
  <1> DEFINE skipped == Skip(Empty(compact), QueryHeaderLen(q))
             r == WriteQueryHeader(w, 0, q, id)
             u == Over(r.buf, other)
             inTx == IsTransactionsSupported(c) /\ tx # None
             policy == info.policy # None
             end == TxAt(14, policy) + (IF inTx THEN 4 ELSE 0)
             v == Seek(u, 14)
  <1>0. QueryHeaderLen(q) = 14
    BY DEF QueryHeaderLen
  <1>1. IsStream(skipped) /\ skipped.pos = 14 /\ Len(skipped.buf) = 0
    <2> DEFINE e == Empty(compact)
    <2>1. IsStream(e) /\ e.pos = 0 /\ Len(e.buf) = 0
      BY EmptyStream
    <2>2. skipped = Seek(e, 14)
      <3>1. skipped = Seek(e, e.pos + 14)
        BY <1>0 DEF Skip
      <3> HIDE DEF e
      <3> QED BY <2>1, <3>1
    <2> HIDE DEF e
    <2>3. IsStream(Seek(e, 14)) /\ Seek(e, 14).pos = 14 /\ Seek(e, 14).buf = e.buf
      BY <2>1, SeekStream, 14 \in Nat
    <2> QED BY <2>1, <2>2, <2>3
  <1>2. /\ IsStream(t) /\ t.pos = end /\ Len(t.buf) = end
        /\ HoldsInfo(t.buf, 14, info, inTx, tx)
    <2> HIDE DEF skipped
    <2>1. Len(skipped.buf) <= skipped.pos
      BY <1>1
    <2>2. LET o == PutCacheInfo(skipped, info, c, tx)
          IN /\ IsStream(o) /\ o.pos = TxAt(skipped.pos, policy) + (IF inTx THEN 4 ELSE 0)
             /\ Len(o.buf) = o.pos /\ HoldsInfo(o.buf, skipped.pos, info, inTx, tx)
      BY <1>1, <2>1, CacheInfoWritten
    <2> QED BY <1>1, <2>2 DEF skipped
  <1> HIDE DEF skipped, r, inTx
  <1>3. end \in Nat /\ 14 <= end
    BY DEF TxAt
  <1>4. /\ IsStream(r) /\ Len(r.buf) = w.pos
        /\ FieldAt(r, 0, 4) = Num(Len(r.buf) - 4)
        /\ FieldAt(r, 4, 2) = <<"op", q.op>>
        /\ FieldAt(r, 6, 8) = <<"id", id>>
        /\ \A i \in 1 .. Len(w.buf) : i > 14 => r.buf[i] = w.buf[i]
    <2> DEFINE at == 0
    <2> HIDE DEF end
    <2>1. Len(w.buf) \in Nat /\ 14 <= Len(w.buf) /\ q.config \in BOOLEAN
      <3>1. Len(w.buf) \in Nat
        BY DEF IsStream, IsBuffer
      <3>2. end <= Len(w.buf)
        BY <1>2
      <3>3. 14 <= Len(w.buf)
        BY ONLY <1>3, <3>1, <3>2
      <3>4. q.config \in BOOLEAN
        BY ONLY q.config = FALSE
      <3> QED BY ONLY <3>1, <3>3, <3>4
    <2>2. /\ at \in Nat
          /\ w.pos = IF at + QueryHeaderLen(q) <= Len(w.buf) THEN Len(w.buf) ELSE at + QueryHeaderLen(q)
      BY <1>0, <2>1
    <2> HIDE DEF at
    <2>3. LET o == WriteQueryHeader(w, at, q, id)
          IN /\ IsStream(o) /\ Len(o.buf) = w.pos
             /\ FieldAt(o, at, 4) = Num(Len(o.buf) - at - 4)
             /\ FieldAt(o, at + 4, 2) = <<"op", q.op>>
             /\ FieldAt(o, at + 6, 8) = <<"id", id>>
             /\ \A i \in 1 .. Len(w.buf) : i <= at \/ i > at + QueryHeaderLen(q) => o.buf[i] = w.buf[i]
      BY ONLY IsStream(w), <2>1, <2>2, RequestHeaderIsRead
    <2>4. Len(r.buf) - 0 - 4 = Len(r.buf) - 4
      <3>1. Len(r.buf) \in Nat
        BY <2>1, <2>3 DEF r, at
      <3> QED BY <3>1
    <2>5. at = 0 /\ at + 4 = 4 /\ at + 6 = 6 /\ WriteQueryHeader(w, at, q, id) = r
      BY DEF r, at
    <2>6. ASSUME NEW i \in 1 .. Len(w.buf), i > 14 PROVE r.buf[i] = w.buf[i]
      <3>1. i > at + QueryHeaderLen(q)
        BY <1>0, <2>5, <2>6
      <3> QED BY <2>3, <2>5, <3>1
    <2> HIDE DEF at
    <2>7. FieldAt(r, 0, 4) = Num(Len(r.buf) - 4)
      BY <2>3, <2>4, <2>5
    <2> QED BY <2>3, <2>5, <2>6, <2>7
  <1>5. u.buf = r.buf /\ u.pos = 0 /\ ~Raised(u) /\ v.buf = r.buf /\ v.pos = 14
    BY DEF Over, Seek, Raised
  <1>6. IsBuffer(r.buf) /\ ~Raised(r)
    <2>1. r.err = NoError
      BY <1>4 DEF IsStream
    <2> QED BY <1>4, <2>1 DEF IsStream, Raised
  <1>7. HoldsInfo(r.buf, 14, info, inTx, tx)
    <2> DEFINE at == 14
               last == TxAt(at, policy) + (IF inTx THEN 4 ELSE 0)
    <2>1. Len(r.buf) \in Nat /\ last <= Len(r.buf)
      BY <1>2, <1>4, <1>6 DEF IsBuffer
    <2>2. ASSUME NEW i \in at + 1 .. last PROVE r.buf[i] = t.buf[i]
      <3>1. last = end
        OBVIOUS
      <3> HIDE DEF end, last
      <3>2. i \in 1 .. t.pos /\ i \in 1 .. Len(w.buf) /\ i > 14
        BY <1>2, <1>3, <1>4, <2>1, <3>1
      <3> QED BY <1>4, <3>2
    <2>3. inTx \in BOOLEAN /\ at \in Nat
      BY DEF inTx
    <2>4. HoldsInfo(t.buf, at, info, inTx, tx)
      BY <1>2
    <2> HIDE DEF at
    <2>5. HoldsInfo(r.buf, at, info, inTx, tx)
      <3> DEFINE a == t.buf
                 b == r.buf
      <3>1. Len(b) \in Nat /\ HoldsInfo(a, at, info, inTx, tx)
        BY <2>1, <2>4
      <3>2. TxAt(at, info.policy # None) + (IF inTx THEN 4 ELSE 0) <= Len(b)
        BY <2>1
      <3>3. \A i \in at + 1 .. TxAt(at, info.policy # None) + (IF inTx THEN 4 ELSE 0) : b[i] = a[i]
        BY <2>2
      <3> HIDE DEF a, b
      <3>4. HoldsInfo(b, at, info, inTx, tx)
        BY ONLY <2>3, <3>1, <3>2, <3>3, InfoStays
      <3> QED BY <3>4 DEF b
    <2> QED BY <2>5 DEF at
  <1> HIDE DEF u, v
  <1>8. ReadCacheInfo(v) = [cache |-> info.cache_id, flags |-> InfoFlags(policy, inTx),
                            policy |-> IF policy THEN [i \in 1 .. 3 |-> info.policy[2][i][2]] ELSE <<>>,
                            tx |-> IF inTx THEN tx ELSE None, s |-> Seek(v, end)]
    <2>1. IsBuffer(v.buf) /\ v.pos \in Nat /\ inTx \in BOOLEAN /\ HoldsInfo(v.buf, v.pos, info, inTx, tx)
      BY <1>5, <1>6, <1>7 DEF inTx
    <2>2. v.pos = 14
      BY <1>5
    <2>3. ReadCacheInfo(v) = [cache |-> info.cache_id, flags |-> InfoFlags(info.policy # None, inTx),
             policy |-> IF info.policy # None THEN [i \in 1 .. 3 |-> info.policy[2][i][2]] ELSE <<>>,
             tx |-> IF inTx THEN tx ELSE None,
             s |-> Seek(v, TxAt(v.pos, info.policy # None) + (IF inTx THEN 4 ELSE 0))]
      BY ONLY <2>1, InfoIsRead
    <2> QED BY ONLY <2>2, <2>3
  <1>9. FieldAt(u, 0, 4) = FieldAt(r, 0, 4) /\ FieldAt(u, 4, 2) = FieldAt(r, 4, 2)
        /\ FieldAt(u, 6, 8) = FieldAt(r, 6, 8)
    BY <1>5 DEF FieldAt, Slice
  <1> QED BY <1>0, <1>2, <1>4, <1>5, <1>6, <1>8, <1>9 DEF r, u, v, inTx
=============================================================================
