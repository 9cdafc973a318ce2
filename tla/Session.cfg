CONSTANTS
  HandshakeRequest <- RequestBytes
  ReadRequest <- ReadHandshake
  Consent <- ConsentBytes
  Refusal <- RefusalBytes
  ReadResponse <- ReadAnswer
  Schemas <- MCSchemas
  Clients <- MCClients
  Nodes <- MCNodes
  Logins <- MCLogins
  MaxReplacements = 1
  Topologies <- MCTopologies
  Calls <- MCCalls
  Policy <- MCPolicy
  Reads_Back <- MCReadsBack
  CacheName <- MCCacheName
SPECIFICATION MCSpec
INVARIANTS SessionAgreed RequestsReadAsWritten FootersLocateFields ResponsesReadToTheEnd SettingsReadBack EveryQueryReported
PROPERTY CacheIsAMap
