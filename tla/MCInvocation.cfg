SPECIFICATION ExchangeSpec
CONSTANTS
  None = None
  Requests <- MCRequests
  Hosts <- MCHosts
  Answers <- MCAnswers
  AdapterRefusals <- MCAdapterRefusals
  MaxHeaders <- MCMaxHeaders
  MaxHeaderBytes <- MCMaxHeaderBytes
  MaxBody <- MCMaxBody
  Heads <- MCHeads
  ChunkSizes <- MCChunkSizes
  YieldEvery <- MCYieldEvery
INVARIANTS
  OutcomeIsHonest
  FetchIsHonest
PROPERTIES
  CancellationIsReported
  FetchIsCancellable
CHECK_DEADLOCK FALSE
