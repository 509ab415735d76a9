SPECIFICATION TopicSpec
CONSTANTS
  MaxWrites = 1
  MaxEmits = 2
  MaxReads = 1
  InCapacity = 1
  OutCapacity = 1
  Validates = FALSE
  BindingErrors = {"ERR_REFUSED", "ERR_INVALID_REF", "ERR_REF_NOT_FOUND", "CONTEXT_REQUIRED", "ERR_RUNTIME", "ERR_CONNECT_FAILED", "ERR_PROTOCOL", "ERR_RESPONSE_ERROR", "ERR_HTTP", "ERR_STREAM_ERROR"}
  MaxHops = 2
  Redirections = {FALSE}
  Operations <- MCOperations
  Asked <- MCRequests
  Requests <- MCChained
  Hosts <- MCHosts
  Answers <- MCAnswers
  AdapterRefusals <- MCAdapterRefusals
  MaxHeaders <- MCMaxHeaders
  MaxHeaderBytes <- MCMaxHeaderBytes
  MaxBody <- MCMaxBody
  Secure <- MCSecure
  MaxRedirects <- MCMaxRedirects
  MaxPairs <- MCMaxPairs
  None = None
  Absent = Absent
  b1 = b1
  b2 = b2
  Builders <- MCBuilders
  Inputs <- MCInputs
  Layouts <- MCLayouts
  KeyOf <- MCKeyOf
  Root <- MCRoot
  MaxResources <- MCMaxResources
  MaxBytes <- MCMaxBytes
  MaxIdentities <- MCMaxIdentities
  MaxLayouts <- MCMaxLayouts
  MaxMetadata <- MCMaxMetadata
  MaxHeap <- MCMaxHeap
  MaxDocs <- MCMaxDocs
INVARIANTS
  CredentialsAreConfined
  ChainIsConfined
  CallIsAccounted
  RefusalsTouchNothing
  RunIsAccounted
  GraphIsSound
PROPERTIES
  CallSettles
  NothingSentAfterTheEnd
  TornDown
  ImplementsResourceSets
CHECK_DEADLOCK FALSE
