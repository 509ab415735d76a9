SPECIFICATION EndsSpec
CONSTANTS
  None = None
  Requests <- MCRequests
  Hosts <- MCHosts
  Answers <- MCAnswers
  AdapterRefusals <- MCAdapterRefusals
  MaxHeaders <- MCMaxHeaders
  MaxHeaderBytes <- MCMaxHeaderBytes
  MaxBody <- MCMaxBody
  Replies <- MCReplies
  MaxWrites = 2
  MaxEmits = 3
  MaxReads = 2
  InCapacity = 1
  OutCapacity = 1
  Validates = TRUE
  BindingErrors = {"ERR_BINDING"}
INVARIANTS
  NativeIsHonest
  DeliveryIsSound
PROPERTIES
  NativeIsCancellable
  NobodyWaitsForEver
  StreamEndsOnce
CHECK_DEADLOCK FALSE
