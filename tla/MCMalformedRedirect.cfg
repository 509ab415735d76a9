CONSTANTS
  MaxWrites = 1
  MaxEmits = 2
  MaxReads = 1
  InCapacity = 1
  OutCapacity = 1
  Validates = FALSE
  BindingErrors = {"ERR_REFUSED", "ERR_INVALID_REF", "ERR_REF_NOT_FOUND", "CONTEXT_REQUIRED", "ERR_RUNTIME", "ERR_CONNECT_FAILED", "ERR_PROTOCOL", "ERR_RESPONSE_ERROR", "ERR_HTTP", "ERR_STREAM_ERROR"}
  MaxHops = 2
  Redirections = {TRUE}
  Operations <- MCOperations
  Asked <- MCRequests
SPECIFICATION ClientSpec
PROPERTY CallSettles
CHECK_DEADLOCK FALSE
