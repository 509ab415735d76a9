SPECIFICATION ThreadSpec
CONSTANTS
  w1 = w1
  w2 = w2
  c1 = c1
  c2 = c2
  k1 = k1
  k2 = k2
  o1 = o1
  o2 = o2
  o3 = o3
  t1 = t1
  t2 = t2
  t3 = t3
  None = None
  Empty = Empty
  Waits <- MCWaits
  Cancellers <- MCCancellers
  Wakers <- MCWakers
  Inline <- MCInline
  Operations <- MCOperations
  Calls <- MCCalls
  CachedOperations = 1
  Broken <- MCBroken
  Undeclared <- MCUndeclared
  Prompt <- MCPrompt
INVARIANTS
  TokenIsSafe
  CacheIsSafe
PROPERTIES
  SignalIsKept
  CacheIsPrompt
CHECK_DEADLOCK FALSE
