CONSTANTS
  L1 = L1
  L2 = L2
  L3 = L3
  t1 = t1
  t2 = t2
  NoClass = NoClass
  NoRequest = NoRequest
  NoThread = NoThread
  Loaders <- MCLoaders
  Names <- MCNames
  Yields <- MCYields
  Threads <- MCThreads
  Requests <- MCRequests
SPECIFICATION LCSpec
INVARIANT InitializesOnlyLinkedAccess
