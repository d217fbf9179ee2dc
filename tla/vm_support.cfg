CONSTANTS
  Threads <- MCThreads
  Klasses <- MCKlasses
  ObjectKlass = "Object"
  SuperOf <- MCSuperOf
  NoKlass = "NoKlass"
  NoThread = NoThread
  Programs <- MCPrograms
  PdNull = PdNull
  LcNoClass = LcNoClass
  LcNoRequest = LcNoRequest
  IndyNullTarget = IndyNullTarget
  IndyNoResult = IndyNoResult
SPECIFICATION VMSpec
INVARIANT LinkedTypesAgree
INVARIANT HookConnectsEveryTocCall
INVARIANT InitializerRunsOnceAndResultsHold
INVARIANT WaitsOnlyOnLiveInitializer
INVARIANT IndyTypeOK
PROPERTY EveryAccessCompletes
PROPERTY ImplementsCallSite
CHECK_DEADLOCK FALSE
