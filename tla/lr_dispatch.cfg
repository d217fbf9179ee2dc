CONSTANTS
  Klasses <- MCKlasses
  ObjectKlass = "Object"
  InterfaceKlasses <- MCInterfaceKlasses
  AbstractKlasses <- MCAbstractKlasses
  SuperOf <- MCSuperOf
  LocalInterfaces <- MCLocalInterfaces
  PackageOf <- MCPackageOf
  Names <- MCNames
  Registries <- MCRegistries
  NoKlass = "NoKlass"
  NoMethod = NoMethod
  Callers <- MCCallers
  AccSuperKlasses <- MCCallers
  AllowNonVirtualCalls = FALSE
  Null = Null
  FieldNames <- MCFieldNames
  FieldRegistries <- MCFieldRegistries
SPECIFICATION ResolutionSpec
INVARIANTS TypeOK DispatchMatchesJVMS InitializedBeforeStaticCall InitializedBeforeStaticFieldAccess
INVARIANTS FinalFieldPutOnlyFromDeclaringClass
PROPERTIES InitTargetsDeclaringClass
