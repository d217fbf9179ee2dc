CONSTANTS
  Klasses <- MCKlasses
  ObjectKlass = "Object"
  InterfaceKlasses <- MCInterfaceKlasses
  AbstractKlasses <- MCAbstractKlasses
  SuperOf <- MCSuperOf
  LocalInterfaces <- MCLocalInterfaces
  PackageOf <- MCPackageOf
  Names <- MCNames
  Registries <- MCRegistries
  NoKlass = "NoKlass"
  NoMethod = NoMethod
  Callers <- MCCallers
  AccSuperKlasses = {}
  AllowNonVirtualCalls = FALSE
  Null = Null
  FieldNames <- MCFieldNames
  FieldRegistries <- MCNoFieldRegistries
SPECIFICATION ResolutionSpec
INVARIANT DispatchMatchesJVMS
