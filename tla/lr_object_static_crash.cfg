CONSTANTS
  Klasses <- MCKlasses
  ObjectKlass = "Object"
  InterfaceKlasses <- MCInterfaceKlasses
  AbstractKlasses <- MCAbstractKlasses
  SuperOf <- MCSuperOf
  LocalInterfaces <- MCLocalInterfaces
  PackageOf <- MCPackageOf
  Names <- MCNames
  Registries <- MCRegistriesObjectStatic
  NoKlass = "NoKlass"
  NoMethod = NoMethod
  Callers <- MCCallers
  AccSuperKlasses <- MCCallers
  AllowNonVirtualCalls = FALSE
  Null = Null
  FieldNames <- MCFieldNames
  FieldRegistries <- MCNoFieldRegistries
SPECIFICATION ResolutionSpec
INVARIANT ResolutionNeverCrashes
