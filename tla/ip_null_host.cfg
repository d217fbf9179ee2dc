CONSTANTS
  INADDR16SZ = 8
  LongMax = 2147483647
  Null = Null
  V4Inputs <- MCV4Inputs
  V6Inputs <- MCV6Inputs
  URLs <- MCURLsNullHost
  HostStrings <- MCHostStrings
SPECIFICATION Spec
INVARIANT CheckAuthorityReturnsVerdict
