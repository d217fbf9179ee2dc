CONSTANTS
  INADDR16SZ = 8
  LongMax = 2147483647
  Null = Null
  V4Inputs <- MCV4Inputs
  V6Inputs <- MCV6Inputs
  URLs <- MCURLs
  HostStrings <- MCHostStrings
  MAX_LABEL_LENGTH = 3
  ExpectedNames <- MCDNSNamesIdeographic
  Certs <- MCCertsWildcard
SPECIFICATION HCSpec
INVARIANT DNSNameMatchFollowsRFC2818
