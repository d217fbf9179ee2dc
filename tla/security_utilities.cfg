CONSTANTS
  INADDR16SZ = 8
  LongMax = 2147483647
  Null = Null
  V4Inputs <- MCV4Inputs
  V6Inputs <- MCV6Inputs
  URLs <- MCURLs
  HostStrings <- MCHostStrings
  MAX_LABEL_LENGTH = 3
  ExpectedNames <- MCExpectedNames
  Certs <- MCCerts
  HostNameLists <- MCHostNameLists
  ParseInputs <- MCParseInputs
  LdNull = LdNull
  MhNoMethod = MhNoMethod
SPECIFICATION SecSpec
INVARIANT SNITypeOK
INVARIANT V4MatchesDottedDecimal
INVARIANT V6MatchesRFC4291
INVARIANT AuthorityCheckRejectsCommentedCharacters
INVARIANT HostStringCheckRejectsCommentedCharacters
INVARIANT DNSNameMatchFollowsRFC2818
INVARIANT IPNameMatchesOnlyIPAltNames
INVARIANT SNIClientHostNameReachesPeer
INVARIANT SNIParseAcceptsExactlyFramedLists
INVARIANT CBTypeOK
INVARIANT BuildGivesRequestedCalendar
INVARIANT LdTypeOK
INVARIANT DependencyRecorded
PROPERTY ImplementsDependencySet
PROPERTY AllRecordingsReturn
INVARIANT MHTypeOK
INVARIANT LinkedMethodMatchesCallSite
INVARIANT CompilerAgreesWithInterpreter
