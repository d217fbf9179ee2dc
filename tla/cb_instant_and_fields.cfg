CONSTANTS
  IntBits = 4
  Null = Null
  DefaultLocale <- LocaleUS
  DefaultZone = "Default"
  MaxCalls = 4
  Values = {0, 1}
  Instants = {5}
  Zones <- MCZones
  Locales <- MCLocalesAll
  CalendarTypes <- MCCalendarTypesAll
  WeekParameters = {2, 8}
SPECIFICATION CBSpec
INVARIANT InstantAndFieldsNotMixed
