-------------------------- MODULE MC_CalendarBuilder --------------------------
(***************************************************************************)
(* Inputs for CalendarBuilder: a US default locale, a Thai one, one with *)
(* the Unicode extension ca-japanese; GMT and a default zone; every       *)
(* calendar type class of setCalendarType; valid and invalid week        *)
(* parameters.  With 4-bit ints the stamp counter overflows on the sixth *)
(* field write, within a few calls.                                       *)
(***************************************************************************)
EXTENDS CalendarBuilder

LocaleUS == [language |-> "en", country |-> "US", ca |-> Null, firstDayOfWeek |-> 1, minimalDays |-> 1]
LocaleTH == [language |-> "th", country |-> "TH", ca |-> Null, firstDayOfWeek |-> 1, minimalDays |-> 1]
LocaleJP == [language |-> "ja", country |-> "JP", ca |-> "japanese", firstDayOfWeek |-> 1, minimalDays |-> 1]

MCLocales == {LocaleTH}
MCLocalesAll == {LocaleUS, LocaleTH, LocaleJP}
MCZones == {"GMT", "Default"}
MCCalendarTypes == {"gregorian", "iso8601", "julian"}
MCCalendarTypesAll == {"gregorian", "iso8601", "japanese", "julian"}

====
