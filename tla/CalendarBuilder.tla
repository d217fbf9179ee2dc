--------------------------- MODULE CalendarBuilder ---------------------------
(***************************************************************************)
(* DisabledAlgorithmConstraints.CalendarBuilder, a copy of                *)
(* java.util.Calendar.Builder that DenyAfterConstraint uses to turn a     *)
(* denyAfter date into a Calendar.  A caller creates a builder, calls its *)
(* setters (each may throw, and the caller may go on), builds, and drops  *)
(* it.                                                                     *)
(*                                                                         *)
(* The int[] fields of the code holds the stamps in its lower half and    *)
(* the values in its upper half; here they are the functions stamp and    *)
(* val over 0..NFIELDS-1.  ints are IntBits wide, so that the stamp       *)
(* counter overflows after a few sets.  A Calendar is the record of the   *)
(* calls build makes on it.                                                *)
(***************************************************************************)
EXTENDS Integers, Sequences, SequencesExt, FiniteSets

CONSTANTS
  IntBits,        \* width of a Java int (32 in the code)
  Null,
  DefaultLocale,  \* Locale.getDefault(): [language, country, ca, firstDayOfWeek, minimalDays]
  DefaultZone,    \* TimeZone.getDefault()
  MaxCalls,       \* calls made on one builder
  Values, Instants, Zones, Locales, CalendarTypes, WeekParameters

VARIABLES
  builder,  \* the builder's fields, or NoBuilder
  out,      \* the last call: its name, what it threw and the Calendar built
  api,      \* the field writes of the calls that returned, the instant set, and whether none threw
  calls

cbVars == <<builder, out, api, calls>>

(* java.util.Calendar field numbers *)
YEAR == 1
MONTH == 2
WEEK_OF_YEAR == 3
DAY_OF_MONTH == 5
DAY_OF_WEEK == 7
FIELD_COUNT == 17
MONDAY == 2

NFIELDS == FIELD_COUNT + 1
WEEK_YEAR == FIELD_COUNT
UNSET == 0
COMPUTED == 1
MINIMUM_USER_STAMP == 2

None == "none"
IAE == "IllegalArgumentException"
ISE == "IllegalStateException"
NPE == "NullPointerException"

AvailableCalendarTypes == {"gregory", "buddhist", "japanese"}

(* Two's complement wrap-around of an IntBits-wide int. *)
Wrap(x) == LET m == 2^IntBits IN ((x + m \div 2) % m) - m \div 2

Idx == 0..(NFIELDS - 1)

NoBuilder == [none |-> TRUE]

(* new CalendarBuilder(): every field at its Java default. *)
NewBuilder ==
  [fields |-> FALSE, stamp |-> [i \in Idx |-> 0], val |-> [i \in Idx |-> 0],
   nextStamp |-> 0, maxFieldIndex |-> 0, instant |-> 0, type |-> Null, zone |-> Null,
   lenient |-> TRUE, locale |-> Null, firstDayOfWeek |-> 0, minimalDaysInFirstWeek |-> 0]

R(bb, thrown) == [b |-> bb, thrown |-> thrown]

IsInstantSet(bb) == bb.nextStamp = COMPUTED
IsSet(bb, index) == bb.fields /\ bb.stamp[index] > UNSET
IsValidWeekParameterUnbounded(v) == v > 0
IsValidWeekParameter(v) == v > 0 /\ v <= 7

AllocateFields(bb) ==
  IF bb.fields THEN bb
  ELSE [bb EXCEPT !.fields = TRUE, !.stamp = [i \in Idx |-> 0], !.val = [i \in Idx |-> 0],
                  !.nextStamp = MINIMUM_USER_STAMP, !.maxFieldIndex = -1]

InternalSetUnchecked(bb, field, value) ==
  LET b1 == [bb EXCEPT !.stamp[field] = bb.nextStamp, !.nextStamp = Wrap(bb.nextStamp + 1)]
  IN  R([b1 EXCEPT !.val[field] = value,
                   !.maxFieldIndex = IF field > @ /\ field < WEEK_YEAR THEN field ELSE @], None)

(* fields[field] = nextStamp++; the overflow test comes after the stamp   *)
(* is stored and before the value is.                                     *)
InternalSet(bb, field, value) ==
  LET b1 == [bb EXCEPT !.stamp[field] = bb.nextStamp, !.nextStamp = Wrap(bb.nextStamp + 1)]
  IN  IF b1.nextStamp < 0 THEN R(b1, ISE)
      ELSE R([b1 EXCEPT !.val[field] = value,
                        !.maxFieldIndex = IF field > @ /\ field < WEEK_YEAR THEN field ELSE @], None)

(* The loop of setFields from pair i on. *)
RECURSIVE SetPairs(_, _, _)
SetPairs(bb, pairs, i) ==
  IF i > Len(pairs) THEN R(bb, None)
  ELSE IF pairs[i] < 0 \/ pairs[i] >= FIELD_COUNT THEN R(bb, IAE)
  ELSE LET r == InternalSet(bb, pairs[i], pairs[i + 1]) IN
       IF r.thrown # None THEN r ELSE SetPairs(r.b, pairs, i + 2)

SetInstant(bb, instant) ==
  IF bb.fields THEN R(bb, ISE)
  ELSE R([bb EXCEPT !.instant = instant, !.nextStamp = COMPUTED], None)

Set(bb, field, value) ==
  IF field < 0 \/ field >= FIELD_COUNT THEN R(bb, IAE)
  ELSE IF IsInstantSet(bb) THEN R(bb, ISE)
  ELSE InternalSet(AllocateFields(bb), field, value)

SetFields(bb, pairs) ==
  IF Len(pairs) % 2 # 0 THEN R(bb, IAE)
  ELSE IF IsInstantSet(bb) THEN R(bb, ISE)
  ELSE IF Wrap(bb.nextStamp + Len(pairs) \div 2) < 0 THEN R(bb, ISE)
  ELSE SetPairs(AllocateFields(bb), pairs, 1)

SetDate(bb, year, month, dayOfMonth) ==
  SetFields(bb, <<YEAR, year, MONTH, month, DAY_OF_MONTH, dayOfMonth>>)

SetWeekDate(bb, weekYear, weekOfYear, dayOfWeek) ==
  LET r1 == InternalSet(AllocateFields(bb), WEEK_YEAR, weekYear)
      r2 == InternalSet(r1.b, WEEK_OF_YEAR, weekOfYear)
  IN  IF r1.thrown # None THEN r1
      ELSE IF r2.thrown # None THEN r2
      ELSE InternalSet(r2.b, DAY_OF_WEEK, dayOfWeek)

SetTimeZone(bb, zone) ==
  IF zone = Null THEN R(bb, NPE) ELSE R([bb EXCEPT !.zone = zone], None)

SetLenient(bb, lenient) == R([bb EXCEPT !.lenient = lenient], None)

SetCalendarType(bb, type) ==
  IF type = Null THEN R(bb, NPE)
  ELSE LET t == IF type = "gregorian" THEN "gregory" ELSE type IN
       IF t \notin AvailableCalendarTypes /\ t # "iso8601" THEN R(bb, IAE)
       ELSE IF bb.type = Null THEN R([bb EXCEPT !.type = t], None)
       ELSE IF bb.type # t THEN R(bb, ISE)
       ELSE R(bb, None)

SetLocale(bb, locale) ==
  IF locale = Null THEN R(bb, NPE) ELSE R([bb EXCEPT !.locale = locale], None)

SetWeekDefinition(bb, firstDayOfWeek, minimalDaysInFirstWeek) ==
  IF ~IsValidWeekParameter(firstDayOfWeek) \/ ~IsValidWeekParameter(minimalDaysInFirstWeek)
  THEN R(bb, IAE)
  ELSE R([bb EXCEPT !.firstDayOfWeek = firstDayOfWeek,
                    !.minimalDaysInFirstWeek = minimalDaysInFirstWeek], None)

(* build's loop: for each stamp from MINIMUM_USER_STAMP up, the first   *)
(* index at most maxFieldIndex that carries it, and cal.set(index, value). *)
Replay(bb) ==
  LET stamps == [k \in 1..(bb.nextStamp - MINIMUM_USER_STAMP) |-> MINIMUM_USER_STAMP + k - 1]
      holder(s) == {i \in 0..bb.maxFieldIndex : bb.stamp[i] = s}
      hit == SelectSeq(stamps, LAMBDA s : holder(s) # {})
  IN  [k \in DOMAIN hit |-> LET i == Min(holder(hit[k])) IN <<i, bb.val[i]>>]

NoCalendar == Null

(* The Calendar a build returns: its type, leniency, week definition, the *)
(* instant given to setTimeInMillis, the set calls and setWeekDate.        *)
Calendar(type, bb, fdw, mdw, time, sets, weekDate) ==
  [type |-> type, zone |-> bb.zone, locale |-> bb.locale, lenient |-> bb.lenient,
   firstDayOfWeek |-> fdw, minimalDays |-> mdw, time |-> time, sets |-> sets, weekDate |-> weekDate]

(* build().  GregorianCalendar supports week dates, so the               *)
(* isWeekDateSupported test never throws for the two types built.         *)
Build(bb) ==
  LET b1 == [bb EXCEPT !.locale = IF @ = Null THEN DefaultLocale ELSE @,
                       !.zone   = IF @ = Null THEN DefaultZone ELSE @]
      t0 == IF b1.type = Null THEN b1.locale.ca ELSE b1.type
      t  == IF t0 # Null THEN t0
            ELSE IF b1.locale.country = "TH" /\ b1.locale.language = "th" THEN "buddhist"
            ELSE "gregory"
      b2 == [b1 EXCEPT !.type = t]
      b3 == IF t = "iso8601"
            THEN [b2 EXCEPT !.firstDayOfWeek = MONDAY, !.minimalDaysInFirstWeek = 4]
            ELSE b2
      fdw == IF b3.firstDayOfWeek # 0 THEN b3.firstDayOfWeek ELSE b3.locale.firstDayOfWeek
      mdw == IF b3.firstDayOfWeek # 0 THEN b3.minimalDaysInFirstWeek ELSE b3.locale.minimalDays
      weekDate == IsSet(b3, WEEK_YEAR) /\ b3.stamp[WEEK_YEAR] > b3.stamp[YEAR]
      wd == <<b3.val[WEEK_YEAR],
              IF IsSet(b3, WEEK_OF_YEAR) THEN b3.val[WEEK_OF_YEAR] ELSE 1,
              IF IsSet(b3, DAY_OF_WEEK) THEN b3.val[DAY_OF_WEEK] ELSE fdw>>
  IN  IF t \notin {"gregory", "iso8601"} THEN [b |-> b2, thrown |-> IAE, cal |-> NoCalendar]
      ELSE [b |-> b3, thrown |-> None,
            cal |-> IF IsInstantSet(b3) THEN Calendar(t, b3, fdw, mdw, b3.instant, <<>>, Null)
                    ELSE IF ~b3.fields THEN Calendar(t, b3, fdw, mdw, Null, <<>>, Null)
                    ELSE Calendar(t, b3, fdw, mdw, Null, Replay(b3),
                                  IF weekDate THEN wd ELSE Null)]

-----------------------------------------------------------------------------
(* The caller.  api records what the calls asked for: the field writes   *)
(* of the calls that returned normally, the instant, and whether no call *)
(* has thrown; out.clean is whether none had before the last call.       *)

NoOut == [op |-> "none", thrown |-> None, clean |-> TRUE, cal |-> NoCalendar]
FreshApi == [writes |-> <<>>, instant |-> Null, clean |-> TRUE]

CBInit ==
  /\ builder = NoBuilder
  /\ out = NoOut
  /\ api = FreshApi
  /\ calls = 0

New ==
  /\ builder = NoBuilder
  /\ builder' = NewBuilder
  /\ out' = NoOut
  /\ api' = FreshApi
  /\ calls' = 0

Drop ==
  /\ builder # NoBuilder
  /\ builder' = NoBuilder
  /\ out' = NoOut
  /\ api' = FreshApi
  /\ calls' = 0

(* A call returned r; writes are the (field, value) pairs it asked for.  *)
Called(op, r, writes, instant) ==
  /\ builder' = r.b
  /\ out' = [op |-> op, thrown |-> r.thrown, clean |-> api.clean,
             cal |-> IF "cal" \in DOMAIN r THEN r.cal ELSE NoCalendar]
  /\ api' = IF r.thrown = None
            THEN [api EXCEPT !.writes = @ \o writes, !.instant = IF instant # Null THEN instant ELSE @]
            ELSE [api EXCEPT !.clean = FALSE]
  /\ calls' = calls + 1

Pairs(p) == [k \in 1..(Len(p) \div 2) |-> <<p[2 * k - 1], p[2 * k]>>]

(* The setFields arguments: setDate, one pair, an odd count, and a bad  *)
(* field after a good one.                                                *)
FieldArgs == {<<YEAR, v, MONTH, v, DAY_OF_MONTH, 1>> : v \in Values} \cup
             {<<MONTH, 1>>, <<YEAR>>, <<YEAR, 0, FIELD_COUNT, 0>>}

CallSetInstant == \E v \in Instants : Called("setInstant", SetInstant(builder, v), <<>>, v)
CallSet == \E f \in {-1, YEAR, FIELD_COUNT}, v \in Values :
             Called("set", Set(builder, f, v), <<<<f, v>>>>, Null)
CallSetFields == \E p \in FieldArgs : Called("setFields", SetFields(builder, p), Pairs(p), Null)
CallSetWeekDate == \E v \in Values :
  Called("setWeekDate", SetWeekDate(builder, v, v + 1, v + 2),
         <<<<WEEK_YEAR, v>>, <<WEEK_OF_YEAR, v + 1>>, <<DAY_OF_WEEK, v + 2>>>>, Null)
CallSetTimeZone == \E z \in Zones \cup {Null} : Called("setTimeZone", SetTimeZone(builder, z), <<>>, Null)
CallSetLenient == Called("setLenient", SetLenient(builder, FALSE), <<>>, Null)
CallSetCalendarType == \E t \in CalendarTypes \cup {Null} :
  Called("setCalendarType", SetCalendarType(builder, t), <<>>, Null)
CallSetLocale == \E l \in Locales \cup {Null} : Called("setLocale", SetLocale(builder, l), <<>>, Null)
CallSetWeekDefinition == \E f, m \in WeekParameters :
  Called("setWeekDefinition", SetWeekDefinition(builder, f, m), <<>>, Null)
CallBuild == Called("build", Build(builder), <<>>, Null)

CBNext ==
  \/ New
  \/ Drop
  \/ /\ builder # NoBuilder
     /\ calls < MaxCalls
     /\ \/ CallSetInstant \/ CallSet \/ CallSetFields \/ CallSetWeekDate
        \/ CallSetTimeZone \/ CallSetLenient \/ CallSetCalendarType
        \/ CallSetLocale \/ CallSetWeekDefinition \/ CallBuild

CBSpec == CBInit /\ [][CBNext]_cbVars

-----------------------------------------------------------------------------
(* What the calls asked for, from their arguments alone.                  *)

(* The position of the last write of field f, or 0. *)
LastPos(w, f) == LET ks == {k \in DOMAIN w : w[k][1] = f} IN IF ks = {} THEN 0 ELSE Max(ks)

(* The last write of each field but WEEK_YEAR, in the order of those writes. *)
LastWrites(w) ==
  LET ks == SelectSeq([k \in DOMAIN w |-> k],
                      LAMBDA k : w[k][1] # WEEK_YEAR /\ LastPos(w, w[k][1]) = k)
  IN  [j \in DOMAIN ks |-> w[ks[j]]]

(* A week date applies when the week year was written after the year.   *)
ExpectedWeekDate(w, fdw) ==
  IF LastPos(w, WEEK_YEAR) > LastPos(w, YEAR)
  THEN <<w[LastPos(w, WEEK_YEAR)][2],
         IF LastPos(w, WEEK_OF_YEAR) > 0 THEN w[LastPos(w, WEEK_OF_YEAR)][2] ELSE 1,
         IF LastPos(w, DAY_OF_WEEK) > 0 THEN w[LastPos(w, DAY_OF_WEEK)][2] ELSE fdw>>
  ELSE Null

Built == out.op = "build" /\ out.thrown = None

CalendarRecords ==
  [type : {"gregory", "iso8601"}, zone : Zones, locale : Locales \cup {DefaultLocale},
   lenient : BOOLEAN, firstDayOfWeek : 1..7, minimalDays : 1..7,
   time : Instants \cup {Null}, sets : Seq((0..(FIELD_COUNT - 1)) \X Int),
   weekDate : {Null} \cup (Int \X Int \X Int)]

CBTypeOK ==
  /\ builder = NoBuilder \/ builder.nextStamp \in -(2^(IntBits - 1))..(2^(IntBits - 1) - 1)
  /\ out.thrown \in {None, IAE, ISE, NPE}
  /\ Built => out.cal \in CalendarRecords
  /\ calls \in 0..MaxCalls

(***************************************************************************)
(* A build on a builder none of whose calls threw gives the Calendar the  *)
(* calls asked for: the instant when only setInstant was called;          *)
(* otherwise the last value written to each field, set in the order of   *)
(* those writes (so later writes win in Calendar's resolution), and the  *)
(* week date when the week year was written after the year.  This rests *)
(* on the stamps of setFields, set and setWeekDate, on maxFieldIndex and  *)
(* on the overflow tests of the stamp counter.  A setWeekDate after      *)
(* setInstant is left out here (see InstantAndFieldsNotMixed).           *)
(***************************************************************************)
BuildGivesRequestedCalendar ==
  Built /\ out.clean /\ ~(api.instant # Null /\ api.writes # <<>>) =>
    /\ out.cal.time = api.instant
    /\ out.cal.sets = LastWrites(api.writes)
    /\ out.cal.weekDate = ExpectedWeekDate(api.writes, out.cal.firstDayOfWeek)

(***************************************************************************)
(* The class comment (Calendar.Builder): the instant and individual field *)
(* parameters "can't be mixed.  Trying to set both the instant and        *)
(* individual fields will cause an IllegalStateException to be thrown."   *)
(* So no builder has both an instant from a setInstant that returned and *)
(* a field write from a setter that returned.  set and setFields test    *)
(* isInstantSet and setInstant tests fields; setWeekDate tests neither.  *)
(***************************************************************************)
InstantAndFieldsNotMixed == ~(api.instant # Null /\ api.writes # <<>>)

(***************************************************************************)
(* build returns a Calendar for every calendar type setCalendarType      *)
(* accepts and for every default a locale gives (the class comment builds *)
(* a Japanese calendar; DenyAfterConstraint builds one under the default *)
(* locale).                                                               *)
(***************************************************************************)
BuildAcceptsEveryAcceptedType ==
  out.op = "build" /\ out.clean => out.thrown = None

====
