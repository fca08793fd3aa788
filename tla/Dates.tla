-------------------------------- MODULE Dates --------------------------------
(***************************************************************************)
(* Points of time: core::DateTime (usbprog-core/date.cc), which reads the  *)
(* dates of the index of firmwares, and bw::Datetime (libbw/datetime.cc)   *)
(* with the timegm() it brings along (libbw/ext/timegm/timegm.c).          *)
(*                                                                         *)
(* Times are minutes since 1970: seconds are to minutes what minutes are   *)
(* to hours.  Local time has summer time, by any rule, and with it hours   *)
(* that are missing and hours that come twice.                             *)
(***************************************************************************)
EXTENDS Integers, Sequences

CONSTANTS
  Offset,     \* minutes that standard time is ahead of UTC
  Summer(_),  \* whether it is summer time
  Texts,      \* what there is to parse: [year, month, day, hour, minute]
  Starts,     \* the times that a bw::Datetime starts from
  Additions,  \* [field, n]: addDays(n), addHours(n), addMinutes(n)
  MaxCalls    \* bound: calls of one bw::Datetime

\* struct tm, with a month in its range.
Times ==
  [year : Int, mon : 0 .. 11, mday : Int, wday : Int, hour : Int, min : Int, isdst : {-1, 0, 1}]

ASSUME DatesAssumption ==
  /\ Offset \in Int
  /\ Starts \subseteq Times
  /\ \A a \in Additions : a.field \in {"mday", "hour", "min"} /\ a.n \in Int
  /\ MaxCalls \in Nat

VARIABLES
  build,      \* which functions the C library has: strptime, timegm
  read,       \* a core::DateTime, if any: the text it was made from, the format, m_dateTime
  datetime,   \* or a bw::Datetime: time, tm and useUtc are its members
  wall,       \* history: what a clock on the wall shows that was set and moved as it
  exact,      \* history: wall is some time of day that local time has
  calls       \* how many calls it has had

dates == <<build, read, datetime, wall, exact, calls>>

-----------------------------------------------------------------------------
(* The C library                                                           *)

\* The first of a month, in days since 1970; tm_mon is 0 for January.
Days(year, mon) ==
  LET y == IF mon < 2 THEN year - 1 ELSE year
      m == (mon + 10) % 12
  IN  365 * y + y \div 4 - y \div 100 + y \div 400 + (153 * m + 2) \div 5 - 719468

NextMonth(year, mon) == IF mon = 11 THEN Days(year + 1, 0) ELSE Days(year, mon + 1)

\* The minutes of a struct tm, also when its fields are out of their ranges.
Minutes(tm) == ((Days(tm.year, tm.mon) + tm.mday - 1) * 24 + tm.hour) * 60 + tm.min

\* Where to look for the year of a day: 400 years have 146097 days.
Years(d) == LET y == 1970 + (400 * d) \div 146097 IN y - 1 .. y + 1

\* gmtime(), of a time that is isdst hours of summer time behind.
Broken(t, isdst) ==
  LET d    == t \div 1440
      year == CHOOSE y \in Years(d) : Days(y, 0) <= d /\ d < Days(y + 1, 0)
      mon  == CHOOSE m \in 0 .. 11 : Days(year, m) <= d /\ d < NextMonth(year, m)
  IN  [year |-> year, mon |-> mon, mday |-> d - Days(year, mon) + 1, wday |-> (d + 4) % 7,
       hour |-> (t % 1440) \div 60, min |-> t % 60, isdst |-> isdst]

Gmtime(t) == Broken(t, 0)

Isdst(t) == IF Summer(t) THEN 1 ELSE 0
Localtime(t) == Broken(t + Offset + 60 * Isdst(t), Isdst(t))

\* mktime(): tm_isdst says which time it is, or that the library is to find out.  It has a
\* choice when the hour is there twice or not at all.
Mktime(tm) ==
  LET of(isdst) == Minutes(tm) - Offset - 60 * isdst
      right     == {isdst \in {0, 1} : Isdst(of(isdst)) = isdst}
  IN  IF tm.isdst # -1 THEN {of(tm.isdst)}
      ELSE {of(isdst) : isdst \in IF right = {} THEN {0, 1} ELSE right}

HasHour(minutes) ==
  \E isdst \in {0, 1} : Isdst(minutes - Offset - 60 * isdst) = isdst

-----------------------------------------------------------------------------
(* The timegm() for systems that have none                                 *)

Leap(y) == y % 4 = 0 /\ (y % 100 # 0 \/ y % 400 = 0)

Ndays(y, mon) ==
  CASE mon = 1              -> IF Leap(y) THEN 29 ELSE 28
    [] mon \in {3, 5, 8, 10} -> 30
    [] OTHER                -> 31

\* A loop that adds numbers.
Total(numbers) ==
  LET sum[n \in 0 .. Len(numbers)] == IF n = 0 THEN 0 ELSE sum[n - 1] + numbers[n]
  IN  sum[Len(numbers)]

\* The days of the years and of the months before; it counts no years before 1970 (and
\* takes none before 1900).
YearDays(year) ==
  IF year > 1970 THEN Total([n \in 1 .. year - 1970 |-> IF Leap(1969 + n) THEN 366 ELSE 365])
  ELSE 0
MonthDays(year, mon) == Total([n \in 1 .. mon |-> Ndays(year, n - 1)])

\* 0 for what it calls an invalid structure, and the structure stays as it is.  (Additions
\* leave the month alone.)
BundledTimegm(tm) ==
  IF tm.mday > 31 \/ tm.min > 60 \/ tm.hour > 24 THEN 0
  ELSE ((YearDays(tm.year) + MonthDays(tm.year, tm.mon) + tm.mday - 1) * 24 + tm.hour) * 60
         + tm.min

Timegm(tm) == IF build.timegm THEN Minutes(tm) ELSE BundledTimegm(tm)

-----------------------------------------------------------------------------
(* core::DateTime                                                          *)

Formats == [short : BOOLEAN, time : BOOLEAN]

\* Texts are dates.
ASSUME TextsAssumption ==
  \A text \in Texts :
    /\ text.year \in Nat /\ text.month \in 1 .. 12
    /\ text.day \in 1 .. Ndays(text.year, text.month - 1)
    /\ text.hour \in 0 .. 23 /\ text.minute \in 0 .. 59

\* What of a text is there in a format.
InFormat(text, format) ==
  [year |-> IF format.short THEN text.year % 100 ELSE text.year,
   month |-> text.month, day |-> text.day,
   hour |-> IF format.time THEN text.hour ELSE 0,
   minute |-> IF format.time THEN text.minute ELSE 0]

\* memset() has made tm_isdst 0.
Tm(year, month, day, hour, minute, isdst) ==
  [year |-> year, mon |-> month - 1, mday |-> day, hour |-> hour, min |-> minute,
   isdst |-> isdst]

\* %y of strptime(): 69 is 1969.
Strptime(text, format) ==
  LET year == IF format.short THEN text.year + (IF text.year < 69 THEN 2000 ELSE 1900)
              ELSE text.year
  IN  Tm(year, text.month, text.day, text.hour, text.minute, 0)

\* (A wrong variant: tm_mon is not counted from 0.)
SscanfMonth(text, format) ==
  LET year == IF format.short THEN text.year + (IF text.year < 30 THEN 2000 ELSE 1900)
              ELSE text.year
  IN  Tm(year, text.month + 1, text.day, text.minute, text.hour, 0)

\* Without strptime() "%d:%d" is read into the minutes and then into the hours.
Sscanf(text, format) ==
  LET year == IF format.short THEN text.year + (IF text.year < 30 THEN 2000 ELSE 1900)
              ELSE text.year
  IN  Tm(year, text.month, text.day, text.minute, text.hour, 0)

\* setDateTime().
TimeOf(text, format) ==
  LET tm == IF build.strptime THEN Strptime(InFormat(text, format), format)
            ELSE Sscanf(InFormat(text, format), format)
  IN  CHOOSE t \in Mktime(tm) : TRUE

\* getDateTimeString().
DateTimeString(t, format) ==
  LET tm == Localtime(t)
  IN  InFormat([year |-> tm.year, month |-> tm.mon + 1, day |-> tm.mday,
                hour |-> tm.hour, minute |-> tm.min], format)

\* operator-; those that compare are the comparison of the same seconds.
Difference(a, b) == a - b

ReadText ==
  /\ read = {} /\ calls = 0
  /\ \E text \in Texts, format \in Formats :
       read' = {[text |-> text, format |-> format, time |-> TimeOf(text, format)]}
  /\ UNCHANGED <<build, datetime, wall, exact, calls>>

-----------------------------------------------------------------------------
(* bw::Datetime                                                            *)

New == calls = 0 /\ read = {}
May == calls \in 1 .. MaxCalls - 1

Shown(t, useUtc) == IF useUtc THEN Gmtime(t) ELSE Localtime(t)

Set(t, useUtc) ==
  /\ datetime' = [time |-> t, tm |-> Shown(t, useUtc), useUtc |-> useUtc]
  /\ wall' = Minutes(Shown(t, useUtc)) /\ exact' = TRUE

\* Datetime(time_t); Datetime(year, ..., utc), which shows local time whatever utc is.
Construct ==
  /\ New
  /\ \E tm \in Starts :
       \/ Set(Timegm(tm), FALSE)
       \/ \E t \in Mktime([tm EXCEPT !.isdst = -1]) : Set(t, FALSE)
  /\ calls' = 1
  /\ UNCHANGED <<build, read>>

\* strptime(), where tm_mon is passed on for the hour.
ParseDatetime ==
  /\ New /\ build.strptime
  /\ \E tm \in Starts :
       LET passed == [tm EXCEPT !.hour = tm.mon, !.isdst = -1]
       IN  Set(Timegm(passed), FALSE) \/ \E t \in Mktime(passed) : Set(t, FALSE)
  /\ calls' = 1
  /\ UNCHANGED <<build, read>>

\* Datetime(), also for what strptime() cannot read: nobody sets m_tm.
ConstructInvalid ==
  /\ New
  /\ \E tm \in Starts : datetime' = [time |-> 0, tm |-> tm, useUtc |-> FALSE]
  /\ wall' = 0 /\ exact' = FALSE
  /\ calls' = 1
  /\ UNCHANGED <<build, read>>

SetUseUtc(useUtc) ==
  /\ May
  /\ Set(datetime.time, useUtc)
  /\ calls' = calls + 1
  /\ UNCHANGED <<build, read>>

FieldsAdded(a) ==
  LET tm == datetime.tm
  IN  CASE a.field = "mday" -> [tm EXCEPT !.mday = @ + a.n]
        [] a.field = "hour" -> [tm EXCEPT !.hour = @ + a.n]
        [] a.field = "min"  -> [tm EXCEPT !.min = @ + a.n]

UnitOf(field) == CASE field = "mday" -> 1440 [] field = "hour" -> 60 [] field = "min" -> 1

\* What the fields may be, from 1970 on.
Normal(tm) ==
  /\ tm.year >= 1970
  /\ tm.mday \in 1 .. Ndays(tm.year, tm.mon)
  /\ tm.hour \in 0 .. 23 /\ tm.min \in 0 .. 59

\* (A wrong variant: summer time is what it was before.)
FillTimeKeepingDst(tm) ==
  IF datetime.useUtc
    THEN datetime' = [datetime EXCEPT !.time = Timegm(tm),
                                      !.tm = IF build.timegm THEN Gmtime(Timegm(tm)) ELSE tm]
    ELSE \E t \in Mktime(tm) : datetime' = [datetime EXCEPT !.time = t, !.tm = Localtime(t)]

\* timegm() and mktime() of the library bring the fields into their ranges.
FillTime(tm) ==
  LET new == [tm EXCEPT !.isdst = -1]
  IN  IF datetime.useUtc
        THEN datetime' = [datetime EXCEPT !.time = Timegm(new),
                                          !.tm = IF build.timegm THEN Gmtime(Timegm(new)) ELSE new]
        ELSE \E t \in Mktime(new) : datetime' = [datetime EXCEPT !.time = t, !.tm = Localtime(t)]

Add(a) ==
  /\ May
  /\ FillTime(FieldsAdded(a))
  /\ wall' = wall + a.n * UnitOf(a.field)
  /\ exact' = (exact /\ IF datetime.useUtc THEN build.timegm \/ Normal(FieldsAdded(a)) ELSE HasHour(wall'))
  /\ calls' = calls + 1
  /\ UNCHANGED <<build, read>>

DatesInit ==
  /\ build \in [strptime : BOOLEAN, timegm : BOOLEAN]
  /\ read = {}
  /\ datetime = [time |-> 0, tm |-> Gmtime(0), useUtc |-> FALSE]
  /\ wall = 0 /\ exact = FALSE /\ calls = 0

DatesNext ==
  \/ ReadText
  \/ Construct \/ ParseDatetime \/ ConstructInvalid
  \/ \E useUtc \in BOOLEAN : SetUseUtc(useUtc)
  \/ \E a \in Additions : Add(a)

DatesSpec == DatesInit /\ [][DatesNext]_dates

-----------------------------------------------------------------------------
(* Properties                                                              *)

Later(a, b) ==
  LET of(text) == Minutes(Tm(text.year, text.month, text.day, text.hour, text.minute, 0))
  IN  of(a) > of(b)

\* A date that is read is printed as it was, and in the same order as others, in summer
\* too, although it is read as one of standard time.  Of a time of day this is true outside
\* summer time, where strptime() is there.
DateTextKept ==
  \A r \in read : ~r.format.time \/ build.strptime =>
    LET text == InFormat(r.text, r.format)
    IN  /\ ~r.format.time \/ ~Summer(r.time) => DateTimeString(r.time, r.format) = text
        /\ ~r.format.short =>
             \A other \in Texts : Later(InFormat(other, r.format), text) =>
               Difference(TimeOf(other, r.format), r.time) > 0

\* What is added to a bw::Datetime moves the clock that it shows by just as much, over the
\* ends of months and years, leap days and the beginning and end of summer time, in any
\* order of additions and changes between UTC and local time; and the timestamp is the one
\* of what it shows.  Where the library has no timegm() this is true of UTC only from 1970 on,
\* while no addition has led out of the range of a field, and never of the weekday.
AdditionsShown ==
  exact =>
    LET shown == Shown(datetime.time, datetime.useUtc)
    IN  /\ Minutes(datetime.tm) = wall
        /\ \A field \in {"year", "mon", "mday", "hour", "min"} :
             datetime.tm[field] = shown[field]
        /\ build.timegm \/ ~datetime.useUtc => datetime.tm.wday = shown.wday
=============================================================================
