------------------------------ MODULE RetryAfter ------------------------------
(***************************************************************************)
(* How long a client waits before it asks again: parse_retry_after of      *)
(* src/http.c with the HTTP-date arithmetic under it.  A header value is   *)
(* "digits" (its digits, and whether only blanks follow) or "date" (the    *)
(* fields of one of the three formats; mon = 0 for one that does not       *)
(* parse).  An instant is a day number since 1970-01-01 and a second of    *)
(* the day, so that it fits TLC's integers; the source holds the product   *)
(* in an int64_t.                                                          *)
(***************************************************************************)
EXTENDS Sequences, FiniteSetsExt

MaxRetryAfter == 86400          \* WOLFCERT_HTTP_MAX_RETRY_AFTER
ClockFloor    == 20454          \* WOLFCERT_HTTP_CLOCK_FLOOR, 2026-01-01, as a day
SecondsPerDay == 86400
Centuries     == 0..9           \* as many as the clock can call for

(* date_to_unix_time without the time of day; \div rounds down, so that    *)
(* the source's correction of a negative year is not needed                *)
DateToDay_JanIsFirst(year, mon, day) ==
  LET era == year \div 400
      yoe == year % 400
      doy == (153 * (mon + (IF mon > 2 THEN -3 ELSE 9)) + 2) \div 5 + day - 1
  IN era * 146097 + yoe * 365 + yoe \div 4 - yoe \div 100 + doy - 719468

DateToDay(year, mon, day) ==
  LET y   == IF mon <= 2 THEN year - 1 ELSE year
      era == y \div 400
      yoe == y % 400
      doy == (153 * (mon + (IF mon > 2 THEN -3 ELSE 9)) + 2) \div 5 + day - 1
  IN era * 146097 + yoe * 365 + yoe \div 4 - yoe \div 100 + doy - 719468

Instant(year, mon, day, tod) ==
  [day |-> DateToDay(year, mon, day) + tod \div SecondsPerDay, sec |-> tod % SecondsPerDay]

NotAfter(a, b) == a.day < b.day \/ (a.day = b.day /\ a.sec <= b.sec)

Leap(year) == (year % 4 = 0 /\ year % 100 # 0) \/ year % 400 = 0

MonthDays == <<31, 29, 31, 30, 31, 30, 31, 31, 30, 31, 30, 31>>

(* A two-digit year more than 50 years ahead is the most recent past one:  *)
(* the first from 1900 on that lies less than 50 years back.               *)
FullYear_ThisCentury(d, now) == IF d.fmt = "rfc850" THEN 2000 + d.year ELSE d.year

FullYear(d, now) ==
  IF d.fmt = "rfc850"
  THEN Min({y \in {1900 + d.year + 100 * k : k \in Centuries} :
              ~NotAfter(Instant(y + 50, d.mon, d.day, d.tod), now)})
  ELSE d.year

(* http_date_to_unix_time: whether the date stands, and the instant        *)
DateValid(d, now) ==
  LET year == FullYear(d, now) IN
  /\ d.mon # 0
  /\ d.day \in 1..MonthDays[d.mon]
  /\ ~(d.mon = 2 /\ d.day = 29 /\ ~Leap(year))

DateInstant(d, now) == Instant(FullYear(d, now), d.mon, d.day, d.tod)

(* when - now in seconds; beyond three days the exact distance does not    *)
(* matter, the cap or zero takes its place                                 *)
Distance(when, now) ==
  Max({-3, Min({3, when.day - now.day})}) * SecondsPerDay + when.sec - now.sec

DigitsDelay_Unbounded(digits) ==
  LET v[n \in 0..Len(digits)] == IF n = 0 THEN 0 ELSE (v[n - 1] * 10 + digits[n]) % 131072
  IN v[Len(digits)]

DigitsAfter(digits) ==
  LET v[n \in 0..Len(digits)] ==
        IF n = 0 THEN 0
        ELSE IF v[n - 1] <= MaxRetryAfter THEN v[n - 1] * 10 + digits[n] ELSE v[n - 1]
  IN v

DigitsDelay(digits) == DigitsAfter(digits)[Len(digits)]

Delay(v, now) ==
  IF v.kind = "digits" THEN IF v.blankTail THEN DigitsDelay(v.digits) ELSE 0
  ELSE IF now.day >= ClockFloor /\ v.mon # 0 /\ DateValid(v, now) /\ DateInstant(v, now).day >= 0
  THEN Distance(DateInstant(v, now), now) ELSE 0

ParseRetryAfter(v, now) == Max({0, Min({MaxRetryAfter, Delay(v, now)})})
-----------------------------------------------------------------------------
(* The calendar, counted year by year                                      *)
LeapsBefore(year) ==
  Cardinality({y \in 1970..(year - 1) : Leap(y)}) - Cardinality({y \in year..1969 : Leap(y)})

DaysIn(year, mon) == IF mon = 2 /\ ~Leap(year) THEN 28 ELSE MonthDays[mon]

DaysUpTo(year) ==
  LET d[n \in 0..12] == IF n = 0 THEN 0 ELSE d[n - 1] + DaysIn(year, n) IN d

CalendarDay(year, mon, day) ==
  365 * (year - 1970) + LeapsBefore(year) + DaysUpTo(year)[mon - 1] + day - 1

(* The number a string of digits stands for                                *)
NumberAfter(digits) ==
  LET v[n \in 0..Len(digits)] == IF n = 0 THEN 0 ELSE v[n - 1] * 10 + digits[n] IN v

Number(digits) == NumberAfter(digits)[Len(digits)]

(* What a header can say and when it can be read: two digits for the day,  *)
(* two or four for the year, the month a name of the table or none, the    *)
(* time of day with a leap second.  The clock stands before the year 2800, *)
(* within the centuries that FullYear runs through.                        *)
DateFields ==
  [kind : {"date"}, fmt : {"imf", "rfc850", "asctime"}, year : Nat, mon : 0..12, day : 0..99,
   tod : 0..SecondsPerDay]

IsDate(v) == v \in DateFields /\ (v.fmt = "rfc850" => v.year <= 99)

Clock == [day : Int, sec : 0..(SecondsPerDay - 1)]

ClockEnd == CalendarDay(2800, 1, 1)

WaitCall(v, now) ==
  /\ now \in Clock /\ now.day < ClockEnd
  /\ \/ v \in [kind : {"digits"}, digits : Seq(0..9), blankTail : BOOLEAN]
     \/ IsDate(v)

(* A wait is never negative and never longer than a day, and it is what    *)
(* the header says: its number of seconds, or the time left until its      *)
(* date by the calendar; nothing when the date does not exist, when it is  *)
(* past or when the clock has not been set.  The year of the two-digit     *)
(* form is the last one that is not more than fifty years ahead.           *)
WaitsAsTold(v, now) ==
  LET wait == ParseRetryAfter(v, now)
      exact(year) == (CalendarDay(year, v.mon, v.day) - now.day) * SecondsPerDay + v.tod - now.sec
      near(year) == CalendarDay(year, v.mon, v.day) - now.day \in -3..3
      clip(n) == Max({0, Min({MaxRetryAfter, n})})
  IN IF v.kind = "digits"
     THEN wait = IF v.blankTail
                 THEN clip(Number(v.digits)) ELSE 0
     ELSE IF v.mon = 0 \/ now.day < ClockFloor THEN wait = 0
     ELSE LET year == IF v.fmt # "rfc850" THEN v.year
                      ELSE Max({y \in {1900 + v.year + 100 * k : k \in Centuries} :
                                  LET ago == CalendarDay(y - 50, v.mon, v.day) IN
                                  ago < now.day \/ (ago = now.day /\ v.tod <= now.sec)})
          IN IF v.day \notin 1..DaysIn(year, v.mon) THEN wait = 0
             ELSE IF near(year) THEN wait = clip(exact(year))
             ELSE wait = IF CalendarDay(year, v.mon, v.day) < now.day THEN 0 ELSE MaxRetryAfter
=============================================================================
