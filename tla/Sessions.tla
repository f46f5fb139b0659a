------------------------------- MODULE Sessions -------------------------------
(***************************************************************************)
(* The built-in US equity calendar of qts.calendar.sessions as operators.    *)
(* A date is its proleptic ordinal (day 1 is the 1st of January of year 1, a *)
(* Monday), a time is UTC minutes since day 0, and a time of day is local    *)
(* minutes after midnight.  Weekdays count from Monday, 0.                   *)
(***************************************************************************)
EXTENDS Integers, FiniteSets, FiniteSetsExt

Hhmm(hour, minute) == hour * 60 + minute

EARLY_CLOSE_TIME == Hhmm(13, 0)

(* DEFAULT_MARKET_SESSION_CONFIG, and the same with extended hours. *)
DefaultSessionConfig ==
  [regular_open |-> Hhmm(9, 30), regular_close |-> Hhmm(16, 0), regular_session_only |-> TRUE,
   extended_hours |-> FALSE,
   premarket_open |-> Hhmm(4, 0), after_hours_close |-> Hhmm(20, 0)]
-----------------------------------------------------------------------------
(* Python's dates and zones. *)
IsLeap(year) == year % 4 = 0 /\ (year % 100 # 0 \/ year % 400 = 0)

DaysBefore(year, month) ==
  LET days == <<0, 31, 59, 90, 120, 151, 181, 212, 243, 273, 304, 334>>
  IN  days[month] + (IF month > 2 /\ IsLeap(year) THEN 1 ELSE 0)

Date(year, month, day) ==
  LET y == year - 1
  IN  365 * y + y \div 4 - y \div 100 + y \div 400 + DaysBefore(year, month) + day

Year(date) ==
  CHOOSE y \in (date \div 366)..(date \div 365 + 1) : Date(y, 1, 1) <= date /\ date < Date(y + 1, 1, 1)

Weekday(date) == (date + 6) % 7
-----------------------------------------------------------------------------
nth_weekday(year, month, weekday, n) ==
  LET first == Date(year, month, 1)
  IN  first + ((weekday - Weekday(first)) % 7) + (n - 1) * 7

last_weekday(year, month, weekday) ==
  Max({date \in (Date(year, month + 1, 1) - 7)..(Date(year, month + 1, 1) - 1) :
         Weekday(date) = weekday})

(* Mistake: a holiday on a Sunday is not observed on Monday. *)
observed_on_friday_only(year, month, day) ==
  LET actual == Date(year, month, day)
  IN  IF Weekday(actual) = 5 THEN actual - 1 ELSE actual

observed_fixed(year, month, day) ==
  LET actual == Date(year, month, day)
  IN  CASE Weekday(actual) = 5 -> actual - 1
        [] Weekday(actual) = 6 -> actual + 1
        [] OTHER               -> actual

thanksgiving(year) == nth_weekday(year, 11, 3, 4)

easter(year) ==
  LET a == year % 19
      b == year \div 100
      c == year % 100
      h == (19 * a + b - b \div 4 - (b - (b + 8) \div 25 + 1) \div 3 + 15) % 30
      k == (32 + 2 * (b % 4) + 2 * (c \div 4) - h - (c % 4)) % 7
      n == h + k - 7 * ((a + 11 * h + 22 * k) \div 451) + 114
  IN  Date(year, n \div 31, (n % 31) + 1)

us_equity_holidays(year) ==
  {observed_fixed(year, 1, 1), nth_weekday(year, 1, 0, 3), nth_weekday(year, 2, 0, 3),
   easter(year) - 2, last_weekday(year, 5, 0), observed_fixed(year, 6, 19),
   observed_fixed(year, 7, 4), nth_weekday(year, 9, 0, 1), thanksgiving(year),
   observed_fixed(year, 12, 25)}

is_holiday(date) ==
  date \in us_equity_holidays(Year(date)) \/ date \in us_equity_holidays(Year(date) + 1)

is_early_close(date) ==
  LET year       == Year(date)
      july_third == Date(year, 7, 3)
  IN  /\ Weekday(date) < 5
      /\ ~is_holiday(date)
      /\ \/ date = thanksgiving(year) + 1
         \/ date = Date(year, 12, 24)
         \/ date = july_third /\ july_third \notin us_equity_holidays(year)
-----------------------------------------------------------------------------
(* New York is four hours behind UTC from the second Sunday of March to the
   first of November, five otherwise.  (The clocks change on a Sunday, when no
   session is held: which hour of it they do plays no part.) *)
UtcOffset(date) ==
  IF nth_weekday(Year(date), 3, 6, 2) <= date /\ date < nth_weekday(Year(date), 11, 6, 1)
  THEN 240 ELSE 300

local_to_utc(date, local) == date * 1440 + local + UtcOffset(date)

LocalDate(timestamp) == (timestamp - UtcOffset(timestamp \div 1440)) \div 1440

(* session_for_date: the sessions of a date, at most one.  An early close moves
   the regular close alone. *)
session_for_date(date, config) ==
  LET extended == config.extended_hours /\ ~config.regular_session_only
      close    == IF is_early_close(date) /\ EARLY_CLOSE_TIME < config.regular_close
                  THEN EARLY_CLOSE_TIME ELSE config.regular_close
      session  == [regular_open   |-> local_to_utc(date, config.regular_open),
                   regular_close  |-> local_to_utc(date, close),
                   tradable_open  |-> local_to_utc(date, IF extended THEN config.premarket_open
                                                          ELSE config.regular_open),
                   tradable_close |-> local_to_utc(date, IF extended THEN config.after_hours_close
                                                          ELSE close)]
  IN  {s \in {session} : Weekday(date) < 5 /\ ~is_holiday(date)}

is_regular_session(timestamp, config) ==
  \E s \in session_for_date(LocalDate(timestamp), config) :
    s.regular_open <= timestamp /\ timestamp < s.regular_close

is_tradable(timestamp, config) ==
  \E s \in session_for_date(LocalDate(timestamp), config) :
    s.tradable_open <= timestamp /\ timestamp < s.tradable_close
=============================================================================
