------------------------------- MODULE EventTime -------------------------------
(***************************************************************************)
(* The year of a BSD syslog time stamp, which has none: what               *)
(* extract_bsd_syslog_time and sanitize_event_time of parser.rs make of    *)
(* it.  A time is a number of ticks since the beginning of 2000.  What may *)
(* fail is the set of its result: empty, or one time.                      *)
(***************************************************************************)
EXTENDS Integers, Sequences

CONSTANTS
  TICKS,        \* of one day
  Clocks        \* what the server's clock may say: [year, stamp]

Stamp == [month : 1 .. 12, day : 1 .. 31, tick : 0 .. TICKS - 1]

(* The calendar below holds around these years, and none of them is the    *)
(* first that sanitize_event_time lets through.                            *)
ASSUME EventTimeAssumption ==
  /\ TICKS \in Nat \ {0}
  /\ Clocks \subseteq [year : 2001 .. 2098, stamp : Stamp]

(* chrono's calendar, from 2000 to 2099.                                   *)
IsLeap(year) == year % 4 = 0
DaysBefore == <<0, 31, 59, 90, 120, 151, 181, 212, 243, 273, 304, 334, 365>>
DaysIn(year, month) ==
  IF month = 2 /\ IsLeap(year) THEN 29 ELSE DaysBefore[month + 1] - DaysBefore[month]
Instant(year, stamp) ==
  LET years == 365 * (year - 2000) + (year - 1997) \div 4
      months == DaysBefore[stamp.month] + (IF IsLeap(year) /\ stamp.month > 2 THEN 1 ELSE 0)
  IN  (years + months + stamp.day - 1) * TICKS + stamp.tick

Build(year, stamp) ==
  IF stamp.day <= DaysIn(year, stamp.month) THEN {Instant(year, stamp)} ELSE {}

BugLimit(now) == now
Limit(now) == now + TICKS

(* now is in `year`.                                                       *)
ExtractBsdSyslogTime(stamp, year, now) ==
  IF \E t \in Build(year, stamp) : t > Limit(now)
    THEN Build(year - 1, stamp) ELSE Build(year, stamp)

SanitizeEventTime(times, now) == {t \in times : t >= 0 /\ t <= now + TICKS}

-----------------------------------------------------------------------------

(* The times a stamp can stand for: it came by in some year, and no        *)
(* host's clock is more than a day ahead.                                  *)
Meant(stamp, year, now) ==
  {t \in UNION {Build(y, stamp) : y \in year - 8 .. year + 1} : t <= now + TICKS}

(* The year is guessed right: a stamp is read as the last time it came by, *)
(* also when a host catches up on a backlog over New Year, and is not      *)
(* thrown away as implausible afterwards.  There are two exceptions.  The  *)
(* 29th of February is lost once its year is over.  And a host that is in  *)
(* the new year already, by its clock or its time zone, while the server   *)
(* is not, has its events put a year back.                                 *)
YearGuessed(stamp, year, now) ==
  LET got == SanitizeEventTime(ExtractBsdSyslogTime(stamp, year, now), now)
  IN  \A t \in Meant(stamp, year, now) :
        (\A u \in Meant(stamp, year, now) : u <= t) =>
          \/ got = {t}
          \/ got = {} /\ stamp.month = 2 /\ stamp.day = 29 /\ t \notin Build(year, stamp)
          \/ got = Build(year, stamp) /\ t \in Build(year + 1, stamp)

EveryYearGuessed ==
  \A clock \in Clocks, stamp \in Stamp :
    \A now \in Build(clock.year, clock.stamp) : YearGuessed(stamp, clock.year, now)
=============================================================================
