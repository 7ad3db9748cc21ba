----------------------------- MODULE CronSchedule -----------------------------
(***************************************************************************)
(* The cron expressions of core/src/cron.ts: what parseField makes of a    *)
(* field and when shouldRun matches, beside what unix cron means by them.  *)
(*                                                                         *)
(* A field is the sequence of its comma-separated parts, each already      *)
(* split: `*`, `*/by`, `lo/by`, `lo-hi/by`, `lo-hi` or `lo`.  The ranges   *)
(* of the five fields are constants.                                       *)
(***************************************************************************)
EXTENDS Integers, Sequences

CONSTANTS LastMinute,   \* 59
          LastHour,     \* 23
          LastDay,      \* 31
          LastMonth,    \* 12
          LastWeekday   \* 6

ASSUME CalendarAssumption ==
  {LastMinute, LastHour, LastDay, LastMonth, LastWeekday} \subseteq Nat \ {0}

Fields == {"minute", "hour", "day", "month", "weekday"}
Lowest(f) == IF f \in {"day", "month"} THEN 1 ELSE 0
Highest(f) == CASE f = "minute" -> LastMinute [] f = "hour" -> LastHour
             [] f = "day" -> LastDay [] f = "month" -> LastMonth
             [] f = "weekday" -> LastWeekday
InRange(f) == Lowest(f)..Highest(f)

\* The exceptions of parseField.
PartOk(p, f) ==
  /\ p.kind \in {"star/", "value/", "range/"} => p.by > 0
  /\ p.kind \in {"value", "value/", "range", "range/"} => p.lo \in InRange(f)
  /\ p.kind = "range" => p.hi \in InRange(f)

FieldOk(parts, f) == \A i \in DOMAIN parts : PartOk(parts[i], f)

Steps(from, by, f) == {n \in from..Highest(f) : (n - from) % by = 0}

\* parseInt reads a range before a slash up to its dash: its end is not looked at.
PartValues(p, f) ==
  CASE p.kind = "star"               -> InRange(f)
    [] p.kind = "star/"              -> Steps(Lowest(f), p.by, f)
    [] p.kind \in {"value/", "range/"} -> Steps(p.lo, p.by, f)
    [] p.kind = "range"              -> p.lo..p.hi
    [] p.kind = "value"              -> {p.lo}

ParseField(parts, f) == UNION {PartValues(parts[i], f) : i \in DOMAIN parts}

IsRestrictedDayField(parts) == Head(parts).kind \notin {"star", "star/"}

\* Mutated form: a date must match both day fields, whether restricted or not.
DayMatchesBoth(schedule, date) ==
  /\ date.day \in ParseField(schedule.day, "day")
  /\ date.weekday \in ParseField(schedule.weekday, "weekday")

DayMatches(schedule, date) ==
  LET day == date.day \in ParseField(schedule.day, "day")
      weekday == date.weekday \in ParseField(schedule.weekday, "weekday")
  IN IF IsRestrictedDayField(schedule.day) /\ IsRestrictedDayField(schedule.weekday)
     THEN day \/ weekday ELSE day /\ weekday

ShouldRun(schedule, date) ==
  /\ \A f \in {"minute", "hour", "month"} : date[f] \in ParseField(schedule[f], f)
  /\ DayMatches(schedule, date)
-----------------------------------------------------------------------------
(* Unix cron, value by value *)

Within(p, f, v) ==
  CASE p.kind \in {"star", "star/"}  -> v \in InRange(f)
    [] p.kind \in {"range", "range/"} -> v >= p.lo /\ v <= p.hi
    [] p.kind = "value/"             -> v >= p.lo /\ v \in InRange(f)
    [] p.kind = "value"              -> v = p.lo

Origin(p, f) == IF p.kind \in {"star", "star/"} THEN Lowest(f) ELSE p.lo

UnixField(schedule, date, f) ==
  \E i \in DOMAIN schedule[f] :
    LET p == schedule[f][i]
    IN /\ Within(p, f, date[f])
       /\ p.kind \in {"star/", "value/", "range/"} =>
            \E n \in 0..Highest(f) : date[f] = Origin(p, f) + n * p.by

\* All fields match, except that of two restricted day fields one is enough.
UnixRun(schedule, date) ==
  \/ \A f \in Fields : UnixField(schedule, date, f)
  \/ /\ \A f \in {"day", "weekday"} : schedule[f][1].kind \notin {"star", "star/"}
     /\ \E g \in {"day", "weekday"} : \A f \in Fields \ {g} : UnixField(schedule, date, f)
=============================================================================
