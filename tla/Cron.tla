-------------------------------- MODULE Cron --------------------------------
(***************************************************************************)
(* When a cron expression fires (backup/cron.go).  Time is counted in      *)
(* minutes, and a calendar says what a clock on the wall shows at each of  *)
(* them: an hour may be missing from a day, or come twice, when the clocks *)
(* change.  Every day of the calendar has a midnight, and only one: where  *)
(* the clocks change at midnight the code relies on what time.Date makes   *)
(* of a time that does not exist.                                          *)
(***************************************************************************)
EXTENDS Integers

CONSTANTS
  LastMinute,   \* the minutes are 1 .. LastMinute
  Minute, Hour, DayOfMonth, MonthOfYear, Weekday,  \* what the calendar shows
  Date,         \* Date[t]: the number of the day minute t is in
  YearMonth,    \* YearMonth[t]: the number of its month
  Bounds,       \* Bounds[f]: the lowest and the highest value of field f
  WeekLength,   \* 7
  HourLength,   \* 60
  Span          \* how many minutes Next looks ahead: five years and a day

Minutes == 1 .. LastMinute

Fields == {"minute", "hour", "day", "month", "weekday"}

ASSUME CalendarOfMinutes ==
  /\ LastMinute \in Nat \ {0} /\ Span \in Nat
  /\ WeekLength \in Nat \ {0} /\ HourLength \in Nat \ {0}
  /\ \A f \in {Minute, Hour, DayOfMonth, MonthOfYear, Weekday, Date, YearMonth} :
       f \in [Minutes -> Int]
  /\ \A t \in Minutes \ {LastMinute} :
       Date[t] <= Date[t + 1] /\ YearMonth[t] <= YearMonth[t + 1]
  /\ \A t, u \in Minutes : Date[t] = Date[u] => YearMonth[t] = YearMonth[u]
  /\ Bounds \in [Fields -> Int \X Int]

\* A month is one month and a day one day; clocks change at the full hour of what
\* they show, so that an hour once begun goes on for the minutes it has left.
ASSUME CalendarAgrees ==
  \A t, u \in Minutes :
    /\ YearMonth[t] = YearMonth[u] => MonthOfYear[t] = MonthOfYear[u]
    /\ Date[t] = Date[u] => DayOfMonth[t] = DayOfMonth[u] /\ Weekday[t] = Weekday[u]
    /\ Minute[t] \in 0 .. HourLength - 1
    /\ t <= u /\ u < t + HourLength - Minute[t] => Hour[u] = Hour[t]

----------------------------------------------------------------------------
(***************************************************************************)
(* Parsing.  A field is a list of parts; a part is "*", a range or a       *)
(* single value, with a step.  A value with a step means from there on.    *)
(* No step is a step of one, except that only a field that reads "*" and   *)
(* nothing else, not "*/1", counts as unrestricted.                        *)
(***************************************************************************)
Wildcard == [kind |-> "any", first |-> 0, last |-> 0, step |-> 1]
Star(step) == [kind |-> "*", first |-> 0, last |-> 0, step |-> step]
Only(value, step) == [kind |-> "value", first |-> value, last |-> value, step |-> step]
Between(first, last, step) == [kind |-> "range", first |-> first, last |-> last, step |-> step]

Whole(part) == part.kind \in {"any", "*"}

Lowest(f, part) == IF Whole(part) THEN Bounds[f][1] ELSE part.first

Highest(f, part) ==
  IF Whole(part) \/ (part.kind = "value" /\ part.step > 1) THEN Bounds[f][2] ELSE part.last

\* parseField refuses a step below one, a range that runs backwards, a value outside.
GoodPart(f, part) ==
  /\ part.step >= 1
  /\ part.kind = "range" => part.first <= part.last
  /\ Bounds[f][1] <= Lowest(f, part) /\ Highest(f, part) <= Bounds[f][2]

Values(f, parts) ==
  LET stepped(p) == {v \in Lowest(f, p) .. Highest(f, p) : (v - Lowest(f, p)) % p.step = 0}
  IN UNION {stepped(parts[i]) : i \in DOMAIN parts}

\* ParseSchedule succeeds: every part is good and no field is empty.
Parses(spec) ==
  \A f \in Fields : /\ \A i \in DOMAIN spec[f] : GoodPart(f, spec[f][i])
                    /\ Values(f, spec[f]) # {}

\* The last value of the week is Sunday again.
Weekdays(spec) == {v % WeekLength : v \in Values("weekday", spec["weekday"])}

Restricted(spec, f) == spec[f] # <<Wildcard>>

----------------------------------------------------------------------------
(* Matching and searching. *)

MatchesMonth(spec, t) == MonthOfYear[t] \in Values("month", spec["month"])

\* Either of the two days when both are restricted, or else both.
MatchesDay(spec, t) ==
  LET dom == DayOfMonth[t] \in Values("day", spec["day"])
      dow == Weekday[t] \in Weekdays(spec)
  IN IF Restricted(spec, "day") /\ Restricted(spec, "weekday") THEN dom \/ dow ELSE dom /\ dow

MatchesHour(spec, t) == Hour[t] \in Values("hour", spec["hour"])

MatchesMinute(spec, t) == Minute[t] \in Values("minute", spec["minute"])

Matches(spec, t) ==
  MatchesMonth(spec, t) /\ MatchesDay(spec, t) /\ MatchesHour(spec, t) /\ MatchesMinute(spec, t)

Never == 0

\* The first minute after t of which P says otherwise than of t; past the end if none.
NextChange(P, t) ==
  LET later == {u \in t .. LastMinute : P[u] # P[t]} IN
  IF later = {} THEN LastMinute + 1 ELSE CHOOSE u \in later : \A v \in later : u <= v

\* The same minute an hour on: those before it are never looked at.
MutNextHour(t) == t + HourLength

\* An hour on, less the minutes that have gone: counted in real minutes.
NextHour(t) == t + HourLength - Minute[t]

\* Next: skip a month, a day or an hour that cannot match, else try each minute.
NextFiring(spec, after) ==
  LET search[t \in after + 1 .. LastMinute + HourLength] ==
        IF t > LastMinute \/ t > after + Span THEN Never
        ELSE IF ~MatchesMonth(spec, t) THEN search[NextChange(YearMonth, t)]
        ELSE IF ~MatchesDay(spec, t) THEN search[NextChange(Date, t)]
        ELSE IF ~MatchesHour(spec, t) THEN search[NextHour(t)]
        ELSE IF MatchesMinute(spec, t) THEN t
        ELSE search[t + 1]
  IN search[after + 1]
=============================================================================
