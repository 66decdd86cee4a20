------------------------------ MODULE MCParts ------------------------------
(***************************************************************************)
(* The calendar has days of three hours of two minutes, weeks of three     *)
(* days and months of three days.  On the second day the clocks go forward *)
(* over hour 1, on the fourth back over it.  Retention counts days of its  *)
(* own: weeks of two days, months of three weeks, the fifth day no date.   *)
(* The client that catches up has three paths in scope, two of which are   *)
(* equal but for case, and one outside.                                    *)
(***************************************************************************)
EXTENDS Parts
LOCAL INSTANCE SequencesExt

CONSTANTS f1, f2, k1, k2, Upper, Lower, Other, Outside, body1

HoursOfDay == <<<<0, 1, 2>>, <<0, 2>>, <<0, 1, 2>>, <<0, 1, 1, 2>>, <<0, 1, 2>>>>

Wall == FlattenSeq([d \in 1 .. 5 |->
          FlattenSeq([i \in 1 .. Len(HoursOfDay[d]) |->
            [m \in 1 .. 2 |-> [date |-> d, hour |-> HoursOfDay[d][i], minute |-> m - 1]]])])

MCLastMinute  == Len(Wall)
MCMinute      == [t \in 1 .. MCLastMinute |-> Wall[t].minute]
MCHour        == [t \in 1 .. MCLastMinute |-> Wall[t].hour]
MCDate        == [t \in 1 .. MCLastMinute |-> Wall[t].date]
MCDayOfMonth  == [t \in 1 .. MCLastMinute |-> ((Wall[t].date - 1) % 3) + 1]
MCMonthOfYear == [t \in 1 .. MCLastMinute |-> ((Wall[t].date - 1) \div 3) + 1]
MCWeekday     == [t \in 1 .. MCLastMinute |-> Wall[t].date % 3]
MCBounds == [minute |-> <<0, 1>>, hour |-> <<0, 2>>, day |-> <<1, 4>>, month |-> <<1, 2>>,
             weekday |-> <<0, 3>>]

Always == [f \in Fields |-> <<Wildcard>>]
At(hour, minute) == [Always EXCEPT !["hour"] = hour, !["minute"] = minute]
EveryMorning == At(<<Only(1, 1)>>, <<Only(1, 1)>>)
Specs ==
  { EveryMorning,
    \* either of the two days, the last of the week being the first
    [At(<<Only(2, 1)>>, <<Star(2)>>) EXCEPT !["day"] = <<Only(2, 1)>>, !["weekday"] = <<Only(3, 1)>>],
    \* a list with a range, a step from a value on, one month
    [At(<<Only(0, 1), Between(1, 2, 1)>>, <<Wildcard>>) EXCEPT !["day"] = <<Only(2, 2)>>,
                                                          !["month"] = <<Only(2, 1)>>],
    \* "*/1" restricts the weekday to all of them: any day will do
    [EveryMorning EXCEPT !["day"] = <<Only(2, 1)>>, !["weekday"] = <<Star(1)>>],
    \* the day no month has
    [EveryMorning EXCEPT !["day"] = <<Only(4, 1)>>],
    \* edited by hand: there is no such hour
    At(<<Only(5, 1)>>, <<Only(0, 1)>>) }
MCConfigs == [enabled : {TRUE}, spec : Specs] \cup {[enabled |-> FALSE, spec |-> EveryMorning]}

MCFiles == {f1, f2}
MCKeys == {k1, k2}

MCWeek == [d \in 1 .. LastDay |-> (d + 1) \div 2]
MCMonth == [d \in 1 .. LastDay |-> (d + 5) \div 6]
MCDated == (1 .. LastDay) \ {5}
MCPlans == [daily : {1, 2}, weekly : {0, 2}, monthly : {0, 1, 2}]

MCPaths == {Upper, Lower, Other, Outside}
MCFold == (Upper :> "notes" @@ Lower :> "notes" @@ Other :> "todo" @@ Outside :> "out")
MCScope == {Upper, Lower, Other}
MCFacts == {body1}

\* The parts at rest start in one way only.
MCInit ==
  /\ Init
  /\ subject # "schedule" => document = [enabled |-> TRUE, spec |-> EveryMorning]
  /\ subject # "volume" => \A f \in Files : length[f] = 0
  /\ subject # "retention" => plan = [daily |-> 1, weekly |-> 0, monthly |-> 0]

MCSpec == MCInit /\ [][Next]_vars /\ Fairness
=============================================================================
