----------------------------- MODULE PartsProofs -----------------------------
(***************************************************************************)
(* What holds of these parts for every value of their constants: when      *)
(* backups are made, which of them stay, and how clients come to have the  *)
(* rules.  The files sealed at rest and the client that catches up have    *)
(* modules of their own.                                                   *)
(***************************************************************************)
EXTENDS Parts, RetentionProofs

----------------------------------------------------------------------------
(***************************************************************************)
(* Retention keeps its promise over any number of days, with any calendar, *)
(* any limits and any prunes that stop half-way.  The promise is about all *)
(* the snapshots ever taken, while Classify sees those that are left: the  *)
(* invariant says that what is promised is among them, and PromiseStable   *)
(* that the others make no difference to it.                               *)
(***************************************************************************)

ThinningInv ==
  /\ plan \in Limits
  /\ day \in 0 .. LastDay
  /\ left \subseteq taken /\ taken \subseteq 1 .. day
  /\ GrandfatherFatherSon(taken, plan) \subseteq left

LEMMA TakenAreDays ==
  ASSUME ThinningInv
  PROVE  taken \subseteq Days /\ left \subseteq Days
BY LastDayAssumption DEF ThinningInv, Days

LEMMA ThinningStarts == ThinningInit => ThinningInv
<1>1. GrandfatherFatherSon({}, plan) = {}
  BY DEF GrandfatherFatherSon, NewestOfPeriod
<1>2. QED
  BY <1>1, LastDayAssumption, PlansAssumption DEF ThinningInit, ThinningInv

\* The snapshot of a new day, before anything is removed.
LEMMA OneMoreDay ==
  ASSUME ThinningInv, day < LastDay, taken' = taken \cup {day + 1}
  PROVE  /\ day + 1 \in 0 .. LastDay
         /\ left \cup {day + 1} \subseteq taken' /\ taken' \subseteq 1 .. day + 1
         /\ taken' \subseteq Days
         /\ GrandfatherFatherSon(taken', plan) \subseteq left \cup {day + 1}
<1>1. /\ day + 1 \in 0 .. LastDay
      /\ left \cup {day + 1} \subseteq taken' /\ taken' \subseteq 1 .. day + 1
      /\ taken' \subseteq Days
  BY LastDayAssumption DEF ThinningInv, Days
<1>2. ASSUME NEW d \in GrandfatherFatherSon(taken', plan), d \in taken
      PROVE  d \in left
  BY <1>1, <1>2, PromiseShrinks DEF ThinningInv
<1>3. GrandfatherFatherSon(taken', plan) \subseteq taken'
  BY DEF GrandfatherFatherSon, NewestOfPeriod
<1>4. QED
  BY <1>1, <1>2, <1>3

LEMMA ThinningStep == ThinningInv /\ [ThinningNext]_thinningVars => ThinningInv'
<1>1. SUFFICES ASSUME ThinningInv, [ThinningNext]_thinningVars
               PROVE  ThinningInv'
  OBVIOUS
<1>2. CASE PassDay
  BY <1>1, <1>2, LastDayAssumption DEF PassDay, ThinningInv
<1>3. CASE BackUp
  <2> DEFINE there == left \cup {day + 1}
  <2>1. /\ day < LastDay /\ day' = day + 1 /\ taken' = taken \cup {day + 1} /\ plan' = plan
        /\ \E n \in 0 .. Cardinality(there) : left' = there \ Pruned(there, plan, n)
    BY <1>3 DEF BackUp
  <2>2. /\ day + 1 \in 0 .. LastDay
        /\ there \subseteq taken' /\ taken' \subseteq 1 .. day + 1 /\ taken' \subseteq Days
        /\ GrandfatherFatherSon(taken', plan) \subseteq there
    BY <1>1, <2>1, OneMoreDay
  <2>3. PICK n : left' = there \ Pruned(there, plan, n)
    BY <2>1
  <2>4. plan \in Limits
    BY <1>1 DEF ThinningInv
  <2> HIDE DEF there
  <2>5. GrandfatherFatherSon(there, plan) = GrandfatherFatherSon(taken', plan)
    BY <2>2, <2>4, PromiseStable
  <2>6. Pruned(there, plan, n) \cap GrandfatherFatherSon(there, plan) = {}
    BY <2>2, <2>4, PrunedIsDoomed
  <2>7. left' \subseteq taken' /\ GrandfatherFatherSon(taken', plan) \subseteq left'
    BY <2>2, <2>3, <2>5, <2>6
  <2>8. QED
    BY <2>1, <2>2, <2>4, <2>7 DEF ThinningInv
<1>4. CASE MakeUp
  <2>1. /\ day < LastDay /\ day' = day + 1 /\ taken' = taken \cup {day + 1} /\ plan' = plan
        /\ left' = left \cup {day + 1}
    BY <1>4 DEF MakeUp
  <2>2. QED
    BY <1>1, <2>1, OneMoreDay DEF ThinningInv
<1>5. CASE UNCHANGED thinningVars
  BY <1>1, <1>5 DEF thinningVars, ThinningInv
<1>6. QED
  BY <1>1, <1>2, <1>3, <1>4, <1>5 DEF ThinningNext

LEMMA InvGivesThePromise == ThinningInv => ThinsAsPromised
<1>1. SUFFICES ASSUME ThinningInv PROVE ThinsAsPromised
  OBVIOUS
<1>2. plan \in Limits /\ left \subseteq taken /\ GrandfatherFatherSon(taken, plan) \subseteq left
  BY <1>1 DEF ThinningInv
<1>3. GrandfatherFatherSon(left, plan) = GrandfatherFatherSon(taken, plan)
  BY <1>1, <1>2, TakenAreDays, PromiseStable
<1>4. left \ Doomed(left, plan) = GrandfatherFatherSon(left, plan)
  BY <1>1, <1>2, TakenAreDays, PrunedIsDoomed
<1>5. QED
  BY <1>2, <1>3, <1>4 DEF ThinsAsPromised

(***************************************************************************)
(* Whatever the days without a backup and the prunes that stopped: the     *)
(* disk has the last daily snapshots and the newest of each of the last    *)
(* weeks and months of all that were ever taken, and a prune that is not   *)
(* stopped leaves nothing else (Classify and prune in retention.go).       *)
(***************************************************************************)
THEOREM ThinningKeepsItsPromise ==
  ThinningInit /\ [][ThinningNext]_thinningVars => []ThinsAsPromised
<1>1. ThinningInit => ThinningInv
  BY ThinningStarts
<1>2. ThinningInv /\ [ThinningNext]_thinningVars => ThinningInv'
  BY ThinningStep
<1>3. ThinningInv => ThinsAsPromised
  BY InvGivesThePromise
<1>4. QED
  BY <1>1, <1>2, <1>3, PTL

----------------------------------------------------------------------------
(***************************************************************************)
(* The search for the next minute that matches.  It jumps ahead, never     *)
(* back, and over minutes of one month, one day or one hour, none of which *)
(* matches if the one it jumps from does not.  The recursive function is   *)
(* defined because every jump goes forward: the induction counts down from *)
(* the last minute a jump can reach.                                       *)
(***************************************************************************)
End == LastMinute + HourLength

\* One turn of the loop of Next, f giving what the later turns find.
Try(f, spec, after, t) ==
  IF t > LastMinute \/ t > after + Span THEN Never
  ELSE IF ~MatchesMonth(spec, t) THEN f[NextChange(YearMonth, t)]
  ELSE IF ~MatchesDay(spec, t) THEN f[NextChange(Date, t)]
  ELSE IF ~MatchesHour(spec, t) THEN f[NextHour(t)]
  ELSE IF MatchesMinute(spec, t) THEN t
  ELSE f[t + 1]

\* Where the turn for minute t goes on.
Jump(spec, t) ==
  IF ~MatchesMonth(spec, t) THEN NextChange(YearMonth, t)
  ELSE IF ~MatchesDay(spec, t) THEN NextChange(Date, t)
  ELSE IF ~MatchesHour(spec, t) THEN NextHour(t)
  ELSE t + 1

LEMMA TryJumps ==
  ASSUME NEW f, NEW spec, NEW after, NEW t
  PROVE  Try(f, spec, after, t) =
           IF t > LastMinute \/ t > after + Span THEN Never
           ELSE IF Matches(spec, t) THEN t ELSE f[Jump(spec, t)]
BY DEF Try, Jump, Matches

LEMMA ChangeIsNext ==
  ASSUME NEW P, NEW t \in Minutes
  PROVE  /\ NextChange(P, t) \in t + 1 .. LastMinute + 1
         /\ \A u \in Minutes : t <= u /\ u < NextChange(P, t) => P[u] = P[t]
<1> DEFINE later == {u \in t .. LastMinute : P[u] # P[t]}
<1>1. t \in Nat /\ t <= LastMinute /\ LastMinute \in Nat
  BY CalendarOfMinutes DEF Minutes
<1>2. CASE later = {}
  <2>1. NextChange(P, t) = LastMinute + 1
    BY <1>2 DEF NextChange
  <2>2. \A u \in Minutes : t <= u => P[u] = P[t]
    BY <1>1, <1>2 DEF Minutes
  <2>3. QED
    BY <1>1, <2>1, <2>2
<1>3. CASE later # {}
  <2>1. later \subseteq Nat
    BY <1>1
  <2>2. \E u \in later : \A v \in later : u <= v
    BY <1>3, <2>1, LeastOf
  <2>3. PICK n : n = NextChange(P, t)
    OBVIOUS
  <2>4. n \in later /\ \A v \in later : n <= v
    BY <1>3, <2>2, <2>3 DEF NextChange
  <2>5. n # t /\ n \in t .. LastMinute
    BY <2>4
  <2>6. ASSUME NEW u \in Minutes, t <= u, u < n
        PROVE  P[u] = P[t]
    <3>1. u \notin later /\ u \in t .. LastMinute
      BY <1>1, <2>4, <2>5, <2>6 DEF Minutes
    <3>2. QED
      BY <3>1
  <2>7. QED
    BY <1>1, <2>3, <2>5, <2>6
<1>4. QED
  BY <1>2, <1>3

\* A jump goes forward, and what it leaves out does not match.
LEMMA JumpSkipsNothing ==
  ASSUME NEW spec, NEW t \in Minutes, ~Matches(spec, t)
  PROVE  /\ Jump(spec, t) \in t + 1 .. End
         /\ \A u \in Minutes : t <= u /\ u < Jump(spec, t) => ~Matches(spec, u)
<1>1. /\ t \in Nat /\ t <= LastMinute /\ LastMinute \in Nat
      /\ HourLength \in Nat \ {0} /\ End = LastMinute + HourLength
  BY CalendarOfMinutes DEF Minutes, End
<1>2. CASE ~MatchesMonth(spec, t)
  <2>1. PICK n : n = NextChange(YearMonth, t)
    OBVIOUS
  <2>2. n \in t + 1 .. LastMinute + 1
    BY <2>1, ChangeIsNext
  <2>3. ASSUME NEW u \in Minutes, t <= u, u < n
        PROVE  ~Matches(spec, u)
    <3>1. YearMonth[u] = YearMonth[t]
      BY <2>1, <2>3, ChangeIsNext
    <3>2. MonthOfYear[u] = MonthOfYear[t]
      BY <3>1, CalendarAgrees
    <3>3. QED
      BY <1>2, <3>2 DEF Matches, MatchesMonth
  <2>4. Jump(spec, t) = n
    BY <1>2, <2>1 DEF Jump
  <2>5. QED
    BY <1>1, <2>2, <2>3, <2>4
<1>3. CASE MatchesMonth(spec, t) /\ ~MatchesDay(spec, t)
  <2>1. PICK n : n = NextChange(Date, t)
    OBVIOUS
  <2>2. n \in t + 1 .. LastMinute + 1
    BY <2>1, ChangeIsNext
  <2>3. ASSUME NEW u \in Minutes, t <= u, u < n
        PROVE  ~Matches(spec, u)
    <3>1. Date[u] = Date[t]
      BY <2>1, <2>3, ChangeIsNext
    <3>2. DayOfMonth[u] = DayOfMonth[t] /\ Weekday[u] = Weekday[t]
      BY <3>1, CalendarAgrees
    <3>3. ~MatchesDay(spec, u)
      BY <1>3, <3>2, Zenon DEF MatchesDay
    <3>4. QED
      BY <3>3 DEF Matches
  <2>4. Jump(spec, t) = n
    BY <1>3, <2>1 DEF Jump
  <2>5. QED
    BY <1>1, <2>2, <2>3, <2>4
<1>4. CASE MatchesMonth(spec, t) /\ MatchesDay(spec, t) /\ ~MatchesHour(spec, t)
  <2>1. PICK n : n = t + HourLength - Minute[t]
    OBVIOUS
  <2>2. Minute[t] \in 0 .. HourLength - 1
    BY CalendarAgrees
  <2>3. n \in t + 1 .. End
    BY <1>1, <2>1, <2>2
  <2>4. ASSUME NEW u \in Minutes, t <= u, u < n
        PROVE  ~Matches(spec, u)
    <3>1. Hour[u] = Hour[t]
      BY <2>1, <2>4, CalendarAgrees
    <3>2. QED
      BY <1>4, <3>1 DEF Matches, MatchesHour
  <2>5. Jump(spec, t) = n
    BY <1>4, <2>1 DEF Jump, NextHour
  <2>6. QED
    BY <2>3, <2>4, <2>5
<1>5. CASE MatchesMonth(spec, t) /\ MatchesDay(spec, t) /\ MatchesHour(spec, t)
  <2>1. Jump(spec, t) = t + 1
    BY <1>5 DEF Jump
  <2>2. t + 1 \in t + 1 .. End
    BY <1>1
  <2>3. ASSUME NEW u \in Minutes, t <= u, u < t + 1
        PROVE  ~Matches(spec, u)
    <3>1. u = t
      BY <1>1, <2>3 DEF Minutes
    <3>2. QED
      BY <3>1
  <2>4. QED
    BY <2>1, <2>2, <2>3
<1>6. QED
  BY <1>2, <1>3, <1>4, <1>5

\* g is what the search finds from minute n on.
Searches(g, n, spec, after) == g = [t \in n .. End |-> Try(g, spec, after, t)]

LEMMA EndIsLater ==
  ASSUME NEW after \in Minutes
  PROVE  /\ End \in Nat /\ after + 1 \in Nat /\ after + 1 <= End /\ LastMinute < End
         /\ \A t \in after + 1 .. End : t \in Nat /\ (t <= LastMinute => t \in Minutes)
BY CalendarOfMinutes DEF Minutes, End

LEMMA SearchesTheEnd ==
  ASSUME NEW spec, NEW after \in Minutes
  PROVE  \E g : Searches(g, End, spec, after)
<1> DEFINE g == [t \in End .. End |-> Never]
<1>1. ASSUME NEW t \in End .. End
      PROVE  Try(g, spec, after, t) = Never
  <2>1. t > LastMinute
    BY EndIsLater, CalendarOfMinutes
  <2>2. QED
    BY <2>1 DEF Try
<1>2. Searches(g, End, spec, after)
  <2> HIDE DEF g
  <2>1. g = [t \in End .. End |-> Never]
    BY DEF g
  <2>2. QED
    BY <1>1, <2>1 DEF Searches
<1>3. QED
  BY <1>2, Zenon

LEMMA SearchesOneMore ==
  ASSUME NEW spec, NEW after \in Minutes, NEW n \in after + 1 .. End - 1, NEW h,
         Searches(h, n + 1, spec, after)
  PROVE  \E g : Searches(g, n, spec, after)
<1> DEFINE g == [t \in n .. End |-> IF t = n THEN Try(h, spec, after, n) ELSE h[t]]
<1>1. /\ n \in Nat /\ End \in Nat /\ n < End /\ after \in Nat
      /\ LastMinute \in Nat /\ n + 1 .. End \subseteq n .. End
  BY EndIsLater, CalendarOfMinutes DEF Minutes
<1>2. \A t \in n + 1 .. End : h[t] = Try(h, spec, after, t) /\ g[t] = h[t]
  BY <1>1 DEF Searches
<1>3. ASSUME NEW t \in n .. End
      PROVE  Try(g, spec, after, t) = Try(h, spec, after, t)
  <2>1. CASE t > LastMinute \/ Matches(spec, t)
    BY <2>1, TryJumps
  <2>2. CASE ~(t > LastMinute) /\ ~Matches(spec, t)
    <3>1. t \in Minutes
      BY <1>1, <2>2 DEF Minutes
    <3>2. PICK j : j = Jump(spec, t)
      OBVIOUS
    <3>3. j \in t + 1 .. End
      BY <2>2, <3>1, <3>2, JumpSkipsNothing
    <3>4. j \in n + 1 .. End
      BY <1>1, <3>3
    <3>5. g[j] = h[j]
      BY <1>2, <3>4
    <3> HIDE DEF g
    <3>6. QED
      BY <3>2, <3>5, TryJumps
  <2>3. QED
    BY <2>1, <2>2
<1>4. ASSUME NEW t \in n .. End
      PROVE  g[t] = Try(g, spec, after, t)
  <2>1. CASE t = n
    BY <1>3, <2>1
  <2>2. CASE t # n
    <3>1. t \in n + 1 .. End
      BY <1>1, <2>2
    <3>2. g[t] = Try(h, spec, after, t)
      BY <1>2, <3>1
    <3>3. QED
      BY <1>3, <3>2
  <2>3. QED
    BY <2>1, <2>2
<1>5. Searches(g, n, spec, after)
  <2>1. g = [t \in n .. End |-> g[t]]
    OBVIOUS
  <2> HIDE DEF g
  <2>2. QED
    BY <1>4, <2>1 DEF Searches
<1>6. QED
  BY <1>5, Zenon

LEMMA SearchExists ==
  ASSUME NEW spec, NEW after \in Minutes
  PROVE  \E g : Searches(g, after + 1, spec, after)
<1> DEFINE T == {n \in after + 1 .. End : \E g : Searches(g, n, spec, after)}
<1>0. after + 1 \in Nat /\ End \in Nat /\ after + 1 <= End
  BY EndIsLater
<1>1. End \in T
  BY <1>0, SearchesTheEnd
<1>2. \A n \in after + 1 .. End - 1 : n + 1 \in T => n \in T
  BY <1>0, SearchesOneMore
<1>3. after + 1 .. End \subseteq T
  <2> HIDE DEF T
  <2>1. QED
    BY <1>0, <1>1, <1>2, Countdown
<1>4. after + 1 \in T
  BY <1>0, <1>3
<1>5. QED
  BY <1>4

\* The recursive definition of NextFiring does define a function.
LEMMA SearchIs ==
  ASSUME NEW spec, NEW after \in Minutes
  PROVE  \E g : Searches(g, after + 1, spec, after) /\ NextFiring(spec, after) = g[after + 1]
<1> DEFINE g == CHOOSE f : Searches(f, after + 1, spec, after)
<1>1. NextFiring(spec, after) = g[after + 1]
  BY Zenon DEF NextFiring, Searches, Try, End
<1>2. Searches(g, after + 1, spec, after)
  BY SearchExists, Zenon
<1>3. QED
  BY <1>1, <1>2, Zenon

\* r is the first minute from t on that matches, as far as the search goes.
FirstMatch(spec, after, t, r) ==
  /\ r # Never => r \in Minutes /\ t <= r /\ Matches(spec, r)
  /\ \A u \in Minutes : t <= u /\ u <= after + Span /\ (r = Never \/ u < r) => ~Matches(spec, u)

LEMMA SearchFinds ==
  ASSUME NEW spec, NEW after \in Minutes, NEW g, Searches(g, after + 1, spec, after),
         NEW t \in after + 1 .. End,
         \A j \in t + 1 .. End : FirstMatch(spec, after, j, g[j])
  PROVE  FirstMatch(spec, after, t, g[t])
<1>0. /\ t \in Nat /\ LastMinute \in Nat /\ after \in Nat /\ Span \in Nat /\ Never \notin Minutes
      /\ \A u \in Minutes : u \in Nat /\ u <= LastMinute
  BY EndIsLater, CalendarOfMinutes DEF Minutes, Never
<1>1. g[t] = IF t > LastMinute \/ t > after + Span THEN Never
             ELSE IF Matches(spec, t) THEN t ELSE g[Jump(spec, t)]
  BY TryJumps DEF Searches
<1>2. CASE t > LastMinute \/ t > after + Span
  BY <1>0, <1>1, <1>2 DEF FirstMatch
<1>3. CASE ~(t > LastMinute) /\ ~(t > after + Span) /\ Matches(spec, t)
  <2>1. t \in Minutes /\ g[t] = t
    BY <1>0, <1>1, <1>3, EndIsLater
  <2>2. QED
    BY <1>0, <1>3, <2>1 DEF FirstMatch
<1>4. CASE ~(t > LastMinute) /\ ~(t > after + Span) /\ ~Matches(spec, t)
  <2>1. t \in Minutes
    BY <1>0, <1>4, EndIsLater
  <2>2. PICK j : j = Jump(spec, t)
    OBVIOUS
  <2>3. j \in t + 1 .. End /\ g[t] = g[j]
    BY <1>1, <1>4, <2>1, <2>2, JumpSkipsNothing
  <2>4. \A u \in Minutes : t <= u /\ u < j => ~Matches(spec, u)
    BY <1>4, <2>1, <2>2, JumpSkipsNothing
  <2>5. FirstMatch(spec, after, j, g[j])
    BY <2>3
  <2>6. j \in Nat /\ t <= j
    BY <1>0, <2>3, EndIsLater
  <2>7. PICK r : r = g[j] /\ FirstMatch(spec, after, j, r)
    BY <2>5
  <2>8. ASSUME r # Never PROVE r \in Minutes /\ t <= r /\ Matches(spec, r)
    <3>1. r \in Minutes /\ j <= r /\ Matches(spec, r)
      BY <2>7, <2>8, Zenon DEF FirstMatch
    <3>2. QED
      BY <1>0, <2>6, <3>1
  <2>9. ASSUME NEW u \in Minutes, t <= u, u <= after + Span, r = Never \/ u < r
        PROVE  ~Matches(spec, u)
    BY <1>0, <2>4, <2>5, <2>6, <2>7, <2>9 DEF FirstMatch
  <2>10. QED
    BY <2>3, <2>7, <2>8, <2>9 DEF FirstMatch
<1>5. QED
  BY <1>2, <1>3, <1>4

(***************************************************************************)
(* Next finds the first minute after a given one that the expression       *)
(* matches, within the years it looks ahead, for any expression and any    *)
(* calendar: of the minutes it jumps over none matches (cron.go, at Next). *)
(***************************************************************************)
THEOREM NextIsFirst ==
  ASSUME NEW spec, NEW after \in Minutes
  PROVE  FirstMatch(spec, after, after + 1, NextFiring(spec, after))
<1>0. after + 1 \in Nat /\ End \in Nat /\ after + 1 <= End
  BY EndIsLater
<1>1. PICK g : Searches(g, after + 1, spec, after) /\ NextFiring(spec, after) = g[after + 1]
  BY SearchIs
<1> DEFINE T == {n \in after + 1 .. End : \A j \in n .. End : FirstMatch(spec, after, j, g[j])}
<1>2. End \in T
  <2>1. \A j \in End + 1 .. End : FirstMatch(spec, after, j, g[j])
    BY <1>0
  <2>2. \A j \in End .. End : j = End
    BY <1>0
  <2>3. FirstMatch(spec, after, End, g[End])
    BY <1>0, <1>1, <2>1, SearchFinds
  <2>4. QED
    BY <1>0, <2>2, <2>3
<1>3. ASSUME NEW n \in after + 1 .. End - 1, n + 1 \in T
      PROVE  n \in T
  <2>1. n \in after + 1 .. End /\ \A j \in n .. End : j = n \/ j \in n + 1 .. End
    BY <1>0
  <2>2. \A j \in n + 1 .. End : FirstMatch(spec, after, j, g[j])
    BY <1>3
  <2>3. FirstMatch(spec, after, n, g[n])
    BY <1>1, <2>1, <2>2, SearchFinds
  <2>4. QED
    BY <2>1, <2>2, <2>3
<1>4. after + 1 .. End \subseteq T
  <2> HIDE DEF T
  <2>1. QED
    BY <1>0, <1>2, <1>3, Countdown
<1>5. after + 1 \in T
  BY <1>0, <1>4
<1>6. QED
  BY <1>0, <1>1, <1>5

----------------------------------------------------------------------------
(***************************************************************************)
(* The loop.  It never fires for a minute the clock has not reached, so    *)
(* what it finds after looking at the clock is later than what it fired    *)
(* for last.                                                               *)
(***************************************************************************)
SchedulerInv == SchedulerTypeOK /\ fired <= now /\ FiresOnTime

LoopTyped ==
  loop \in [at : {"top", "arm", "wait", "run"}, cfg : Configs,
            since : 0 .. LastMinute, until : 0 .. LastMinute]

LEMMA NeverIsZero == Never = 0 /\ Never \in 0 .. LastMinute /\ Minutes \subseteq 0 .. LastMinute
BY CalendarOfMinutes DEF Never, Minutes

LEMMA SchedulerStarts == SchedulerInit => SchedulerInv
<1> SUFFICES ASSUME SchedulerInit PROVE SchedulerInv
  OBVIOUS
<1>1. now \in Minutes /\ fired <= now /\ fired \in 0 .. LastMinute /\ saves \in 0 .. MaxSaves
  BY CalendarOfMinutes, ConfigsAssumption DEF SchedulerInit, Minutes, Never
<1>2. LoopTyped /\ loop.at = "top"
  BY NeverIsZero, CalendarOfMinutes DEF SchedulerInit, LoopTyped
<1>3. QED
  BY <1>1, <1>2 DEF SchedulerInit, SchedulerInv, SchedulerTypeOK, LoopTyped, FiresOnTime

\* The loop looks at the clock and goes to sleep.
LEMMA ArmFires ==
  ASSUME SchedulerInv, Arm
  PROVE  SchedulerInv'
<1>0. now \in Minutes /\ fired <= now /\ fired \in 0 .. LastMinute /\ LoopTyped /\ Span \in Nat
  BY CalendarOfMinutes DEF SchedulerInv, SchedulerTypeOK, LoopTyped
<1>1. PICK c, u : /\ c = loop.cfg
                  /\ u = IF c.enabled /\ Parses(c.spec) THEN NextFiring(c.spec, now) ELSE Never
  OBVIOUS
<1>2. loop' = [loop EXCEPT !.at = "wait", !.since = now, !.until = u]
  BY <1>1 DEF Arm
<1>3. u # Never => FirstMatch(c.spec, now, now + 1, u) /\ c.enabled /\ Parses(c.spec)
  BY <1>0, <1>1, NextIsFirst
<1>4. u # Never => u \in Minutes /\ now + 1 <= u /\ Wanted(c, u)
  BY <1>3, Zenon DEF FirstMatch, Wanted
<1>5. u \in 0 .. LastMinute
  BY <1>4, NeverIsZero
<1>6. /\ loop'.at = "wait" /\ loop'.cfg = c /\ loop'.since = now /\ loop'.until = u
      /\ LoopTyped'
  BY <1>0, <1>1, <1>2, <1>5, NeverIsZero DEF LoopTyped
<1>7. u # Never => u > fired
  BY <1>0, <1>4, CalendarOfMinutes DEF Minutes
<1>8. ASSUME NEW t \in Minutes, now < t, t <= now + Span, u = Never \/ t < u
      PROVE  ~Wanted(c, t)
  <2>1. now + 1 <= t
    BY <1>0, <1>8 DEF Minutes
  <2>2. CASE c.enabled /\ Parses(c.spec)
    <3>1. FirstMatch(c.spec, now, now + 1, u)
      BY <1>0, <1>1, <2>2, NextIsFirst
    <3>2. ~Matches(c.spec, t)
      BY <1>8, <2>1, <3>1, Zenon DEF FirstMatch
    <3>3. QED
      BY <3>2 DEF Wanted
  <2>3. CASE ~(c.enabled /\ Parses(c.spec))
    BY <2>3 DEF Wanted
  <2>4. QED
    BY <2>2, <2>3
<1>9. UNCHANGED <<now, document, cfg, reload, saving, fired, saves>>
  BY DEF Arm
<1>10. FiresOnTime'
  BY <1>4, <1>6, <1>7, <1>8, <1>9 DEF FiresOnTime, Wanted
<1>11. SchedulerTypeOK'
  BY <1>6, <1>9 DEF SchedulerInv, SchedulerTypeOK, LoopTyped
<1>12. QED
  BY <1>0, <1>9, <1>10, <1>11 DEF SchedulerInv

LEMMA SchedulerInvStep == SchedulerInv /\ [SchedulerNext]_schedulerVars => SchedulerInv'
<1> SUFFICES ASSUME SchedulerInv, [SchedulerNext]_schedulerVars PROVE SchedulerInv'
  OBVIOUS
<1>0. SchedulerTypeOK /\ LoopTyped /\ fired <= now /\ FiresOnTime
  BY DEF SchedulerInv, SchedulerTypeOK, LoopTyped
<1>1. CASE Pass
  <2>1. now' \in Minutes /\ now <= now'
    BY <1>0, <1>1, CalendarOfMinutes DEF Pass, SchedulerTypeOK, Minutes
  <2>2. fired' <= now'
    BY <1>0, <1>1, <2>1, CalendarOfMinutes DEF Pass, SchedulerTypeOK, Minutes
  <2>3. UNCHANGED <<document, cfg, reload, saving, loop, fired, saves>>
    BY <1>1 DEF Pass
  <2>4. QED
    BY <1>0, <2>1, <2>2, <2>3 DEF SchedulerInv, SchedulerTypeOK, FiresOnTime, Wanted
<1>2. ASSUME NEW c \in Configs, SaveConfig(c)
      PROVE  SchedulerInv'
  <2>1. /\ document' \in Configs /\ saves' \in 0 .. MaxSaves
        /\ saving' \in [at : {"idle", "set", "wake"}, cfg : Configs]
    BY <1>0, <1>2, ConfigsAssumption DEF SaveConfig, SchedulerTypeOK
  <2>2. UNCHANGED <<now, cfg, reload, loop, fired>>
    BY <1>2 DEF SaveConfig
  <2>3. QED
    BY <1>0, <2>1, <2>2 DEF SchedulerInv, SchedulerTypeOK, FiresOnTime, Wanted
<1>3. CASE SetConfig \/ Wake
  <2>1. /\ cfg' \in Configs /\ reload' \in BOOLEAN
        /\ saving' \in [at : {"idle", "set", "wake"}, cfg : Configs]
    BY <1>0, <1>3 DEF SetConfig, Wake, SchedulerTypeOK
  <2>2. UNCHANGED <<now, document, loop, fired, saves>>
    BY <1>3 DEF SetConfig, Wake
  <2>3. QED
    BY <1>0, <2>1, <2>2 DEF SchedulerInv, SchedulerTypeOK, FiresOnTime, Wanted
<1>4. ASSUME LoopTyped', loop'.at # "wait", UNCHANGED <<now, document, cfg, saving, saves>>,
             reload' \in BOOLEAN, fired' \in 0 .. LastMinute, fired' <= now
      PROVE  SchedulerInv'
  BY <1>0, <1>4 DEF SchedulerInv, SchedulerTypeOK, LoopTyped, FiresOnTime
<1>5. CASE ReadConfig
  <2>1. LoopTyped' /\ loop'.at = "arm"
    BY <1>0, <1>5 DEF ReadConfig, LoopTyped, SchedulerTypeOK
  <2>2. UNCHANGED <<now, document, cfg, reload, saving, fired, saves>>
    BY <1>5 DEF ReadConfig
  <2>3. QED
    BY <1>0, <1>4, <2>1, <2>2 DEF SchedulerTypeOK
<1>6. CASE Arm
  BY <1>6, ArmFires
<1>7. CASE Reload
  <2>1. LoopTyped' /\ loop'.at = "top"
    BY <1>0, <1>7, NeverIsZero DEF Reload, LoopTyped
  <2>2. UNCHANGED <<now, document, cfg, saving, fired, saves>> /\ reload' \in BOOLEAN
    BY <1>7 DEF Reload
  <2>3. QED
    BY <1>0, <1>4, <2>1, <2>2 DEF SchedulerTypeOK
<1>8. CASE Fire
  <2>1. LoopTyped' /\ loop'.at = "run"
    BY <1>0, <1>8, NeverIsZero DEF Fire, LoopTyped
  <2>2. UNCHANGED <<now, document, cfg, reload, saving, saves>>
    BY <1>8 DEF Fire
  <2>3. fired' \in 0 .. LastMinute /\ fired' <= now
    BY <1>0, <1>8 DEF Fire, LoopTyped
  <2>4. QED
    BY <1>0, <1>4, <2>1, <2>2, <2>3 DEF SchedulerTypeOK
<1>9. CASE RunOver
  <2>1. LoopTyped' /\ loop'.at = "top"
    BY <1>0, <1>9 DEF RunOver, LoopTyped
  <2>2. UNCHANGED <<now, document, cfg, reload, saving, fired, saves>>
    BY <1>9 DEF RunOver
  <2>3. QED
    BY <1>0, <1>4, <2>1, <2>2 DEF SchedulerTypeOK
<1>10. CASE UNCHANGED schedulerVars
  BY <1>0, <1>10 DEF schedulerVars, SchedulerInv, SchedulerTypeOK, FiresOnTime, Wanted
<1>11. QED
  BY <1>1, <1>2, <1>3, <1>5, <1>6, <1>7, <1>8, <1>9, <1>10 DEF SchedulerNext, SchedulerStep

(***************************************************************************)
(* Every variable of the loop and of the requests that save its            *)
(* configuration stays in its type (Run, Save and wake in manager.go).     *)
(***************************************************************************)
THEOREM SchedulerTypeCorrect ==
  SchedulerInit /\ [][SchedulerNext]_schedulerVars => []SchedulerTypeOK
<1>1. SchedulerInv => SchedulerTypeOK
  BY DEF SchedulerInv
<1>2. QED
  BY <1>1, SchedulerStarts, SchedulerInvStep, PTL

(***************************************************************************)
(* However the configuration is saved, the clock goes on and the runs take *)
(* their time: a minute that matches never goes by while the loop sleeps,  *)
(* and it fires for none that does not match and for none twice, in any    *)
(* calendar whose clocks change at the full hour (Run in manager.go, Next  *)
(* in cron.go).                                                            *)
(***************************************************************************)
THEOREM FiresOnTimeAlways ==
  SchedulerInit /\ [][SchedulerNext]_schedulerVars => []FiresOnTime
<1>1. SchedulerInv => FiresOnTime
  BY DEF SchedulerInv
<1>2. QED
  BY <1>1, SchedulerStarts, SchedulerInvStep, PTL

----------------------------------------------------------------------------
\* Never more to publish than was committed.
StreamInv == EventTypeOK /\ publishing <= rev

LEMMA NaturalBounds ==
  /\ Buffer \in Nat /\ MaxRev \in Nat /\ MaxRules \in Nat /\ MaxEdits \in Nat
  /\ MaxFailures \in Nat /\ MaxDrops \in Nat /\ MaxLaunches \in Nat
BY EventStreamAssumption

StreamTyped(s) ==
  /\ s \in [at : {"off", "accepted", "subscribed", "open"}, queued : 0 .. Buffer]
  /\ s.queued > 0 => s.at \in {"subscribed", "open"}

FlagsTyped == hint \in BOOLEAN /\ settle \in BOOLEAN /\ local \in BOOLEAN /\ wake \in BOOLEAN

OthersTyped ==
  /\ rev \in 0 .. MaxRev /\ publishing \in 0 .. MaxRev /\ rules \in 0 .. MaxRules
  /\ massive \in 0 .. MaxRev
  /\ cycle \in [at : {"idle", "begun", "loaded", "answered", "stored", "pull", "pulled", "push", "end"},
                rules : 0 .. MaxRules, version : 0 .. MaxRules, rev : 0 .. MaxRev]
  /\ client \in [synced : 0 .. MaxRev, pushed : 0 .. MaxEdits,
                 rules : 0 .. MaxRules, version : 0 .. MaxRules]
  /\ edits \in 0 .. MaxEdits
  /\ failures \in 0 .. MaxFailures /\ drops \in 0 .. MaxDrops /\ launches \in 0 .. MaxLaunches
  /\ publishing <= rev

LEMMA NoStreamTyped == StreamTyped(NoStream)
BY NaturalBounds DEF NoStream, StreamTyped

LEMMA StreamStarts == EventInit => StreamInv
<1>1. SUFFICES ASSUME EventInit PROVE StreamInv
  OBVIOUS
<1>2. StreamTyped(stream)
  BY <1>1, NoStreamTyped DEF EventInit
<1>3. FlagsTyped
  BY <1>1 DEF EventInit, FlagsTyped
<1>4. OthersTyped
  BY <1>1, NaturalBounds DEF EventInit, OthersTyped, NoCycle
<1>5. QED
  BY <1>2, <1>3, <1>4, Zenon DEF StreamInv, EventTypeOK, StreamTyped, FlagsTyped, OthersTyped

\* The stream is gone.
LEMMA StreamOff ==
  ASSUME stream' = NoStream, FlagsTyped', OthersTyped'
  PROVE  StreamInv'
<1>1. StreamTyped(stream')
  BY NoStreamTyped, Zenon
<1>2. QED
  BY <1>1, Zenon DEF StreamInv, EventTypeOK, StreamTyped, FlagsTyped, OthersTyped

LEMMA ServerKeepsType ==
  ASSUME StreamInv,
         \/ Commit \/ Publish \/ Subscribing \/ Announce \/ Drop \/ ServerRestart \/ SaveRules
  PROVE  StreamInv'
<1> USE NaturalBounds DEF StreamInv, EventTypeOK, daemon, faults
<1>1. CASE Commit
  BY <1>1 DEF Commit
<1>2. CASE Publish
  BY <1>2 DEF Publish
<1>3. CASE Connect
  BY <1>3 DEF Connect
<1>4. CASE Subscribe
  BY <1>4 DEF Subscribe
<1>5. CASE Greet
  <2>1. stream' = [stream EXCEPT !.at = "open"] /\ stream.at = "subscribed" /\ hint' \in BOOLEAN
    BY <1>5 DEF Greet
  <2>2. failures' \in 0 .. MaxFailures
    BY <1>5 DEF Greet
  <2>3. UNCHANGED <<rev, publishing, rules, massive, daemon, drops, launches>>
    BY <1>5 DEF Greet
  <2>4. QED
    BY <2>1, <2>2, <2>3
<1>6. CASE Announce
  BY <1>6 DEF Announce
<1>7. CASE Drop
  <2>1. stream' = NoStream
    BY <1>7 DEF Drop
  <2>2. FlagsTyped'
    BY <1>7 DEF Drop, FlagsTyped
  <2>3. OthersTyped'
    BY <1>7 DEF Drop, OthersTyped
  <2>4. QED
    BY <2>1, <2>2, <2>3, StreamOff, Zenon
<1>8. CASE ServerRestart
  <2>1. stream' = NoStream
    BY <1>8 DEF ServerRestart
  <2>2. FlagsTyped'
    BY <1>8 DEF ServerRestart, FlagsTyped
  <2>3. OthersTyped'
    BY <1>8 DEF ServerRestart, OthersTyped
  <2>4. QED
    BY <2>1, <2>2, <2>3, StreamOff, Zenon
<1>9. CASE SaveRules
  BY <1>9 DEF SaveRules
<1>10. QED
  BY <1>1, <1>2, <1>3, <1>4, <1>5, <1>6, <1>7, <1>8, <1>9 DEF Subscribing

LEMMA DaemonKeepsType ==
  ASSUME StreamInv,
         \/ Edit \/ EditUnnoticed \/ Settled \/ LocalRequest \/ EventRequest \/ Tick
         \/ FetchFails \/ CycleFails \/ Launch \/ LetPass
  PROVE  StreamInv'
<1> USE NaturalBounds DEF StreamInv, EventTypeOK, NoCycle, server, faults
<1>1. CASE Edit
  BY <1>1 DEF Edit
<1>2. CASE EditUnnoticed
  BY <1>2 DEF EditUnnoticed
<1>3. CASE Settled
  BY <1>3 DEF Settled
<1>4. CASE LocalRequest
  BY <1>4 DEF LocalRequest
<1>5. CASE EventRequest
  BY <1>5 DEF EventRequest
<1>6. CASE Tick
  BY <1>6 DEF Tick
<1>7. CASE FetchFails
  BY <1>7 DEF FetchFails
<1>8. CASE CycleFails
  BY <1>8 DEF CycleFails
<1>9. CASE Launch \/ LetPass
  <2>1. stream' = NoStream
    BY <1>9 DEF Launch, LetPass, StartAgain
  <2>2. FlagsTyped'
    BY <1>9 DEF Launch, LetPass, StartAgain, FlagsTyped
  <2>3. OthersTyped'
    BY <1>9 DEF Launch, LetPass, StartAgain, OthersTyped
  <2>4. QED
    BY <2>1, <2>2, <2>3, StreamOff, Zenon
<1>10. QED
  BY <1>1, <1>2, <1>3, <1>4, <1>5, <1>6, <1>7, <1>8, <1>9

LEMMA CycleKeepsType ==
  ASSUME StreamInv, CycleStep
  PROVE  StreamInv'
<1> USE NaturalBounds DEF StreamInv, EventTypeOK, NoCycle, InCycle, server, faults
<1>1. CASE BeginCycle
  BY <1>1 DEF BeginCycle
<1>2. CASE LoadRules
  BY <1>2 DEF LoadRules
<1>3. CASE LoadVersion
  BY <1>3 DEF LoadVersion
<1>4. CASE KeepRules
  BY <1>4 DEF KeepRules
<1>5. CASE StoreRules
  BY <1>5 DEF StoreRules
<1>6. CASE StoreVersion
  BY <1>6 DEF StoreVersion
<1>7. CASE Pull
  BY <1>7 DEF Pull
<1>8. CASE Record
  BY <1>8 DEF Record
<1>9. CASE Push
  BY <1>9 DEF Push
<1>10. CASE EndCycle
  BY <1>10 DEF EndCycle
<1>11. CASE Pause
  BY <1>11 DEF Pause
<1>12. QED
  BY <1>1, <1>2, <1>3, <1>4, <1>5, <1>6, <1>7, <1>8, <1>9, <1>10, <1>11 DEF CycleStep

LEMMA StreamStep == StreamInv /\ [EventNext]_eventVars => StreamInv'
<1>1. ASSUME StreamInv, UNCHANGED eventVars
      PROVE  StreamInv'
  BY <1>1 DEF eventVars, StreamInv, EventTypeOK
<1>2. QED
  BY <1>1, ServerKeepsType, DaemonKeepsType, CycleKeepsType DEF EventNext, Environment

(***************************************************************************)
(* Every variable stays in its type: no subscriber is ever behind by more  *)
(* than the events its channel holds (publish in api/events.go).           *)
(***************************************************************************)
THEOREM EventTypeCorrect == EventSpec => []EventTypeOK
<1>1. EventInit => StreamInv
  BY StreamStarts
<1>2. StreamInv /\ [EventNext]_eventVars => StreamInv'
  BY StreamStep
<1>3. StreamInv => EventTypeOK
  BY DEF StreamInv
<1>4. QED
  BY <1>1, <1>2, <1>3, PTL DEF EventSpec

----------------------------------------------------------------------------
(***************************************************************************)
(* Versions only grow, the rules a cycle has read are those of the version *)
(* it has read, and neither is newer than the stored ones.                 *)
(***************************************************************************)
RulesInv ==
  /\ VersionTrue
  /\ client.version <= rules /\ cycle.version <= rules
  /\ cycle.at = "loaded" => cycle.rules = rules
  /\ cycle.at \in {"answered", "stored"} =>
       /\ client.version <= cycle.version
       /\ cycle.version = rules => cycle.rules = rules

LEMMA RulesStart == EventInit => RulesInv
BY NaturalBounds DEF EventInit, RulesInv, VersionTrue, NoCycle

\* Steps that touch neither the rules nor who has them.
LEMMA RulesUntouched ==
  ASSUME RulesInv, UNCHANGED <<rules, cycle, client>>
  PROVE  RulesInv'
BY DEF RulesInv, VersionTrue

LEMMA RulesStep ==
  ASSUME ~Torn
  PROVE  StreamInv /\ RulesInv /\ [EventNext]_eventVars => RulesInv'
<1> SUFFICES ASSUME EventTypeOK, RulesInv, [EventNext]_eventVars
             PROVE  RulesInv'
  BY DEF StreamInv
<1>1. CASE SaveRules
  BY <1>1, NaturalBounds DEF SaveRules, EventTypeOK, RulesInv, VersionTrue, daemon
<1>2. CASE BeginCycle
  BY <1>2 DEF BeginCycle, EventTypeOK, RulesInv, VersionTrue, server
<1>3. CASE LoadRules
  BY <1>3 DEF LoadRules, InCycle, EventTypeOK, RulesInv, VersionTrue, server
<1>4. CASE LoadVersion
  BY <1>4, NaturalBounds
     DEF LoadVersion, InCycle, EventTypeOK, RulesInv, VersionTrue, server
<1>5. CASE KeepRules
  BY <1>5 DEF KeepRules, InCycle, EventTypeOK, RulesInv, VersionTrue, server
<1>6. CASE StoreRules
  BY <1>6, NaturalBounds
     DEF StoreRules, InCycle, EventTypeOK, RulesInv, VersionTrue, server
<1>7. CASE StoreVersion
  BY <1>7, NaturalBounds
     DEF StoreVersion, InCycle, EventTypeOK, RulesInv, VersionTrue, server
<1>8. CASE Pull \/ Record \/ Push
  BY <1>8 DEF Pull, Record, Push, InCycle, EventTypeOK, RulesInv, VersionTrue, server
<1>9. CASE EndCycle \/ Pause \/ FetchFails \/ CycleFails \/ Launch \/ LetPass
  BY <1>9, NaturalBounds
     DEF EndCycle, Pause, FetchFails, CycleFails, Launch, LetPass, StartAgain, NoCycle, InCycle, EventTypeOK,
         RulesInv, VersionTrue, server
<1>10. CASE Edit \/ EditUnnoticed \/ Settled \/ LocalRequest \/ EventRequest \/ Tick
  BY <1>10, RulesUntouched
     DEF Edit, EditUnnoticed, Settled, LocalRequest, EventRequest, Tick, server
<1>11. CASE Commit \/ Publish \/ Subscribing \/ Announce \/ Drop \/ ServerRestart
  BY <1>11, RulesUntouched
     DEF Commit, Publish, Subscribing, Connect, Subscribe, Greet, Announce, Drop,
         ServerRestart, daemon
<1>12. CASE UNCHANGED eventVars
  BY <1>12, RulesUntouched DEF eventVars
<1>13. QED
  BY <1>1, <1>2, <1>3, <1>4, <1>5, <1>6, <1>7, <1>8, <1>9, <1>10, <1>11, <1>12
     DEF EventNext, Environment, CycleStep

(***************************************************************************)
(* Unless a save of the rules falls between the two queries of Load, a     *)
(* client that has stored the newest version filters by the newest rules,  *)
(* wherever it is killed (SetIgnore in sync/state.go).                     *)
(***************************************************************************)
THEOREM VersionIsTrue ==
  ASSUME ~Torn
  PROVE  EventSpec => []VersionTrue
<1>1. EventInit => StreamInv /\ RulesInv
  BY StreamStarts, RulesStart
<1>2. StreamInv /\ RulesInv /\ [EventNext]_eventVars => StreamInv' /\ RulesInv'
  BY StreamStep, RulesStep
<1>3. RulesInv => VersionTrue
  BY DEF RulesInv
<1>4. QED
  BY <1>1, <1>2, <1>3, PTL DEF EventSpec

----------------------------------------------------------------------------
(***************************************************************************)
(* The parts together.  A step of the whole is a step of one part; the     *)
(* others stay as they are.                                                *)
(***************************************************************************)
LEMMA StepOfOnePart ==
  ASSUME [Next]_vars
  PROVE  [SchedulerNext]_schedulerVars /\ [EventNext]_eventVars /\ [ThinningNext]_thinningVars
BY DEF Next, vars

(***************************************************************************)
(* The types of the loop that makes backups and of the event stream, in    *)
(* the specification the runs check.                                       *)
(***************************************************************************)
THEOREM TypeCorrect == Spec => []TypeOK
<1>1. Init => SchedulerInit /\ EventInit
  BY DEF Init
<1>2. [Next]_vars => [SchedulerNext]_schedulerVars /\ [EventNext]_eventVars
  BY StepOfOnePart
<1>3. SchedulerInv /\ StreamInv => TypeOK
  BY DEF SchedulerInv, StreamInv, TypeOK
<1>4. QED
  BY <1>1, <1>2, <1>3, SchedulerStarts, SchedulerInvStep, StreamStarts, StreamStep, PTL DEF Spec
=============================================================================
