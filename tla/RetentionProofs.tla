-------------------------- MODULE RetentionProofs --------------------------
(***************************************************************************)
(* What Classify does for every set of snapshots, every calendar and all   *)
(* limits.  The newest snapshots are daily ones, so none of them is ever   *)
(* thinned out.  Induction goes by the smallest counterexample.            *)
(***************************************************************************)
EXTENDS Retention, FiniteSetTheorems, WellFoundedInduction, TLAPS

\* Any non-empty set of natural numbers has a least one.
LEMMA LeastOf ==
  ASSUME NEW T, T \subseteq Nat, T # {}
  PROVE  \E n \in T : \A m \in T : n <= m
<1>1. PICK n \in T : \A m \in T : <<m, n>> \notin OpToRel(<, Nat)
  BY WFMin, NatLessThanWellFounded, Zenon
<1>2. \A m \in T : ~ (m < n)
  BY <1>1, Zenon DEF OpToRel
<1>3. QED
  BY <1>2, SMT

\* One turn of the loop, given what the turns before it have found.
Turn(f, S, c, d) ==
  IF d > LastDay THEN Unvisited
  ELSE IF d \in S THEN Visit(f[d + 1], d, c) ELSE f[d + 1]

\* g is what Seen should be from day n on.
Covers(g, n, S, c) == g = [d \in n .. LastDay + 1 |-> Turn(g, S, c, d)]

LEMMA CoversTheEnd ==
  ASSUME NEW S, NEW c
  PROVE  \E g : Covers(g, LastDay + 1, S, c)
<1> DEFINE g == [d \in LastDay + 1 .. LastDay + 1 |-> Unvisited]
<1>1. Covers(g, LastDay + 1, S, c)
  BY LastDayAssumption DEF Covers, Turn
<1>2. QED
  BY <1>1, Zenon

LEMMA CoversOneMore ==
  ASSUME NEW S, NEW c, NEW n \in 1 .. LastDay, NEW h, Covers(h, n + 1, S, c)
  PROVE  \E g : Covers(g, n, S, c)
<1> DEFINE g == [d \in n .. LastDay + 1 |-> IF d = n THEN Turn(h, S, c, n) ELSE h[d]]
<1>1. n + 1 .. LastDay + 1 \subseteq n .. LastDay + 1
  BY LastDayAssumption
<1>2. \A d \in n + 1 .. LastDay + 1 : h[d] = Turn(h, S, c, d) /\ g[d] = h[d]
  BY LastDayAssumption DEF Covers
<1>3. ASSUME NEW d \in n .. LastDay + 1
      PROVE  g[d] = Turn(g, S, c, d)
  <2>1. d + 1 \in n + 1 .. LastDay + 1 \/ d > LastDay
    BY LastDayAssumption
  <2>2. Turn(g, S, c, d) = Turn(h, S, c, d)
    BY <1>2, <2>1, LastDayAssumption DEF Turn
  <2>3. d = n \/ d \in n + 1 .. LastDay + 1
    BY LastDayAssumption
  <2>4. QED
    BY <1>2, <2>2, <2>3
<1>4. Covers(g, n, S, c)
  <2> HIDE DEF g
  <2>1. g = [d \in n .. LastDay + 1 |-> g[d]]
    BY DEF g
  <2>2. QED
    BY <1>3, <2>1 DEF Covers
<1>5. QED
  BY <1>4, Zenon

\* Counting down from hi reaches every number from lo on.
LEMMA Countdown ==
  ASSUME NEW lo \in Nat, NEW hi \in Nat, NEW T,
         hi \in T, \A n \in lo .. hi - 1 : n + 1 \in T => n \in T
  PROVE  lo .. hi \subseteq T
<1> DEFINE Missed == {k \in Nat : hi - k \in lo .. hi /\ hi - k \notin T}
<1>1. Missed = {}
  <2>1. SUFFICES ASSUME Missed # {} PROVE FALSE
    OBVIOUS
  <2>2. PICK k \in Missed : \A m \in Missed : k <= m
    BY <2>1, LeastOf, Zenon
  <2>3. k \in Nat /\ hi - k \in lo .. hi /\ hi - k \notin T
    OBVIOUS
  <2>4. k # 0
    BY <2>3
  <2>5. k - 1 \in Nat /\ ~ (k <= k - 1) /\ hi - (k - 1) \in lo .. hi
    BY <2>3, <2>4
  <2>6. hi - (k - 1) \in T
    BY <2>2, <2>5
  <2>7. hi - (k - 1) = (hi - k) + 1 /\ hi - k \in lo .. hi - 1
    BY <2>3, <2>4
  <2>8. QED
    BY <2>3, <2>6, <2>7
<1>2. ASSUME NEW n \in lo .. hi
      PROVE  n \in T
  <2>1. PICK k \in Nat : hi - k = n
    <3>1. hi - n \in Nat /\ hi - (hi - n) = n
      OBVIOUS
    <3>2. QED
      BY <3>1
  <2>2. k \notin Missed
    BY <1>1
  <2>3. QED
    BY <2>1, <2>2
<1>3. QED
  BY <1>2

LEMMA CoversAll ==
  ASSUME NEW S, NEW c
  PROVE  \E g : Covers(g, 1, S, c)
<1> DEFINE T == {n \in 1 .. LastDay + 1 : \E g : Covers(g, n, S, c)}
<1>1. LastDay + 1 \in T
  BY CoversTheEnd, LastDayAssumption
<1>2. \A n \in 1 .. LastDay : n + 1 \in T => n \in T
  BY CoversOneMore, LastDayAssumption
<1>3. 1 .. LastDay + 1 \subseteq T
  <2> HIDE DEF T
  <2>1. LastDay + 1 \in Nat /\ 1 .. (LastDay + 1) - 1 = 1 .. LastDay
    BY LastDayAssumption
  <2>2. QED
    BY <1>1, <1>2, <2>1, Countdown
<1>4. 1 \in 1 .. LastDay + 1
  BY LastDayAssumption
<1>5. QED
  BY <1>3, <1>4

\* The recursive definition of Seen does define a function.
LEMMA SeenDefined ==
  ASSUME NEW S, NEW c
  PROVE  Seen(S, c) = [d \in 1 .. LastDay + 1 |-> Turn(Seen(S, c), S, c, d)]
<1>1. Seen(S, c) = CHOOSE f : Covers(f, 1, S, c)
  BY Zenon DEF Seen, Turn, Covers
<1>2. Covers(Seen(S, c), 1, S, c)
  BY <1>1, CoversAll, Zenon
<1>3. QED
  BY <1>2, Zenon DEF Covers

LEMMA SeenFrom ==
  ASSUME NEW S, NEW c, NEW d \in 1 .. LastDay + 1
  PROVE  Seen(S, c)[d] = Turn(Seen(S, c), S, c, d)
<1> DEFINE f == Seen(S, c)
<1>1. f = [n \in 1 .. LastDay + 1 |-> Turn(f, S, c, n)]
  BY SeenDefined, Zenon
<1> HIDE DEF f
<1>2. f[d] = Turn(f, S, c, d)
  BY <1>1
<1>3. QED
  BY <1>2 DEF f

----------------------------------------------------------------------------
(***************************************************************************)
(* The loop and the reference definition, one day at a time.               *)
(***************************************************************************)
PeriodsOf(T, Period) == {Period[e] : e \in T}

\* P is what a tier has claimed when it has seen the snapshots T.
TierOf(P, T, Period, limit) ==
  /\ P \subseteq PeriodsOf(T, Period)
  /\ Cardinality(P) = IF Cardinality(PeriodsOf(T, Period)) < limit
                      THEN Cardinality(PeriodsOf(T, Period)) ELSE limit

Wants(P, Period, limit, d) == Cardinality(P) < limit /\ Period[d] \notin P

LEMMA DaysFinite ==
  ASSUME NEW T, T \subseteq Days
  PROVE  IsFiniteSet(T) /\ Cardinality(T) \in Nat
<1>1. IsFiniteSet(Days)
  BY FS_Interval, LastDayAssumption DEF Days
<1>2. QED
  BY <1>1, FS_Subset, FS_CardinalityType

LEMMA PeriodsFinite ==
  ASSUME NEW T, T \subseteq Days, NEW Period
  PROVE  IsFiniteSet(PeriodsOf(T, Period)) /\ Cardinality(PeriodsOf(T, Period)) \in Nat
<1>1. IsFiniteSet(T)
  BY DaysFinite
<1>2. IsFiniteSet(PeriodsOf(T, Period))
  <2> DEFINE f == [e \in T |-> Period[e]]
  <2>1. f \in Surjection(T, PeriodsOf(T, Period))
    BY DEF PeriodsOf, Surjection
  <2>2. QED
    BY <1>1, <2>1, FS_Surjection
<1>3. QED
  BY <1>2, FS_CardinalityType

\* While a tier is not full, it has claimed every period there was.
LEMMA TierNotFull ==
  ASSUME NEW T, T \subseteq Days, NEW Period, NEW limit \in Nat,
         NEW P, TierOf(P, T, Period, limit)
  PROVE  /\ IsFiniteSet(P) /\ Cardinality(P) \in Nat
         /\ Cardinality(P) < limit <=> Cardinality(PeriodsOf(T, Period)) < limit
         /\ Cardinality(P) < limit => P = PeriodsOf(T, Period)
<1> DEFINE Q == PeriodsOf(T, Period)
<1>1. IsFiniteSet(Q) /\ Cardinality(Q) \in Nat
  BY PeriodsFinite
<1>2. P \subseteq Q /\ Cardinality(P) = IF Cardinality(Q) < limit THEN Cardinality(Q) ELSE limit
  BY DEF TierOf
<1> HIDE DEF Q
<1>3. IsFiniteSet(P) /\ Cardinality(P) \in Nat /\ (Cardinality(P) = Cardinality(Q) => P = Q)
  BY <1>1, <1>2, FS_Subset, FS_CardinalityType
<1>4. QED
  BY <1>1, <1>2, <1>3 DEF Q

LEMMA NewerThan ==
  ASSUME NEW T, T \subseteq Days, NEW d \in Days, \A e \in T : d < e
  PROVE  /\ d \notin T
         /\ NewerDays(T \cup {d}, d) = T
         /\ \A e \in T : NewerDays(T \cup {d}, e) = NewerDays(T, e)
<1>1. d \in Int /\ T \subseteq Int
  BY LastDayAssumption DEF Days
<1>2. d \notin T /\ ~ (d > d) /\ \A e \in T : e > d /\ ~ (d > e)
  BY <1>1
<1>3. NewerDays(T \cup {d}, d) = T
  BY <1>2 DEF NewerDays
<1>4. \A e \in T : NewerDays(T \cup {d}, e) = NewerDays(T, e)
  BY <1>2 DEF NewerDays
<1>5. QED
  BY <1>2, <1>3, <1>4

OlderThan(d, T) == d \in Days /\ T \subseteq Days /\ \A e \in T : d < e

\* The loop's step, and what it means for the tier.
GoesOn(P, T, d, Period, limit) ==
  /\ TierOf(IF Wants(P, Period, limit, d) THEN P \cup {Period[d]} ELSE P,
            T \cup {d}, Period, limit)
  /\ NewestOfPeriod(T \cup {d}, Period, limit)
       = NewestOfPeriod(T, Period, limit)
           \cup (IF Wants(P, Period, limit, d) THEN {d} ELSE {})

\* One more snapshot, older than all: the tier goes on as the loop does.
LEMMA TierStep ==
  ASSUME NEW T, NEW d, OlderThan(d, T),
         NEW Period, NEW limit \in Nat, NEW P, TierOf(P, T, Period, limit)
  PROVE  GoesOn(P, T, d, Period, limit)
<1> DEFINE Q == PeriodsOf(T, Period)
           R == PeriodsOf(T \cup {d}, Period)
<1>0. d \in Days /\ T \subseteq Days /\ \A e \in T : d < e
  BY DEF OlderThan
<1>1. /\ IsFiniteSet(P) /\ Cardinality(P) \in Nat
      /\ Cardinality(P) < limit <=> Cardinality(Q) < limit
      /\ Cardinality(P) < limit => P = Q
  BY <1>0, TierNotFull, Zenon
<1>2. IsFiniteSet(Q) /\ Cardinality(Q) \in Nat
  BY <1>0, PeriodsFinite
<1>3. R = Q \cup {Period[d]}
  BY DEF PeriodsOf
<1>4. P \subseteq Q /\ Cardinality(P) = IF Cardinality(Q) < limit THEN Cardinality(Q) ELSE limit
  BY DEF TierOf
<1>5. /\ Cardinality(R) = Cardinality(Q) + (IF Period[d] \in Q THEN 0 ELSE 1)
      /\ Cardinality(P \cup {Period[d]}) = Cardinality(P) + (IF Period[d] \in P THEN 0 ELSE 1)
  <2> HIDE DEF Q, R
  <2>1. Cardinality(R) = IF Period[d] \in Q THEN Cardinality(Q) ELSE Cardinality(Q) + 1
    BY <1>2, <1>3, FS_AddElement, Zenon
  <2>2. Cardinality(P \cup {Period[d]})
          = IF Period[d] \in P THEN Cardinality(P) ELSE Cardinality(P) + 1
    BY <1>1, FS_AddElement, Zenon
  <2>3. QED
    BY <1>1, <1>2, <2>1, <2>2
<1>6. TierOf(IF Wants(P, Period, limit, d) THEN P \cup {Period[d]} ELSE P,
             T \cup {d}, Period, limit)
  <2> HIDE DEF Q
  <2>1. CASE Wants(P, Period, limit, d)
    <3>1. P = Q /\ Period[d] \notin Q /\ Cardinality(Q) < limit
      BY <1>1, <2>1 DEF Wants
    <3>2. P \cup {Period[d]} = R /\ Cardinality(R) = Cardinality(Q) + 1
      BY <1>3, <1>5, <3>1
    <3> HIDE DEF R
    <3>3. /\ R \subseteq R
          /\ Cardinality(R) = IF Cardinality(R) < limit THEN Cardinality(R) ELSE limit
      BY <1>2, <3>1, <3>2
    <3>4. TierOf(R, T \cup {d}, Period, limit)
      BY <3>3 DEF TierOf, R
    <3>5. QED
      BY <2>1, <3>2, <3>4
  <2>2. CASE ~Wants(P, Period, limit, d)
    <3>1. CASE Cardinality(P) < limit
      <4>1. P = Q /\ Period[d] \in Q /\ R = Q
        BY <1>1, <1>3, <2>2, <3>1 DEF Wants
      <4>2. QED
        BY <1>1, <2>2, <3>1, <4>1 DEF TierOf
    <3>2. CASE ~ (Cardinality(P) < limit)
      <4>1. Cardinality(P) = limit /\ ~ (Cardinality(R) < limit)
        BY <1>1, <1>2, <1>4, <1>5, <3>2
      <4>2. P \subseteq R
        BY <1>3, <1>4
      <4>3. QED
        BY <2>2, <4>1, <4>2 DEF TierOf
    <3>3. QED
      BY <3>1, <3>2
  <2>3. QED
    BY <2>1, <2>2
<1>7. d \in NewestOfPeriod(T \cup {d}, Period, limit) <=> Wants(P, Period, limit, d)
  <2>1. NewerDays(T \cup {d}, d) = T
    BY <1>0, NewerThan
  <2>2. (\A e \in T : Period[e] # Period[d]) <=> Period[d] \notin Q
    BY DEF PeriodsOf
  <2>3. d \in NewestOfPeriod(T \cup {d}, Period, limit) <=> Period[d] \notin Q /\ Cardinality(Q) < limit
    BY <2>1, <2>2 DEF NewestOfPeriod, PeriodsOf
  <2> HIDE DEF Q
  <2>4. QED
    BY <1>1, <2>3 DEF Wants
<1>8. ASSUME NEW e \in T
      PROVE  e \in NewestOfPeriod(T \cup {d}, Period, limit) <=> e \in NewestOfPeriod(T, Period, limit)
  <2>1. e \in T \cup {d} /\ NewerDays(T \cup {d}, e) = NewerDays(T, e)
    BY <1>0, NewerThan
  <2>2. QED
    BY <2>1 DEF NewestOfPeriod
<1>9. /\ NewestOfPeriod(T \cup {d}, Period, limit) \subseteq T \cup {d}
      /\ NewestOfPeriod(T, Period, limit) \subseteq T
  BY DEF NewestOfPeriod
<1>10. d \notin T
  BY <1>0, NewerThan
<1>11. QED
  <2>1. NewestOfPeriod(T \cup {d}, Period, limit)
          = NewestOfPeriod(T, Period, limit)
              \cup (IF Wants(P, Period, limit, d) THEN {d} ELSE {})
    BY <1>7, <1>8, <1>9, <1>10
  <2>2. QED
    BY <1>6, <2>1 DEF GoesOn

Daily(T, limit) == {e \in T : Cardinality(NewerDays(T, e)) < limit}

LEMMA DailyStep ==
  ASSUME NEW T, T \subseteq Days, NEW d \in Days, \A e \in T : d < e, NEW limit
  PROVE  Daily(T \cup {d}, limit)
           = Daily(T, limit) \cup (IF Cardinality(T) < limit THEN {d} ELSE {})
<1>1. /\ d \notin T /\ NewerDays(T \cup {d}, d) = T
      /\ \A e \in T : NewerDays(T \cup {d}, e) = NewerDays(T, e)
  BY NewerThan
<1>2. d \in Daily(T \cup {d}, limit) <=> Cardinality(T) < limit
  BY <1>1 DEF Daily
<1>3. \A e \in T : e \in Daily(T \cup {d}, limit) <=> e \in Daily(T, limit)
  BY <1>1 DEF Daily
<1>4. Daily(T \cup {d}, limit) \subseteq T \cup {d} /\ Daily(T, limit) \subseteq T
  BY DEF Daily
<1>5. QED
  BY <1>1, <1>2, <1>3, <1>4

\* What the loop has found when it has seen exactly the snapshots T.
Agrees(v, T, c) ==
  /\ v.seen = Cardinality(T)
  /\ TierOf(v.weeks, T \cap Dated, Week, c.weekly)
  /\ TierOf(v.months, T \cap Dated, Month, c.monthly)
  /\ v.kept = GrandfatherFatherSon(T, c)

TierClaims(P, Period, limit, d) == d \in Dated /\ Wants(P, Period, limit, d)

DatedGoesOn(P, T, d, Period, limit) ==
  /\ TierOf(IF TierClaims(P, Period, limit, d) THEN P \cup {Period[d]} ELSE P,
            (T \cup {d}) \cap Dated, Period, limit)
  /\ NewestOfPeriod((T \cup {d}) \cap Dated, Period, limit)
       = NewestOfPeriod(T \cap Dated, Period, limit)
           \cup (IF TierClaims(P, Period, limit, d) THEN {d} ELSE {})

\* A tier of dated snapshots, whether or not the next one is a real date.
LEMMA DatedStep ==
  ASSUME NEW T, NEW d, OlderThan(d, T),
         NEW Period, NEW limit \in Nat, NEW P, TierOf(P, T \cap Dated, Period, limit)
  PROVE  DatedGoesOn(P, T, d, Period, limit)
<1>1. CASE d \in Dated
  <2>1. (T \cup {d}) \cap Dated = (T \cap Dated) \cup {d}
    BY <1>1
  <2>2. TierClaims(P, Period, limit, d) <=> Wants(P, Period, limit, d)
    BY <1>1 DEF TierClaims
  <2>3. OlderThan(d, T \cap Dated)
    BY DEF OlderThan
  <2>4. GoesOn(P, T \cap Dated, d, Period, limit)
    BY <2>3, TierStep, Zenon
  <2>5. QED
    BY <2>1, <2>2, <2>4 DEF GoesOn, DatedGoesOn
<1>2. CASE d \notin Dated
  <2>1. (T \cup {d}) \cap Dated = T \cap Dated /\ ~TierClaims(P, Period, limit, d)
    BY <1>2 DEF TierClaims
  <2>2. QED
    BY <2>1 DEF DatedGoesOn
<1>3. QED
  BY <1>1, <1>2

LEMMA VisitAgrees ==
  ASSUME NEW T, T \subseteq Days, NEW d \in Days, \A e \in T : d < e,
         NEW c \in Limits, NEW v, Agrees(v, T, c)
  PROVE  Agrees(Visit(v, d, c), T \cup {d}, c)
<1> DEFINE daily   == v.seen < c.daily
           weekly  == TierClaims(v.weeks, Week, c.weekly, d)
           monthly == TierClaims(v.months, Month, c.monthly, d)
           next    == Visit(v, d, c)
<1>1. c.weekly \in Nat /\ c.monthly \in Nat
  BY DEF Limits
<1>2. d \notin T /\ OlderThan(d, T)
  BY NewerThan DEF OlderThan
<1>3. v.seen = Cardinality(T) /\ v.kept = GrandfatherFatherSon(T, c)
  BY DEF Agrees
<1>4. next.seen = Cardinality(T \cup {d})
  <2>1. IsFiniteSet(T)
    BY DaysFinite
  <2>2. Cardinality(T \cup {d}) = IF d \in T THEN Cardinality(T) ELSE Cardinality(T) + 1
    BY <2>1, FS_AddElement, Zenon
  <2>3. next.seen = v.seen + 1
    BY DEF Visit
  <2>4. QED
    BY <1>2, <1>3, <2>2, <2>3
<1>5. /\ TierOf(next.weeks, (T \cup {d}) \cap Dated, Week, c.weekly)
      /\ NewestOfPeriod((T \cup {d}) \cap Dated, Week, c.weekly)
           = NewestOfPeriod(T \cap Dated, Week, c.weekly) \cup (IF weekly THEN {d} ELSE {})
  <2>1. TierOf(v.weeks, T \cap Dated, Week, c.weekly)
    BY DEF Agrees
  <2>0. DatedGoesOn(v.weeks, T, d, Week, c.weekly)
    BY <1>1, <1>2, <2>1, DatedStep, Zenon
  <2>2. next.weeks = IF weekly THEN v.weeks \cup {Week[d]} ELSE v.weeks
    BY DEF Visit, TierClaims, Wants
  <2> HIDE DEF next
  <2>3. QED
    BY <2>0, <2>2 DEF DatedGoesOn
<1>6. /\ TierOf(next.months, (T \cup {d}) \cap Dated, Month, c.monthly)
      /\ NewestOfPeriod((T \cup {d}) \cap Dated, Month, c.monthly)
           = NewestOfPeriod(T \cap Dated, Month, c.monthly) \cup (IF monthly THEN {d} ELSE {})
  <2>1. TierOf(v.months, T \cap Dated, Month, c.monthly)
    BY DEF Agrees
  <2>0. DatedGoesOn(v.months, T, d, Month, c.monthly)
    BY <1>1, <1>2, <2>1, DatedStep, Zenon
  <2>2. next.months = IF monthly THEN v.months \cup {Month[d]} ELSE v.months
    BY DEF Visit, TierClaims, Wants
  <2> HIDE DEF next
  <2>3. QED
    BY <2>0, <2>2 DEF DatedGoesOn
<1>7. Daily(T \cup {d}, c.daily) = Daily(T, c.daily) \cup (IF daily THEN {d} ELSE {})
  BY <1>3, DailyStep
<1>8. next.kept = GrandfatherFatherSon(T \cup {d}, c)
  <2>1. \A U : GrandfatherFatherSon(U, c) = Daily(U, c.daily)
                 \cup NewestOfPeriod(U \cap Dated, Week, c.weekly)
                 \cup NewestOfPeriod(U \cap Dated, Month, c.monthly)
    BY Zenon DEF GrandfatherFatherSon, Daily
  <2>2. next.kept = IF daily \/ weekly \/ monthly THEN v.kept \cup {d} ELSE v.kept
    BY DEF Visit, TierClaims, Wants
  <2> HIDE DEF next, daily, weekly, monthly
  <2>3. /\ v.kept = Daily(T, c.daily) \cup NewestOfPeriod(T \cap Dated, Week, c.weekly)
                       \cup NewestOfPeriod(T \cap Dated, Month, c.monthly)
        /\ GrandfatherFatherSon(T \cup {d}, c)
             = (Daily(T, c.daily) \cup (IF daily THEN {d} ELSE {}))
               \cup (NewestOfPeriod(T \cap Dated, Week, c.weekly)
                       \cup (IF weekly THEN {d} ELSE {}))
               \cup (NewestOfPeriod(T \cap Dated, Month, c.monthly)
                       \cup (IF monthly THEN {d} ELSE {}))
    BY <1>3, <1>5, <1>6, <1>7, <2>1, Zenon
  <2>4. QED
    BY <2>2, <2>3
<1> HIDE DEF next
<1>9. QED
  BY <1>4, <1>5, <1>6, <1>8 DEF Agrees, next

LEMMA NothingSeen ==
  ASSUME NEW c \in Limits
  PROVE  Agrees(Unvisited, {}, c)
<1>1. Cardinality({}) = 0 /\ c.weekly \in Nat /\ c.monthly \in Nat
  BY FS_EmptySet DEF Limits
<1>2. \A Period : PeriodsOf({}, Period) = {}
  BY DEF PeriodsOf
<1>3. {} \cap Dated = {}
  OBVIOUS
<1>4. GrandfatherFatherSon({}, c) = {}
  BY DEF GrandfatherFatherSon, NewestOfPeriod
<1>5. TierOf({}, {}, Week, c.weekly) /\ TierOf({}, {}, Month, c.monthly)
  BY <1>1, <1>2 DEF TierOf
<1>6. QED
  BY <1>1, <1>3, <1>4, <1>5 DEF Agrees, Unvisited

(***************************************************************************)
(* The loop of Classify keeps exactly what its comment promises, the last  *)
(* daily snapshots and the newest of each of the last weeks and months     *)
(* that have one, however the weeks and the months lie and however many    *)
(* names are no real dates.                                                *)
(***************************************************************************)
THEOREM ClassifyKeepsItsPromise ==
  ASSUME NEW S, S \subseteq Days, NEW c \in Limits
  PROVE  Classify(S, c) = GrandfatherFatherSon(S, c)
<1> DEFINE From(d) == {e \in S : d <= e}
           Done == {d \in 1 .. LastDay + 1 : Agrees(Seen(S, c)[d], From(d), c)}
<1>0. \A e \in S : e \in Int /\ 1 <= e /\ e <= LastDay /\ e \in Days
  BY LastDayAssumption DEF Days
<1>1. LastDay + 1 \in Done
  <2>1. From(LastDay + 1) = {} /\ LastDay + 1 \in 1 .. LastDay + 1 /\ LastDay + 1 > LastDay
    BY <1>0, LastDayAssumption
  <2>2. Seen(S, c)[LastDay + 1] = Unvisited
    BY <2>1, SeenFrom DEF Turn
  <2>3. QED
    BY <2>1, <2>2, NothingSeen
<1>2. ASSUME NEW n \in 1 .. LastDay, n + 1 \in Done
      PROVE  n \in Done
  <2>0. n \in Days /\ n \in 1 .. LastDay + 1 /\ ~ (n > LastDay) /\ n \in Int
    BY LastDayAssumption DEF Days
  <2>a. \A e \in S : (n <= e <=> n + 1 <= e \/ e = n) /\ (n + 1 <= e => n < e)
    <3> HIDE DEF Done, From
    <3>1. QED
      BY <1>0, <2>0
  <2>1. From(n + 1) \subseteq Days /\ \A e \in From(n + 1) : n < e
    BY <2>a, Zenon DEF From
  <2>2. Agrees(Seen(S, c)[n + 1], From(n + 1), c)
    BY <1>2
  <2>3. Seen(S, c)[n] = IF n \in S THEN Visit(Seen(S, c)[n + 1], n, c) ELSE Seen(S, c)[n + 1]
    BY <2>0, SeenFrom DEF Turn
  <2>4. CASE n \in S
    <3>1. \A e : e \in From(n) <=> e \in From(n + 1) \/ e = n
      BY <2>0, <2>4, <2>a, Zenon DEF From
    <3>2. From(n) = From(n + 1) \cup {n}
      BY <3>1
    <3> HIDE DEF From
    <3>3. Agrees(Visit(Seen(S, c)[n + 1], n, c), From(n + 1) \cup {n}, c)
      BY <2>0, <2>1, <2>2, VisitAgrees
    <3>4. QED
      BY <2>0, <2>3, <2>4, <3>2, <3>3
  <2>5. CASE n \notin S
    <3>1. From(n) = From(n + 1)
      BY <2>5, <2>a, Zenon DEF From
    <3> HIDE DEF From
    <3>2. QED
      BY <2>0, <2>2, <2>3, <2>5, <3>1
  <2>6. QED
    BY <2>4, <2>5
<1>3. 1 \in Done
  <2>1. 1 \in 1 .. LastDay + 1
    BY LastDayAssumption
  <2> HIDE DEF Done
  <2>2. LastDay + 1 \in Nat /\ 1 .. (LastDay + 1) - 1 = 1 .. LastDay
    BY LastDayAssumption
  <2>3. 1 .. LastDay + 1 \subseteq Done
    BY <1>1, <1>2, <2>2, Countdown
  <2>4. QED
    BY <2>1, <2>3
<1>4. From(1) = S
  BY <1>0
<1> HIDE DEF From
<1>5. QED
  BY <1>3, <1>4 DEF Agrees, Classify

----------------------------------------------------------------------------
(***************************************************************************)
(* Thinning twice is thinning once.                                        *)
(***************************************************************************)

\* Any non-empty set of days has a newest one.
LEMMA NewestDay ==
  ASSUME NEW T, T \subseteq Days, T # {}
  PROVE  \E n \in T : \A m \in T : m <= n
<1> DEFINE U == {LastDay - m : m \in T}
<1>1. U \subseteq Nat /\ U # {}
  <2>1. \A m \in T : LastDay - m \in Nat
    BY LastDayAssumption DEF Days
  <2>2. QED
    BY <2>1, Zenon
<1>2. PICK u \in U : \A k \in U : u <= k
  <2> HIDE DEF U
  <2>1. QED
    BY <1>1, LeastOf, Zenon
<1>3. PICK n \in T : u = LastDay - n
  BY <1>2
<1>4. \A m \in T : m \in Int
  BY LastDayAssumption DEF Days
<1>5. ASSUME NEW m \in T
      PROVE  m <= n
  <2>1. LastDay - n <= LastDay - m
    BY <1>2, <1>3
  <2>2. QED
    BY <1>4, <2>1, LastDayAssumption
<1>6. QED
  BY <1>5

LEMMA PeriodsGrow ==
  ASSUME NEW A, NEW B, B \subseteq Days, NEW Period,
         PeriodsOf(A, Period) \subseteq PeriodsOf(B, Period)
  PROVE  Cardinality(PeriodsOf(A, Period)) <= Cardinality(PeriodsOf(B, Period))
<1>1. IsFiniteSet(PeriodsOf(B, Period))
  BY PeriodsFinite
<1>2. QED
  BY <1>1, FS_Subset

LEMMA NewerGrows ==
  ASSUME NEW A, NEW B, A \subseteq B, B \subseteq Days, NEW d, NEW Period
  PROVE  /\ NewerDays(A, d) \subseteq NewerDays(B, d) /\ NewerDays(B, d) \subseteq Days
         /\ Cardinality(PeriodsOf(NewerDays(A, d), Period)) \in Nat
         /\ Cardinality(PeriodsOf(NewerDays(B, d), Period)) \in Nat
         /\ Cardinality(PeriodsOf(NewerDays(A, d), Period)) <= Cardinality(PeriodsOf(NewerDays(B, d), Period))
<1>1. NewerDays(A, d) \subseteq NewerDays(B, d) /\ NewerDays(B, d) \subseteq Days /\ NewerDays(A, d) \subseteq Days
  BY DEF NewerDays
<1>2. PeriodsOf(NewerDays(A, d), Period) \subseteq PeriodsOf(NewerDays(B, d), Period)
  BY <1>1 DEF PeriodsOf
<1>3. QED
  BY <1>1, <1>2, PeriodsFinite, PeriodsGrow

\* A snapshot wanted among more snapshots is wanted among fewer.
LEMMA TierShrinks ==
  ASSUME NEW A, NEW B, A \subseteq B, B \subseteq Days, NEW Period, NEW limit \in Nat,
         NEW d \in A, d \in NewestOfPeriod(B, Period, limit)
  PROVE  d \in NewestOfPeriod(A, Period, limit)
<1>1. /\ \A e \in NewerDays(B, d) : Period[e] # Period[d]
      /\ Cardinality(PeriodsOf(NewerDays(B, d), Period)) < limit
  BY DEF NewestOfPeriod, PeriodsOf
<1>2. /\ \A e \in NewerDays(A, d) : Period[e] # Period[d]
      /\ Cardinality(PeriodsOf(NewerDays(A, d), Period)) < limit
  BY <1>1, NewerGrows
<1>3. QED
  BY <1>2 DEF NewestOfPeriod, PeriodsOf

(***************************************************************************)
(* What a tier wants does not change with the removal of snapshots it did  *)
(* not want: of the periods that A lacks, the newest would have been one.  *)
(***************************************************************************)
LEMMA TierStable ==
  ASSUME NEW A, NEW B, A \subseteq B, B \subseteq Days, NEW Period, NEW limit \in Nat,
         NewestOfPeriod(B, Period, limit) \subseteq A
  PROVE  NewestOfPeriod(A, Period, limit) = NewestOfPeriod(B, Period, limit)
<1>1. NewestOfPeriod(B, Period, limit) \subseteq NewestOfPeriod(A, Period, limit)
  BY TierShrinks
<1>2. ASSUME NEW d \in NewestOfPeriod(A, Period, limit)
      PROVE  d \in NewestOfPeriod(B, Period, limit)
  <2> DEFINE known  == PeriodsOf(NewerDays(A, d), Period)
             Missed == {e \in NewerDays(B, d) : Period[e] \notin known}
  <2>1. /\ d \in A /\ d \in B /\ Cardinality(known) < limit
        /\ \A e \in NewerDays(A, d) : Period[e] # Period[d]
    BY DEF NewestOfPeriod, PeriodsOf
  <2>2. /\ NewerDays(A, d) \subseteq NewerDays(B, d) /\ NewerDays(B, d) \subseteq Days
        /\ Cardinality(known) \in Nat
    BY NewerGrows
  <2>3. Missed = {}
    <3>1. SUFFICES ASSUME Missed # {} PROVE FALSE
      OBVIOUS
    <3>2. PICK x \in Missed : \A y \in Missed : y <= x
      <4>1. Missed \subseteq Days
        BY <2>2
      <4> HIDE DEF Missed
      <4>2. QED
        BY <3>1, <4>1, NewestDay
    <3>3. /\ x \in B /\ x > d /\ Period[x] \notin known /\ x \in Int
          /\ \A y \in B : y \in Int
      BY <3>2, LastDayAssumption DEF NewerDays, Days
    <3>4. d \in Int
      BY <2>1, <3>3
    <3>5. \A y \in NewerDays(B, x) : Period[y] \in known
      <4>1. SUFFICES ASSUME NEW y \in NewerDays(B, x), Period[y] \notin known
                     PROVE  FALSE
        OBVIOUS
      <4>2. y \in B /\ y > x /\ y > d
        BY <3>3, <3>4 DEF NewerDays
      <4>3. y \in Missed
        BY <4>1, <4>2 DEF NewerDays
      <4>4. QED
        BY <3>2, <3>3, <4>2, <4>3
    <3>6. x \notin A
      <4>1. x \in A => x \in NewerDays(A, d)
        BY <3>3 DEF NewerDays
      <4>2. QED
        BY <3>3, <4>1 DEF PeriodsOf
    <3>7. x \notin NewestOfPeriod(B, Period, limit)
      BY <3>6
    <3>8. \A y \in NewerDays(B, x) : Period[y] # Period[x]
      BY <3>3, <3>5
    <3>9. ~ (Cardinality(PeriodsOf(NewerDays(B, x), Period)) < limit)
      BY <3>3, <3>7, <3>8 DEF NewestOfPeriod, PeriodsOf
    <3>10. PeriodsOf(NewerDays(B, x), Period) \subseteq known
      BY <3>5 DEF PeriodsOf
    <3>11. /\ Cardinality(PeriodsOf(NewerDays(B, x), Period)) <= Cardinality(known)
           /\ Cardinality(PeriodsOf(NewerDays(B, x), Period)) \in Nat
      <4>1. NewerDays(A, d) \subseteq Days
        BY <2>2
      <4>2. QED
        BY <3>10, <4>1, PeriodsGrow, NewerGrows
    <3>12. QED
      BY <2>1, <2>2, <3>9, <3>11
  <2>4. \A e \in NewerDays(B, d) : Period[e] \in known
    BY <2>3
  <2>5. PeriodsOf(NewerDays(B, d), Period) = known
    BY <2>2, <2>4 DEF PeriodsOf
  <2>6. \A e \in NewerDays(B, d) : Period[e] # Period[d]
    BY <2>1, <2>4 DEF PeriodsOf
  <2>7. QED
    BY <2>1, <2>5, <2>6 DEF NewestOfPeriod, PeriodsOf
<1>3. QED
  BY <1>1, <1>2

\* The daily tier is the one whose periods are the days.
Each == [d \in Days |-> d]

LEMMA DailyAsTier ==
  ASSUME NEW T, T \subseteq Days, NEW limit
  PROVE  Daily(T, limit) = NewestOfPeriod(T, Each, limit)
<1>1. ASSUME NEW d \in T
      PROVE  /\ PeriodsOf(NewerDays(T, d), Each) = NewerDays(T, d)
             /\ \A e \in NewerDays(T, d) : Each[e] # Each[d]
  <2>1. \A e \in T : Each[e] = e /\ e \in Int
    BY LastDayAssumption DEF Each, Days
  <2>2. \A e \in NewerDays(T, d) : e \in T /\ e # d
    BY <2>1 DEF NewerDays
  <2>3. QED
    BY <2>1, <2>2 DEF PeriodsOf
<1>2. QED
  BY <1>1 DEF Daily, NewestOfPeriod, PeriodsOf

LEMMA PromiseInTiers ==
  ASSUME NEW T, T \subseteq Days, NEW c
  PROVE  GrandfatherFatherSon(T, c) = NewestOfPeriod(T, Each, c.daily)
           \cup NewestOfPeriod(T \cap Dated, Week, c.weekly)
           \cup NewestOfPeriod(T \cap Dated, Month, c.monthly)
<1>1. Daily(T, c.daily) = NewestOfPeriod(T, Each, c.daily)
  BY DailyAsTier
<1>2. QED
  BY <1>1, Zenon DEF GrandfatherFatherSon, Daily

\* A new snapshot never makes an older one wanted that was not.
LEMMA PromiseShrinks ==
  ASSUME NEW A, NEW B, A \subseteq B, B \subseteq Days, NEW c \in Limits,
         NEW d \in A, d \in GrandfatherFatherSon(B, c)
  PROVE  d \in GrandfatherFatherSon(A, c)
<1>1. c.daily \in Nat /\ c.weekly \in Nat /\ c.monthly \in Nat
  BY DEF Limits
<1>2. A \subseteq Days /\ A \cap Dated \subseteq B \cap Dated /\ B \cap Dated \subseteq Days
  OBVIOUS
<1>3. CASE d \in NewestOfPeriod(B, Each, c.daily)
  BY <1>1, <1>2, <1>3, TierShrinks, PromiseInTiers
<1>4. CASE d \in NewestOfPeriod(B \cap Dated, Week, c.weekly)
  <2>1. d \in A \cap Dated
    BY <1>4 DEF NewestOfPeriod
  <2>2. QED
    BY <1>1, <1>2, <1>4, <2>1, TierShrinks, PromiseInTiers
<1>5. CASE d \in NewestOfPeriod(B \cap Dated, Month, c.monthly)
  <2>1. d \in A \cap Dated
    BY <1>5 DEF NewestOfPeriod
  <2>2. QED
    BY <1>1, <1>2, <1>5, <2>1, TierShrinks, PromiseInTiers
<1>6. QED
  BY <1>3, <1>4, <1>5, PromiseInTiers

LEMMA PromiseStable ==
  ASSUME NEW A, NEW B, A \subseteq B, B \subseteq Days, NEW c \in Limits,
         GrandfatherFatherSon(B, c) \subseteq A
  PROVE  GrandfatherFatherSon(A, c) = GrandfatherFatherSon(B, c)
<1>1. c.daily \in Nat /\ c.weekly \in Nat /\ c.monthly \in Nat
  BY DEF Limits
<1>2. A \subseteq Days /\ A \cap Dated \subseteq B \cap Dated /\ B \cap Dated \subseteq Days
  OBVIOUS
<1>3. /\ NewestOfPeriod(B, Each, c.daily) \subseteq A
      /\ NewestOfPeriod(B \cap Dated, Week, c.weekly) \subseteq A \cap Dated
      /\ NewestOfPeriod(B \cap Dated, Month, c.monthly) \subseteq A \cap Dated
  <2>1. GrandfatherFatherSon(B, c) = NewestOfPeriod(B, Each, c.daily)
          \cup NewestOfPeriod(B \cap Dated, Week, c.weekly)
          \cup NewestOfPeriod(B \cap Dated, Month, c.monthly)
    BY PromiseInTiers, Zenon
  <2>2. \A T, Period, limit : NewestOfPeriod(T, Period, limit) \subseteq T
    BY DEF NewestOfPeriod
  <2>3. QED
    BY <2>1, <2>2
<1>4. NewestOfPeriod(A, Each, c.daily) = NewestOfPeriod(B, Each, c.daily)
  BY <1>1, <1>3, TierStable
<1>5. /\ NewestOfPeriod(A \cap Dated, Week, c.weekly)
           = NewestOfPeriod(B \cap Dated, Week, c.weekly)
      /\ NewestOfPeriod(A \cap Dated, Month, c.monthly)
           = NewestOfPeriod(B \cap Dated, Month, c.monthly)
  BY <1>1, <1>2, <1>3, TierStable
<1>6. QED
  BY <1>2, <1>4, <1>5, PromiseInTiers

\* Retention removes nothing that is promised, and never the newest snapshot.
LEMMA PrunedIsDoomed ==
  ASSUME NEW S, S \subseteq Days, NEW c \in Limits, NEW n
  PROVE  /\ Pruned(S, c, n) \subseteq S
         /\ Pruned(S, c, n) \cap GrandfatherFatherSon(S, c) = {}
         /\ S \ Doomed(S, c) = GrandfatherFatherSon(S, c)
<1>1. GrandfatherFatherSon(S, c) \subseteq S
  BY DEF GrandfatherFatherSon, NewestOfPeriod
<1>2. Doomed(S, c) = S \ GrandfatherFatherSon(S, c)
  BY ClassifyKeepsItsPromise, Zenon DEF Doomed
<1>3. Pruned(S, c, n) \subseteq Doomed(S, c)
  BY DEF Pruned
<1>4. QED
  BY <1>1, <1>2, <1>3

LEMMA NewestStays ==
  ASSUME NEW S, S \subseteq Days, NEW c \in Limits, NEW n,
         NEW d \in S, \A e \in S : e <= d
  PROVE  d \notin Pruned(S, c, n)
<1>1. \A e \in S : e \in Int
  BY LastDayAssumption DEF Days
<1>2. NewerDays(S, d) = {}
  BY <1>1 DEF NewerDays
<1>3. Cardinality(NewerDays(S, d)) < c.daily
  BY <1>2, FS_EmptySet DEF Limits
<1>4. d \in GrandfatherFatherSon(S, c)
  BY <1>3 DEF GrandfatherFatherSon
<1>5. QED
  BY <1>4, PrunedIsDoomed
=============================================================================
