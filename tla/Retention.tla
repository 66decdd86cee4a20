----------------------------- MODULE Retention -----------------------------
(***************************************************************************)
(* Which snapshots stay (backup/retention.go).  A snapshot is named after  *)
(* its day, and names sort as dates do: a day is a number.  Some names are *)
(* no real dates (2024-02-31) and belong to no week and no month.          *)
(***************************************************************************)
EXTENDS Integers, FiniteSets

CONSTANTS
  LastDay,  \* the days are 1 .. LastDay
  Week,     \* Week[d]: the ISO week of day d, its year included
  Month,    \* Month[d]: the month of day d, its year included
  Dated     \* the days that are real dates

Days == 1 .. LastDay

ASSUME LastDayAssumption == LastDay \in Nat
ASSUME CalendarAssumption ==
  /\ Week \in [Days -> Int]
  /\ Month \in [Days -> Int]
  /\ Dated \subseteq Days

\* How many snapshots, weeks and months are kept: the tiers of Config.
Limits == [daily : Nat \ {0}, weekly : Nat, monthly : Nat]

Unvisited == [seen |-> 0, weeks |-> {}, months |-> {}, kept |-> {}]

\* A week counts as covered only if its snapshot is no daily one.
MutVisit(v, d, c) ==
  LET daily   == v.seen < c.daily
      weekly  == d \in Dated /\ Cardinality(v.weeks) < c.weekly /\ Week[d] \notin v.weeks
      monthly == d \in Dated /\ Cardinality(v.months) < c.monthly /\ Month[d] \notin v.months
  IN [seen   |-> v.seen + 1,
      weeks  |-> IF weekly /\ ~daily THEN v.weeks \cup {Week[d]} ELSE v.weeks,
      months |-> IF monthly THEN v.months \cup {Month[d]} ELSE v.months,
      kept   |-> IF daily \/ weekly \/ monthly THEN v.kept \cup {d} ELSE v.kept]

\* Classify's loop body for the snapshot of day d, after v was seen.
Visit(v, d, c) ==
  LET daily   == v.seen < c.daily
      weekly  == d \in Dated /\ Cardinality(v.weeks) < c.weekly /\ Week[d] \notin v.weeks
      monthly == d \in Dated /\ Cardinality(v.months) < c.monthly /\ Month[d] \notin v.months
  IN [seen   |-> v.seen + 1,
      weeks  |-> IF weekly THEN v.weeks \cup {Week[d]} ELSE v.weeks,
      months |-> IF monthly THEN v.months \cup {Month[d]} ELSE v.months,
      kept   |-> IF daily \/ weekly \/ monthly THEN v.kept \cup {d} ELSE v.kept]

\* What Classify has seen when it is through with the snapshots from day d on.
Seen(S, c) ==
  LET after[d \in 1 .. LastDay + 1] ==
        IF d > LastDay THEN Unvisited
        ELSE IF d \in S THEN Visit(after[d + 1], d, c) ELSE after[d + 1]
  IN after

\* Classify: the snapshots of S that a tier claims, newest first.
Classify(S, c) == Seen(S, c)[1].kept

\* The oldest are kept.
MutDoomed(S, c) == S \ {d \in S : Cardinality({e \in S : e < d}) < c.daily}

Doomed(S, c) == S \ Classify(S, c)

\* What prune has removed when it stops after n: the oldest come first.
Pruned(S, c, n) == {d \in Doomed(S, c) : Cardinality({e \in Doomed(S, c) : e < d}) < n}

----------------------------------------------------------------------------
(***************************************************************************)
(* What the comment at Classify promises, said without a loop: the last    *)
(* daily snapshots, and the newest of each of the last weeks and months.   *)
(***************************************************************************)
NewerDays(S, d) == {e \in S : e > d}

NewestOfPeriod(S, Period, limit) ==
  {d \in S : /\ \A e \in NewerDays(S, d) : Period[e] # Period[d]
             /\ Cardinality({Period[e] : e \in NewerDays(S, d)}) < limit}

GrandfatherFatherSon(S, c) ==
  {d \in S : Cardinality(NewerDays(S, d)) < c.daily}
    \cup NewestOfPeriod(S \cap Dated, Week, c.weekly)
    \cup NewestOfPeriod(S \cap Dated, Month, c.monthly)
=============================================================================
