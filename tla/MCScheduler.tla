----------------------------- MODULE MCScheduler -----------------------------
(***************************************************************************)
(* Model-checks the scheduler with a small calendar: hours of two minutes, *)
(* days of two hours, weeks of seven days, years of two months of four     *)
(* days.  The third year has a leap day.  The horizon is the longest year, *)
(* as 366 days are.                                                        *)
(***************************************************************************)
EXTENDS Scheduler

\* Days, months and years: the length of each month in days.
MonthLengths == <<4, 4, 4, 4, 4, 5>>

DaysBefore(n) == 4 * (n - 1)

DayOf(m) == (m \div 4) % 25

MonthOf(m) == CHOOSE n \in 1..6 : DaysBefore(n) <= DayOf(m) /\ DayOf(m) < DaysBefore(n) + MonthLengths[n]

MCCalendar(m) == [minute  |-> m % 2,
                  hour    |-> (m \div 2) % 2,
                  day     |-> DayOf(m) - DaysBefore(MonthOf(m)) + 1,
                  month   |-> 1 + ((MonthOf(m) - 1) % 2),
                  weekday |-> (m \div 4) % 7]

MCLimits == [minute |-> <<0, 1>>, hour |-> <<0, 1>>, day |-> <<1, 5>>,
             month |-> <<1, 2>>, weekday |-> <<0, 6>>]

Expr(minute, hour, day, month, weekday) ==
  [minute |-> minute, hour |-> hour, day |-> day, month |-> month, weekday |-> weekday]

AnyTime == <<Star>>

SomeExpressions ==
  {Expr(mi, h, d, mo, w) :
     mi \in {AnyTime, <<Value(1)>>},
     h  \in {<<Value(0)>>, <<Span(0, 2)>>},
     d  \in {AnyTime, <<Every(2)>>, <<Value(1), Value(2)>>},
     mo \in {AnyTime, <<Value(2)>>, <<Every(0)>>},
     w  \in {AnyTime, <<Value(7)>>, <<Span(5, 6), Value(1)>>}}

\* The ones that match at least once a year.
MCExpressions ==
  {e \in SomeExpressions : e.month = AnyTime \/ e.weekday = AnyTime \/ e.day # AnyTime}

\* The leap day.
LeapDay == {Expr(<<Value(0)>>, <<Value(1)>>, <<Value(5)>>, <<Value(2)>>, AnyTime)}
=============================================================================
