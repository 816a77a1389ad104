-------------------------------- MODULE MCCron --------------------------------
(* Expressions and minutes for Cron: both sides of midnight at the turn of   *)
(* the year, at the end of February in leap years and others, and from       *)
(* 2096 to 2104, where a leap year is missing.                               *)
EXTENDS Cron

At(v) == {[kind |-> "value", from |-> v, to |-> 0, slash |-> FALSE, step |-> 1]}
Stepping(v, step) == {[kind |-> "value", from |-> v, to |-> 0, slash |-> TRUE, step |-> step]}
Span(a, b) == {[kind |-> "range", from |-> a, to |-> b, slash |-> FALSE, step |-> 1]}
All == {[kind |-> "all", from |-> 0, to |-> 0, slash |-> FALSE, step |-> 1]}
Every(n) == {[kind |-> "all", from |-> 0, to |-> 0, slash |-> TRUE, step |-> n]}

Usual == {
  <<At(30), At(2), All, All, All>>,
  <<Every(25), All, All, All, All>>,
  <<At(0) \cup At(50), At(0) \cup At(23), At(31), All, All>>,
  <<At(0) \cup At(50), At(0) \cup At(23), All, All, All>>,
  <<At(0), At(0), At(1), All, At(7)>>,
  <<At(50), At(23), Every(2), All, Stepping(1, 2)>>,
  <<At(0), Stepping(0, 6), All, At(2), Span(5, 7)>>,
  <<At(0), At(0), At(29), At(2), All>>,
  <<At(0), At(0), Span(30, 31), At(2), All>>,
  <<At(0), At(0), At(30), At(2), At(0)>>,
  <<At(60), At(0), All, All, All>>,
  <<Every(15) \cup At(50), Every(0), All, All, All>>,
  <<Every(10), All, All, All, All>>}

\* Twice around midnight, on the 1st and 28th of February and March: two days in a row,
\* but not in a leap year.
MonthEnds == {<<At(0) \cup At(50), At(0) \cup At(23), At(1) \cup At(28), At(2) \cup At(3), All>>}

Entered == Usual \cup MonthEnds

OneStep == {<<At(0), Stepping(5, 1), All, All, All>>}

Ends == UNION {{DayOf(2027, 12, 31) + i, DayOf(y, 2, 28) + i} : i \in 0 .. 2, y \in {2027, 2028, 2096, 2100, 2104}}
Moments == {0, 25, 50, 150, 360, 1430}
Minutes == {1440 * d + m : d \in Ends, m \in Moments}
===============================================================================
