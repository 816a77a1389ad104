--------------------------- MODULE CronExpressions ----------------------------
(***************************************************************************)
(* cron.py: what an expression is parsed to, the minutes it matches, its   *)
(* next run and its smallest interval.  Time is counted in UTC minutes     *)
(* from 2000-03-01 00:00, a Wednesday.  An expression is a field of each   *)
(* of minute, hour, day of month, month and day of week; a field is a set  *)
(* of parts, each "*", a value or a range, with or without a step.         *)
(***************************************************************************)
EXTENDS Integers, FiniteSets, FiniteSetsExt

Parts == {p \in [kind : {"all", "value", "range"}, from : Nat, to : Nat, slash : BOOLEAN, step : Nat] :
            ~p.slash => p.step = 1}
IsExpression(e) == DOMAIN e = 1 .. 5 /\ \A i \in 1 .. 5 : e[i] \subseteq Parts /\ e[i] # {}

-----------------------------------------------------------------------------
(* Parsing *)

Bounds == << <<0, 59>>, <<0, 23>>, <<1, 31>>, <<1, 12>>, <<0, 7>> >>
Minute == 1
Hour == 2
Dom == 3
Month == 4
Dow == 5

From(p, b) == IF p.kind = "all" THEN b[1] ELSE p.from
To(p, b) == CASE p.kind = "all" -> b[2]
               [] p.kind = "range" -> p.to
               [] p.kind = "value" -> IF p.step = 1 THEN p.from ELSE b[2]

PartValid(p, b) == p.step > 0 /\ b[1] <= From(p, b) /\ From(p, b) <= To(p, b) /\ To(p, b) <= b[2]
Valid(e) == \A i \in 1 .. 5 : \A p \in e[i] : PartValid(p, Bounds[i])

\* _parse_field()
Values(field, b) == UNION {{v \in From(p, b) .. To(p, b) : (v - From(p, b)) % p.step = 0} : p \in field}

\* parse(): 7 is Sunday too.
Parsed(e) == [i \in 1 .. 5 |-> LET vs == Values(e[i], Bounds[i]) IN IF i = Dow THEN {v % 7 : v \in vs} ELSE vs]

-----------------------------------------------------------------------------
(* The calendar, by the proleptic rules of datetime *)

YearDays == 146097
Weekday(d) == (d + 3) % 7

\* The months from March on, of years that begin with it.
Civil(d) ==
  LET doe == d % YearDays
      yoe == (doe - doe \div 1460 + doe \div 36524 - doe \div 146096) \div 365
      doy == doe - (365 * yoe + yoe \div 4 - yoe \div 100)
      mp  == (5 * doy + 2) \div 153
  IN [month |-> IF mp < 10 THEN mp + 3 ELSE mp - 9, day |-> doy - (153 * mp + 2) \div 5 + 1]

DayOf(year, month, day) ==
  LET y  == (IF month <= 2 THEN year - 1 ELSE year) - 2000
      mp == (month + 9) % 12
  IN 365 * y + y \div 4 - y \div 100 + (153 * mp + 2) \div 5 + day - 1

Restricted(values, b) == values # b[1] .. b[2]

\* Mutant: day of month and day of week must both match.
DayMatchesBoth(f, d) ==
  LET date == Civil(d) IN date.month \in f[Month] /\ date.day \in f[Dom] /\ Weekday(d) \in f[Dow]

\* matches(), the part of it that is the same all day.
DayMatches(f, d) ==
  LET date == Civil(d)
      domOk == date.day \in f[Dom]
      dowOk == Weekday(d) \in f[Dow]
  IN /\ date.month \in f[Month]
     /\ IF Restricted(f[Dom], Bounds[Dom]) /\ Restricted(f[Dow], <<0, 6>>) THEN domOk \/ dowOk ELSE domOk /\ dowOk

Times(f) == {60 * h + m : h \in f[Hour], m \in f[Minute]}
Matches(f, t) == t % 1440 \in Times(f) /\ DayMatches(f, t \div 1440)

-----------------------------------------------------------------------------
(* When it runs *)

Never == -1

\* Mutant: from one leap day to the next.
ShortHorizon == 366 * 4 * 1440

\* _HORIZON_MINUTES
Horizon == 366 * 8 * 1440

FirstDay(f, days) == CHOOSE d \in days : DayMatches(f, d) /\ \A e \in days : e < d => ~DayMatches(f, e)

\* next_run(): what is left of the day, then the first minute of the next day that
\* matches.
NextRun(f, t) ==
  LET day   == t \div 1440
      today == {m \in Times(f) : m > t % 1440}
      days  == day + 1 .. (t + Horizon) \div 1440
      then  == FirstDay(f, days) * 1440 + Min(Times(f))
  IN IF DayMatches(f, day) /\ today # {} THEN day * 1440 + Min(today)
     ELSE IF (\E d \in days : DayMatches(f, d)) /\ then <= t + Horizon THEN then
     ELSE Never

\* The gaps between neighbours.
Gaps(S) == {Min({b \in S : b > a}) - a : a \in S \ {Max(S)}}

Probed == {DayOf(2020, 1, 1) + i : i \in 0 .. 365}

\* Mutant: each day by itself.
MinIntervalOfDay(f) == IF Cardinality(Times(f)) > 1 THEN Min(Gaps(Times(f))) ELSE 1440

\* min_interval_minutes(): probed over the minutes of 2020.
MinIntervalMinutes(f) ==
  LET days  == {d \in Probed : DayMatches(f, d)}
      gaps  == IF days = {} THEN {}
               ELSE Gaps(Times(f)) \cup {g * 1440 + Min(Times(f)) - Max(Times(f)) : g \in Gaps(days)}
  IN IF gaps = {} THEN 366 * 1440 ELSE Min(gaps)

-----------------------------------------------------------------------------
(* What an expression means, by the docstring of cron.py *)

PartMeans(p, v, b) ==
  LET first == IF p.kind = "all" THEN b[1] ELSE p.from IN
    /\ v >= first
    /\ p.kind = "range" => v <= p.to
    /\ IF p.slash THEN (v - first) % p.step = 0 ELSE p.kind = "value" => v = first

FieldMeans(e, i, v) == \E p \in e[i] : PartMeans(p, v, Bounds[i])
Sunday(e) == FieldMeans(e, Dow, 0) \/ FieldMeans(e, Dow, 7)
DowMeans(e, v) == IF v = 0 THEN Sunday(e) ELSE FieldMeans(e, Dow, v)
DomFree(e) == \A v \in 1 .. 31 : FieldMeans(e, Dom, v)
DowFree(e) == \A v \in 0 .. 6 : DowMeans(e, v)

Meant(e, t) ==
  LET d == t \div 1440
      onDom == FieldMeans(e, Dom, Civil(d).day)
      onDow == DowMeans(e, Weekday(d))
  IN /\ FieldMeans(e, Minute, t % 60) /\ FieldMeans(e, Hour, (t \div 60) % 24) /\ FieldMeans(e, Month, Civil(d).month)
     /\ (onDom \/ onDow) /\ (DomFree(e) => onDow) /\ (DowFree(e) => onDom)

LongestMonth == <<31, 29, 31, 30, 31, 30, 31, 31, 30, 31, 30, 31>>
Possible(e) ==
  \/ ~DowFree(e)
  \/ \E month \in 1 .. 12 : FieldMeans(e, Month, month) /\ \E day \in 1 .. LongestMonth[month] : FieldMeans(e, Dom, day)
===============================================================================
