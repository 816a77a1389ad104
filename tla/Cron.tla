--------------------------------- MODULE Cron ---------------------------------
(***************************************************************************)
(* A cron expression in use: it is accepted or refused when it is saved,   *)
(* its next run is listed, and the tick starts its schedule in the minutes *)
(* it matches.                                                             *)
(***************************************************************************)
EXTENDS CronExpressions

CONSTANTS
  Expressions, \* what administrators enter
  Clock,       \* bound: the minutes that are looked at
  MinInterval, \* _MIN_INTERVAL_MINUTES
  Unset        \* None

ASSUME CronConstants ==
  /\ \A e \in Expressions : IsExpression(e)
  /\ Clock \subseteq Nat /\ Clock # {} /\ MinInterval \in Nat
  /\ Unset \notin Int /\ Unset \notin Expressions

VARIABLES
  cron,  \* the expression of the schedule
  now,   \* the minute
  last,  \* when the tick last started it, since it was saved
  shown  \* its next run, as it was listed last

cronVars == <<cron, now, last, shown>>

-----------------------------------------------------------------------------
(* The schedule; what the functions return is computed once *)

Fields == [e \in {x \in Expressions : Valid(x)} |-> Parsed(e)]
NextRuns == [e \in DOMAIN Fields |-> [t \in Clock |-> NextRun(Fields[e], t)]]
Spaced == {e \in DOMAIN Fields : MinIntervalMinutes(Fields[e]) >= MinInterval}

CronInit == cron = Unset /\ now \in Clock /\ last = Unset /\ shown = Unset

\* The cron part of _validate_and_build_schedule().
Save(e) ==
  /\ e \in Spaced /\ NextRuns[e][now] # Never
  /\ cron' = e /\ last' = Unset /\ shown' = Unset
  /\ UNCHANGED now

\* GET /api/schedules
List ==
  /\ cron # Unset
  /\ shown' = NextRuns[cron][now]
  /\ UNCHANGED <<cron, now, last>>

\* The clock, and the tick that sees the minute; the minutes between were not seen.
TickAt(t) ==
  /\ t > now /\ now' = t
  /\ last' = IF cron # Unset /\ Matches(Fields[cron], t) THEN t ELSE last
  /\ shown' = IF shown \notin {Unset, Never} /\ t >= shown THEN Unset ELSE shown
  /\ UNCHANGED cron

CronNext == (\E e \in Expressions : Save(e)) \/ List \/ \E t \in Clock : TickAt(t)

CronSpec == CronInit /\ [][CronNext]_cronVars

-----------------------------------------------------------------------------
\* The tick starts a schedule in the minutes its expression means and in no others:
\* lists, ranges, steps, both names of Sunday, and the either-or of the two day fields.
FiresAsWritten ==
  [][now' # now /\ cron # Unset => (last' = now' <=> Meant(cron, now'))]_cronVars

\* The next run that is listed is the next minute the tick will start the schedule in,
\* across months, years and leap days.
NextRunKept ==
  [][now' # now /\ shown # Unset =>
       (now' < shown \/ shown = Never => last' # now') /\ (now' = shown => last' = now')]_cronVars

\* The expressions that match two days in a row of the year that is probed.
Neighbouring ==
  {e \in DOMAIN Fields :
     \E p \in Probed : p + 1 \in Probed /\ DayMatches(Fields[e], p) /\ DayMatches(Fields[e], p + 1)}

\* An accepted schedule never starts twice within _MIN_INTERVAL_MINUTES, on whatever days it
\* runs -- except over a midnight between two days that match when 2020, the year
\* min_interval_minutes() probes, has no two such days in a row.
FarEnough ==
  [][last # Unset /\ last' # Unset /\ last' # last =>
       \/ last' - last >= MinInterval
       \/ cron \notin Neighbouring /\ last' \div 1440 = last \div 1440 + 1]_cronVars

\* What README.md says of it: there is a minimum of fifteen minutes.
MinimumKept == [][last # Unset /\ last' # Unset /\ last' # last => last' - last >= MinInterval]_cronVars

\* An expression is refused as impossible only if no date ever has it: the horizon
\* reaches over the leap day that 2100 does not have.
PossibleFound == \A e \in DOMAIN Fields : NextRuns[e][now] = Never <=> ~Possible(e)
===============================================================================
