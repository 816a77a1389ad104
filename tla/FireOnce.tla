------------------------------- MODULE FireOnce -------------------------------
(***************************************************************************)
(* How often the tick fires a schedule.  The tick reads the clock, decides *)
(* what is due and creates _launch() tasks; each run reads the clock again *)
(* for its same-minute de-dup, whose mark survives restarts on disk.  The  *)
(* history variables below count what ScheduledBackups does.               *)
(***************************************************************************)
EXTENDS ScheduledBackups

VARIABLES
  dueAt,      \* the minute of the tick that created each pending _launch()
  inMinute,   \* tick-driven runs of each schedule in the current clock minute
  forMinute   \* tick-driven runs of each schedule for each minute its cron matched

fireVars == <<allVars, dueAt, inMinute, forMinute>>

NoRuns == [m \in Minutes |-> 0]

FireInit ==
  /\ BackupInit
  /\ dueAt = [n \in Names |-> None]
  /\ inMinute = [n \in Names |-> 0]
  /\ forMinute = [n \in Names |-> NoRuns]

\* The step was a _launch() that got past the de-dup.
Fires(n) == n \in pending \ pending' /\ state'[n] # state[n]

\* A new schedule starts from nothing, also under an old name.
Deletes(n) == config[n] # Undefined /\ config'[n] = Undefined

FireNext ==
  /\ BackupNext
  /\ dueAt' = [n \in Names |->
       IF n \notin pending' THEN None ELSE IF n \in pending THEN dueAt[n] ELSE minute]
  /\ inMinute' = [n \in Names |->
       IF Deletes(n) \/ minute' # minute THEN 0
       ELSE IF Fires(n) THEN inMinute[n] + 1 ELSE inMinute[n]]
  /\ forMinute' = [n \in Names |->
       IF Deletes(n) THEN NoRuns
       ELSE IF Fires(n) THEN [forMinute[n] EXCEPT ![dueAt[n]] = @ + 1] ELSE forMinute[n]]

FireSpec == FireInit /\ [][FireNext]_fireVars

FairFireSpec == FireSpec /\ BackupFairness

-----------------------------------------------------------------------------
\* The de-dup works per clock minute: whatever runs end, fail, are run by hand,
\* edited or cut off by a crash and a reboot meanwhile, the tick starts a
\* schedule at most once while the clock shows one minute.
OncePerClockMinute == \A n \in Names : inMinute[n] <= 1

\* What the comment on the de-dup claims: the two ticks that see a minute start
\* one run for it.
OncePerCronMinute == \A n \in Names, m \in Minutes : forMinute[n][m] <= 1
=============================================================================
