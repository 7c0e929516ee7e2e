------------------------------ MODULE Scheduler ------------------------------
(***************************************************************************)
(* The built-in purge scheduler (registry/scheduler.go): a goroutine that  *)
(* computes the next run, sleeps until then, and runs the purge itself, so *)
(* that a long purge holds the schedule up.                                *)
(*                                                                         *)
(* The clock counts ticks, of which a minute has TicksPerMinute: a run may *)
(* begin and end in the middle of a minute.  Nothing is assumed about how  *)
(* late the timer fires or how long a purge takes.                         *)
(***************************************************************************)
EXTENDS Cron

CONSTANTS
  Expressions,     \* the values of purge_tags.cron
  TicksPerMinute,
  StartTicks,      \* when the program may be started
  LastTick         \* bound: the clock stops here

ASSUME TickAssumption == /\ TicksPerMinute \in Nat \ {0}
                         /\ LastTick \in Nat
                         /\ StartTicks \subseteq 0..LastTick

ASSUME ExpressionsAssumption == Expressions \subseteq [Fields -> Seq(Token)]

\* purge_tags.cron is empty.
Disabled == [f \in Fields |-> <<>>]

VARIABLES
  clock,     \* time.Now()
  expr,      \* purge_tags.cron
  pc,        \* where the goroutine is
  nextRun,   \* the local nextRun
  running,   \* the atomic flag running
  planned    \* history: when nextRun was computed

svars == <<clock, expr, pc, nextRun, running, planned>>

MinuteOf(t) == t \div TicksPerMinute

schedule == ParseCronSchedule(expr)

SchedulerInit ==
  /\ clock \in StartTicks
  /\ expr \in Expressions \cup {Disabled}
  /\ pc = "boot" /\ nextRun = clock /\ running = FALSE /\ planned = clock

(***************************************************************************)
(* Next: the first minute after the current one that matches, or, if none  *)
(* does within the horizon, a minute from now.                             *)
(***************************************************************************)
\* Fault: the current minute is tried, too.
NextFromThisMinute(after) ==
  LET first == MinuteOf(after)
      hits  == {m \in first..first + Horizon : Matches(schedule, m)}
  IN  IF hits = {} THEN after + TicksPerMinute
      ELSE TicksPerMinute * (CHOOSE m \in hits : \A n \in hits : m <= n)

\* Fault: a minute is left out.
NextLeavesOneOut(after) ==
  LET first == MinuteOf(after) + 2
      hits  == {m \in first..first + Horizon : Matches(schedule, m)}
  IN  IF hits = {} THEN after + TicksPerMinute
      ELSE TicksPerMinute * (CHOOSE m \in hits : \A n \in hits : m <= n)

\* Fault: the hit is returned with the seconds of the start.
NextKeepsSeconds(after) ==
  LET first == MinuteOf(after) + 1
      hits  == {m \in first..first + Horizon : Matches(schedule, m)}
  IN  IF hits = {} THEN after + TicksPerMinute
      ELSE TicksPerMinute * (CHOOSE m \in hits : \A n \in hits : m <= n)
             + (after % TicksPerMinute)

Next(after) ==
  LET first == MinuteOf(after) + 1
      hits  == {m \in first..first + Horizon : Matches(schedule, m)}
  IN  IF hits = {} THEN after + TicksPerMinute
      ELSE TicksPerMinute * (CHOOSE m \in hits : \A n \in hits : m <= n)

-----------------------------------------------------------------------------
\* StartPurgeScheduler: no scheduler without an expression, and no program
\* with one that does not parse (logrus.Fatalf).
Boot ==
  /\ pc = "boot"
  /\ pc' = IF expr = Disabled THEN "off" ELSE IF Valid(expr) THEN "plan" ELSE "exit"
  /\ UNCHANGED <<clock, expr, nextRun, running, planned>>

Plan ==
  /\ pc = "plan"
  /\ nextRun' = Next(clock) /\ planned' = clock
  /\ pc' = "wait"
  /\ UNCHANGED <<clock, expr, running>>

\* The timer has fired.  run() is called on this goroutine, so the flag is
\* never found set.
Fire ==
  /\ pc = "wait" /\ clock >= nextRun
  /\ IF running THEN pc' = "plan" /\ UNCHANGED running
                ELSE pc' = "run" /\ running' = TRUE
  /\ UNCHANGED <<clock, expr, nextRun, planned>>

RunEnds ==
  /\ pc = "run"
  /\ running' = FALSE /\ pc' = "plan"
  /\ UNCHANGED <<clock, expr, nextRun, planned>>

Tick ==
  /\ clock < LastTick
  /\ clock' = clock + 1
  /\ UNCHANGED <<expr, pc, nextRun, running, planned>>

SchedulerNext == Boot \/ Plan \/ Fire \/ RunEnds \/ Tick

SchedulerSpec == SchedulerInit /\ [][SchedulerNext]_svars

-----------------------------------------------------------------------------
(***************************************************************************)
(* Properties.                                                             *)
(***************************************************************************)

\* Whatever expression the scheduler has accepted, each field allows some value
\* and no value outside its range: steps, ranges, lists and the Sunday 7 never
\* produce one, and an expression that would is refused at the start.
FieldsInRange ==
  pc \in {"plan", "wait", "run"} =>
    \A f \in Fields : /\ schedule[f].allowed # {}
                      /\ schedule[f].allowed \subseteq Limits[f][1]..Limits[f][2]

\* A purge that starts was due at the beginning of a minute that the expression
\* matches: purge_tags.cron is "the cron expression of the built-in purge task"
\* (config.yml:77).
RunsOnSchedule ==
  pc = "run" => /\ nextRun % TicksPerMinute = 0
                /\ Matches(schedule, MinuteOf(nextRun))

\* While the goroutine sleeps, no minute that matches lies between the time it
\* went to sleep and the one it sleeps until: a scheduled minute is passed over
\* only while a purge is running or when the timer fires late.
NoMinuteMissed ==
  pc = "wait" =>
    \A m \in MinuteOf(planned)..MinuteOf(nextRun) :
      planned < TicksPerMinute * m /\ TicksPerMinute * m < nextRun => ~Matches(schedule, m)

\* No minute is scheduled twice, also when a purge is over before the minute in
\* which it started.
OncePerMinute ==
  [][pc = "plan" /\ pc' = "wait" => MinuteOf(nextRun') > MinuteOf(nextRun)]_svars
=============================================================================
