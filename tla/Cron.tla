-------------------------------- MODULE Cron --------------------------------
(***************************************************************************)
(* Cron expressions (registry/scheduler.go): what a field of an expression *)
(* allows and when an expression matches.  Minutes are numbered from an    *)
(* arbitrary start; Calendar gives the date and time that the wall clock   *)
(* shows in each of them.                                                  *)
(***************************************************************************)
EXTENDS Integers, Sequences

CONSTANTS
  Calendar(_),  \* minute -> [minute, hour, day, month, weekday]
  Limits,       \* the least and the greatest value of each field
  Horizon       \* how many minutes Next looks ahead: 366 days

ASSUME HorizonAssumption == Horizon \in Nat

Fields == {"minute", "hour", "day", "month", "weekday"}

ASSUME LimitsAssumption == Limits \in [Fields -> Int \X Int]

(***************************************************************************)
(* An expression has a sequence of tokens for each field.  A token has a   *)
(* base ("*", a range or one value), and after a "/" a step.               *)
(***************************************************************************)
NoStep == <<>>

Token == [base : {"*", "range", "value"}, lo : Int, hi : Int, step : Seq(Int)]

Star == [base |-> "*", lo |-> 0, hi |-> 0, step |-> NoStep]
Every(step) == [Star EXCEPT !.step = <<step>>]
Value(v) == [base |-> "value", lo |-> v, hi |-> v, step |-> NoStep]
Span(lo, hi) == [base |-> "range", lo |-> lo, hi |-> hi, step |-> NoStep]

(***************************************************************************)
(* expandCronToken.  It returns at least one value or an error; the empty  *)
(* set stands for the error.  A single 7 is a Sunday; a range up to 7 is   *)
(* out of range.                                                           *)
(***************************************************************************)
Sunday(v, max) == IF max = 6 /\ v = 7 THEN 0 ELSE v

\* Fault: the upper end is not checked.
ExpandAboveMax(token, min, max) ==
  LET step  == IF token.step = NoStep THEN 1 ELSE token.step[1]
      start == CASE token.base = "*" -> min
                 [] token.base = "range" -> token.lo
                 [] OTHER -> Sunday(token.lo, max)
      end   == CASE token.base = "*" -> max
                 [] token.base = "range" -> token.hi
                 [] OTHER -> start
  IN  IF step <= 0 \/ start < min \/ start > end THEN {}
      ELSE {v \in start..end : (v - start) % step = 0}

ExpandCronToken(token, min, max) ==
  LET step  == IF token.step = NoStep THEN 1 ELSE token.step[1]
      start == CASE token.base = "*" -> min
                 [] token.base = "range" -> token.lo
                 [] OTHER -> Sunday(token.lo, max)
      end   == CASE token.base = "*" -> max
                 [] token.base = "range" -> token.hi
                 [] OTHER -> start
  IN  IF step <= 0 \/ start < min \/ end > max \/ start > end THEN {}
      ELSE {v \in start..end : (v - start) % step = 0}

(***************************************************************************)
(* parseCronField and parseCronSchedule.  One bad token spoils the whole   *)
(* expression.  Only the token "*" makes a field a wildcard, not "*/1".    *)
(***************************************************************************)
Expanded(tokens, f) == {ExpandCronToken(tokens[i], Limits[f][1], Limits[f][2]) : i \in DOMAIN tokens}

ParseCronField(tokens, f) == [allowed  |-> UNION Expanded(tokens, f),
                              wildcard |-> \E i \in DOMAIN tokens : tokens[i] = Star]

Valid(expr) == \A f \in Fields : expr[f] # <<>> /\ {} \notin Expanded(expr[f], f)

ParseCronSchedule(expr) == [f \in Fields |-> ParseCronField(expr[f], f)]

(***************************************************************************)
(* matches: day and day of week are alternatives unless one is a wildcard. *)
(***************************************************************************)
Matches(schedule, m) ==
  LET ok(f) == Calendar(m)[f] \in schedule[f].allowed
  IN  /\ ok("minute") /\ ok("hour") /\ ok("month")
      /\ IF schedule["day"].wildcard
         THEN schedule["weekday"].wildcard \/ ok("weekday")
         ELSE ok("day") \/ (~schedule["weekday"].wildcard /\ ok("weekday"))
=============================================================================
