--------------------------- MODULE SchedulerProofs ---------------------------
(***************************************************************************)
(* Proofs about the purge scheduler, for any calendar, any horizon, any    *)
(* set of expressions and a clock of any resolution.                       *)
(***************************************************************************)
EXTENDS Scheduler, WellFoundedInduction, TLAPS

-----------------------------------------------------------------------------
(***************************************************************************)
(* Minutes and ticks.                                                      *)
(***************************************************************************)
\* A tick lies in the minute that MinuteOf gives, and minutes are in order.
LEMMA MinuteBounds ==
  ASSUME NEW t \in Nat
  PROVE  /\ MinuteOf(t) \in Nat
         /\ TicksPerMinute * MinuteOf(t) <= t
         /\ t < TicksPerMinute * (MinuteOf(t) + 1)
BY TickAssumption DEF MinuteOf

\* A minute begins at its first tick.
LEMMA MinuteStart ==
  ASSUME NEW m \in Nat
  PROVE  /\ TicksPerMinute * m \in Nat
         /\ MinuteOf(TicksPerMinute * m) = m
         /\ (TicksPerMinute * m) % TicksPerMinute = 0
BY TickAssumption DEF MinuteOf

\* The order of minutes is that of their first ticks.
LEMMA TicksOrdered ==
  ASSUME NEW m \in Nat, NEW n \in Nat
  PROVE  TicksPerMinute * m < TicksPerMinute * n <=> m < n
BY TickAssumption

\* A minute later is the next minute.
LEMMA MinuteLater ==
  ASSUME NEW t \in Nat
  PROVE  t + TicksPerMinute \in Nat /\ MinuteOf(t + TicksPerMinute) = MinuteOf(t) + 1
BY TickAssumption DEF MinuteOf

\* Later ticks do not lie in earlier minutes.
LEMMA MinuteMonotone ==
  ASSUME NEW t \in Nat, NEW u \in Nat, t <= u
  PROVE  MinuteOf(t) <= MinuteOf(u)
BY TickAssumption DEF MinuteOf

-----------------------------------------------------------------------------
(***************************************************************************)
(* What Next returns.                                                      *)
(***************************************************************************)
\* A set of natural numbers that is not empty has a least element.
LEMMA LeastMinute ==
  ASSUME NEW S \in SUBSET Nat, S # {}
  PROVE  \E n \in S : \A m \in S : n <= m
<1>1. PICK n \in S : \A m \in S : ~(<<m, n>> \in OpToRel(<, Nat))
  BY NatLessThanWellFounded, WFMin
<1>2. \A m \in S : ~(m < n)
  BY <1>1 DEF OpToRel
<1>. QED
  BY <1>2

\* The minutes that Next tries after the tick given.
Tried(after) == MinuteOf(after) + 1 .. MinuteOf(after) + 1 + Horizon

\* Next is the first tick of the first matching minute that it tries; if it
\* finds none, it is a minute from now.
LEMMA NextReturns ==
  ASSUME NEW after \in Nat
  PROVE  \/ /\ \A m \in Tried(after) : ~Matches(schedule, m)
            /\ Next(after) = after + TicksPerMinute
         \/ \E m \in Tried(after) :
              /\ Matches(schedule, m)
              /\ Next(after) = TicksPerMinute * m
              /\ \A n \in Tried(after) : Matches(schedule, n) => m <= n
<1>. DEFINE hits == {m \in Tried(after) : Matches(schedule, m)}
            least == CHOOSE m \in hits : \A n \in hits : m <= n
<1>1. Next(after) = IF hits = {} THEN after + TicksPerMinute ELSE TicksPerMinute * least
  BY DEF Next, Tried
<1>2. hits \in SUBSET Nat
  BY MinuteBounds, HorizonAssumption DEF Tried
<1>3. CASE hits = {}
  BY <1>1, <1>3
<1>4. CASE hits # {}
  <2>1. \E m \in hits : \A n \in hits : m <= n
    <3>. HIDE DEF hits
    <3>. QED
      BY <1>2, <1>4, LeastMinute
  <2>2. least \in hits /\ \A n \in hits : least <= n
    BY <2>1
  <2>3. Next(after) = TicksPerMinute * least
    BY <1>1, <1>4
  <2>. HIDE DEF least
  <2>. QED
    BY <2>2, <2>3
<1>. QED
  BY <1>3, <1>4

\* Next is always in a later minute.
LEMMA NextIsLater ==
  ASSUME NEW after \in Nat
  PROVE  Next(after) \in Nat /\ MinuteOf(Next(after)) > MinuteOf(after)
<1>1. MinuteOf(after) \in Nat /\ Tried(after) \subseteq Nat
  BY MinuteBounds, HorizonAssumption DEF Tried
<1>2. CASE Next(after) = after + TicksPerMinute
  BY <1>1, <1>2, MinuteLater
<1>3. ASSUME NEW m \in Tried(after), Next(after) = TicksPerMinute * m
      PROVE  Next(after) \in Nat /\ MinuteOf(Next(after)) > MinuteOf(after)
  <2>1. m \in Nat /\ m > MinuteOf(after)
    BY <1>1, HorizonAssumption DEF Tried
  <2>. QED
    BY <1>1, <1>3, <2>1, MinuteStart
<1>. QED
  BY <1>2, <1>3, NextReturns

\* No minute that matches begins between the call of Next and what it returns.
LEMMA NextSkipsNone ==
  ASSUME NEW after \in Nat, NEW m \in Nat,
         after < TicksPerMinute * m, TicksPerMinute * m < Next(after)
  PROVE  ~Matches(schedule, m)
<1>1. MinuteOf(after) \in Nat /\ Tried(after) \subseteq Nat
  BY MinuteBounds, HorizonAssumption DEF Tried
<1>2. m > MinuteOf(after)
  <2>1. TicksPerMinute * MinuteOf(after) < TicksPerMinute * m
    BY <1>1, MinuteBounds, MinuteStart
  <2>. QED
    BY <1>1, <2>1, TicksOrdered
<1>3. CASE /\ \A n \in Tried(after) : ~Matches(schedule, n)
           /\ Next(after) = after + TicksPerMinute
  <2>1. TicksPerMinute * m < TicksPerMinute * (MinuteOf(after) + 2)
    BY <1>1, <1>3, MinuteBounds, TickAssumption
  <2>2. m < MinuteOf(after) + 2
    BY <1>1, <2>1, TicksOrdered
  <2>3. m \in Tried(after)
    BY <1>1, <1>2, <2>2, HorizonAssumption DEF Tried
  <2>. QED
    BY <1>3, <2>3
<1>4. ASSUME NEW hit \in Tried(after), Next(after) = TicksPerMinute * hit,
             \A n \in Tried(after) : Matches(schedule, n) => hit <= n
      PROVE  ~Matches(schedule, m)
  <2>1. m < hit /\ hit \in Nat
    BY <1>1, <1>4, TicksOrdered
  <2>2. m \in Tried(after)
    BY <1>1, <1>2, <2>1, HorizonAssumption DEF Tried
  <2>. QED
    BY <1>4, <2>1, <2>2
<1>. QED
  BY <1>3, <1>4, NextReturns

-----------------------------------------------------------------------------
(***************************************************************************)
(* The inductive invariant.                                                *)
(***************************************************************************)
\* The times, and how they are ordered: what has been planned is due before the
\* goroutine plans again.
ClockInv ==
  /\ clock \in Nat /\ nextRun \in Nat /\ planned \in Nat
  /\ pc \in {"boot", "off", "exit", "plan", "wait", "run"}
  /\ pc \in {"boot", "plan", "run"} => nextRun <= clock

\* Only an expression that parses gets past the start.
AcceptedInv ==
  /\ expr \in Expressions \cup {Disabled}
  /\ pc \in {"plan", "wait", "run"} => expr \in Expressions /\ Valid(expr)

\* nextRun is what Next returned.
PlannedInv == pc \in {"wait", "run"} => nextRun = Next(planned)

SchedulerInv == ClockInv /\ AcceptedInv /\ PlannedInv

\* The invariant holds when the program starts.
LEMMA SchedulerInvInit == SchedulerInit => SchedulerInv
BY TickAssumption DEF SchedulerInit, SchedulerInv, ClockInv, AcceptedInv, PlannedInv

\* What Next returns depends on the expression and on its argument only.
LEMMA NextSame ==
  ASSUME UNCHANGED expr
  PROVE  /\ planned' = planned => Next(planned)' = Next(planned)
         /\ planned' = clock => Next(planned)' = Next(clock)
<1>1. schedule' = schedule
  BY DEF schedule
<1>. DEFINE hits(s, t) == {m \in MinuteOf(t) + 1 .. MinuteOf(t) + 1 + Horizon : Matches(s, m)}
            value(s, t) == IF hits(s, t) = {} THEN t + TicksPerMinute
                           ELSE TicksPerMinute * (CHOOSE m \in hits(s, t) : \A n \in hits(s, t) : m <= n)
<1>2. /\ Next(planned) = value(schedule, planned)
      /\ Next(clock) = value(schedule, clock)
      /\ Next(planned)' = value(schedule', planned')
  BY DEF Next
<1>. HIDE DEF value
<1>. QED
  BY <1>1, <1>2

\* Every step keeps the invariant.
LEMMA SchedulerInvNext == SchedulerInv /\ [SchedulerNext]_svars => SchedulerInv'
<1>1. SUFFICES ASSUME SchedulerInv, [SchedulerNext]_svars PROVE SchedulerInv'
  OBVIOUS
<1>2. ClockInv /\ AcceptedInv /\ PlannedInv
  BY <1>1 DEF SchedulerInv
<1>3. CASE Boot
  BY <1>2, <1>3 DEF Boot, SchedulerInv, ClockInv, AcceptedInv, PlannedInv
<1>4. CASE Plan
  <2>1. Next(planned)' = Next(clock)
    BY <1>4, NextSame DEF Plan
  <2>2. Next(clock) \in Nat
    BY <1>2, NextIsLater DEF ClockInv
  <2>. QED
    BY <1>2, <1>4, <2>1, <2>2 DEF Plan, SchedulerInv, ClockInv, AcceptedInv, PlannedInv
<1>5. CASE Fire \/ RunEnds \/ Tick \/ UNCHANGED svars
  <2>1. UNCHANGED <<expr, planned, nextRun>> /\ clock' \in Nat /\ clock' >= clock
    BY <1>2, <1>5 DEF Fire, RunEnds, Tick, svars, ClockInv
  <2>2. Next(planned)' = Next(planned)
    BY <2>1, NextSame
  <2>3. /\ pc' \in {"wait", "run"} => pc \in {"wait", "run"}
        /\ pc' \in {"plan", "wait", "run"} => pc \in {"plan", "wait", "run"}
        /\ pc' \in {"boot", "plan", "run"} =>
             pc \in {"boot", "plan", "run"} \/ nextRun <= clock
        /\ pc' \in {"boot", "off", "exit", "plan", "wait", "run"}
    BY <1>2, <1>5 DEF Fire, RunEnds, Tick, svars, ClockInv
  <2>. QED
    BY <1>2, <2>1, <2>2, <2>3 DEF SchedulerInv, ClockInv, AcceptedInv, PlannedInv
<1>. QED
  BY <1>1, <1>3, <1>4, <1>5 DEF SchedulerNext

-----------------------------------------------------------------------------
(***************************************************************************)
(* The properties.                                                         *)
(***************************************************************************)
\* A token that expands without an error allows values of its field's range
\* only: expandCronToken checks what it has computed, whatever the token says.
LEMMA TokenInRange ==
  ASSUME NEW token \in Token, NEW min \in Int, NEW max \in Int
  PROVE  ExpandCronToken(token, min, max) \subseteq min..max
<1>. DEFINE step  == IF token.step = NoStep THEN 1 ELSE token.step[1]
            start == CASE token.base = "*" -> min
                       [] token.base = "range" -> token.lo
                       [] OTHER -> Sunday(token.lo, max)
            end   == CASE token.base = "*" -> max
                       [] token.base = "range" -> token.hi
                       [] OTHER -> start
<1>1. token.lo \in Int /\ token.hi \in Int
  BY DEF Token
<1>2. start \in Int
  BY <1>1 DEF Sunday
<1>3. end \in Int
  BY <1>1, <1>2
<1>4. ExpandCronToken(token, min, max) =
        IF step <= 0 \/ start < min \/ end > max \/ start > end THEN {}
        ELSE {v \in start..end : (v - start) % step = 0}
  BY DEF ExpandCronToken
<1>. HIDE DEF step, start, end
<1>. QED
  BY <1>2, <1>3, <1>4

\* Whatever the expression, a field of a schedule that was accepted allows some
\* value and none outside its range.
THEOREM AcceptedFieldsInRange == SchedulerSpec => []FieldsInRange
<1>1. SchedulerInv => FieldsInRange
  <2>1. SUFFICES ASSUME SchedulerInv, pc \in {"plan", "wait", "run"}, NEW f \in Fields
                 PROVE  /\ schedule[f].allowed # {}
                        /\ schedule[f].allowed \subseteq Limits[f][1]..Limits[f][2]
    BY DEF FieldsInRange
  <2>2. expr[f] \in Seq(Token) /\ expr[f] # <<>> /\ {} \notin Expanded(expr[f], f)
    BY <2>1, ExpressionsAssumption DEF SchedulerInv, AcceptedInv, Valid
  <2>3. schedule[f].allowed = UNION Expanded(expr[f], f)
    BY DEF schedule, ParseCronSchedule, ParseCronField
  <2>4. Limits[f][1] \in Int /\ Limits[f][2] \in Int
    BY LimitsAssumption
  <2>5. \A i \in DOMAIN expr[f] :
          ExpandCronToken(expr[f][i], Limits[f][1], Limits[f][2]) \subseteq Limits[f][1]..Limits[f][2]
    BY <2>2, <2>4, TokenInRange
  <2>6. 1 \in DOMAIN expr[f]
    BY <2>2
  <2>. QED
    BY <2>2, <2>3, <2>5, <2>6 DEF Expanded
<1>. QED
  BY <1>1, SchedulerInvInit, SchedulerInvNext, PTL DEF SchedulerSpec

\* A purge that starts was due at the beginning of a minute that matches,
\* provided that expressions which parse match at least once in the horizon of
\* Next (the 29th of February does not).
THEOREM RunsAreOnSchedule ==
  ASSUME \A e \in Expressions : Valid(e) =>
           \A m \in Nat : \E n \in m .. m + Horizon : Matches(ParseCronSchedule(e), n)
  PROVE  SchedulerSpec => []RunsOnSchedule
<1>1. SchedulerInv => RunsOnSchedule
  <2>1. SUFFICES ASSUME SchedulerInv, pc = "run"
                 PROVE  nextRun % TicksPerMinute = 0 /\ Matches(schedule, MinuteOf(nextRun))
    BY DEF RunsOnSchedule
  <2>2. nextRun = Next(planned) /\ planned \in Nat /\ expr \in Expressions /\ Valid(expr)
    BY <2>1 DEF SchedulerInv, ClockInv, AcceptedInv, PlannedInv
  <2>3. MinuteOf(planned) + 1 \in Nat /\ Tried(planned) \subseteq Nat
    BY <2>2, MinuteBounds, HorizonAssumption DEF Tried
  <2>4. \E n \in Tried(planned) : Matches(schedule, n)
    BY <2>2, <2>3 DEF Tried, schedule
  <2>5. PICK m \in Tried(planned) : Matches(schedule, m) /\ nextRun = TicksPerMinute * m
    BY <2>2, <2>4, NextReturns
  <2>. QED
    BY <2>3, <2>5, MinuteStart
<1>. QED
  BY <1>1, SchedulerInvInit, SchedulerInvNext, PTL DEF SchedulerSpec

\* Whatever the expression, the calendar and the time a purge takes, the
\* scheduler does not sleep over a minute that matches.
THEOREM SleepsOverNoMinute == SchedulerSpec => []NoMinuteMissed
<1>1. SchedulerInv => NoMinuteMissed
  <2>1. SUFFICES ASSUME SchedulerInv, pc = "wait", NEW m \in MinuteOf(planned)..MinuteOf(nextRun),
                        planned < TicksPerMinute * m, TicksPerMinute * m < nextRun
                 PROVE  ~Matches(schedule, m)
    BY DEF NoMinuteMissed
  <2>2. nextRun = Next(planned) /\ planned \in Nat /\ nextRun \in Nat
    BY <2>1 DEF SchedulerInv, ClockInv, PlannedInv
  <2>3. m \in Nat
    BY <2>1, <2>2, MinuteBounds
  <2>. QED
    BY <2>1, <2>2, <2>3, NextSkipsNone
<1>. QED
  BY <1>1, SchedulerInvInit, SchedulerInvNext, PTL DEF SchedulerSpec

\* Every plan is for a later minute than the one before, however short the purge
\* in between was and however late the timer fired.
THEOREM NoMinuteTwice == SchedulerSpec => OncePerMinute
<1>1. SchedulerInv /\ [SchedulerNext]_svars =>
        [pc = "plan" /\ pc' = "wait" => MinuteOf(nextRun') > MinuteOf(nextRun)]_svars
  <2>1. SUFFICES ASSUME SchedulerInv, [SchedulerNext]_svars, pc = "plan", pc' = "wait"
                 PROVE  MinuteOf(nextRun') > MinuteOf(nextRun)
    OBVIOUS
  <2>2. nextRun' = Next(clock)
    BY <2>1 DEF SchedulerNext, Boot, Plan, Fire, RunEnds, Tick, svars
  <2>3. clock \in Nat /\ nextRun \in Nat /\ nextRun <= clock
    BY <2>1 DEF SchedulerInv, ClockInv
  <2>4. MinuteOf(nextRun) <= MinuteOf(clock)
    BY <2>3, MinuteMonotone
  <2>5. Next(clock) \in Nat /\ MinuteOf(Next(clock)) > MinuteOf(clock)
    BY <2>3, NextIsLater
  <2>6. /\ MinuteOf(nextRun) \in Nat /\ MinuteOf(clock) \in Nat
        /\ MinuteOf(Next(clock)) \in Nat
    BY <2>3, <2>5, MinuteBounds
  <2>. QED
    BY <2>2, <2>4, <2>5, <2>6
<1>. QED
  BY <1>1, SchedulerInvInit, SchedulerInvNext, PTL DEF SchedulerSpec, OncePerMinute
=============================================================================
