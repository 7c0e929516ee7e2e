----------------------------- MODULE EventProofs -----------------------------
(***************************************************************************)
(* Proofs about the event store and the purge log, for any number of       *)
(* events, batches and handlers, any retention, and any number of days,    *)
(* timeouts, database errors and kills.                                    *)
(***************************************************************************)
EXTENDS EventStore, FiniteSetTheorems, TLAPS

-----------------------------------------------------------------------------
(***************************************************************************)
(* The events.  The inductive invariant.                                   *)
(***************************************************************************)
EventRow == [id : Nat, what : Events, created : Nat]

HandlerFrame == [pc : {"idle", "decode", "insert", "answer"}, todo : Seq(Events)]

EventTypeInv ==
  /\ acked \in 0..Len(Batches) /\ awaited \in Handlers \cup {Nobody}
  /\ handler \in [Handlers -> HandlerFrame]
  /\ events \in [rows : SUBSET EventRow, last : Nat]
  /\ day \in Nat \ {0}
  /\ storedAt \in [Events -> Nat] /\ dropped \subseteq Events

\* The row stored last for an event is in the table, until it is too old.
Stored(e) == \E x \in events.rows : x.what = e /\ x.created = storedAt[e]

Outdated(e) == EventDeletion /\ day - storedAt[e] > Retention

KeptInv == \A e \in Events : storedAt[e] # 0 =>
             storedAt[e] <= day /\ (Outdated(e) \/ Stored(e))

\* An event is stored, is not to be stored, or is still in S.
Covered(e, S) == e \in Own \cup S \/ storedAt[e] # 0

Remaining(h) == {handler[h].todo[i] : i \in DOMAIN handler[h].todo}

\* The handler that the registry waits for has yet to store what is missing of
\* the batch that was posted last.
AwaitedInv ==
  awaited # Nobody =>
    /\ acked < Len(Batches)
    /\ \A i \in DOMAIN Batches[acked + 1] : Covered(Batches[acked + 1][i], Remaining(awaited))

\* What has been answered was stored or dropped.
AckedInv == \A b \in 1..acked : \A i \in DOMAIN Batches[b] : Covered(Batches[b][i], dropped)

StoreInv == EventTypeInv /\ KeptInv /\ AwaitedInv /\ AckedInv

\* What a batch holds are events.
LEMMA BatchEvents ==
  ASSUME NEW b \in 1..Len(Batches)
  PROVE  Batches[b] \in Seq(Events) /\ \A i \in DOMAIN Batches[b] : Batches[b][i] \in Events
BY StoreAssumption

\* Without its head, a sequence has all its other elements.
LEMMA TailElements ==
  ASSUME NEW S, NEW s \in Seq(S), s # <<>>
  PROVE  /\ Head(s) \in S /\ Tail(s) \in Seq(S)
         /\ \A j \in DOMAIN s : s[j] = Head(s) \/ \E k \in DOMAIN Tail(s) : Tail(s)[k] = s[j]
<1>1. Head(s) \in S /\ Tail(s) \in Seq(S) /\ Len(s) \in Nat /\ Head(s) = s[1]
  OBVIOUS
<1>2. Len(Tail(s)) = Len(s) - 1 /\ \A k \in 1..Len(s) - 1 : Tail(s)[k] = s[k + 1]
  OBVIOUS
<1>3. ASSUME NEW j \in 1..Len(s), j # 1
      PROVE  \E k \in DOMAIN Tail(s) : Tail(s)[k] = s[j]
  <2>1. j - 1 \in 1..Len(s) - 1 /\ (j - 1) + 1 = j
    BY <1>1, <1>3
  <2>2. Tail(s)[j - 1] = s[j]
    BY <1>2, <2>1
  <2>3. DOMAIN Tail(s) = 1..Len(s) - 1
    BY <1>1, <1>2
  <2>. QED
    BY <2>1, <2>2, <2>3
<1>4. DOMAIN s = 1..Len(s)
  OBVIOUS
<1>. QED
  BY <1>1, <1>3, <1>4

\* The invariant holds when the database is empty.
LEMMA StoreInvInit == EventInit => StoreInv
<1>1. SUFFICES ASSUME EventInit PROVE StoreInv
  OBVIOUS
<1>2. EventTypeInv
  BY <1>1, StoreAssumption DEF EventInit, EventTypeInv, EmptyTable, EventRow, Idle, HandlerFrame
<1>. QED
  BY <1>1, <1>2 DEF EventInit, StoreInv, KeptInv, AwaitedInv, AckedInv, EmptyTable

\* Time passes, and nothing else happens to the events.
LEMMA StoreTime ==
  ASSUME StoreInv, UNCHANGED <<acked, awaited, handler, events, storedAt, dropped>>,
         day' \in {day, day + 1}
  PROVE  StoreInv'
<1>1. EventTypeInv' /\ AwaitedInv' /\ AckedInv'
  BY DEF StoreInv, EventTypeInv, AwaitedInv, AckedInv, Covered, Remaining
<1>2. KeptInv'
  <2>1. SUFFICES ASSUME NEW e \in Events, storedAt[e] # 0
                 PROVE  storedAt[e] <= day' /\ (Outdated(e) \/ Stored(e))'
    BY DEF KeptInv
  <2>2. storedAt[e] <= day /\ (Outdated(e) \/ Stored(e)) /\ storedAt[e] \in Nat /\ day \in Nat
    BY <2>1 DEF StoreInv, KeptInv, EventTypeInv
  <2>3. Outdated(e) => Outdated(e)'
    BY <2>2, StoreAssumption DEF Outdated
  <2>4. Stored(e) => Stored(e)'
    BY DEF Stored
  <2>. QED
    BY <2>2, <2>3, <2>4
<1>. QED
  BY <1>1, <1>2 DEF StoreInv

\* A handler goes on, and its remaining events are covered.
LEMMA StoreGoesOn ==
  ASSUME StoreInv, NEW h \in Handlers, NEW frame \in HandlerFrame,
         handler' = [handler EXCEPT ![h] = frame],
         UNCHANGED <<acked, events, day, storedAt, dropped>>,
         awaited' \in {awaited, Nobody},
         awaited = h => \A e \in Remaining(h) :
           Covered(e, {frame.todo[i] : i \in DOMAIN frame.todo})
  PROVE  StoreInv'
<1>1. EventTypeInv' /\ KeptInv'
  BY DEF StoreInv, EventTypeInv, KeptInv, Outdated, Stored
<1>2. AckedInv'
  BY DEF StoreInv, AckedInv, Covered
<1>3. AwaitedInv'
  <2>1. SUFFICES ASSUME awaited' # Nobody, NEW i \in DOMAIN Batches[acked + 1]
                 PROVE  Covered(Batches[acked + 1][i], Remaining(awaited))'
    BY DEF StoreInv, AwaitedInv
  <2>2. awaited' = awaited /\ awaited \in Handlers
    BY <2>1 DEF StoreInv, EventTypeInv
  <2>3. Covered(Batches[acked + 1][i], Remaining(awaited))
    BY <2>1, <2>2 DEF StoreInv, AwaitedInv
  <2>4. handler \in [Handlers -> HandlerFrame]
    BY DEF StoreInv, EventTypeInv
  <2>5. CASE awaited = h
    <3>1. handler'[h] = frame
      BY <2>4
    <3>. QED
      BY <2>1, <2>2, <2>3, <2>5, <3>1 DEF Covered, Remaining
  <2>6. CASE awaited # h
    <3>1. handler'[awaited] = handler[awaited]
      BY <2>2, <2>4, <2>6
    <3>. QED
      BY <2>1, <2>2, <2>3, <3>1 DEF Covered, Remaining
  <2>. QED
    BY <2>5, <2>6
<1>. QED
  BY <1>1, <1>2, <1>3 DEF StoreInv

\* The registry posts the next batch.
LEMMA StorePost ==
  ASSUME StoreInv, NEW h \in Handlers, Post(h)
  PROVE  StoreInv'
<1>1. /\ awaited' = h /\ acked < Len(Batches) /\ awaited = Nobody
      /\ handler' = [handler EXCEPT ![h] = [pc |-> "decode", todo |-> Batches[acked + 1]]]
      /\ UNCHANGED <<acked, events, day, storedAt, dropped>>
  BY DEF Post, history
<1>2. acked + 1 \in 1..Len(Batches) /\ handler \in [Handlers -> HandlerFrame]
  BY <1>1, StoreAssumption DEF StoreInv, EventTypeInv
<1>3. [pc |-> "decode", todo |-> Batches[acked + 1]] \in HandlerFrame
  BY <1>2, BatchEvents DEF HandlerFrame
<1>4. handler'[h].todo = Batches[acked + 1]
  BY <1>1, <1>2
<1>5. EventTypeInv' /\ KeptInv' /\ AckedInv'
  BY <1>1, <1>3 DEF StoreInv, EventTypeInv, KeptInv, AckedInv, Outdated, Stored, Covered
<1>6. AwaitedInv'
  BY <1>1, <1>4 DEF AwaitedInv, Covered, Remaining
<1>. QED
  BY <1>5, <1>6 DEF StoreInv

\* The registry gives up waiting, by a timeout or because the process died.
LEMMA StoreGivesUp ==
  ASSUME StoreInv, awaited' = Nobody, handler' \in [Handlers -> HandlerFrame],
         UNCHANGED <<acked, events, day, storedAt, dropped>>
  PROVE  StoreInv'
BY DEF StoreInv, EventTypeInv, KeptInv, AckedInv, AwaitedInv, Outdated, Stored, Covered

\* An event is inserted.
LEMMA StoreInsert ==
  ASSUME StoreInv, NEW h \in Handlers, InsertEvent(h)
  PROVE  StoreInv'
<1>. DEFINE e == Head(handler[h].todo)
            row == [id |-> events.last + 1, what |-> e, created |-> day]
<1>1. /\ handler[h].todo # <<>>
      /\ events' = [rows |-> events.rows \cup {row}, last |-> events.last + 1]
      /\ storedAt' = [storedAt EXCEPT ![e] = day]
      /\ handler' = [handler EXCEPT ![h].todo = Tail(@)]
      /\ UNCHANGED <<acked, awaited, day, dropped>>
  BY DEF InsertEvent, Inserted, registry
<1>2. /\ handler \in [Handlers -> HandlerFrame] /\ handler[h].todo \in Seq(Events)
      /\ events \in [rows : SUBSET EventRow, last : Nat] /\ day \in Nat \ {0}
      /\ storedAt \in [Events -> Nat]
  BY DEF StoreInv, EventTypeInv, HandlerFrame
<1>3. e \in Events /\ Tail(handler[h].todo) \in Seq(Events)
  BY <1>1, <1>2
<1>4. row \in EventRow /\ row.id = events.last + 1 /\ row.what = e /\ row.created = day
  BY <1>2, <1>3 DEF EventRow
<1>5. handler'[h].todo = Tail(handler[h].todo) /\ handler' \in [Handlers -> HandlerFrame]
  BY <1>1, <1>2, <1>3 DEF HandlerFrame
<1>6. \A f \in Events : storedAt'[f] = IF f = e THEN day ELSE storedAt[f]
  BY <1>1, <1>2, <1>3
<1>7. \A f \in Events : storedAt[f] # 0 => storedAt'[f] # 0
  BY <1>2, <1>6
<1>8. events'.rows = events.rows \cup {row} /\ events'.last = events.last + 1
  BY <1>1
<1>. HIDE DEF row
<1>9. EventTypeInv'
  BY <1>1, <1>2, <1>3, <1>4, <1>5 DEF StoreInv, EventTypeInv
<1>10. KeptInv'
  <2>1. SUFFICES ASSUME NEW f \in Events, storedAt'[f] # 0
                 PROVE  storedAt'[f] <= day' /\ (Outdated(f) \/ Stored(f))'
    BY DEF KeptInv
  <2>2. CASE f = e
    <3>1. row \in events'.rows /\ row.what = f /\ row.created = storedAt'[f]
      BY <1>4, <1>6, <1>8, <2>2
    <3>2. Stored(f)'
      BY <3>1 DEF Stored
    <3>. QED
      BY <1>1, <1>2, <1>6, <2>2, <3>2
  <2>3. CASE f # e
    <3>1. storedAt'[f] = storedAt[f]
      BY <1>6, <2>3
    <3>2. storedAt[f] <= day /\ (Outdated(f) \/ Stored(f))
      BY <2>1, <3>1 DEF StoreInv, KeptInv
    <3>3. Outdated(f) => Outdated(f)'
      BY <1>1, <3>1 DEF Outdated
    <3>4. Stored(f) => Stored(f)'
      BY <1>4, <1>8, <2>3, <3>1 DEF Stored
    <3>. QED
      BY <1>1, <3>1, <3>2, <3>3, <3>4
  <2>. QED
    BY <2>2, <2>3
<1>11. AckedInv'
  <2>1. SUFFICES ASSUME NEW b \in 1..acked, NEW i \in DOMAIN Batches[b]
                 PROVE  Covered(Batches[b][i], dropped)'
    BY <1>1 DEF AckedInv
  <2>2. Batches[b][i] \in Events
    BY <2>1, BatchEvents, StoreAssumption DEF StoreInv, EventTypeInv
  <2>3. Covered(Batches[b][i], dropped)
    BY <2>1 DEF StoreInv, AckedInv
  <2>. QED
    BY <1>1, <1>7, <2>2, <2>3 DEF Covered
<1>12. AwaitedInv'
  <2>1. SUFFICES ASSUME awaited # Nobody, NEW i \in DOMAIN Batches[acked + 1]
                 PROVE  Covered(Batches[acked + 1][i], Remaining(awaited))'
    BY <1>1 DEF StoreInv, AwaitedInv
  <2>2. acked + 1 \in 1..Len(Batches) /\ awaited \in Handlers
    BY <2>1, StoreAssumption DEF StoreInv, AwaitedInv, EventTypeInv
  <2>3. Batches[acked + 1][i] \in Events
    BY <2>1, <2>2, BatchEvents
  <2>4. Covered(Batches[acked + 1][i], Remaining(awaited))
    BY <2>1 DEF StoreInv, AwaitedInv
  <2>5. CASE awaited = h
    <3>1. \A f \in Remaining(h) : f = e \/ f \in Remaining(h)'
      <4>1. \A j \in DOMAIN handler[h].todo : \/ handler[h].todo[j] = e
                \/ \E k \in DOMAIN Tail(handler[h].todo) : Tail(handler[h].todo)[k] = handler[h].todo[j]
        BY <1>1, <1>2, TailElements
      <4>2. Remaining(h)' = {Tail(handler[h].todo)[k] : k \in DOMAIN Tail(handler[h].todo)}
        BY <1>5 DEF Remaining
      <4>. QED
        BY <4>1, <4>2 DEF Remaining
    <3>2. storedAt'[e] # 0
      BY <1>2, <1>3, <1>6
    <3>3. Remaining(awaited)' = Remaining(h)' /\ Remaining(awaited) = Remaining(h)
      BY <1>1, <2>5 DEF Remaining
    <3>. QED
      BY <1>1, <1>7, <2>3, <2>4, <3>1, <3>2, <3>3 DEF Covered
  <2>6. CASE awaited # h
    <3>1. handler'[awaited] = handler[awaited]
      BY <1>1, <1>2, <2>2, <2>6
    <3>. QED
      BY <1>1, <1>7, <2>3, <2>4, <3>1 DEF Covered, Remaining
  <2>. QED
    BY <2>5, <2>6
<1>. QED
  BY <1>9, <1>10, <1>11, <1>12 DEF StoreInv

\* The retention deletes old rows only.
LEMMA StorePrune ==
  ASSUME StoreInv, NEW h \in Handlers, PruneEvents(h)
  PROVE  StoreInv'
<1>1. /\ events' = IF EventDeletion THEN Pruned(events, Retention) ELSE events
      /\ handler' = [handler EXCEPT ![h].pc = "answer"]
      /\ UNCHANGED <<acked, awaited, day, storedAt, dropped>>
  BY DEF PruneEvents, registry, history
<1>2. /\ handler \in [Handlers -> HandlerFrame]
      /\ events \in [rows : SUBSET EventRow, last : Nat] /\ day \in Nat
      /\ storedAt \in [Events -> Nat]
  BY DEF StoreInv, EventTypeInv
<1>3. /\ events' \in [rows : SUBSET EventRow, last : Nat]
      /\ events'.last = events.last /\ events'.rows \subseteq events.rows
      /\ \A x \in events.rows : (EventDeletion /\ x.created < day - Retention) \/ x \in events'.rows
  <2>1. \A x \in events.rows : x.created \in Nat
    BY <1>2 DEF EventRow
  <2>2. CASE EventDeletion
    <3>1. events' = [events EXCEPT !.rows = {x \in @ : x.created >= day - Retention}]
      BY <1>1, <2>2 DEF Pruned
    <3>2. /\ events' \in [rows : SUBSET EventRow, last : Nat]
          /\ events'.last = events.last
          /\ events'.rows = {x \in events.rows : x.created >= day - Retention}
      BY <1>2, <3>1
    <3>. QED
      BY <1>2, <2>1, <2>2, <3>2, StoreAssumption
  <2>3. CASE ~EventDeletion
    BY <1>1, <1>2, <2>3
  <2>. QED
    BY <2>2, <2>3
<1>4. /\ handler' \in [Handlers -> HandlerFrame]
      /\ \A g \in Handlers : handler'[g].todo = handler[g].todo
  BY <1>1, <1>2 DEF HandlerFrame
<1>5. EventTypeInv' /\ AckedInv'
  BY <1>1, <1>3, <1>4 DEF StoreInv, EventTypeInv, AckedInv, Covered
<1>6. AwaitedInv'
  BY <1>1, <1>4 DEF StoreInv, EventTypeInv, AwaitedInv, Covered, Remaining
<1>7. KeptInv'
  <2>1. SUFFICES ASSUME NEW e \in Events, storedAt[e] # 0
                 PROVE  storedAt[e] <= day /\ (Outdated(e) \/ Stored(e))'
    BY <1>1 DEF KeptInv
  <2>2. storedAt[e] <= day /\ (Outdated(e) \/ Stored(e)) /\ storedAt[e] \in Nat
    BY <1>2, <2>1 DEF StoreInv, KeptInv
  <2>3. Outdated(e)' = Outdated(e)
    BY <1>1 DEF Outdated
  <2>4. ASSUME ~Outdated(e) PROVE Stored(e)'
    <3>1. PICK x \in events.rows : x.what = e /\ x.created = storedAt[e]
      BY <2>2, <2>4 DEF Stored
    <3>2. x \in events'.rows
      BY <1>2, <1>3, <2>2, <2>4, <3>1, StoreAssumption DEF Outdated
    <3>. QED
      BY <1>1, <1>3, <3>1, <3>2 DEF Stored
  <2>. QED
    BY <2>2, <2>3, <2>4
<1>. QED
  BY <1>5, <1>6, <1>7 DEF StoreInv

\* A batch is answered: what is left of it counts as dropped.
LEMMA StoreAnswer ==
  ASSUME StoreInv, NEW h \in Handlers, Answer(h), awaited = h
  PROVE  StoreInv'
<1>1. /\ acked' = acked + 1 /\ awaited' = Nobody
      /\ dropped' = dropped \cup Remaining(h)
      /\ handler' = [handler EXCEPT ![h] = Idle]
      /\ UNCHANGED <<events, day, storedAt>>
  BY DEF Answer, Remaining
<1>2. /\ handler \in [Handlers -> HandlerFrame] /\ handler[h].todo \in Seq(Events)
      /\ acked \in 0..Len(Batches) /\ Len(Batches) \in Nat
  BY StoreAssumption DEF StoreInv, EventTypeInv, HandlerFrame
<1>3. /\ acked < Len(Batches)
      /\ \A i \in DOMAIN Batches[acked + 1] : Covered(Batches[acked + 1][i], Remaining(h))
  BY StoreAssumption DEF StoreInv, AwaitedInv
<1>4. Remaining(h) \subseteq Events /\ Idle \in HandlerFrame
  BY <1>2 DEF Remaining, Idle, HandlerFrame
<1>5. EventTypeInv' /\ KeptInv' /\ AwaitedInv'
  BY <1>1, <1>2, <1>3, <1>4
     DEF StoreInv, EventTypeInv, KeptInv, AwaitedInv, Outdated, Stored
<1>6. AckedInv'
  <2>1. SUFFICES ASSUME NEW b \in 1..acked + 1, NEW i \in DOMAIN Batches[b]
                 PROVE  Covered(Batches[b][i], dropped)'
    BY <1>1 DEF AckedInv
  <2>2. CASE b \in 1..acked
    BY <1>1, <2>2 DEF StoreInv, AckedInv, Covered
  <2>3. CASE b = acked + 1
    BY <1>1, <1>3, <2>3 DEF Covered
  <2>. QED
    BY <1>2, <2>2, <2>3
<1>. QED
  BY <1>5, <1>6 DEF StoreInv

\* The other steps of a handler.
LEMMA StoreHandler ==
  ASSUME StoreInv, NEW h \in Handlers, HandlerStep(h)
  PROVE  StoreInv'
<1>. DEFINE f == handler[h]
<1>0. f \in HandlerFrame /\ Idle \in HandlerFrame /\ handler \in [Handlers -> HandlerFrame]
  BY DEF StoreInv, EventTypeInv, Idle, HandlerFrame
<1>1. CASE DecodeFails(h)
  BY <1>0, <1>1, StoreGoesOn DEF DecodeFails, GoesOn, registry, history
<1>2. CASE OpenDatabase(h)
  <2>1. [f EXCEPT !.pc = "insert"] \in HandlerFrame /\ [f EXCEPT !.pc = "insert"].todo = f.todo
    BY <1>0 DEF HandlerFrame
  <2>2. \A e \in Remaining(h) : Covered(e, {f.todo[i] : i \in DOMAIN f.todo})
    BY DEF Covered, Remaining
  <2>. QED
    BY <1>2, <2>1, <2>2, StoreGoesOn DEF OpenDatabase, GoesOn, registry, history
<1>3. CASE SkipOwn(h)
  <2>. DEFINE g == [f EXCEPT !.todo = Tail(@)]
  <2>1. f.todo \in Seq(Events) /\ f.todo # <<>> /\ Head(f.todo) \in Own
    BY <1>0, <1>3 DEF SkipOwn, HandlerFrame
  <2>2. Tail(f.todo) \in Seq(Events)
    BY <2>1, TailElements
  <2>3. g \in HandlerFrame /\ g.todo = Tail(f.todo)
    <3>. HIDE DEF f
    <3>. QED
      BY <1>0, <2>2 DEF HandlerFrame
  <2>4. /\ handler' = [handler EXCEPT ![h] = g]
        /\ UNCHANGED <<acked, awaited, events, day, storedAt, dropped>>
    BY <1>3 DEF SkipOwn, GoesOn, registry, history
  <2>. HIDE DEF g
  <2>5. \A e \in Remaining(h) : Covered(e, {g.todo[i] : i \in DOMAIN g.todo})
    <3>1. \A e \in Remaining(h) : e \in Own \/ \E k \in DOMAIN g.todo : g.todo[k] = e
      BY <2>1, <2>3, TailElements DEF Remaining
    <3>. QED
      BY <3>1 DEF Covered
  <2>. QED
    BY <2>3, <2>4, <2>5, StoreGoesOn
<1>4. CASE InsertEvent(h)
  BY <1>4, StoreInsert
<1>5. CASE PruneEvents(h)
  BY <1>5, StorePrune
<1>6. CASE DatabaseFails(h)
  <2>1. [f EXCEPT !.pc = "answer"] \in HandlerFrame /\ [f EXCEPT !.pc = "answer"].todo = f.todo
    BY <1>0 DEF HandlerFrame
  <2>2. \A e \in Remaining(h) : Covered(e, {f.todo[i] : i \in DOMAIN f.todo})
    BY DEF Covered, Remaining
  <2>. QED
    BY <1>6, <2>1, <2>2, StoreGoesOn DEF DatabaseFails, DatabaseError, registry, history
<1>7. CASE Answer(h)
  <2>1. CASE awaited = h
    BY <1>7, <2>1, StoreAnswer
  <2>2. CASE awaited # h
    BY <1>0, <1>7, <2>2, StoreGoesOn DEF Answer, registry
  <2>. QED
    BY <2>1, <2>2
<1>. QED
  BY <1>1, <1>2, <1>3, <1>4, <1>5, <1>6, <1>7 DEF HandlerStep

\* Every step keeps the invariant.
LEMMA StoreInvNext == StoreInv /\ [EventNext]_evars => StoreInv'
<1>1. SUFFICES ASSUME StoreInv, [EventNext]_evars PROVE StoreInv'
  OBVIOUS
<1>2. CASE Timeout \/ Crash
  <2>1. handler' \in [Handlers -> HandlerFrame]
    <3>1. Idle \in HandlerFrame
      BY DEF Idle, HandlerFrame
    <3>2. handler' = handler \/ handler' = [h \in Handlers |-> Idle]
      BY <1>2 DEF Timeout, Crash
    <3>. QED
      BY <1>1, <3>1, <3>2 DEF StoreInv, EventTypeInv
  <2>. QED
    BY <1>1, <1>2, <2>1, StoreGivesUp DEF Timeout, Crash, history
<1>3. CASE StartPurge \/ Tick \/ RecorderStep \/ UNCHANGED evars
  <2>1. UNCHANGED <<acked, awaited, handler, events, storedAt, dropped>> /\ day' \in {day, day + 1}
    BY <1>3 DEF StartPurge, Tick, RecorderStep, InsertRun, InsertRunFails, PruneRuns, PruneRunsFor,
         PruneRunsFails, evars, registry, history
  <2>. QED
    BY <1>1, <2>1, StoreTime
<1>4. CASE \E h \in Handlers : Post(h) \/ HandlerStep(h)
  BY <1>1, <1>4, StorePost, StoreHandler
<1>. QED
  BY <1>1, <1>2, <1>3, <1>4 DEF EventNext

\* An event the registry was told is received is in the table of events for
\* as long as it is to be kept (the inserts and the DELETE of ProcessEvents), however many posts, handlers, timeouts and
\* kills there are; only a database error behind an answer of OK loses it.
THEOREM EventsAreKept == EventSpec => []EventKept
<1>1. StoreInv => EventKept
  <2>1. SUFFICES ASSUME StoreInv, NEW e \in Acknowledged \ (Own \cup dropped)
                 PROVE  /\ storedAt[e] # 0
                        /\ \/ EventDeletion /\ day - storedAt[e] > Retention
                           \/ \E x \in events.rows : x.what = e /\ x.created = storedAt[e]
    BY DEF EventKept
  <2>2. PICK b \in 1..acked : \E i \in DOMAIN Batches[b] : e = Batches[b][i]
    BY <2>1 DEF Acknowledged
  <2>3. b \in 1..Len(Batches)
    BY <2>1, StoreAssumption DEF StoreInv, EventTypeInv
  <2>4. e \in Events /\ storedAt[e] # 0
    BY <2>1, <2>2, <2>3, BatchEvents DEF StoreInv, AckedInv, Covered
  <2>. QED
    BY <2>1, <2>4 DEF StoreInv, KeptInv, Outdated, Stored
<1>. QED
  BY <1>1, StoreInvInit, StoreInvNext, PTL DEF EventSpec

-----------------------------------------------------------------------------
(***************************************************************************)
(* The purge log.  The inductive invariant.                                *)
(***************************************************************************)
RunRow == [id : Nat, what : Nat, created : Nat]

RunTypeInv ==
  /\ recorder \in {"idle", "purge", "prune"}
  /\ recorder = "prune" => LogRetention > 0
  /\ purgeRuns \in [rows : SUBSET RunRow, last : Nat] /\ IsFiniteSet(purgeRuns.rows)
  /\ started \in 0..MaxRuns /\ (recorder = "purge" => started # 0) /\ day \in Nat \ {0}
  /\ loggedAt \in [1..MaxRuns -> Nat] /\ unlogged \subseteq 1..started

\* The purge that is under way, and those to come, are not in the log.
Pending(n) == n > started \/ (n = started /\ recorder = "purge")

\* A purge is in the log, was kept from it, or is still to come; purges are
\* logged in the order in which they start.
HistoryInv ==
  /\ \A n \in 1..MaxRuns : /\ Pending(n) <=> loggedAt[n] = 0 /\ n \notin unlogged
                           /\ loggedAt[n] # 0 => loggedAt[n] <= day /\ n \notin unlogged
  /\ \A m, n \in 1..MaxRuns : m < n /\ loggedAt[n] # 0 => loggedAt[m] <= loggedAt[n]

\* The rows are those of logged purges, and ids are in the order of the purges.
RowsInv ==
  /\ \A x \in purgeRuns.rows : /\ x.id <= purgeRuns.last
                               /\ x.what \in 1..started
                               /\ x.created = loggedAt[x.what] /\ x.created # 0
  /\ \A x, y \in purgeRuns.rows : (x.id < y.id <=> x.what < y.what) /\ (x.what = y.what => x = y)

HasRow(n) == \E x \in purgeRuns.rows : x.what = n

\* A row goes only when it is too old, and after all rows before it.
RetentionInv ==
  \A n \in 1..MaxRuns : loggedAt[n] # 0 /\ ~HasRow(n) =>
    /\ LogRetention > 0 /\ day - loggedAt[n] > LogRetention
    /\ \A x \in purgeRuns.rows : n < x.what

LogInv == RunTypeInv /\ HistoryInv /\ RowsInv /\ RetentionInv

\* The invariant holds when the log is empty.
LEMMA LogInvInit == EventInit => LogInv
<1>1. SUFFICES ASSUME EventInit PROVE LogInv
  OBVIOUS
<1>2. RunTypeInv
  BY <1>1, StoreAssumption, FS_EmptySet DEF EventInit, RunTypeInv, EmptyTable, RunRow
<1>. QED
  BY <1>1, <1>2 DEF EventInit, LogInv, HistoryInv, RowsInv, RetentionInv, Pending, EmptyTable

\* Time passes, and nothing else happens to the log.
LEMMA LogTime ==
  ASSUME LogInv, UNCHANGED <<recorder, purgeRuns, started, loggedAt, unlogged>>,
         day' \in {day, day + 1}
  PROVE  LogInv'
<1>1. day \in Nat \ {0} /\ loggedAt \in [1..MaxRuns -> Nat] /\ LogRetention \in Int
  BY StoreAssumption DEF LogInv, RunTypeInv
<1>2. RunTypeInv' /\ RowsInv'
  BY <1>1 DEF LogInv, RunTypeInv, RowsInv
<1>3. HistoryInv'
  BY <1>1 DEF LogInv, HistoryInv, Pending
<1>4. RetentionInv'
  BY <1>1 DEF LogInv, RetentionInv, HasRow
<1>. QED
  BY <1>2, <1>3, <1>4 DEF LogInv

\* A purge starts.
LEMMA LogStart == ASSUME LogInv, StartPurge PROVE LogInv'
<1>1. /\ recorder = "idle" /\ recorder' = "purge" /\ started < MaxRuns /\ started' = started + 1
      /\ UNCHANGED <<purgeRuns, day, loggedAt, unlogged>>
  BY DEF StartPurge, history
<1>2. started \in Nat /\ MaxRuns \in Nat
  BY StoreAssumption DEF LogInv, RunTypeInv
<1>3. RunTypeInv'
  BY <1>1, <1>2 DEF LogInv, RunTypeInv
<1>4. \A n \in 1..MaxRuns : Pending(n)' <=> Pending(n)
  BY <1>1, <1>2 DEF Pending
<1>5. HistoryInv'
  BY <1>1, <1>4 DEF LogInv, HistoryInv
<1>6. RowsInv' /\ RetentionInv'
  BY <1>1, <1>2 DEF LogInv, RowsInv, RetentionInv, HasRow
<1>. QED
  BY <1>3, <1>5, <1>6 DEF LogInv

\* A purge ends without a row, by an error or a kill.
LEMMA LogLost ==
  ASSUME LogInv, recorder = "purge", recorder' = "idle", unlogged' = unlogged \cup {started},
         UNCHANGED <<purgeRuns, started, day, loggedAt>>
  PROVE  LogInv'
<1>1. started \in 1..MaxRuns /\ MaxRuns \in Nat
  BY StoreAssumption DEF LogInv, RunTypeInv
<1>2. RunTypeInv'
  BY <1>1 DEF LogInv, RunTypeInv
<1>3. \A n \in 1..MaxRuns : Pending(n)' <=> Pending(n) /\ n # started
  BY <1>1 DEF Pending
<1>4. loggedAt[started] = 0
  BY <1>1 DEF LogInv, HistoryInv, Pending
<1>5. HistoryInv'
  BY <1>1, <1>3, <1>4 DEF LogInv, HistoryInv
<1>6. RowsInv' /\ RetentionInv'
  BY DEF LogInv, RowsInv, RetentionInv, HasRow
<1>. QED
  BY <1>2, <1>5, <1>6 DEF LogInv

\* The recorder becomes idle and has nothing to lose.
LEMMA LogIdle ==
  ASSUME LogInv, recorder # "purge", recorder' = "idle",
         UNCHANGED <<purgeRuns, started, day, loggedAt, unlogged>>
  PROVE  LogInv'
BY DEF LogInv, RunTypeInv, HistoryInv, RowsInv, RetentionInv, HasRow, Pending

\* The result of a purge is inserted.
LEMMA LogInsert == ASSUME LogInv, InsertRun PROVE LogInv'
<1>. DEFINE row == [id |-> purgeRuns.last + 1, what |-> started, created |-> day]
<1>1. /\ recorder = "purge"
      /\ purgeRuns' = [rows |-> purgeRuns.rows \cup {row}, last |-> purgeRuns.last + 1]
      /\ loggedAt' = [loggedAt EXCEPT ![started] = day]
      /\ recorder' = IF LogRetention <= 0 THEN "idle" ELSE "prune"
      /\ UNCHANGED <<started, day, unlogged>>
  BY DEF InsertRun, Inserted
<1>2. /\ started \in 1..MaxRuns /\ MaxRuns \in Nat /\ LogRetention \in Int /\ day \in Nat \ {0}
      /\ purgeRuns \in [rows : SUBSET RunRow, last : Nat] /\ IsFiniteSet(purgeRuns.rows)
      /\ loggedAt \in [1..MaxRuns -> Nat]
  BY <1>1, StoreAssumption DEF LogInv, RunTypeInv
<1>3. row \in RunRow /\ row.id = purgeRuns.last + 1 /\ row.what = started /\ row.created = day
  BY <1>2 DEF RunRow
<1>4. purgeRuns'.rows = purgeRuns.rows \cup {row} /\ purgeRuns'.last = purgeRuns.last + 1
  BY <1>1
<1>. HIDE DEF row
<1>5. \A n \in 1..MaxRuns : loggedAt'[n] = IF n = started THEN day ELSE loggedAt[n]
  BY <1>1, <1>2
<1>6. RunTypeInv'
  <2>1. IsFiniteSet(purgeRuns.rows \cup {row})
    BY <1>2, FS_AddElement
  <2>2. purgeRuns' \in [rows : SUBSET RunRow, last : Nat]
    BY <1>1, <1>2, <1>3
  <2>3. loggedAt' \in [1..MaxRuns -> Nat]
    BY <1>1, <1>2
  <2>. QED
    BY <1>1, <1>2, <1>4, <2>1, <2>2, <2>3 DEF LogInv, RunTypeInv
<1>7. \A n \in 1..MaxRuns : Pending(n)' <=> Pending(n) /\ n # started
  BY <1>1, <1>2 DEF Pending
<1>8. loggedAt[started] = 0 /\ started \notin unlogged
  BY <1>1, <1>2 DEF LogInv, HistoryInv, Pending
<1>9. \A n \in 1..MaxRuns : n > started => loggedAt[n] = 0
  BY <1>2 DEF LogInv, HistoryInv, Pending
<1>10. HistoryInv'
  <2>1. \A n \in 1..MaxRuns : /\ Pending(n) <=> loggedAt[n] = 0 /\ n \notin unlogged
                              /\ loggedAt[n] # 0 => loggedAt[n] <= day /\ n \notin unlogged
    BY DEF LogInv, HistoryInv
  <2>2. \A n \in 1..MaxRuns : /\ Pending(n)' <=> loggedAt'[n] = 0 /\ n \notin unlogged
                              /\ loggedAt'[n] # 0 => loggedAt'[n] <= day /\ n \notin unlogged
    BY <1>2, <1>5, <1>7, <1>8, <2>1
  <2>3. ASSUME NEW m \in 1..MaxRuns, NEW n \in 1..MaxRuns, m < n, loggedAt'[n] # 0
        PROVE  loggedAt'[m] <= loggedAt'[n]
    <3>1. CASE n = started
      BY <1>2, <1>5, <2>1, <2>3, <3>1
    <3>2. CASE n # started
      <4>1. n < started /\ m # started
        BY <1>2, <1>5, <1>9, <2>3, <3>2
      <4>. QED
        BY <1>5, <2>3, <3>2, <4>1 DEF LogInv, HistoryInv
    <3>. QED
      BY <3>1, <3>2
  <2>. QED
    BY <1>1, <2>2, <2>3 DEF HistoryInv
<1>11. \A x \in purgeRuns.rows : /\ x.id \in Nat /\ x.id <= purgeRuns.last /\ x.what \in 1..started
                                 /\ x.what < started
                                 /\ x.created = loggedAt[x.what] /\ x.created # 0
  <2>1. \A x \in purgeRuns.rows : /\ x.id \in Nat /\ x.id <= purgeRuns.last
                                  /\ x.what \in 1..started
                                  /\ x.created = loggedAt[x.what] /\ x.created # 0
    BY <1>2 DEF LogInv, RowsInv, RunRow
  <2>. QED
    BY <1>2, <1>8, <2>1
<1>12. RowsInv'
  <2>1. \A x \in purgeRuns'.rows : /\ x.id <= purgeRuns'.last /\ x.what \in 1..started'
                                   /\ x.created = loggedAt'[x.what] /\ x.created # 0
    BY <1>1, <1>2, <1>3, <1>4, <1>5, <1>11
  <2>2. ASSUME NEW x \in purgeRuns'.rows, NEW y \in purgeRuns'.rows
        PROVE  (x.id < y.id <=> x.what < y.what) /\ (x.what = y.what => x = y)
    <3>1. CASE x \in purgeRuns.rows /\ y \in purgeRuns.rows
      BY <3>1 DEF LogInv, RowsInv
    <3>2. CASE x = row \/ y = row
      BY <1>2, <1>3, <1>4, <1>11, <2>2, <3>2
    <3>. QED
      BY <1>4, <2>2, <3>1, <3>2
  <2>. QED
    BY <2>1, <2>2 DEF RowsInv
<1>13. RetentionInv'
  <2>1. SUFFICES ASSUME NEW n \in 1..MaxRuns, loggedAt'[n] # 0, ~HasRow(n)'
                 PROVE  /\ LogRetention > 0 /\ day' - loggedAt'[n] > LogRetention
                        /\ \A x \in purgeRuns'.rows : n < x.what
    BY DEF RetentionInv
  <2>2. n # started /\ ~HasRow(n)
    BY <1>3, <1>4, <2>1 DEF HasRow
  <2>3. loggedAt'[n] = loggedAt[n] /\ n < started
    BY <1>2, <1>5, <1>9, <2>1, <2>2
  <2>4. /\ LogRetention > 0 /\ day - loggedAt[n] > LogRetention
        /\ \A x \in purgeRuns.rows : n < x.what
    BY <2>1, <2>2, <2>3 DEF LogInv, RetentionInv
  <2>. QED
    BY <1>1, <1>3, <1>4, <2>3, <2>4
<1>. QED
  BY <1>6, <1>10, <1>12, <1>13 DEF LogInv

\* The retention deletes the oldest rows.
LEMMA LogPrune == ASSUME LogInv, PruneRuns PROVE LogInv'
<1>1. /\ recorder = "prune" /\ recorder' = "idle"
      /\ purgeRuns' = Pruned(purgeRuns, LogRetention)
      /\ UNCHANGED <<started, day, loggedAt, unlogged>>
  BY DEF PruneRuns, PruneRunsFor, history
<1>2. /\ MaxRuns \in Nat /\ LogRetention \in Int /\ LogRetention > 0 /\ day \in Nat
      /\ purgeRuns \in [rows : SUBSET RunRow, last : Nat] /\ IsFiniteSet(purgeRuns.rows)
      /\ loggedAt \in [1..MaxRuns -> Nat] /\ started \in 0..MaxRuns
  BY <1>1, StoreAssumption DEF LogInv, RunTypeInv
<1>3. /\ purgeRuns' \in [rows : SUBSET RunRow, last : Nat]
      /\ purgeRuns'.last = purgeRuns.last
      /\ purgeRuns'.rows = {x \in purgeRuns.rows : x.created >= day - LogRetention}
  BY <1>1, <1>2 DEF Pruned
<1>4. RunTypeInv'
  <2>1. IsFiniteSet(purgeRuns'.rows)
    BY <1>2, <1>3, FS_Subset
  <2>. QED
    BY <1>1, <1>3, <2>1 DEF LogInv, RunTypeInv
<1>5. HistoryInv'
  BY <1>1 DEF LogInv, HistoryInv, Pending
<1>6. RowsInv'
  BY <1>1, <1>3 DEF LogInv, RowsInv
<1>7. RetentionInv'
  <2>1. SUFFICES ASSUME NEW n \in 1..MaxRuns, loggedAt[n] # 0, ~HasRow(n)'
                 PROVE  /\ LogRetention > 0 /\ day - loggedAt[n] > LogRetention
                        /\ \A x \in purgeRuns'.rows : n < x.what
    BY <1>1 DEF RetentionInv
  <2>2. CASE ~HasRow(n)
    BY <1>3, <2>1, <2>2 DEF LogInv, RetentionInv
  <2>3. CASE HasRow(n)
    <3>1. PICK x \in purgeRuns.rows : x.what = n
      BY <2>3 DEF HasRow
    <3>2. loggedAt[n] < day - LogRetention
      <4>1. x.created = loggedAt[n] /\ loggedAt[n] \in Nat
        BY <1>2, <3>1 DEF LogInv, RowsInv
      <4>2. ~(x.created >= day - LogRetention)
        BY <1>3, <2>1, <3>1 DEF HasRow
      <4>. QED
        BY <1>2, <4>1, <4>2
    <3>3. ASSUME NEW y \in purgeRuns'.rows, ~(n < y.what) PROVE FALSE
      <4>1. /\ y \in purgeRuns.rows /\ y.created >= day - LogRetention
            /\ y.created = loggedAt[y.what] /\ y.what \in 1..started
        BY <1>3, <3>3 DEF LogInv, RowsInv
      <4>2. loggedAt[y.what] <= loggedAt[n]
        BY <1>2, <2>1, <3>3, <4>1 DEF LogInv, HistoryInv
      <4>. QED
        BY <1>2, <3>2, <4>1, <4>2
    <3>. QED
      BY <1>2, <3>2, <3>3
  <2>. QED
    BY <2>2, <2>3
<1>. QED
  BY <1>4, <1>5, <1>6, <1>7 DEF LogInv

\* Every step keeps the invariant.
LEMMA LogInvNext == LogInv /\ [EventNext]_evars => LogInv'
<1>1. SUFFICES ASSUME LogInv, [EventNext]_evars PROVE LogInv'
  OBVIOUS
<1>2. CASE Timeout \/ Tick \/ UNCHANGED evars \/ \E h \in Handlers : Post(h) \/ HandlerStep(h)
  <2>1. UNCHANGED <<recorder, purgeRuns, started, loggedAt, unlogged>> /\ day' \in {day, day + 1}
    BY <1>2 DEF Timeout, Tick, evars, history, Post, HandlerStep, DecodeFails, OpenDatabase, SkipOwn,
         InsertEvent, PruneEvents, DatabaseFails, DatabaseError, Answer, GoesOn
  <2>. QED
    BY <1>1, <2>1, LogTime
<1>3. CASE InsertRunFails
  BY <1>1, <1>3, LogLost DEF InsertRunFails
<1>4. CASE PruneRunsFails
  BY <1>1, <1>4, LogIdle DEF PruneRunsFails, history
<1>5. CASE Crash
  <2>1. CASE recorder = "purge"
    BY <1>1, <1>5, <2>1, LogLost DEF Crash
  <2>2. CASE recorder # "purge"
    BY <1>1, <1>5, <2>2, LogIdle DEF Crash
  <2>. QED
    BY <2>1, <2>2
<1>. QED
  BY <1>1, <1>2, <1>3, <1>4, <1>5, LogStart, LogInsert, LogPrune DEF EventNext, RecorderStep

\* A purge that has come to its end is in the log, once, for the days it is to
\* be kept, and the newest row is that of the latest purge; a kill or a database
\* error before the row is in leaves none.  The log's retention may be any number.
THEOREM RunsAreLogged == EventSpec => []RunLogged
<1>1. LogInv => RunLogged
  <2>1. SUFFICES ASSUME LogInv, NEW n \in 1..started
                 PROVE  LET rows == {x \in purgeRuns.rows : x.what = n} IN
                          \/ n \in unlogged /\ rows = {}
                          \/ n = started /\ recorder = "purge" /\ rows = {}
                          \/ /\ loggedAt[n] # 0
                             /\ \/ LogRetention > 0 /\ day - loggedAt[n] > LogRetention
                                \/ Cardinality(rows) = 1
                             /\ \A x \in GetPurgeRuns(1) : n <= x.what
    BY DEF RunLogged
  <2>. DEFINE rows == {x \in purgeRuns.rows : x.what = n}
  <2>2. n \in 1..MaxRuns /\ IsFiniteSet(purgeRuns.rows) /\ purgeRuns.rows \subseteq RunRow
    BY <2>1, StoreAssumption DEF LogInv, RunTypeInv
  <2>3. CASE loggedAt[n] = 0
    <3>1. rows = {}
      BY <2>1, <2>3 DEF LogInv, RowsInv
    <3>2. n \in unlogged \/ (n = started /\ recorder = "purge")
      BY <2>1, <2>2, <2>3 DEF LogInv, RunTypeInv, HistoryInv, Pending
    <3>. QED
      BY <3>1, <3>2
  <2>4. CASE loggedAt[n] # 0
    <3>1. HasRow(n) => Cardinality(rows) = 1
      <4>1. SUFFICES ASSUME HasRow(n) PROVE Cardinality(rows) = 1
        OBVIOUS
      <4>2. PICK x \in purgeRuns.rows : x.what = n
        BY <4>1 DEF HasRow
      <4>3. rows = {x}
        BY <2>1, <4>2 DEF LogInv, RowsInv
      <4>. QED
        BY <4>3, FS_Singleton
    <3>2. ~HasRow(n) => LogRetention > 0 /\ day - loggedAt[n] > LogRetention
      BY <2>1, <2>2, <2>4 DEF LogInv, RetentionInv
    <3>3. ASSUME NEW x \in GetPurgeRuns(1) PROVE n <= x.what
      <4>. DEFINE later == {y \in purgeRuns.rows : y.id > x.id}
      <4>1. x \in purgeRuns.rows /\ Cardinality(later) < 1
        BY <3>3 DEF GetPurgeRuns
      <4>2. later = {}
        <5>1. IsFiniteSet(later)
          BY <2>2, FS_Subset
        <5>. HIDE DEF later
        <5>2. Cardinality(later) = 0
          BY <4>1, <5>1, FS_CardinalityType
        <5>. QED
          BY <5>1, <5>2, FS_EmptySet
      <4>3. x.what \in Nat /\ n \in Nat
        BY <2>1, <2>2, <4>1 DEF RunRow
      <4>4. CASE HasRow(n)
        <5>1. PICK y \in purgeRuns.rows : y.what = n
          BY <4>4 DEF HasRow
        <5>2. y.id \in Nat /\ x.id \in Nat /\ ~(y.id > x.id)
          BY <2>2, <4>1, <4>2, <5>1 DEF RunRow
        <5>3. ~(x.what < y.what)
          BY <2>1, <4>1, <5>1, <5>2 DEF LogInv, RowsInv
        <5>. QED
          BY <4>3, <5>1, <5>3
      <4>5. CASE ~HasRow(n)
        BY <2>1, <2>2, <2>4, <4>1, <4>3, <4>5 DEF LogInv, RetentionInv
      <4>. QED
        BY <4>4, <4>5
    <3>. QED
      BY <2>4, <3>1, <3>2, <3>3
  <2>. QED
    BY <2>3, <2>4
<1>. QED
  BY <1>1, LogInvInit, LogInvNext, PTL DEF EventSpec
=============================================================================
