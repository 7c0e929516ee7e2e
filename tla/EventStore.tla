----------------------------- MODULE EventStore -----------------------------
(***************************************************************************)
(* The database of events and purge runs (events/event_listener.go), with  *)
(* its callers: the handler receiveEvents (web.go), any number of which    *)
(* run at once, and the purge's goroutine (main.go).  The Docker registry  *)
(* on the other side is external: it posts one batch of events at a time   *)
(* and posts it again until a post is answered.  The process may be killed *)
(* at any time; the tables survive.                                        *)
(***************************************************************************)
EXTENDS Integers, Sequences, FiniteSets

CONSTANTS
  Events,        \* events of the registry
  Own,           \* those caused by registry-ui itself
  Batches,       \* the batches of events the registry has to post
  Handlers,      \* the goroutines that run receiveEvents
  Nobody,        \* no handler
  EventDeletion, \* event_listener.deletion_enabled
  Retention,     \* event_listener.retention_days
  LogRetention,  \* purge_tags.log_retention_days
  MaxRuns,       \* bound: how many purges run
  MaxDay,        \* bound: how many days pass
  MaxFaults      \* bound: how many timeouts, database errors and kills

ASSUME StoreAssumption ==
  /\ Own \subseteq Events /\ Batches \in Seq(Seq(Events)) /\ Nobody \notin Handlers
  /\ EventDeletion \in BOOLEAN /\ Retention \in Nat /\ LogRetention \in Int
  /\ {MaxRuns, MaxDay, MaxFaults} \subseteq Nat

VARIABLES
  acked,       \* registry: how many batches have been answered
  awaited,     \* registry: the handler whose answer it waits for
  handler,     \* the frame of each receiveEvents
  recorder,    \* where the goroutine of the purge is
  events,      \* the table events
  purgeRuns,   \* the table purge_runs
  started,     \* how many purges have started
  day, faults, \* the clock, and how much of the bound is used
  storedAt,    \* history: when each event was last stored (0: never)
  dropped,     \* history: events whose batch was answered after an error
  loggedAt,    \* history: when each purge was logged (0: never)
  unlogged     \* history: purges that a kill or an error kept from the log

registry == <<acked, awaited>>
history == <<storedAt, dropped, loggedAt, unlogged>>
evars == <<registry, handler, recorder, events, purgeRuns, started, day, faults, history>>

Idle == [pc |-> "idle", todo |-> <<>>]

\* A table is its rows and the last id of its AUTOINCREMENT column.
EmptyTable == [rows |-> {}, last |-> 0]

Inserted(table, what) ==
  [rows |-> table.rows \cup {[id |-> table.last + 1, what |-> what, created |-> day]},
   last |-> table.last + 1]

\* Fault: the last day of the retention is cut off.
PrunedEarly(table, days) == [table EXCEPT !.rows = {x \in @ : x.created > day - days}]

\* DELETE ... WHERE created < DateTime('now', '-<days> day')
Pruned(table, days) == [table EXCEPT !.rows = {x \in @ : x.created >= day - days}]

\* SELECT ... ORDER BY id DESC LIMIT <limit>
GetPurgeRuns(limit) ==
  {x \in purgeRuns.rows : Cardinality({y \in purgeRuns.rows : y.id > x.id}) < limit}

EventInit ==
  /\ acked = 0 /\ awaited = Nobody
  /\ handler = [h \in Handlers |-> Idle]
  /\ recorder = "idle"
  /\ events = EmptyTable /\ purgeRuns = EmptyTable /\ started = 0
  /\ day = 1 /\ faults = 0
  /\ storedAt = [e \in Events |-> 0] /\ dropped = {}
  /\ loggedAt = [n \in 1..MaxRuns |-> 0] /\ unlogged = {}

-----------------------------------------------------------------------------
(***************************************************************************)
(* The registry's side.                                                    *)
(***************************************************************************)
Post(h) ==
  /\ awaited = Nobody /\ acked < Len(Batches) /\ handler[h].pc = "idle"
  /\ awaited' = h
  /\ handler' = [handler EXCEPT ![h] = [pc |-> "decode", todo |-> Batches[acked + 1]]]
  /\ UNCHANGED <<acked, recorder, events, purgeRuns, started, day, faults, history>>

\* The registry gives a post up; the handler does not notice.
Timeout ==
  /\ awaited # Nobody /\ faults < MaxFaults
  /\ awaited' = Nobody /\ faults' = faults + 1
  /\ UNCHANGED <<acked, handler, recorder, events, purgeRuns, started, day, history>>

(***************************************************************************)
(* ProcessEvents.                                                          *)
(***************************************************************************)

\* h goes on in the frame given; nobody else notices.
GoesOn(h, frame) ==
  /\ handler' = [handler EXCEPT ![h] = frame]
  /\ UNCHANGED <<registry, recorder, events, purgeRuns, started, day, faults, history>>

\* The request was given up before its body was read.
DecodeFails(h) ==
  /\ handler[h].pc = "decode" /\ awaited # h
  /\ GoesOn(h, Idle)

\* The body is decoded and getDatabaseHandler returns.
OpenDatabase(h) ==
  /\ handler[h].pc = "decode"
  /\ GoesOn(h, [handler[h] EXCEPT !.pc = "insert"])

\* Calls by registry-ui itself are not stored.
SkipOwn(h) ==
  /\ handler[h].pc = "insert" /\ handler[h].todo # <<>> /\ Head(handler[h].todo) \in Own
  /\ GoesOn(h, [handler[h] EXCEPT !.todo = Tail(@)])

InsertEvent(h) ==
  /\ handler[h].pc = "insert" /\ handler[h].todo # <<>>
  /\ LET e == Head(handler[h].todo) IN
       /\ e \notin Own
       /\ events' = Inserted(events, e)
       /\ storedAt' = [storedAt EXCEPT ![e] = day]
  /\ handler' = [handler EXCEPT ![h].todo = Tail(@)]
  /\ UNCHANGED <<registry, recorder, purgeRuns, started, day, faults, dropped, loggedAt, unlogged>>

\* Retention, once the batch is stored.
PruneEvents(h) ==
  /\ handler[h].pc = "insert" /\ handler[h].todo = <<>>
  /\ events' = IF EventDeletion THEN Pruned(events, Retention) ELSE events
  /\ handler' = [handler EXCEPT ![h].pc = "answer"]
  /\ UNCHANGED <<registry, recorder, purgeRuns, started, day, faults, history>>

DatabaseError(h, frame) ==
  /\ handler[h].pc \in {"decode", "insert"} /\ faults < MaxFaults
  /\ handler' = [handler EXCEPT ![h] = frame]
  /\ faults' = faults + 1
  /\ UNCHANGED <<registry, recorder, events, purgeRuns, started, day, history>>

\* Fault: the handler ends without an answer.
DatabaseFailsUnanswered(h) == DatabaseError(h, Idle)

\* The database cannot be opened, prepared, inserted into or pruned.
\* ProcessEvents returns, or panics on a nil statement or result and
\* recoverMiddleware catches it: the rest of the batch is skipped, and the
\* request is answered with 200 all the same.
DatabaseFails(h) == DatabaseError(h, [handler[h] EXCEPT !.pc = "answer"])

\* receiveEvents returns; the registry hears it if it still waits.
Answer(h) ==
  /\ handler[h].pc = "answer"
  /\ IF awaited = h
     THEN /\ acked' = acked + 1 /\ awaited' = Nobody
          /\ dropped' = dropped \cup {handler[h].todo[i] : i \in DOMAIN handler[h].todo}
     ELSE UNCHANGED <<registry, dropped>>
  /\ handler' = [handler EXCEPT ![h] = Idle]
  /\ UNCHANGED <<recorder, events, purgeRuns, started, day, faults, storedAt, loggedAt, unlogged>>

-----------------------------------------------------------------------------
(***************************************************************************)
(* RecordPurgeRun.                                                         *)
(***************************************************************************)
StartPurge ==
  /\ recorder = "idle" /\ started < MaxRuns
  /\ recorder' = "purge" /\ started' = started + 1
  /\ UNCHANGED <<registry, handler, events, purgeRuns, day, faults, history>>

\* PurgeOldTags returns, and its result is inserted.
InsertRun ==
  /\ recorder = "purge"
  /\ purgeRuns' = Inserted(purgeRuns, started)
  /\ loggedAt' = [loggedAt EXCEPT ![started] = day]
  /\ recorder' = IF LogRetention <= 0 THEN "idle" ELSE "prune"
  /\ UNCHANGED <<registry, handler, events, started, day, faults, storedAt, dropped, unlogged>>

\* The database fails: the error is logged, and the run is not.
InsertRunFails ==
  /\ recorder = "purge" /\ faults < MaxFaults
  /\ recorder' = "idle" /\ faults' = faults + 1
  /\ unlogged' = unlogged \cup {started}
  /\ UNCHANGED <<registry, handler, events, purgeRuns, started, day, storedAt, dropped, loggedAt>>

PruneRunsFor(days) ==
  /\ recorder = "prune"
  /\ purgeRuns' = Pruned(purgeRuns, days)
  /\ recorder' = "idle"
  /\ UNCHANGED <<registry, handler, events, started, day, faults, history>>

\* Fault: one day too early.
PruneRunsEarly == PruneRunsFor(LogRetention - 1)

PruneRuns == PruneRunsFor(LogRetention)

PruneRunsFails ==
  /\ recorder = "prune" /\ faults < MaxFaults
  /\ recorder' = "idle" /\ faults' = faults + 1
  /\ UNCHANGED <<registry, handler, events, purgeRuns, started, day, history>>

-----------------------------------------------------------------------------
Tick == /\ day < MaxDay /\ day' = day + 1
        /\ UNCHANGED <<registry, handler, recorder, events, purgeRuns, started, faults, history>>

\* The process is killed, and started again: connections break, and a purge
\* under way leaves no trace in the log.
Crash ==
  /\ faults < MaxFaults /\ faults' = faults + 1
  /\ awaited' = Nobody
  /\ handler' = [h \in Handlers |-> Idle]
  /\ recorder' = "idle"
  /\ unlogged' = IF recorder = "purge" THEN unlogged \cup {started} ELSE unlogged
  /\ UNCHANGED <<acked, events, purgeRuns, started, day, storedAt, dropped, loggedAt>>

HandlerStep(h) == \/ DecodeFails(h) \/ OpenDatabase(h) \/ SkipOwn(h) \/ InsertEvent(h)
                  \/ PruneEvents(h) \/ DatabaseFails(h) \/ Answer(h)

RecorderStep == InsertRun \/ InsertRunFails \/ PruneRuns \/ PruneRunsFails

EventNext ==
  \/ Timeout \/ StartPurge \/ Tick \/ Crash
  \/ \E h \in Handlers : Post(h) \/ HandlerStep(h)
  \/ RecorderStep

EventSpec == EventInit /\ [][EventNext]_evars

\* The registry goes on posting, handlers and purges go on.
EventFairness == /\ WF_evars(\E h \in Handlers : Post(h))
                 /\ \A h \in Handlers : WF_evars(HandlerStep(h))
                 /\ WF_evars(RecorderStep)

FairEventSpec == EventSpec /\ EventFairness

-----------------------------------------------------------------------------
(***************************************************************************)
(* Properties.                                                             *)
(***************************************************************************)
Acknowledged == UNION {{Batches[b][i] : i \in DOMAIN Batches[b]} : b \in 1..acked}

\* An event that the registry was told is received has been stored, and the
\* row that was stored last for it stays in the table for the days it is to be
\* kept (retention_days, counted from that row).  Neither posts that are
\* repeated while a given-up handler still runs, nor kills between two rows, nor
\* the retention of another handler lose it; only a database error behind an
\* answer of OK does.  Whether a page shows the row is another matter: a
\* repository's page has the newest five rows of the repository and of all
\* below it.
EventKept ==
  \A e \in Acknowledged \ (Own \cup dropped) :
    /\ storedAt[e] # 0
    /\ \/ EventDeletion /\ day - storedAt[e] > Retention
       \/ \E x \in events.rows : x.what = e /\ x.created = storedAt[e]

\* A purge that has come to its end is in the log, once, for the days it is to be
\* kept, and the latest one in the log is the one the statistics page names.
\* The exceptions are a kill before the row is in, which can be after the tags
\* are gone, and a database error; those leave no row.
RunLogged ==
  \A n \in 1..started :
    LET rows == {x \in purgeRuns.rows : x.what = n} IN
      \/ n \in unlogged /\ rows = {}
      \/ n = started /\ recorder = "purge" /\ rows = {}
      \/ /\ loggedAt[n] # 0
         /\ \/ LogRetention > 0 /\ day - loggedAt[n] > LogRetention
            \/ Cardinality(rows) = 1
         /\ \A x \in GetPurgeRuns(1) : n <= x.what

\* The registry's queue drains: a batch is not posted for ever, whatever fails.
OutboxDrains == <>(acked = Len(Batches))
=============================================================================
