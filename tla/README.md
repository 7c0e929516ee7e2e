# A TLA+ verification of registry-ui

registry-ui is a web interface for a Docker registry. It keeps a cache of each
repository's tags, refreshes it in the background and on demand, deletes tags
for users, purges old tags by a retention rule on a cron schedule, receives the
registry's events into a database, and guards its login page with a limiter of
failed attempts.

This directory models the parts of it that keep state or decide what is
deleted, checks them with TLC on small instances, and proves the most important
facts with TLAPS for instances of every size. `PROJECT.json` is the index: it
maps every definition to the lines it models and lists runs, mutants, findings,
hazards and theorems. Paths below are relative to the repository's root.

## 1. Inventory

| Component (source) | State | Operations | What makes it correct |
|---|---|---|---|
| Tag cache (`registry/client.go`) | `tagsCache`, under `tagsCacheMux` | `FetchAndCacheTagsForRepo`, `ListTags`, `DeleteTag` | an entry is what one listing read, less what was deleted since; stale entries are repaired |
| Background tag refresh (`registry/client.go`) | position in the catalog | `RefreshTags` | every repository is fetched again and again |
| Catalog and background jobs (`registry/client.go`) | `repos`, `isCatalogReady`, no lock | `StartBackgroundJobs`, `RefreshCatalog`, `GetRepos` | a refresh misses nothing that stayed; the list becomes that of the registry, each name once |
| Web handlers (`web.go`) | none of their own | `viewCatalog`, `deleteTag`, ... | they reach the client only through its methods |
| Image dates (`registry/client.go`) | none | `GetImageInfo` | an image with a date anywhere has a date |
| Retention rule (`registry/tasks.go`) | the scanned lists | sort, age, filter, top-up | nothing protected or young goes; `keep_count` stay, and they are the newest |
| Purge task (`registry/tasks.go`, `main.go`) | locals and the result of a run | `RunPurgeOldTags` | it removes from the live registry only what it decided on, accounts for it, and ends |
| Cron and scheduler (`registry/scheduler.go`) | `nextRun`, the flag `running` | `ParseCronSchedule`, `Next`, `StartPurgeScheduler` | purges are due on schedule, none is lost or doubled |
| Event store (`events/event_listener.go`) | tables of events and purge runs | `ProcessEvents`, `RecordPurgeRun`, queries, retention | what is acknowledged or has ended is stored and stays for its days; the registry's queue drains |
| Login limiter (`auth.go`) | `loginAttempts`, under `loginMu` | `checkRateLimit`, `recordFailure`, `clearAttempts` | failures let through are bounded; lockouts end |
| Sessions and permissions (`auth.go`, `web.go`) | none (signed cookie) | validation per request | - |
| Statistics and catalog pages (`registry/client.go`, `web.go`) | none (they read the list and the cache) | counts per level of the tree | the counts add up from page to page |
| Rendering, routing, logging, configuration | none | - | - |

How they interact. Handlers, `RefreshTags` and the purge are goroutines that call
one `registry.Client`. They share `tagsCache`, whose mutex is held only while the
map is read or written: never during a request to the registry. The registry is
a second shared state, which other programs change at any time. The scheduler
calls the purge on its own goroutine. A purge without an include list refreshes
the catalog first, on the same client and with no lock, while the background job
does the same. After a run `main.go` hands the result to the event store, into
which the handlers of the registry's notifications write at the same time. The
limiter is called by every login request.

What is hard in it. Nothing that spans two requests to the registry is atomic:
a listing is read page by page, a deletion resolves a tag first and deletes a
digest later, and a purge decides on data that it read long before. Any request
can fail, or take effect and lose its answer. The limiter's check and its count
are two critical sections with the comparison of credentials in between. The
catalog is a slice that two goroutines append to, replace and read without a
lock. The registry repeats a notification that was not answered in time although
its handler still runs, and the process can be killed between any two rows.
`PROJECT.json` lists the hazards at the lines where they arise, with the
properties that would catch them.

## 2. Modules

| Module | Models | Extends |
|---|---|---|
| `SharedClient` | what both sides of the client have in common: the repositories, the purge's goroutine | |
| `RegistryClient` | the client's tag operations, handlers, `RefreshTags`, the external registry | `SharedClient` |
| `CacheHistory` | the same, with history variables that record what was true while a listing ran | `RegistryClient` |
| `ImageInfo` | the creation date that `GetImageInfo` finds | |
| `Retention` | the sort order, the age in days, the filter and the top-up | |
| `RetentionScan` | the rule on a list that the scan loop builds up | `Retention` |
| `Purge` | `RunPurgeOldTags`, composed with the client and the registry | `RegistryClient`, `ImageInfo`, `Retention` |
| `PurgeContract` | what a purge promises, abstractly | |
| `PurgeRefinement` | the mapping from `Purge` to the contract | `Purge` |
| `Catalog` | `RefreshCatalog` by two goroutines, `StartBackgroundJobs`, `RefreshTags` over the result | `SharedClient` |
| `CatalogPages` | what the catalog and statistics pages count | `Catalog` |
| `CatalogPurge` | the purge working on the catalog that it refreshes | `Purge`, `Catalog` |
| `EventStore` | `ProcessEvents`, `RecordPurgeRun`, retention and queries | |
| `Cron` | cron fields, parsing and matching | |
| `Scheduler` | `Next` and the scheduler's goroutine | `Cron` |
| `LoginLimiter` | the limiter and `loginHandler`'s POST path | |
| `MCCache`, `MCRetention`, `MCPurge`, `MCCatalog`, `MCCatalogPurge`, `MCEvents`, `MCScheduler` | instances for TLC | |
| `ClientProofs`, `CacheProofs`, `LoginProofs`, `SchedulerProofs`, `EventProofs` | theorems | the module each is about |
| `RetentionProofs` | theorems on the rule | `RetentionScan` |
| `CatalogProofs` | theorems on refreshes and on the pages' counts | `CatalogPages` |
| `PurgeProofs` | theorems on the purge, the contract and the scheduled purge | `PurgeRefinement`, `CatalogPurge`, `ClientProofs`, `RetentionProofs`, `CatalogProofs` |

Definitions whose comment begins with "Fault:" are deliberate errors, each the
counterpart of the definition below it. No specification uses them; they show
that a property would notice such an error.

### The registry and the client (`RegistryClient`)

The registry is external and modelled from the client's use of it: `tagRef`
(the digest each tag points to), `manifests`, and `pushed`, the manifests a
repository has ever had. `Push` is any other client. `RemoveManifest` deletes a
manifest with all tags that point to it, as the comment at
`registry/client.go:476` warns.

A goroutine's current call is a frame, `call[p]`. A method makes one step per
request and one per critical section:

* `FetchAndCacheTagsForRepo`: `ListPage` (any number of times, page ends chosen
  by the registry), `ListLastPage` or `ListFail`, then `StoreTags`;
* `DeleteTag`: `ResolveTag` or `ResolveFail`; `DeleteManifest`,
  `DeleteAnswerLost` (done, but the client sees an error) or `DeleteFail`; then
  `Uncache`.

`ViewOnline` and `ViewCached` are `ListTags` as called by `viewCatalog`:
`RefreshesOnline` is its condition. The number of tags is read and acted on in
one step because no request lies between. `RefreshCycle`, `RefreshRepo` and
`RefreshedRepo` are the loop of `RefreshTags`; its sleep is the time that may
pass before the next `RefreshCycle`.

The order of tags and repositories is that of their numbers. This is all that
pagination and the purge's loops need of their names. `Retagging` says whether
one image may ever get two tags in one repository. With `Retagging = FALSE`
every push is of a new manifest.

### The purge (`Purge`, `Retention`, `ImageInfo`)

The goroutine `Purger` drives the same frames as the other goroutines.
`RefusePurge` is the early return when the keep file cannot be read.
`FetchRepo`/`FetchedRepo`, `ScanTag`/`ScanFail` and `ScannedRepo` are the scan
loop: a repository without tags is skipped, also when its list is empty because
the fetch failed; a tag without a date is skipped; an error clears
`result.Success`. `FilterTags` applies the rule to all repositories.
`PurgeTag`/`PurgedTag` are the delete loop in the code's order, and
`RecordPurge` ends the run, after which another can start.

In `Retention` a scanned list is a sequence in which a tag may occur more than
once, as it may in the code's slice, and the purge set is a set of positions.
`Before` is the order that `sort.Sort` establishes; ties are broken by the
position, one of the orders an unstable sort can choose, which matters only for
entries equal in date and name. Ages are hours, and a day is 24 of them,
because the code truncates `Hours() / 24`. The keep list from the file is looked
up with the name as a gjson path, hence `DottedRepos`.

`RetentionScan` appends dated tags to one list, as the scan loop does, so that
what the rule promises is an invariant over every list. `MCRetention` adds the
filter written as the code's list program, for comparison.

### The contract (`PurgeContract`, `PurgeRefinement`)

The contract has two variables, the tags of each repository and the plan. A
purge decides on a plan in one step (`Decide`): no protected tag is on it, and
`keep_count` tags are not. Then each tag is taken or given up, until the plan is
empty (`PlanDrains`). The mapping takes the tags from the registry and the plan
from the positions still to delete, less the one in hand once its deletion took
effect or failed: a deletion whose answer is lost is a `Take` although the run
reports an error. A second run can only decide when the plan is empty. The
liveness part is stated as leads-to, since TLC cannot evaluate `ENABLED` of an
action whose variables are replaced by expressions.

### The catalog (`Catalog`, `CatalogPages`, `CatalogPurge`)

`job[p]` is the frame of `RefreshCatalog` in goroutine `p`: the background job or
the purge. A page is a request of its own (`FetchPage`; the first one belongs to
`Catalogger`, and its failure ends the process unless the catalog is ready).
`HandlePage` adds the page to the local list and, before the catalog is ready,
computes the append to the shared one, which `StoreAppend` stores; `EndOfPages`
and `Publish` replace the shared list unless the local one is empty; `MarkReady`
is the last statement. A page that fails ends the loop, with the rest of the
catalog missing.

`repos` is a Go slice without a lock, so two goroutines race on it. `Mixed` gives
the outcomes: the length of one value and in each place the name some value has
there. That covers appends into one array and loads and stores whose pointer and
length come from different values. Reading past the end of an array, which would
give names no registry has or stop the process, is left out.

`TagsCycle` and `TagsFetch` are `RefreshTags` with a fetch as one step (its steps
are in `RegistryClient`); `cached` is the set of repositories with an entry in
`tagsCache`. Everything is in memory: `Crash` and the exit in `FirstFails` lose
it, and `Restart` starts from nothing.

`CatalogPages` treats a repository's name as a path. A page is computed in one
step from the list and the cache of the moment. In the code a page may mix the
cache before and after a fetch, as the lock is released between its entries. A
sum of tag counts is `SumOver`, the number of units that the counts stand for,
since sums by recursion are beyond the prover.

`CatalogPurge` puts a run of the purge after its own refresh: `BeginRun`, the steps
of `RefreshCatalog`, and `WorkOnCatalog`, which reads the list. It conjoins the
actions of `Purge` and `Catalog`, whose variables are disjoint; the registry's
set of repositories stays as it is. When the first request of the first refresh
fails, the process exits and the model stops.

### The event store (`EventStore`)

The registry is external: it posts a batch, waits, and posts the same batch again
after a timeout or a broken connection (`README.md:68` configures it so). It does
not go on before a batch is answered. A handler makes one step per row. Every way
out of `ProcessEvents` is answered with 200: an error is logged and the function
returns; a nil statement or result panics, and `recoverMiddleware` swallows it.
`DatabaseFails` is all of these; what is left of the batch is then `dropped`. A
body that does not decode is one whose connection broke (`DecodeFails`).

The purge's goroutine is `recorder`: at `"purge"` from the start of a run to its
row. `Crash` loses handlers and the run under way, not the tables. Rows are
inserted in one transaction each. `created` is the database's clock; days are
its unit here. Of the queries only that of `GetPurgeRuns` is modelled.

### The scheduler (`Cron`, `Scheduler`)

An expression is a sequence of tokens for each field, the result of splitting
the text at blanks and commas. `ExpandCronToken` is `expandCronToken` with the
empty set for an error (the code returns at least one value otherwise). The
clock counts ticks, several to a minute, so that `Next`'s truncation to minutes
is visible. `Calendar` maps minutes to what the wall clock shows and is
arbitrary, but the clock itself never goes back. `Fire` keeps the branch for a flag that is set although it cannot be
reached: `run()` is called on the goroutine that tests the flag.

### The limiter (`LoginLimiter`)

Each function locks `loginMu` and is one step; a request is `Refuse`d or
`Admit`ted by `checkRateLimit`, then `Accept`ed or `Reject`ed, and after a
failure `Report` calls `checkRateLimit` a second time, which may drop the entry.
The age of an entry is the time since its last failure, up to one past the lockout.

## 3. Runs

| Run | Instance | What it shows |
|---|---|---|
| `cache` | one repository, 2 tags, 2 digests, a handler, the refresh, free retagging | `ListingRegular`: a paged listing misses no tag that stayed and invents none. `CacheRegular`: an entry is one listing's result less deleted tags. `CacheConverges`: once the registry rests, the cache becomes and stays right |
| `retention` | every list of up to 4 entries over 4 names and 4 hours | the rule agrees with the code's list program in content and order; it keeps exactly what it must, the newest first; a second run purges nothing, in whatever order it scans what was kept |
| `purge` | one repository, 3 tags, 4 manifests (two expired, one fresh, one index), `keep_count` 1, one protected tag, images tagged once | only candidates go, and none in a dry run; protected tags and `keep_count` survive; a finished run accounts for each candidate; every run ends; `ImplementsContract`: the whole implements `PurgeContract` |
| `login` | 3 concurrent requests, 2 addresses, limit 2 | at most `max_attempts` (`config.yml:108`) plus the other requests in flight fail; every lockout ends |
| `scheduler` | 92 expressions and the empty one on a small calendar | accepted fields are within range; purges are due on schedule; no due minute is skipped while the scheduler sleeps; no minute is scheduled twice |
| `catalog` | 2 repositories, both jobs refreshing for ever, one change of the registry, one failure or kill | `RefreshComplete`: a refresh without a failure has every repository that stayed, once. `TwiceOnlyByOverlap`: only refreshes that overlap double the list. `CountsAddUp`: counts agree from page to page, for four ways to nest the names. `CatalogConverges`: list and cache become right and stay so |
| `events` | batches of 3 and 1 events, 2 handlers, 2 purges, 3 days, two faults of any kind | `EventKept`: what is acknowledged is stored and stays in the table for its days, but for database errors. `RunLogged`: a purge that has ended is logged once and stays, but for kills and errors. `OutboxDrains`: no batch is posted for ever |
| `purge_alias` | `purge` with `Retagging = TRUE` | violated: see finding 1 |
| `purge_repush` | `purge` | violated: see finding 2 |
| `purge_dotted` | `purge`, a dot in the repository's name, a tag in the keep file | violated: see finding 3 |
| `purge_catalog_race` | `CatalogPurge`, one repository, 2 tags, `keep_count` 1 | violated: see finding 4 |
| `scheduler_leap` | an expression for the leap day | violated: see finding 5 |

Bounds, and why they are enough:

* `cache`: repositories share nothing but the catalog, so one shows all the
  interleavings on an entry. Two tags give two pages and an alias; two digests
  give a tag that moves. Two goroutines suffice for a store overtaken by another
  store or a delete. `OnlineMaxCount = 1` makes a handler use both paths of
  `ListTags`. The theorems about this module have no bounds.
* `retention`: with `keep_count` 2, four entries allow none, one or two to be
  topped up and some to be purged, with and without equal dates and names. The
  hours lie just before and just after the limit of `keep_days + 1` days, far
  before it, and in the future.
* `purge`: every manifest is pushed at most once, which bounds a run's
  interference. Three tags leave room for a candidate, a protected tag and one
  that is pushed in between. There are no handlers: a user's deletion during a
  run can undershoot `keep_count`, which is not the purge's doing. The theorems
  allow them, but for deletions in those on `keep_count` and the contract.
* `catalog`: pages have one name each, so two repositories give two pages with
  everything possible in between. One change makes a page miss or repeat a name
  if anything can; one fault makes a list partial or loses everything. Two
  refreshes at once are all there can be: the scheduler never runs two purges.
* `events`: two rows in a batch let it fail between them. Two handlers are a
  given-up one and its successor. Two faults allow a timeout and a kill, an error
  and a timeout, and so on. With a retention of one day, three days let rows of
  both tables expire; the second batch, of which nothing is stored, runs the
  retention on the rows of the first.
* `scheduler`: the calendar has 2 minutes an hour, 2 hours a day, a week of 7
  days, and years of two months of four days; the third year has one day more.
  The horizon is the longest year, as the code's 366 days are. `LastTick` lets
  the clock run a little more than a year. `MCExpressions` are those that match
  every year; `scheduler_leap` takes one that does not.
* `login`: three requests can pass the check together, one more than the limit.

The clock's end in the two scheduler runs is a bound and not a deadlock, and so
is the longest list of `retention` and the end of the registry's queue in
`events`; these runs do not check for deadlock. All others do.

Fairness. `cache`: a goroutine in a call goes on, since every request is answered
or fails; `RefreshTags` is an endless loop; and a listing that is tried
for ever succeeds at some time (strong fairness on its last page), which means
only that the registry is not down for good. `CacheConverges` speaks of
behaviours in which the registry stops changing; nothing forces it to. It needs
the refresh (`AsyncRefresh = TRUE`): without it an entry is repaired only when
somebody opens the page. `purge`: a run that has started goes on, and its calls
return with a result or an error; no request has to succeed. `login`: time
passes; no request has to arrive or finish. `catalog`: the two background jobs are
endless loops whose requests are answered or fail, and a stopped process is
started again, as a container is; a purge may start at any time or never. That
failures and changes cease is their bound, and what `CatalogConverges` is about.
`events`: the registry goes on posting and handlers go on; an error is an answer
too. The scheduler has no liveness property.

## 4. Findings

Each is a run whose property TLC refutes.

1. `purge_alias`: an expired tag and a protected one point to the same image.
   The purge deletes the manifest, and the protected tag disappears although
   `keep_regexp` is to keep it "no matter how old" (`config.yml:91`).
2. `purge_repush`: a tag that is pushed again between the scan and its deletion
   is resolved again by `DeleteTag`, and the new image is deleted.
3. `purge_dotted`: gjson takes the dot in a repository's name for a path
   separator, so the tags that the keep file lists for it are purged.
4. `purge_catalog_race`: before the catalog is ready, `RefreshCatalog` also
   appends each page to the shared list. A scheduled purge that starts during the
   first refresh does the same, and then may read a list that names a repository
   twice. The repository is scanned twice into one list, each tag counts twice,
   and fewer than `keep_count` are left. `-purge-include-repos a,a` does it
   without a race.
5. `scheduler_leap`: without a match within 366 days `Next` returns a minute
   from now, and the purge runs every minute.

## 5. Proofs

Constants are arbitrary but for the named assumptions in the modules.

* `ClientProofs!TypeCorrect`: `Spec => []TypeOK`. `TypeOK` is inductive.
* `CacheProofs!ListingsAreRegular`, `CacheIsRegular`: over any number of
  repositories, tags and goroutines. The inductive invariant `HInv` adds to the
  two properties what holds in the middle of a listing (`ListingInv`): the pages
  read so far have every tag up to the marker that was there all along, and
  nothing that never was. Without it nothing would connect a half-read list
  with its window.
* `RetentionProofs!PurgesOnlyExpired`, `FilterKeepsEnough`, `FilterKeepsNoMore`,
  `FilterKeepsNewest`: for every scanned list. The last three rest on the fact
  that `Before` orders the positions strictly and totally, so that the number of
  predecessors is a rank without ties: those with fewer than n predecessors
  number n, when there are as many. `RetentionIsExact` and
  `RetentionKeepsNewest` state them as invariants of `ScanSpec`.
* `RetentionProofs!FilterIsStable` and, as an invariant, `RetentionDoesNotErode`: a
  second run over what was kept, in any order, purges nothing. When nothing was
  taken from the purge list, no kept tag is expired. Otherwise the kept tags are
  the unexpired ones and `take` expired ones, which add up to at most
  `keep_count`; so the second run takes from its purge list at least as many as
  are on it, and every rank is below that (`RankBelowAged`, `FewTopRanks`).
* `PurgeProofs!PurgeTypeCorrect`, by `PurgeInv`: types, the names on the scanned
  lists, what can be left to delete at which stage, and where the run is when it
  is inside a call. The last part is needed because the purge's frame is moved
  by the client's actions, which know nothing of stages.
* `PurgeProofs!PurgeTakesCandidates`: under `~Retagging`, a purge removes only its
  candidates, with any number of handlers and pushes. `RegistryInv` is needed
  for it: tags have distinct images (`NoAliases`), and a digest that a goroutine
  has resolved belongs to no tag but the one it asked for, now and later, since
  a manifest that was pushed once is not pushed again.
* `PurgeProofs!ProtectedTagsAreSafe`: under `~Retagging`, with a keep file, and
  `DottedRepos = {}`, protected tags survive. `DecidedInv` says that decisions
  respect the keep lists. Findings 1 and 3 show that two of the assumptions
  cannot be dropped; without a keep file, `KeepFileTags` has no meaning.
* `PurgeProofs!RunsAccount`, with no assumption. `AccountInv` says it for every
  moment of a run: what is deleted, has failed and is left make up what was
  decided, each name in one of them only, and `result.Success` falls with the
  first failure.
* `PurgeProofs!KeepCountPerRepository`, under `~Retagging`, for finitely many tags
  and behaviours in which no user deletes tags meanwhile (`NoUserDeletes`): a
  repository whose tags a run has counted once each (`CountedOnce`) is not taken
  below `keep_count`, whatever list the run works on. The invariant `CountInv`
  adds to the ones above: nobody but the purge is inside `DeleteTag`
  (`OthersInv`); what was scanned and not decided on is still in the registry
  (`KeptInv`); the decision is the rule's (`RuleInv`); and the call under way is
  for the first candidate left (`AimInv`). The step is then the counting lemma of
  `RetentionProofs` applied to a list decided on long ago.
* `PurgeProofs!KeepCountIsKept` and `PurgeImplementsContract`, for the same
  behaviours when, besides, every run starts on a list that names no repository
  twice (`ListsNameOnce`). Finding 4 shows that this cannot be dropped, and
  finding 1 that `~Retagging` cannot. The race of finding 4 and a repeated name in
  `-purge-include-repos` break `ListsNameOnce`. `RunInv` adds to `CountInv` that
  every repository is scanned once, and so each of its tags (`ScanInv`). The steps
  (`ContractSteps`) follow with the mapping `TagsNow`, `PlanNow`: `FilterTags` is
  `Decide`, the deletion of the manifest is `Take`, a failed call is
  `GiveUp`, and all else but pushes stutters.
* `PurgeProofs!ScheduledPurgeIsAPurge`: `CatalogPurgeSpec` implements `PurgeSpec` when
  `Catalogs` has every sequence of repositories. A step of the composition is a
  step of the purge, of the catalog or of both (`PurgePart`, `CatalogPart`); that
  the list read by `WorkOnCatalog` is one of repositories is what `CatalogInv`
  gives, races included. So the theorems above hold of the scheduled purge.
* `PurgeProofs!ScheduledPurgeKeepsCount`: `keep_count` and the contract's steps for
  the scheduled purge, with the catalog's behaviour in place of `ListsNameOnce`:
  no refresh starts while another one is under way (`NoOverlap`). It assumes
  `ExcludeRepos = {}`, since the scheduler passes no list to exclude
  (`main.go:72`). `NoOverlap` is not what the code guarantees: it is what finding 4
  lacks, and the theorem says that nothing else is lacking.
* `LoginProofs!FailuresAreBounded`, for `MaxAttempts > 0` (the code switches the
  limiter off otherwise). The property is not inductive: the invariant
  `InFlightBounded` counts, for each address, the recorded failures together
  with the requests that are admitted and still undecided.
* `SchedulerProofs!AcceptedFieldsInRange`, `SleepsOverNoMinute`, `NoMinuteTwice`
  for every set of expressions, any calendar and horizon; `RunsAreOnSchedule` for
  expressions that match somewhere in every stretch of `Horizon` minutes, which
  is what finding 5 lacks. The lemma `NextReturns` says what the loop of `Next`
  computes; `SchedulerInv` ties the schedule to the accepted expression and
  `nextRun` to the moment it was planned.
* `EventProofs!EventsAreKept`, by `StoreInv`: the row stored last for an event is in
  the table until its days are over, and the handler that the registry
  waits for still has whatever is missing of the batch (`AwaitedInv`). Handlers
  that were given up may store rows later; they only add. `RunsAreLogged`, by
  `LogInv`: rows are in the order of the runs, one for each. Both for any number
  of batches, handlers, days, timeouts, errors and kills.
* `CatalogProofs!RefreshesAreComplete`, `TwiceNeedsOverlap`, by `CatalogInv`: the
  local list ascends and its last name is the marker (`InOrder`); every
  repository that stayed is in it, on the page in hand or past the marker
  (`Reaches`); and while a refresh is alone, the shared list is its local one less
  the page about to be stored (`AloneInv`). For any number of repositories,
  changes, faults and restarts, with pages of one name as in the model.
* `CatalogProofs!SoloRefreshesListOnce`: under `NoOverlap`, whatever list a purge may
  get from `GetRepos` after its refresh names each repository once. `SoloInv` says
  that whichever refresh is under way is alone, and that the shared list is in the
  registry's order; a read then has no store to mix with (`SoloReads`). This is
  more than `TwiceOnlyByOverlap`, which only tells whose store doubles the list.
* `CatalogProofs!CountsAgree`: `CountsAddUp` for every way to nest the names and any
  tag counts, in every reachable state. A sum is the cardinality of a set of
  units, so that no induction is needed: the units of a union of disjoint parts
  correspond one to one to the units of the parts' sums (`SumOfParts`). The parts
  are the repositories below each entry of a page. They are disjoint because
  two prefixes of one path with the same length are equal. Finiteness comes from
  `CatalogInv`: the cache is within a finite list.

Only model-checked:

* the temporal properties `CacheConverges`, `PurgeTerminates`, `LockoutEnds`,
  `CatalogConverges`, `OutboxDrains`, and `PlanDrains`, the liveness half of
  `ImplementsContract`: liveness is beyond the prover;
* `AgreesWithListProgram`: it is about what sorting and selecting return for a
  sequence, which needs induction over data.

All other properties of the passing runs are theorems; of `ImplementsContract`,
the safety part.

## 6. Not modelled

* In `RegistryClient` the catalog is a constant (`Repos`), and in `Purge` an input
  (`Catalogs`); `Catalog` and `CatalogPurge` have it change. The full product of
  all three (every step of a fetch over a changing catalog) is too large for TLC
  and adds nothing: a fetch uses no more of the catalog than the name.
* `ImplementsContract` is for images tagged once and without users who delete
  meanwhile: such a user can take a tag that the plan relies on.
* Two processes: a purge of the command line beside the server's.
* Database errors after which the row is there nevertheless (a lost answer of
  MySQL) and its gaps in ids; a registry that sends a body that is no JSON.
* `GetEvents`: a repository's page shows the newest five rows of the repository and
  of all below it (`events/event_listener.go:195`), so five later rows take an
  event off the page long before its days are over. `EventKept` is about the table.
* `GetTopReposByTagCount`, `GetEventCount`, `GetJobInfo`: they sort, count and
  report what is modelled. `PrettySize`: see the hazards.
* `README.md:83` says to post events to `/ui/event-receiver` under a base path of
  `/ui`; `main.go:115` routes `/event-receiver` without the base path. Routing has
  no state and no module.
* The scheduler's stop channel: the program never closes it.
* `GetImageCreated` has no caller.
* `Calendar` may skip or repeat hours as a change to summer time does, but no run
  instantiates it so.
* Sizes of images, texts of errors, logging, rendering, sessions and
  permissions: no state that the properties speak of. A handler's permission
  check is that `RequestDelete` is for a user who may delete.

## 7. State of the plan

Done: the client and its history, retention, the purge and its contract, the
catalog with its pages and its composition with the purge, the event store, the
limiter, the scheduler, and the theorems above. What could follow is a model of
two processes that purge at once, for which the code has no protection and its
documents no promise.
