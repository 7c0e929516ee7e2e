------------------------------- MODULE Catalog -------------------------------
(***************************************************************************)
(* The catalog of the registry client (registry/client.go): RefreshCatalog *)
(* as two goroutines run it on one Client, the background job and the      *)
(* purge, and RefreshTags, which walks over the result.  Client.repos and  *)
(* Client.isCatalogReady are shared without a lock.  The value of a store  *)
(* to repos is computed in one step and stored in another, so that stores  *)
(* overtake each other and readers race with them.                         *)
(***************************************************************************)
EXTENDS SharedClient, Integers, Sequences, FiniteSets

CONSTANTS
  Background,      \* the goroutine of StartBackgroundJobs
  CatalogInterval, \* performance.catalog_refresh_interval
  TagsInterval,    \* performance.tags_async_refresh_interval
  MaxChanges,      \* bound: how often a repository appears or disappears
  MaxFaults        \* bound: how many requests fail and processes are killed

ASSUME CatalogAssumption == /\ CatalogInterval \in Nat /\ TagsInterval \in Nat
                            /\ MaxChanges \in Nat /\ MaxFaults \in Nat

Jobs == {Background, Purger}

VARIABLES
  live,           \* registry: the repositories it has
  alive,          \* whether the process is running
  repos,          \* Client.repos
  isCatalogReady, \* Client.isCatalogReady
  job,            \* the frame of each goroutine's RefreshCatalog
  tagsStarted,    \* isStarted: RefreshTags is running
  walk,           \* the repositories RefreshTags has still to visit this time
  cached,         \* the repositories with an entry in tagsCache
  changes, faults \* how much of the bounds is used

client == <<repos, isCatalogReady, job, tagsStarted, walk, cached>>
tagsVars == <<tagsStarted, walk, cached>>
bounds == <<changes, faults>>
cvars == <<live, alive, client, changes, faults>>

(***************************************************************************)
(* A frame.  list is the local repos, page and more what the last request  *)
(* returned, value what is about to be stored.  Three fields are history:  *)
(* must, the repositories that have been there since the refresh began;    *)
(* failed, whether one of its requests failed; alone, whether no other     *)
(* refresh has run in the meantime.                                        *)
(***************************************************************************)
Idle == [pc |-> "idle", list |-> <<>>, last |-> 0, page |-> <<>>, more |-> FALSE,
         value |-> <<>>, must |-> {}, failed |-> FALSE, alone |-> TRUE]

CatalogInit ==
  /\ live \in SUBSET Repos
  /\ alive = TRUE
  /\ repos = <<>> /\ isCatalogReady = FALSE
  /\ job = [p \in Jobs |-> Idle]
  /\ tagsStarted = FALSE /\ walk = <<>> /\ cached = {}
  /\ changes = 0 /\ faults = 0

Listed(list) == {list[i] : i \in DOMAIN list}

(***************************************************************************)
(* Races on the slice repos.  Two appends may write to one array, and a    *)
(* store or a load that overlaps a store may get its pointer and its       *)
(* length from different values: what comes out has the length of one of   *)
(* the values and in each place the name that one of them has there.       *)
(* (Names past the end of an array, which no registry has, are left out.)  *)
(***************************************************************************)
Mixed(values, lengths) ==
  UNION {{m \in [1..n -> Repos] : \A i \in 1..n : \E v \in values : i <= Len(v) /\ m[i] = v[i]} :
           n \in lengths}

\* What the goroutines other than those in S are about to store.
Pending(S) == {job[q].value : q \in {q \in Jobs \ S : job[q].pc \in {"append", "publish"}}}

Lengths(values) == {Len(v) : v \in values}

\* What a reader of repos may get now.
Reads == LET values == Pending({}) \cup {repos}
         IN  IF values = {repos} THEN values ELSE Mixed(values, Lengths(values))

\* What repos may be after p stores its value.
Appended(p) == LET values == Pending({p}) \cup {job[p].value}
               IN  Mixed(values \cup {repos}, Lengths(values))
Published(p) == LET values == Pending({p}) \cup {job[p].value}
                IN  Mixed(values, Lengths(values))

-----------------------------------------------------------------------------
\* The first push to a repository creates it; an administrator removes one.
AddRepo(r) ==
  /\ changes < MaxChanges /\ r \notin live
  /\ live' = live \cup {r} /\ changes' = changes + 1
  /\ UNCHANGED <<alive, client, faults>>

RemoveRepo(r) ==
  /\ changes < MaxChanges /\ r \in live
  /\ live' = live \ {r} /\ changes' = changes + 1
  /\ job' = [p \in Jobs |-> [job[p] EXCEPT !.must = @ \ {r}]]
  /\ UNCHANGED <<alive, repos, isCatalogReady, tagsVars, faults>>

\* All the client knows is in memory.
Stop == /\ alive' = FALSE
        /\ repos' = <<>> /\ isCatalogReady' = FALSE
        /\ job' = [p \in Jobs |-> Idle]
        /\ tagsStarted' = FALSE /\ walk' = <<>> /\ cached' = {}

Crash == /\ alive /\ faults < MaxFaults
         /\ Stop
         /\ faults' = faults + 1
         /\ UNCHANGED <<live, changes>>

Restart == /\ ~alive /\ alive' = TRUE
           /\ UNCHANGED <<live, client, changes, faults>>

-----------------------------------------------------------------------------
(***************************************************************************)
(* RefreshCatalog.                                                         *)
(***************************************************************************)
StartRefresh(p) ==
  /\ alive /\ job[p].pc = "idle"
  /\ job' = [q \in Jobs |->
       IF q = p THEN [Idle EXCEPT !.pc = "first", !.must = live,
                                  !.alone = \A o \in Jobs \ {p} : job[o].pc \in {"idle", "stopped"}]
       ELSE [job[q] EXCEPT !.alone = FALSE]]
  /\ UNCHANGED <<live, alive, repos, isCatalogReady, tagsVars, bounds>>

\* p goes on in the frame given; nobody else notices.
Goes(p, frame) ==
  /\ job' = [job EXCEPT ![p] = frame]
  /\ UNCHANGED <<live, alive, repos, isCatalogReady, tagsVars, bounds>>

\* A request for a page, by Catalogger for the first one.  Pages have one name
\* each, so that everything else can happen between any two of them; the
\* answer says whether another page follows.
FetchPage(p) ==
  /\ job[p].pc \in {"first", "fetch"}
  /\ LET rest == {r \in live : r > job[p].last}
         page == {r \in rest : \A s \in rest : r <= s}
     IN  Goes(p, [job[p] EXCEPT
                    !.pc   = "page",
                    !.page = IF page = {} THEN <<>> ELSE <<CHOOSE r \in page : TRUE>>,
                    !.more = rest # page])

\* Catalogger fails: the process exits unless the catalog was ready before.
FirstFails(p) ==
  /\ job[p].pc = "first" /\ faults < MaxFaults
  /\ faults' = faults + 1
  /\ IF isCatalogReady
     THEN /\ job' = [job EXCEPT ![p] = [Idle EXCEPT !.pc = "back"]]
          /\ UNCHANGED <<alive, repos, isCatalogReady, tagsVars>>
     ELSE Stop
  /\ UNCHANGED <<live, changes>>

\* A later page fails: there is no next one, and what was read so far stands.
FetchFails(p) ==
  /\ job[p].pc = "fetch" /\ faults < MaxFaults
  /\ faults' = faults + 1
  /\ job' = [job EXCEPT ![p].pc = "end", ![p].failed = TRUE]
  /\ UNCHANGED <<live, alive, repos, isCatalogReady, tagsVars, changes>>

AfterPage(p) == IF job[p].more THEN "fetch" ELSE "end"

\* A page has been read; kept goes to the local list, and if shown, the page
\* to the shared one.
PageRead(p, kept, shown) ==
  /\ job[p].pc = "page"
  /\ Goes(p, [job[p] EXCEPT
       !.pc    = IF shown THEN "append" ELSE AfterPage(p),
       !.list  = @ \o kept,
       !.last  = IF job[p].page = <<>> THEN @ ELSE Head(job[p].page),
       !.value = IF shown THEN repos \o job[p].page ELSE <<>>])

\* Fault: the shared list grows in every refresh, not only in the first one.
HandlePageAlways(p) == PageRead(p, job[p].page, TRUE)

\* Fault: a page that is shown at once is not kept for the final list.
HandlePageOnce(p) ==
  PageRead(p, IF isCatalogReady THEN job[p].page ELSE <<>>, ~isCatalogReady)

\* The page goes to the local list and, until the catalog is ready, to the
\* shared one, too: c.repos is read here ...
HandlePage(p) == PageRead(p, job[p].page, ~isCatalogReady)

\* ... and stored here.
StoreAppend(p) ==
  /\ job[p].pc = "append"
  /\ repos' \in Appended(p)
  /\ job' = [job EXCEPT ![p].pc = AfterPage(p), ![p].value = <<>>]
  /\ UNCHANGED <<live, alive, isCatalogReady, tagsVars, bounds>>

\* A list that looks empty does not replace the previous one.
EndOfPages(p) ==
  /\ job[p].pc = "end"
  /\ Goes(p, [job[p] EXCEPT
       !.pc = IF job[p].list = <<>> THEN "mark" ELSE "publish",
       !.value = job[p].list, !.page = <<>>, !.last = 0])

Publish(p) ==
  /\ job[p].pc = "publish"
  /\ repos' \in Published(p)
  /\ job' = [job EXCEPT ![p] = [Idle EXCEPT !.pc = "mark"]]
  /\ UNCHANGED <<live, alive, isCatalogReady, tagsVars, bounds>>

MarkReady(p) ==
  /\ job[p].pc = "mark"
  /\ isCatalogReady' = TRUE
  /\ job' = [job EXCEPT ![p] = [Idle EXCEPT !.pc = "back"]]
  /\ UNCHANGED <<live, alive, repos, tagsVars, bounds>>

-----------------------------------------------------------------------------
(***************************************************************************)
(* The callers.                                                            *)
(***************************************************************************)

BackgroundBack(start) ==
  /\ job[Background].pc = "back"
  /\ tagsStarted' = (tagsStarted \/ start)
  /\ job' = [job EXCEPT ![Background] =
               [Idle EXCEPT !.pc = IF CatalogInterval = 0 THEN "stopped" ELSE "idle"]]
  /\ UNCHANGED <<live, alive, repos, isCatalogReady, walk, cached, bounds>>

\* Fault: the condition on the interval is inverted.
BackgroundReturnedIdle == BackgroundBack(TagsInterval = 0)

\* StartBackgroundJobs starts RefreshTags after the first refresh, however it
\* ended, and goes on to the next refresh, if there is to be one.
BackgroundReturned == BackgroundBack(TagsInterval > 0)

\* The purge gets the list to work on: what GetRepos returns now.
PurgeReturned ==
  /\ job[Purger].pc = "back"
  /\ Goes(Purger, Idle)

\* RefreshTags starts over with the list of the moment ...
TagsCycle ==
  /\ tagsStarted /\ walk = <<>>
  /\ walk' \in Reads
  /\ UNCHANGED <<live, alive, repos, isCatalogReady, job, tagsStarted, cached, bounds>>

\* ... and fetches the tags of one repository after the other; a repository
\* that is gone keeps the entry it has.
TagsFetch ==
  /\ walk # <<>>
  /\ cached' = cached \cup (live \cap {Head(walk)})
  /\ walk' = Tail(walk)
  /\ UNCHANGED <<live, alive, repos, isCatalogReady, job, tagsStarted, bounds>>

TagsFetchFails ==
  /\ walk # <<>> /\ faults < MaxFaults
  /\ walk' = Tail(walk) /\ faults' = faults + 1
  /\ UNCHANGED <<live, alive, repos, isCatalogReady, job, tagsStarted, cached, changes>>

RefreshStep(p) ==
  \/ FetchPage(p) \/ FirstFails(p) \/ FetchFails(p) \/ HandlePage(p)
  \/ StoreAppend(p) \/ EndOfPages(p) \/ Publish(p) \/ MarkReady(p)

TagsStep == TagsCycle \/ TagsFetch \/ TagsFetchFails

CatalogNext ==
  \/ \E r \in Repos : AddRepo(r) \/ RemoveRepo(r)
  \/ Crash \/ Restart
  \/ \E p \in Jobs : StartRefresh(p) \/ RefreshStep(p)
  \/ BackgroundReturned
  \/ PurgeReturned
  \/ TagsStep

CatalogSpec == CatalogInit /\ [][CatalogNext]_cvars

(***************************************************************************)
(* Requests are answered or fail; the two background jobs are endless      *)
(* loops; a process that has stopped is started again.  Nothing makes a    *)
(* purge start.                                                            *)
(***************************************************************************)
CatalogFairness ==
  /\ \A p \in Jobs : WF_cvars(RefreshStep(p))
  /\ WF_cvars(StartRefresh(Background)) /\ WF_cvars(BackgroundReturned)
  /\ WF_cvars(TagsStep)
  /\ WF_cvars(Restart)

FairCatalogSpec == CatalogSpec /\ CatalogFairness

-----------------------------------------------------------------------------
(***************************************************************************)
(* Properties.                                                             *)
(***************************************************************************)
NamedOnce(list) == Len(list) = Cardinality(Listed(list))

\* A refresh none of whose requests failed is about to publish every repository
\* that was there all the time, each once, whatever came and went between the
\* pages and whatever the other refresh did to the shared list.
RefreshComplete ==
  \A p \in Jobs : job[p].pc \in {"end", "publish"} /\ ~job[p].failed =>
    job[p].must \subseteq Listed(job[p].list) /\ NamedOnce(job[p].list)

\* The shared list comes to name a repository twice only by a store of a refresh
\* that did not run alone: refreshes one after the other, and readers at any
\* time, cannot do that (a purge that works on such a list counts each tag
\* twice).
TwiceOnlyByOverlap ==
  [][NamedOnce(repos) /\ ~NamedOnce(repos') =>
       \E p \in Jobs : job[p].pc \in {"append", "publish"} /\ ~job[p].alone]_cvars

\* Once repositories stop changing and requests stop failing, the list becomes
\* that of the registry, each name once, and every repository gets its tags
\* cached, whatever partial, doubled or torn lists there were before and
\* however often the process was killed on the way.  A registry that has
\* become empty is the exception: the previous list is preserved.
CatalogConverges ==
  <>[](alive /\ (live # {} => Listed(repos) = live /\ NamedOnce(repos) /\ live \subseteq cached))
=============================================================================
