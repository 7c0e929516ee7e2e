--------------------------- MODULE RegistryClient ---------------------------
(***************************************************************************)
(* The tag side of registry.Client (registry/client.go) and the goroutines *)
(* that share it: HTTP handlers that list and delete tags (web.go) and the *)
(* background job RefreshTags.  The Docker registry behind it is external: *)
(* other clients push to it at any time, and any request to it may fail.   *)
(*                                                                         *)
(* A client method that talks to the registry is several steps: one per    *)
(* request and one per critical section of tagsCacheMux, so that the steps *)
(* of different goroutines interleave between them.  A goroutine's current *)
(* call is its frame, call[p].                                             *)
(***************************************************************************)
EXTENDS SharedClient, Integers, FiniteSets

CONSTANTS
  Tags,           \* tag names (rank of the name)
  Digests,        \* manifest digests
  Procs,          \* all goroutines that call the client
  Handlers,       \* the goroutines that serve HTTP requests
  Refresher,      \* the goroutine of RefreshTags
  AsyncRefresh,   \* performance.tags_async_refresh_interval > 0
  OnlineMaxCount, \* performance.tags_online_refresh_max_count
  Retagging,      \* whether one image may ever get two tags in a repository
  None,           \* no digest
  NotCached       \* no entry in tagsCache

ASSUME NamesAssumption == Tags \subseteq Nat \ {0}

ASSUME ProcsAssumption == /\ Handlers \subseteq Procs
                          /\ Refresher \in Procs \ Handlers

ASSUME ConfigAssumption == /\ AsyncRefresh \in BOOLEAN
                           /\ OnlineMaxCount \in Nat
                           /\ Retagging \in BOOLEAN

ASSUME NoneAssumption == /\ None \notin Digests
                         /\ \A cached \in SUBSET Tags : cached # NotCached

VARIABLES
  tagRef,     \* registry: the digest each tag of each repository points to
  manifests,  \* registry: the manifests each repository stores
  pushed,     \* registry: the manifests each repository has ever stored
  tagsCache,  \* Client.tagsCache
  call,       \* the frame of each goroutine: the client method it is in
  todo        \* the repositories RefreshTags has still to visit this time

registryVars == <<tagRef, manifests, pushed>>
vars == <<tagRef, manifests, pushed, tagsCache, call, todo>>

(***************************************************************************)
(* Frames.  repo, tag, digest and tags are the arguments and locals of the *)
(* method; last is the pagination marker of a tag listing; ok tells        *)
(* whether the method returned without an error (for ListTags, whether     *)
(* the tags are "ready").                                                  *)
(***************************************************************************)
Frame == [pc     : {"idle", "list", "store", "get", "delete", "uncache", "done"},
          repo   : Nat,
          tag    : Nat,
          digest : Digests \cup {None},
          tags   : SUBSET Tags,
          last   : Nat,
          ok     : BOOLEAN]

IdleFrame == [pc |-> "idle", repo |-> 0, tag |-> 0, digest |-> None,
              tags |-> {}, last |-> 0, ok |-> FALSE]

FetchFrame(r) == [IdleFrame EXCEPT !.pc = "list", !.repo = r]

DeleteFrame(r, t) == [IdleFrame EXCEPT !.pc = "get", !.repo = r, !.tag = t]

\* The tags that repository r has now.
Present(r) == {t \in Tags : tagRef[r][t] # None}

\* No two tags of a repository point to the same manifest.
NoAliases == \A r \in Repos : \A t, u \in Present(r) :
               tagRef[r][t] = tagRef[r][u] => t = u

TypeOK ==
  /\ tagRef \in [Repos -> [Tags -> Digests \cup {None}]]
  /\ manifests \in [Repos -> SUBSET Digests]
  /\ pushed \in [Repos -> SUBSET Digests]
  /\ tagsCache \in [Repos -> (SUBSET Tags) \cup {NotCached}]
  /\ call \in [Procs -> Frame]
  /\ \A p \in Procs : call[p].pc # "idle" => call[p].repo \in Repos
  /\ \A p \in Procs : call[p].pc \in {"get", "delete", "uncache"} => call[p].tag \in Tags
  /\ todo \in SUBSET Repos

(***************************************************************************)
(* The client starts with an empty cache in front of a registry that       *)
(* already holds images.                                                   *)
(***************************************************************************)
Init ==
  /\ tagRef \in [Repos -> [Tags -> Digests \cup {None}]]
  /\ Retagging \/ NoAliases
  /\ manifests = [r \in Repos |-> {tagRef[r][t] : t \in Present(r)}]
  /\ pushed = manifests
  /\ tagsCache = [r \in Repos |-> NotCached]
  /\ call = [p \in Procs |-> IdleFrame]
  /\ todo = {}

-----------------------------------------------------------------------------
(***************************************************************************)
(* The registry.                                                           *)
(***************************************************************************)

(***************************************************************************)
(* Another client pushes tag t.  Unless Retagging, an image is tagged only *)
(* once in a repository: what is pushed is always a new manifest.          *)
(***************************************************************************)
Push(r, t, d) ==
  /\ Retagging \/ d \notin pushed[r]
  /\ tagRef' = [tagRef EXCEPT ![r][t] = d]
  /\ manifests' = [manifests EXCEPT ![r] = @ \cup {d}]
  /\ pushed' = [pushed EXCEPT ![r] = @ \cup {d}]
  /\ UNCHANGED <<tagsCache, call, todo>>

(***************************************************************************)
(* What deleting manifest d does to the registry: d goes, and with it      *)
(* every tag that points to it ("it will also delete any other tags        *)
(* pointing to the same digest!").                                         *)
(***************************************************************************)
Untag(refs, d) == [t \in Tags |-> IF refs[t] = d THEN None ELSE refs[t]]

RemoveManifest(r, d) ==
  /\ manifests' = [manifests EXCEPT ![r] = @ \ {d}]
  /\ tagRef' = [tagRef EXCEPT ![r] = Untag(tagRef[r], d)]
  /\ UNCHANGED pushed

-----------------------------------------------------------------------------
(***************************************************************************)
(* FetchAndCacheTagsForRepo.                                               *)
(***************************************************************************)

\* puller.List reads one page of the listing; another one follows.  The page
\* ends at a tag the registry chooses, within the page size asked for.
ListPage(p) ==
  /\ call[p].pc = "list"
  /\ \E hi \in Present(call[p].repo) :
       /\ hi > call[p].last
       /\ \E t \in Present(call[p].repo) : t > hi
       /\ call' = [call EXCEPT
            ![p].tags = @ \cup {t \in Present(call[p].repo) :
                                   call[p].last < t /\ t <= hi},
            ![p].last = hi]
  /\ UNCHANGED <<tagRef, manifests, pushed, tagsCache, todo>>

\* puller.List reads the last page.
ListLastPage(p) ==
  /\ call[p].pc = "list"
  /\ call' = [call EXCEPT
       ![p].tags = @ \cup {t \in Present(call[p].repo) : call[p].last < t},
       ![p].pc = "store"]
  /\ UNCHANGED <<tagRef, manifests, pushed, tagsCache, todo>>

\* Fault: what was read before a request failed is taken for the whole list.
ListFailKeepsPages(p) ==
  /\ call[p].pc = "list"
  /\ call' = [call EXCEPT ![p].pc = "store"]
  /\ UNCHANGED <<tagRef, manifests, pushed, tagsCache, todo>>

\* A request fails: nothing is cached and nil is returned, whatever pages
\* were read before.
ListFail(p) ==
  /\ call[p].pc = "list"
  /\ call' = [call EXCEPT ![p].pc = "done", ![p].tags = {}, ![p].ok = FALSE]
  /\ UNCHANGED <<tagRef, manifests, pushed, tagsCache, todo>>

\* Fault: an entry that exists is not replaced.
StoreTagsOnce(p) ==
  /\ call[p].pc = "store"
  /\ tagsCache' = [tagsCache EXCEPT ![call[p].repo] =
                     IF @ = NotCached THEN call[p].tags ELSE @]
  /\ call' = [call EXCEPT ![p].pc = "done", ![p].ok = TRUE]
  /\ UNCHANGED <<tagRef, manifests, pushed, todo>>

\* The critical section that replaces the cache entry.
StoreTags(p) ==
  /\ call[p].pc = "store"
  /\ tagsCache' = [tagsCache EXCEPT ![call[p].repo] = call[p].tags]
  /\ call' = [call EXCEPT ![p].pc = "done", ![p].ok = TRUE]
  /\ UNCHANGED <<tagRef, manifests, pushed, todo>>

-----------------------------------------------------------------------------
(***************************************************************************)
(* DeleteTag.                                                              *)
(***************************************************************************)

\* puller.Get resolves the tag to the digest to delete.
ResolveTag(p) ==
  /\ call[p].pc = "get"
  /\ tagRef[call[p].repo][call[p].tag] # None
  /\ call' = [call EXCEPT ![p].digest = tagRef[call[p].repo][call[p].tag],
                          ![p].pc = "delete"]
  /\ UNCHANGED <<tagRef, manifests, pushed, tagsCache, todo>>

\* The reference does not parse, the tag is gone or the request fails.
ResolveFail(p) ==
  /\ call[p].pc = "get"
  /\ call' = [call EXCEPT ![p].pc = "done", ![p].ok = FALSE]
  /\ UNCHANGED <<tagRef, manifests, pushed, tagsCache, todo>>

\* pusher.Delete deletes the manifest by digest.
DeleteManifest(p) ==
  /\ call[p].pc = "delete"
  /\ call[p].digest \in manifests[call[p].repo]
  /\ RemoveManifest(call[p].repo, call[p].digest)
  /\ call' = [call EXCEPT ![p].pc = "uncache"]
  /\ UNCHANGED <<tagsCache, todo>>

\* The registry deletes the manifest but its answer is lost: DeleteTag
\* returns the error and leaves the cache alone.
DeleteAnswerLost(p) ==
  /\ call[p].pc = "delete"
  /\ call[p].digest \in manifests[call[p].repo]
  /\ RemoveManifest(call[p].repo, call[p].digest)
  /\ call' = [call EXCEPT ![p].pc = "done", ![p].ok = FALSE]
  /\ UNCHANGED <<tagsCache, todo>>

\* The manifest is gone already or the request fails.
DeleteFail(p) ==
  /\ call[p].pc = "delete"
  /\ call' = [call EXCEPT ![p].pc = "done", ![p].ok = FALSE]
  /\ UNCHANGED <<tagRef, manifests, pushed, tagsCache, todo>>

\* Fault: the whole entry is emptied.
UncacheAll(p) ==
  /\ call[p].pc = "uncache"
  /\ tagsCache' = [tagsCache EXCEPT ![call[p].repo] =
                     IF @ = NotCached THEN NotCached ELSE {}]
  /\ call' = [call EXCEPT ![p].pc = "done", ![p].ok = TRUE]
  /\ UNCHANGED <<tagRef, manifests, pushed, todo>>

\* The critical section that takes the tag, and only that tag, off the cache.
Uncache(p) ==
  /\ call[p].pc = "uncache"
  /\ tagsCache' = [tagsCache EXCEPT ![call[p].repo] =
                     IF @ = NotCached THEN NotCached ELSE @ \ {call[p].tag}]
  /\ call' = [call EXCEPT ![p].pc = "done", ![p].ok = TRUE]
  /\ UNCHANGED <<tagRef, manifests, pushed, todo>>

-----------------------------------------------------------------------------
(***************************************************************************)
(* HTTP handlers.                                                          *)
(***************************************************************************)

\* ListTags fetches online when background refresh is off, or when the
\* repository is cached and small enough.
RefreshesOnline(r) ==
  \/ ~AsyncRefresh
  \/ /\ OnlineMaxCount > 0
     /\ tagsCache[r] # NotCached
     /\ Cardinality(tagsCache[r]) <= OnlineMaxCount

\* viewCatalog shows a repository: ListTags starts an online fetch ...
ViewOnline(h, r) ==
  /\ call[h].pc = "idle"
  /\ RefreshesOnline(r)
  /\ call' = [call EXCEPT ![h] = FetchFrame(r)]
  /\ UNCHANGED <<tagRef, manifests, pushed, tagsCache, todo>>

\* ... or answers from the cache (an empty list that is not ready when the
\* repository is not cached) ...
ViewCached(h, r) ==
  /\ call[h].pc = "idle"
  /\ ~RefreshesOnline(r)
  /\ call' = [call EXCEPT ![h] =
       [IdleFrame EXCEPT !.pc   = "done",
                         !.repo = r,
                         !.tags = IF tagsCache[r] = NotCached THEN {} ELSE tagsCache[r],
                         !.ok   = tagsCache[r] # NotCached]]
  /\ UNCHANGED <<tagRef, manifests, pushed, tagsCache, todo>>

\* ... and the page shows what ListTags returned.
Viewed(h) ==
  /\ call[h].pc = "done" /\ call[h].tag = 0
  /\ call' = [call EXCEPT ![h] = IdleFrame]
  /\ UNCHANGED <<tagRef, manifests, pushed, tagsCache, todo>>

\* Fault: the arguments are swapped.
RequestDeleteSwapped(h, r, t) ==
  /\ call[h].pc = "idle"
  /\ call' = [call EXCEPT ![h] = DeleteFrame(t, r)]
  /\ UNCHANGED <<tagRef, manifests, pushed, tagsCache, todo>>

\* The deleteTag handler, for a user who may delete, calls DeleteTag ...
RequestDelete(h, r, t) ==
  /\ call[h].pc = "idle"
  /\ call' = [call EXCEPT ![h] = DeleteFrame(r, t)]
  /\ UNCHANGED <<tagRef, manifests, pushed, tagsCache, todo>>

\* ... and redirects to the repository whatever DeleteTag returned.
DeleteAnswered(h) ==
  /\ call[h].pc = "done" /\ call[h].tag # 0
  /\ call' = [call EXCEPT ![h] = IdleFrame]
  /\ UNCHANGED <<tagRef, manifests, pushed, tagsCache, todo>>

(***************************************************************************)
(* RefreshTags: fetch every repository of the catalog, sleep, start over.  *)
(***************************************************************************)
RefreshCycle ==
  /\ AsyncRefresh
  /\ todo = {} /\ call[Refresher].pc = "idle"
  /\ todo' = Repos
  /\ UNCHANGED <<tagRef, manifests, pushed, tagsCache, call>>

RefreshRepo(r) ==
  /\ r \in todo /\ call[Refresher].pc = "idle"
  /\ call' = [call EXCEPT ![Refresher] = FetchFrame(r)]
  /\ UNCHANGED <<tagRef, manifests, pushed, tagsCache, todo>>

RefreshedRepo ==
  /\ call[Refresher].pc = "done"
  /\ todo' = todo \ {call[Refresher].repo}
  /\ call' = [call EXCEPT ![Refresher] = IdleFrame]
  /\ UNCHANGED <<tagRef, manifests, pushed, tagsCache>>

-----------------------------------------------------------------------------
FetchStep(p) == ListPage(p) \/ ListLastPage(p) \/ ListFail(p) \/ StoreTags(p)

DeleteStep(p) == \/ ResolveTag(p) \/ ResolveFail(p)
                 \/ DeleteManifest(p) \/ DeleteAnswerLost(p) \/ DeleteFail(p)
                 \/ Uncache(p)

HandlerStep(h) ==
  \/ \E r \in Repos : ViewOnline(h, r) \/ ViewCached(h, r)
  \/ \E r \in Repos, t \in Tags : RequestDelete(h, r, t)
  \/ Viewed(h)
  \/ DeleteAnswered(h)

RefresherStep == \/ RefreshCycle
                 \/ \E r \in Repos : RefreshRepo(r)
                 \/ RefreshedRepo

Next ==
  \/ \E r \in Repos, t \in Tags, d \in Digests : Push(r, t, d)
  \/ \E p \in Procs : FetchStep(p) \/ DeleteStep(p)
  \/ \E h \in Handlers : HandlerStep(h)
  \/ RefresherStep

Spec == Init /\ [][Next]_vars

(***************************************************************************)
(* Fairness.  A goroutine inside a call keeps going: every request is      *)
(* answered or times out.  RefreshTags is an endless loop.  Nobody has to  *)
(* push, to open a page or to press delete.  The registry is not down for  *)
(* ever: a listing that is started again and again completes at some time. *)
(***************************************************************************)
Fairness ==
  /\ \A p \in Procs : WF_vars(FetchStep(p)) /\ WF_vars(DeleteStep(p))
  /\ \A h \in Handlers : WF_vars(Viewed(h)) /\ WF_vars(DeleteAnswered(h))
  /\ WF_vars(RefresherStep)
  /\ \A r \in Repos : SF_vars(call[Refresher].repo = r /\ ListLastPage(Refresher))

FairSpec == Spec /\ Fairness

-----------------------------------------------------------------------------
(***************************************************************************)
(* Properties.                                                             *)
(***************************************************************************)

\* The cache holds exactly the tags of the registry.
Coherent == \A r \in Repos : tagsCache[r] = Present(r)

\* Once the registry stops changing, the cache becomes right and stays right,
\* whatever stale lists (a fetch that was overtaken by a delete, two fetches
\* that store in the wrong order) were written to it before: RefreshTags
\* repairs every entry and no later step spoils it again.
CacheConverges == (<>[][FALSE]_registryVars) => <>[]Coherent
=============================================================================
