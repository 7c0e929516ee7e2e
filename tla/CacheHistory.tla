---------------------------- MODULE CacheHistory ----------------------------
(***************************************************************************)
(* RegistryClient with two auxiliary variables that record what was true   *)
(* of the registry while a listing was in progress, so that "the cache is  *)
(* right" can be said of a cache that is filled by slow, unsynchronised    *)
(* listings: the registry itself never keeps still while they run.         *)
(***************************************************************************)
EXTENDS RegistryClient

VARIABLES
  hist,      \* for each goroutine, the window of its last listing
  cacheHist  \* for each repository, the window of the listing it is cached from

auxVars == <<hist, cacheHist>>
hvars == <<vars, auxVars>>

(***************************************************************************)
(* must: the tags that were there all through the window (but those taken  *)
(* off the cache since); may: those that were there at some time in it.    *)
(***************************************************************************)
Window == [must : SUBSET Tags, may : SUBSET Tags]

EmptyWindow == [must |-> {}, may |-> {}]

HInit == /\ Init
         /\ hist = [p \in Procs |-> EmptyWindow]
         /\ cacheHist = [r \in Repos |-> EmptyWindow]

\* A listing's window opens with the call, sees every change until the last
\* page has been read, and is dropped once the list is stored.
WindowAfter(p) ==
  LET now == Present(call[p].repo)'
  IN  CASE call[p].pc # "list" /\ call'[p].pc = "list" ->
             [must |-> now, may |-> now]
        [] call[p].pc = "list" /\ call'[p].pc = "list" ->
             [must |-> hist[p].must \cap now, may |-> hist[p].may \cup now]
        [] call'[p].pc = "store" -> hist[p]
        [] OTHER -> EmptyWindow

Stores(p) == call[p].pc = "store" /\ call'[p].pc = "done"

Uncaches(p) == call[p].pc = "uncache" /\ call'[p].pc = "done"

Observe ==
  /\ hist' = [p \in Procs |-> WindowAfter(p)]
  /\ \/ \E p \in Procs :
          /\ Stores(p)
          /\ cacheHist' = [cacheHist EXCEPT ![call[p].repo] = hist[p]]
     \/ \E p \in Procs :
          /\ Uncaches(p)
          /\ cacheHist' = [cacheHist EXCEPT ![call[p].repo].must = @ \ {call[p].tag}]
     \/ /\ \A p \in Procs : ~Stores(p) /\ ~Uncaches(p)
        /\ UNCHANGED cacheHist

HNext == Next /\ Observe

HSpec == HInit /\ [][HNext]_hvars

FairHSpec == HSpec /\ Fairness

-----------------------------------------------------------------------------
\* A list of tags that is right for a window: it has every tag that was there
\* all along and none that was never there.
RegularFor(tags, window) == window.must \subseteq tags /\ tags \subseteq window.may

\* The list FetchAndCacheTagsForRepo is about to store is right for the time
\* it took to read it, although it is read in pages between which tags are
\* pushed and deleted: no tag that stayed is missing, no tag that never was
\* there is listed.
ListingRegular ==
  \A p \in Procs : call[p].pc = "store" => RegularFor(call[p].tags, hist[p])

\* Every cache entry is a list that one listing read, minus tags that DeleteTag
\* has deleted since: whatever fetches and deletes overlap, an entry is never
\* mixed from two listings, cut short by a failed one, or emptied by a delete.
CacheRegular ==
  \A r \in Repos : tagsCache[r] # NotCached => RegularFor(tagsCache[r], cacheHist[r])
=============================================================================
