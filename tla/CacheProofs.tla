----------------------------- MODULE CacheProofs -----------------------------
(***************************************************************************)
(* The tag cache is regular: proofs about CacheHistory for any number of   *)
(* repositories, tags, digests and goroutines, and however pushes, fetches *)
(* and deletes overlap.                                                    *)
(***************************************************************************)
EXTENDS CacheHistory, ClientProofs

(***************************************************************************)
(* The inductive invariant.  While a listing is in progress, its window    *)
(* brackets the registry, what it has got so far was there, and of what    *)
(* was there all along nothing up to its marker is missing.                *)
(***************************************************************************)
ListingInv(p) ==
  call[p].pc = "list" =>
    /\ hist[p].must \subseteq Present(call[p].repo)
    /\ Present(call[p].repo) \subseteq hist[p].may
    /\ call[p].tags \subseteq hist[p].may
    /\ \A t \in hist[p].must : t <= call[p].last => t \in call[p].tags

HistTypeOK == hist \in [Procs -> Window] /\ cacheHist \in [Repos -> Window]

HInv == /\ TypeOK
        /\ HistTypeOK
        /\ \A p \in Procs : ListingInv(p)
        /\ ListingRegular
        /\ CacheRegular

-----------------------------------------------------------------------------
(***************************************************************************)
(* What one step may do to one goroutine's frame.                          *)
(***************************************************************************)
Starts(p) == /\ call[p].pc # "list" /\ call'[p].pc = "list"
             /\ call'[p].tags = {} /\ call'[p].last = 0

LeavesListing(p) == call'[p].pc \notin {"list", "store"}

Shape(p) == \/ call'[p] = call[p]
            \/ Starts(p)
            \/ ListPage(p)
            \/ ListLastPage(p)
            \/ LeavesListing(p)

\* A frame that a step replaces is the only one that it changes.
LEMMA OnlyOne ==
  ASSUME TypeOK, NEW q \in Procs, NEW p \in Procs, NEW f,
         call' = [call EXCEPT ![q] = f]
  PROVE  (p # q => call'[p] = call[p]) /\ call'[q] = f
BY DEF TypeOK

\* A step of a client method moves only the goroutine that takes it.
LEMMA MethodMoves ==
  ASSUME TypeOK, NEW q \in Procs, FetchStep(q) \/ DeleteStep(q)
  PROVE  /\ \A p \in Procs : p # q => call'[p] = call[p]
         /\ Shape(q)
         /\ call[q].pc = "store" => StoreTags(q)
         /\ call[q].pc = "uncache" => Uncache(q)
         /\ call[q].pc # "store" /\ call[q].pc # "uncache" => UNCHANGED tagsCache
<1>. USE DEF TypeOK
<1>1. CASE ListPage(q)
  BY <1>1 DEF ListPage, Shape
<1>2. CASE ListLastPage(q)
  BY <1>2 DEF ListLastPage, Shape
<1>3. CASE ListFail(q)
  BY <1>3 DEF ListFail, Shape, LeavesListing, Frame
<1>4. CASE StoreTags(q)
  BY <1>4 DEF StoreTags, Shape, LeavesListing, Frame
<1>5. CASE ResolveTag(q)
  BY <1>5 DEF ResolveTag, Shape, LeavesListing, Frame
<1>6. CASE ResolveFail(q)
  BY <1>6 DEF ResolveFail, Shape, LeavesListing, Frame
<1>7. CASE DeleteManifest(q)
  BY <1>7 DEF DeleteManifest, Shape, LeavesListing, Frame
<1>8. CASE DeleteAnswerLost(q)
  BY <1>8 DEF DeleteAnswerLost, Shape, LeavesListing, Frame
<1>9. CASE DeleteFail(q)
  BY <1>9 DEF DeleteFail, Shape, LeavesListing, Frame
<1>10. CASE Uncache(q)
  BY <1>10 DEF Uncache, Shape, LeavesListing, Frame
<1>. QED
  BY <1>1, <1>2, <1>3, <1>4, <1>5, <1>6, <1>7, <1>8, <1>9, <1>10
     DEF FetchStep, DeleteStep

\* Every other step starts a call, ends one, or moves no goroutine.
LEMMA OtherMoves ==
  ASSUME TypeOK,
         \/ \E r \in Repos, t \in Tags, d \in Digests : Push(r, t, d)
         \/ \E h \in Handlers : HandlerStep(h)
         \/ RefresherStep
         \/ UNCHANGED vars
  PROVE  /\ UNCHANGED tagsCache
         /\ \A p \in Procs : \/ call'[p] = call[p]
                             \/ /\ Starts(p) \/ LeavesListing(p)
                                /\ call[p].pc \in {"idle", "done"}
<1>. USE ProcsAssumption
<1>1. CASE \E r \in Repos, t \in Tags, d \in Digests : Push(r, t, d)
  BY <1>1 DEF Push
<1>2. CASE UNCHANGED vars
  BY <1>2 DEF vars
<1>3. CASE \E h \in Handlers : HandlerStep(h)
  <2>1. PICK h \in Handlers : HandlerStep(h)
    BY <1>3
  <2>2. UNCHANGED tagsCache
    BY <2>1 DEF HandlerStep, ViewOnline, ViewCached, RequestDelete, Viewed, DeleteAnswered
  <2>3. PICK f : /\ call' = [call EXCEPT ![h] = f]
                 /\ call[h].pc \in {"idle", "done"}
                 /\ \/ f.pc = "list" /\ f.tags = {} /\ f.last = 0
                    \/ f.pc \notin {"list", "store"}
    <3>1. CASE \E r \in Repos : ViewOnline(h, r)
      BY <3>1 DEF ViewOnline, FetchFrame, IdleFrame
    <3>2. CASE \E r \in Repos : ViewCached(h, r)
      <4>1. PICK r \in Repos : ViewCached(h, r)
        BY <3>2
      <4>. DEFINE g == [IdleFrame EXCEPT
                !.pc   = "done",
                !.repo = r,
                !.tags = IF tagsCache[r] = NotCached THEN {} ELSE tagsCache[r],
                !.ok   = tagsCache[r] # NotCached]
      <4>2. call' = [call EXCEPT ![h] = g] /\ call[h].pc = "idle"
        BY <4>1 DEF ViewCached
      <4>3. g.pc = "done"
        BY DEF IdleFrame
      <4>. HIDE DEF g
      <4>. QED
        BY <4>2, <4>3
    <3>3. CASE \E r \in Repos, t \in Tags : RequestDelete(h, r, t)
      BY <3>3 DEF RequestDelete, DeleteFrame, IdleFrame
    <3>4. CASE Viewed(h) \/ DeleteAnswered(h)
      BY <3>4 DEF Viewed, DeleteAnswered, IdleFrame
    <3>. QED
      BY <2>1, <3>1, <3>2, <3>3, <3>4 DEF HandlerStep
  <2>. QED
    BY <2>2, <2>3, OnlyOne DEF Starts, LeavesListing
<1>4. CASE RefresherStep
  <2>1. UNCHANGED tagsCache
    BY <1>4 DEF RefresherStep, RefreshCycle, RefreshRepo, RefreshedRepo
  <2>2. CASE RefreshCycle
    BY <2>1, <2>2 DEF RefreshCycle
  <2>3. CASE ~RefreshCycle
    <3>1. PICK f : /\ call' = [call EXCEPT ![Refresher] = f]
                   /\ call[Refresher].pc \in {"idle", "done"}
                   /\ \/ f.pc = "list" /\ f.tags = {} /\ f.last = 0
                      \/ f.pc \notin {"list", "store"}
      BY <1>4, <2>3 DEF RefresherStep, RefreshRepo, RefreshedRepo, FetchFrame, IdleFrame
    <3>. QED
      BY <2>1, <3>1, OnlyOne DEF Starts, LeavesListing
  <2>. QED
    BY <2>2, <2>3
<1>. QED
  BY <1>1, <1>2, <1>3, <1>4

\* Put together: the shape of a step, and who writes the cache.
LEMMA StepShape ==
  ASSUME TypeOK, [Next]_vars
  PROVE  /\ \A p \in Procs : Shape(p)
         /\ \A p \in Procs : Stores(p) => StoreTags(p)
         /\ \A p \in Procs : Uncaches(p) => Uncache(p)
         /\ \/ UNCHANGED tagsCache
            \/ \E p \in Procs : StoreTags(p) \/ Uncache(p)
<1>1. CASE \E q \in Procs : FetchStep(q) \/ DeleteStep(q)
  <2>1. PICK q \in Procs : FetchStep(q) \/ DeleteStep(q)
    BY <1>1
  <2>2. \A p \in Procs : p # q => call'[p] = call[p]
    BY <2>1, MethodMoves
  <2>3. /\ Shape(q)
        /\ call[q].pc = "store" => StoreTags(q)
        /\ call[q].pc = "uncache" => Uncache(q)
        /\ call[q].pc # "store" /\ call[q].pc # "uncache" => UNCHANGED tagsCache
    BY <2>1, MethodMoves
  <2>. QED
    BY <2>2, <2>3 DEF Shape, Stores, Uncaches
<1>2. CASE \/ \E r \in Repos, t \in Tags, d \in Digests : Push(r, t, d)
           \/ \E h \in Handlers : HandlerStep(h)
           \/ RefresherStep
           \/ UNCHANGED vars
  BY <1>2, OtherMoves DEF Shape, Stores, Uncaches
<1>. QED
  BY <1>1, <1>2 DEF Next

\* A step that stores or uncaches moves one goroutine.
LEMMA WriterMoves ==
  ASSUME TypeOK, NEW p \in Procs, StoreTags(p) \/ Uncache(p), NEW q \in Procs
  PROVE  /\ Stores(q) => q = p /\ StoreTags(p)
         /\ Uncaches(q) => q = p /\ Uncache(p)
BY DEF TypeOK, StoreTags, Uncache, Stores, Uncaches, Frame

-----------------------------------------------------------------------------
\* The invariant holds initially.
LEMMA HInvInit == HInit => HInv
BY TypeInit DEF HInit, Init, HInv, HistTypeOK, Window, EmptyWindow, ListingInv,
                ListingRegular, CacheRegular, IdleFrame

\* The windows keep their type.
LEMMA HistTypes ==
  ASSUME HInv, TypeOK', Observe
  PROVE  HistTypeOK'
<1>1. \A p \in Procs : WindowAfter(p) \in Window
  BY DEF HInv, HistTypeOK, WindowAfter, Window, EmptyWindow, Present
<1>2. hist' \in [Procs -> Window]
  BY <1>1 DEF Observe
<1>3. cacheHist' \in [Repos -> Window]
  <2>1. CASE \E p \in Procs :
               cacheHist' = [cacheHist EXCEPT ![call[p].repo] = hist[p]]
    BY <2>1 DEF HInv, HistTypeOK
  <2>2. CASE \E p \in Procs :
               cacheHist' = [cacheHist EXCEPT ![call[p].repo].must = @ \ {call[p].tag}]
    <3>1. PICK p \in Procs :
            cacheHist' = [cacheHist EXCEPT ![call[p].repo].must = @ \ {call[p].tag}]
      BY <2>2
    <3>2. \A w \in Window : [w EXCEPT !.must = w.must \ {call[p].tag}] \in Window
      BY DEF Window
    <3>3. cacheHist \in [Repos -> Window]
      BY DEF HInv, HistTypeOK
    <3>. QED
      BY <3>1, <3>2, <3>3
  <2>3. CASE UNCHANGED cacheHist
    BY <2>3 DEF HInv, HistTypeOK
  <2>. QED
    BY <2>1, <2>2, <2>3 DEF Observe
<1>. QED
  BY <1>2, <1>3 DEF HistTypeOK

\* A step keeps the listing invariant of every goroutine, and a listing that
\* ends is regular.
LEMMA ListingStep ==
  ASSUME HInv, TypeOK', [Next]_vars, Observe, NEW p \in Procs
  PROVE  /\ ListingInv(p)'
         /\ call'[p].pc = "store" => RegularFor(call'[p].tags, hist'[p])
<1>0. TypeOK /\ Shape(p) /\ ListingInv(p) /\ hist[p] \in Window
  BY StepShape DEF HInv, HistTypeOK
<1>a. call \in [Procs -> Frame] /\ call[p].last \in Int
  <2>1. call \in [Procs -> Frame]
    BY <1>0 DEF TypeOK
  <2>. QED
    BY <2>1 DEF Frame
<1>b. \A r : Present(r) \subseteq Int
  <2>1. Tags \subseteq Int
    BY NamesAssumption
  <2>. QED
    BY <2>1 DEF Present
<1>1. hist'[p] = WindowAfter(p)
  BY DEF Observe
<1>2. CASE call'[p] = call[p]
  <2>1. CASE call[p].pc = "list"
    <3>1. /\ hist'[p].must = hist[p].must \cap Present(call[p].repo)'
          /\ hist'[p].may = hist[p].may \cup Present(call[p].repo)'
      BY <1>1, <1>2, <2>1 DEF WindowAfter
    <3>. QED
      BY <1>0, <1>2, <2>1, <3>1 DEF ListingInv
  <2>2. CASE call[p].pc = "store"
    <3>1. hist'[p] = hist[p]
      BY <1>1, <1>2, <2>2 DEF WindowAfter
    <3>. QED
      BY <1>2, <2>2, <3>1 DEF ListingInv, HInv, ListingRegular
  <2>3. CASE call[p].pc \notin {"list", "store"}
    BY <1>2, <2>3 DEF ListingInv
  <2>. QED
    BY <2>1, <2>2, <2>3
<1>3. CASE Starts(p)
  <2>1. /\ hist'[p].must = Present(call[p].repo)'
        /\ hist'[p].may = Present(call[p].repo)'
    BY <1>1, <1>3 DEF WindowAfter, Starts
  <2>2. \A t \in Present(call[p].repo)' : ~(t <= 0)
    BY NamesAssumption DEF Present
  <2>. QED
    BY <1>3, <2>1, <2>2 DEF ListingInv, Starts
<1>4. CASE ListPage(p)
  <2>. DEFINE f == call[p]
  <2>1. PICK hi \in Present(f.repo) :
          /\ hi > f.last
          /\ call' = [call EXCEPT ![p].tags = @ \cup {t \in Present(f.repo) : f.last < t /\ t <= hi},
                                  ![p].last = hi]
    BY <1>4 DEF ListPage
  <2>2. /\ call'[p].pc = "list" /\ call[p].pc = "list"
        /\ call'[p].repo = f.repo /\ call'[p].last = hi
        /\ call'[p].tags = f.tags \cup {t \in Present(f.repo) : f.last < t /\ t <= hi}
    BY <1>a, <1>4, <2>1 DEF Frame, ListPage
  <2>3. Present(f.repo)' = Present(f.repo)
    BY <1>4, <2>2 DEF ListPage, Present
  <2>4. /\ hist'[p].must = hist[p].must \cap Present(f.repo)
        /\ hist'[p].may = hist[p].may \cup Present(f.repo)
    BY <1>1, <2>2, <2>3 DEF WindowAfter
  <2>5. f.last \in Int /\ hi \in Int /\ Present(f.repo) \subseteq Int
    BY <1>a, <1>b
  <2>6. \A t \in hist'[p].must : t <= hi => t \in call'[p].tags
    BY <1>0, <2>2, <2>4, <2>5 DEF ListingInv
  <2>. QED
    BY <1>0, <2>2, <2>3, <2>4, <2>6 DEF ListingInv
<1>5. CASE ListLastPage(p)
  <2>1. /\ call'[p].pc = "store" /\ call[p].pc = "list"
        /\ call'[p].tags = call[p].tags \cup {t \in Present(call[p].repo) : call[p].last < t}
    BY <1>a, <1>5 DEF Frame, ListLastPage
  <2>2. hist'[p] = hist[p]
    BY <1>1, <2>1 DEF WindowAfter
  <2>3. call[p].last \in Int /\ Present(call[p].repo) \subseteq Int
    BY <1>a, <1>b
  <2>. QED
    BY <1>0, <2>1, <2>2, <2>3 DEF ListingInv, RegularFor
<1>6. CASE LeavesListing(p)
  BY <1>6 DEF LeavesListing, ListingInv
<1>. QED
  BY <1>0, <1>2, <1>3, <1>4, <1>5, <1>6 DEF Shape

\* A step keeps every cache entry regular.
LEMMA CacheStep ==
  ASSUME HInv, [Next]_vars, Observe
  PROVE  CacheRegular'
<1>0. TypeOK /\ HistTypeOK /\ ListingRegular /\ CacheRegular
  BY DEF HInv
<1>1. CASE \E p \in Procs : StoreTags(p)
  <2>1. PICK p \in Procs : StoreTags(p)
    BY <1>1
  <2>2. Stores(p) /\ call[p].pc = "store" /\ call[p].repo \in Repos
    BY <1>0, <2>1 DEF Stores, StoreTags, TypeOK, Frame
  <2>3. \A q \in Procs : (Stores(q) => q = p) /\ ~Uncaches(q)
    BY <1>0, <2>1, <2>2, WriterMoves DEF Uncache
  <2>4. cacheHist' = [cacheHist EXCEPT ![call[p].repo] = hist[p]]
    BY <2>2, <2>3 DEF Observe
  <2>5. tagsCache' = [tagsCache EXCEPT ![call[p].repo] = call[p].tags]
    BY <2>1 DEF StoreTags
  <2>6. RegularFor(call[p].tags, hist[p])
    BY <1>0, <2>2 DEF ListingRegular
  <2>. QED
    BY <1>0, <2>2, <2>4, <2>5, <2>6 DEF CacheRegular, TypeOK, HistTypeOK
<1>2. CASE \E p \in Procs : Uncache(p)
  <2>1. PICK p \in Procs : Uncache(p)
    BY <1>2
  <2>. DEFINE r == call[p].repo
              t == call[p].tag
  <2>2. Uncaches(p) /\ call[p].pc = "uncache" /\ r \in Repos
    BY <1>0, <2>1 DEF Uncaches, Uncache, TypeOK, Frame
  <2>3. \A q \in Procs : (Uncaches(q) => q = p) /\ ~Stores(q)
    BY <1>0, <2>1, <2>2, WriterMoves DEF StoreTags
  <2>4. cacheHist' = [cacheHist EXCEPT ![r].must = @ \ {t}]
    BY <2>2, <2>3 DEF Observe
  <2>5. tagsCache' = [tagsCache EXCEPT ![r] = IF @ = NotCached THEN NotCached ELSE @ \ {t}]
    BY <2>1 DEF Uncache
  <2>6. /\ cacheHist'[r].must = cacheHist[r].must \ {t}
        /\ cacheHist'[r].may = cacheHist[r].may
        /\ \A q \in Repos : q # r => cacheHist'[q] = cacheHist[q]
    BY <1>0, <2>2, <2>4 DEF HistTypeOK, Window
  <2>7. /\ tagsCache[r] # NotCached => tagsCache'[r] = tagsCache[r] \ {t}
        /\ tagsCache[r] = NotCached => tagsCache'[r] = NotCached
        /\ \A q \in Repos : q # r => tagsCache'[q] = tagsCache[q]
    BY <1>0, <2>2, <2>5 DEF TypeOK
  <2>. QED
    BY <1>0, <2>2, <2>6, <2>7 DEF CacheRegular, RegularFor
<1>3. CASE \A p \in Procs : ~StoreTags(p) /\ ~Uncache(p)
  <2>1. \A p \in Procs : ~Stores(p) /\ ~Uncaches(p)
    BY <1>0, <1>3, StepShape
  <2>2. UNCHANGED <<tagsCache, cacheHist>>
    BY <1>0, <1>3, <2>1, StepShape DEF Observe
  <2>. QED
    BY <1>0, <2>2 DEF CacheRegular
<1>. QED
  BY <1>1, <1>2, <1>3

\* Every step keeps the invariant.
LEMMA HInvNext == HInv /\ [HNext]_hvars => HInv'
<1>1. SUFFICES ASSUME HInv, [HNext]_hvars PROVE HInv'
  OBVIOUS
<1>2. CASE UNCHANGED hvars
  BY <1>1, <1>2 DEF hvars, auxVars, vars, HInv, TypeOK, HistTypeOK, ListingInv,
                    Present, ListingRegular, CacheRegular
<1>3. CASE HNext
  <2>1. TypeOK' /\ [Next]_vars /\ Observe
    BY <1>1, <1>3, TypeNext DEF HNext, HInv
  <2>2. ListingRegular'
    BY <1>1, <2>1, ListingStep DEF ListingRegular
  <2>. QED
    BY <1>1, <2>1, <2>2, HistTypes, ListingStep, CacheStep DEF HInv
<1>. QED
  BY <1>1, <1>2, <1>3

\* However pushes, fetches and deletes overlap, a list that a fetch is about to
\* store holds every tag that was there all the time it was being read and no
\* tag that never was.
THEOREM ListingsAreRegular == HSpec => []ListingRegular
<1>1. HInv => ListingRegular
  BY DEF HInv
<1>. QED
  BY <1>1, HInvInit, HInvNext, PTL DEF HSpec

\* Every entry of the cache is such a list, but for tags deleted through
\* DeleteTag since.
THEOREM CacheIsRegular == HSpec => []CacheRegular
<1>1. HInv => CacheRegular
  BY DEF HInv
<1>. QED
  BY <1>1, HInvInit, HInvNext, PTL DEF HSpec
=============================================================================
