---------------------------- MODULE ClientProofs ----------------------------
(***************************************************************************)
(* Type correctness of RegistryClient, for any number of repositories,     *)
(* tags, digests and goroutines.                                           *)
(***************************************************************************)
EXTENDS RegistryClient, TLAPS

\* The frames that calls start from are well typed.
LEMMA FrameTypes ==
  /\ IdleFrame \in Frame
  /\ \A r \in Nat : FetchFrame(r) \in Frame
  /\ \A r, t \in Nat : DeleteFrame(r, t) \in Frame
BY DEF IdleFrame, FetchFrame, DeleteFrame, Frame

\* The initial state is well typed.
LEMMA TypeInit == Init => TypeOK
<1>1. SUFFICES ASSUME Init PROVE TypeOK
  OBVIOUS
<1>2. \A r \in Repos : {tagRef[r][t] : t \in Present(r)} \subseteq Digests
  BY <1>1 DEF Init, Present
<1>3. call \in [Procs -> Frame]
  BY <1>1, FrameTypes DEF Init
<1>. QED
  BY <1>1, <1>2, <1>3 DEF Init, TypeOK, IdleFrame

(***************************************************************************)
(* A step that moves one goroutine's frame keeps the types of the frames   *)
(* if the new frame is well typed.                                         *)
(***************************************************************************)
CallTypeOK ==
  /\ call \in [Procs -> Frame]
  /\ \A p \in Procs : call[p].pc # "idle" => call[p].repo \in Repos
  /\ \A p \in Procs : call[p].pc \in {"get", "delete", "uncache"} => call[p].tag \in Tags

GoodFrame(f) == /\ f \in Frame
                /\ f.pc # "idle" => f.repo \in Repos
                /\ f.pc \in {"get", "delete", "uncache"} => f.tag \in Tags

\* A well typed frame for one goroutine keeps all frames well typed.
LEMMA FrameStep ==
  ASSUME TypeOK, NEW p \in Procs, NEW f, GoodFrame(f),
         call' = [call EXCEPT ![p] = f]
  PROVE  CallTypeOK'
BY DEF TypeOK, CallTypeOK, GoodFrame

\* Frames are well typed in every well typed state.
LEMMA OldFrame == ASSUME TypeOK, NEW p \in Procs PROVE GoodFrame(call[p])
BY DEF TypeOK, GoodFrame

\* The frames that methods move to, field by field.
LEMMA FrameFields ==
  ASSUME NEW f, GoodFrame(f)
  PROVE  /\ \A tags \in SUBSET Tags, last \in Nat : f.pc = "list" =>
              GoodFrame([f EXCEPT !.tags = tags, !.last = last])
         /\ \A tags \in SUBSET Tags : f.pc = "list" =>
              GoodFrame([f EXCEPT !.tags = tags, !.pc = "store"])
         /\ \A ok \in BOOLEAN : f.pc # "idle" =>
              GoodFrame([f EXCEPT !.pc = "done", !.ok = ok])
         /\ f.pc = "list" => GoodFrame([f EXCEPT !.pc = "done", !.tags = {}, !.ok = FALSE])
         /\ \A d \in Digests : f.pc = "get" =>
              GoodFrame([f EXCEPT !.digest = d, !.pc = "delete"])
         /\ f.pc = "delete" => GoodFrame([f EXCEPT !.pc = "uncache"])
<1>1. \A tags \in SUBSET Tags, last \in Nat : f.pc = "list" =>
        GoodFrame([f EXCEPT !.tags = tags, !.last = last])
  BY DEF GoodFrame, Frame
<1>2. \A tags \in SUBSET Tags : f.pc = "list" =>
        GoodFrame([f EXCEPT !.tags = tags, !.pc = "store"])
  BY DEF GoodFrame, Frame
<1>3. \A ok \in BOOLEAN : f.pc # "idle" =>
        GoodFrame([f EXCEPT !.pc = "done", !.ok = ok])
  BY DEF GoodFrame, Frame
<1>4. f.pc = "list" => GoodFrame([f EXCEPT !.pc = "done", !.tags = {}, !.ok = FALSE])
  BY DEF GoodFrame, Frame
<1>5. \A d \in Digests : f.pc = "get" =>
        GoodFrame([f EXCEPT !.digest = d, !.pc = "delete"])
  BY DEF GoodFrame, Frame
<1>6. f.pc = "delete" => GoodFrame([f EXCEPT !.pc = "uncache"])
  BY DEF GoodFrame, Frame
<1>. QED
  BY <1>1, <1>2, <1>3, <1>4, <1>5, <1>6

\* Every step of FetchAndCacheTagsForRepo keeps the types.
LEMMA TypeFetch ==
  ASSUME TypeOK, NEW p \in Procs, FetchStep(p)
  PROVE  TypeOK'
<1>. DEFINE f == call[p]
<1>1. GoodFrame(f) /\ call \in [Procs -> Frame]
  BY OldFrame DEF TypeOK
<1>2. CASE ListPage(p)
  <2>1. PICK hi \in Present(f.repo) :
          call' = [call EXCEPT ![p].tags = @ \cup {t \in Present(f.repo) : f.last < t /\ t <= hi},
                               ![p].last = hi]
    BY <1>2 DEF ListPage
  <2>. DEFINE got == f.tags \cup {t \in Present(f.repo) : f.last < t /\ t <= hi}
  <2>2. got \in SUBSET Tags /\ hi \in Nat /\ f.pc = "list"
    BY <1>1, <1>2, NamesAssumption DEF GoodFrame, Frame, Present, ListPage
  <2>3. call' = [call EXCEPT ![p] = [f EXCEPT !.tags = got, !.last = hi]]
    BY <1>1, <2>1
  <2>. HIDE DEF got, f
  <2>4. GoodFrame([f EXCEPT !.tags = got, !.last = hi])
    BY <1>1, <2>2, FrameFields
  <2>5. CallTypeOK'
    BY <2>3, <2>4, FrameStep
  <2>. QED
    BY <2>5, <1>2 DEF CallTypeOK, TypeOK, ListPage
<1>3. CASE ListLastPage(p)
  <2>. DEFINE got == f.tags \cup {t \in Present(f.repo) : f.last < t}
  <2>1. got \in SUBSET Tags /\ f.pc = "list"
    BY <1>1, <1>3 DEF GoodFrame, Frame, Present, ListLastPage
  <2>2. call' = [call EXCEPT ![p] = [f EXCEPT !.tags = got, !.pc = "store"]]
    BY <1>1, <1>3 DEF ListLastPage
  <2>. HIDE DEF got, f
  <2>3. CallTypeOK'
    BY <1>1, <2>1, <2>2, FrameFields, FrameStep
  <2>. QED
    BY <2>3, <1>3 DEF CallTypeOK, TypeOK, ListLastPage
<1>4. CASE ListFail(p)
  <2>1. f.pc = "list" /\ call' = [call EXCEPT ![p] = [f EXCEPT !.pc = "done", !.tags = {}, !.ok = FALSE]]
    BY <1>1, <1>4 DEF ListFail
  <2>. HIDE DEF f
  <2>2. CallTypeOK'
    BY <1>1, <2>1, FrameFields, FrameStep
  <2>. QED
    BY <2>2, <1>4 DEF CallTypeOK, TypeOK, ListFail
<1>5. CASE StoreTags(p)
  <2>1. f.pc = "store" /\ call' = [call EXCEPT ![p] = [f EXCEPT !.pc = "done", !.ok = TRUE]]
    BY <1>1, <1>5 DEF StoreTags
  <2>2. f.repo \in Repos /\ f.tags \in SUBSET Tags
    BY <1>1, <2>1 DEF GoodFrame, Frame
  <2>3. tagsCache' \in [Repos -> (SUBSET Tags) \cup {NotCached}]
    BY <1>5, <2>2 DEF StoreTags, TypeOK
  <2>. HIDE DEF f
  <2>4. CallTypeOK'
    BY <1>1, <2>1, FrameFields, FrameStep
  <2>. QED
    BY <2>3, <2>4, <1>5 DEF CallTypeOK, TypeOK, StoreTags
<1>. QED
  BY <1>2, <1>3, <1>4, <1>5 DEF FetchStep

\* Deleting a manifest keeps the types of the registry.
LEMMA TypeRemove ==
  ASSUME TypeOK, NEW r \in Repos, NEW d, RemoveManifest(r, d)
  PROVE  /\ tagRef' \in [Repos -> [Tags -> Digests \cup {None}]]
         /\ manifests' \in [Repos -> SUBSET Digests]
         /\ pushed' \in [Repos -> SUBSET Digests]
<1>1. Untag(tagRef[r], d) \in [Tags -> Digests \cup {None}]
  BY DEF TypeOK, Untag
<1>. QED
  BY <1>1 DEF TypeOK, RemoveManifest

\* Every step of DeleteTag keeps the types.
LEMMA TypeDelete ==
  ASSUME TypeOK, NEW p \in Procs, DeleteStep(p)
  PROVE  TypeOK'
<1>. DEFINE f == call[p]
<1>1. GoodFrame(f) /\ call \in [Procs -> Frame]
  BY OldFrame DEF TypeOK
<1>2. CASE ResolveTag(p)
  <2>1. f.pc = "get" /\ call' = [call EXCEPT ![p] = [f EXCEPT !.digest = tagRef[f.repo][f.tag], !.pc = "delete"]]
    BY <1>1, <1>2 DEF ResolveTag
  <2>2. tagRef[f.repo][f.tag] \in Digests
    BY <1>1, <1>2 DEF ResolveTag, TypeOK, GoodFrame
  <2>. HIDE DEF f
  <2>3. CallTypeOK'
    BY <1>1, <2>1, <2>2, FrameFields, FrameStep
  <2>. QED
    BY <2>3, <1>2 DEF CallTypeOK, TypeOK, ResolveTag
<1>3. CASE ResolveFail(p) \/ DeleteFail(p)
  <2>1. f.pc # "idle" /\ call' = [call EXCEPT ![p] = [f EXCEPT !.pc = "done", !.ok = FALSE]]
    BY <1>1, <1>3 DEF ResolveFail, DeleteFail
  <2>. HIDE DEF f
  <2>2. CallTypeOK'
    BY <1>1, <2>1, FrameFields, FrameStep
  <2>. QED
    BY <2>2, <1>3 DEF CallTypeOK, TypeOK, ResolveFail, DeleteFail
<1>4. CASE DeleteManifest(p)
  <2>1. f.pc = "delete" /\ call' = [call EXCEPT ![p] = [f EXCEPT !.pc = "uncache"]]
    BY <1>1, <1>4 DEF DeleteManifest
  <2>2. f.repo \in Repos
    BY <1>1, <2>1 DEF GoodFrame
  <2>. HIDE DEF f
  <2>3. CallTypeOK'
    BY <1>1, <2>1, FrameFields, FrameStep
  <2>. QED
    BY <2>2, <2>3, <1>4, TypeRemove DEF CallTypeOK, TypeOK, DeleteManifest, f
<1>5. CASE DeleteAnswerLost(p)
  <2>1. f.pc = "delete" /\ call' = [call EXCEPT ![p] = [f EXCEPT !.pc = "done", !.ok = FALSE]]
    BY <1>1, <1>5 DEF DeleteAnswerLost
  <2>2. f.repo \in Repos
    BY <1>1, <2>1 DEF GoodFrame
  <2>. HIDE DEF f
  <2>3. CallTypeOK'
    BY <1>1, <2>1, FrameFields, FrameStep
  <2>. QED
    BY <2>2, <2>3, <1>5, TypeRemove DEF CallTypeOK, TypeOK, DeleteAnswerLost, f
<1>6. CASE Uncache(p)
  <2>1. f.pc = "uncache" /\ call' = [call EXCEPT ![p] = [f EXCEPT !.pc = "done", !.ok = TRUE]]
    BY <1>1, <1>6 DEF Uncache
  <2>2. tagsCache' \in [Repos -> (SUBSET Tags) \cup {NotCached}]
    BY <1>6 DEF Uncache, TypeOK
  <2>. HIDE DEF f
  <2>3. CallTypeOK'
    BY <1>1, <2>1, FrameFields, FrameStep
  <2>. QED
    BY <2>2, <2>3, <1>6 DEF CallTypeOK, TypeOK, Uncache
<1>. QED
  BY <1>2, <1>3, <1>4, <1>5, <1>6 DEF DeleteStep

\* The frames that calls start from.
LEMMA StartFrames ==
  /\ GoodFrame(IdleFrame)
  /\ \A r \in Repos : GoodFrame(FetchFrame(r))
  /\ \A r \in Repos, t \in Tags : GoodFrame(DeleteFrame(r, t))
  /\ \A r \in Repos, tags \in SUBSET Tags, ok \in BOOLEAN :
       GoodFrame([IdleFrame EXCEPT !.pc = "done", !.repo = r, !.tags = tags, !.ok = ok])
BY NamesAssumption, ReposAssumption DEF GoodFrame, Frame, IdleFrame, FetchFrame, DeleteFrame

\* Every step of a handler keeps the types.
LEMMA TypeHandler ==
  ASSUME TypeOK, NEW h \in Handlers, HandlerStep(h)
  PROVE  TypeOK'
<1>0. h \in Procs
  BY ProcsAssumption
<1>1. PICK f : GoodFrame(f) /\ call' = [call EXCEPT ![h] = f]
  <2>1. CASE \E r \in Repos : ViewOnline(h, r)
    BY <2>1, StartFrames DEF ViewOnline
  <2>2. CASE \E r \in Repos : ViewCached(h, r)
    <3>1. PICK r \in Repos : ViewCached(h, r)
      BY <2>2
    <3>2. (IF tagsCache[r] = NotCached THEN {} ELSE tagsCache[r]) \in SUBSET Tags
      BY DEF TypeOK
    <3>3. (tagsCache[r] # NotCached) \in BOOLEAN
      OBVIOUS
    <3>. QED
      BY <3>1, <3>2, <3>3, StartFrames DEF ViewCached
  <2>3. CASE \E r \in Repos, t \in Tags : RequestDelete(h, r, t)
    BY <2>3, StartFrames DEF RequestDelete
  <2>4. CASE Viewed(h) \/ DeleteAnswered(h)
    BY <2>4, StartFrames DEF Viewed, DeleteAnswered
  <2>. QED
    BY <2>1, <2>2, <2>3, <2>4 DEF HandlerStep
<1>2. CallTypeOK'
  BY <1>0, <1>1, FrameStep
<1>3. UNCHANGED <<tagRef, manifests, pushed, tagsCache, todo>>
  BY DEF HandlerStep, ViewOnline, ViewCached, RequestDelete, Viewed, DeleteAnswered
<1>. QED
  BY <1>2, <1>3 DEF CallTypeOK, TypeOK

\* Every step of RefreshTags keeps the types.
LEMMA TypeRefresher ==
  ASSUME TypeOK, RefresherStep
  PROVE  TypeOK'
<1>0. Refresher \in Procs
  BY ProcsAssumption
<1>1. CASE RefreshCycle
  BY <1>1 DEF RefreshCycle, TypeOK
<1>2. CASE \E r \in Repos : RefreshRepo(r)
  <2>1. PICK r \in Repos : RefreshRepo(r)
    BY <1>2
  <2>2. CallTypeOK'
    BY <1>0, <2>1, StartFrames, FrameStep DEF RefreshRepo
  <2>. QED
    BY <2>1, <2>2 DEF CallTypeOK, TypeOK, RefreshRepo
<1>3. CASE RefreshedRepo
  <2>1. CallTypeOK'
    BY <1>0, <1>3, StartFrames, FrameStep DEF RefreshedRepo
  <2>. QED
    BY <1>3, <2>1 DEF CallTypeOK, TypeOK, RefreshedRepo
<1>. QED
  BY <1>1, <1>2, <1>3 DEF RefresherStep

\* A push keeps the types.
LEMMA TypePush ==
  ASSUME TypeOK, NEW r \in Repos, NEW t \in Tags, NEW d \in Digests, Push(r, t, d)
  PROVE  TypeOK'
BY DEF Push, TypeOK

\* The types are inductive.
LEMMA TypeNext == TypeOK /\ [Next]_vars => TypeOK'
<1>1. SUFFICES ASSUME TypeOK, [Next]_vars PROVE TypeOK'
  OBVIOUS
<1>2. CASE UNCHANGED vars
  BY <1>1, <1>2 DEF vars, TypeOK
<1>3. CASE Next
  BY <1>1, <1>3, TypePush, TypeFetch, TypeDelete, TypeHandler, TypeRefresher DEF Next
<1>. QED
  BY <1>1, <1>2, <1>3

\* Every variable of the client, and every frame of a goroutine inside one of
\* its methods, has its type in every reachable state.
THEOREM TypeCorrect == Spec => []TypeOK
BY TypeInit, TypeNext, PTL DEF Spec
=============================================================================
