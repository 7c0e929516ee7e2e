----------------------------- MODULE PurgeProofs -----------------------------
(***************************************************************************)
(* Proofs about the purge task on a live registry, for any number of       *)
(* repositories, tags and goroutines, any options and any catalog, also    *)
(* one that names a repository twice.                                      *)
(***************************************************************************)
EXTENDS PurgeRefinement, CatalogPurge, ClientProofs, RetentionProofs, CatalogProofs

-----------------------------------------------------------------------------
(***************************************************************************)
(* The inductive invariant.                                                *)
(***************************************************************************)

\* Tags point to manifests that were pushed, each to one of its own.
RefsPushed == \A r \in Repos : \A t \in Tags :
                tagRef[r][t] # None => tagRef[r][t] \in pushed[r]

\* What a DeleteTag call is about to delete is a manifest that was pushed, and
\* no tag but the one it was resolved from points to it.
DeleteInv ==
  \A p \in Procs : call[p].pc = "delete" =>
    /\ call[p].digest \in pushed[call[p].repo]
    /\ \A t \in Tags : tagRef[call[p].repo][t] = call[p].digest => t = call[p].tag

RegistryInv == NoAliases /\ RefsPushed /\ DeleteInv

\* The names on the scanned lists are tags.
ScannedInv == \A r \in Repos : \A i \in DOMAIN scanned[r] : scanned[r][i].name \in Tags

\* There is something to delete only in the delete loop of a real run.
LeftInv == /\ stage # "purge" => left = Nothing
           /\ dryRun => left = Nothing
           /\ stage \in {"idle", "fetch", "scan"} => deleted = Nothing /\ failed = Nothing

Deleting == {"get", "delete", "uncache"}

\* Where the run is when it is inside a call of the client.
CallInv ==
  /\ stage = "fetch" /\ call[Purger].pc # "idle" => todoRepos # <<>>
  /\ stage = "purge" /\ call[Purger].pc # "idle" => \E r \in Repos : left[r] # {}
  /\ stage \notin {"fetch", "purge"} => call[Purger].pc = "idle"
  /\ call[Purger].pc \in Deleting =>
       stage = "purge" /\ call[Purger].tag \in Candidates(call[Purger].repo)

PurgeInv == PurgeTypeOK /\ ScannedInv /\ LeftInv /\ CallInv

-----------------------------------------------------------------------------
(***************************************************************************)
(* What a step of the client does to the purge's own frame.                *)
(***************************************************************************)
\* The purge runs on a goroutine of its own.
LEMMA PurgerProc == Purger \in Procs /\ Purger \notin Handlers /\ Purger # Refresher
BY PurgerAssumption

\* Within a client method, the purge's frame keeps its arguments, does not
\* become idle, and is inside DeleteTag only if it was before.
FrameMoves(f, g) ==
  \/ g = f
  \/ /\ f.pc # "idle" /\ g.pc # "idle"
     /\ g.pc \in Deleting => f.pc \in Deleting /\ g.tag = f.tag /\ g.repo = f.repo

\* A step of a client method changes the frame of the goroutine that takes it.
LEMMA MethodFrame ==
  ASSUME call \in [Procs -> Frame], NEW p \in Procs, FetchStep(p) \/ DeleteStep(p)
  PROVE  /\ FrameMoves(call[p], call'[p])
         /\ \A q \in Procs : q # p => call'[q] = call[q]
<1>. USE DEF FrameMoves, Frame, Deleting
<1>1. CASE ListPage(p)
  BY <1>1 DEF ListPage
<1>2. CASE ListLastPage(p)
  BY <1>2 DEF ListLastPage
<1>3. CASE ListFail(p)
  BY <1>3 DEF ListFail
<1>4. CASE StoreTags(p)
  BY <1>4 DEF StoreTags
<1>5. CASE ResolveTag(p)
  BY <1>5 DEF ResolveTag
<1>6. CASE ResolveFail(p)
  BY <1>6 DEF ResolveFail
<1>7. CASE DeleteManifest(p)
  BY <1>7 DEF DeleteManifest
<1>8. CASE DeleteAnswerLost(p)
  BY <1>8 DEF DeleteAnswerLost
<1>9. CASE DeleteFail(p)
  BY <1>9 DEF DeleteFail
<1>10. CASE Uncache(p)
  BY <1>10 DEF Uncache
<1>. QED
  BY <1>1, <1>2, <1>3, <1>4, <1>5, <1>6, <1>7, <1>8, <1>9, <1>10
     DEF FetchStep, DeleteStep

\* The steps of handlers, of the refresh and of pushes are none of a method.
OtherStep == \/ \E r \in Repos, t \in Tags, d \in Digests : Push(r, t, d)
             \/ \E h \in Handlers : HandlerStep(h)
             \/ RefresherStep

\* The other steps leave the purge's frame alone and begin no manifest deletion.
LEMMA OtherFrame ==
  ASSUME call \in [Procs -> Frame], OtherStep
  PROVE  /\ call'[Purger] = call[Purger]
         /\ \A q \in Procs : call'[q] = call[q] \/ call'[q].pc # "delete"
<1>. USE ProcsAssumption, PurgerProc
<1>1. CASE \E r \in Repos, t \in Tags, d \in Digests : Push(r, t, d)
  BY <1>1 DEF Push
<1>2. CASE \E h \in Handlers : HandlerStep(h)
  <2>1. PICK h \in Handlers : HandlerStep(h)
    BY <1>2
  <2>2. CASE \E r \in Repos : ViewOnline(h, r)
    BY <2>2 DEF ViewOnline, FetchFrame, IdleFrame
  <2>3. CASE \E r \in Repos : ViewCached(h, r)
    BY <2>3 DEF ViewCached, IdleFrame
  <2>4. CASE \E r \in Repos, t \in Tags : RequestDelete(h, r, t)
    BY <2>4 DEF RequestDelete, DeleteFrame, IdleFrame
  <2>5. CASE Viewed(h) \/ DeleteAnswered(h)
    BY <2>5 DEF Viewed, DeleteAnswered, IdleFrame
  <2>. QED
    BY <2>1, <2>2, <2>3, <2>4, <2>5 DEF HandlerStep
<1>3. CASE RefresherStep
  <2>1. CASE RefreshCycle
    BY <2>1 DEF RefreshCycle
  <2>2. CASE \E r \in Repos : RefreshRepo(r)
    BY <2>2 DEF RefreshRepo, FetchFrame, IdleFrame
  <2>3. CASE RefreshedRepo
    BY <2>3 DEF RefreshedRepo, IdleFrame
  <2>. QED
    BY <1>3, <2>1, <2>2, <2>3 DEF RefresherStep
<1>. QED
  BY <1>1, <1>2, <1>3 DEF OtherStep

\* What any step of the client does to the purge's frame.
LEMMA PurgerFrame ==
  ASSUME TypeOK, [Next]_vars
  PROVE  FrameMoves(call[Purger], call'[Purger])
<1>0. call \in [Procs -> Frame]
  BY DEF TypeOK
<1>1. CASE UNCHANGED vars
  BY <1>1 DEF vars, FrameMoves
<1>2. CASE \E p \in Procs : FetchStep(p) \/ DeleteStep(p)
  BY <1>0, <1>2, MethodFrame, PurgerProc DEF FrameMoves
<1>3. CASE OtherStep
  BY <1>0, <1>3, OtherFrame DEF FrameMoves
<1>. QED
  BY <1>1, <1>2, <1>3 DEF Next, OtherStep

-----------------------------------------------------------------------------
(***************************************************************************)
(* What the run picks next exists.                                         *)
(***************************************************************************)
\* The scan loop has a next tag as long as tags are left.
LEMMA FirstTagExists ==
  ASSUME NEW tags \in SUBSET Tags, tags # {}
  PROVE  FirstTag(tags) \in tags
<1>1. tags \in SUBSET Nat
  BY NamesAssumption
<1>2. \E t \in tags : \A u \in tags : t <= u
  BY <1>1, NatMin
<1>. QED
  BY <1>2 DEF FirstTag

\* The delete loop has a next repository as long as candidates are left.
LEMMA FirstRepoExists ==
  ASSUME \E r \in Repos : left[r] # {}
  PROVE  FirstRepo \in Repos /\ left[FirstRepo] # {}
<1>. DEFINE R == {r \in Repos : left[r] # {}}
<1>1. R \in SUBSET Nat /\ R # {}
  BY ReposAssumption
<1>. HIDE DEF R
<1>2. PICK r \in R : \A q \in R : r <= q
  BY <1>1, NatMin
<1>3. \E x \in Repos : left[x] # {} /\ \A q \in Repos : left[q] # {} => x <= q
  BY <1>2 DEF R
<1>. QED
  BY <1>3 DEF FirstRepo

\* The delete loop has a next candidate in that repository.
LEMMA FirstLeftExists ==
  ASSUME PurgeTypeOK, NEW r \in Repos, left[r] # {}
  PROVE  FirstLeft(r) \in left[r]
<1>1. scanned[r] \in Seq(TagData) /\ left[r] \in SUBSET DOMAIN scanned[r]
  BY DEF PurgeTypeOK
<1>2. \E i \in left[r] : \A j \in left[r] : j # i => Before(scanned[r], i, j)
  BY <1>1, FirstPosition
<1>. QED
  BY <1>2 DEF FirstLeft

-----------------------------------------------------------------------------
(***************************************************************************)
(* PurgeInv is inductive.                                                  *)
(***************************************************************************)
\* The invariant holds before the first run.
LEMMA PurgeInvInit == PurgeInit => PurgeInv
<1>1. SUFFICES ASSUME PurgeInit PROVE PurgeInv
  OBVIOUS
<1>2. TypeOK
  BY <1>1, TypeInit DEF PurgeInit
<1>3. call[Purger].pc = "idle"
  BY <1>1, PurgerProc DEF PurgeInit, Init, IdleFrame
<1>4. /\ stage = "idle" /\ dryRun = FALSE /\ success = TRUE
      /\ todoRepos = <<>> /\ todoTags = {}
      /\ scanned = [r \in Repos |-> <<>>]
      /\ purgeTags = Nothing /\ left = Nothing /\ deleted = Nothing /\ failed = Nothing
  BY <1>1 DEF PurgeInit
<1>5. PurgeTypeOK
  <2>1. dryRun \in BOOLEAN /\ success \in BOOLEAN
    BY <1>4
  <2>2. /\ stage \in {"idle", "fetch", "scan", "purge", "done"} /\ stage # "scan"
        /\ todoRepos \in Seq(Repos) /\ todoTags \in SUBSET Tags
    BY <1>4
  <2>3. scanned \in [Repos -> Seq(TagData)]
    BY <1>4
  <2>4. Nothing \in [Repos -> SUBSET Nat] /\ \A r \in Repos : Nothing[r] = {}
    BY DEF Nothing
  <2>. QED
    BY <1>2, <1>4, <2>1, <2>2, <2>3, <2>4 DEF PurgeTypeOK
<1>6. ScannedInv
  <2>1. \A r \in Repos : scanned[r] = <<>>
    BY <1>4
  <2>. QED
    BY <2>1 DEF ScannedInv
<1>7. LeftInv /\ CallInv
  BY <1>3, <1>4 DEF LeftInv, CallInv, Deleting
<1>. QED
  BY <1>5, <1>6, <1>7 DEF PurgeInv

\* Steps of the client.
LEMMA ClientKeeps ==
  ASSUME PurgeInv, [Next]_vars, UNCHANGED purgeVars
  PROVE  PurgeInv'
<1>1. TypeOK'
  BY TypeNext DEF PurgeInv, PurgeTypeOK
<1>2. PurgeTypeOK' /\ ScannedInv' /\ LeftInv'
  BY <1>1 DEF PurgeInv, PurgeTypeOK, ScannedInv, LeftInv, purgeVars, Nothing
<1>3. CallInv'
  <2>1. FrameMoves(call[Purger], call'[Purger])
    BY PurgerFrame DEF PurgeInv, PurgeTypeOK
  <2>2. UNCHANGED <<stage, todoRepos, left, scanned, purgeTags>>
    BY DEF purgeVars
  <2>3. CallInv
    BY DEF PurgeInv
  <2>. QED
    BY <2>1, <2>2, <2>3 DEF CallInv, FrameMoves, Candidates, NamesAt
<1>. QED
  BY <1>2, <1>3 DEF PurgeInv

\* A step that gives the purge a new frame keeps the client's types.
LEMMA NewFrame ==
  ASSUME TypeOK, NEW f, GoodFrame(f), call' = [call EXCEPT ![Purger] = f],
         UNCHANGED <<tagRef, manifests, pushed, tagsCache, todo>>
  PROVE  TypeOK' /\ call'[Purger] = f
<1>1. CallTypeOK'
  BY FrameStep, PurgerProc
<1>2. call'[Purger] = f
  BY PurgerProc DEF TypeOK
<1>. QED
  BY <1>1, <1>2 DEF TypeOK, CallTypeOK

\* The steps up to the scan.
LEMMA StartKeeps ==
  ASSUME PurgeInv,
         \/ \E dry \in BOOLEAN : RefusePurge(dry)
         \/ \E dry \in BOOLEAN, catalog \in Catalogs : StartPurge(dry, catalog)
  PROVE  PurgeInv'
<1>1. UNCHANGED <<vars, todoTags, scanned, purgeTags, left, deleted, failed>>
  BY DEF RefusePurge, StartPurge
<1>2. TypeOK' /\ call' = call
  BY <1>1, TypeNext DEF PurgeInv, PurgeTypeOK, vars
<1>3. /\ stage = "idle" /\ stage' \in {"done", "fetch"}
      /\ dryRun' \in BOOLEAN /\ success' \in BOOLEAN
      /\ todoRepos' \in Seq(Repos)
  BY PurgeConfigAssumption DEF RefusePurge, StartPurge, PurgeInv, PurgeTypeOK
<1>4. call[Purger].pc = "idle"
  BY <1>3 DEF PurgeInv, CallInv
<1>5. PurgeTypeOK' /\ ScannedInv'
  BY <1>1, <1>2, <1>3 DEF PurgeInv, PurgeTypeOK, ScannedInv
<1>6. LeftInv'
  BY <1>1, <1>3 DEF PurgeInv, LeftInv, Nothing
<1>7. CallInv'
  BY <1>2, <1>3, <1>4 DEF CallInv, Deleting
<1>. QED
  BY <1>5, <1>6, <1>7 DEF PurgeInv

\* The calls that list a repository's tags.
LEMMA FetchKeeps ==
  ASSUME PurgeInv, FetchRepo \/ FetchedRepo
  PROVE  PurgeInv'
<1>1. CASE FetchRepo
  <2>1. Head(todoRepos) \in Repos
    BY <1>1 DEF FetchRepo, PurgeInv, PurgeTypeOK
  <2>2. TypeOK' /\ call'[Purger] = FetchFrame(Head(todoRepos))
    BY <1>1, <2>1, NewFrame, StartFrames DEF FetchRepo, PurgeInv, PurgeTypeOK
  <2>3. call'[Purger].pc = "list"
    BY <2>2 DEF FetchFrame, IdleFrame
  <2>4. UNCHANGED purgeVars /\ stage = "fetch" /\ todoRepos # <<>>
    BY <1>1 DEF FetchRepo
  <2>5. PurgeTypeOK' /\ ScannedInv' /\ LeftInv'
    BY <2>2, <2>4 DEF PurgeInv, PurgeTypeOK, ScannedInv, LeftInv, purgeVars, Nothing
  <2>6. CallInv'
    BY <2>3, <2>4 DEF CallInv, Deleting, purgeVars
  <2>. QED
    BY <2>5, <2>6 DEF PurgeInv
<1>2. CASE FetchedRepo
  <2>1. TypeOK' /\ call'[Purger] = IdleFrame
    BY <1>2, NewFrame, StartFrames DEF FetchedRepo, PurgeInv, PurgeTypeOK
  <2>2. call'[Purger].pc = "idle"
    BY <2>1 DEF IdleFrame
  <2>3. call[Purger].tags \in SUBSET Tags
    BY PurgerProc, OldFrame DEF PurgeInv, PurgeTypeOK, GoodFrame, Frame
  <2>4. todoRepos # <<>>
    BY <1>2 DEF FetchedRepo, PurgeInv, CallInv
  <2>5. /\ stage = "fetch" /\ stage' = "scan" /\ todoTags' = call[Purger].tags
        /\ UNCHANGED <<dryRun, success, todoRepos, scanned, purgeTags, left, deleted, failed>>
    BY <1>2 DEF FetchedRepo
  <2>6. PurgeTypeOK' /\ ScannedInv' /\ LeftInv'
    BY <2>1, <2>3, <2>4, <2>5 DEF PurgeInv, PurgeTypeOK, ScannedInv, LeftInv, Nothing
  <2>7. CallInv'
    BY <2>2, <2>5 DEF CallInv, Deleting
  <2>. QED
    BY <2>6, <2>7 DEF PurgeInv
<1>. QED
  BY <1>1, <1>2

\* GetImageInfo's date is none or an integer.
LEMMA DateType ==
  ASSUME NEW d \in Digests, GetImageInfoCreated(d) # ZeroTime
  PROVE  GetImageInfoCreated(d) \in Int
<1>1. ConfigCreated[d] \in Dates /\ AnnotationCreated[d] \in Dates
  BY ManifestAssumption, PurgeConfigAssumption
<1>. QED
  BY <1>1 DEF GetImageInfoCreated, ImageDate, ExtractCreatedFromAnnotations, Dates

\* The scan loop.
LEMMA ScanKeeps ==
  ASSUME PurgeInv, ScanTag \/ ScanFail \/ ScannedRepo
  PROVE  PurgeInv'
<1>0. /\ stage = "scan" /\ call[Purger].pc = "idle" /\ todoRepos # <<>>
      /\ todoRepos \in Seq(Repos) /\ todoTags \in SUBSET Tags
  BY DEF ScanTag, ScanFail, ScannedRepo, PurgeInv, CallInv, PurgeTypeOK
<1>1. UNCHANGED <<vars, dryRun, purgeTags, left, deleted, failed>>
  BY DEF ScanTag, ScanFail, ScannedRepo
<1>2. TypeOK' /\ call' = call
  BY <1>1, TypeNext DEF PurgeInv, PurgeTypeOK, vars
<1>3. CASE ScanTag
  <2>. DEFINE r == Head(todoRepos)
              t == FirstTag(todoTags)
              created == GetImageInfoCreated(tagRef[r][t])
              td == [name |-> t, created |-> created]
  <2>1. r \in Repos /\ t \in Tags
    BY <1>0, <1>3, FirstTagExists DEF ScanTag
  <2>2. tagRef[r][t] \in Digests
    BY <1>3, <2>1 DEF ScanTag, PurgeInv, PurgeTypeOK, TypeOK
  <2>3. created # ZeroTime => td \in TagData
    <3>1. t \in Nat
      BY <2>1, NamesAssumption
    <3>2. created # ZeroTime => created \in Int
      BY <2>2, DateType
    <3>. QED
      BY <3>1, <3>2 DEF TagData
  <2>4. /\ scanned' = IF created = ZeroTime THEN scanned
                      ELSE [scanned EXCEPT ![r] = Append(@, td)]
        /\ todoTags' = todoTags \ {t}
        /\ UNCHANGED <<stage, success, todoRepos>>
    BY <1>3 DEF ScanTag
  <2>5. td.name = t
    OBVIOUS
  <2>. HIDE DEF r, t, created, td
  <2>6. /\ scanned' \in [Repos -> Seq(TagData)]
        /\ \A q \in Repos : DOMAIN scanned[q] \subseteq DOMAIN scanned'[q]
        /\ \A q \in Repos : \A i \in DOMAIN scanned'[q] : scanned'[q][i].name \in Tags
    <3>0. scanned \in [Repos -> Seq(TagData)] /\ ScannedInv
      BY DEF PurgeInv, PurgeTypeOK
    <3>1. CASE created = ZeroTime
      BY <2>4, <3>0, <3>1 DEF ScannedInv
    <3>2. CASE created # ZeroTime
      <4>1. /\ scanned' = [scanned EXCEPT ![r] = Append(scanned[r], td)]
            /\ td \in TagData
        BY <2>3, <2>4, <3>2
      <4>2. /\ Append(scanned[r], td) \in Seq(TagData)
            /\ DOMAIN scanned[r] \subseteq DOMAIN Append(scanned[r], td)
            /\ \A i \in DOMAIN Append(scanned[r], td) :
                 Append(scanned[r], td)[i] = td \/ (i \in DOMAIN scanned[r]
                    /\ Append(scanned[r], td)[i] = scanned[r][i])
        BY <2>1, <3>0, <4>1
      <4>3. \A i \in DOMAIN Append(scanned[r], td) : Append(scanned[r], td)[i].name \in Tags
        BY <2>1, <2>5, <3>0, <4>2 DEF ScannedInv
      <4>. QED
        BY <2>1, <3>0, <4>1, <4>2, <4>3 DEF ScannedInv
    <3>. QED
      BY <3>1, <3>2
  <2>7. PurgeTypeOK'
    BY <1>0, <1>1, <1>2, <2>4, <2>6 DEF PurgeInv, PurgeTypeOK
  <2>8. ScannedInv' /\ LeftInv' /\ CallInv'
    BY <1>0, <1>1, <1>2, <2>4, <2>6 DEF ScannedInv, PurgeInv, LeftInv, CallInv, Nothing, Deleting
  <2>. QED
    BY <2>7, <2>8 DEF PurgeInv
<1>4. CASE ScanFail
  <2>1. /\ success' = FALSE /\ todoTags' \in SUBSET Tags
        /\ UNCHANGED <<stage, todoRepos, scanned>>
    BY <1>0, <1>4 DEF ScanFail
  <2>2. PurgeTypeOK'
    BY <1>0, <1>1, <1>2, <2>1 DEF PurgeInv, PurgeTypeOK
  <2>3. ScannedInv' /\ LeftInv' /\ CallInv'
    BY <1>0, <1>1, <1>2, <2>1 DEF ScannedInv, PurgeInv, LeftInv, CallInv, Nothing, Deleting
  <2>. QED
    BY <2>2, <2>3 DEF PurgeInv
<1>5. CASE ScannedRepo
  <2>1. /\ todoRepos' \in Seq(Repos) /\ stage' = "fetch"
        /\ UNCHANGED <<success, todoTags, scanned>>
    BY <1>0, <1>5 DEF ScannedRepo
  <2>2. PurgeTypeOK'
    BY <1>0, <1>1, <1>2, <2>1 DEF PurgeInv, PurgeTypeOK
  <2>3. ScannedInv' /\ LeftInv' /\ CallInv'
    BY <1>0, <1>1, <1>2, <2>1 DEF ScannedInv, PurgeInv, LeftInv, CallInv, Nothing, Deleting
  <2>. QED
    BY <2>2, <2>3 DEF PurgeInv
<1>. QED
  BY <1>3, <1>4, <1>5

\* The filter.
LEMMA FilterKeeps ==
  ASSUME PurgeInv, FilterTags
  PROVE  PurgeInv'
<1>1. /\ stage = "fetch" /\ stage' = "purge" /\ call[Purger].pc = "idle"
      /\ UNCHANGED <<vars, dryRun, success, todoRepos, todoTags, scanned, deleted, failed>>
      /\ purgeTags' = [r \in Repos |-> PurgeSet(scanned[r], Now, TagsFromFile(r))]
      /\ left' = IF dryRun THEN Nothing ELSE purgeTags'
  BY DEF FilterTags
<1>2. TypeOK' /\ call' = call
  BY <1>1, TypeNext DEF PurgeInv, PurgeTypeOK, vars
<1>3. scanned \in [Repos -> Seq(TagData)] /\ deleted = Nothing /\ failed = Nothing
  BY <1>1 DEF PurgeInv, PurgeTypeOK, LeftInv
<1>4. \A r \in Repos : purgeTags'[r] \subseteq DOMAIN scanned[r]
  BY <1>1, <1>3, FilterFinite
<1>5. \A r \in Repos : DOMAIN scanned[r] \subseteq Nat
  BY <1>3
<1>6. Nothing \in [Repos -> SUBSET Nat] /\ \A r \in Repos : Nothing[r] = {}
  BY DEF Nothing
<1>7. purgeTags' \in [Repos -> SUBSET Nat]
  BY <1>1, <1>4, <1>5
<1>8. left' \in [Repos -> SUBSET Nat] /\ \A r \in Repos : left'[r] \subseteq purgeTags'[r]
  BY <1>1, <1>6, <1>7
<1>9. PurgeTypeOK'
  BY <1>1, <1>2, <1>3, <1>4, <1>6, <1>7, <1>8 DEF PurgeInv, PurgeTypeOK
<1>10. ScannedInv'
  BY <1>1 DEF PurgeInv, ScannedInv
<1>11. LeftInv'
  BY <1>1 DEF LeftInv, Nothing
<1>12. CallInv'
  BY <1>1, <1>2 DEF CallInv, Deleting
<1>. QED
  BY <1>9, <1>10, <1>11, <1>12 DEF PurgeInv

\* The delete loop.
LEMMA PurgeTagKeeps ==
  ASSUME PurgeInv, PurgeTag
  PROVE  PurgeInv'
<1>. DEFINE r == FirstRepo
            i == FirstLeft(r)
            t == scanned[r][i].name
<1>1. r \in Repos /\ left[r] # {}
  BY FirstRepoExists DEF PurgeTag
<1>2. i \in left[r]
  BY <1>1, FirstLeftExists DEF PurgeInv
<1>3. i \in purgeTags[r] /\ i \in DOMAIN scanned[r]
  BY <1>1, <1>2 DEF PurgeInv, PurgeTypeOK
<1>4. t \in Tags /\ t \in Candidates(r)
  BY <1>1, <1>3 DEF PurgeInv, ScannedInv, Candidates, NamesAt
<1>5. /\ call' = [call EXCEPT ![Purger] = DeleteFrame(r, t)]
      /\ UNCHANGED <<tagRef, manifests, pushed, tagsCache, todo>>
      /\ UNCHANGED purgeVars
      /\ stage = "purge"
  BY DEF PurgeTag
<1>. HIDE DEF r, i, t
<1>6. TypeOK' /\ call'[Purger] = DeleteFrame(r, t)
  BY <1>1, <1>4, <1>5, NewFrame, StartFrames DEF PurgeInv, PurgeTypeOK
<1>7. call'[Purger].pc = "get" /\ call'[Purger].tag = t /\ call'[Purger].repo = r
  BY <1>6 DEF DeleteFrame, IdleFrame
<1>8. PurgeTypeOK' /\ ScannedInv' /\ LeftInv'
  BY <1>5, <1>6 DEF PurgeInv, PurgeTypeOK, ScannedInv, LeftInv, purgeVars, Nothing
<1>9. UNCHANGED <<stage, todoRepos, left, scanned, purgeTags>>
  BY <1>5 DEF purgeVars
<1>11. call'[Purger].tag \in Candidates(call[Purger].repo)'
  BY <1>4, <1>7, <1>9 DEF Candidates, NamesAt
<1>12. CallInv'
  BY <1>1, <1>5, <1>7, <1>9, <1>11 DEF CallInv, Deleting
<1>. QED
  BY <1>8, <1>12 DEF PurgeInv

\* The end of a DeleteTag call of the delete loop.
LEMMA PurgedTagKeeps ==
  ASSUME PurgeInv, PurgedTag
  PROVE  PurgeInv'
<1>. DEFINE r == FirstRepo
            i == FirstLeft(r)
<1>0. stage = "purge" /\ call[Purger].pc = "done"
  BY DEF PurgedTag
<1>1. r \in Repos /\ left[r] # {}
  BY <1>0, FirstRepoExists DEF PurgeInv, CallInv
<1>2. i \in left[r]
  BY <1>1, FirstLeftExists DEF PurgeInv
<1>3. /\ left' = [left EXCEPT ![r] = @ \ {i}]
      /\ deleted' = [deleted EXCEPT ![r] = @ \cup {i}] \/ deleted' = deleted
      /\ failed' = [failed EXCEPT ![r] = @ \cup {i}] \/ failed' = failed
      /\ call' = [call EXCEPT ![Purger] = IdleFrame]
      /\ UNCHANGED <<tagRef, manifests, pushed, tagsCache, todo>>
      /\ UNCHANGED <<stage, dryRun, todoRepos, todoTags, scanned, purgeTags>>
  BY DEF PurgedTag
<1>4. success' \in BOOLEAN
  <2>1. success' = FALSE \/ success' = success
    BY DEF PurgedTag
  <2>2. success \in BOOLEAN
    BY DEF PurgeInv, PurgeTypeOK
  <2>. QED
    BY <2>1, <2>2
<1>. HIDE DEF r, i
<1>5. TypeOK' /\ call'[Purger] = IdleFrame
  BY <1>3, NewFrame, StartFrames DEF PurgeInv, PurgeTypeOK
<1>6. call'[Purger].pc = "idle"
  BY <1>5 DEF IdleFrame
<1>7. /\ left \in [Repos -> SUBSET Nat] /\ deleted \in [Repos -> SUBSET Nat]
      /\ failed \in [Repos -> SUBSET Nat]
      /\ \A q \in Repos : left[q] \cup deleted[q] \cup failed[q] \subseteq purgeTags[q]
  BY DEF PurgeInv, PurgeTypeOK
<1>8. /\ left' \in [Repos -> SUBSET Nat] /\ deleted' \in [Repos -> SUBSET Nat]
      /\ failed' \in [Repos -> SUBSET Nat]
  BY <1>1, <1>2, <1>3, <1>7
<1>9. \A q \in Repos : left'[q] \cup deleted'[q] \cup failed'[q] \subseteq purgeTags[q]
  BY <1>1, <1>2, <1>3, <1>7
<1>10. PurgeTypeOK'
  BY <1>0, <1>3, <1>4, <1>5, <1>8, <1>9 DEF PurgeInv, PurgeTypeOK
<1>11. ScannedInv'
  BY <1>3 DEF PurgeInv, ScannedInv
<1>12. LeftInv'
  <2>1. ~dryRun
    BY <1>1 DEF PurgeInv, LeftInv, Nothing
  <2>. QED
    BY <1>0, <1>3, <2>1 DEF LeftInv
<1>13. CallInv'
  BY <1>0, <1>3, <1>6 DEF CallInv, Deleting
<1>. QED
  BY <1>10, <1>11, <1>12, <1>13 DEF PurgeInv

\* The end of a run.
LEMMA EndKeeps ==
  ASSUME PurgeInv, FinishPurge \/ RecordPurge
  PROVE  PurgeInv'
<1>1. UNCHANGED <<vars, todoRepos, todoTags, left>>
  BY DEF FinishPurge, RecordPurge
<1>2. TypeOK' /\ call' = call
  BY <1>1, TypeNext DEF PurgeInv, PurgeTypeOK, vars
<1>3. Nothing \in [Repos -> SUBSET Nat] /\ \A r \in Repos : Nothing[r] = {}
  BY DEF Nothing
<1>4. CASE FinishPurge
  <2>1. /\ stage = "purge" /\ stage' = "done" /\ call[Purger].pc = "idle"
        /\ \A r \in Repos : left[r] = {}
        /\ UNCHANGED <<dryRun, success, scanned, purgeTags, deleted, failed>>
    BY <1>4 DEF FinishPurge
  <2>2. PurgeTypeOK' /\ ScannedInv'
    BY <1>1, <1>2, <2>1 DEF PurgeInv, PurgeTypeOK, ScannedInv
  <2>3. left = Nothing
    BY <2>1 DEF PurgeInv, PurgeTypeOK, Nothing
  <2>4. LeftInv' /\ CallInv'
    BY <1>1, <1>2, <2>1, <2>3 DEF LeftInv, CallInv, Deleting, Nothing
  <2>. QED
    BY <2>2, <2>4 DEF PurgeInv
<1>5. CASE RecordPurge
  <2>1. /\ stage = "done" /\ stage' = "idle"
        /\ scanned' = [r \in Repos |-> <<>>]
        /\ purgeTags' = Nothing /\ deleted' = Nothing /\ failed' = Nothing
    BY <1>5 DEF RecordPurge
  <2>2. call[Purger].pc = "idle" /\ left = Nothing
    BY <2>1 DEF PurgeInv, CallInv, LeftInv
  <2>3. dryRun' \in BOOLEAN /\ success' \in BOOLEAN
    BY <1>5 DEF RecordPurge
  <2>4. scanned' \in [Repos -> Seq(TagData)] /\ \A r \in Repos : scanned'[r] = <<>>
    BY <2>1
  <2>5. PurgeTypeOK'
    BY <1>1, <1>2, <1>3, <2>1, <2>2, <2>3, <2>4 DEF PurgeInv, PurgeTypeOK
  <2>6. ScannedInv'
    BY <2>4 DEF ScannedInv
  <2>7. LeftInv' /\ CallInv'
    BY <1>1, <1>2, <2>1, <2>2 DEF LeftInv, CallInv, Deleting, Nothing
  <2>. QED
    BY <2>5, <2>6, <2>7 DEF PurgeInv
<1>. QED
  BY <1>4, <1>5

\* Every step keeps the invariant.
LEMMA PurgeInvNext == PurgeInv /\ [PurgeNext]_pvars => PurgeInv'
<1>1. SUFFICES ASSUME PurgeInv, [PurgeNext]_pvars PROVE PurgeInv'
  OBVIOUS
<1>2. CASE UNCHANGED pvars
  BY <1>1, <1>2, ClientKeeps DEF pvars
<1>3. CASE Next /\ UNCHANGED purgeVars
  BY <1>1, <1>3, ClientKeeps
<1>4. CASE \E dry \in BOOLEAN :
             RefusePurge(dry) \/ \E catalog \in Catalogs : StartPurge(dry, catalog)
  BY <1>1, <1>4, StartKeeps
<1>5. CASE PurgerStep
  BY <1>1, <1>5, FetchKeeps, ScanKeeps, FilterKeeps, PurgeTagKeeps, PurgedTagKeeps,
     EndKeeps DEF PurgerStep
<1>. QED
  BY <1>1, <1>2, <1>3, <1>4, <1>5 DEF PurgeNext

\* The variables of a run have their types, and what is deleted, failed or left
\* to delete is always part of what was decided to purge.
THEOREM PurgeTypeCorrect == PurgeSpec => []PurgeTypeOK
<1>1. PurgeInv => PurgeTypeOK
  BY DEF PurgeInv
<1>. QED
  BY <1>1, PurgeInvInit, PurgeInvNext, PTL DEF PurgeSpec

-----------------------------------------------------------------------------
(***************************************************************************)
(* RegistryInv is inductive when an image is tagged only once.             *)
(***************************************************************************)
\* The registry's part holds when the client starts.
LEMMA RegistryInvInit == ~Retagging /\ Init => RegistryInv
<1>1. SUFFICES ASSUME ~Retagging, Init PROVE RegistryInv
  OBVIOUS
<1>2. NoAliases
  BY <1>1 DEF Init
<1>3. RefsPushed
  BY <1>1 DEF Init, RefsPushed, Present
<1>4. DeleteInv
  BY <1>1 DEF Init, DeleteInv, IdleFrame
<1>. QED
  BY <1>2, <1>3, <1>4 DEF RegistryInv

\* A step that leaves the registry alone keeps it if no frame comes to "delete".
LEMMA SameRegistry ==
  ASSUME RegistryInv, UNCHANGED <<tagRef, pushed>>,
         \A p \in Procs : call'[p] = call[p] \/ call'[p].pc # "delete"
  PROVE  RegistryInv'
BY DEF RegistryInv, NoAliases, RefsPushed, DeleteInv, Present

\* A push brings a manifest no tag points to and no call is about to delete.
LEMMA PushKeeps ==
  ASSUME RegistryInv, TypeOK, ~Retagging,
         NEW r \in Repos, NEW t \in Tags, NEW d \in Digests, Push(r, t, d)
  PROVE  RegistryInv'
<1>1. /\ d \notin pushed[r]
      /\ tagRef' = [tagRef EXCEPT ![r][t] = d]
      /\ pushed' = [pushed EXCEPT ![r] = @ \cup {d}]
      /\ call' = call
  BY DEF Push
<1>2. /\ tagRef \in [Repos -> [Tags -> Digests \cup {None}]]
      /\ pushed \in [Repos -> SUBSET Digests]
  BY DEF TypeOK
<1>3. /\ \A q \in Repos : \A u \in Tags :
           tagRef'[q][u] = IF q = r /\ u = t THEN d ELSE tagRef[q][u]
      /\ \A q \in Repos : pushed'[q] = IF q = r THEN pushed[q] \cup {d} ELSE pushed[q]
  BY <1>1, <1>2
<1>4. \A u \in Tags : tagRef[r][u] # d
  BY <1>1, NoneAssumption DEF RegistryInv, RefsPushed
<1>5. NoAliases'
  BY <1>3, <1>4 DEF RegistryInv, NoAliases, Present
<1>6. RefsPushed'
  BY <1>3 DEF RegistryInv, RefsPushed
<1>7. DeleteInv'
  <2>1. SUFFICES ASSUME NEW p \in Procs, call[p].pc = "delete"
                 PROVE  /\ call[p].digest \in pushed'[call[p].repo]
                        /\ \A u \in Tags : tagRef'[call[p].repo][u] = call[p].digest
                                             => u = call[p].tag
    BY <1>1 DEF DeleteInv
  <2>2. /\ call[p].digest \in pushed[call[p].repo]
        /\ \A u \in Tags : tagRef[call[p].repo][u] = call[p].digest => u = call[p].tag
    BY <2>1 DEF RegistryInv, DeleteInv
  <2>3. call[p].repo \in Repos
    BY <2>1 DEF TypeOK
  <2>4. call[p].repo = r => call[p].digest # d
    BY <1>1, <2>2
  <2>. QED
    BY <1>3, <2>2, <2>3, <2>4
<1>. QED
  BY <1>5, <1>6, <1>7 DEF RegistryInv

\* Deleting a manifest takes tags away and adds none.
LEMMA RemoveKeeps ==
  ASSUME RegistryInv, TypeOK, NEW r \in Repos, NEW d \in Digests, RemoveManifest(r, d),
         \A p \in Procs : call'[p] = call[p] \/ call'[p].pc # "delete"
  PROVE  RegistryInv'
<1>1. /\ tagRef' = [tagRef EXCEPT ![r] = Untag(tagRef[r], d)]
      /\ pushed' = pushed
  BY DEF RemoveManifest
<1>2. tagRef \in [Repos -> [Tags -> Digests \cup {None}]]
  BY DEF TypeOK
<1>3. \A q \in Repos : \A u \in Tags :
        tagRef'[q][u] = IF q = r /\ tagRef[q][u] = d THEN None ELSE tagRef[q][u]
  BY <1>1, <1>2 DEF Untag
<1>4. NoAliases'
  BY <1>3 DEF RegistryInv, NoAliases, Present
<1>5. RefsPushed'
  BY <1>1, <1>3 DEF RegistryInv, RefsPushed
<1>6. DeleteInv'
  <2>1. SUFFICES ASSUME NEW p \in Procs, call'[p].pc = "delete"
                 PROVE  /\ call'[p].digest \in pushed'[call'[p].repo]
                        /\ \A u \in Tags : tagRef'[call'[p].repo][u] = call'[p].digest
                                             => u = call'[p].tag
    BY DEF DeleteInv
  <2>2. call'[p] = call[p]
    BY <2>1
  <2>3. /\ call[p].digest \in pushed[call[p].repo]
        /\ \A u \in Tags : tagRef[call[p].repo][u] = call[p].digest => u = call[p].tag
    BY <2>1, <2>2 DEF RegistryInv, DeleteInv
  <2>4. call[p].repo \in Repos /\ pushed[call[p].repo] \subseteq Digests
    BY <2>1, <2>2 DEF TypeOK
  <2>5. call[p].digest # None
    BY <2>3, <2>4, NoneAssumption
  <2>. QED
    BY <1>1, <1>3, <2>2, <2>3, <2>4, <2>5
<1>. QED
  BY <1>4, <1>5, <1>6 DEF RegistryInv

\* The tag a DeleteTag call has just resolved is the only one of its manifest.
LEMMA ResolveKeeps ==
  ASSUME RegistryInv, TypeOK, NEW p \in Procs, ResolveTag(p)
  PROVE  RegistryInv'
<1>1. call \in [Procs -> Frame] /\ call[p].pc = "get"
  BY DEF TypeOK, ResolveTag
<1>2. call[p].repo \in Repos /\ call[p].tag \in Tags
  BY <1>1 DEF TypeOK
<1>3. /\ call'[p].repo = call[p].repo /\ call'[p].tag = call[p].tag
      /\ call'[p].digest = tagRef[call[p].repo][call[p].tag]
      /\ \A q \in Procs : q # p => call'[q] = call[q]
  BY <1>1 DEF ResolveTag, Frame
<1>4. /\ UNCHANGED <<tagRef, pushed>>
      /\ tagRef[call[p].repo][call[p].tag] # None
  BY DEF ResolveTag
<1>5. tagRef[call[p].repo][call[p].tag] \in pushed[call[p].repo]
  BY <1>2, <1>4 DEF RegistryInv, RefsPushed
<1>6. \A u \in Tags : tagRef[call[p].repo][u] = tagRef[call[p].repo][call[p].tag]
                        => u = call[p].tag
  BY <1>2, <1>4 DEF RegistryInv, NoAliases, Present
<1>7. DeleteInv'
  BY <1>3, <1>4, <1>5, <1>6 DEF RegistryInv, DeleteInv
<1>. QED
  BY <1>4, <1>7 DEF RegistryInv, NoAliases, RefsPushed, Present

\* Every other step of a client method, by its effect on the registry.
LEMMA MethodKeeps ==
  ASSUME RegistryInv, TypeOK, NEW p \in Procs, FetchStep(p) \/ DeleteStep(p)
  PROVE  RegistryInv'
<1>0. call \in [Procs -> Frame]
  BY DEF TypeOK
<1>1. \A q \in Procs : q # p => call'[q] = call[q]
  BY <1>0, MethodFrame
<1>2. CASE FetchStep(p)
  <2>1. UNCHANGED <<tagRef, pushed>>
    BY <1>2 DEF FetchStep, ListPage, ListLastPage, ListFail, StoreTags
  <2>2. call'[p].pc # "delete"
    BY <1>0, <1>2 DEF FetchStep, ListPage, ListLastPage, ListFail, StoreTags, Frame
  <2>. QED
    BY <1>1, <2>1, <2>2, SameRegistry
<1>3. CASE ResolveTag(p)
  BY <1>3, ResolveKeeps
<1>4. CASE DeleteManifest(p) \/ DeleteAnswerLost(p)
  <2>1. call'[p].pc # "delete"
    BY <1>0, <1>4 DEF DeleteManifest, DeleteAnswerLost, Frame
  <2>2. call[p].repo \in Repos
    BY <1>4 DEF DeleteManifest, DeleteAnswerLost, TypeOK
  <2>3. call[p].digest \in Digests
    BY <1>4, <2>2 DEF DeleteManifest, DeleteAnswerLost, TypeOK
  <2>4. RemoveManifest(call[p].repo, call[p].digest)
    BY <1>4 DEF DeleteManifest, DeleteAnswerLost
  <2>5. \A q \in Procs : call'[q] = call[q] \/ call'[q].pc # "delete"
    BY <1>1, <2>1
  <2>. QED
    BY <2>2, <2>3, <2>4, <2>5, RemoveKeeps
<1>5. CASE ResolveFail(p) \/ DeleteFail(p) \/ Uncache(p)
  <2>1. UNCHANGED <<tagRef, pushed>>
    BY <1>5 DEF ResolveFail, DeleteFail, Uncache
  <2>2. call'[p].pc # "delete"
    BY <1>0, <1>5 DEF ResolveFail, DeleteFail, Uncache, Frame
  <2>. QED
    BY <1>1, <2>1, <2>2, SameRegistry
<1>. QED
  BY <1>2, <1>3, <1>4, <1>5 DEF DeleteStep

\* Pushes, handlers and the background refresh.
LEMMA OtherKeeps ==
  ASSUME RegistryInv, TypeOK, ~Retagging, OtherStep
  PROVE  RegistryInv'
<1>1. CASE \E r \in Repos, t \in Tags, d \in Digests : Push(r, t, d)
  BY <1>1, PushKeeps
<1>2. CASE ~ \E r \in Repos, t \in Tags, d \in Digests : Push(r, t, d)
  <2>1. UNCHANGED <<tagRef, pushed>>
    BY <1>2 DEF OtherStep, HandlerStep, RefresherStep, ViewOnline, ViewCached, RequestDelete,
                Viewed, DeleteAnswered, RefreshCycle, RefreshRepo, RefreshedRepo
  <2>2. \A q \in Procs : call'[q] = call[q] \/ call'[q].pc # "delete"
    BY OtherFrame DEF TypeOK
  <2>. QED
    BY <2>1, <2>2, SameRegistry
<1>. QED
  BY <1>1, <1>2

\* The steps of the run itself change the registry only through DeleteTag.
LEMMA RunKeeps ==
  ASSUME RegistryInv, TypeOK,
         \/ \E dry \in BOOLEAN :
              RefusePurge(dry) \/ \E catalog \in Catalogs : StartPurge(dry, catalog)
         \/ PurgerStep
  PROVE  RegistryInv' /\ tagRef' = tagRef
<1>0. call \in [Procs -> Frame]
  BY DEF TypeOK
<1>1. UNCHANGED <<tagRef, pushed>>
  BY DEF RefusePurge, StartPurge, PurgerStep, FetchRepo, FetchedRepo, ScanTag, ScanFail,
         ScannedRepo, FilterTags, PurgeTag, PurgedTag, FinishPurge, RecordPurge, vars
<1>2. \/ call' = call
      \/ \E f \in {FetchFrame(Head(todoRepos)), IdleFrame,
                   DeleteFrame(FirstRepo, scanned[FirstRepo][FirstLeft(FirstRepo)].name)} :
           call' = [call EXCEPT ![Purger] = f]
  BY DEF RefusePurge, StartPurge, PurgerStep, FetchRepo, FetchedRepo, ScanTag, ScanFail,
         ScannedRepo, FilterTags, PurgeTag, PurgedTag, FinishPurge, RecordPurge, vars
<1>3. \A q \in Procs : call'[q] = call[q] \/ call'[q].pc # "delete"
  <2>1. \A r, t : /\ FetchFrame(r).pc # "delete" /\ IdleFrame.pc # "delete"
                 /\ DeleteFrame(r, t).pc # "delete"
    BY DEF FetchFrame, IdleFrame, DeleteFrame
  <2>2. ASSUME NEW f, f.pc # "delete", call' = [call EXCEPT ![Purger] = f], NEW q \in Procs
        PROVE  call'[q] = call[q] \/ call'[q].pc # "delete"
    BY <1>0, <2>2
  <2>. QED
    BY <1>2, <2>1, <2>2
<1>. QED
  BY <1>1, <1>3, SameRegistry

\* Every step keeps the registry's part.
LEMMA RegistryInvNext ==
  ~Retagging /\ RegistryInv /\ PurgeInv /\ [PurgeNext]_pvars => RegistryInv'
<1>1. SUFFICES ASSUME ~Retagging, RegistryInv, PurgeInv, [PurgeNext]_pvars
               PROVE  RegistryInv'
  OBVIOUS
<1>2. TypeOK
  BY <1>1 DEF PurgeInv, PurgeTypeOK
<1>3. CASE UNCHANGED pvars
  BY <1>1, <1>3, SameRegistry DEF pvars, vars
<1>4. CASE Next
  BY <1>1, <1>2, <1>4, MethodKeeps, OtherKeeps DEF Next, OtherStep
<1>5. CASE \/ \E dry \in BOOLEAN :
                RefusePurge(dry) \/ \E catalog \in Catalogs : StartPurge(dry, catalog)
           \/ PurgerStep
  BY <1>1, <1>2, <1>5, RunKeeps
<1>. QED
  BY <1>1, <1>3, <1>4, <1>5 DEF PurgeNext

-----------------------------------------------------------------------------
(***************************************************************************)
(* What the purge removes.                                                 *)
(***************************************************************************)

\* The manifest that goes in a step of a DeleteTag call takes one tag with it,
\* the one the call was made for.
LEMMA OneTagGoes ==
  ASSUME RegistryInv, TypeOK, NEW p \in Procs, DeleteManifest(p) \/ DeleteAnswerLost(p),
         NEW r \in Repos, NEW t \in Lost(r)
  PROVE  r = call[p].repo /\ t = call[p].tag
<1>1. call[p].pc = "delete" /\ RemoveManifest(call[p].repo, call[p].digest)
  BY DEF DeleteManifest, DeleteAnswerLost
<1>2. call[p].repo \in Repos /\ tagRef \in [Repos -> [Tags -> Digests \cup {None}]]
  BY <1>1 DEF TypeOK
<1>3. \A q \in Repos : \A u \in Tags :
        tagRef'[q][u] = IF q = call[p].repo /\ tagRef[q][u] = call[p].digest
                        THEN None ELSE tagRef[q][u]
  BY <1>1, <1>2 DEF RemoveManifest, Untag
<1>4. t \in Tags /\ tagRef[r][t] # None /\ tagRef'[r][t] = None
  BY DEF Lost, Present
<1>5. r = call[p].repo /\ tagRef[r][t] = call[p].digest
  BY <1>3, <1>4
<1>. QED
  BY <1>1, <1>4, <1>5 DEF RegistryInv, DeleteInv

\* The purge is in one of the two steps of its own DeleteTag call.
LEMMA PurgerDeleteStep ==
  ASSUME TypeOK, RegistryInv, [PurgeNext]_pvars, PurgerDeletes
  PROVE  (DeleteManifest(Purger) \/ DeleteAnswerLost(Purger)) /\ UNCHANGED purgeVars
<1>0. call \in [Procs -> Frame]
  BY DEF TypeOK
<1>1. /\ call[Purger].pc = "delete" /\ call'[Purger] # call[Purger]
      /\ tagRef' # tagRef
  BY DEF PurgerDeletes
<1>2. Next /\ UNCHANGED purgeVars
  BY <1>1, RunKeeps DEF PurgeNext, pvars, vars
<1>3. ~OtherStep
  BY <1>0, <1>1, OtherFrame
<1>4. PICK p \in Procs : FetchStep(p) \/ DeleteStep(p)
  BY <1>2, <1>3 DEF Next, OtherStep
<1>5. p = Purger
  BY <1>0, <1>1, <1>4, MethodFrame, PurgerProc
<1>. QED
  BY <1>1, <1>2, <1>4, <1>5
     DEF FetchStep, DeleteStep, ListPage, ListLastPage, ListFail, StoreTags, ResolveTag,
         ResolveFail, DeleteFail, Uncache

\* The tag that goes is a candidate of a real run.
LEMMA DeletesCandidate ==
  ASSUME PurgeInv, RegistryInv, [PurgeNext]_pvars, PurgerDeletes
  PROVE  ~dryRun /\ \A r \in Repos : Lost(r) \subseteq Candidates(r)
<1>1. TypeOK
  BY DEF PurgeInv, PurgeTypeOK
<1>2. DeleteManifest(Purger) \/ DeleteAnswerLost(Purger)
  BY <1>1, PurgerDeleteStep
<1>3. call[Purger].pc = "delete"
  BY DEF PurgerDeletes
<1>4. stage = "purge" /\ call[Purger].tag \in Candidates(call[Purger].repo)
  BY <1>3 DEF PurgeInv, CallInv, Deleting
<1>5. ~dryRun
  BY <1>3, <1>4 DEF PurgeInv, CallInv, LeftInv, Nothing
<1>6. \A r \in Repos : \A t \in Lost(r) : r = call[Purger].repo /\ t = call[Purger].tag
  BY <1>1, <1>2, OneTagGoes, PurgerProc
<1>. QED
  BY <1>4, <1>5, <1>6

\* When an image is tagged only once, all a purge ever takes from a registry in
\* use are the tags it has put on its list, and a dry run takes nothing.
THEOREM PurgeTakesCandidates ==
  ASSUME ~Retagging
  PROVE  PurgeSpec => PurgeRemovesOnlyCandidates
<1>1. PurgeInit => PurgeInv /\ RegistryInv
  BY PurgeInvInit, RegistryInvInit DEF PurgeInit
<1>2. PurgeInv /\ RegistryInv /\ [PurgeNext]_pvars => PurgeInv' /\ RegistryInv'
  BY PurgeInvNext, RegistryInvNext
<1>3. PurgeInv /\ RegistryInv /\ [PurgeNext]_pvars =>
        [PurgerDeletes => ~dryRun /\ \A r \in Repos : Lost(r) \subseteq Candidates(r)]_pvars
  BY DeletesCandidate
<1>. QED
  BY <1>1, <1>2, <1>3, PTL DEF PurgeSpec, PurgeRemovesOnlyCandidates

-----------------------------------------------------------------------------
(***************************************************************************)
(* The tags of the configuration's keep lists.                             *)
(***************************************************************************)

\* What a run has decided to purge are expired tags that nothing protects.
DecidedInv ==
  \A r \in Repos : \A i \in purgeTags[r] :
    scanned[r][i].name \notin KeepRegexpTags \cup TagsFromFile(r)

\* Every step keeps the decisions.
LEMMA DecidedInvNext == PurgeInv /\ DecidedInv /\ [PurgeNext]_pvars => DecidedInv'
<1>1. SUFFICES ASSUME PurgeInv, DecidedInv, [PurgeNext]_pvars PROVE DecidedInv'
  OBVIOUS
<1>2. scanned \in [Repos -> Seq(TagData)] /\ \A r \in Repos : purgeTags[r] \subseteq DOMAIN scanned[r]
  BY <1>1 DEF PurgeInv, PurgeTypeOK
<1>3. CASE UNCHANGED <<scanned, purgeTags>>
  BY <1>1, <1>3 DEF DecidedInv, TagsFromFile
<1>4. CASE FilterTags
  <2>1. scanned' = scanned /\ purgeTags' = [r \in Repos |-> PurgeSet(scanned[r], Now, TagsFromFile(r))]
    BY <1>4 DEF FilterTags
  <2>. QED
    BY <1>2, <2>1, PurgesOnlyExpired DEF DecidedInv, TagsFromFile
<1>5. CASE RecordPurge
  BY <1>5 DEF RecordPurge, DecidedInv, Nothing
<1>6. CASE ScanTag
  <2>1. purgeTags' = purgeTags
    BY <1>6 DEF ScanTag
  <2>2. \A r \in Repos : \A i \in DOMAIN scanned[r] : scanned'[r][i] = scanned[r][i]
    BY <1>2, <1>6 DEF ScanTag
  <2>. QED
    BY <1>1, <1>2, <2>1, <2>2 DEF DecidedInv, TagsFromFile
<1>. QED
  BY <1>1, <1>3, <1>4, <1>5, <1>6
     DEF PurgeNext, PurgerStep, RefusePurge, StartPurge, FetchRepo, FetchedRepo, ScanFail,
         ScannedRepo, PurgeTag, PurgedTag, FinishPurge, purgeVars, pvars

\* When an image is tagged only once and the keep file can be looked up (it is
\* in use and no repository has a dot in its name), a purge never takes a tag
\* that keep_regexp matches or that the keep file lists.
THEOREM ProtectedTagsAreSafe ==
  ASSUME ~Retagging, KeepFromFile, DottedRepos = {}
  PROVE  PurgeSpec => ProtectedTagsSurvive
<1>1. PurgeInit => PurgeInv /\ RegistryInv /\ DecidedInv
  <2>1. PurgeInit => DecidedInv
    BY DEF PurgeInit, DecidedInv, Nothing
  <2>. QED
    BY <2>1, PurgeInvInit, RegistryInvInit DEF PurgeInit
<1>2. PurgeInv /\ RegistryInv /\ DecidedInv /\ [PurgeNext]_pvars
        => PurgeInv' /\ RegistryInv' /\ DecidedInv'
  BY PurgeInvNext, RegistryInvNext, DecidedInvNext
<1>3. PurgeInv /\ RegistryInv /\ DecidedInv /\ [PurgeNext]_pvars =>
        [PurgerDeletes => \A r \in Repos :
           Lost(r) \cap (KeepRegexpTags \cup KeepFileTags[r]) = {}]_pvars
  <2>1. SUFFICES ASSUME PurgeInv, RegistryInv, DecidedInv, [PurgeNext]_pvars, PurgerDeletes,
                        NEW r \in Repos, NEW t \in Lost(r)
                 PROVE  t \notin KeepRegexpTags \cup KeepFileTags[r]
    OBVIOUS
  <2>2. t \in Candidates(r)
    BY <2>1, DeletesCandidate
  <2>3. PICK i \in purgeTags[r] : t = scanned[r][i].name
    BY <2>2 DEF Candidates, NamesAt
  <2>. QED
    BY <2>1, <2>3 DEF DecidedInv, TagsFromFile
<1>. QED
  BY <1>1, <1>2, <1>3, PTL DEF PurgeSpec, ProtectedTagsSurvive

-----------------------------------------------------------------------------
(***************************************************************************)
(* What a run reports.                                                     *)
(***************************************************************************)
\* The candidates of repository r are split in those left, deleted and failed,
\* and success is lost with the first that failed.
Accounted(r) ==
  /\ left[r] \cap deleted[r] = {} /\ left[r] \cap failed[r] = {}
  /\ deleted[r] \cap failed[r] = {}
  /\ dryRun => deleted[r] = {} /\ failed[r] = {}
  /\ ~dryRun => left[r] \cup deleted[r] \cup failed[r] = purgeTags[r]
  /\ success => failed[r] = {}

AccountInv == /\ \A r \in Repos : Accounted(r)
              /\ stage \in {"idle", "fetch", "scan"} => purgeTags = Nothing

\* The account is empty before the first run.
LEMMA AccountInvInit == PurgeInit => AccountInv
BY DEF PurgeInit, AccountInv, Accounted, Nothing

\* Every step keeps the account.
LEMMA AccountInvNext == PurgeInv /\ AccountInv /\ [PurgeNext]_pvars => AccountInv'
<1>1. SUFFICES ASSUME PurgeInv, AccountInv, [PurgeNext]_pvars PROVE AccountInv'
  OBVIOUS
<1>2. /\ stage \in {"idle", "fetch", "scan"} =>
           left = Nothing /\ deleted = Nothing /\ failed = Nothing /\ purgeTags = Nothing
      /\ dryRun => left = Nothing
      /\ \A r \in Repos : Nothing[r] = {}
  BY <1>1 DEF PurgeInv, LeftInv, AccountInv, Nothing
<1>3. CASE \/ UNCHANGED pvars
           \/ Next /\ UNCHANGED purgeVars
           \/ FetchRepo \/ FetchedRepo \/ ScanTag \/ ScannedRepo \/ PurgeTag
  <2>1. /\ UNCHANGED <<dryRun, success, purgeTags, left, deleted, failed>>
        /\ stage' = stage \/ (stage' \in {"scan", "fetch"} /\ stage \in {"scan", "fetch"})
    BY <1>3 DEF pvars, purgeVars, FetchRepo, FetchedRepo, ScanTag, ScannedRepo, PurgeTag
  <2>. QED
    BY <1>1, <2>1 DEF AccountInv, Accounted, Nothing
<1>4. CASE ScanFail \/ \E dry \in BOOLEAN :
             RefusePurge(dry) \/ \E catalog \in Catalogs : StartPurge(dry, catalog)
  <2>1. stage \in {"idle", "scan"} /\ UNCHANGED <<purgeTags, left, deleted, failed>>
    BY <1>4 DEF ScanFail, RefusePurge, StartPurge
  <2>2. \A r \in Repos : left'[r] = {} /\ deleted'[r] = {} /\ failed'[r] = {} /\ purgeTags'[r] = {}
    BY <1>2, <2>1
  <2>3. purgeTags' = Nothing'
    BY <1>2, <2>1 DEF Nothing
  <2>. QED
    BY <2>2, <2>3 DEF AccountInv, Accounted
<1>5. CASE FilterTags
  <2>1. /\ stage = "fetch" /\ stage' = "purge"
        /\ left' = IF dryRun THEN Nothing ELSE purgeTags'
        /\ UNCHANGED <<dryRun, success, deleted, failed>>
    BY <1>5 DEF FilterTags
  <2>2. \A r \in Repos : deleted'[r] = {} /\ failed'[r] = {} /\ (~dryRun => left'[r] = purgeTags'[r])
    BY <1>2, <2>1
  <2>. QED
    BY <2>1, <2>2 DEF AccountInv, Accounted
<1>6. CASE PurgedTag
  <2>. DEFINE r == FirstRepo
              i == FirstLeft(r)
  <2>1. r \in Repos /\ left[r] # {}
    BY <1>1, <1>6, FirstRepoExists DEF PurgedTag, PurgeInv, CallInv
  <2>2. i \in left[r] /\ ~dryRun
    BY <1>1, <1>2, <2>1, FirstLeftExists DEF PurgeInv
  <2>3. /\ stage' = "purge" /\ UNCHANGED <<dryRun, purgeTags>>
        /\ left' = [left EXCEPT ![r] = @ \ {i}]
        /\ \/ /\ deleted' = [deleted EXCEPT ![r] = @ \cup {i}]
              /\ UNCHANGED <<failed, success>>
           \/ /\ failed' = [failed EXCEPT ![r] = @ \cup {i}]
              /\ success' = FALSE /\ UNCHANGED deleted
    BY <1>6 DEF PurgedTag
  <2>. HIDE DEF r, i
  <2>4. /\ left \in [Repos -> SUBSET Nat] /\ deleted \in [Repos -> SUBSET Nat]
        /\ failed \in [Repos -> SUBSET Nat]
    BY <1>1 DEF PurgeInv, PurgeTypeOK
  <2>5. SUFFICES ASSUME NEW q \in Repos PROVE Accounted(q)'
    BY <2>3 DEF AccountInv
  <2>6. Accounted(q)
    BY <1>1 DEF AccountInv
  <2>7. CASE q # r
    <3>1. left'[q] = left[q] /\ deleted'[q] = deleted[q] /\ failed'[q] = failed[q]
      BY <2>1, <2>3, <2>4, <2>7
    <3>2. success' => success
      BY <2>3
    <3>. QED
      BY <2>3, <2>6, <3>1, <3>2 DEF Accounted
  <2>8. CASE q = r
    <3>1. /\ left'[q] = left[q] \ {i} /\ i \in left[q]
          /\ \/ deleted'[q] = deleted[q] \cup {i} /\ failed'[q] = failed[q] /\ success' = success
             \/ failed'[q] = failed[q] \cup {i} /\ deleted'[q] = deleted[q] /\ success' = FALSE
      BY <2>1, <2>2, <2>3, <2>4, <2>8
    <3>. QED
      BY <2>2, <2>3, <2>6, <3>1 DEF Accounted
  <2>. QED
    BY <2>7, <2>8
<1>7. CASE FinishPurge
  BY <1>1, <1>7 DEF FinishPurge, AccountInv, Accounted
<1>8. CASE RecordPurge
  <2>1. left = Nothing /\ left' = left
    BY <1>1, <1>8 DEF RecordPurge, PurgeInv, LeftInv
  <2>2. purgeTags' = Nothing /\ deleted' = Nothing /\ failed' = Nothing
    BY <1>8 DEF RecordPurge
  <2>3. \A r \in Repos : left'[r] = {} /\ deleted'[r] = {} /\ failed'[r] = {} /\ purgeTags'[r] = {}
    BY <1>2, <2>1, <2>2
  <2>4. purgeTags' = Nothing'
    BY <2>2 DEF Nothing
  <2>. QED
    BY <2>3, <2>4 DEF AccountInv, Accounted
<1>. QED
  BY <1>1, <1>3, <1>4, <1>5, <1>6, <1>7, <1>8 DEF PurgeNext, PurgerStep

\* A run that has ended accounts for all its candidates, and a run that reports
\* success has deleted them all, for every catalog, whatever fails on the way
\* and whatever else goes on.
THEOREM RunsAccount == PurgeSpec => []FinishedRunAccounts
<1>1. PurgeInv /\ AccountInv => FinishedRunAccounts
  <2>1. SUFFICES ASSUME PurgeInv, AccountInv, stage = "done", NEW r \in Repos
                 PROVE  /\ deleted[r] \cap failed[r] = {}
                        /\ IF dryRun THEN deleted[r] \cup failed[r] = {}
                                     ELSE deleted[r] \cup failed[r] = purgeTags[r]
                        /\ success => failed[r] = {}
    BY DEF FinishedRunAccounts
  <2>2. left[r] = {}
    BY <2>1 DEF PurgeInv, LeftInv, Nothing
  <2>3. Accounted(r)
    BY <2>1 DEF AccountInv
  <2>. QED
    BY <2>2, <2>3 DEF Accounted
<1>. QED
  BY <1>1, PurgeInvInit, PurgeInvNext, AccountInvInit, AccountInvNext, PTL DEF PurgeSpec

-----------------------------------------------------------------------------
(***************************************************************************)
(* keep_count and the contract: nobody deletes tags but the purge, and for *)
(* some of it the runs work on lists that name every repository once.      *)
(***************************************************************************)
\* A user presses delete.
UserDeletes == \E h \in Handlers, r \in Repos, t \in Tags : RequestDelete(h, r, t)

NoUserDeletes == [][~UserDeletes]_pvars

\* A step that the theorems below are about.
Step == [PurgeNext]_pvars /\ [~UserDeletes]_pvars

OnceNamed(s) == \A i, j \in DOMAIN s : s[i].name = s[j].name => i = j

\* A run that starts has a list that names every repository once.
StartsOnce ==
  stage = "idle" /\ stage' = "fetch" =>
    \A i, j \in DOMAIN todoRepos' : todoRepos'[i] = todoRepos'[j] => i = j

ListsNameOnce == [][StartsOnce]_pvars

\* Only the purge is ever inside DeleteTag.
OthersInv == \A p \in Procs : p # Purger => call[p].pc \notin Deleting

\* Every repository is scanned once, and so every tag of it.
ScanInv ==
  /\ \A i, j \in DOMAIN todoRepos : todoRepos[i] = todoRepos[j] => i = j
  /\ stage \in {"idle", "purge", "done"} => todoRepos = <<>>
  /\ stage = "idle" => \A r \in Repos : scanned[r] = <<>>
  /\ \A i \in DOMAIN todoRepos : (stage = "scan" /\ i = 1) \/ scanned[todoRepos[i]] = <<>>
  /\ stage = "scan" => \A i \in DOMAIN scanned[Head(todoRepos)] :
                         scanned[Head(todoRepos)][i].name \notin todoTags
  /\ \A r \in Repos : OnceNamed(scanned[r])

\* The tags that were scanned are there, but for those decided to purge (of a
\* tag that was counted twice, one count may be kept and the other purged).
KeptInv == \A r \in Repos : OnceNamed(scanned[r]) =>
             \A i \in DOMAIN scanned[r] :
               i \notin purgeTags[r] => scanned[r][i].name \in Present(r)

\* What the delete loop works on is what the rule says.
RuleInv ==
  stage = "purge" =>
    \A r \in Repos : purgeTags[r] = PurgeSet(scanned[r], Now, TagsFromFile(r))

\* The delete loop is deleting the first candidate that is left.
AimInv ==
  stage = "purge" =>
    /\ call[Purger].pc \in Deleting \cup {"idle", "done"}
    /\ call[Purger].pc \in Deleting =>
         /\ call[Purger].repo = FirstRepo
         /\ call[Purger].tag = scanned[FirstRepo][FirstLeft(FirstRepo)].name

SoleInv == OthersInv /\ KeptInv /\ RuleInv /\ AimInv

\* The tags of repository r are counted once each.
CountedOnce(r) ==
  \A i, j \in DOMAIN scanned[r] : scanned[r][i].name = scanned[r][j].name => i = j

\* A repository whose tags were counted once each keeps keep_count of them, in
\* any run, also in one whose list is partial or torn or names other
\* repositories twice: doubling one repository costs no other one its tags.
KeepCountWhenCountedOnce ==
  [][PurgerDeletes => \A r \in Repos :
       CountedOnce(r) /\ Cardinality(Present(r)) >= KeepCount =>
         Cardinality(Present(r)') >= KeepCount]_pvars

\* What holds of every run ...
CountInv == PurgeInv /\ RegistryInv /\ DecidedInv /\ AccountInv /\ SoleInv

\* ... and with what holds of runs on lists that name every repository once.
RunInv == PurgeInv /\ RegistryInv /\ DecidedInv /\ AccountInv /\ SoleInv /\ ScanInv

\* The steps of the run itself.
RunStep ==
  \/ \E dry \in BOOLEAN :
       RefusePurge(dry) \/ \E catalog \in Catalogs : StartPurge(dry, catalog)
  \/ PurgerStep

\* It holds before the first run.
LEMMA SoleInvInit == PurgeInit => SoleInv /\ ScanInv
<1>1. SUFFICES ASSUME PurgeInit PROVE SoleInv /\ ScanInv
  OBVIOUS
<1>2. /\ stage = "idle" /\ todoRepos = <<>> /\ \A r \in Repos : scanned[r] = <<>>
      /\ \A p \in Procs : call[p].pc = "idle"
  BY <1>1 DEF PurgeInit, Init, IdleFrame
<1>3. OthersInv /\ RuleInv /\ AimInv
  BY <1>2 DEF OthersInv, RuleInv, AimInv, Deleting
<1>4. ScanInv /\ KeptInv
  BY <1>2 DEF ScanInv, KeptInv, OnceNamed
<1>. QED
  BY <1>3, <1>4 DEF SoleInv

\* A step of the run gives the purge a frame, and nobody else.
LEMMA RunFrames ==
  ASSUME TypeOK, RunStep
  PROVE  \A p \in Procs : p # Purger => call'[p] = call[p]
<1>1. \/ call' = call
      \/ \E f : call' = [call EXCEPT ![Purger] = f]
  BY DEF RunStep, RefusePurge, StartPurge, PurgerStep, FetchRepo, FetchedRepo, ScanTag, ScanFail,
         ScannedRepo, FilterTags, PurgeTag, PurgedTag, FinishPurge, RecordPurge, vars
<1>. QED
  BY <1>1 DEF TypeOK

\* Nobody else gets into DeleteTag unless a user asks for it.
LEMMA OthersKeep ==
  ASSUME TypeOK, OthersInv, Step
  PROVE  OthersInv'
<1>0. call \in [Procs -> Frame]
  BY DEF TypeOK
<1>1. CASE UNCHANGED pvars
  BY <1>1 DEF OthersInv, pvars, vars
<1>2. CASE RunStep
  BY <1>2, RunFrames DEF OthersInv
<1>3. CASE Next /\ ~UserDeletes
  <2>1. CASE \E p \in Procs : FetchStep(p) \/ DeleteStep(p)
    <3>1. PICK p \in Procs : FetchStep(p) \/ DeleteStep(p)
      BY <2>1
    <3>2. FrameMoves(call[p], call'[p]) /\ \A q \in Procs : q # p => call'[q] = call[q]
      BY <1>0, <3>1, MethodFrame
    <3>. QED
      BY <3>2 DEF OthersInv, FrameMoves
  <2>2. CASE OtherStep
    <3>1. \A q \in Procs : call'[q] = call[q] \/ call'[q].pc \notin Deleting
      <4>. USE ProcsAssumption
      <4>1. CASE \E r \in Repos, t \in Tags, d \in Digests : Push(r, t, d)
        BY <4>1 DEF Push
      <4>2. CASE \E h \in Handlers : HandlerStep(h)
        <5>1. PICK h \in Handlers : HandlerStep(h)
          BY <4>2
        <5>2. CASE \E r \in Repos : ViewOnline(h, r)
          BY <1>0, <5>2 DEF ViewOnline, FetchFrame, IdleFrame, Deleting
        <5>3. CASE \E r \in Repos : ViewCached(h, r)
          BY <1>0, <5>3 DEF ViewCached, IdleFrame, Deleting
        <5>4. CASE Viewed(h) \/ DeleteAnswered(h)
          BY <1>0, <5>4 DEF Viewed, DeleteAnswered, IdleFrame, Deleting
        <5>. QED
          BY <1>3, <5>1, <5>2, <5>3, <5>4 DEF HandlerStep, UserDeletes
      <4>3. CASE RefresherStep
        <5>1. CASE RefreshCycle
          BY <5>1 DEF RefreshCycle
        <5>2. CASE \E r \in Repos : RefreshRepo(r)
          BY <1>0, <5>2 DEF RefreshRepo, FetchFrame, IdleFrame, Deleting
        <5>3. CASE RefreshedRepo
          BY <1>0, <5>3 DEF RefreshedRepo, IdleFrame, Deleting
        <5>. QED
          BY <4>3, <5>1, <5>2, <5>3 DEF RefresherStep
      <4>. QED
        BY <2>2, <4>1, <4>2, <4>3 DEF OtherStep
    <3>. QED
      BY <3>1 DEF OthersInv
  <2>. QED
    BY <1>3, <2>1, <2>2 DEF Next, OtherStep
<1>. QED
  BY <1>1, <1>2, <1>3 DEF Step, PurgeNext, RunStep, pvars, vars

\* So a tag goes only in the purge's own DeleteTag call, and it is the one the
\* delete loop is at.
LEMMA LossByPurger ==
  ASSUME PurgeInv, RegistryInv, OthersInv, Step, NEW r \in Repos, NEW t \in Lost(r)
  PROVE  /\ DeleteManifest(Purger) \/ DeleteAnswerLost(Purger)
         /\ UNCHANGED purgeVars /\ stage = "purge"
         /\ r = call[Purger].repo /\ t = call[Purger].tag /\ t \in Candidates(r)
<1>1. TypeOK /\ call \in [Procs -> Frame]
  BY DEF PurgeInv, PurgeTypeOK, TypeOK
<1>2. t \in Tags /\ tagRef[r][t] # None /\ tagRef'[r][t] = None /\ tagRef' # tagRef
  BY DEF Lost, Present
<1>3. Next /\ UNCHANGED purgeVars
  BY <1>1, <1>2, RunKeeps DEF Step, PurgeNext, pvars, vars
<1>4. CASE OtherStep
  <2>1. \E q \in Repos, u \in Tags, d \in Digests : Push(q, u, d)
    BY <1>2, <1>4 DEF OtherStep, HandlerStep, RefresherStep, ViewOnline, ViewCached,
       RequestDelete, Viewed, DeleteAnswered, RefreshCycle, RefreshRepo, RefreshedRepo
  <2>2. PICK q \in Repos, u \in Tags, d \in Digests : Push(q, u, d)
    BY <2>1
  <2>3. tagRef'[r][t] \in {tagRef[r][t], d}
    BY <1>1, <1>2, <2>2 DEF TypeOK, Push
  <2>. QED
    BY <1>2, <2>3, NoneAssumption
<1>5. ASSUME NEW p \in Procs, FetchStep(p) \/ DeleteStep(p)
      PROVE  /\ DeleteManifest(Purger) \/ DeleteAnswerLost(Purger)
             /\ stage = "purge"
             /\ r = call[Purger].repo /\ t = call[Purger].tag /\ t \in Candidates(r)
  <2>1. DeleteManifest(p) \/ DeleteAnswerLost(p)
    BY <1>2, <1>5 DEF FetchStep, DeleteStep, ListPage, ListLastPage, ListFail, StoreTags,
       ResolveTag, ResolveFail, DeleteFail, Uncache
  <2>2. call[p].pc \in Deleting
    BY <2>1 DEF DeleteManifest, DeleteAnswerLost, Deleting
  <2>3. p = Purger
    BY <2>2 DEF OthersInv
  <2>4. r = call[p].repo /\ t = call[p].tag
    BY <1>1, <2>1, OneTagGoes
  <2>. QED
    BY <2>1, <2>2, <2>3, <2>4 DEF PurgeInv, CallInv
<1>. QED
  BY <1>3, <1>4, <1>5 DEF Next, OtherStep

\* Every step keeps the order of the scan.
LEMMA ScanInvNext ==
  ASSUME PurgeInv, ScanInv, [PurgeNext]_pvars, [StartsOnce]_pvars
  PROVE  ScanInv'
<1>1. /\ todoRepos \in Seq(Repos) /\ todoTags \in SUBSET Tags
      /\ scanned \in [Repos -> Seq(TagData)]
      /\ stage = "scan" => todoRepos # <<>>
  BY DEF PurgeInv, PurgeTypeOK
<1>2. CASE UNCHANGED <<stage, todoRepos, todoTags, scanned>>
  BY <1>2 DEF ScanInv, OnceNamed
<1>3. ASSUME NEW dry \in BOOLEAN, RefusePurge(dry)
      PROVE  ScanInv'
  BY <1>3 DEF RefusePurge, ScanInv, OnceNamed
<1>4. ASSUME NEW dry \in BOOLEAN, NEW catalog \in Catalogs, StartPurge(dry, catalog)
      PROVE  ScanInv'
  <2>1. /\ stage = "idle" /\ stage' = "fetch" /\ todoRepos' = Included(catalog)
        /\ UNCHANGED scanned
    BY <1>4 DEF StartPurge
  <2>2. \A r \in Repos : scanned[r] = <<>>
    BY <2>1 DEF ScanInv
  <2>3. todoRepos' \in Seq(Repos)
    BY <2>1, PurgeConfigAssumption
  <2>4. \A i \in DOMAIN todoRepos' : scanned'[todoRepos'[i]] = <<>>
    BY <2>1, <2>2, <2>3
  <2>5. \A i, j \in DOMAIN todoRepos' : todoRepos'[i] = todoRepos'[j] => i = j
    BY <2>1 DEF StartsOnce, pvars, purgeVars
  <2>6. \A r \in Repos : OnceNamed(scanned'[r])
    BY <2>1 DEF ScanInv
  <2>. QED
    BY <2>1, <2>4, <2>5, <2>6 DEF ScanInv, OnceNamed
<1>5. CASE FetchedRepo
  <2>1. /\ stage = "fetch" /\ stage' = "scan" /\ UNCHANGED <<todoRepos, scanned>>
    BY <1>5 DEF FetchedRepo
  <2>2. todoRepos # <<>>
    BY <1>5 DEF FetchedRepo, PurgeInv, CallInv
  <2>3. scanned[Head(todoRepos)] = <<>>
    BY <1>1, <2>1, <2>2 DEF ScanInv
  <2>. QED
    BY <2>1, <2>3 DEF ScanInv, OnceNamed
<1>6. CASE ScanTag
  <2>. DEFINE r == Head(todoRepos)
              t == FirstTag(todoTags)
              td == [name |-> t, created |-> GetImageInfoCreated(tagRef[r][t])]
  <2>1. /\ stage = "scan" /\ todoTags # {} /\ UNCHANGED <<stage, todoRepos>>
        /\ todoTags' = todoTags \ {t}
        /\ scanned' = scanned \/ scanned' = [scanned EXCEPT ![r] = Append(@, td)]
    BY <1>6 DEF ScanTag
  <2>2. r \in Repos /\ t \in todoTags /\ td.name = t
    BY <1>1, <2>1, FirstTagExists
  <2>. HIDE DEF r, t, td
  <2>3. CASE scanned' = scanned
    BY <2>1, <2>3 DEF ScanInv, OnceNamed
  <2>4. CASE scanned' = [scanned EXCEPT ![r] = Append(@, td)]
    <3>. DEFINE s == scanned[r]
                n == Append(scanned[r], td)
    <3>1. scanned'[r] = n /\ \A q \in Repos : q # r => scanned'[q] = scanned[q]
      BY <1>1, <2>2, <2>4
    <3>2. /\ DOMAIN n = 1..(Len(s) + 1) /\ DOMAIN s = 1..Len(s) /\ Len(s) \in Nat
          /\ n[Len(s) + 1] = td /\ \A i \in DOMAIN s : n[i] = s[i]
      BY <1>1, <2>2
    <3>3. \A i \in DOMAIN s : s[i].name \notin todoTags
      BY <2>1, <2>2 DEF ScanInv, r
    <3>4. OnceNamed(s)
      BY <2>2 DEF ScanInv
    <3>. HIDE DEF s, n
    <3>5. OnceNamed(n)
      <4>1. SUFFICES ASSUME NEW i \in DOMAIN n, NEW j \in DOMAIN n, n[i].name = n[j].name
                     PROVE  i = j
        BY DEF OnceNamed
      <4>2. CASE i \in DOMAIN s /\ j \in DOMAIN s
        BY <3>2, <3>4, <4>1, <4>2 DEF OnceNamed
      <4>3. CASE i \notin DOMAIN s /\ j \notin DOMAIN s
        BY <3>2, <4>3
      <4>4. CASE i \in DOMAIN s /\ j = Len(s) + 1
        BY <2>2, <3>2, <3>3, <4>1, <4>4
      <4>5. CASE j \in DOMAIN s /\ i = Len(s) + 1
        BY <2>2, <3>2, <3>3, <4>1, <4>5
      <4>. QED
        BY <3>2, <4>2, <4>3, <4>4, <4>5
    <3>6. \A i \in DOMAIN n : n[i].name \notin todoTags'
      BY <2>1, <2>2, <3>2, <3>3
    <3>7. \A i \in DOMAIN todoRepos : i = 1 \/ scanned'[todoRepos[i]] = <<>>
      <4>1. SUFFICES ASSUME NEW i \in DOMAIN todoRepos, i # 1
                     PROVE  scanned'[todoRepos[i]] = <<>>
        OBVIOUS
      <4>2. todoRepos[i] # r /\ todoRepos[i] \in Repos
        BY <1>1, <2>1, <4>1 DEF r, ScanInv
      <4>. QED
        BY <3>1, <4>1, <4>2 DEF ScanInv
    <3>8. \A q \in Repos : OnceNamed(scanned'[q])
      BY <3>1, <3>5 DEF ScanInv
    <3>. QED
      BY <2>1, <3>1, <3>6, <3>7, <3>8 DEF ScanInv, r, OnceNamed
  <2>. QED
    BY <2>1, <2>3, <2>4
<1>7. CASE ScanFail
  BY <1>7 DEF ScanFail, ScanInv, OnceNamed
<1>8. CASE ScannedRepo
  <2>1. /\ stage = "scan" /\ stage' = "fetch" /\ todoRepos' = Tail(todoRepos)
        /\ UNCHANGED scanned
    BY <1>8 DEF ScannedRepo
  <2>2. /\ Len(todoRepos) > 0 /\ Len(todoRepos) \in Nat
        /\ DOMAIN todoRepos = 1..Len(todoRepos)
        /\ DOMAIN todoRepos' = 1..(Len(todoRepos) - 1)
        /\ \A i \in 1..(Len(todoRepos) - 1) : todoRepos'[i] = todoRepos[i + 1]
    BY <1>1, <2>1
  <2>3. \A i, j \in DOMAIN todoRepos' : todoRepos'[i] = todoRepos'[j] => i = j
    BY <2>2 DEF ScanInv
  <2>4. \A i \in DOMAIN todoRepos' : scanned'[todoRepos'[i]] = <<>>
    BY <2>1, <2>2 DEF ScanInv
  <2>. QED
    BY <2>1, <2>3, <2>4 DEF ScanInv, OnceNamed
<1>9. CASE FilterTags \/ FinishPurge
  BY <1>9 DEF FilterTags, FinishPurge, ScanInv, OnceNamed
<1>10. CASE RecordPurge
  <2>1. /\ stage = "done" /\ stage' = "idle" /\ todoRepos' = todoRepos
        /\ \A r \in Repos : scanned'[r] = <<>>
    BY <1>10 DEF RecordPurge
  <2>2. todoRepos' = <<>>
    BY <2>1 DEF ScanInv
  <2>. QED
    BY <2>1, <2>2 DEF ScanInv, OnceNamed
<1>. QED
  BY <1>2, <1>3, <1>4, <1>5, <1>6, <1>7, <1>8, <1>9, <1>10
     DEF PurgeNext, PurgerStep, FetchRepo, PurgeTag, PurgedTag, purgeVars, pvars

\* What was scanned and is not on the list stays.
LEMMA KeptInvNext ==
  ASSUME PurgeInv, RegistryInv, AccountInv, OthersInv, KeptInv, Step
  PROVE  KeptInv'
<1>1. /\ scanned \in [Repos -> Seq(TagData)] /\ TypeOK
      /\ \A r \in Repos : purgeTags[r] \subseteq DOMAIN scanned[r]
  BY DEF PurgeInv, PurgeTypeOK
<1>2. CASE UNCHANGED <<scanned, purgeTags>>
  <2>1. SUFFICES ASSUME NEW r \in Repos, OnceNamed(scanned[r]),
                        NEW i \in DOMAIN scanned[r], i \notin purgeTags[r]
                 PROVE  scanned[r][i].name \in Present(r)'
    BY <1>2 DEF KeptInv, OnceNamed
  <2>2. scanned[r][i].name \in Present(r)
    BY <2>1 DEF KeptInv
  <2>3. scanned[r][i].name \notin Candidates(r)
    BY <1>1, <2>1 DEF Candidates, NamesAt, OnceNamed
  <2>4. scanned[r][i].name \notin Lost(r)
    BY <2>3, LossByPurger
  <2>. QED
    BY <2>2, <2>4 DEF Lost
<1>3. CASE RunStep
  <2>1. tagRef' = tagRef
    BY <1>1, <1>3, RunKeeps DEF RunStep
  <2>2. \A r \in Repos : Present(r)' = Present(r)
    BY <2>1 DEF Present
  <2>3. CASE ScanTag
    <3>. DEFINE r == Head(todoRepos)
                t == FirstTag(todoTags)
                td == [name |-> t, created |-> GetImageInfoCreated(tagRef[r][t])]
    <3>1. /\ tagRef[r][t] # None /\ todoTags # {} /\ purgeTags' = purgeTags
          /\ scanned' = scanned \/ scanned' = [scanned EXCEPT ![r] = Append(@, td)]
      BY <2>3 DEF ScanTag
    <3>2. r \in Repos /\ t \in Tags /\ td.name = t
      <4>1. /\ todoRepos \in Seq(Repos) /\ todoRepos # <<>> /\ todoTags \in SUBSET Tags
        BY <2>3 DEF ScanTag, PurgeInv, PurgeTypeOK
      <4>. QED
        BY <3>1, <4>1, FirstTagExists
    <3>3. t \in Present(r)
      BY <3>1, <3>2 DEF Present
    <3>. HIDE DEF r, t, td
    <3>4. CASE scanned' = scanned
      BY <2>2, <3>1, <3>4 DEF KeptInv, OnceNamed
    <3>5. CASE scanned' = [scanned EXCEPT ![r] = Append(@, td)]
      <4>1. \A q \in Repos : \A i \in DOMAIN scanned'[q] :
              \/ q = r /\ scanned'[q][i] = td
              \/ i \in DOMAIN scanned[q] /\ scanned'[q][i] = scanned[q][i]
        BY <1>1, <3>2, <3>5
      <4>2. \A q \in Repos : \A i \in DOMAIN scanned[q] :
              i \in DOMAIN scanned'[q] /\ scanned'[q][i] = scanned[q][i]
        BY <1>1, <3>2, <3>5
      <4>3. \A q \in Repos : OnceNamed(scanned'[q]) => OnceNamed(scanned[q])
        BY <4>2 DEF OnceNamed
      <4>4. SUFFICES ASSUME NEW q \in Repos, OnceNamed(scanned'[q]), NEW i \in DOMAIN scanned'[q],
                            i \notin purgeTags[q]
                     PROVE  scanned'[q][i].name \in Present(q)
        BY <2>2, <3>1 DEF KeptInv, OnceNamed
      <4>. QED
        BY <3>2, <3>3, <4>1, <4>3, <4>4 DEF KeptInv
    <3>. QED
      BY <3>1, <3>4, <3>5
  <2>4. CASE FilterTags
    <3>1. scanned' = scanned /\ \A r \in Repos : purgeTags[r] = {}
      BY <2>4 DEF FilterTags, AccountInv, Nothing
    <3>. QED
      BY <2>2, <3>1 DEF KeptInv, OnceNamed
  <2>5. CASE RecordPurge
    <3>1. \A r \in Repos : scanned'[r] = <<>>
      BY <2>5 DEF RecordPurge
    <3>. QED
      BY <3>1 DEF KeptInv
  <2>. QED
    BY <1>2, <1>3, <2>3, <2>4, <2>5
       DEF RunStep, PurgerStep, RefusePurge, StartPurge, FetchRepo, FetchedRepo, ScanFail,
           ScannedRepo, PurgeTag, PurgedTag, FinishPurge, purgeVars
<1>. QED
  BY <1>2, <1>3 DEF Step, PurgeNext, RunStep, pvars, purgeVars

\* The delete loop keeps to what the filter decided.
LEMMA RuleInvNext ==
  ASSUME RuleInv, [PurgeNext]_pvars
  PROVE  RuleInv'
<1>1. CASE UNCHANGED <<stage, scanned, purgeTags>>
  BY <1>1 DEF RuleInv, TagsFromFile
<1>2. CASE FilterTags
  BY <1>2 DEF FilterTags, RuleInv, TagsFromFile
<1>3. CASE stage' # "purge"
  BY <1>3 DEF RuleInv
<1>. QED
  BY <1>1, <1>2, <1>3
     DEF PurgeNext, PurgerStep, RefusePurge, StartPurge, FetchRepo, FetchedRepo, ScanTag, ScanFail,
         ScannedRepo, PurgeTag, PurgedTag, FinishPurge, RecordPurge, purgeVars, pvars

\* The delete loop goes from one candidate to the next.
LEMMA AimInvNext ==
  ASSUME PurgeInv, AimInv, [PurgeNext]_pvars
  PROVE  AimInv'
<1>0. TypeOK /\ call \in [Procs -> Frame]
  BY DEF PurgeInv, PurgeTypeOK, TypeOK
<1>1. CASE stage' # "purge"
  BY <1>1 DEF AimInv
<1>2. CASE [Next]_vars /\ UNCHANGED purgeVars
  <2>1. UNCHANGED <<stage, left, scanned>>
    BY <1>2 DEF purgeVars
  <2>2. FrameMoves(call[Purger], call'[Purger])
    BY <1>0, <1>2, PurgerFrame
  <2>3. stage = "purge" => call'[Purger].pc \in Deleting \cup {"idle", "done"}
    <3>1. SUFFICES ASSUME stage = "purge", call'[Purger] # call[Purger]
                   PROVE  call'[Purger].pc \in Deleting \cup {"idle", "done"}
      BY DEF AimInv
    <3>2. ~OtherStep /\ ~UNCHANGED vars
      BY <1>0, <3>1, OtherFrame DEF vars
    <3>3. PICK p \in Procs : FetchStep(p) \/ DeleteStep(p)
      BY <1>2, <3>2 DEF Next, OtherStep
    <3>4. p = Purger
      BY <1>0, <3>1, <3>3, MethodFrame, PurgerProc
    <3>5. DeleteStep(Purger)
      BY <3>1, <3>3, <3>4 DEF AimInv, Deleting, FetchStep, ListPage, ListLastPage, ListFail,
         StoreTags
    <3>6. call'[Purger].pc \in {"delete", "uncache", "done"}
      BY <1>0, <3>5, PurgerProc DEF DeleteStep, ResolveTag, ResolveFail, DeleteManifest,
         DeleteAnswerLost, DeleteFail, Uncache, Frame
    <3>. QED
      BY <3>6 DEF Deleting
  <2>4. stage = "purge" /\ call'[Purger].pc \in Deleting =>
          /\ call'[Purger].repo = FirstRepo
          /\ call'[Purger].tag = scanned[FirstRepo][FirstLeft(FirstRepo)].name
    BY <2>2 DEF AimInv, FrameMoves
  <2>5. FirstRepo' = FirstRepo /\ FirstLeft(FirstRepo)' = FirstLeft(FirstRepo)
    BY <2>1 DEF FirstRepo, FirstLeft
  <2>. QED
    BY <2>1, <2>3, <2>4, <2>5 DEF AimInv
<1>3. CASE FilterTags
  <2>1. call'[Purger].pc = "idle"
    BY <1>3 DEF FilterTags, vars
  <2>. QED
    BY <2>1 DEF AimInv, Deleting
<1>4. CASE PurgedTag
  <2>1. call'[Purger] = IdleFrame
    BY <1>0, <1>4, PurgerProc DEF PurgedTag
  <2>2. call'[Purger].pc = "idle"
    BY <2>1 DEF IdleFrame
  <2>. QED
    BY <2>2 DEF AimInv, Deleting
<1>5. CASE PurgeTag
  <2>. DEFINE t == scanned[FirstRepo][FirstLeft(FirstRepo)].name
  <2>1. call'[Purger] = DeleteFrame(FirstRepo, t) /\ UNCHANGED <<left, scanned>>
    BY <1>0, <1>5, PurgerProc DEF PurgeTag, purgeVars
  <2>2. call'[Purger].pc = "get" /\ call'[Purger].repo = FirstRepo /\ call'[Purger].tag = t
    <3>. HIDE DEF t
    <3>. QED
      BY <2>1 DEF DeleteFrame, IdleFrame
  <2>3. FirstRepo' = FirstRepo /\ FirstLeft(FirstRepo)' = FirstLeft(FirstRepo)
    BY <2>1 DEF FirstRepo, FirstLeft
  <2>. QED
    BY <2>1, <2>2, <2>3 DEF AimInv, Deleting
<1>. QED
  BY <1>1, <1>2, <1>3, <1>4, <1>5
     DEF PurgeNext, PurgerStep, RefusePurge, StartPurge, FetchRepo, FetchedRepo, ScanTag, ScanFail,
         ScannedRepo, FinishPurge, RecordPurge, purgeVars, pvars

\* The whole invariant is inductive.
LEMMA RunInvInit == ~Retagging /\ PurgeInit => CountInv /\ RunInv
<1>1. PurgeInit => DecidedInv
  BY DEF PurgeInit, DecidedInv, Nothing
<1>. QED
  BY <1>1, PurgeInvInit, RegistryInvInit, AccountInvInit, SoleInvInit
     DEF PurgeInit, CountInv, RunInv

\* Every step of a run that no user's deletion disturbs keeps what holds of
\* every run.
LEMMA CountInvNext ==
  ASSUME ~Retagging, CountInv, Step
  PROVE  CountInv'
<1>1. [PurgeNext]_pvars /\ TypeOK
  BY DEF Step, CountInv, PurgeInv, PurgeTypeOK
<1>2. PurgeInv' /\ RegistryInv' /\ DecidedInv' /\ AccountInv'
  BY <1>1, PurgeInvNext, RegistryInvNext, DecidedInvNext, AccountInvNext DEF CountInv
<1>3. OthersInv'
  BY <1>1, OthersKeep DEF CountInv, SoleInv
<1>4. KeptInv'
  BY <1>1, KeptInvNext DEF CountInv, SoleInv
<1>5. RuleInv' /\ AimInv'
  BY <1>1, RuleInvNext, AimInvNext DEF CountInv, SoleInv
<1>. QED
  BY <1>2, <1>3, <1>4, <1>5 DEF CountInv, SoleInv

\* With a list that names every repository once it keeps the rest, too.
LEMMA RunInvNext ==
  ASSUME ~Retagging, RunInv, Step, [StartsOnce]_pvars
  PROVE  RunInv'
<1>1. CountInv'
  BY CountInvNext DEF CountInv, RunInv
<1>2. ScanInv'
  BY ScanInvNext DEF Step, RunInv
<1>. QED
  BY <1>1, <1>2 DEF CountInv, RunInv

-----------------------------------------------------------------------------
(***************************************************************************)
(* keep_count on a live registry.                                          *)
(***************************************************************************)
\* A list that names every tag once has as many names as positions.
LEMMA NamesCount ==
  ASSUME NEW s \in Seq(TagData), OnceNamed(s), NEW T \in SUBSET DOMAIN s
  PROVE  IsFiniteSet(NamesAt(s, T)) /\ Cardinality(NamesAt(s, T)) = Cardinality(T)
<1>. DEFINE f == [i \in T |-> s[i].name]
<1>1. IsFiniteSet(T)
  BY FilterFinite
<1>2. f \in [T -> NamesAt(s, T)]
  BY DEF NamesAt
<1>3. f \in Injection(T, NamesAt(s, T))
  BY <1>2 DEF Injection, IsInjective, OnceNamed
<1>4. f \in Surjection(T, NamesAt(s, T))
  BY <1>2 DEF Surjection, NamesAt
<1>5. f \in Bijection(T, NamesAt(s, T))
  BY <1>3, <1>4 DEF Bijection
<1>6. ExistsBijection(T, NamesAt(s, T))
  BY <1>5 DEF ExistsBijection
<1>. QED
  BY <1>1, <1>6, FS_Bijection

\* What the filter leaves of a scanned list are keep_count names, and what it
\* takes are others.
LEMMA EnoughNames ==
  ASSUME NEW s \in Seq(TagData), OnceNamed(s), NEW ff,
         PurgeSet(s, Now, ff) # {}, NEW S, IsFiniteSet(S),
         NamesAt(s, KeepSet(s, Now, ff)) \subseteq S
  PROVE  Cardinality(S) >= KeepCount
<1>. DEFINE K == KeepSet(s, Now, ff)
<1>1. K \in SUBSET DOMAIN s
  BY DEF KeepSet
<1>2. Cardinality(K) >= KeepCount
  BY FilterKeepsEnough DEF KeepsEnough
<1>. HIDE DEF K
<1>3. Cardinality(NamesAt(s, K)) = Cardinality(K)
  BY <1>1, NamesCount
<1>4. Cardinality(NamesAt(s, K)) <= Cardinality(S)
  BY FS_Subset DEF K
<1>5. Cardinality(K) \in Nat /\ Cardinality(S) \in Nat
  BY <1>1, FilterFinite, FS_CardinalityType
<1>. QED
  BY <1>2, <1>3, <1>4, <1>5, KeepAssumption

\* A step that takes tags of a repository whose tags were counted once each
\* leaves keep_count.
LEMMA LossLeavesEnough ==
  ASSUME ~Retagging, IsFiniteSet(Tags), CountInv, Step,
         NEW r \in Repos, CountedOnce(r), Lost(r) # {}
  PROVE  Cardinality(Present(r)') >= KeepCount
<1>1. PICK t \in Lost(r) : TRUE
  OBVIOUS
<1>2. UNCHANGED purgeVars /\ stage = "purge" /\ t \in Candidates(r)
  BY <1>1, LossByPurger DEF CountInv, SoleInv
<1>3. /\ scanned[r] \in Seq(TagData) /\ OnceNamed(scanned[r])
      /\ purgeTags[r] = PurgeSet(scanned[r], Now, TagsFromFile(r))
  BY <1>2 DEF CountInv, SoleInv, RuleInv, CountedOnce, OnceNamed, PurgeInv, PurgeTypeOK
<1>4. PurgeSet(scanned[r], Now, TagsFromFile(r)) # {}
  BY <1>2, <1>3 DEF Candidates, NamesAt
<1>5. KeptInv'
  BY CountInvNext DEF CountInv, SoleInv
<1>6. scanned' = scanned /\ purgeTags' = purgeTags
  BY <1>2 DEF purgeVars
<1>7. NamesAt(scanned[r], KeepSet(scanned[r], Now, TagsFromFile(r))) \subseteq Present(r)'
  BY <1>3, <1>5, <1>6 DEF KeptInv, NamesAt, KeepSet
<1>8. IsFiniteSet(Present(r)')
  <2>1. Present(r)' \in SUBSET Tags
    BY DEF Present
  <2>. QED
    BY <2>1, FS_Subset
<1>. QED
  BY <1>3, <1>4, <1>7, <1>8, EnoughNames

\* So no step takes such a repository below keep_count.
LEMMA StepLeavesEnough ==
  ASSUME ~Retagging, IsFiniteSet(Tags), CountInv, Step,
         NEW r \in Repos, CountedOnce(r), Cardinality(Present(r)) >= KeepCount
  PROVE  Cardinality(Present(r)') >= KeepCount
<1>1. CASE Lost(r) # {}
  BY <1>1, LossLeavesEnough
<1>2. CASE Lost(r) = {}
  <2>1. Present(r)' \in SUBSET Tags /\ Present(r) \in SUBSET Present(r)'
    BY <1>2 DEF Present, Lost
  <2>2. IsFiniteSet(Present(r)')
    BY <2>1, FS_Subset
  <2>3. Cardinality(Present(r)) <= Cardinality(Present(r)') /\ IsFiniteSet(Present(r))
    BY <2>1, <2>2, FS_Subset
  <2>4. Cardinality(Present(r)) \in Nat /\ Cardinality(Present(r)') \in Nat
    BY <2>2, <2>3, FS_CardinalityType
  <2>. QED
    BY <2>3, <2>4, KeepAssumption
<1>. QED
  BY <1>1, <1>2

\* When an image is tagged only once and no user deletes tags meanwhile, no
\* purge takes a repository whose tags it has counted once each below
\* keep_count, whatever list of repositories RunPurgeOldTags works on.
THEOREM KeepCountPerRepository ==
  ASSUME ~Retagging, IsFiniteSet(Tags)
  PROVE  PurgeSpec /\ NoUserDeletes => KeepCountWhenCountedOnce
<1>1. CountInv /\ Step => CountInv'
  BY CountInvNext
<1>2. CountInv /\ Step =>
        [PurgerDeletes => \A r \in Repos :
           CountedOnce(r) /\ Cardinality(Present(r)) >= KeepCount =>
             Cardinality(Present(r)') >= KeepCount]_pvars
  BY StepLeavesEnough
<1>3. PurgeInit => CountInv
  BY RunInvInit
<1>. QED
  BY <1>1, <1>2, <1>3, PTL DEF PurgeSpec, NoUserDeletes, Step, KeepCountWhenCountedOnce

\* When, besides, the lists that runs work on name every repository once, no
\* purge takes any repository below keep_count: the count that RunPurgeOldTags
\* makes on the tags it has scanned holds of the registry at every later
\* deletion.
THEOREM KeepCountIsKept ==
  ASSUME ~Retagging, IsFiniteSet(Tags)
  PROVE  PurgeSpec /\ NoUserDeletes /\ ListsNameOnce => KeepCountSurvives
<1>1. RunInv /\ Step /\ [StartsOnce]_pvars => RunInv'
  BY RunInvNext
<1>2. RunInv /\ Step =>
        [PurgerDeletes => \A r \in Repos :
           Cardinality(Present(r)) >= KeepCount => Cardinality(Present(r)') >= KeepCount]_pvars
  <2>1. RunInv => CountInv /\ \A r \in Repos : CountedOnce(r)
    BY DEF RunInv, CountInv, ScanInv, OnceNamed, CountedOnce
  <2>. QED
    BY <2>1, StepLeavesEnough
<1>3. PurgeInit => RunInv
  BY RunInvInit
<1>. QED
  BY <1>1, <1>2, <1>3, PTL DEF PurgeSpec, NoUserDeletes, ListsNameOnce, Step, KeepCountSurvives

-----------------------------------------------------------------------------
(***************************************************************************)
(* The purge takes the steps of its contract.                              *)
(***************************************************************************)
\* Outside the delete loop there is no plan.
LEMMA NoPlanOutside ==
  ASSUME \A r \in Repos : left[r] = {}
  PROVE  PlanNow = [r \in Repos |-> {}]
BY DEF PlanNow, NamesAt

\* The plan changes only when the candidate in hand is settled.
LEMMA PlanSame ==
  ASSUME UNCHANGED <<stage, left, scanned>>,
         stage = "purge" => (call'[Purger].pc \in {"uncache", "done"} <=>
                             call[Purger].pc \in {"uncache", "done"})
  PROVE  PlanNow' = PlanNow
<1>1. FirstRepo' = FirstRepo /\ \A r \in Repos : FirstLeft(r)' = FirstLeft(r)
  BY DEF FirstRepo, FirstLeft
<1>2. \A r \in Repos : Settled(r)' = Settled(r)
  BY <1>1 DEF Settled
<1>. QED
  BY <1>2 DEF PlanNow, NamesAt

\* A name that occurs once goes with its position.
LEMMA NameGoes ==
  ASSUME NEW s, OnceNamed(s), NEW L \in SUBSET DOMAIN s, NEW i \in L
  PROVE  NamesAt(s, L \ {i}) = NamesAt(s, L) \ {s[i].name}
BY DEF OnceNamed, NamesAt

\* The candidate in hand.
LEMMA InHand ==
  ASSUME RunInv, stage = "purge", call[Purger].pc # "idle"
  PROVE  /\ FirstRepo \in Repos /\ FirstLeft(FirstRepo) \in left[FirstRepo]
         /\ left \in [Repos -> SUBSET Nat]
         /\ \A r \in Repos : left[r] \in SUBSET DOMAIN scanned[r] /\ OnceNamed(scanned[r])
         /\ scanned[FirstRepo][FirstLeft(FirstRepo)].name \in Tags
<1>1. \E r \in Repos : left[r] # {}
  BY DEF RunInv, PurgeInv, CallInv
<1>2. FirstRepo \in Repos /\ left[FirstRepo] # {}
  BY <1>1, FirstRepoExists
<1>3. FirstLeft(FirstRepo) \in left[FirstRepo]
  BY <1>2, FirstLeftExists DEF RunInv, PurgeInv
<1>4. /\ left \in [Repos -> SUBSET Nat]
      /\ \A r \in Repos : left[r] \in SUBSET DOMAIN scanned[r] /\ OnceNamed(scanned[r])
  BY DEF RunInv, PurgeInv, PurgeTypeOK, SoleInv, ScanInv
<1>. QED
  BY <1>2, <1>3, <1>4 DEF RunInv, PurgeInv, ScannedInv

\* A deletion that took effect or was given up settles its candidate.
LEMMA Settles ==
  ASSUME RunInv, stage = "purge", call[Purger].pc \in {"get", "delete"},
         UNCHANGED <<stage, left, scanned>>, call'[Purger].pc \in {"uncache", "done"}
  PROVE  /\ call[Purger].repo \in Repos /\ call[Purger].tag \in Tags
         /\ call[Purger].tag \in PlanNow[call[Purger].repo]
         /\ PlanNow' = [PlanNow EXCEPT ![call[Purger].repo] = @ \ {call[Purger].tag}]
<1>. DEFINE r == FirstRepo
            i == FirstLeft(r)
<1>1. /\ r \in Repos /\ i \in left[r] /\ scanned[r][i].name \in Tags
      /\ \A q \in Repos : left[q] \in SUBSET DOMAIN scanned[q] /\ OnceNamed(scanned[q])
  BY InHand
<1>2. call[Purger].repo = r /\ call[Purger].tag = scanned[r][i].name
  BY DEF RunInv, SoleInv, AimInv, Deleting
<1>3. FirstRepo' = r /\ FirstLeft(r)' = i
  BY DEF FirstRepo, FirstLeft
<1>4. \A q \in Repos : Settled(q) = {}
  BY DEF Settled
<1>5. \A q \in Repos : Settled(q)' = IF q = r THEN {i} ELSE {}
  BY <1>3 DEF Settled
<1>. HIDE DEF r, i
<1>6. \A q \in Repos : PlanNow[q] = NamesAt(scanned[q], left[q])
  BY <1>4 DEF PlanNow
<1>7. PlanNow' = [q \in Repos |-> NamesAt(scanned[q], left[q] \ (IF q = r THEN {i} ELSE {}))]
  BY <1>5 DEF PlanNow, NamesAt
<1>8. NamesAt(scanned[r], left[r] \ {i}) = NamesAt(scanned[r], left[r]) \ {scanned[r][i].name}
  BY <1>1, NameGoes
<1>9. scanned[r][i].name \in PlanNow[r]
  BY <1>1, <1>6 DEF NamesAt
<1>10. PlanNow' = [PlanNow EXCEPT ![r] = @ \ {scanned[r][i].name}]
  <2>1. PlanNow = [q \in Repos |-> PlanNow[q]]
    BY DEF PlanNow
  <2>2. \A q \in Repos : q # r => NamesAt(scanned[q], left[q] \ {}) = PlanNow[q]
    BY <1>6 DEF NamesAt
  <2>3. \A q \in Repos : PlanNow'[q] =
          IF q = r THEN PlanNow[q] \ {scanned[r][i].name} ELSE PlanNow[q]
    BY <1>6, <1>7, <1>8, <2>2
  <2>4. PlanNow' = [q \in Repos |-> PlanNow'[q]]
    BY DEF PlanNow
  <2>. QED
    BY <2>1, <2>3, <2>4
<1>. QED
  BY <1>1, <1>2, <1>9, <1>10

\* A step of a client method by the purge in its delete loop.
LEMMA DeletingStep ==
  ASSUME RunInv, Step, stage = "purge", DeleteStep(Purger), UNCHANGED purgeVars
  PROVE  \/ UNCHANGED <<TagsNow, PlanNow>>
         \/ \E r \in Repos, t \in Tags : Contract!Take(r, t) \/ Contract!GiveUp(r, t)
<1>0. /\ call \in [Procs -> Frame] /\ TypeOK /\ RegistryInv
      /\ UNCHANGED <<stage, left, scanned>>
  BY DEF RunInv, PurgeInv, PurgeTypeOK, TypeOK, purgeVars
<1>1. CASE ResolveTag(Purger) \/ Uncache(Purger)
  <2>1. tagRef' = tagRef
    BY <1>1 DEF ResolveTag, Uncache
  <2>2. call'[Purger].pc \in {"uncache", "done"} <=> call[Purger].pc \in {"uncache", "done"}
    BY <1>0, <1>1, PurgerProc DEF ResolveTag, Uncache, Frame
  <2>3. PlanNow' = PlanNow
    BY <1>0, <2>2, PlanSame
  <2>. QED
    BY <2>1, <2>3 DEF TagsNow, Present
<1>2. CASE ResolveFail(Purger) \/ DeleteFail(Purger)
  <2>1. tagRef' = tagRef
    BY <1>2 DEF ResolveFail, DeleteFail
  <2>2. call[Purger].pc \in {"get", "delete"} /\ call'[Purger].pc \in {"uncache", "done"}
    BY <1>0, <1>2, PurgerProc DEF ResolveFail, DeleteFail, Frame
  <2>3. TagsNow' = TagsNow
    BY <2>1 DEF TagsNow, Present
  <2>. QED
    BY <1>0, <2>2, <2>3, Settles DEF Contract!GiveUp
<1>3. CASE DeleteManifest(Purger) \/ DeleteAnswerLost(Purger)
  <2>1. call[Purger].pc \in {"get", "delete"} /\ call'[Purger].pc \in {"uncache", "done"}
    BY <1>0, <1>3, PurgerProc DEF DeleteManifest, DeleteAnswerLost, Frame
  <2>2. PICK r \in Repos, t \in Tags :
          /\ r = call[Purger].repo /\ t = call[Purger].tag /\ t \in PlanNow[r]
          /\ PlanNow' = [PlanNow EXCEPT ![r] = @ \ {t}]
    BY <1>0, <2>1, Settles
  <2>3. \A q \in Repos : \A u \in Present(q) : u \in Present(q)' \/ (q = r /\ u = t)
    <3>1. \A q \in Repos : \A u \in Lost(q) : q = r /\ u = t
      BY <1>0, <1>3, <2>2, OneTagGoes, PurgerProc
    <3>. QED
      BY <3>1 DEF Lost
  <2>4. \A q \in Repos : Present(q)' \subseteq Present(q)
    <3>1. RemoveManifest(r, call[Purger].digest)
      BY <1>3, <2>2 DEF DeleteManifest, DeleteAnswerLost
    <3>2. \A q \in Repos : \A u \in Tags : tagRef'[q][u] = tagRef[q][u] \/ tagRef'[q][u] = None
      BY <1>0, <2>2, <3>1 DEF RemoveManifest, Untag, TypeOK
    <3>. QED
      BY <3>2 DEF Present
  <2>5. CASE t \in Lost(r)
    <3>1. \A q \in Repos : Present(q)' = IF q = r THEN Present(q) \ {t} ELSE Present(q)
      <4>1. t \in Present(r) /\ t \notin Present(r)'
        BY <2>5 DEF Lost
      <4>. QED
        BY <2>3, <2>4, <4>1 DEF Present
    <3>2. TagsNow' = [TagsNow EXCEPT ![r] = @ \ {t}]
      BY <2>2, <3>1 DEF TagsNow
    <3>. QED
      BY <2>2, <3>2 DEF Contract!Take
  <2>6. CASE t \notin Lost(r)
    <3>1. \A q \in Repos : Present(q)' = Present(q)
      <4>1. t \in Present(r) => t \in Present(r)'
        BY <2>6 DEF Lost
      <4>. QED
        BY <2>3, <2>4, <4>1 DEF Present
    <3>2. TagsNow' = TagsNow
      BY <3>1 DEF TagsNow
    <3>. QED
      BY <2>2, <3>2 DEF Contract!GiveUp
  <2>. QED
    BY <2>5, <2>6
<1>. QED
  BY <1>1, <1>2, <1>3 DEF DeleteStep

\* A step of the client: a push, a step of the purge's DeleteTag call, or
\* nothing the contract speaks of.
LEMMA ClientStep ==
  ASSUME RunInv, RunInv', Step, [Next]_vars, UNCHANGED purgeVars
  PROVE  \/ UNCHANGED <<TagsNow, PlanNow>>
         \/ \E r \in Repos, t \in Tags :
              Contract!Pushed(r, t) \/ Contract!Take(r, t) \/ Contract!GiveUp(r, t)
<1>0. /\ call \in [Procs -> Frame] /\ TypeOK
      /\ UNCHANGED <<stage, left, scanned>>
  BY DEF RunInv, PurgeInv, PurgeTypeOK, TypeOK, purgeVars
<1>1. CASE UNCHANGED vars
  <2>1. PlanNow' = PlanNow
    BY <1>0, <1>1, PlanSame DEF vars
  <2>. QED
    BY <1>1, <2>1 DEF TagsNow, Present, vars
<1>2. CASE OtherStep
  <2>1. call'[Purger] = call[Purger]
    BY <1>0, <1>2, OtherFrame
  <2>2. PlanNow' = PlanNow
    BY <1>0, <2>1, PlanSame
  <2>3. ASSUME NEW r \in Repos, NEW t \in Tags, NEW d \in Digests, Push(r, t, d)
        PROVE  Contract!Pushed(r, t)
    <3>1. \A q \in Repos : \A u \in Tags :
            tagRef'[q][u] = IF q = r /\ u = t THEN d ELSE tagRef[q][u]
      BY <1>0, <2>3 DEF Push, TypeOK
    <3>2. \A q \in Repos : Present(q)' = IF q = r THEN Present(q) \cup {t} ELSE Present(q)
      BY <3>1, NoneAssumption DEF Present
    <3>3. TagsNow' = [TagsNow EXCEPT ![r] = @ \cup {t}]
      BY <3>2 DEF TagsNow
    <3>. QED
      BY <2>2, <3>3 DEF Contract!Pushed
  <2>4. CASE tagRef' = tagRef
    BY <2>2, <2>4 DEF TagsNow, Present
  <2>. QED
    BY <1>2, <2>3, <2>4 DEF OtherStep, HandlerStep, RefresherStep, ViewOnline, ViewCached,
       RequestDelete, Viewed, DeleteAnswered, RefreshCycle, RefreshRepo, RefreshedRepo
<1>3. ASSUME NEW p \in Procs, FetchStep(p)
      PROVE  UNCHANGED <<TagsNow, PlanNow>>
  <2>1. tagRef' = tagRef
    BY <1>3 DEF FetchStep, ListPage, ListLastPage, ListFail, StoreTags
  <2>2. p = Purger => stage # "purge"
    BY <1>3 DEF FetchStep, ListPage, ListLastPage, ListFail, StoreTags, RunInv, SoleInv, AimInv,
       Deleting
  <2>3. p # Purger => call'[Purger] = call[Purger]
    BY <1>0, <1>3, MethodFrame, PurgerProc
  <2>4. PlanNow' = PlanNow
    BY <1>0, <2>2, <2>3, PlanSame
  <2>. QED
    BY <2>1, <2>4 DEF TagsNow, Present
<1>4. ASSUME NEW p \in Procs, DeleteStep(p)
      PROVE  stage = "purge" /\ DeleteStep(Purger)
  <2>1. call[p].pc \in Deleting
    BY <1>4 DEF DeleteStep, ResolveTag, ResolveFail, DeleteManifest, DeleteAnswerLost, DeleteFail,
       Uncache, Deleting
  <2>2. p = Purger
    BY <2>1 DEF RunInv, SoleInv, OthersInv
  <2>. QED
    BY <1>4, <2>1, <2>2 DEF RunInv, PurgeInv, CallInv
<1>. QED
  BY <1>1, <1>2, <1>3, <1>4, DeletingStep DEF Next, OtherStep

\* The filter decides: nothing protected, nothing that is not there, and
\* keep_count stay.
LEMMA FilterDecides ==
  ASSUME IsFiniteSet(Tags), RunInv, RunInv', FilterTags
  PROVE  Contract!Decide
<1>1. /\ stage = "fetch" /\ stage' = "purge" /\ call'[Purger].pc = "idle"
      /\ UNCHANGED <<tagRef, scanned>>
      /\ left' = IF dryRun THEN Nothing ELSE purgeTags'
      /\ purgeTags' = [r \in Repos |-> PurgeSet(scanned[r], Now, TagsFromFile(r))]
  BY DEF FilterTags, vars
<1>2. \A r \in Repos : left[r] = {} /\ purgeTags[r] = {} /\ Nothing[r] = {}
  BY <1>1 DEF RunInv, PurgeInv, LeftInv, AccountInv, Nothing
<1>3. PlanNow = Contract!NoPlan
  BY <1>2, NoPlanOutside DEF Contract!NoPlan
<1>4. TagsNow' = TagsNow
  BY <1>1 DEF TagsNow, Present
<1>5. ASSUME NEW r \in Repos
      PROVE  Contract!Permitted(r, PlanNow'[r])
  <2>. DEFINE s == scanned[r]
              ff == TagsFromFile(r)
              P == PurgeSet(s, Now, ff)
              decided == PlanNow'[r]
  <2>1. s \in Seq(TagData) /\ OnceNamed(s) /\ P \subseteq DOMAIN s
    <3>1. s \in Seq(TagData) /\ OnceNamed(s)
      BY DEF RunInv, PurgeInv, PurgeTypeOK, SoleInv, ScanInv
    <3>. QED
      BY <3>1, FilterFinite
  <2>2. Settled(r)' = {}
    BY <1>1 DEF Settled
  <2>3. decided = NamesAt(s, left'[r])
    <3>1. decided = NamesAt(scanned'[r], left'[r] \ Settled(r)')
      BY DEF PlanNow, NamesAt
    <3>. QED
      BY <1>1, <2>2, <3>1 DEF NamesAt
  <2>4. decided = {} \/ decided = NamesAt(s, P)
    <3>1. left'[r] = {} \/ left'[r] = P
      BY <1>1, <1>2
    <3>. QED
      BY <2>3, <3>1 DEF NamesAt
  <2>5. \A i \in DOMAIN s : s[i].name \in Present(r)
    BY <1>2, <2>1 DEF RunInv, SoleInv, KeptInv
  <2>6. \A i \in P : s[i].name \notin KeepRegexpTags \cup ff
    BY <2>1, PurgesOnlyExpired
  <2>7. TagsNow[r] = Present(r) /\ ProtectedTags[r] = KeepRegexpTags \cup ff
    BY DEF TagsNow, ProtectedTags
  <2>. HIDE DEF s, ff, P, decided
  <2>8. decided \subseteq TagsNow[r] \ ProtectedTags[r]
    BY <2>1, <2>4, <2>5, <2>6, <2>7 DEF NamesAt
  <2>9. ASSUME decided # {}
        PROVE  Cardinality(TagsNow[r] \ decided) >= KeepCount
    <3>1. decided = NamesAt(s, P) /\ P # {}
      BY <2>4, <2>9 DEF NamesAt
    <3>2. NamesAt(s, KeepSet(s, Now, ff)) \subseteq Present(r) \ decided
      BY <2>1, <2>5, <3>1 DEF NamesAt, KeepSet, OnceNamed, P
    <3>3. IsFiniteSet(Present(r) \ decided)
      <4>1. Present(r) \ decided \in SUBSET Tags
        BY DEF Present
      <4>. QED
        BY <4>1, FS_Subset
    <3>. QED
      BY <2>1, <2>7, <3>1, <3>2, <3>3, EnoughNames DEF P
  <2>. QED
    BY <2>8, <2>9 DEF Contract!Permitted, decided, Contract!Cardinality, Cardinality
<1>6. PlanNow' \in [Repos -> SUBSET Tags]
  <2>1. ASSUME NEW r \in Repos PROVE PlanNow'[r] \subseteq Tags
    <3>1. TagsNow[r] \subseteq Tags
      BY DEF TagsNow, Present
    <3>. QED
      BY <1>5, <3>1 DEF Contract!Permitted
  <2>2. PlanNow' = [r \in Repos |-> PlanNow'[r]]
    BY DEF PlanNow
  <2>. QED
    BY <2>1, <2>2
<1>. QED
  BY <1>3, <1>4, <1>5, <1>6 DEF Contract!Decide

\* The end of a DeleteTag call takes what was settled off the list for good.
LEMMA PurgedSame ==
  ASSUME RunInv, PurgedTag
  PROVE  PlanNow' = PlanNow
<1>. DEFINE r == FirstRepo
            i == FirstLeft(r)
<1>1. stage = "purge" /\ call[Purger].pc = "done" /\ call \in [Procs -> Frame]
  BY DEF PurgedTag, RunInv, PurgeInv, PurgeTypeOK, TypeOK
<1>2. r \in Repos /\ left \in [Repos -> SUBSET Nat]
  BY <1>1, InHand
<1>3. left' = [left EXCEPT ![r] = @ \ {i}] /\ UNCHANGED <<stage, scanned>>
  BY DEF PurgedTag
<1>4. call'[Purger] = IdleFrame
  BY <1>1, PurgerProc DEF PurgedTag
<1>5. call'[Purger].pc = "idle"
  BY <1>4 DEF IdleFrame
<1>6. \A q \in Repos : Settled(q)' = {}
  BY <1>5 DEF Settled
<1>7. \A q \in Repos : Settled(q) = IF q = r THEN {i} ELSE {}
  BY <1>1 DEF Settled
<1>. HIDE DEF r, i
<1>8. \A q \in Repos : left'[q] \ Settled(q)' = left[q] \ Settled(q)
  BY <1>2, <1>3, <1>6, <1>7
<1>. QED
  BY <1>3, <1>8 DEF PlanNow, NamesAt

\* A step of the run itself.
LEMMA RunStepContract ==
  ASSUME IsFiniteSet(Tags), RunInv, RunInv', RunStep
  PROVE  UNCHANGED <<TagsNow, PlanNow>> \/ Contract!Decide
<1>1. TagsNow' = TagsNow
  <2>1. tagRef' = tagRef
    BY RunKeeps DEF RunInv, PurgeInv, PurgeTypeOK, RunStep
  <2>. QED
    BY <2>1 DEF TagsNow, Present
<1>2. CASE FilterTags
  BY <1>2, FilterDecides
<1>3. CASE PurgedTag
  BY <1>1, <1>3, PurgedSame
<1>4. CASE PurgeTag
  <2>1. /\ call \in [Procs -> Frame] /\ call[Purger].pc = "idle"
        /\ UNCHANGED <<stage, left, scanned>>
        /\ \E r, t : call' = [call EXCEPT ![Purger] = DeleteFrame(r, t)]
    BY <1>4 DEF PurgeTag, purgeVars, RunInv, PurgeInv, PurgeTypeOK, TypeOK
  <2>2. call'[Purger].pc = "get"
    BY <2>1, PurgerProc DEF DeleteFrame, IdleFrame
  <2>. QED
    BY <1>1, <2>1, <2>2, PlanSame
<1>5. CASE (\A r \in Repos : left[r] = {}) /\ (\A r \in Repos : left'[r] = {})
  <2>1. PlanNow = [r \in Repos |-> {}]
    BY <1>5, NoPlanOutside
  <2>2. PlanNow' = [r \in Repos |-> {}]
    BY <1>5 DEF PlanNow, NamesAt
  <2>. QED
    BY <1>1, <2>1, <2>2
<1>6. CASE FinishPurge
  <2>1. (\A r \in Repos : left[r] = {}) /\ left' = left
    BY <1>6 DEF FinishPurge
  <2>. QED
    BY <1>5, <2>1
<1>7. CASE stage # "purge" /\ stage' # "purge"
  <2>1. left = Nothing /\ (left = Nothing)'
    BY <1>7 DEF RunInv, PurgeInv, LeftInv
  <2>2. \A r \in Repos : left[r] = {} /\ left'[r] = {}
    BY <2>1 DEF Nothing
  <2>. QED
    BY <1>5, <2>2
<1>. QED
  BY <1>2, <1>3, <1>4, <1>6, <1>7
     DEF RunStep, PurgerStep, RefusePurge, StartPurge, FetchRepo, FetchedRepo, ScanTag, ScanFail,
         ScannedRepo, RecordPurge, purgeVars

\* When an image is tagged only once, runs work on lists that name every
\* repository once and no user deletes tags meanwhile, the scan, the filter and the deletions of
\* RunPurgeOldTags, with everything that may happen between them, come down to
\* the steps of PurgeContract.
THEOREM PurgeImplementsContract ==
  ASSUME ~Retagging, IsFiniteSet(Tags)
  PROVE  PurgeSpec /\ NoUserDeletes /\ ListsNameOnce => Contract!ContractSteps
<1>1. RunInv /\ Step /\ [StartsOnce]_pvars => RunInv'
  BY RunInvNext
<1>2. RunInv /\ RunInv' /\ Step => [Contract!ContractNext]_(Contract!contractVars)
  <2>1. SUFFICES ASSUME RunInv, RunInv', Step
                 PROVE  \/ UNCHANGED <<TagsNow, PlanNow>>
                        \/ Contract!ContractNext
    BY DEF Contract!contractVars
  <2>2. CASE [Next]_vars /\ UNCHANGED purgeVars
    BY <2>1, <2>2, ClientStep DEF Contract!ContractNext
  <2>3. CASE RunStep
    BY <2>1, <2>3, RunStepContract DEF Contract!ContractNext
  <2>. QED
    BY <2>1, <2>2, <2>3 DEF Step, PurgeNext, RunStep, pvars
<1>3. PurgeInit => RunInv /\ Contract!ContractInit
  <2>1. SUFFICES ASSUME PurgeInit PROVE Contract!ContractInit
    BY RunInvInit
  <2>2. \A r \in Repos : left[r] = {}
    BY <2>1 DEF PurgeInit, Nothing
  <2>3. TagsNow \in [Repos -> SUBSET Tags]
    BY DEF TagsNow, Present
  <2>. QED
    BY <2>2, <2>3, NoPlanOutside DEF Contract!ContractInit, Contract!NoPlan
<1>. QED
  BY <1>1, <1>2, <1>3, PTL DEF PurgeSpec, NoUserDeletes, ListsNameOnce, Step, Contract!ContractSteps

-----------------------------------------------------------------------------
(***************************************************************************)
(* The scheduled purge, which works on the catalog that it shares with the *)
(* background job.  (CatalogPurge takes no list from the constant          *)
(* Catalogs; as a purge, it is one that may work on any list.)             *)
(***************************************************************************)
bothVars == <<pvars, cvars>>

\* To the catalog, a step of the two together is a step of its own.
LEMMA CatalogPart ==
  ASSUME [CatalogPurgeNext]_bothVars
  PROVE  [CatalogNext]_cvars
<1>1. Background \in Jobs /\ Purger \in Jobs
  BY DEF Jobs
<1>. QED
  BY <1>1 DEF CatalogPurgeNext, BackgroundStep, BeginRun, WorkOnCatalog, CatalogNext, bothVars

\* To the purge, it is a step of a purge that may work on any list.
LEMMA PurgePart ==
  ASSUME Seq(Repos) \subseteq Catalogs, CatalogInv, [CatalogPurgeNext]_bothVars
  PROVE  [PurgeNext]_pvars
<1>1. ASSUME NEW dry \in BOOLEAN, WorkOnCatalog(dry)
      PROVE  PurgeNext
  <2>1. PICK list \in Reads : StartPurge(dry, list)
    BY <1>1 DEF WorkOnCatalog
  <2>2. list \in Catalogs
    BY ReadsLists
  <2>. QED
    BY <2>1, <2>2 DEF PurgeNext
<1>2. CASE UNCHANGED pvars
  BY <1>2
<1>. QED
  BY <1>1, <1>2 DEF CatalogPurgeNext, BackgroundStep, BeginRun, PurgeNext, bothVars

\* The catalog's part of the state satisfies the catalog's invariant.
LEMMA ScheduledCatalog == CatalogPurgeSpec => []CatalogInv
<1>1. CatalogPurgeInit => CatalogInv
  BY InitCatalog DEF CatalogPurgeInit
<1>2. CatalogInv /\ [CatalogPurgeNext]_bothVars => CatalogInv'
  BY CatalogPart, NextKeepsCatalog
<1>. QED
  BY <1>1, <1>2, PTL DEF CatalogPurgeSpec, bothVars

\* The purge that first calls RefreshCatalog and then works on what GetRepos
\* returns, with all the races on that list, is a purge: what is proved of
\* PurgeSpec for any list of repositories holds of it.
THEOREM ScheduledPurgeIsAPurge ==
  ASSUME Seq(Repos) \subseteq Catalogs
  PROVE  CatalogPurgeSpec => PurgeSpec
<1>1. CatalogPurgeInit => PurgeInit
  BY DEF CatalogPurgeInit
<1>2. CatalogInv /\ [CatalogPurgeNext]_bothVars => [PurgeNext]_pvars
  BY PurgePart
<1>. QED
  BY <1>1, <1>2, ScheduledCatalog, PTL DEF CatalogPurgeSpec, bothVars, PurgeSpec

\* When no two refreshes overlap, a scheduled run, which excludes nothing, gets
\* a list that names every repository once.
LEMMA SoloStartsOnce ==
  ASSUME ExcludeRepos = {}, CatalogInv, SoloInv, [CatalogPurgeNext]_bothVars
  PROVE  [StartsOnce]_pvars
<1>1. ASSUME NEW dry \in BOOLEAN, WorkOnCatalog(dry)
      PROVE  StartsOnce
  <2>1. PICK list \in Reads : StartPurge(dry, list)
    BY <1>1 DEF WorkOnCatalog
  <2>2. job[Purger].pc = "back"
    BY <1>1 DEF WorkOnCatalog, PurgeReturned
  <2>3. list \in Seq(Repos) /\ Ascending(list)
    BY <2>2, SoloReads, ReadsLists
  <2>4. todoRepos' = list
    BY <2>1 DEF StartPurge, Included
  <2>5. \A i, j \in DOMAIN list : list[i] = list[j] => i = j
    <3>1. /\ DOMAIN list \subseteq Nat
          /\ \A i \in DOMAIN list : list[i] \in Nat
      <4>1. DOMAIN list \subseteq Nat /\ \A i \in DOMAIN list : list[i] \in Repos
        BY <2>3
      <4>. QED
        BY <4>1, ReposPositive
    <3>. QED
      BY <2>3, <3>1 DEF Ascending
  <2>. QED
    BY <2>4, <2>5 DEF StartsOnce
<1>2. ASSUME stage # "idle" \/ stage' # "fetch"
      PROVE  StartsOnce
  BY <1>2 DEF StartsOnce
<1>3. CASE UNCHANGED stage
  BY <1>2, <1>3
<1>. QED
  BY <1>1, <1>2, <1>3
     DEF CatalogPurgeNext, BackgroundStep, BeginRun, RefusePurge, PurgerStep, FetchRepo,
         FetchedRepo, ScanTag, ScanFail, ScannedRepo, FilterTags, PurgeTag, PurgedTag, FinishPurge,
         RecordPurge, purgeVars, pvars, bothVars

\* When an image is tagged only once, no user deletes tags meanwhile and a
\* refresh of the catalog starts only when no other one is under way, the
\* scheduled purge never takes a repository below keep_count and takes the
\* steps of its contract: the overlap of RefreshCatalog in the background job
\* and in the purge is the only way in which sharing the client costs it tags.
THEOREM ScheduledPurgeKeepsCount ==
  ASSUME ~Retagging, IsFiniteSet(Tags), ExcludeRepos = {}, Seq(Repos) \subseteq Catalogs
  PROVE  CatalogPurgeSpec /\ NoOverlap /\ NoUserDeletes =>
           KeepCountSurvives /\ Contract!ContractSteps
<1>1. CatalogPurgeInit => SoloInv
  BY SoloInit DEF CatalogPurgeInit
<1>2. CatalogInv /\ SoloInv /\ [CatalogPurgeNext]_bothVars /\ [~Overlapping]_cvars => SoloInv'
  BY CatalogPart, SoloNext
<1>3. CatalogInv /\ SoloInv /\ [CatalogPurgeNext]_bothVars => [StartsOnce]_pvars
  BY SoloStartsOnce
<1>4. CatalogPurgeSpec /\ NoOverlap => ListsNameOnce
  BY <1>1, <1>2, <1>3, ScheduledCatalog, PTL
     DEF CatalogPurgeSpec, bothVars, NoOverlap, ListsNameOnce
<1>5. CatalogPurgeSpec => PurgeSpec
  BY ScheduledPurgeIsAPurge
<1>. QED
  BY <1>4, <1>5, KeepCountIsKept, PurgeImplementsContract, PTL
=============================================================================
