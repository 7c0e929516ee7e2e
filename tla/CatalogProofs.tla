---------------------------- MODULE CatalogProofs ----------------------------
(***************************************************************************)
(* Proofs about the catalog, for any number of repositories, of changes    *)
(* and of faults.                                                          *)
(***************************************************************************)
EXTENDS CatalogPages, FiniteSetTheorems, WellFoundedInduction, TLAPS

-----------------------------------------------------------------------------
(***************************************************************************)
(* The inductive invariant.                                                *)
(***************************************************************************)
Reading == {"first", "fetch", "page", "append"}

JobFrame == [pc : Reading \cup {"idle", "end", "publish", "mark", "back", "stopped"},
          list : Seq(Repos), last : Nat, page : Seq(Repos), more : BOOLEAN,
          value : Seq(Repos), must : SUBSET Repos, failed : BOOLEAN, alone : BOOLEAN]

\* The names of a list are in the order of the registry.
Ascending(list) == \A i, j \in DOMAIN list : i < j => list[i] < list[j]

\* The local list is in order, and the pages still to come continue it: a page
\* is empty, and then it is the last one, or has one name past the last one.
InOrder(f) ==
  /\ Ascending(f.list)
  /\ f.pc \in Reading => \A r \in Listed(f.list) : r <= f.last
  /\ f.pc = "page" => \/ f.page = <<>> /\ ~f.more
                      \/ \E x \in Repos : x > f.last /\ f.page = <<x>>

\* Every repository that has been there all the time is in the list or is
\* still to come.
Reaches(f) ==
  /\ f.pc \in {"first", "fetch"} => \A r \in f.must : r \in Listed(f.list) \/ r > f.last
  /\ f.pc = "page" =>
       \A r \in f.must : \/ r \in Listed(f.list) \cup Listed(f.page)
                         \/ f.more /\ r > f.page[1]
  /\ f.pc = "append" => \A r \in f.must : r \in Listed(f.list) \/ (f.more /\ r > f.last)
  /\ f.pc \in {"end", "publish"} /\ ~f.failed => f.must \subseteq Listed(f.list)

\* A frame counts only what is there, and is in order.
GoodJob(f) == f.must \subseteq live /\ InOrder(f) /\ Reaches(f)

JobsInv ==
  /\ live \subseteq Repos
  /\ job \in [Jobs -> JobFrame]
  /\ \A p \in Jobs : GoodJob(job[p])

\* A refresh that returns has made the catalog ready; until then the shared
\* list is empty unless somebody is busy with it.
ReadyInv ==
  /\ repos \in Seq(Repos) /\ isCatalogReady \in BOOLEAN
  /\ \A p \in Jobs : job[p].pc \in {"back", "stopped"} => isCatalogReady
  /\ ~isCatalogReady => repos = <<>> \/ \E p \in Jobs : job[p].pc # "idle"

Active == Reading \cup {"end", "publish"}

Quiet(p) == job[p].pc \in {"idle", "stopped"}

\* While a refresh is alone, nobody else is busy; the shared list it builds is
\* its own list, less the page that is about to be stored.
AloneInv ==
  \A p \in Jobs : job[p].alone /\ job[p].pc \in Active =>
    /\ \A q \in Jobs \ {p} : Quiet(q)
    /\ ~isCatalogReady /\ job[p].pc \in {"first", "fetch", "page"} => repos = job[p].list
    /\ job[p].pc = "append" => job[p].value = repos \o job[p].page /\ job[p].list = job[p].value
    /\ job[p].pc = "publish" => job[p].value = job[p].list

CatalogInv == JobsInv /\ ReadyInv /\ AloneInv

-----------------------------------------------------------------------------
(***************************************************************************)
(* Lists.                                                                  *)
(***************************************************************************)
\* Names are positive numbers.
LEMMA ReposPositive == Repos \subseteq Nat /\ \A r \in Repos : r > 0
BY ReposAssumption

\* A set of names that is not empty has a first one.
LEMMA LeastRepo ==
  ASSUME NEW S \in SUBSET Repos, S # {}
  PROVE  \E n \in S : \A m \in S : n <= m
<1>1. S \in SUBSET Nat
  BY ReposAssumption
<1>2. PICK n \in S : \A m \in S : ~(<<m, n>> \in OpToRel(<, Nat))
  BY <1>1, NatLessThanWellFounded, WFMin
<1>3. \A m \in S : ~(m < n)
  BY <1>1, <1>2 DEF OpToRel
<1>. QED
  BY <1>1, <1>3

\* A list in order names everything once.
LEMMA AscendingNamesOnce ==
  ASSUME NEW list \in Seq(Repos), Ascending(list)
  PROVE  NamedOnce(list)
<1>1. DOMAIN list = 1..Len(list) /\ Len(list) \in Nat
  OBVIOUS
<1>2. \A i, j \in 1..Len(list) : list[i] = list[j] => i = j
  <2>. SUFFICES ASSUME NEW i \in 1..Len(list), NEW j \in 1..Len(list), i # j
                PROVE  list[i] # list[j]
    OBVIOUS
  <2>1. list[i] \in Nat /\ list[j] \in Nat
    <3>1. list[i] \in Repos /\ list[j] \in Repos
      BY <1>1
    <3>. QED
      BY <3>1, ReposPositive
  <2>2. i < j \/ j < i
    OBVIOUS
  <2>. QED
    BY <1>1, <2>1, <2>2 DEF Ascending
<1>3. list \in [1..Len(list) -> Listed(list)]
  BY <1>1 DEF Listed
<1>4. list \in Bijection(1..Len(list), Listed(list))
  BY <1>1, <1>2, <1>3 DEF Bijection, Injection, Surjection, IsInjective, Listed
<1>5. ExistsBijection(1..Len(list), Listed(list))
  BY <1>4 DEF ExistsBijection
<1>. QED
  BY <1>1, <1>5, FS_CountingElements DEF NamedOnce

\* What a name past the end does to a list in order.
LEMMA AppendName ==
  ASSUME NEW list \in Seq(Repos), NEW x \in Repos
  PROVE  /\ list \o <<x>> \in Seq(Repos)
         /\ Listed(list \o <<x>>) = Listed(list) \cup {x}
         /\ Ascending(list) /\ (\A r \in Listed(list) : r < x) => Ascending(list \o <<x>>)
<1>. DEFINE new == list \o <<x>>
<1>1. /\ new \in Seq(Repos) /\ Len(new) = Len(list) + 1 /\ DOMAIN new = 1..(Len(list) + 1)
      /\ DOMAIN list = 1..Len(list) /\ Len(list) \in Nat
      /\ \A i \in 1..Len(list) : new[i] = list[i]
      /\ new[Len(list) + 1] = x
  OBVIOUS
<1>. HIDE DEF new
<1>2. Listed(new) = Listed(list) \cup {x}
  <2>1. Listed(new) \subseteq Listed(list) \cup {x}
    BY <1>1 DEF Listed
  <2>2. \A i \in DOMAIN list : list[i] \in Listed(new)
    BY <1>1 DEF Listed
  <2>3. x \in Listed(new)
    BY <1>1 DEF Listed
  <2>. QED
    BY <2>1, <2>2, <2>3 DEF Listed
<1>3. ASSUME Ascending(list), \A r \in Listed(list) : r < x
      PROVE  Ascending(new)
  BY <1>1, <1>3, ReposAssumption DEF Ascending, Listed
<1>. QED
  BY <1>1, <1>2, <1>3 DEF new

\* The empty list.
LEMMA EmptyList ==
  /\ <<>> \in Seq(Repos) /\ Listed(<<>>) = {} /\ Ascending(<<>>)
  /\ \A list \in Seq(Repos) : list \o <<>> = list
BY DEF Listed, Ascending

\* The names of a list of repositories are repositories.
LEMMA ListedRepos ==
  ASSUME NEW list \in Seq(Repos)
  PROVE  Listed(list) \subseteq Repos
BY DEF Listed

-----------------------------------------------------------------------------
(***************************************************************************)
(* What each part of RefreshCatalog makes of a good frame.                 *)
(***************************************************************************)
\* A frame that is not at work is good whatever else it holds.
LEMMA IdleGood ==
  ASSUME NEW c \in {"idle", "mark", "back", "stopped"}
  PROVE  [Idle EXCEPT !.pc = c] \in JobFrame /\ GoodJob([Idle EXCEPT !.pc = c])
<1>. DEFINE f == [Idle EXCEPT !.pc = c]
<1>1. /\ f \in JobFrame /\ f.pc = c /\ f.list = <<>> /\ f.must = {}
  BY EmptyList DEF Idle, JobFrame, Reading
<1>. HIDE DEF f
<1>2. InOrder(f)
  BY <1>1, EmptyList DEF InOrder, Reading
<1>3. Reaches(f)
  BY <1>1 DEF Reaches
<1>. QED
  BY <1>1, <1>2, <1>3 DEF GoodJob, f

\* A frame of a refresh that begins.
LEMMA BeginGood ==
  ASSUME live \subseteq Repos, NEW a \in BOOLEAN
  PROVE  /\ [Idle EXCEPT !.pc = "first", !.must = live, !.alone = a] \in JobFrame
         /\ GoodJob([Idle EXCEPT !.pc = "first", !.must = live, !.alone = a])
<1>. DEFINE f == [Idle EXCEPT !.pc = "first", !.must = live, !.alone = a]
<1>1. /\ f \in JobFrame /\ f.pc = "first" /\ f.list = <<>> /\ f.last = 0 /\ f.must = live
  BY EmptyList DEF Idle, JobFrame, Reading
<1>. HIDE DEF f
<1>2. InOrder(f)
  BY <1>1, EmptyList DEF InOrder
<1>3. Reaches(f)
  BY <1>1, ReposPositive DEF Reaches
<1>. QED
  BY <1>1, <1>2, <1>3 DEF GoodJob, f

\* The frame after the request for a page: f is the frame before it.
Fetched(f) ==
  LET rest == {r \in live : r > f.last}
      page == {r \in rest : \A s \in rest : r <= s}
  IN  [f EXCEPT !.pc   = "page",
                !.page = IF page = {} THEN <<>> ELSE <<CHOOSE r \in page : TRUE>>,
                !.more = rest # page]

\* A page continues the list, and leaves nothing out between them.
LEMMA FetchedGood ==
  ASSUME live \subseteq Repos, NEW f \in JobFrame, GoodJob(f), f.pc \in {"first", "fetch"}
  PROVE  /\ Fetched(f) \in JobFrame /\ GoodJob(Fetched(f))
         /\ Fetched(f).pc = "page" /\ Fetched(f).list = f.list /\ Fetched(f).alone = f.alone
<1>. DEFINE rest == {r \in live : r > f.last}
            page == {r \in rest : \A s \in rest : r <= s}
            x == CHOOSE r \in page : TRUE
            g == Fetched(f)
<1>1. rest \in SUBSET Repos /\ rest \subseteq Nat
  BY ReposAssumption
<1>2. rest # {} => page # {}
  <2>1. rest # {} => \E n \in rest : \A m \in rest : n <= m
    <3>. HIDE DEF rest
    <3>. QED
      BY <1>1, LeastRepo
  <2>. QED
    BY <2>1
<1>3. page # {} => x \in page
  OBVIOUS
<1>4. page # {} => x \in Repos /\ x \in Nat /\ x > f.last /\ \A r \in rest : r = x \/ r > x
  BY <1>1, <1>3
<1>5. page # {} => (rest = page <=> \A r \in rest : r = x)
  <2>1. ASSUME page # {}, rest = page, NEW r \in rest
        PROVE  r = x
    <3>1. r <= x /\ x <= r
      BY <2>1, <1>3
    <3>. QED
      BY <3>1, <1>1, <1>4, <2>1
  <2>2. ASSUME page # {}, \A r \in rest : r = x
        PROVE  rest = page
    BY <2>2, <1>1
  <2>. QED
    BY <2>1, <2>2
<1>6. g = [f EXCEPT !.pc = "page", !.page = IF page = {} THEN <<>> ELSE <<x>>,
                    !.more = rest # page]
  BY DEF Fetched
<1>7. \A r \in f.must : r \in Listed(f.list) \/ r \in rest
  BY DEF GoodJob, Reaches
<1>. HIDE DEF rest, page, x
<1>8. /\ g.pc = "page" /\ g.list = f.list /\ g.last = f.last /\ g.must = f.must
      /\ g.page = IF page = {} THEN <<>> ELSE <<x>>
      /\ g.more = (rest # page) /\ g.alone = f.alone
  BY <1>6 DEF JobFrame
<1>9. g \in JobFrame
  <2>1. (IF page = {} THEN <<>> ELSE <<x>>) \in Seq(Repos)
    BY <1>4
  <2>. QED
    BY <1>6, <2>1 DEF JobFrame, Reading
<1>. HIDE DEF g
<1>10. CASE page = {}
  <2>1. rest = {} /\ ~g.more /\ g.page = <<>>
    BY <1>2, <1>8, <1>10
  <2>2. InOrder(g)
    BY <1>8, <2>1 DEF GoodJob, InOrder, Reading
  <2>3. Reaches(g)
    BY <1>7, <1>8, <2>1 DEF Reaches
  <2>. QED
    BY <1>8, <1>9, <2>2, <2>3 DEF GoodJob, g
<1>11. CASE page # {}
  <2>1. g.page = <<x>> /\ x > g.last /\ x \in Repos
    BY <1>4, <1>8, <1>11
  <2>2. InOrder(g)
    BY <1>8, <2>1 DEF GoodJob, InOrder, Reading
  <2>3. x \in Listed(g.page)
    BY <2>1 DEF Listed
  <2>4. \A r \in rest : r = x \/ (g.more /\ r > x)
    BY <1>4, <1>5, <1>8, <1>11
  <2>5. Reaches(g)
    <3>1. g.page[1] = x
      BY <2>1
    <3>2. \A r \in g.must : \/ r \in Listed(g.list) \cup Listed(g.page)
                            \/ g.more /\ r > g.page[1]
      BY <1>7, <1>8, <2>3, <2>4, <3>1
    <3>. QED
      BY <1>8, <3>2 DEF Reaches
  <2>. QED
    BY <1>8, <1>9, <2>2, <2>5 DEF GoodJob, g
<1>. QED
  BY <1>10, <1>11

\* The frame after a page has been read: shown says whether the page goes to
\* the shared list, whose contents are all, too.
Handled(f, shown, all) ==
  [f EXCEPT !.pc    = IF shown THEN "append" ELSE IF f.more THEN "fetch" ELSE "end",
            !.list  = @ \o f.page,
            !.last  = IF f.page = <<>> THEN @ ELSE Head(f.page),
            !.value = IF shown THEN all \o f.page ELSE <<>>]

\* A page that has been read extends the list in order.
LEMMA HandledGood ==
  ASSUME NEW f \in JobFrame, GoodJob(f), f.pc = "page",
         NEW shown \in BOOLEAN, NEW all \in Seq(Repos)
  PROVE  /\ Handled(f, shown, all) \in JobFrame /\ GoodJob(Handled(f, shown, all))
         /\ Handled(f, shown, all).list = f.list \o f.page
         /\ Handled(f, shown, all).page = f.page
         /\ Handled(f, shown, all).alone = f.alone
         /\ shown => Handled(f, shown, all).pc = "append"
         /\ shown => Handled(f, shown, all).value = all \o f.page
         /\ ~shown => Handled(f, shown, all).pc \in {"fetch", "end"}
<1>. DEFINE g == Handled(f, shown, all)
            end == IF f.page = <<>> THEN f.last ELSE Head(f.page)
<1>1. /\ g.pc = IF shown THEN "append" ELSE IF f.more THEN "fetch" ELSE "end"
      /\ g.list = f.list \o f.page /\ g.last = end /\ g.page = f.page
      /\ g.value = IF shown THEN all \o f.page ELSE <<>>
      /\ g.more = f.more /\ g.must = f.must /\ g.alone = f.alone
  BY DEF Handled, JobFrame
<1>2. f.list \in Seq(Repos) /\ f.page \in Seq(Repos) /\ f.last \in Nat
  BY DEF JobFrame
<1>3. CASE f.page = <<>> /\ ~f.more
  <2>1. g.list = f.list /\ g.last = f.last /\ Listed(f.page) = {}
    BY <1>1, <1>2, <1>3, EmptyList
  <2>2. g.pc \in {"append", "end"}
    BY <1>1, <1>3
  <2>3. g \in JobFrame
    <3>1. all \o f.page = all
      BY <1>3, EmptyList
    <3>2. g = [f EXCEPT !.pc = g.pc, !.list = g.list, !.last = g.last, !.value = g.value]
      BY <1>1 DEF Handled
    <3>3. g.value \in Seq(Repos)
      BY <1>1, <3>1, EmptyList
    <3>. HIDE DEF g
    <3>. QED
      BY <1>2, <2>1, <2>2, <3>2, <3>3 DEF JobFrame, Reading
  <2>. HIDE DEF g
  <2>4. InOrder(g)
    BY <2>1, <2>2 DEF GoodJob, InOrder, Reading
  <2>5. g.must \subseteq Listed(g.list)
    BY <1>1, <1>3, <2>1 DEF GoodJob, Reaches
  <2>6. Reaches(g)
    BY <2>2, <2>5 DEF Reaches
  <2>. QED
    BY <1>1, <2>3, <2>4, <2>6 DEF GoodJob, g
<1>4. ASSUME NEW x \in Repos, x > f.last, f.page = <<x>>
      PROVE  g \in JobFrame /\ GoodJob(g)
  <2>1. g.last = x /\ g.list = f.list \o <<x>> /\ f.page[1] = x /\ Listed(f.page) = {x}
    BY <1>1, <1>4 DEF Listed
  <2>2. \A r \in Listed(f.list) : r < x
    <3>. SUFFICES ASSUME NEW r \in Listed(f.list)
                  PROVE  r < x
      OBVIOUS
    <3>1. r \in Nat /\ x \in Nat
      BY <1>2, ListedRepos, ReposPositive
    <3>2. r <= f.last
      BY DEF GoodJob, InOrder, Reading
    <3>. QED
      BY <1>2, <1>4, <3>1, <3>2
  <2>3. g.list \in Seq(Repos) /\ Ascending(g.list) /\ Listed(g.list) = Listed(f.list) \cup {x}
    BY <1>2, <1>4, <2>1, <2>2, AppendName DEF GoodJob, InOrder
  <2>4. /\ g.pc \in {"append", "fetch", "end"}
        /\ g.pc = "fetch" => g.more
        /\ g.pc = "end" => ~g.more
    BY <1>1 DEF JobFrame
  <2>5. g \in JobFrame
    <3>1. all \o f.page \in Seq(Repos)
      BY <1>4
    <3>2. g = [f EXCEPT !.pc = g.pc, !.list = g.list, !.last = g.last, !.value = g.value]
      BY <1>1 DEF Handled
    <3>3. g.value \in Seq(Repos)
      BY <1>1, <3>1, EmptyList
    <3>4. g.last \in Nat
      BY <2>1, ReposPositive
    <3>. HIDE DEF g
    <3>. QED
      BY <2>3, <2>4, <3>2, <3>3, <3>4 DEF JobFrame, Reading
  <2>. HIDE DEF g
  <2>6. InOrder(g)
    <3>1. \A r \in Listed(g.list) : r <= g.last
      <4>1. x \in Nat /\ Listed(f.list) \subseteq Nat
        BY <1>2, ListedRepos, ReposPositive
      <4>. QED
        BY <2>1, <2>2, <2>3, <4>1
    <3>. QED
      BY <2>3, <2>4, <3>1 DEF InOrder
  <2>7. \A r \in g.must : r \in Listed(g.list) \/ (g.more /\ r > g.last)
    BY <1>1, <2>1, <2>3 DEF GoodJob, Reaches
  <2>8. Reaches(g)
    BY <2>4, <2>7 DEF Reaches
  <2>. QED
    BY <1>1, <2>5, <2>6, <2>8 DEF GoodJob
<1>5. g \in JobFrame /\ GoodJob(g)
  BY <1>3, <1>4 DEF GoodJob, InOrder
<1>. QED
  BY <1>1, <1>5

\* The frame after the store of an append.
LEMMA StoredGood ==
  ASSUME NEW f \in JobFrame, GoodJob(f), f.pc = "append"
  PROVE  LET g == [f EXCEPT !.pc = IF f.more THEN "fetch" ELSE "end", !.value = <<>>]
         IN  g \in JobFrame /\ GoodJob(g)
<1>. DEFINE g == [f EXCEPT !.pc = IF f.more THEN "fetch" ELSE "end", !.value = <<>>]
<1>1. /\ g \in JobFrame /\ g.pc = IF f.more THEN "fetch" ELSE "end"
      /\ g.list = f.list /\ g.last = f.last /\ g.must = f.must /\ g.more = f.more
  BY EmptyList DEF JobFrame, Reading
<1>. HIDE DEF g
<1>2. InOrder(g)
  BY <1>1 DEF GoodJob, InOrder, Reading
<1>3. Reaches(g)
  BY <1>1 DEF GoodJob, Reaches
<1>. QED
  BY <1>1, <1>2, <1>3 DEF GoodJob, g

\* The frame after the last page.
LEMMA EndedGood ==
  ASSUME NEW f \in JobFrame, GoodJob(f), f.pc = "end"
  PROVE  LET g == [f EXCEPT !.pc = IF f.list = <<>> THEN "mark" ELSE "publish",
                            !.value = f.list, !.page = <<>>, !.last = 0]
         IN  g \in JobFrame /\ GoodJob(g)
<1>. DEFINE g == [f EXCEPT !.pc = IF f.list = <<>> THEN "mark" ELSE "publish",
                           !.value = f.list, !.page = <<>>, !.last = 0]
<1>1. /\ g \in JobFrame /\ g.pc \in {"mark", "publish"}
      /\ g.list = f.list /\ g.must = f.must /\ g.failed = f.failed
  BY EmptyList DEF JobFrame, Reading
<1>. HIDE DEF g
<1>2. InOrder(g)
  BY <1>1 DEF GoodJob, InOrder, Reading
<1>3. Reaches(g)
  BY <1>1 DEF GoodJob, Reaches
<1>. QED
  BY <1>1, <1>2, <1>3 DEF GoodJob, g

\* The frame after a page that failed.
LEMMA FailedGood ==
  ASSUME NEW f \in JobFrame, GoodJob(f)
  PROVE  LET g == [f EXCEPT !.pc = "end", !.failed = TRUE]
         IN  g \in JobFrame /\ GoodJob(g)
<1>. DEFINE g == [f EXCEPT !.pc = "end", !.failed = TRUE]
<1>1. g \in JobFrame /\ g.pc = "end" /\ g.list = f.list /\ g.must = f.must /\ g.failed
  BY DEF JobFrame, Reading
<1>. HIDE DEF g
<1>2. InOrder(g)
  BY <1>1 DEF GoodJob, InOrder, Reading
<1>3. Reaches(g)
  BY <1>1 DEF GoodJob, Reaches
<1>. QED
  BY <1>1, <1>2, <1>3 DEF GoodJob, g

\* A frame stays good when it loses a repository it counted, and when it is no
\* longer alone.
LEMMA ForgetGood ==
  ASSUME NEW f \in JobFrame, InOrder(f), Reaches(f), NEW m \in SUBSET f.must, NEW a \in BOOLEAN
  PROVE  LET g == [f EXCEPT !.must = m, !.alone = a]
         IN  g \in JobFrame /\ InOrder(g) /\ Reaches(g)
<1>. DEFINE g == [f EXCEPT !.must = m, !.alone = a]
<1>1. /\ g \in JobFrame /\ g.pc = f.pc /\ g.list = f.list /\ g.last = f.last /\ g.page = f.page
      /\ g.more = f.more /\ g.must = m /\ g.failed = f.failed
  BY DEF JobFrame
<1>. HIDE DEF g
<1>2. InOrder(g)
  BY <1>1 DEF InOrder
<1>3. Reaches(g)
  BY <1>1 DEF Reaches
<1>. QED
  BY <1>1, <1>2, <1>3 DEF g

-----------------------------------------------------------------------------
(***************************************************************************)
(* What a store leaves in the shared list.                                 *)
(***************************************************************************)
\* Whatever races, the shared list is a list of repositories.
LEMMA MixedLists ==
  ASSUME NEW values, NEW lengths \in SUBSET Nat, NEW m \in Mixed(values, lengths)
  PROVE  m \in Seq(Repos)
<1>1. PICK n \in lengths : m \in [1..n -> Repos]
  BY DEF Mixed
<1>. QED
  BY <1>1

\* Lengths are numbers.
LEMMA LengthsNat ==
  ASSUME NEW values \in SUBSET Seq(Repos)
  PROVE  Lengths(values) \in SUBSET Nat
BY DEF Lengths

\* What is about to be stored are lists of repositories.
LEMMA PendingLists ==
  ASSUME JobsInv, NEW S
  PROVE  Pending(S) \in SUBSET Seq(Repos)
BY DEF JobsInv, JobFrame, Pending

\* A store that overlaps no other one stores its value, if what was there
\* agrees with it where both have names.
LEMMA MixedAlone ==
  ASSUME NEW v \in Seq(Repos), NEW values,
         \A z \in values : \A i \in 1..Len(v) : i <= Len(z) => z[i] = v[i],
         NEW m \in Mixed(values, {Len(v)})
  PROVE  m = v
<1>1. /\ m \in [1..Len(v) -> Repos]
      /\ \A i \in 1..Len(v) : \E z \in values : i <= Len(z) /\ m[i] = z[i]
  BY DEF Mixed
<1>2. \A i \in 1..Len(v) : m[i] = v[i]
  BY <1>1
<1>3. v \in [1..Len(v) -> Repos]
  OBVIOUS
<1>. QED
  BY <1>1, <1>2, <1>3

\* When nobody else is busy, nothing else is about to be stored.
LEMMA AlonePending ==
  ASSUME NEW p \in Jobs, \A q \in Jobs \ {p} : Quiet(q)
  PROVE  Pending({p}) = {}
BY DEF Pending, Quiet

\* The store of an append that runs alone makes the shared list the local one.
LEMMA AppendAlone ==
  ASSUME JobsInv, ReadyInv, AloneInv, NEW p \in Jobs, job[p].alone, StoreAppend(p)
  PROVE  repos' = job[p].value /\ repos' = job[p].list
<1>1. /\ job[p] \in JobFrame /\ repos \in Seq(Repos)
      /\ job[p].page \in Seq(Repos) /\ job[p].value \in Seq(Repos)
  BY DEF JobsInv, ReadyInv, JobFrame
<1>2. job[p].pc = "append" /\ repos' \in Appended(p)
  BY DEF StoreAppend
<1>3. /\ \A q \in Jobs \ {p} : Quiet(q)
      /\ job[p].value = repos \o job[p].page /\ job[p].list = job[p].value
  BY <1>2 DEF AloneInv, Active, Reading
<1>4. Pending({p}) = {}
  BY <1>3, AlonePending
<1>5. Appended(p) = Mixed({job[p].value} \cup {repos}, {Len(job[p].value)})
  <2>1. Pending({p}) \cup {job[p].value} = {job[p].value}
    BY <1>4
  <2>2. Lengths({job[p].value}) = {Len(job[p].value)}
    BY DEF Lengths
  <2>. QED
    BY <2>1, <2>2 DEF Appended
<1>6. \A i \in 1..Len(repos) : repos[i] = job[p].value[i]
  BY <1>1, <1>3
<1>7. \A z \in {job[p].value} \cup {repos} :
        \A i \in 1..Len(job[p].value) : i <= Len(z) => z[i] = job[p].value[i]
  BY <1>1, <1>6
<1>8. repos' = job[p].value
  BY <1>1, <1>2, <1>5, <1>7, MixedAlone
<1>. QED
  BY <1>3, <1>8

\* So does a publication that runs alone.
LEMMA PublishAlone ==
  ASSUME JobsInv, AloneInv, NEW p \in Jobs, job[p].alone, Publish(p)
  PROVE  repos' = job[p].list
<1>1. job[p] \in JobFrame /\ job[p].value \in Seq(Repos)
  BY DEF JobsInv, JobFrame
<1>2. job[p].pc = "publish" /\ repos' \in Published(p)
  BY DEF Publish
<1>3. (\A q \in Jobs \ {p} : Quiet(q)) /\ job[p].value = job[p].list
  BY <1>2 DEF AloneInv, Active, Reading
<1>4. Published(p) = Mixed({job[p].value}, {Len(job[p].value)})
  <2>1. Pending({p}) \cup {job[p].value} = {job[p].value}
    BY <1>3, AlonePending
  <2>2. Lengths({job[p].value}) = {Len(job[p].value)}
    BY DEF Lengths
  <2>. QED
    BY <2>1, <2>2 DEF Published
<1>5. repos' = job[p].value
  BY <1>1, <1>2, <1>4, MixedAlone
<1>. QED
  BY <1>3, <1>5

\* A store leaves a list of repositories.
LEMMA StoresLists ==
  ASSUME JobsInv, ReadyInv, NEW p \in Jobs, StoreAppend(p) \/ Publish(p)
  PROVE  repos' \in Seq(Repos)
<1>. DEFINE values == Pending({p}) \cup {job[p].value}
<1>1. values \in SUBSET Seq(Repos)
  BY PendingLists DEF JobsInv, JobFrame
<1>2. Lengths(values) \in SUBSET Nat
  BY <1>1, LengthsNat
<1>3. repos' \in Mixed(values \cup {repos}, Lengths(values)) \cup Mixed(values, Lengths(values))
  BY DEF StoreAppend, Publish, Appended, Published
<1>. HIDE DEF values
<1>. QED
  BY <1>2, <1>3, MixedLists

-----------------------------------------------------------------------------
(***************************************************************************)
(* The step of one refresh: p goes on in the frame f.                      *)
(***************************************************************************)
\* The frames stay good.
LEMMA JobMoves ==
  ASSUME JobsInv, NEW p \in Jobs, NEW f \in JobFrame, GoodJob(f),
         job' = [job EXCEPT ![p] = f], live' = live
  PROVE  JobsInv'
<1>1. live' \subseteq Repos /\ job' \in [Jobs -> JobFrame]
  BY DEF JobsInv
<1>2. \A q \in Jobs : job'[q] = IF q = p THEN f ELSE job[q]
  BY DEF JobsInv
<1>3. ASSUME NEW q \in Jobs
      PROVE  job'[q].must \subseteq live' /\ InOrder(job'[q]) /\ Reaches(job'[q])
  BY <1>2, <1>3 DEF JobsInv, GoodJob
<1>. QED
  BY <1>1, <1>3 DEF JobsInv, GoodJob

\* The ready flag stays right.
LEMMA ReadyMoves ==
  ASSUME JobsInv, ReadyInv, NEW p \in Jobs, NEW f \in JobFrame,
         job' = [job EXCEPT ![p] = f],
         repos' \in Seq(Repos), isCatalogReady' \in BOOLEAN,
         isCatalogReady => isCatalogReady',
         f.pc \in {"idle", "back", "stopped"} => isCatalogReady'
  PROVE  ReadyInv'
<1>1. \A q \in Jobs : job'[q] = IF q = p THEN f ELSE job[q]
  BY DEF JobsInv
<1>2. \A q \in Jobs : job'[q].pc \in {"back", "stopped"} => isCatalogReady'
  BY <1>1 DEF ReadyInv
<1>3. ~isCatalogReady' => job'[p].pc # "idle"
  BY <1>1
<1>. QED
  BY <1>2, <1>3 DEF ReadyInv

\* What holds of a refresh that is alone goes on to hold.
LEMMA AloneMoves ==
  ASSUME JobsInv, AloneInv, NEW p \in Jobs, ~Quiet(p), NEW f \in JobFrame,
         job' = [job EXCEPT ![p] = f],
         f.alone /\ f.pc \in Active =>
           /\ job[p].alone /\ job[p].pc \in Active
           /\ ~isCatalogReady' /\ f.pc \in {"first", "fetch", "page"} => repos' = f.list
           /\ f.pc = "append" => f.value = repos' \o f.page /\ f.list = f.value
           /\ f.pc = "publish" => f.value = f.list
  PROVE  AloneInv'
<1>1. \A q \in Jobs : job'[q] = IF q = p THEN f ELSE job[q]
  BY DEF JobsInv
<1>2. ASSUME NEW q \in Jobs, q # p
      PROVE  ~(job'[q].alone /\ job'[q].pc \in Active)
  BY <1>1, <1>2 DEF AloneInv
<1>3. ASSUME f.alone /\ f.pc \in Active
      PROVE  \A q \in Jobs \ {p} : job'[q].pc \in {"idle", "stopped"}
  BY <1>1, <1>3 DEF AloneInv, Quiet
<1>. QED
  BY <1>1, <1>2, <1>3 DEF AloneInv, Quiet

\* A step to a frame that is not active keeps the invariant, if the catalog is
\* ready when it says so.
LEMMA RestMoves ==
  ASSUME CatalogInv, NEW p \in Jobs, ~Quiet(p), NEW c \in {"idle", "mark", "back", "stopped"},
         job' = [job EXCEPT ![p] = [Idle EXCEPT !.pc = c]], live' = live,
         repos' \in Seq(Repos), isCatalogReady' \in BOOLEAN, isCatalogReady => isCatalogReady',
         c # "mark" => isCatalogReady'
  PROVE  CatalogInv'
<1>. DEFINE f == [Idle EXCEPT !.pc = c]
<1>1. f \in JobFrame /\ GoodJob(f) /\ f.pc = c
  BY IdleGood DEF Idle
<1>2. f.pc \notin Active
  BY <1>1 DEF Active, Reading
<1>3. job' = [job EXCEPT ![p] = f]
  OBVIOUS
<1>. HIDE DEF f
<1>4. JobsInv'
  BY <1>1, <1>3, JobMoves DEF CatalogInv
<1>5. ReadyInv'
  BY <1>1, <1>3, ReadyMoves DEF CatalogInv
<1>6. AloneInv'
  BY <1>1, <1>2, <1>3, AloneMoves DEF CatalogInv
<1>. QED
  BY <1>4, <1>5, <1>6 DEF CatalogInv

\* A process that has stopped keeps nothing.
LEMMA StopKeeps ==
  ASSUME live' \subseteq Repos, Stop
  PROVE  CatalogInv'
<1>1. Idle = [Idle EXCEPT !.pc = "idle"]
  BY DEF Idle
<1>2. Idle \in JobFrame /\ InOrder(Idle) /\ Reaches(Idle) /\ Idle.must = {} /\ Idle.pc = "idle"
  BY <1>1, IdleGood DEF GoodJob, Idle
<1>3. \A p \in Jobs : job'[p] = Idle
  BY DEF Stop
<1>4. JobsInv'
  BY <1>2, <1>3 DEF Stop, JobsInv, GoodJob
<1>5. ReadyInv'
  BY <1>2, <1>3, EmptyList DEF Stop, ReadyInv
<1>6. AloneInv'
  BY <1>2, <1>3 DEF AloneInv, Active, Reading
<1>. QED
  BY <1>4, <1>5, <1>6 DEF CatalogInv

\* The invariant holds when the process starts.
LEMMA InitCatalog == CatalogInit => CatalogInv
<1>. SUFFICES ASSUME CatalogInit PROVE CatalogInv
  OBVIOUS
<1>1. Idle = [Idle EXCEPT !.pc = "idle"]
  BY DEF Idle
<1>2. Idle \in JobFrame /\ InOrder(Idle) /\ Reaches(Idle) /\ Idle.must = {} /\ Idle.pc = "idle"
  BY <1>1, IdleGood DEF GoodJob, Idle
<1>3. \A p \in Jobs : job[p] = Idle
  BY DEF CatalogInit
<1>4. JobsInv
  BY <1>2, <1>3 DEF CatalogInit, JobsInv, GoodJob
<1>5. ReadyInv
  BY <1>2, <1>3, EmptyList DEF CatalogInit, ReadyInv
<1>6. AloneInv
  BY <1>2, <1>3 DEF AloneInv, Active, Reading
<1>. QED
  BY <1>4, <1>5, <1>6 DEF CatalogInv

-----------------------------------------------------------------------------
(***************************************************************************)
(* One lemma per action.                                                   *)
(***************************************************************************)
\* The registry changes.
LEMMA AddRepoKeeps ==
  ASSUME CatalogInv, NEW r \in Repos, AddRepo(r)
  PROVE  CatalogInv'
<1>1. live' = live \cup {r} /\ UNCHANGED <<repos, isCatalogReady, job>>
  BY DEF AddRepo, client
<1>2. JobsInv'
  BY <1>1 DEF CatalogInv, JobsInv, GoodJob
<1>3. ReadyInv' /\ AloneInv'
  BY <1>1 DEF CatalogInv, ReadyInv, AloneInv, Quiet
<1>. QED
  BY <1>2, <1>3 DEF CatalogInv

\* A repository that goes is no longer counted.
LEMMA RemoveRepoKeeps ==
  ASSUME CatalogInv, NEW r \in Repos, RemoveRepo(r)
  PROVE  CatalogInv'
<1>. DEFINE g(p) == [job[p] EXCEPT !.must = job[p].must \ {r}, !.alone = job[p].alone]
<1>1. live' = live \ {r} /\ UNCHANGED <<repos, isCatalogReady>>
  BY DEF RemoveRepo
<1>2. job \in [Jobs -> JobFrame]
  BY DEF CatalogInv, JobsInv
<1>3. job' = [p \in Jobs |-> g(p)]
  BY <1>2 DEF RemoveRepo, JobFrame
<1>4. ASSUME NEW p \in Jobs
      PROVE  /\ job'[p] \in JobFrame /\ InOrder(job'[p]) /\ Reaches(job'[p])
             /\ job'[p].must \subseteq live'
             /\ job'[p].pc = job[p].pc /\ job'[p].alone = job[p].alone
             /\ job'[p].list = job[p].list /\ job'[p].value = job[p].value
             /\ job'[p].page = job[p].page
  <2>1. job[p] \in JobFrame /\ InOrder(job[p]) /\ Reaches(job[p]) /\ job[p].must \subseteq live
    BY DEF CatalogInv, JobsInv, GoodJob
  <2>2. job[p].must \ {r} \in SUBSET job[p].must /\ job[p].alone \in BOOLEAN
    BY <2>1 DEF JobFrame
  <2>3. g(p) \in JobFrame /\ InOrder(g(p)) /\ Reaches(g(p))
    BY <2>1, <2>2, ForgetGood
  <2>4. job'[p] = g(p)
    BY <1>3
  <2>5. g(p).must \subseteq live'
    BY <1>1, <2>1 DEF JobFrame
  <2>6. /\ g(p).pc = job[p].pc /\ g(p).alone = job[p].alone /\ g(p).list = job[p].list
        /\ g(p).value = job[p].value /\ g(p).page = job[p].page
    BY <2>1 DEF JobFrame
  <2>. HIDE DEF g
  <2>. QED
    BY <2>3, <2>4, <2>5, <2>6
<1>. HIDE DEF g
<1>5. JobsInv'
  <2>1. job' \in [Jobs -> JobFrame]
    BY <1>3, <1>4
  <2>. QED
    BY <1>1, <1>4, <2>1 DEF CatalogInv, JobsInv, GoodJob
<1>6. ReadyInv'
  BY <1>1, <1>4 DEF CatalogInv, ReadyInv
<1>7. AloneInv'
  <2>1. \A p \in Jobs : Quiet(p)' <=> Quiet(p)
    BY <1>4 DEF Quiet
  <2>2. ASSUME NEW p \in Jobs, job'[p].alone, job'[p].pc \in Active
        PROVE  /\ \A q \in Jobs \ {p} : Quiet(q)
               /\ ~isCatalogReady /\ job[p].pc \in {"first", "fetch", "page"} => repos = job[p].list
               /\ job[p].pc = "append" =>
                    job[p].value = repos \o job[p].page /\ job[p].list = job[p].value
               /\ job[p].pc = "publish" => job[p].value = job[p].list
    BY <1>4, <2>2 DEF CatalogInv, AloneInv
  <2>. QED
    BY <1>1, <1>4, <2>1, <2>2 DEF AloneInv
<1>. QED
  BY <1>5, <1>6, <1>7 DEF CatalogInv

\* RefreshCatalog is called: from now on nobody else is alone.
LEMMA StartRefreshKeeps ==
  ASSUME CatalogInv, NEW p \in Jobs, StartRefresh(p)
  PROVE  CatalogInv'
<1>. DEFINE a == \A o \in Jobs \ {p} : job[o].pc \in {"idle", "stopped"}
            f == [Idle EXCEPT !.pc = "first", !.must = live, !.alone = a]
            g(q) == [job[q] EXCEPT !.must = job[q].must, !.alone = FALSE]
<1>1. /\ job[p].pc = "idle" /\ UNCHANGED <<live, repos, isCatalogReady>>
      /\ live \subseteq Repos /\ job \in [Jobs -> JobFrame]
  BY DEF StartRefresh, CatalogInv, JobsInv
<1>2. f \in JobFrame /\ GoodJob(f)
  BY <1>1, BeginGood
<1>3. f.pc = "first" /\ f.list = <<>> /\ f.alone = a
  BY DEF Idle
<1>4. ASSUME NEW q \in Jobs, q # p
      PROVE  /\ g(q) \in JobFrame /\ GoodJob(g(q)) /\ g(q).pc = job[q].pc
             /\ ~g(q).alone
  <2>1. job[q] \in JobFrame /\ InOrder(job[q]) /\ Reaches(job[q]) /\ job[q].must \subseteq live
    BY DEF CatalogInv, JobsInv, GoodJob
  <2>2. job[q].must \in SUBSET job[q].must /\ FALSE \in BOOLEAN
    OBVIOUS
  <2>3. g(q) \in JobFrame /\ InOrder(g(q)) /\ Reaches(g(q))
    BY <2>1, <2>2, ForgetGood
  <2>4. g(q).must = job[q].must /\ g(q).pc = job[q].pc /\ ~g(q).alone
    BY <2>1 DEF JobFrame
  <2>. HIDE DEF g
  <2>. QED
    BY <2>1, <2>3, <2>4 DEF GoodJob
<1>5. job' = [q \in Jobs |-> IF q = p THEN f ELSE g(q)]
  BY <1>1 DEF StartRefresh, JobFrame
<1>6. a => \A q \in Jobs \ {p} : job[q].pc \in {"idle", "stopped"}
  OBVIOUS
<1>. HIDE DEF f, g, a
<1>7. \A q \in Jobs : job'[q] = IF q = p THEN f ELSE g(q)
  BY <1>5
<1>8. JobsInv'
  <2>1. job' \in [Jobs -> JobFrame]
    BY <1>2, <1>4, <1>5
  <2>. QED
    BY <1>1, <1>2, <1>4, <1>7, <2>1 DEF JobsInv, GoodJob
<1>9. ReadyInv'
  <2>1. \A q \in Jobs : job'[q].pc \in {"back", "stopped"} => job[q].pc \in {"back", "stopped"}
    BY <1>3, <1>4, <1>7
  <2>2. job'[p].pc # "idle"
    BY <1>3, <1>7
  <2>. QED
    BY <1>1, <2>1, <2>2 DEF CatalogInv, ReadyInv
<1>10. AloneInv'
  <2>1. ASSUME NEW q \in Jobs, q # p
        PROVE  ~job'[q].alone
    BY <1>4, <1>7, <2>1
  <2>2. ASSUME a
        PROVE  \A q \in Jobs \ {p} : job'[q].pc \in {"idle", "stopped"}
    BY <1>4, <1>6, <1>7, <2>2
  <2>3. ASSUME a, ~isCatalogReady
        PROVE  repos = <<>>
    BY <1>1, <1>6, <2>3 DEF CatalogInv, ReadyInv
  <2>. QED
    BY <1>1, <1>3, <1>7, <2>1, <2>2, <2>3 DEF AloneInv, Quiet
<1>. QED
  BY <1>8, <1>9, <1>10 DEF CatalogInv

\* A page is requested.
LEMMA FetchPageKeeps ==
  ASSUME CatalogInv, NEW p \in Jobs, FetchPage(p)
  PROVE  CatalogInv'
<1>. DEFINE f == Fetched(job[p])
<1>1. /\ job[p] \in JobFrame /\ GoodJob(job[p]) /\ job[p].pc \in {"first", "fetch"}
      /\ live \subseteq Repos /\ repos \in Seq(Repos) /\ isCatalogReady \in BOOLEAN
  BY DEF FetchPage, CatalogInv, JobsInv, ReadyInv
<1>2. job' = [job EXCEPT ![p] = f] /\ UNCHANGED <<live, repos, isCatalogReady>>
  BY DEF FetchPage, Goes, Fetched
<1>3. f \in JobFrame /\ GoodJob(f) /\ f.pc = "page" /\ f.list = job[p].list /\ f.alone = job[p].alone
  BY <1>1, FetchedGood
<1>. HIDE DEF f
<1>4. JobsInv'
  BY <1>2, <1>3, JobMoves DEF CatalogInv
<1>5. ReadyInv'
  BY <1>1, <1>2, <1>3, ReadyMoves DEF CatalogInv
<1>6. ~Quiet(p) /\ job[p].pc \in Active
  BY <1>1 DEF Quiet, Active, Reading
<1>7. f.alone /\ ~isCatalogReady => repos = f.list
  BY <1>1, <1>3, <1>6 DEF CatalogInv, AloneInv
<1>8. AloneInv'
  BY <1>2, <1>3, <1>6, <1>7, AloneMoves DEF CatalogInv
<1>. QED
  BY <1>4, <1>5, <1>8 DEF CatalogInv

\* A page is read.
LEMMA HandlePageKeeps ==
  ASSUME CatalogInv, NEW p \in Jobs, HandlePage(p)
  PROVE  CatalogInv'
<1>. DEFINE f == Handled(job[p], ~isCatalogReady, repos)
<1>1. /\ job[p] \in JobFrame /\ GoodJob(job[p]) /\ job[p].pc = "page"
      /\ repos \in Seq(Repos) /\ isCatalogReady \in BOOLEAN
  BY DEF HandlePage, PageRead, CatalogInv, JobsInv, ReadyInv
<1>2. job' = [job EXCEPT ![p] = f] /\ UNCHANGED <<live, repos, isCatalogReady>>
  BY DEF HandlePage, PageRead, AfterPage, Goes, Handled
<1>3. /\ f \in JobFrame /\ GoodJob(f) /\ f.list = job[p].list \o job[p].page /\ f.page = job[p].page
      /\ f.alone = job[p].alone
      /\ ~isCatalogReady => f.pc = "append" /\ f.value = repos \o job[p].page
      /\ isCatalogReady => f.pc \in {"fetch", "end"}
  BY <1>1, HandledGood
<1>. HIDE DEF f
<1>4. JobsInv'
  BY <1>2, <1>3, JobMoves DEF CatalogInv
<1>5. ReadyInv'
  BY <1>1, <1>2, <1>3, ReadyMoves DEF CatalogInv
<1>6. ~Quiet(p) /\ job[p].pc \in Active
  BY <1>1 DEF Quiet, Active, Reading
<1>7. f.alone /\ ~isCatalogReady => repos = job[p].list
  BY <1>1, <1>3, <1>6 DEF CatalogInv, AloneInv
<1>8. AloneInv'
  BY <1>1, <1>2, <1>3, <1>6, <1>7, AloneMoves DEF CatalogInv
<1>. QED
  BY <1>4, <1>5, <1>8 DEF CatalogInv

\* The page is stored in the shared list.
LEMMA StoreAppendKeeps ==
  ASSUME CatalogInv, NEW p \in Jobs, StoreAppend(p)
  PROVE  CatalogInv'
<1>. DEFINE f == [job[p] EXCEPT !.pc = IF job[p].more THEN "fetch" ELSE "end", !.value = <<>>]
<1>1. /\ job[p] \in JobFrame /\ GoodJob(job[p]) /\ job[p].pc = "append" /\ isCatalogReady \in BOOLEAN
      /\ job \in [Jobs -> JobFrame]
  BY DEF StoreAppend, CatalogInv, JobsInv, ReadyInv
<1>2. job' = [job EXCEPT ![p] = f] /\ UNCHANGED <<live, isCatalogReady>>
  BY <1>1 DEF StoreAppend, AfterPage, JobFrame
<1>3. f \in JobFrame /\ GoodJob(f)
  BY <1>1, StoredGood
<1>4. f.pc \in {"fetch", "end"} /\ f.list = job[p].list /\ f.alone = job[p].alone
  BY <1>1 DEF JobFrame
<1>. HIDE DEF f
<1>5. repos' \in Seq(Repos)
  BY StoresLists DEF CatalogInv
<1>6. JobsInv'
  BY <1>2, <1>3, JobMoves DEF CatalogInv
<1>7. ReadyInv'
  BY <1>1, <1>2, <1>3, <1>4, <1>5, ReadyMoves DEF CatalogInv
<1>8. ~Quiet(p) /\ job[p].pc \in Active
  BY <1>1 DEF Quiet, Active, Reading
<1>9. f.alone => repos' = f.list
  BY <1>4, AppendAlone DEF CatalogInv
<1>10. AloneInv'
  BY <1>2, <1>3, <1>4, <1>8, <1>9, AloneMoves DEF CatalogInv
<1>. QED
  BY <1>6, <1>7, <1>10 DEF CatalogInv

\* The pages end.
LEMMA EndOfPagesKeeps ==
  ASSUME CatalogInv, NEW p \in Jobs, EndOfPages(p)
  PROVE  CatalogInv'
<1>. DEFINE f == [job[p] EXCEPT !.pc = IF job[p].list = <<>> THEN "mark" ELSE "publish",
                                !.value = job[p].list, !.page = <<>>, !.last = 0]
<1>1. /\ job[p] \in JobFrame /\ GoodJob(job[p]) /\ job[p].pc = "end"
      /\ repos \in Seq(Repos) /\ isCatalogReady \in BOOLEAN
  BY DEF EndOfPages, CatalogInv, JobsInv, ReadyInv
<1>2. job' = [job EXCEPT ![p] = f] /\ UNCHANGED <<live, repos, isCatalogReady>>
  BY DEF EndOfPages, Goes
<1>3. f \in JobFrame /\ GoodJob(f)
  BY <1>1, EndedGood
<1>4. f.pc \in {"mark", "publish"} /\ f.value = f.list /\ f.alone = job[p].alone
  BY <1>1 DEF JobFrame
<1>. HIDE DEF f
<1>5. JobsInv'
  BY <1>2, <1>3, JobMoves DEF CatalogInv
<1>6. ReadyInv'
  BY <1>1, <1>2, <1>3, <1>4, ReadyMoves DEF CatalogInv
<1>7. ~Quiet(p) /\ job[p].pc \in Active
  BY <1>1 DEF Quiet, Active, Reading
<1>8. AloneInv'
  BY <1>2, <1>3, <1>4, <1>7, AloneMoves DEF CatalogInv
<1>. QED
  BY <1>5, <1>6, <1>8 DEF CatalogInv

\* A page fails.
LEMMA FetchFailsKeeps ==
  ASSUME CatalogInv, NEW p \in Jobs, FetchFails(p)
  PROVE  CatalogInv'
<1>. DEFINE f == [job[p] EXCEPT !.pc = "end", !.failed = TRUE]
<1>1. /\ job[p] \in JobFrame /\ GoodJob(job[p]) /\ job[p].pc = "fetch"
      /\ repos \in Seq(Repos) /\ isCatalogReady \in BOOLEAN /\ job \in [Jobs -> JobFrame]
  BY DEF FetchFails, CatalogInv, JobsInv, ReadyInv
<1>2. job' = [job EXCEPT ![p] = f] /\ UNCHANGED <<live, repos, isCatalogReady>>
  BY <1>1 DEF FetchFails, JobFrame
<1>3. f \in JobFrame /\ GoodJob(f)
  BY <1>1, FailedGood
<1>4. f.pc = "end" /\ f.alone = job[p].alone
  BY <1>1 DEF JobFrame
<1>. HIDE DEF f
<1>5. JobsInv'
  BY <1>2, <1>3, JobMoves DEF CatalogInv
<1>6. ReadyInv'
  BY <1>1, <1>2, <1>3, <1>4, ReadyMoves DEF CatalogInv
<1>7. ~Quiet(p) /\ job[p].pc \in Active
  BY <1>1 DEF Quiet, Active, Reading
<1>8. AloneInv'
  BY <1>2, <1>3, <1>4, <1>7, AloneMoves DEF CatalogInv
<1>. QED
  BY <1>5, <1>6, <1>8 DEF CatalogInv

\* The steps that leave a refresh.
LEMMA FirstFailsKeeps ==
  ASSUME CatalogInv, NEW p \in Jobs, FirstFails(p)
  PROVE  CatalogInv'
<1>1. /\ job[p].pc = "first" /\ live' = live /\ live \subseteq Repos
      /\ repos \in Seq(Repos) /\ isCatalogReady \in BOOLEAN
  BY DEF FirstFails, CatalogInv, JobsInv, ReadyInv
<1>2. CASE isCatalogReady
  <2>1. /\ job' = [job EXCEPT ![p] = [Idle EXCEPT !.pc = "back"]]
        /\ UNCHANGED <<repos, isCatalogReady>>
    BY <1>2 DEF FirstFails
  <2>2. ~Quiet(p)
    BY <1>1 DEF Quiet
  <2>. QED
    BY <1>1, <1>2, <2>1, <2>2, RestMoves
<1>3. CASE ~isCatalogReady
  BY <1>1, <1>3, StopKeeps DEF FirstFails
<1>. QED
  BY <1>2, <1>3

\* The local list is published.
LEMMA PublishKeeps ==
  ASSUME CatalogInv, NEW p \in Jobs, Publish(p)
  PROVE  CatalogInv'
<1>1. /\ ~Quiet(p) /\ isCatalogReady \in BOOLEAN /\ UNCHANGED <<live, isCatalogReady>>
      /\ job' = [job EXCEPT ![p] = [Idle EXCEPT !.pc = "mark"]]
  BY DEF Publish, Quiet, CatalogInv, ReadyInv
<1>2. repos' \in Seq(Repos)
  BY StoresLists DEF CatalogInv
<1>. QED
  BY <1>1, <1>2, RestMoves

\* The catalog is ready.
LEMMA MarkReadyKeeps ==
  ASSUME CatalogInv, NEW p \in Jobs, MarkReady(p)
  PROVE  CatalogInv'
<1>1. /\ ~Quiet(p) /\ repos' \in Seq(Repos) /\ isCatalogReady' = TRUE /\ live' = live
      /\ job' = [job EXCEPT ![p] = [Idle EXCEPT !.pc = "back"]]
  BY DEF MarkReady, Quiet, CatalogInv, ReadyInv
<1>. QED
  BY <1>1, RestMoves

\* The callers go on; RefreshTags changes nothing here.
LEMMA ReturnedKeeps ==
  ASSUME CatalogInv, BackgroundReturned \/ PurgeReturned
  PROVE  CatalogInv'
<1>1. repos \in Seq(Repos) /\ Background \in Jobs /\ Purger \in Jobs
  BY DEF CatalogInv, ReadyInv, Jobs
<1>2. CASE BackgroundReturned
  <2>. DEFINE c == IF CatalogInterval = 0 THEN "stopped" ELSE "idle"
  <2>1. /\ job[Background].pc = "back" /\ UNCHANGED <<live, repos, isCatalogReady>>
        /\ job' = [job EXCEPT ![Background] = [Idle EXCEPT !.pc = c]]
    BY <1>2 DEF BackgroundReturned, BackgroundBack
  <2>2. ~Quiet(Background) /\ isCatalogReady = TRUE /\ c \in {"idle", "stopped"}
    BY <1>1, <2>1 DEF Quiet, CatalogInv, ReadyInv
  <2>. HIDE DEF c
  <2>. QED
    BY <1>1, <2>1, <2>2, RestMoves
<1>3. CASE PurgeReturned
  <2>1. Idle = [Idle EXCEPT !.pc = "idle"]
    BY DEF Idle
  <2>2. /\ job[Purger].pc = "back" /\ UNCHANGED <<live, repos, isCatalogReady>>
        /\ job' = [job EXCEPT ![Purger] = [Idle EXCEPT !.pc = "idle"]]
    BY <1>3, <2>1 DEF PurgeReturned, Goes
  <2>3. ~Quiet(Purger) /\ isCatalogReady = TRUE
    BY <1>1, <2>2 DEF Quiet, CatalogInv, ReadyInv
  <2>. QED
    BY <1>1, <2>2, <2>3, RestMoves
<1>. QED
  BY <1>2, <1>3

\* Steps of others leave the invariant alone.
LEMMA SameKeeps ==
  ASSUME CatalogInv, UNCHANGED <<live, repos, isCatalogReady, job>>
  PROVE  CatalogInv'
BY DEF CatalogInv, JobsInv, ReadyInv, AloneInv, GoodJob, Quiet

\* Every step keeps the invariant.
LEMMA NextKeepsCatalog == CatalogInv /\ [CatalogNext]_cvars => CatalogInv'
<1>. SUFFICES ASSUME CatalogInv, [CatalogNext]_cvars
              PROVE  CatalogInv'
  OBVIOUS
<1>1. ASSUME NEW r \in Repos, AddRepo(r) \/ RemoveRepo(r)
      PROVE  CatalogInv'
  BY <1>1, AddRepoKeeps, RemoveRepoKeeps
<1>2. CASE Crash
  BY <1>2, StopKeeps DEF Crash, CatalogInv, JobsInv
<1>3. CASE Restart
  BY <1>3, SameKeeps DEF Restart, client
<1>4. ASSUME NEW p \in Jobs, StartRefresh(p) \/ RefreshStep(p)
      PROVE  CatalogInv'
  BY <1>4, StartRefreshKeeps, FetchPageKeeps, FirstFailsKeeps, FetchFailsKeeps, HandlePageKeeps,
     StoreAppendKeeps, EndOfPagesKeeps, PublishKeeps, MarkReadyKeeps DEF RefreshStep
<1>5. CASE BackgroundReturned \/ PurgeReturned
  BY <1>5, ReturnedKeeps
<1>6. CASE TagsStep
  BY <1>6, SameKeeps DEF TagsStep, TagsCycle, TagsFetch, TagsFetchFails
<1>7. CASE UNCHANGED cvars
  BY <1>7, SameKeeps DEF cvars, client
<1>. QED
  BY <1>1, <1>2, <1>3, <1>4, <1>5, <1>6, <1>7 DEF CatalogNext

-----------------------------------------------------------------------------
(***************************************************************************)
(* The theorems.                                                           *)
(***************************************************************************)
\* The frames of both refreshes, the shared list and the ready flag satisfy the
\* inductive invariant in every reachable state of RefreshCatalog's callers.
THEOREM CatalogInvariant == CatalogSpec => []CatalogInv
BY InitCatalog, NextKeepsCatalog, PTL DEF CatalogSpec

\* A refresh none of whose requests failed publishes every repository that was
\* there all the time, each once, for any number of repositories, of pages and
\* of changes between them (the handlers of Catalogger's pages in
\* RefreshCatalog).
THEOREM RefreshesAreComplete == CatalogSpec => []RefreshComplete
<1>1. ASSUME CatalogInv
      PROVE  RefreshComplete
  <2>. SUFFICES ASSUME NEW p \in Jobs, job[p].pc \in {"end", "publish"}, ~job[p].failed
                PROVE  job[p].must \subseteq Listed(job[p].list) /\ NamedOnce(job[p].list)
    BY DEF RefreshComplete
  <2>1. job[p] \in JobFrame /\ InOrder(job[p]) /\ Reaches(job[p])
    BY <1>1 DEF CatalogInv, JobsInv, GoodJob
  <2>2. job[p].list \in Seq(Repos)
    BY <2>1 DEF JobFrame
  <2>. QED
    BY <2>1, <2>2, AscendingNamesOnce DEF InOrder, Reaches
<1>. QED
  BY <1>1, CatalogInvariant, PTL

\* A step that changes the shared list is a stop of the process or a store.
LEMMA StoresOnly ==
  ASSUME [CatalogNext]_cvars
  PROVE  \/ repos' = repos
         \/ repos' = <<>>
         \/ \E p \in Jobs : StoreAppend(p) \/ Publish(p)
BY DEF CatalogNext, cvars, client, AddRepo, RemoveRepo, Crash, Restart, Stop, StartRefresh,
   RefreshStep, Goes, FetchPage, FirstFails, FetchFails, HandlePage, PageRead, EndOfPages,
   MarkReady, BackgroundReturned, BackgroundBack, PurgeReturned, TagsStep, TagsCycle,
   TagsFetch, TagsFetchFails

\* The shared list comes to name a repository twice only by the store of a
\* refresh that overlapped another one, for any number of repositories (the
\* unlocked appends and assignments to Client.repos in RefreshCatalog).
THEOREM TwiceNeedsOverlap == CatalogSpec => TwiceOnlyByOverlap
<1>1. ASSUME CatalogInv, [CatalogNext]_cvars, NamedOnce(repos), ~NamedOnce(repos')
      PROVE  \E p \in Jobs : job[p].pc \in {"append", "publish"} /\ ~job[p].alone
  <2>1. repos' # repos
    BY <1>1
  <2>2. repos' # <<>>
    BY <1>1, EmptyList, AscendingNamesOnce
  <2>3. PICK p \in Jobs : StoreAppend(p) \/ Publish(p)
    BY <1>1, <2>1, <2>2, StoresOnly
  <2>4. job[p].pc \in {"append", "publish"}
    BY <2>3 DEF StoreAppend, Publish
  <2>5. job[p] \in JobFrame /\ job[p].list \in Seq(Repos) /\ Ascending(job[p].list)
    BY <1>1 DEF CatalogInv, JobsInv, GoodJob, InOrder, JobFrame
  <2>6. NamedOnce(job[p].list)
    BY <2>5, AscendingNamesOnce
  <2>7. job[p].alone => repos' = job[p].list
    BY <1>1, <2>3, AppendAlone, PublishAlone DEF CatalogInv
  <2>8. ~job[p].alone
    BY <1>1, <2>6, <2>7
  <2>. QED
    BY <2>4, <2>8
<1>2. CatalogInv /\ [CatalogNext]_cvars =>
        [NamedOnce(repos) /\ ~NamedOnce(repos') =>
           \E p \in Jobs : job[p].pc \in {"append", "publish"} /\ ~job[p].alone]_cvars
  BY <1>1
<1>. QED
  BY <1>2, CatalogInvariant, PTL DEF CatalogSpec, TwiceOnlyByOverlap

-----------------------------------------------------------------------------
(***************************************************************************)
(* Refreshes one after the other.                                          *)
(***************************************************************************)
\* A refresh starts while the other goroutine is busy with one.
Overlapping == \E p \in Jobs : StartRefresh(p) /\ \E o \in Jobs \ {p} : ~Quiet(o)

NoOverlap == [][~Overlapping]_cvars

\* Whoever is busy is alone, and the shared list is in the registry's order.
SoloInv ==
  /\ Ascending(repos)
  /\ \A p \in Jobs : ~Quiet(p) => job[p].alone /\ \A q \in Jobs \ {p} : Quiet(q)

\* Nobody is busy at first, and nothing is listed.
LEMMA SoloInit == CatalogInit => SoloInv
BY DEF CatalogInit, SoloInv, Quiet, Idle, Ascending

\* A busy goroutine goes on, or comes to rest.
LEMMA SoloMoves ==
  ASSUME SoloInv, NEW p \in Jobs, ~Quiet(p), job'[p].alone,
         \A q \in Jobs \ {p} : job'[q] = job[q]
  PROVE  \A q \in Jobs : ~Quiet(q)' => job'[q].alone /\ \A o \in Jobs \ {q} : Quiet(o)'
<1>1. \A q \in Jobs \ {p} : Quiet(q)
  BY DEF SoloInv
<1>. QED
  BY <1>1 DEF Quiet

\* The stores of refreshes that run alone leave the shared list in order.
LEMMA SoloStores ==
  ASSUME CatalogInv, SoloInv, [CatalogNext]_cvars
  PROVE  Ascending(repos')
<1>1. CASE repos' = repos
  BY <1>1 DEF SoloInv
<1>2. CASE repos' = <<>>
  BY <1>2 DEF Ascending
<1>3. ASSUME NEW p \in Jobs, StoreAppend(p) \/ Publish(p)
      PROVE  Ascending(repos')
  <2>1. ~Quiet(p)
    BY <1>3 DEF StoreAppend, Publish, Quiet
  <2>2. repos' = job[p].list
    BY <1>3, <2>1, AppendAlone, PublishAlone DEF CatalogInv, SoloInv
  <2>. QED
    BY <2>2 DEF CatalogInv, JobsInv, GoodJob, InOrder
<1>. QED
  BY <1>1, <1>2, <1>3, StoresOnly

\* As long as no two refreshes overlap, every step keeps it so.
LEMMA SoloNext ==
  ASSUME CatalogInv, SoloInv, [CatalogNext]_cvars, [~Overlapping]_cvars
  PROVE  SoloInv'
<1>. DEFINE Busy == \A q \in Jobs : ~Quiet(q)' => job'[q].alone /\ \A o \in Jobs \ {q} : Quiet(o)'
<1>1. JobsInv /\ job \in [Jobs -> JobFrame]
  BY DEF CatalogInv, JobsInv
<1>2. job' = job => Busy
  BY DEF SoloInv, Quiet
<1>3. Stop => Busy
  BY DEF Stop, Quiet, Idle
<1>4. ASSUME NEW r \in Repos, RemoveRepo(r)
      PROVE  Busy
  <2>1. \A q \in Jobs : job'[q].pc = job[q].pc /\ job'[q].alone = job[q].alone
    BY <1>1, <1>4 DEF RemoveRepo, JobFrame
  <2>. QED
    BY <2>1 DEF SoloInv, Quiet
<1>5. ASSUME NEW p \in Jobs, StartRefresh(p)
      PROVE  Busy
  <2>1. job' # job
    BY <1>1, <1>5 DEF StartRefresh, Idle
  <2>2. \A o \in Jobs \ {p} : Quiet(o)
    BY <1>5, <2>1 DEF Overlapping, cvars, client
  <2>3. job'[p].alone /\ \A o \in Jobs \ {p} : job'[o].pc = job[o].pc
    BY <1>1, <1>5, <2>2 DEF StartRefresh, Quiet, Idle, JobFrame
  <2>. QED
    BY <2>2, <2>3 DEF Quiet
<1>6. ASSUME NEW p \in Jobs, RefreshStep(p), ~Stop
      PROVE  Busy
  <2>1. ~Quiet(p)
    BY <1>6 DEF RefreshStep, FetchPage, FirstFails, FetchFails, HandlePage, PageRead, StoreAppend,
       EndOfPages, Publish, MarkReady, Quiet
  <2>2. job[p].alone /\ job[p] \in JobFrame
    BY <1>1, <2>1 DEF SoloInv
  <2>3. /\ job' = [job EXCEPT ![p] = job'[p]]
        /\ job'[p].alone
    <3>1. CASE FetchPage(p)
      <4>1. PICK page, more :
              job' = [job EXCEPT ![p] = [job[p] EXCEPT !.pc = "page", !.page = page, !.more = more]]
        BY <3>1 DEF FetchPage, Goes
      <4>. QED
        BY <1>1, <2>2, <4>1 DEF JobFrame
    <3>2. CASE HandlePage(p)
      <4>1. PICK pc, list, last, value :
              job' = [job EXCEPT ![p] = [job[p] EXCEPT !.pc = pc, !.list = list, !.last = last,
                                                       !.value = value]]
        BY <3>2 DEF HandlePage, PageRead, Goes
      <4>. QED
        BY <1>1, <2>2, <4>1 DEF JobFrame
    <3>3. CASE EndOfPages(p)
      <4>1. PICK pc, value :
              job' = [job EXCEPT ![p] = [job[p] EXCEPT !.pc = pc, !.value = value, !.page = <<>>,
                                                       !.last = 0]]
        BY <3>3 DEF EndOfPages, Goes
      <4>. QED
        BY <1>1, <2>2, <4>1 DEF JobFrame
    <3>4. CASE FetchFails(p)
      BY <1>1, <2>2, <3>4 DEF FetchFails, JobFrame
    <3>5. CASE StoreAppend(p)
      BY <1>1, <2>2, <3>5 DEF StoreAppend, JobFrame
    <3>6. CASE FirstFails(p) \/ Publish(p) \/ MarkReady(p)
      BY <1>1, <1>6, <3>6 DEF FirstFails, Publish, MarkReady, Idle
    <3>. QED
      BY <1>6, <3>1, <3>2, <3>3, <3>4, <3>5, <3>6 DEF RefreshStep
  <2>4. \A q \in Jobs \ {p} : job'[q] = job[q]
    BY <1>1, <2>3
  <2>. QED
    BY <2>1, <2>3, <2>4, SoloMoves
<1>7. ASSUME BackgroundReturned \/ PurgeReturned
      PROVE  Busy
  <2>1. PICK p \in Jobs : \E c : /\ job[p].pc = "back"
                                 /\ job' = [job EXCEPT ![p] = [Idle EXCEPT !.pc = c]]
    <3>1. Idle = [Idle EXCEPT !.pc = "idle"]
      BY DEF Idle
    <3>2. Background \in Jobs /\ Purger \in Jobs
      BY DEF Jobs
    <3>. QED
      BY <1>7, <3>1, <3>2 DEF BackgroundReturned, BackgroundBack, PurgeReturned, Goes
  <2>2. PICK c : job' = [job EXCEPT ![p] = [Idle EXCEPT !.pc = c]]
    BY <2>1
  <2>3. job'[p].alone /\ \A q \in Jobs \ {p} : job'[q] = job[q]
    BY <1>1, <2>2 DEF Idle
  <2>. QED
    BY <2>1, <2>3, SoloMoves DEF Quiet
<1>8. Busy
  BY <1>2, <1>3, <1>4, <1>5, <1>6, <1>7
     DEF CatalogNext, cvars, client, AddRepo, Crash, Restart, TagsStep, TagsCycle, TagsFetch,
         TagsFetchFails
<1>. QED
  BY <1>8, SoloStores DEF SoloInv, Quiet

\* What the purge gets from GetRepos is then the shared list, and in order.
LEMMA SoloReads ==
  ASSUME SoloInv, job[Purger].pc = "back", NEW list \in Reads
  PROVE  list = repos /\ Ascending(list)
<1>1. \A q \in Jobs : job[q].pc \notin {"append", "publish"}
  BY DEF SoloInv, Quiet, Jobs
<1>2. Pending({}) = {}
  BY <1>1 DEF Pending
<1>3. Reads = {repos}
  BY <1>2 DEF Reads
<1>. QED
  BY <1>3 DEF SoloInv

\* As long as a refresh starts only when no other one is under way, the list
\* that the purge gets from GetRepos names every repository once, whatever
\* changes in the registry and whichever requests fail.
THEOREM SoloRefreshesListOnce ==
  CatalogSpec /\ NoOverlap =>
    [](job[Purger].pc = "back" => \A list \in Reads : NamedOnce(list))
<1>. DEFINE Inv == CatalogInv /\ SoloInv
            ReadsOnce == job[Purger].pc = "back" => \A list \in Reads : NamedOnce(list)
<1>1. CatalogInit => Inv
  BY InitCatalog, SoloInit
<1>2. Inv /\ [CatalogNext]_cvars /\ [~Overlapping]_cvars => Inv'
  BY NextKeepsCatalog, SoloNext
<1>3. Inv => ReadsOnce
  BY SoloReads, AscendingNamesOnce DEF CatalogInv, ReadyInv
<1>. QED
  BY <1>1, <1>2, <1>3, PTL DEF CatalogSpec, NoOverlap

\* Whatever races, what is read is a list of repositories.
LEMMA ReadsLists ==
  ASSUME CatalogInv, NEW list \in Reads
  PROVE  list \in Seq(Repos)
<1>. DEFINE values == Pending({}) \cup {repos}
<1>1. values \in SUBSET Seq(Repos)
  BY PendingLists DEF CatalogInv, ReadyInv
<1>2. Lengths(values) \in SUBSET Nat
  BY <1>1, LengthsNat
<1>3. list \in values \/ list \in Mixed(values, Lengths(values))
  BY DEF Reads
<1>. HIDE DEF values
<1>. QED
  BY <1>1, <1>2, <1>3, MixedLists

-----------------------------------------------------------------------------
(***************************************************************************)
(* Sums.                                                                   *)
(***************************************************************************)
\* Finitely many numbers count finitely many units.
LEMMA UnitsFinite ==
  ASSUME NEW S, IsFiniteSet(S), NEW f, \A x \in S : f[x] \in Nat
  PROVE  IsFiniteSet(Units(f, S)) /\ SumOver(f, S) \in Nat
<1>. DEFINE Of(x) == {x} \X (1..f[x])
            T == {Of(x) : x \in S}
            g == [x \in S |-> Of(x)]
<1>1. \A x \in S : IsFiniteSet(Of(x))
  <2>1. SUFFICES ASSUME NEW x \in S PROVE IsFiniteSet({x} \X (1..f[x]))
    OBVIOUS
  <2>2. IsFiniteSet({x})
    BY FS_Singleton
  <2>3. IsFiniteSet(1..f[x])
    <3>1. 1 \in Int /\ f[x] \in Int
      OBVIOUS
    <3>. QED
      BY <3>1, FS_Interval
  <2>. QED
    BY <2>2, <2>3, FS_Product
<1>. HIDE DEF Of
<1>2. g \in Surjection(S, T)
  BY DEF Surjection
<1>3. IsFiniteSet(T)
  BY <1>2, FS_Surjection
<1>4. IsFiniteSet(UNION T)
  BY <1>1, <1>3, FS_UNION
<1>5. IsFiniteSet(Units(f, S))
  BY <1>4 DEF Units, Of
<1>. QED
  BY <1>5, FS_CardinalityType DEF SumOver

\* Sums over disjoint sets add up.
LEMMA SumUnion ==
  ASSUME NEW S, NEW T, IsFiniteSet(S), IsFiniteSet(T), S \cap T = {},
         NEW f, \A x \in S \cup T : f[x] \in Nat
  PROVE  SumOver(f, S \cup T) = SumOver(f, S) + SumOver(f, T)
<1>1. /\ IsFiniteSet(Units(f, S)) /\ SumOver(f, S) \in Nat
      /\ IsFiniteSet(Units(f, T)) /\ SumOver(f, T) \in Nat
  BY UnitsFinite
<1>2. Units(f, S \cup T) = Units(f, S) \cup Units(f, T) /\ Units(f, S) \cap Units(f, T) = {}
  BY DEF Units
<1>3. Cardinality(Units(f, S) \cap Units(f, T)) = 0
  BY <1>2, FS_EmptySet
<1>4. Cardinality(Units(f, S) \cup Units(f, T))
        = Cardinality(Units(f, S)) + Cardinality(Units(f, T)) - Cardinality(Units(f, S) \cap Units(f, T))
  BY <1>1, FS_Union
<1>5. SumOver(f, S \cup T) = Cardinality(Units(f, S) \cup Units(f, T))
  BY <1>2 DEF SumOver
<1>6. SumOver(f, S) = Cardinality(Units(f, S)) /\ SumOver(f, T) = Cardinality(Units(f, T))
  BY DEF SumOver
<1>. QED
  BY <1>1, <1>3, <1>4, <1>5, <1>6

\* A sum over nothing.
LEMMA SumEmpty == ASSUME NEW f PROVE SumOver(f, {}) = 0
<1>1. Units(f, {}) = {}
  BY DEF Units
<1>. QED
  BY <1>1, FS_EmptySet DEF SumOver

\* The sets b[i] are the parts of S, and g[i] is the sum of f over b[i].
InParts(g, I, b, f, S) ==
  /\ IsFiniteSet(S) /\ \A x \in S : f[x] \in Nat
  /\ b \in [I -> SUBSET S]
  /\ \A x \in S : \E i \in I : x \in b[i]
  /\ \A i, j \in I : b[i] \cap b[j] # {} => i = j
  /\ \A i \in I : g[i] = SumOver(f, b[i])

\* A sum may be taken part by part.
LEMMA SumOfParts ==
  ASSUME NEW g, NEW I, NEW b, NEW f, NEW S, InParts(g, I, b, f, S)
  PROVE  SumOver(g, I) = SumOver(f, S)
<1>. USE DEF InParts
<1>. DEFINE U(i) == Units(f, b[i])
            Nums(i) == Bijection(1..g[i], U(i))
            h == [i \in I |-> CHOOSE e : e \in Nums(i)]
<1>1. \A i \in I : h[i] \in Nums(i)
  <2>1. SUFFICES ASSUME NEW i \in I PROVE \E e : e \in Nums(i)
    OBVIOUS
  <2>2. IsFiniteSet(b[i]) /\ \A x \in b[i] : f[x] \in Nat
    BY FS_Subset
  <2>3. IsFiniteSet(U(i))
    BY <2>2, UnitsFinite
  <2>4. ExistsBijection(1..Cardinality(U(i)), U(i))
    BY <2>3, FS_CardinalityType
  <2>. QED
    BY <2>4 DEF ExistsBijection, SumOver
<1>2. \A i \in I : /\ h[i] \in [1..g[i] -> U(i)]
                   /\ \A k, l \in 1..g[i] : h[i][k] = h[i][l] => k = l
                   /\ \A u \in U(i) : \E k \in 1..g[i] : h[i][k] = u
  <2>. HIDE DEF h, U
  <2>1. SUFFICES ASSUME NEW i \in I
                 PROVE  /\ h[i] \in [1..g[i] -> U(i)]
                        /\ \A k, l \in 1..g[i] : h[i][k] = h[i][l] => k = l
                        /\ \A u \in U(i) : \E k \in 1..g[i] : h[i][k] = u
    OBVIOUS
  <2>2. h[i] \in Bijection(1..g[i], U(i))
    BY <1>1
  <2>. QED
    BY <2>2 DEF Bijection, Injection, Surjection, IsInjective
<1>. HIDE DEF h
<1>3. /\ \A i \in I : \A u \in U(i) : u \in Units(f, S) /\ u[1] \in b[i]
      /\ \A u \in Units(f, S) : \E i \in I : u \in U(i)
  BY DEF Units
<1>. HIDE DEF U
<1>. DEFINE P == Units(g, I)
            F == [p \in P |-> h[p[1]][p[2]]]
<1>4. \A p \in P : p[1] \in I /\ p[2] \in 1..g[p[1]] /\ p = <<p[1], p[2]>>
  BY DEF Units
<1>5. \A i \in I : \A k \in 1..g[i] : <<i, k>> \in P
  BY DEF Units
<1>. HIDE DEF P
<1>6. /\ F \in [P -> Units(f, S)]
      /\ \A p \in P : F[p] \in U(p[1])
  <2>1. \A i \in I : \A k \in 1..g[i] : h[i][k] \in U(i)
    BY <1>2
  <2>2. \A p \in P : F[p] \in U(p[1])
    BY <1>4, <2>1
  <2>. QED
    BY <1>3, <1>4, <2>2
<1>7. ASSUME NEW p \in P, NEW q \in P, F[p] = F[q] PROVE p = q
  <2>1. F[p] \in U(p[1]) /\ F[q] \in U(q[1])
    BY <1>6
  <2>2. p[1] = q[1]
    BY <1>3, <1>4, <1>7, <2>1
  <2>. QED
    BY <1>2, <1>4, <1>7, <2>2
<1>8. ASSUME NEW u \in Units(f, S) PROVE \E p \in P : F[p] = u
  <2>1. PICK i \in I : u \in U(i)
    BY <1>3
  <2>2. PICK k \in 1..g[i] : h[i][k] = u
    BY <1>2, <2>1
  <2>3. F[<<i, k>>] = u
    BY <1>5, <2>2
  <2>. QED
    BY <1>5, <2>3
<1>9. F \in Bijection(P, Units(f, S))
  BY <1>6, <1>7, <1>8 DEF Bijection, Injection, Surjection, IsInjective
<1>10. Cardinality(P) = Cardinality(Units(f, S))
  <2>1. IsFiniteSet(Units(f, S))
    BY UnitsFinite
  <2>2. F \in Injection(P, Units(f, S)) /\ F \in Surjection(P, Units(f, S))
    BY <1>9 DEF Bijection
  <2>. HIDE DEF F
  <2>. QED
    BY <2>1, <2>2, FS_Injection
<1>. QED
  BY <1>10 DEF SumOver, P

-----------------------------------------------------------------------------
(***************************************************************************)
(* Paths and pages.                                                        *)
(***************************************************************************)
\* What it is to be a prefix, element by element.
LEMMA PrefixElements ==
  ASSUME NEW a \in Seq(Nat), NEW p \in Seq(Nat)
  PROVE  /\ IsPrefix(a, p) <=> Len(a) <= Len(p) /\ \A i \in 1..Len(a) : a[i] = p[i]
         /\ IsStrictPrefix(a, p) <=> Len(a) < Len(p) /\ \A i \in 1..Len(a) : a[i] = p[i]
<1>1. IsPrefix(a, p) <=> Len(a) <= Len(p) /\ \A i \in 1..Len(a) : a[i] = p[i]
  <2>1. SUFFICES ASSUME Len(a) <= Len(p)
                 PROVE  SubSeq(a, 1, Len(a)) = SubSeq(p, 1, Len(a))
                          <=> \A i \in 1..Len(a) : a[i] = p[i]
    BY DEF IsPrefix
  <2>. DEFINE n == Len(a)
              x == SubSeq(a, 1, n)
              y == SubSeq(p, 1, n)
  <2>2. n \in Nat /\ Len(p) \in Nat
    OBVIOUS
  <2>3. x \in Seq(Nat) /\ Len(x) = n /\ \A i \in 1..n : x[i] = a[i]
    BY <2>2
  <2>4. y \in Seq(Nat) /\ Len(y) = n /\ \A i \in 1..n : y[i] = p[i]
    BY <2>1, <2>2
  <2>. HIDE DEF n, x, y
  <2>5. x = y <=> \A i \in 1..n : x[i] = y[i]
    BY <2>2, <2>3, <2>4
  <2>. QED
    BY <2>3, <2>4, <2>5 DEF n, x, y
<1>2. Len(a) = Len(p) /\ (\A i \in 1..Len(a) : a[i] = p[i]) => a = p
  OBVIOUS
<1>. QED
  BY <1>1, <1>2 DEF IsStrictPrefix

\* The repositories below an entry of a page are those below the page whose
\* paths go on with the entry.
LEMMA BelowEntry ==
  ASSUME NEW a \in Seq(Nat), NEW p \in Seq(Nat), NEW s \in Nat
  PROVE  IsPrefix(Append(a, s), p) <=> IsStrictPrefix(a, p) /\ p[Len(a) + 1] = s
<1>. DEFINE as == Append(a, s)
<1>1. /\ as \in Seq(Nat) /\ Len(as) = Len(a) + 1 /\ Len(a) \in Nat
      /\ \A i \in 1..Len(a) : as[i] = a[i]
      /\ as[Len(a) + 1] = s
  OBVIOUS
<1>. HIDE DEF as
<1>2. IsPrefix(as, p) <=> Len(as) <= Len(p) /\ \A i \in 1..Len(as) : as[i] = p[i]
  BY <1>1, PrefixElements
<1>3. IsStrictPrefix(a, p) <=> Len(a) < Len(p) /\ \A i \in 1..Len(a) : a[i] = p[i]
  BY PrefixElements
<1>4. Len(p) \in Nat
  OBVIOUS
<1>5. 1..Len(as) = (1..Len(a)) \cup {Len(a) + 1}
  BY <1>1, <1>4
<1>6. (\A i \in 1..Len(as) : as[i] = p[i]) <=> p[Len(a) + 1] = s /\ \A i \in 1..Len(a) : a[i] = p[i]
  BY <1>1, <1>5
<1>7. Len(as) <= Len(p) <=> Len(a) < Len(p)
  BY <1>1, <1>4
<1>. QED
  BY <1>2, <1>3, <1>6, <1>7 DEF as

\* A list names finitely many repositories.
LEMMA ListedFinite == ASSUME NEW list \in Seq(Repos) PROVE IsFiniteSet(Listed(list))
<1>1. list \in Surjection(1..Len(list), Listed(list))
  BY DEF Surjection, Listed
<1>2. IsFiniteSet(1..Len(list))
  BY FS_Interval
<1>. QED
  BY <1>1, <1>2, FS_Surjection

\* The counts on a page add up to the tags of everything below it, if the list
\* names whatever is cached.
LEMMA PageAddsUp ==
  ASSUME NEW path \in Layouts, NEW at \in Seq(Nat),
         repos \in Seq(Repos), cached \subseteq Listed(repos)
  PROVE  PageSum(path, at) = TagsOf({r \in cached : IsStrictPrefix(at, path[r])})
<1>. DEFINE I == SubRepos(path, at)
            S == {r \in cached : IsStrictPrefix(at, path[r])}
            b == [s \in I |-> {r \in cached : IsPrefix(Append(at, s), path[r])}]
            g == SubRepoTagCounts(path, at)
<1>1. /\ Listed(repos) \subseteq Repos
      /\ \A r \in Repos : path[r] \in Seq(Nat) /\ TagCount[r] \in Nat
  BY PagesAssumption DEF Listed
<1>2. IsFiniteSet(S)
  BY ListedFinite, FS_Subset
<1>3. \A r \in cached : \A s \in Nat :
        IsPrefix(Append(at, s), path[r]) <=> IsStrictPrefix(at, path[r]) /\ path[r][Len(at) + 1] = s
  BY <1>1, BelowEntry
<1>4. \A r \in Listed(repos) : IsStrictPrefix(at, path[r]) => path[r][Len(at) + 1] \in Nat
  <2>1. SUFFICES ASSUME NEW r \in Listed(repos), IsStrictPrefix(at, path[r])
                 PROVE  path[r][Len(at) + 1] \in Nat
    OBVIOUS
  <2>2. path[r] \in Seq(Nat) /\ Len(at) < Len(path[r]) /\ Len(at) \in Nat /\ Len(path[r]) \in Nat
    BY <1>1, <2>1, PrefixElements
  <2>3. Len(at) + 1 \in 1..Len(path[r])
    BY <2>2
  <2>. QED
    BY <2>2, <2>3
<1>5. I \subseteq Nat /\ \A r \in S : path[r][Len(at) + 1] \in I
  BY <1>4 DEF SubRepos
<1>6. b \in [I -> SUBSET S] /\ \A s \in I : \A r \in b[s] : path[r][Len(at) + 1] = s
  BY <1>3, <1>5
<1>7. \A r \in S : \E s \in I : r \in b[s]
  BY <1>3, <1>5
<1>8. \A s \in I : g[s] = SumOver(TagCount, b[s])
  BY DEF SubRepoTagCounts, TagsOf
<1>9. \A r \in S : TagCount[r] \in Nat
  BY <1>1
<1>10. \A s, u \in I : b[s] \cap b[u] # {} => s = u
  BY <1>6
<1>. HIDE DEF I, S, b, g
<1>11. SumOver(g, I) = SumOver(TagCount, S)
  <2>1. b \in [I -> SUBSET S]
    BY <1>6
  <2>2. InParts(g, I, b, TagCount, S)
    BY <1>2, <1>7, <1>8, <1>9, <1>10, <2>1 DEF InParts
  <2>. QED
    BY <2>2, SumOfParts
<1>. QED
  BY <1>11 DEF PageSum, TagsOf, I, S, g

\* A page shows what lies below its path: the tags of the repository with that
\* path and those of the sub-repositories.
LEMMA OwnAndBelow ==
  ASSUME NEW path \in Layouts, NEW at \in Seq(Nat),
         repos \in Seq(Repos), cached \subseteq Listed(repos)
  PROVE  TagsOf({r \in cached : IsPrefix(at, path[r])}) = OwnTags(path, at) + PageSum(path, at)
<1>. DEFINE Own == {r \in cached : path[r] = at}
            Below == {r \in cached : IsStrictPrefix(at, path[r])}
<1>1. \A r \in cached : path[r] \in Seq(Nat) /\ TagCount[r] \in Nat
  <2>1. Listed(repos) \subseteq Repos
    BY DEF Listed
  <2>. QED
    BY <2>1, PagesAssumption
<1>2. {r \in cached : IsPrefix(at, path[r])} = Own \cup Below /\ Own \cap Below = {}
  <2>1. IsPrefix(at, at)
    BY PrefixElements
  <2>. QED
    BY <2>1 DEF IsStrictPrefix
<1>3. IsFiniteSet(Own) /\ IsFiniteSet(Below)
  BY ListedFinite, FS_Subset
<1>4. TagsOf(Own) = OwnTags(path, at)
  <2>1. CASE ShowTags(path, at)
    BY <2>1 DEF OwnTags
  <2>2. CASE ~ShowTags(path, at)
    <3>1. Own = {}
      BY <2>2 DEF ShowTags
    <3>2. TagsOf(Own) = 0
      BY <3>1, SumEmpty DEF TagsOf
    <3>. QED
      BY <2>2, <3>2 DEF OwnTags
  <2>. QED
    BY <2>1, <2>2
<1>5. TagsOf(Below) = PageSum(path, at)
  BY PageAddsUp
<1>6. \A r \in Own \cup Below : TagCount[r] \in Nat
  BY <1>1
<1>. HIDE DEF Own, Below
<1>7. TagsOf(Own \cup Below) = TagsOf(Own) + TagsOf(Below)
  BY <1>2, <1>3, <1>6, SumUnion DEF TagsOf
<1>. QED
  BY <1>2, <1>4, <1>5, <1>7

\* Whatever refreshes, races, failures and restarts have made of the list and of
\* the cache, the counts of the catalog pages agree with each other and with the
\* total of the statistics page, for every way to nest the names (viewCatalog,
\* SubRepoTagCounts and GetTotalTagCount), unless the cache has a repository
\* that the list has not.
THEOREM CountsAgree == CatalogSpec => []CountsAddUp
<1>1. ASSUME CatalogInv PROVE CountsAddUp
  <2>1. SUFFICES ASSUME cached \subseteq Listed(repos), NEW path \in Layouts
                 PROVE  /\ PageSum(path, <<>>) = GetTotalTagCount
                        /\ \A r \in Listed(repos) : \A n \in 1..Len(path[r]) :
                             LET at == SubSeq(path[r], 1, n) IN
                               /\ at[n] \in SubRepos(path, Front(at))
                               /\ SubRepoTagCounts(path, Front(at))[at[n]]
                                    = OwnTags(path, at) + PageSum(path, at)
    BY DEF CountsAddUp
  <2>2. repos \in Seq(Repos)
    BY <1>1 DEF CatalogInv, ReadyInv
  <2>3. \A r \in Listed(repos) : path[r] \in Seq(Nat) /\ path[r] # <<>>
    <3>1. Listed(repos) \subseteq Repos
      BY <2>2 DEF Listed
    <3>. QED
      BY <3>1, PagesAssumption
  <2>4. PageSum(path, <<>>) = GetTotalTagCount
    <3>1. <<>> \in Seq(Nat)
      OBVIOUS
    <3>2. \A r \in cached : IsStrictPrefix(<<>>, path[r])
      <4>1. SUFFICES ASSUME NEW r \in cached PROVE IsStrictPrefix(<<>>, path[r])
        OBVIOUS
      <4>2. path[r] \in Seq(Nat) /\ Len(<<>>) < Len(path[r])
        BY <2>1, <2>3
      <4>3. IsStrictPrefix(<<>>, path[r])
              <=> Len(<<>>) < Len(path[r]) /\ \A i \in 1..Len(<<>>) : <<>>[i] = path[r][i]
        BY <3>1, <4>2, PrefixElements
      <4>4. 1..Len(<<>>) = {}
        OBVIOUS
      <4>. QED
        BY <4>2, <4>3, <4>4
    <3>3. cached = {r \in cached : IsStrictPrefix(<<>>, path[r])}
      BY <3>2
    <3>. QED
      BY <2>1, <2>2, <3>1, <3>3, PageAddsUp DEF GetTotalTagCount
  <2>5. ASSUME NEW r \in Listed(repos), NEW n \in 1..Len(path[r]), NEW at, at = SubSeq(path[r], 1, n)
        PROVE  /\ at[n] \in SubRepos(path, Front(at))
               /\ SubRepoTagCounts(path, Front(at))[at[n]] = OwnTags(path, at) + PageSum(path, at)
    <3>. DEFINE up == Front(at)
                s == at[n]
    <3>1. /\ path[r] \in Seq(Nat) /\ Len(path[r]) \in Nat
          /\ n \in Nat \ {0} /\ n <= Len(path[r])
          /\ 1..n = (1..n - 1) \cup {n}
      BY <2>3
    <3>2. at \in Seq(Nat) /\ Len(at) = n /\ \A i \in 1..n : at[i] = path[r][i]
      BY <2>5, <3>1
    <3>3. up \in Seq(Nat) /\ Len(up) = n - 1 /\ \A i \in 1..n - 1 : up[i] = at[i]
      BY <3>1, <3>2 DEF Front
    <3>4. s \in Nat
      BY <3>1, <3>2
    <3>. HIDE DEF up, s
    <3>5. Append(up, s) = at
      <4>1. /\ Append(up, s) \in Seq(Nat) /\ Len(Append(up, s)) = n
            /\ \A i \in 1..n - 1 : Append(up, s)[i] = at[i]
            /\ Append(up, s)[n] = at[n]
        BY <3>1, <3>3, <3>4 DEF s
      <4>2. \A i \in 1..n : Append(up, s)[i] = at[i]
        BY <3>1, <4>1
      <4>. HIDE DEF up, s
      <4>. QED
        BY <3>2, <4>1, <4>2
    <3>6. IsStrictPrefix(up, path[r]) /\ path[r][Len(up) + 1] = s
      <4>1. Len(up) < Len(path[r]) /\ \A i \in 1..Len(up) : up[i] = path[r][i]
        <5>1. Len(up) < Len(path[r])
          BY <3>1, <3>3
        <5>2. ASSUME NEW i \in 1..Len(up) PROVE up[i] = path[r][i]
          <6>1. i \in 1..n - 1 /\ i \in 1..n
            BY <3>1, <3>3
          <6>. QED
            BY <3>2, <3>3, <6>1
        <5>. QED
          BY <5>1, <5>2
      <4>2. path[r][Len(up) + 1] = s
        BY <3>1, <3>2, <3>3 DEF s
      <4>. QED
        BY <3>1, <3>3, <4>1, <4>2, PrefixElements
    <3>7. s \in SubRepos(path, up)
      BY <3>6 DEF SubRepos
    <3>8. SubRepoTagCounts(path, up)[s] = TagsOf({q \in cached : IsPrefix(at, path[q])})
      BY <3>5, <3>7 DEF SubRepoTagCounts
    <3>9. TagsOf({q \in cached : IsPrefix(at, path[q])}) = OwnTags(path, at) + PageSum(path, at)
      BY <2>1, <2>2, <3>2, OwnAndBelow
    <3>. QED
      BY <3>7, <3>8, <3>9 DEF up, s
  <2>. QED
    BY <2>4, <2>5
<1>. QED
  BY <1>1, CatalogInvariant, PTL

=============================================================================
