---------------------------- MODULE CatalogPages ----------------------------
(***************************************************************************)
(* What the catalog and statistics pages (web.go) show of the list of      *)
(* repositories and of tagsCache.  A repository's name is a path, and each *)
(* page shows one level of the tree of paths, with the number of tags      *)
(* below each of its entries.                                              *)
(***************************************************************************)
EXTENDS Catalog, SequencesExt

CONSTANTS
  Layouts,  \* ways to name the repositories: functions from Repos to paths
  TagCount  \* how many tags tagsCache has for a repository that is cached

ASSUME PagesAssumption == /\ Layouts \subseteq [Repos -> Seq(Nat) \ {<<>>}]
                          /\ TagCount \in [Repos -> Nat]

\* f's values summed up over S: the number of units they count.
Units(f, S) == UNION {{x} \X (1..f[x]) : x \in S}
SumOver(f, S) == Cardinality(Units(f, S))

TagsOf(S) == SumOver(TagCount, S)

GetTotalTagCount == TagsOf(cached)

\* viewCatalog at the path `at` (the empty one for the root): the entries of
\* the next level, and whether the path is itself a repository.
SubRepos(path, at) ==
  {path[r][Len(at) + 1] : r \in {r \in Listed(repos) : IsStrictPrefix(at, path[r])}}

ShowTags(path, at) == \E r \in Listed(repos) : path[r] = at

\* Fault (the one that release 0.10.2 fixed): names are compared without the
\* slash.  Segment n stands for a text of n equal letters.
SubRepoTagCountsTextual(path, at) ==
  [s \in SubRepos(path, at) |->
     TagsOf({r \in cached : IsStrictPrefix(at, path[r]) /\ s <= path[r][Len(at) + 1]})]

\* The number of tags of the sub-repository and of everything below it.
SubRepoTagCounts(path, at) ==
  [s \in SubRepos(path, at) |-> TagsOf({r \in cached : IsPrefix(Append(at, s), path[r])})]

\* The tags a page shows as its own, from the cache.
OwnTags(path, at) ==
  IF ShowTags(path, at) THEN TagsOf({r \in cached : path[r] = at}) ELSE 0

\* The sum of the counts on a page.
PageSum(path, at) == SumOver(SubRepoTagCounts(path, at), SubRepos(path, at))

-----------------------------------------------------------------------------
\* Every repository of the list can be reached from the root page, and the
\* counts on the way add up: what a page says of an entry is what the entry's
\* own page shows, the root page adds up to the total of the statistics page,
\* and no tag is counted twice although names overlap and lists may be partial
\* or doubled.  It needs a cache without repositories that have left the list:
\* those stay in tagsCache and in the total.
CountsAddUp ==
  cached \subseteq Listed(repos) =>
    \A path \in Layouts :
      /\ PageSum(path, <<>>) = GetTotalTagCount
      /\ \A r \in Listed(repos) : \A n \in 1..Len(path[r]) :
           LET at == SubSeq(path[r], 1, n) IN
             /\ at[n] \in SubRepos(path, Front(at))
             /\ SubRepoTagCounts(path, Front(at))[at[n]] = OwnTags(path, at) + PageSum(path, at)
=============================================================================
