---------------------------- MODULE RetentionScan ----------------------------
(***************************************************************************)
(* The retention rule on the list of one repository as the scan loop of    *)
(* RunPurgeOldTags builds it, one dated tag at a time and in any order:    *)
(* what the rule promises holds of the list at every point.                *)
(***************************************************************************)
EXTENDS Retention, Functions

CONSTANTS
  MaxScanned,  \* bound on the length of a scanned list
  Names,       \* tag names
  Hours,       \* creation times
  RunHour,     \* the hour of the run
  FileTags     \* the tags the keep file lists

ASSUME ScanAssumption == Names \subseteq Nat /\ Hours \subseteq Int

VARIABLE scanList  \* repos[repo]

ScanInit == scanList = <<>>

AppendScanned(td) == /\ Len(scanList) < MaxScanned
                     /\ scanList' = Append(scanList, td)

ScanNext == \E td \in [name : Names, created : Hours] : AppendScanned(td)

ScanSpec == ScanInit /\ [][ScanNext]_scanList

(***************************************************************************)
(* The lists that a second run can scan when the first has deleted all it  *)
(* meant to: the tags that were kept, in whatever order they are listed.   *)
(***************************************************************************)
KeptLists(s) ==
  LET kept == KeepSet(s, RunHour, FileTags)
      n    == Cardinality(kept)
  IN  {[k \in 1 .. n |-> s[f[k]]] : f \in Bijection(1 .. n, kept)}

-----------------------------------------------------------------------------
\* At least keep_count tags are kept, and no expired tag beyond that count
\* (CHANGELOG: "Fix a bug when there was a bit more tags preserved than
\* defined by `purge_tags_keep_count`").
KeepsExactly == /\ KeepsEnough(scanList, RunHour, FileTags)
                /\ KeepsNoMoreThanNeeded(scanList, RunHour, FileTags)

\* The top-up to keep_count takes the newest of the expired tags.
TopUpIsNewest == KeepsNewest(scanList, RunHour, FileTags)

\* A second run over what the first one kept, at the same hour, purges
\* nothing more, in whatever order it scans the tags: retention does not
\* erode a repository run after run.
SecondRunPurgesNothing ==
  \A s \in KeptLists(scanList) : PurgeSet(s, RunHour, FileTags) = {}
=============================================================================
