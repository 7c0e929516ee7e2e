----------------------------- MODULE MCRetention -----------------------------
(***************************************************************************)
(* Checks the retention rule on every scanned list up to MaxScanned tags,  *)
(* and compares it with the list program that the code runs.               *)
(***************************************************************************)
EXTENDS RetentionScan, SequencesExt

(***************************************************************************)
(* The filter as the list program the code runs: sort, split in two lists  *)
(* in order, move the head of the purge list to the keep list.             *)
(***************************************************************************)
SortedList(s) == SortSeq(s, Less)

RefPurge(td) == /\ RunHour - td.created >= (KeepDays + 1) * HoursPerDay
                /\ ~ (td.name \in KeepRegexpTags \/ td.name \in FileTags)

RefKeep(td) == ~ RefPurge(td)

RefPurgeList(s) ==
  LET purge == SelectSeq(SortedList(s), RefPurge)
      keep  == SelectSeq(SortedList(s), RefKeep)
      lack  == KeepCount - Len(keep)
      take  == IF lack < 0 THEN 0 ELSE IF lack < Len(purge) THEN lack ELSE Len(purge)
  IN  SubSeq(purge, take + 1, Len(purge))

(***************************************************************************)
(* The purge set in the order in which its tags are deleted.               *)
(***************************************************************************)
PurgeList(s) ==
  LET positions == SetToSortSeq(PurgeSet(s, RunHour, FileTags),
                                LAMBDA i, j : Before(s, i, j))
  IN  [k \in DOMAIN positions |-> s[positions[k]]]

\* The positional definition of the rule and the list program purge the same
\* tags in the same order (the filter loop of RunPurgeOldTags).
AgreesWithListProgram == PurgeList(scanList) = RefPurgeList(scanList)
=============================================================================
