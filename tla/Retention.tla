------------------------------ MODULE Retention ------------------------------
(***************************************************************************)
(* The retention rule of the purge task (registry/tasks.go): which of the  *)
(* tags scanned in one repository are kept and which are purged.  It is a  *)
(* pure function of the scanned list, so this module declares no state.    *)
(*                                                                         *)
(* A scanned list is a sequence of TagData records.  The same tag occurs   *)
(* in it twice when its repository is scanned twice, so the rule is stated *)
(* over POSITIONS of the list and never over sets of names.                *)
(***************************************************************************)
EXTENDS Integers, Sequences, FiniteSets

CONSTANTS
  KeepDays,        \* purge_tags.keep_days
  KeepCount,       \* purge_tags.keep_count
  KeepRegexpTags   \* the tag names that purge_tags.keep_regexp matches
                   \* (empty when the option is empty or does not compile)

ASSUME KeepAssumption == KeepDays \in Int /\ KeepCount \in Int

HoursPerDay == 24

(***************************************************************************)
(* One scanned tag.  A name stands for its rank in string order, a time    *)
(* for the hour it falls in.                                               *)
(***************************************************************************)
TagData == [name : Nat, created : Int]

(***************************************************************************)
(* int(now.Sub(created).Hours() / 24).  The conversion truncates towards   *)
(* zero, so an image dated up to a day in the future is 0 days old.        *)
(***************************************************************************)
DaysOld(now, created) ==
  LET hours == now - created
  IN  IF hours >= 0 THEN hours \div HoursPerDay
                    ELSE -((-hours) \div HoursPerDay)

(***************************************************************************)
(* timeSlice.Less: newest first, and by descending name among equal dates. *)
(***************************************************************************)
Less(a, b) ==
  IF a.created = b.created THEN a.name > b.name ELSE a.created > b.created

(***************************************************************************)
(* sort.Sort(repos[repo]): position i of the list comes before position j  *)
(* once it is sorted.  Equal records are indistinguishable, so any order   *)
(* among them does.                                                        *)
(***************************************************************************)
Before(s, i, j) ==
  \/ Less(s[i], s[j])
  \/ s[i] = s[j] /\ i < j

(***************************************************************************)
(* The condition under which the filter puts a tag on the purge list;      *)
(* fromFile are the tags the keep file lists for the repository.           *)
(***************************************************************************)
\* Fault: the limit itself counts as expired.
ExpiredAtLimit(td, now, fromFile) ==
  /\ DaysOld(now, td.created) >= KeepDays
  /\ td.name \notin KeepRegexpTags
  /\ td.name \notin fromFile

\* Fault: keep_regexp is not consulted.
ExpiredWithoutRegexp(td, now, fromFile) ==
  /\ DaysOld(now, td.created) > KeepDays
  /\ td.name \notin fromFile

Expired(td, now, fromFile) ==
  /\ DaysOld(now, td.created) > KeepDays
  /\ td.name \notin KeepRegexpTags
  /\ td.name \notin fromFile

Aged(s, now, fromFile) == {i \in DOMAIN s : Expired(s[i], now, fromFile)}

Fresh(s, now, fromFile) == DOMAIN s \ Aged(s, now, fromFile)

(***************************************************************************)
(* takeFromPurge: how many expired tags are kept after all, so that        *)
(* KeepCount tags remain ("at least threshold - keep but not more than     *)
(* available for purge").                                                  *)
(***************************************************************************)
\* Fault: one more than is missing.
TakeOneMore(s, now, fromFile) ==
  LET missing   == KeepCount - Cardinality(Fresh(s, now, fromFile))
      available == Cardinality(Aged(s, now, fromFile))
  IN  IF missing <= 0 THEN 0
      ELSE IF missing < available THEN missing + 1 ELSE available

\* Fault: the slice bound is one short, so that one tag is always purged.
TakeAllButOne(s, now, fromFile) ==
  LET missing   == KeepCount - Cardinality(Fresh(s, now, fromFile))
      available == Cardinality(Aged(s, now, fromFile))
  IN  IF missing <= 0 THEN 0
      ELSE IF missing <= available - 1 THEN missing ELSE available - 1

TakeFromPurge(s, now, fromFile) ==
  LET missing   == KeepCount - Cardinality(Fresh(s, now, fromFile))
      available == Cardinality(Aged(s, now, fromFile))
  IN  IF missing <= 0 THEN 0
      ELSE IF missing <= available THEN missing ELSE available

(***************************************************************************)
(* purgeTags[repo]: the expired positions but the first takeFromPurge of   *)
(* them in sorted order.                                                   *)
(***************************************************************************)
NewerAged(s, now, fromFile, i) ==
  {j \in Aged(s, now, fromFile) : Before(s, j, i)}

\* Fault: the sort is ascending, so the oldest tags fill up keep_count.
PurgeSetOldestKept(s, now, fromFile) ==
  {i \in Aged(s, now, fromFile) :
     Cardinality({j \in Aged(s, now, fromFile) : Before(s, i, j)})
       >= TakeFromPurge(s, now, fromFile)}

PurgeSet(s, now, fromFile) ==
  {i \in Aged(s, now, fromFile) :
     Cardinality(NewerAged(s, now, fromFile, i))
       >= TakeFromPurge(s, now, fromFile)}

(***************************************************************************)
(* keepTags[repo].                                                         *)
(***************************************************************************)
KeepSet(s, now, fromFile) == DOMAIN s \ PurgeSet(s, now, fromFile)

NamesAt(s, positions) == {s[i].name : i \in positions}

(***************************************************************************)
(* What the rule promises.                                                 *)
(***************************************************************************)

\* At least keep_count tags are kept, or all of them if there are fewer
\* (the takeFromPurge top-up of RunPurgeOldTags).
KeepsEnough(s, now, fromFile) ==
  \/ PurgeSet(s, now, fromFile) = {}
  \/ Cardinality(KeepSet(s, now, fromFile)) >= KeepCount

\* No more than that: beyond the tags that are not expired, expired tags are
\* kept only up to keep_count.
KeepsNoMoreThanNeeded(s, now, fromFile) ==
  \/ KeepSet(s, now, fromFile) = Fresh(s, now, fromFile)
  \/ Cardinality(KeepSet(s, now, fromFile)) <= KeepCount

\* The expired tags that are kept to reach keep_count are the newest ones:
\* none of them sorts after a purged one.
KeepsNewest(s, now, fromFile) ==
  \A i \in PurgeSet(s, now, fromFile), j \in Aged(s, now, fromFile) :
    j \notin PurgeSet(s, now, fromFile) => Before(s, j, i)
=============================================================================
