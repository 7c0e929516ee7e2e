---- MODULE SharedClient ----
(***************************************************************************)
(* The purge task calls both the tag side and the catalog side of the one  *)
(* registry.Client that main() makes; its goroutine, and the repositories  *)
(* that either side works on, are declared here for both.                  *)
(***************************************************************************)
EXTENDS Naturals

CONSTANTS
  Purger,  \* RunPurgeOldTags, on the scheduler's goroutine or on main's
  Repos    \* names of repositories, by rank; 0 is no name

ASSUME ReposAssumption == Repos \subseteq Nat \ {0}
====
