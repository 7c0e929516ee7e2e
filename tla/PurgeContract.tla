---------------------------- MODULE PurgeContract ----------------------------
(***************************************************************************)
(* What a purge promises, said without scans, requests and dates: once in  *)
(* a while it decides on tags to take away, none of them protected and     *)
(* leaving at least keep_count, and then takes them or gives them up, one  *)
(* by one, until none is left.  Pushes go on all the time.                 *)
(***************************************************************************)
EXTENDS Integers, FiniteSets

CONSTANTS Repos, Tags,
          Protected,  \* the tags of each repository that must not go
          KeepCount   \* how many have to stay

VARIABLES tags,  \* the tags each repository has
          plan   \* those of them the purge still means to take

contractVars == <<tags, plan>>

NoPlan == [r \in Repos |-> {}]

Permitted(r, S) ==
  /\ S \subseteq tags[r] \ Protected[r]
  /\ S # {} => Cardinality(tags[r] \ S) >= KeepCount

ContractInit == tags \in [Repos -> SUBSET Tags] /\ plan = NoPlan

Pushed(r, t) == /\ tags' = [tags EXCEPT ![r] = @ \cup {t}]
                /\ UNCHANGED plan

Decide == /\ plan = NoPlan
          /\ plan' \in [Repos -> SUBSET Tags]
          /\ \A r \in Repos : Permitted(r, plan'[r])
          /\ UNCHANGED tags

Take(r, t) == /\ t \in plan[r]
              /\ tags' = [tags EXCEPT ![r] = @ \ {t}]
              /\ plan' = [plan EXCEPT ![r] = @ \ {t}]

GiveUp(r, t) == /\ t \in plan[r]
                /\ plan' = [plan EXCEPT ![r] = @ \ {t}]
                /\ UNCHANGED tags

ContractNext ==
  \/ Decide
  \/ \E r \in Repos, t \in Tags : Pushed(r, t) \/ Take(r, t) \/ GiveUp(r, t)

\* What may happen.
ContractSteps == ContractInit /\ [][ContractNext]_contractVars

\* Nothing stays on the plan for ever.
PlanDrains == \A r \in Repos, t \in Tags : (t \in plan[r]) ~> (t \notin plan[r])

ContractSpec == ContractSteps /\ PlanDrains
=============================================================================
