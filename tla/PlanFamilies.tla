---------------------------- MODULE PlanFamilies ----------------------------
(***************************************************************************)
(* Plan names and turn-state length families (internal/prewarm/config.go). *)
(* A raw plan name is kept only as far as the code tells names apart: the  *)
(* empty name, a name of the pro family, one of the team family, and any   *)
(* other non-empty name.  A turn-state value is kept as its length class.  *)
(***************************************************************************)
NoPlan == ""

Plans == {"pro", "team"}

RawPlans == Plans \cup {NoPlan, "other"}

\* The length family of a raw name; the empty string when it is not recognised.
CanonicalPlan(raw) == IF raw \in Plans THEN raw ELSE NoPlan

\* A missing name matches every expectation, an unknown one matches none.
PlanMatches(raw, expected) ==
    \/ raw = NoPlan
    \/ CanonicalPlan(raw) # NoPlan /\ CanonicalPlan(raw) = expected

\* Length classes of a turn-state value: 292 (pro), 332 (team), the rejected
\* 312, and everything else (absent included).
StateClasses == {"s292", "s332", "s312", "none"}

FamilyOf(plan) == IF plan = "team" THEN "s332" ELSE "s292"

ValidState(state, plan) == plan \in Plans /\ state = FamilyOf(plan)
=============================================================================
