---------------------------- MODULE ProbeBudget -----------------------------
(***************************************************************************)
(* The sliding-window probe budget (internal/prewarm/budget.go).  The      *)
(* budget is a list of the times of admitted probes.  A call first drops   *)
(* the leading times that left the window, also when it then refuses.      *)
(***************************************************************************)
EXTENDS Integers, Sequences

CONSTANTS MaxProbesPerHour,   \* max_probes_per_hour
          BudgetWindow        \* an hour

ASSUME BudgetAssumption ==
    /\ MaxProbesPerHour \in Nat \ {0}
    /\ BudgetWindow \in Nat \ {0}

\* The first n times are the ones a call made at `now' drops.
IsExpiredPrefix(stamps, n, now) ==
    /\ \A i \in 1..n : stamps[i] + BudgetWindow <= now
    /\ n < Len(stamps) => stamps[n + 1] + BudgetWindow > now

Kept(stamps, n) == SubSeq(stamps, n + 1, Len(stamps))

Allowed(kept) == Len(kept) < MaxProbesPerHour
=============================================================================
