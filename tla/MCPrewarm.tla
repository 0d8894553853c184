----------------------------- MODULE MCPrewarm ------------------------------
(* Values of the structured constants of PrewarmEngine for TLC. *)
EXTENDS PrewarmRefinement, TLC

\* "home" and "moved" are two identities of the same plan, "odd" one of a
\* plan the code does not recognise.
MCPlanOf == [s \in Scopes |-> CASE s = "team" -> "team" [] s = "odd" -> "other"
                                [] OTHER -> "pro"]

AllPro == [k \in Keys |-> "pro"]

\* Only the first of two models is configured.
OnlyM == [k \in Keys |-> IF k[2] = "m" THEN "pro" ELSE NoPlan]

RequestSymmetry == Permutations(RequestIDs)
WorkerSymmetry == Permutations(WorkerIDs)

NoneExplicit == [k \in Keys |-> NoPlan]
=============================================================================
