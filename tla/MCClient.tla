------------------------------ MODULE MCClient ------------------------------
(* The goroutines and the contents of ProbeClient for TLC. *)
EXTENDS ProbeClient

\* One goroutine describes and probes while the scheduler discovers.
MCCallers == {"worker"}
MCScheduler == "scheduler"

\* Members of one team, with or without a route and a header of their own.
MCFiles == {[workspace |-> "team", route |-> Unset, agent |-> Unset],
            [workspace |-> "team", route |-> "proxy", agent |-> "custom"]}

\* A host that configures nothing but to send configured headers, and one with a proxy
\* that cloaks all, so that both files come to the same.
MCConfigs == {[route |-> Unset, agent |-> Unset, cloaks |-> FALSE],
              [route |-> "proxy", agent |-> "custom", cloaks |-> TRUE]}
=============================================================================
