----------------------------- MODULE MCRuntime ------------------------------
(* Values of the structured constants of PluginRuntime for TLC. *)
EXTENDS PluginRuntime

MCProbeLimit == [c \in Configs |-> IF c = "one" THEN 1 ELSE 0]
=============================================================================
