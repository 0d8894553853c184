---------------------------- MODULE MCCompletion ----------------------------
(* Bodies and documents for TLC. *)
EXTENDS Completion

Lines ==
    { <<>>, <<CR>>, <<Data, "ok">>, <<Data, "bad">>, <<Data, "open">>, <<Data, "close", CR>>,
      <<Data, "info">>, <<Data, "x">>, <<Data, SP, "[DONE]">>, <<"x", "ok">>,
      <<Data, SP, SP, "bad">>, <<Data, SP, "x", "x", "x">> }

Ended == {line \o <<NL>> : line \in Lines}

\* Up to three lines, and what may follow them.
Texts == {<<>>} \cup Ended \cup {s \o t : s, t \in Ended} \cup {s \o t \o u : s, t, u \in Ended}

MCStreams == Texts \cup {Front(t) : t \in Texts \ {<<>>}}
                \cup {t \o <<Data, "bad", NL, NL>> : t \in Texts} \cup {<<"ok", NL>>}

MCDocuments == {<<"ok">>, <<"bad">>, <<SP, "info", NL>>, <<"x">>, <<>>, <<"open", NL, "close">>,
                <<"bad", SP, SP, SP, SP>>}
=============================================================================
