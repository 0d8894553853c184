----------------------------- MODULE Completion -----------------------------
(***************************************************************************)
(* The observer of completed responses (internal/prewarm/completion.go).   *)
(* It reads a stream of server-sent events in whatever chunks the host     *)
(* delivers it, or single JSON documents, and says whether a response      *)
(* completed, and with the expected model.                                 *)
(*                                                                         *)
(* A text is a sequence of symbols, each of which counts as one byte.  A   *)
(* JSON document is one symbol for what it says, or two halves, so that it *)
(* can be spread over several data lines.                                  *)
(***************************************************************************)
EXTENDS Integers, Sequences, SequencesExt

CONSTANTS
    Streams,            \* bodies the host may deliver, a set of texts
    Documents,          \* texts of events and bodies delivered whole
    MaxEventBytes, MaxProbeBytes,
    MaxDocuments        \* bound: documents per request

NL == "nl"
CR == "cr"
SP == "sp"
Data == "data:"

Symbols == {NL, CR, SP, Data, "ok", "bad", "info", "open", "close", "[DONE]", "x"}

ASSUME CompletionAssumption ==
    /\ Streams \subseteq Seq(Symbols) /\ Documents \subseteq Seq(Symbols)
    /\ MaxEventBytes \in Nat \ {0} /\ MaxProbeBytes \in Nat /\ MaxDocuments \in Nat

VARIABLES
    c,                  \* the Completion
    stream, sent,       \* the body, and how much of it was delivered
    documents,          \* the documents delivered whole
    finished            \* the request completed

vars == <<c, stream, sent, documents, finished>>

-----------------------------------------------------------------------------
(* The code's operations on the observer *)

NewCompletion == [line |-> <<>>, event |-> <<>>, completed |-> FALSE, mismatch |-> FALSE,
                  malformed |-> FALSE]

IsSpace(x) == x \in {NL, CR, SP}

\* A text without its white space.
Words(text) == SelectSeq(text, LAMBDA x : ~IsSpace(x))

\* What a JSON text says: "ok" and "bad" complete a response, with the expected
\* model and with another; "info" is any other valid document.
Says(text) ==
    LET doc == Words(text)
    IN  CASE doc \in {<<"ok">>, <<"bad">>, <<"info">>} -> doc[1]
          [] doc = <<"open", "close">> -> "bad"
          [] OTHER -> "malformed"

\* Mutant: a document is ignored once one was malformed.
JSONStops(d, raw) ==
    IF d.malformed \/ Len(raw) > MaxEventBytes \/ Says(raw) = "malformed"
    THEN [d EXCEPT !.malformed = TRUE]
    ELSE [d EXCEPT !.completed = @ \/ Says(raw) \in {"ok", "bad"},
                   !.mismatch = @ \/ Says(raw) = "bad"]

JSON(d, raw) ==
    IF Len(raw) > MaxEventBytes \/ Says(raw) = "malformed"
    THEN [d EXCEPT !.malformed = TRUE]
    ELSE [d EXCEPT !.completed = @ \/ Says(raw) \in {"ok", "bad"},
                   !.mismatch = @ \/ Says(raw) = "bad"]

\* An event without data, or the end mark, says nothing.
Silent(event) ==
    (\A i \in DOMAIN event : IsSpace(event[i])) \/ Words(event) = <<"[DONE]">>

\* Mutant: the next event is appended to this one.
ConsumeEventKeeps(d) == IF Silent(d.event) THEN d ELSE JSON(d, d.event)

consumeEvent(d) ==
    LET e == [d EXCEPT !.event = <<>>]
    IN  IF Silent(d.event) THEN e ELSE JSON(e, d.event)

WithoutCR(line) ==
    IF line # <<>> /\ Last(line) = CR THEN Front(line) ELSE line

IsData(line) == line # <<>> /\ Head(line) = Data

\* The data of a data line, with one leading space removed.
DataOf(line) ==
    LET data == Tail(line)
    IN  IF data # <<>> /\ Head(data) = SP THEN Tail(data) ELSE data

consumeLine(d) ==
    LET line == WithoutCR(d.line)
        e == [d EXCEPT !.line = <<>>]
        event == d.event \o DataOf(line) \o <<NL>>
    IN  IF line = <<>> THEN consumeEvent(e)
        ELSE IF ~IsData(line) THEN e
        ELSE IF Len(event) > MaxEventBytes THEN [e EXCEPT !.malformed = TRUE, !.event = <<>>]
        ELSE [e EXCEPT !.event = event]

\* Mutant: the limit is tested on the chunk, not on the line.
OverlongPiece(d, piece) == Len(piece) > MaxEventBytes

Overlong(d, piece) == Len(d.line) + Len(piece) > MaxEventBytes

\* A text cut at its line ends; the last line is unfinished.
LinesOf(s) ==
    LET lines[i \in 0 .. Len(s)] ==
            IF i = 0 THEN << <<>> >>
            ELSE LET ls == lines[i - 1]
                 IN  IF s[i] = NL THEN Append(ls, <<>>)
                     ELSE [ls EXCEPT ![Len(ls)] = Append(@, s[i])]
    IN  lines[Len(s)]

\* What was read so far is dropped.
GiveUp(d) == [d EXCEPT !.malformed = TRUE, !.line = <<>>, !.event = <<>>]

\* One turn of Feed's loop: a piece without a line end, and whether one follows.
FeedPiece(d, piece, ended) ==
    LET e == [d EXCEPT !.line = @ \o piece]
    IN  IF d.malformed THEN d
        ELSE IF Overlong(d, piece) THEN GiveUp(d)
        ELSE IF ended THEN consumeLine(e) ELSE e

Feed(d, p) ==
    LET pieces == LinesOf(p)
        fed[n \in 0 .. Len(pieces) - 1] ==
            IF n = 0 THEN d ELSE FeedPiece(fed[n - 1], pieces[n], TRUE)
    IN  FeedPiece(fed[Len(pieces) - 1], Last(pieces), FALSE)

Finish(d) == consumeEvent(IF d.line # <<>> THEN consumeLine(d) ELSE d)

Success(d) == d.completed /\ ~d.mismatch /\ ~d.malformed

Mismatch(d) == d.completed /\ d.mismatch

StartsJSON(body) ==
    Words(body) # <<>> /\ Head(Words(body)) \in {"ok", "bad", "info", "open"}

\* Mutant: the body's last event needs a blank line after it.
EvaluateUnfinished(body) ==
    Success(IF StartsJSON(body) THEN JSON(NewCompletion, body) ELSE Feed(NewCompletion, body))

EvaluateProbeBody(body) ==
    Success(IF StartsJSON(body) THEN JSON(NewCompletion, body)
            ELSE Finish(Feed(NewCompletion, body)))

\* Of an answer with status 200.
SuccessfulProbe(body) == Len(body) <= MaxProbeBytes /\ EvaluateProbeBody(body)

-----------------------------------------------------------------------------
(* A request's watchdog: the body in chunks, or documents, then completion *)

Chunk(n) ==
    /\ ~finished /\ documents = <<>> /\ sent + n <= Len(stream)
    /\ c' = Feed(c, SubSeq(stream, sent + 1, sent + n))
    /\ sent' = sent + n
    /\ UNCHANGED <<stream, documents, finished>>

Document(raw) ==
    /\ ~finished /\ stream = <<>> /\ Len(documents) < MaxDocuments
    /\ c' = JSON(c, raw)
    /\ documents' = Append(documents, raw)
    /\ UNCHANGED <<stream, sent, finished>>

Complete ==
    /\ ~finished
    /\ c' = Finish(c)
    /\ finished' = TRUE
    /\ UNCHANGED <<stream, sent, documents>>

Init ==
    /\ c = NewCompletion
    /\ stream \in Streams /\ sent = 0
    /\ documents = <<>> /\ finished = FALSE

Next ==
    \/ \E n \in 1 .. Len(stream) : Chunk(n)
    \/ \E raw \in Documents : Document(raw)
    \/ Complete

Spec == Init /\ [][Next]_vars

-----------------------------------------------------------------------------
(* The reference: a whole text, line by line                              *)

Blank(line) == WithoutCR(line) = <<>>

\* The text of the event that line n belongs to, up to that line.
EventAt(ls, n) ==
    LET text[m \in 0 .. n] ==
            IF m = 0 THEN <<>>
            ELSE LET before == IF m > 1 /\ Blank(ls[m - 1]) THEN <<>> ELSE text[m - 1]
                 IN  IF IsData(ls[m]) THEN before \o DataOf(WithoutCR(ls[m])) \o <<NL>>
                                      ELSE before
    IN  text[n]

\* The text cannot be read beyond line n: the line or its event is too long, or
\* the event it ends is no JSON document.
Breaks(ls, n) ==
    \/ Len(ls[n]) > MaxEventBytes
    \/ /\ n < Len(ls)
       /\ \/ Len(EventAt(ls, n)) > MaxEventBytes
          \/ /\ Blank(ls[n]) /\ ~Silent(EventAt(ls, n))
             /\ Says(EventAt(ls, n)) = "malformed"

Broken(ls) == \E n \in DOMAIN ls : Breaks(ls, n)

\* What the events say that end before the text breaks.
Said(ls) ==
    {Says(EventAt(ls, n)) :
        n \in {m \in 1 .. Len(ls) - 1 : /\ Blank(ls[m]) /\ ~Silent(EventAt(ls, m))
                                      /\ \A k \in 1..m : ~Breaks(ls, k)}}

\* What was delivered; the end of the body ends the last event.
Delivered == SubSeq(stream, 1, sent) \o (IF finished THEN <<NL, NL>> ELSE <<>>)

Observed == LinesOf(Delivered)

-----------------------------------------------------------------------------
(* Properties *)

\* The value of every variable has its type.
TypeOK ==
    /\ c \in [line : Seq(Symbols), event : Seq(Symbols), completed : BOOLEAN,
              mismatch : BOOLEAN, malformed : BOOLEAN]
    /\ Len(c.line) <= MaxEventBytes /\ Len(c.event) <= MaxEventBytes
    /\ stream \in Seq(Symbols) /\ sent \in 0 .. Len(stream)
    /\ documents \in Seq(Seq(Symbols)) /\ finished \in BOOLEAN

\* However the host cuts a body into chunks, in the middle of a line or of a line's
\* end, after every chunk the verdict is that of the events that were delivered
\* completely and before anything unreadable (completion.go, Feed and consumeLine).
VerdictOfWhole ==
    documents = <<>> =>
        /\ Mismatch(c) <=> "bad" \in Said(Observed)
        /\ Success(c) <=> /\ "ok" \in Said(Observed) /\ "bad" \notin Said(Observed)
                          /\ ~Broken(Observed)

\* Of documents that are delivered one by one, an unreadable one hides no other
\* (completion.go, JSON; interceptor.go, ObserveWebSocketResponseEvent).
EventsJudged ==
    Mismatch(c) \/ ~\E i \in DOMAIN documents :
                       Len(documents[i]) <= MaxEventBytes /\ Says(documents[i]) = "bad"

\* The verdict on a probe's body, read whole and without a closing blank line, is
\* the one that its delivery in chunks would give (completion.go,
\* EvaluateProbeBody and SuccessfulProbe).
ProbeAgrees ==
    finished /\ sent = Len(stream) /\ documents = <<>> /\ ~StartsJSON(stream) =>
        (SuccessfulProbe(stream) <=> Success(c) /\ Len(stream) <= MaxProbeBytes)
=============================================================================
