-------------------------- MODULE CompletionProofs --------------------------
(***************************************************************************)
(* The verdict on a response is that of its whole text, however the host   *)
(* cuts it into chunks, for every body and every limit.                    *)
(*                                                                         *)
(* Feed is first shown to read byte by byte (FeedAppend), so that by       *)
(* induction over texts two chunks read like one (FeedConcat) and the      *)
(* observer agrees with the lines read so far (FeedAgrees); the end of the *)
(* body reads like two more line ends (FinishFeed).  The inductive         *)
(* invariant then only says that the observer is what Feed makes of the    *)
(* text delivered.                                                         *)
(***************************************************************************)
EXTENDS Completion, FiniteSetTheorems, SequenceTheorems, TLAPS

\* Induction over the numbers: a set with 0 that is closed under successor has them
\* all. It follows from the well-foundedness of the finite subsets of a set.
LEMMA Induction ==
    ASSUME NEW S, 0 \in S, \A n \in Nat : n \in S => n + 1 \in S
    PROVE  Nat \subseteq S
<1>. SUFFICES ASSUME NEW m \in Nat, m \notin S PROVE FALSE
  OBVIOUS
<1>. DEFINE Missing == {n \in 0..m : n \notin S}
            Below(n) == {k \in Missing : k <= n}
            T == {Below(n) : n \in Missing}
<1>1. IsFiniteSet(Missing)
  <2>1. IsFiniteSet(0..m)
    BY FS_Interval
  <2>2. Missing \subseteq 0..m
    OBVIOUS
  <2>. HIDE DEF Missing
  <2>. QED BY <2>1, <2>2, FS_Subset
<1>2. T \subseteq FiniteSubsetsOf(Missing) /\ T # {}
  <2>1. \A n \in Missing : IsFiniteSet(Below(n)) /\ Below(n) \subseteq Missing
    BY <1>1, FS_Subset
  <2>2. m \in Missing
    OBVIOUS
  <2>. QED BY <2>1, <2>2 DEF FiniteSubsetsOf
<1>3. PICK U \in T : \A V \in T : <<V, U>> \notin StrictSubsetOrdering(Missing)
  BY <1>2, FS_StrictSubsetOrderingWellFounded, WFMin
<1>4. PICK n \in Missing : U = Below(n)
  BY <1>3
<1>5. n \in Nat /\ n # 0 /\ n - 1 \in Missing
  OBVIOUS
<1>6. Below(n - 1) \subseteq Below(n) /\ n \in Below(n) /\ n \notin Below(n - 1)
  BY <1>5
<1>7. <<Below(n - 1), U>> \in StrictSubsetOrdering(Missing)
  BY <1>4, <1>6 DEF StrictSubsetOrdering
<1>. QED BY <1>3, <1>5, <1>7

-----------------------------------------------------------------------------
(* Recursive functions                                                     *)

\* g is computed from base along 1..n by the rule F; g and h by the same rule.
Computed(g, base, F, n) == g[0] = base /\ \A i \in 1..n : g[i] = F[<<g[i - 1], i>>]

SameRule(g, h, n) == g[0] = h[0] /\ \A i \in 1..n : g[i - 1] = h[i - 1] => g[i] = h[i]

\* A recursion along 1..n has a result.
LEMMA RecursionExists ==
    ASSUME NEW S, NEW base \in S, NEW n \in Nat, NEW F \in [S \X (1..n) -> S]
    PROVE  \E g \in [0..n -> S] : Computed(g, base, F, n)
<1>. DEFINE Runs(k, g) == g[0] = base /\ \A i \in 1..k : g[i] = F[<<g[i - 1], i>>]
            N == {k \in Nat : k <= n => \E g \in [0..k -> S] : Runs(k, g)}
<1>1. 0 \in N
  <2>1. [i \in 0..0 |-> base] \in [0..0 -> S] /\ Runs(0, [i \in 0..0 |-> base])
    OBVIOUS
  <2>. QED BY <2>1
<1>2. ASSUME NEW k \in Nat, k \in N PROVE k + 1 \in N
  <2>. SUFFICES ASSUME k + 1 <= n PROVE \E g \in [0..k + 1 -> S] : Runs(k + 1, g)
    OBVIOUS
  <2>1. PICK g \in [0..k -> S] : Runs(k, g)
    BY <1>2
  <2>. DEFINE h == [i \in 0..k + 1 |-> IF i = k + 1 THEN F[<<g[k], k + 1>>] ELSE g[i]]
  <2>2. g[k] \in S /\ F[<<g[k], k + 1>>] \in S
    OBVIOUS
  <2>3. h \in [0..k + 1 -> S]
    BY <2>2
  <2>4. \A i \in 0..k : h[i] = g[i]
    OBVIOUS
  <2>5. h[k + 1] = F[<<h[k], k + 1>>]
    <3>1. h[k] = g[k]
      BY <2>4
    <3>2. h[k + 1] = F[<<g[k], k + 1>>]
      OBVIOUS
    <3>. HIDE DEF h
    <3>. QED BY <3>1, <3>2
  <2>6. \A i \in 1..k : h[i] = F[<<h[i - 1], i>>]
    BY <2>1, <2>4
  <2>7. h[0] = base
    BY <2>1, <2>4
  <2>. HIDE DEF h
  <2>8. Runs(k + 1, h)
    <3>. SUFFICES ASSUME NEW i \in 1..k + 1 PROVE h[i] = F[<<h[i - 1], i>>]
      BY <2>7
    <3>1. i = k + 1 \/ i \in 1..k
      OBVIOUS
    <3>. QED BY <3>1, <2>5, <2>6
  <2>. QED BY <2>3, <2>8
<1>3. n \in N
  <2>. HIDE DEF N
  <2>. QED BY <1>1, <1>2, Induction
<1>. QED BY <1>3 DEF Computed

\* Two recursions by the same rule up to n agree up to n.
LEMMA RecursionUnique ==
    ASSUME NEW g, NEW h, NEW n \in Nat, SameRule(g, h, n)
    PROVE  \A i \in 0..n : g[i] = h[i]
<1>. DEFINE N == {k \in Nat : k <= n => g[k] = h[k]}
<1>1. 0 \in N
  BY DEF SameRule
<1>2. ASSUME NEW k \in Nat, k \in N PROVE k + 1 \in N
  BY <1>2 DEF SameRule
<1>3. Nat \subseteq N
  <2>. HIDE DEF N
  <2>. QED BY <1>1, <1>2, Induction
<1>. QED BY <1>3

-----------------------------------------------------------------------------
(* The lines of a text                                                     *)

Text == Seq(Symbols)
LineList == Seq(Text) \ {<<>>}

LinesStep(ls, x) ==
    IF x = NL THEN Append(ls, <<>>) ELSE [ls EXCEPT ![Len(ls)] = Append(@, x)]

LinesRun(s, g) ==
    /\ g[0] = << <<>> >>
    /\ \A i \in 1..Len(s) : g[i] = LinesStep(g[i - 1], s[i])

\* A symbol more makes a list of lines of one.
LEMMA LinesStepType ==
    ASSUME NEW ls \in LineList, NEW x \in Symbols
    PROVE  LinesStep(ls, x) \in LineList
<1>1. ls \in Seq(Text) /\ Len(ls) \in 1..Len(ls) /\ ls[Len(ls)] \in Text /\ Len(ls) \in Nat
  BY DEF LineList
<1>2. <<>> \in Text /\ Append(ls[Len(ls)], x) \in Text
  BY <1>1 DEF Text
<1>3. Append(ls, <<>>) \in LineList
  <2>. HIDE DEF Text
  <2>1. Append(ls, <<>>) \in Seq(Text) /\ Len(Append(ls, <<>>)) = Len(ls) + 1
    BY <1>1, <1>2, AppendProperties
  <2>. QED BY <1>1, <2>1 DEF LineList
<1>4. [ls EXCEPT ![Len(ls)] = Append(@, x)] \in LineList
  <2>. HIDE DEF Text
  <2>1. [ls EXCEPT ![Len(ls)] = Append(ls[Len(ls)], x)] \in Seq(Text)
    BY <1>1, <1>2, ExceptSeq
  <2>2. Len([ls EXCEPT ![Len(ls)] = Append(ls[Len(ls)], x)]) = Len(ls)
    BY <1>1, <1>2, ExceptSeq
  <2>. QED BY <1>1, <2>1, <2>2 DEF LineList
<1>. QED BY <1>3, <1>4 DEF LinesStep

\* The empty text has one line, which is empty.
LEMMA OneLine == << <<>> >> \in LineList
BY DEF LineList, Text

\* The lines of a text are found symbol by symbol.
LEMMA LinesOfRun ==
    ASSUME NEW s \in Text
    PROVE  \E g \in [0..Len(s) -> LineList] : LinesRun(s, g) /\ LinesOf(s) = g[Len(s)]
<1>. DEFINE n == Len(s)
            F == [y \in LineList \X (1..n) |-> LinesStep(y[1], s[y[2]])]
            Eqn(g) == g = [i \in 0..n |-> IF i = 0 THEN << <<>> >>
                                           ELSE LinesStep(g[i - 1], s[i])]
<1>1. n \in Nat /\ \A i \in 1..n : s[i] \in Symbols
  BY DEF Text
<1>. HIDE DEF n
<1>2. F \in [LineList \X (1..n) -> LineList]
  BY <1>1, LinesStepType
<1>3. PICK g \in [0..n -> LineList] : Computed(g, << <<>> >>, F, n)
  <2>. HIDE DEF F
  <2>. QED BY <1>1, <1>2, OneLine, RecursionExists
<1>4. g[0] = << <<>> >> /\ \A i \in 1..n : g[i] = LinesStep(g[i - 1], s[i])
  <2>1. \A i \in 1..n : g[i - 1] \in LineList
    BY <1>1
  <2>. QED BY <1>3, <2>1 DEF Computed
<1>5. Eqn(g)
  BY <1>1, <1>3, <1>4
<1>6. LinesOf(s) = (CHOOSE k : Eqn(k))[n]
  BY DEF LinesOf, LinesStep, n
<1>7. PICK k : k = (CHOOSE h : Eqn(h))
  OBVIOUS
<1>8. Eqn(k)
  <2>. HIDE DEF Eqn
  <2>. QED BY <1>5, <1>7
<1>9. k[0] = << <<>> >> /\ \A i \in 1..n : k[i] = LinesStep(k[i - 1], s[i])
  BY <1>1, <1>8
<1>10. \A i \in 0..n : k[i] = g[i]
  <2>1. SameRule(k, g, n)
    BY <1>4, <1>9 DEF SameRule
  <2>. QED BY <1>1, <2>1, RecursionUnique
<1>11. LinesOf(s) = g[n]
  BY <1>1, <1>6, <1>7, <1>10
<1>. QED BY <1>3, <1>4, <1>11 DEF LinesRun, n

\* A text has at least one line.
LEMMA LinesOfType == \A s \in Text : LinesOf(s) \in LineList
<1>. SUFFICES ASSUME NEW s \in Text PROVE LinesOf(s) \in LineList
  OBVIOUS
<1>1. PICK g \in [0..Len(s) -> LineList] : LinesOf(s) = g[Len(s)]
  BY LinesOfRun
<1>. QED BY <1>1, LenProperties DEF Text

\* What the lines of a text are, from its symbols one after the other.
LEMMA LinesOfEmpty == LinesOf(<<>>) = << <<>> >>
<1>1. <<>> \in Text /\ Len(<<>>) = 0
  BY DEF Text
<1>. QED BY <1>1, LinesOfRun DEF LinesRun

\* A symbol more adds to the last line or ends it.
LEMMA LinesOfAppend ==
    ASSUME NEW s \in Text, NEW x \in Symbols
    PROVE  LinesOf(Append(s, x)) = LinesStep(LinesOf(s), x)
<1>. DEFINE n == Len(s)
            t == Append(s, x)
<1>1. n \in Nat /\ t \in Text /\ Len(t) = n + 1 /\ t[n + 1] = x /\ \A i \in 1..n : t[i] = s[i]
  BY DEF Text
<1>2. PICK g \in [0..n -> LineList] : LinesRun(s, g) /\ LinesOf(s) = g[n]
  BY LinesOfRun
<1>. HIDE DEF t
<1>3. PICK h \in [0..n + 1 -> LineList] : LinesRun(t, h) /\ LinesOf(t) = h[n + 1]
  BY <1>1, LinesOfRun
<1>. HIDE DEF n
<1>4. SameRule(g, h, n)
  BY <1>1, <1>2, <1>3 DEF LinesRun, SameRule, n
<1>5. h[n] = g[n]
  <2>1. \A i \in 0..n : g[i] = h[i]
    BY <1>1, <1>4, RecursionUnique
  <2>. QED BY <1>1, <2>1
<1>6. h[n + 1] = LinesStep(h[n], x)
  BY <1>1, <1>3 DEF LinesRun
<1>. QED BY <1>2, <1>3, <1>5, <1>6 DEF t

\* Induction over texts.
LEMMA TextInduction ==
    ASSUME NEW P, <<>> \in P,
           \A s \in Text, x \in Symbols : s \in P => Append(s, x) \in P
    PROVE  Text \subseteq P
<1>. DEFINE N == {n \in Nat : \A s \in Text : Len(s) = n => s \in P}
<1>1. 0 \in N
  BY EmptySeq DEF Text
<1>2. ASSUME NEW n \in Nat, n \in N PROVE n + 1 \in N
  <2>. SUFFICES ASSUME NEW s \in Text, Len(s) = n + 1 PROVE s \in P
    OBVIOUS
  <2>1. PICK t \in Text, x \in Symbols : s = Append(t, x)
    BY SequenceEmptyOrAppend DEF Text
  <2>2. Len(t) = n
    BY <2>1 DEF Text
  <2>. QED BY <1>2, <2>1, <2>2
<1>3. Nat \subseteq N
  <2>. HIDE DEF N
  <2>. QED BY <1>1, <1>2, Induction
<1>4. \A s \in Text : Len(s) \in Nat
  BY DEF Text
<1>. QED BY <1>3, <1>4

-----------------------------------------------------------------------------
(* The types of the operations                                             *)

Observer == [line : Text, event : Text, completed : BOOLEAN, mismatch : BOOLEAN,
             malformed : BOOLEAN]

Sized == {d \in Observer : Len(d.line) <= MaxEventBytes /\ Len(d.event) <= MaxEventBytes}

\* The type of the observer after each operation, and what it keeps of a line.
LEMMA JSONType ==
    ASSUME NEW d \in Sized, NEW raw
    PROVE  /\ JSON(d, raw) \in Sized
           /\ JSON(d, raw).line = d.line /\ JSON(d, raw).event = d.event
BY DEF JSON, Sized, Observer

\* The empty text.
LEMMA EmptyText == <<>> \in Text /\ Len(<<>>) = 0
BY DEF Text

\* The end of an event leaves none open (consumeEvent).
LEMMA ConsumeEventType ==
    ASSUME NEW d \in Sized
    PROVE  /\ consumeEvent(d) \in Sized
           /\ consumeEvent(d).line = d.line /\ consumeEvent(d).event = <<>>
<1>. DEFINE e == [d EXCEPT !.event = <<>>]
<1>1. e \in Sized /\ e.line = d.line /\ e.event = <<>>
  BY EmptyText, CompletionAssumption DEF Sized, Observer, CompletionAssumption
<1>. HIDE DEF e
<1>2. JSON(e, d.event) \in Sized /\ JSON(e, d.event).line = e.line
      /\ JSON(e, d.event).event = e.event
  BY <1>1, JSONType
<1>3. consumeEvent(d) = IF Silent(d.event) THEN e ELSE JSON(e, d.event)
  BY DEF consumeEvent, e
<1>. QED BY <1>1, <1>2, <1>3

\* Pieces of a line are texts.
LEMMA WithoutCRType == \A line \in Text : WithoutCR(line) \in Text
BY DEF WithoutCR, Text, Front

\* The data of a data line is a text.
LEMMA DataOfType == \A line \in Text : IsData(line) => DataOf(line) \in Text
BY DEF DataOf, Text, IsData

\* The end of a line leaves none open, and nothing once it is unreadable (consumeLine).
LEMMA ConsumeLineType ==
    ASSUME NEW d \in Observer, Len(d.event) <= MaxEventBytes
    PROVE  /\ consumeLine(d) \in Sized /\ consumeLine(d).line = <<>>
           /\ ~d.malformed /\ consumeLine(d).malformed => consumeLine(d).event = <<>>
<1>. DEFINE line == WithoutCR(d.line)
            e == [d EXCEPT !.line = <<>>]
            event == d.event \o DataOf(line) \o <<NL>>
<1>1. line \in Text /\ d.event \in Text
  BY WithoutCRType DEF Observer
<1>2. e \in Sized /\ e.line = <<>> /\ e.malformed = d.malformed
  BY EmptyText, CompletionAssumption DEF Sized, Observer, CompletionAssumption
<1>3. IsData(line) => event \in Text
  <2>1. IsData(line) => DataOf(line) \in Text
    BY <1>1, DataOfType
  <2>2. NL \in Symbols
    BY DEF Symbols
  <2>. HIDE DEF line
  <2>. QED BY <1>1, <2>1, <2>2 DEF Text
<1>4. consumeLine(d) = IF line = <<>> THEN consumeEvent(e)
        ELSE IF ~IsData(line) THEN e
        ELSE IF Len(event) > MaxEventBytes THEN [e EXCEPT !.malformed = TRUE, !.event = <<>>]
        ELSE [e EXCEPT !.event = event]
  BY DEF consumeLine
<1>. HIDE DEF e, line, event
<1>5. CASE line = <<>>
  BY <1>2, <1>4, <1>5, ConsumeEventType
<1>6. CASE line # <<>> /\ ~IsData(line)
  BY <1>2, <1>4, <1>6
<1>7. CASE line # <<>> /\ IsData(line) /\ Len(event) > MaxEventBytes
  BY <1>2, <1>4, <1>7, EmptyText, CompletionAssumption DEF Sized, Observer, CompletionAssumption
<1>8. CASE line # <<>> /\ IsData(line) /\ Len(event) <= MaxEventBytes
  <2>1. Len(event) \in Nat
    BY <1>3, <1>8 DEF Text
  <2>2. consumeLine(d) = [e EXCEPT !.event = event]
    BY <1>4, <1>8, <2>1, CompletionAssumption DEF CompletionAssumption
  <2>. QED BY <1>2, <1>3, <1>8, <2>2, EmptyText DEF Sized, Observer
<1>9. Len(event) > MaxEventBytes \/ Len(event) <= MaxEventBytes \/ ~IsData(line)
  BY <1>3, CompletionAssumption DEF Text, CompletionAssumption
<1>. QED BY <1>5, <1>6, <1>7, <1>8, <1>9

\* What is left when a line is too long.
LEMMA GiveUpType ==
    ASSUME NEW d \in Sized
    PROVE  /\ GiveUp(d) \in Sized
           /\ GiveUp(d).malformed /\ GiveUp(d).line = <<>> /\ GiveUp(d).event = <<>>
           /\ GiveUp(d).completed = d.completed /\ GiveUp(d).mismatch = d.mismatch
<1>. DEFINE a == [d EXCEPT !.malformed = TRUE]
            b == [a EXCEPT !.line = <<>>]
            r == [b EXCEPT !.event = <<>>]
<1>1. a \in Sized /\ a.malformed /\ a.completed = d.completed /\ a.mismatch = d.mismatch
  BY DEF Sized, Observer
<1>2. GiveUp(d) = r
  BY DEF GiveUp
<1>. HIDE DEF a
<1>3. /\ b \in Sized /\ b.malformed /\ b.line = <<>>
      /\ b.completed = d.completed /\ b.mismatch = d.mismatch
  BY <1>1, EmptyText, CompletionAssumption DEF Sized, Observer, CompletionAssumption
<1>. HIDE DEF b
<1>4. /\ r \in Sized /\ r.malformed /\ r.line = <<>> /\ r.event = <<>>
      /\ r.completed = d.completed /\ r.mismatch = d.mismatch
  BY <1>3, EmptyText, CompletionAssumption DEF Sized, Observer, CompletionAssumption
<1>. QED BY <1>2, <1>4

\* A turn of Feed keeps the sizes within the limit.
LEMMA FeedPieceType ==
    ASSUME NEW d \in Sized, NEW piece \in Text, NEW ended \in BOOLEAN
    PROVE  FeedPiece(d, piece, ended) \in Sized
<1>. DEFINE e == [d EXCEPT !.line = @ \o piece]
<1>1. d.line \in Text /\ d.line \o piece \in Text
      /\ Len(d.line \o piece) = Len(d.line) + Len(piece) /\ Len(d.line) + Len(piece) \in Nat
  BY DEF Sized, Observer, Text
<1>2. e \in Observer /\ e.line = d.line \o piece /\ e.event = d.event
  BY <1>1 DEF Sized, Observer
<1>3. Len(e.event) <= MaxEventBytes
  BY <1>2 DEF Sized
<1>4. ~Overlong(d, piece) => Len(e.line) <= MaxEventBytes
  BY <1>1, <1>2, CompletionAssumption DEF Overlong, CompletionAssumption
<1>. HIDE DEF e
<1>5. ~Overlong(d, piece) => e \in Sized
  BY <1>2, <1>3, <1>4 DEF Sized
<1>6. consumeLine(e) \in Sized
  BY <1>2, <1>3, ConsumeLineType
<1>7. GiveUp(d) \in Sized
  BY GiveUpType
<1>. QED BY <1>5, <1>6, <1>7 DEF FeedPiece, e

-----------------------------------------------------------------------------
(* Chunks: Feed reads byte by byte                                         *)

\* A turn of Feed's loop that ends a line.
Turn(d, piece) == FeedPiece(d, piece, TRUE)

\* The turn that reads what follows the last line end.
Rest(d, piece) == FeedPiece(d, piece, FALSE)

\* The turns of Feed's loop over the finished lines of ls.
FedRun(d, ls, g) ==
    /\ g[0] = d
    /\ \A i \in 1..Len(ls) - 1 : g[i] = Turn(g[i - 1], ls[i])

\* Feed is its turns, one for each line.
LEMMA FeedRun ==
    ASSUME NEW d \in Sized, NEW p \in Text, NEW ls \in LineList, ls = LinesOf(p)
    PROVE  \E g \in [0..Len(ls) - 1 -> Sized] :
              /\ FedRun(d, ls, g)
              /\ Feed(d, p) = Rest(g[Len(ls) - 1], ls[Len(ls)])
<1>. DEFINE n == Len(ls) - 1
            F == [y \in Sized \X (1..n) |-> Turn(y[1], ls[y[2]])]
            Eqn(g) == g = [i \in 0..n |-> IF i = 0 THEN d ELSE Turn(g[i - 1], ls[i])]
<1>1. n \in Nat /\ \A i \in 1..n : ls[i] \in Text
  <2>1. Len(ls) \in Nat /\ Len(ls) # 0 /\ \A i \in 1..Len(ls) : ls[i] \in Text
    BY DEF LineList
  <2>. QED BY <2>1
<1>. HIDE DEF n
<1>2. F \in [Sized \X (1..n) -> Sized]
  BY <1>1, FeedPieceType DEF Turn
<1>3. PICK g \in [0..n -> Sized] : Computed(g, d, F, n)
  <2>. HIDE DEF F
  <2>. QED BY <1>1, <1>2, RecursionExists
<1>4. g[0] = d /\ \A i \in 1..n : g[i] = Turn(g[i - 1], ls[i])
  <2>1. \A i \in 1..n : g[i - 1] \in Sized
    BY <1>1
  <2>. QED BY <1>3, <2>1 DEF Computed
<1>5. Eqn(g)
  BY <1>1, <1>3, <1>4
<1>6. PICK k : k = (CHOOSE h : Eqn(h))
  OBVIOUS
<1>7. Feed(d, p) = Rest(k[n], ls[Len(ls)])
  BY <1>6 DEF Feed, Turn, Rest, n, Last
<1>8. Eqn(k)
  <2>. HIDE DEF Eqn
  <2>. QED BY <1>5, <1>6
<1>9. k[0] = d /\ \A i \in 1..n : k[i] = Turn(k[i - 1], ls[i])
  BY <1>1, <1>8
<1>10. k[n] = g[n]
  <2>1. SameRule(k, g, n)
    BY <1>4, <1>9 DEF SameRule
  <2>2. \A i \in 0..n : k[i] = g[i]
    BY <1>1, <2>1, RecursionUnique
  <2>. QED BY <1>1, <2>2
<1>. QED BY <1>4, <1>7, <1>10 DEF FedRun, n

\* The limit is a number.
LEMMA LimitIsNat == MaxEventBytes \in Nat
BY CompletionAssumption DEF CompletionAssumption

\* Two observers with the same fields are one.
LEMMA SameObserver ==
    ASSUME NEW d \in Observer, NEW e \in Observer, d.line = e.line, d.event = e.event,
           d.completed = e.completed, d.mismatch = e.mismatch, d.malformed = e.malformed
    PROVE  d = e
BY DEF Observer

Extended(d, piece) == [d EXCEPT !.line = @ \o piece]

\* What reading a piece of a line changes.
LEMMA ExtendedFields ==
    ASSUME NEW d \in Sized, NEW piece \in Text
    PROVE  /\ Extended(d, piece) \in Observer
           /\ Extended(d, piece).line = d.line \o piece
           /\ Extended(d, piece).event = d.event
           /\ Extended(d, piece).completed = d.completed
           /\ Extended(d, piece).mismatch = d.mismatch
           /\ Extended(d, piece).malformed = d.malformed
           /\ d.line \in Text /\ d.line \o piece \in Text
           /\ Len(d.line \o piece) = Len(d.line) + Len(piece)
           /\ Len(d.line) \in Nat /\ Len(piece) \in Nat
           /\ Len(d.line) <= MaxEventBytes
           /\ ~Overlong(d, piece) => Extended(d, piece) \in Sized
<1>1. d \in Observer /\ d.line \in Text
  BY DEF Sized, Observer
<1>2. /\ d.line \o piece \in Text
      /\ Len(d.line \o piece) = Len(d.line) + Len(piece)
      /\ Len(d.line) \in Nat /\ Len(piece) \in Nat
  BY <1>1 DEF Text
<1>3. /\ Extended(d, piece) \in Observer
      /\ Extended(d, piece).line = d.line \o piece
      /\ Extended(d, piece).event = d.event
      /\ Extended(d, piece).completed = d.completed
      /\ Extended(d, piece).mismatch = d.mismatch
      /\ Extended(d, piece).malformed = d.malformed
  BY <1>1, <1>2 DEF Observer, Extended
<1>4. ~Overlong(d, piece) => Extended(d, piece) \in Sized
  BY <1>2, <1>3, CompletionAssumption DEF Overlong, CompletionAssumption, Sized
<1>5. Len(d.line) <= MaxEventBytes
  BY DEF Sized
<1>. QED BY <1>1, <1>2, <1>3, <1>4, <1>5

\* A turn of Feed, by cases.
LEMMA PieceEffect ==
    ASSUME NEW d \in Sized, NEW piece \in Text
    PROVE  /\ d.malformed => Turn(d, piece) = d /\ Rest(d, piece) = d
           /\ ~d.malformed /\ Overlong(d, piece)
                => Turn(d, piece) = GiveUp(d) /\ Rest(d, piece) = GiveUp(d)
           /\ ~d.malformed /\ ~Overlong(d, piece)
                => /\ Turn(d, piece) = consumeLine(Extended(d, piece))
                   /\ Rest(d, piece) = Extended(d, piece)
BY DEF Turn, Rest, FeedPiece, Extended

\* What one byte does.
Byte(d, x) ==
    IF x # NL THEN Rest(d, <<x>>)
    ELSE IF d.malformed THEN d ELSE consumeLine(d)

\* A byte keeps the type.
LEMMA ByteType == \A d \in Sized, x \in Symbols : Byte(d, x) \in Sized
<1>. SUFFICES ASSUME NEW d \in Sized, NEW x \in Symbols PROVE Byte(d, x) \in Sized
  OBVIOUS
<1>1. <<x>> \in Text
  BY DEF Text
<1>2. Rest(d, <<x>>) \in Sized
  BY <1>1, FeedPieceType DEF Rest
<1>3. consumeLine(d) \in Sized
  BY ConsumeLineType DEF Sized
<1>. QED BY <1>2, <1>3 DEF Byte

\* A piece can be read byte by byte: the limit is tested on the whole line.
LEMMA LongerPiece ==
    ASSUME NEW d \in Sized, NEW piece \in Text, NEW x \in Symbols
    PROVE  Rest(d, Append(piece, x))
             = Rest(Rest(d, piece), <<x>>)
<1>1. /\ <<x>> \in Text /\ Len(<<x>>) = 1
      /\ Append(piece, x) \in Text /\ Len(Append(piece, x)) = Len(piece) + 1
      /\ d.line \o Append(piece, x) = (d.line \o piece) \o <<x>>
  BY DEF Text, Sized, Observer
<1>5. PICK a \in Nat, b \in Nat, m \in Nat :
         a = Len(d.line) /\ b = Len(piece) /\ m = MaxEventBytes
  BY ExtendedFields, LimitIsNat
<1>6. /\ Overlong(d, piece) <=> a + b > m
      /\ Overlong(d, Append(piece, x)) <=> a + (b + 1) > m
  <2>1. Len(Append(piece, x)) = b + 1
    BY <1>1, <1>5
  <2>. QED BY <1>5, <2>1 DEF Overlong
<1>2. CASE d.malformed
  BY <1>1, <1>2, PieceEffect
<1>3. CASE ~d.malformed /\ Overlong(d, piece)
  <2>1. Overlong(d, Append(piece, x))
    <3>1. a + b > m => a + (b + 1) > m
      OBVIOUS
    <3>. QED BY <1>3, <1>6, <3>1
  <2>2. GiveUp(d) \in Sized /\ GiveUp(d).malformed
    BY GiveUpType
  <2>. QED BY <1>1, <1>3, <2>1, <2>2, PieceEffect
<1>4. CASE ~d.malformed /\ ~Overlong(d, piece)
  <2>. DEFINE e == Extended(d, piece)
  <2>1. /\ e \in Sized /\ ~e.malformed /\ Rest(d, piece) = e
        /\ e.line = d.line \o piece /\ Len(e.line) = Len(d.line) + Len(piece)
        /\ e.event = d.event /\ e.completed = d.completed /\ e.mismatch = d.mismatch
        /\ Len(d.line) \in Nat /\ Len(piece) \in Nat
    BY <1>4, ExtendedFields, PieceEffect
  <2>. HIDE DEF e
  <2>2. Overlong(e, <<x>>) <=> Overlong(d, Append(piece, x))
    <3>1. Len(e.line) = a + b /\ Len(<<x>>) = 1
      BY <1>1, <1>5, <2>1
    <3>2. Overlong(e, <<x>>) <=> (a + b) + 1 > m
      BY <1>5, <3>1 DEF Overlong
    <3>3. (a + b) + 1 > m <=> a + (b + 1) > m
      OBVIOUS
    <3>. QED BY <1>6, <3>2, <3>3
  <2>3. CASE Overlong(e, <<x>>)
    <3>1. /\ Rest(e, <<x>>) = GiveUp(e)
          /\ Rest(d, Append(piece, x)) = GiveUp(d)
      BY <1>1, <1>4, <2>1, <2>2, <2>3, PieceEffect
    <3>2. /\ GiveUp(e) \in Sized /\ GiveUp(d) \in Sized
          /\ GiveUp(d).line = GiveUp(e).line /\ GiveUp(d).event = GiveUp(e).event
          /\ GiveUp(d).malformed /\ GiveUp(e).malformed
          /\ GiveUp(d).completed = GiveUp(e).completed
          /\ GiveUp(d).mismatch = GiveUp(e).mismatch
      BY <2>1, GiveUpType
    <3>3. GiveUp(d) = GiveUp(e)
      BY <3>2, SameObserver DEF Sized, Observer
    <3>. QED BY <2>1, <3>1, <3>3
  <2>4. CASE ~Overlong(e, <<x>>)
    <3>1. /\ Rest(e, <<x>>) = Extended(e, <<x>>)
          /\ Rest(d, Append(piece, x)) = Extended(d, Append(piece, x))
      BY <1>1, <1>4, <2>1, <2>2, <2>4, PieceEffect
    <3>2. Extended(e, <<x>>) = Extended(d, Append(piece, x))
      <4>1. /\ Extended(e, <<x>>).line = e.line \o <<x>>
            /\ Extended(e, <<x>>).event = e.event
            /\ Extended(e, <<x>>).completed = e.completed
            /\ Extended(e, <<x>>).mismatch = e.mismatch
            /\ Extended(e, <<x>>).malformed = e.malformed
            /\ Extended(e, <<x>>) \in Observer
        BY <1>1, <2>1, ExtendedFields
      <4>2. /\ Extended(d, Append(piece, x)).line = d.line \o Append(piece, x)
            /\ Extended(d, Append(piece, x)).event = d.event
            /\ Extended(d, Append(piece, x)).completed = d.completed
            /\ Extended(d, Append(piece, x)).mismatch = d.mismatch
            /\ Extended(d, Append(piece, x)).malformed = d.malformed
            /\ Extended(d, Append(piece, x)) \in Observer
        BY <1>1, ExtendedFields
      <4>3. e.malformed = d.malformed
        BY ExtendedFields DEF e
      <4>. DEFINE u == Extended(e, <<x>>)
                  v == Extended(d, Append(piece, x))
      <4>4. /\ u.line = v.line /\ u.event = v.event /\ u.completed = v.completed
            /\ u.mismatch = v.mismatch /\ u.malformed = v.malformed
            /\ u \in Observer /\ v \in Observer
        BY <1>1, <2>1, <4>1, <4>2, <4>3
      <4>. HIDE DEF u, v
      <4>5. u = v
        BY <4>4, SameObserver
      <4>. QED BY <4>5 DEF u, v
    <3>. QED BY <2>1, <3>1, <3>2
  <2>. QED BY <2>3, <2>4
<1>. QED BY <1>2, <1>3, <1>4

\* A line end after a piece is a byte of its own.
LEMMA EndedPiece ==
    ASSUME NEW d \in Sized, NEW piece \in Text
    PROVE  Turn(d, piece) = Byte(Rest(d, piece), NL)
<1>1. CASE d.malformed
  BY <1>1, PieceEffect DEF Byte
<1>2. CASE ~d.malformed /\ Overlong(d, piece)
  BY <1>2, PieceEffect, GiveUpType DEF Byte
<1>3. CASE ~d.malformed /\ ~Overlong(d, piece)
  <2>1. ~Extended(d, piece).malformed
    BY <1>3, ExtendedFields
  <2>. QED BY <1>3, <2>1, PieceEffect DEF Byte
<1>. QED BY <1>1, <1>2, <1>3

\* An empty piece changes nothing.
LEMMA EmptyPiece ==
    ASSUME NEW d \in Sized
    PROVE  Rest(d, <<>>) = d
<1>1. <<>> \in Text /\ d.line \o <<>> = d.line
  BY DEF Text, Sized, Observer
<1>2. ~Overlong(d, <<>>)
  <2>1. PICK a \in Nat, m \in Nat : a = Len(d.line) /\ m = MaxEventBytes /\ a <= m
    BY <1>1, ExtendedFields, LimitIsNat
  <2>2. Overlong(d, <<>>) <=> a + 0 > m
    BY <2>1, EmptyText DEF Overlong
  <2>3. ~(a + 0 > m)
    BY <2>1
  <2>. QED BY <2>2, <2>3
<1>3. Extended(d, <<>>) = d
  <2>. DEFINE e == Extended(d, <<>>)
  <2>1. /\ e \in Observer /\ d \in Observer
        /\ e.line = d.line /\ e.event = d.event /\ e.completed = d.completed
        /\ e.mismatch = d.mismatch /\ e.malformed = d.malformed
    BY <1>1, ExtendedFields DEF Sized
  <2>. HIDE DEF e
  <2>2. e = d
    BY <2>1, SameObserver
  <2>. QED BY <2>2 DEF e
<1>. QED BY <1>1, <1>2, <1>3, PieceEffect

\* Feed keeps the type.
LEMMA FeedType == \A d \in Sized, p \in Text : Feed(d, p) \in Sized
<1>. SUFFICES ASSUME NEW d \in Sized, NEW p \in Text PROVE Feed(d, p) \in Sized
  OBVIOUS
<1>1. PICK ls \in LineList : ls = LinesOf(p)
  BY LinesOfType
<1>2. PICK g \in [0..Len(ls) - 1 -> Sized] :
         Feed(d, p) = Rest(g[Len(ls) - 1], ls[Len(ls)])
  BY <1>1, FeedRun
<1>3. Len(ls) \in Nat /\ Len(ls) # 0 /\ ls[Len(ls)] \in Text
  BY DEF LineList
<1>4. g[Len(ls) - 1] \in Sized
  BY <1>3
<1>. QED BY <1>2, <1>3, <1>4, FeedPieceType DEF Rest

\* Feeding nothing changes nothing.
LEMMA FeedEmpty == \A d \in Sized : Feed(d, <<>>) = d
<1>. SUFFICES ASSUME NEW d \in Sized PROVE Feed(d, <<>>) = d
  OBVIOUS
<1>1. PICK ls \in LineList : ls = LinesOf(<<>>) /\ ls = << <<>> >>
  BY LinesOfEmpty, OneLine
<1>2. Len(ls) = 1 /\ ls[1] = <<>>
  BY <1>1
<1>3. PICK g \in [0..Len(ls) - 1 -> Sized] :
         FedRun(d, ls, g) /\ Feed(d, <<>>) = Rest(g[Len(ls) - 1], ls[Len(ls)])
  BY <1>1, EmptyText, FeedRun
<1>4. Feed(d, <<>>) = Rest(d, <<>>)
  BY <1>2, <1>3 DEF FedRun
<1>. QED BY <1>4, EmptyPiece

\* Feeding one byte more is feeding that byte (Feed).
LEMMA FeedAppend ==
    ASSUME NEW d \in Sized, NEW p \in Text, NEW x \in Symbols
    PROVE  Feed(d, Append(p, x)) = Byte(Feed(d, p), x)
<1>1. PICK ls \in LineList : ls = LinesOf(p)
  BY LinesOfType
<1>2. PICK q : q = Append(p, x) /\ q \in Text
  <2>1. Append(p, x) \in Text
    BY DEF Text
  <2>. QED BY <2>1
<1>3. PICK ms \in LineList : ms = LinesOf(q) /\ ms = LinesStep(ls, x)
  BY <1>1, <1>2, LinesOfType, LinesOfAppend
<1>4. PICK g \in [0..Len(ls) - 1 -> Sized] :
         FedRun(d, ls, g) /\ Feed(d, p) = Rest(g[Len(ls) - 1], ls[Len(ls)])
  BY <1>1, FeedRun
<1>5. PICK h \in [0..Len(ms) - 1 -> Sized] :
         FedRun(d, ms, h) /\ Feed(d, q) = Rest(h[Len(ms) - 1], ms[Len(ms)])
  BY <1>2, <1>3, FeedRun
<1>6. PICK n : n = Len(ls) - 1
  OBVIOUS
<1>7. n \in Nat /\ Len(ls) = n + 1 /\ ls[n + 1] \in Text
  BY <1>6 DEF LineList
<1>10. g[n] \in Sized /\ Feed(d, p) = Rest(g[n], ls[n + 1])
  <2>1. g[n] \in Sized
    BY <1>6, <1>7
  <2>. QED BY <1>4, <1>6, <1>7, <2>1
<1>8. CASE x # NL
  <2>1. /\ Len(ms) = n + 1 /\ ms[n + 1] = Append(ls[n + 1], x)
        /\ \A i \in 1..n : ms[i] = ls[i]
    BY <1>3, <1>7, <1>8 DEF LinesStep, LineList
  <2>2. Len(ms) - 1 = n /\ Len(ls) - 1 = n
    BY <1>6, <1>7, <2>1
  <2>3. SameRule(g, h, n)
    BY <1>4, <1>5, <2>1, <2>2 DEF FedRun, SameRule
  <2>4. h[n] = g[n]
    <3>1. \A i \in 0..n : g[i] = h[i]
      BY <1>7, <2>3, RecursionUnique
    <3>. QED BY <1>7, <3>1
  <2>5. Feed(d, q) = Rest(g[n], Append(ls[n + 1], x))
    BY <1>5, <1>7, <2>1, <2>2, <2>4
  <2>6. Feed(d, q) = Rest(Feed(d, p), <<x>>)
    BY <1>7, <1>10, <2>5, LongerPiece
  <2>. QED BY <1>2, <1>8, <2>6 DEF Byte
<1>9. CASE x = NL
  <2>1. /\ Len(ms) = n + 2 /\ ms[n + 2] = <<>>
        /\ \A i \in 1..n + 1 : ms[i] = ls[i]
    BY <1>3, <1>7, <1>9 DEF LinesStep, LineList
  <2>2. Len(ms) - 1 = n + 1 /\ Len(ls) - 1 = n
    BY <1>6, <1>7, <2>1
  <2>3. SameRule(g, h, n)
    BY <1>4, <1>5, <2>1, <2>2 DEF FedRun, SameRule
  <2>4. h[n] = g[n]
    <3>1. \A i \in 0..n : g[i] = h[i]
      BY <1>7, <2>3, RecursionUnique
    <3>. QED BY <1>7, <3>1
  <2>5. h[n + 1] = Turn(g[n], ls[n + 1])
    <3>1. h[n + 1] = Turn(h[n], ms[n + 1])
      BY <1>5, <1>7, <2>2 DEF FedRun
    <3>2. ms[n + 1] = ls[n + 1]
      BY <1>7, <2>1
    <3>. QED BY <2>4, <3>1, <3>2
  <2>6. Turn(g[n], ls[n + 1]) \in Sized
    BY <1>7, <1>10, FeedPieceType DEF Turn
  <2>7. Feed(d, q) = Turn(g[n], ls[n + 1])
    BY <1>5, <2>1, <2>2, <2>5, <2>6, EmptyPiece
  <2>8. Turn(g[n], ls[n + 1]) = Byte(Feed(d, p), NL)
    BY <1>7, <1>10, EndedPiece
  <2>. QED BY <1>2, <1>9, <2>7, <2>8
<1>. QED BY <1>8, <1>9

\* Feeding two chunks is feeding them joined, wherever the cut is (Feed).
LEMMA FeedConcat ==
    ASSUME NEW d \in Sized, NEW p \in Text
    PROVE  \A q \in Text : Feed(Feed(d, p), q) = Feed(d, p \o q)
<1>. DEFINE P == {q \in Text : Feed(Feed(d, p), q) = Feed(d, p \o q)}
<1>1. <<>> \in P
  <2>1. p \o <<>> = p
    BY DEF Text
  <2>. QED BY <2>1, EmptyText, FeedType, FeedEmpty
<1>2. ASSUME NEW q \in Text, NEW x \in Symbols, q \in P PROVE Append(q, x) \in P
  <2>1. /\ p \o q \in Text /\ Append(q, x) \in Text
        /\ p \o Append(q, x) = Append(p \o q, x)
    BY DEF Text
  <2>2. Feed(Feed(d, p), Append(q, x)) = Byte(Feed(Feed(d, p), q), x)
    BY FeedType, FeedAppend
  <2>3. Feed(d, Append(p \o q, x)) = Byte(Feed(d, p \o q), x)
    BY <2>1, FeedAppend
  <2>. QED BY <1>2, <2>1, <2>2, <2>3
<1>3. Text \subseteq P
  <2>. HIDE DEF P
  <2>. QED BY <1>1, <1>2, TextInduction
<1>. QED BY <1>3

-----------------------------------------------------------------------------
(* What a line tells the observer                                          *)

\* An event without text is silent.
LEMMA NothingSilent == Silent(<<>>)
BY DEF Silent

\* What a document of admissible length makes of the flags.
LEMMA JSONFields ==
    ASSUME NEW d \in Sized, NEW raw, ~(Len(raw) > MaxEventBytes)
    PROVE  /\ JSON(d, raw).malformed <=> d.malformed \/ Says(raw) = "malformed"
           /\ JSON(d, raw).mismatch <=> d.mismatch \/ Says(raw) = "bad"
           /\ JSON(d, raw).completed <=> d.completed \/ Says(raw) \in {"ok", "bad"}
BY DEF JSON, Sized, Observer

\* What line m of ls makes of the text of the event so far.
EventStep(ls, before, m) ==
    LET b == IF m > 1 /\ Blank(ls[m - 1]) THEN <<>> ELSE before
    IN  IF IsData(ls[m]) THEN b \o DataOf(WithoutCR(ls[m])) \o <<NL>> ELSE b

EventRun(ls, g, n) ==
    g[0] = <<>> /\ \A i \in 1..n : g[i] = EventStep(ls, g[i - 1], i)

\* A carriage return at its end does not make a data line another.
LEMMA DataKeepsCR ==
    ASSUME NEW line \in Text
    PROVE  /\ Blank(line) => ~IsData(line)
           /\ ~Blank(line) => (IsData(WithoutCR(line)) <=> IsData(line))
<1>1. CASE line = <<>>
  BY <1>1 DEF Blank, WithoutCR, IsData
<1>2. CASE line # <<>> /\ ~(Last(line) = CR)
  BY <1>2 DEF Blank, WithoutCR
<1>3. CASE line # <<>> /\ Last(line) = CR
  <2>. DEFINE front == Front(line)
  <2>1. Len(line) \in Nat \ {0} /\ Head(line) = line[1] /\ Last(line) = line[Len(line)]
    BY <1>3 DEF Text, Last
  <2>2. /\ front \in Text /\ Len(front) = Len(line) - 1
        /\ \A i \in 1..Len(line) - 1 : front[i] = line[i]
    <3>1. line \in Seq(Symbols) /\ line # <<>> /\ front = SubSeq(line, 1, Len(line) - 1)
      BY <1>3 DEF Front, Text
    <3>2. PICK n \in Nat : Len(line) = n + 1
      <4>1. PICK k \in Nat \ {0} : k = Len(line)
        BY <2>1
      <4>2. k - 1 \in Nat /\ k = (k - 1) + 1
        OBVIOUS
      <4>. QED BY <4>1, <4>2
    <3>3. front = SubSeq(line, 1, n)
      <4>1. Len(line) - 1 = n
        BY <3>2
      <4>. QED BY <3>1, <4>1
    <3>. HIDE DEF front
    <3>4. front \in Text /\ Len(front) = n /\ \A i \in 1..n : front[i] = line[i]
      BY <3>1, <3>2, <3>3, SubSeqProperties DEF Text
    <3>. QED BY <3>2, <3>4
  <2>. HIDE DEF front
  <2>3. WithoutCR(line) = front
    BY <1>3 DEF WithoutCR, front
  <2>4. front = <<>> => line[1] = CR
    <3>1. front = <<>> => Len(line) = 1
      BY <2>1, <2>2, EmptyText
    <3>. QED BY <1>3, <2>1, <3>1
  <2>5. front # <<>> => Head(front) = line[1]
    BY <2>1, <2>2 DEF Text
  <2>. QED BY <1>3, <2>1, <2>3, <2>4, <2>5 DEF Blank, IsData, CR, Data
<1>. QED BY <1>1, <1>2, <1>3

\* The text of an event, line after line.
LEMMA EventStepType ==
    ASSUME NEW ls \in LineList, NEW before \in Text, NEW m \in 1..Len(ls)
    PROVE  EventStep(ls, before, m) \in Text
<1>1. ls[m] \in Text
  BY DEF LineList
<1>2. IsData(ls[m]) => DataOf(WithoutCR(ls[m])) \in Text
  BY <1>1, DataKeepsCR, WithoutCRType, DataOfType
<1>3. <<NL>> \in Text
  BY DEF Text, Symbols
<1>4. PICK b \in Text : b = IF m > 1 /\ Blank(ls[m - 1]) THEN <<>> ELSE before
  BY EmptyText
<1>5. EventStep(ls, before, m) =
         IF IsData(ls[m]) THEN b \o DataOf(WithoutCR(ls[m])) \o <<NL>> ELSE b
  BY <1>4 DEF EventStep
<1>6. \A u, v, w \in Text : u \o v \o w \in Text
  BY DEF Text
<1>. QED BY <1>2, <1>3, <1>4, <1>5, <1>6

\* The text of an event is found line by line.
LEMMA EventAtRun ==
    ASSUME NEW ls \in LineList, NEW n \in 0..Len(ls)
    PROVE  \E g \in [0..n -> Text] : EventRun(ls, g, n) /\ EventAt(ls, n) = g[n]
<1>. DEFINE F == [y \in Text \X (1..n) |-> EventStep(ls, y[1], y[2])]
            Eqn(g) == g = [m \in 0..n |-> IF m = 0 THEN <<>> ELSE EventStep(ls, g[m - 1], m)]
<1>1. n \in Nat /\ 1..n \subseteq 1..Len(ls)
  BY DEF LineList
<1>2. F \in [Text \X (1..n) -> Text]
  BY <1>1, EventStepType
<1>3. PICK g \in [0..n -> Text] : Computed(g, <<>>, F, n)
  <2>. HIDE DEF F
  <2>. QED BY <1>1, <1>2, EmptyText, RecursionExists
<1>4. g[0] = <<>> /\ \A i \in 1..n : g[i] = EventStep(ls, g[i - 1], i)
  <2>1. \A i \in 1..n : g[i - 1] \in Text
    BY <1>1
  <2>. QED BY <1>3, <2>1 DEF Computed
<1>5. Eqn(g)
  BY <1>1, <1>3, <1>4
<1>6. EventAt(ls, n) = (CHOOSE k : Eqn(k))[n]
  BY DEF EventAt, EventStep
<1>7. PICK k : k = (CHOOSE h : Eqn(h))
  OBVIOUS
<1>8. Eqn(k)
  <2>. HIDE DEF Eqn
  <2>. QED BY <1>5, <1>7
<1>9. k[0] = <<>> /\ \A i \in 1..n : k[i] = EventStep(ls, k[i - 1], i)
  BY <1>1, <1>8
<1>10. \A i \in 0..n : k[i] = g[i]
  <2>1. SameRule(k, g, n)
    BY <1>4, <1>9 DEF SameRule
  <2>. QED BY <1>1, <2>1, RecursionUnique
<1>11. EventAt(ls, n) = g[n]
  BY <1>1, <1>6, <1>7, <1>10
<1>. QED BY <1>3, <1>4, <1>11 DEF EventRun

\* It is a text.
LEMMA EventAtType ==
    ASSUME NEW ls \in LineList, NEW n \in 0..Len(ls)
    PROVE  EventAt(ls, n) \in Text
<1>1. PICK g \in [0..n -> Text] : EventAt(ls, n) = g[n]
  BY EventAtRun
<1>2. n \in Nat
  BY DEF LineList
<1>. QED BY <1>1, <1>2

\* The text of an event depends on the lines up to its own only.
LEMMA EventAtSame ==
    ASSUME NEW ls \in LineList, NEW ms \in LineList, NEW n \in 0..Len(ls), n <= Len(ms),
           \A i \in 1..n : ms[i] = ls[i]
    PROVE  EventAt(ms, n) = EventAt(ls, n)
<1>1. n \in Nat /\ n \in 0..Len(ms)
  BY DEF LineList
<1>2. PICK g \in [0..n -> Text] : EventRun(ls, g, n) /\ EventAt(ls, n) = g[n]
  BY EventAtRun
<1>3. PICK h \in [0..n -> Text] : EventRun(ms, h, n) /\ EventAt(ms, n) = h[n]
  BY <1>1, EventAtRun
<1>4. \A i \in 1..n : \A b : EventStep(ms, b, i) = EventStep(ls, b, i)
  BY <1>1 DEF EventStep
<1>5. SameRule(g, h, n)
  BY <1>1, <1>2, <1>3, <1>4 DEF EventRun, SameRule
<1>6. \A i \in 0..n : g[i] = h[i]
  BY <1>1, <1>5, RecursionUnique
<1>. QED BY <1>1, <1>2, <1>3, <1>6

\* One line more.
LEMMA EventAtNext ==
    ASSUME NEW ls \in LineList, NEW n \in 1..Len(ls)
    PROVE  EventAt(ls, n) = EventStep(ls, EventAt(ls, n - 1), n)
<1>1. n \in Nat /\ n - 1 \in 0..Len(ls) /\ n \in 0..Len(ls)
  BY DEF LineList
<1>2. PICK m \in Nat : m = n - 1
  BY <1>1
<1>3. PICK g \in [0..n -> Text] : EventRun(ls, g, n) /\ EventAt(ls, n) = g[n]
  BY <1>1, EventAtRun
<1>4. PICK h \in [0..m -> Text] : EventRun(ls, h, m) /\ EventAt(ls, m) = h[m]
  BY <1>1, <1>2, EventAtRun
<1>5. SameRule(g, h, m)
  BY <1>1, <1>2, <1>3, <1>4 DEF EventRun, SameRule
<1>6. g[m] = h[m]
  <2>1. \A i \in 0..m : g[i] = h[i]
    BY <1>2, <1>5, RecursionUnique
  <2>. QED BY <1>2, <2>1
<1>7. g[n] = EventStep(ls, g[m], n)
  BY <1>1, <1>2, <1>3 DEF EventRun
<1>. QED BY <1>2, <1>3, <1>4, <1>6, <1>7

\* Before the first line no event is open.
LEMMA EventAtZero == \A ls \in LineList : EventAt(ls, 0) = <<>>
<1>. SUFFICES ASSUME NEW ls \in LineList PROVE EventAt(ls, 0) = <<>>
  OBVIOUS
<1>1. 0 \in 0..Len(ls)
  BY DEF LineList
<1>. QED BY <1>1, EventAtRun DEF EventRun

Flags(d, e) ==
    e.malformed = d.malformed /\ e.mismatch = d.mismatch /\ e.completed = d.completed

\* What a document of this text makes of the flags.
Told(d, e, raw) ==
    /\ e.malformed <=> d.malformed \/ Says(raw) = "malformed"
    /\ e.mismatch <=> d.mismatch \/ Says(raw) = "bad"
    /\ e.completed <=> d.completed \/ Says(raw) \in {"ok", "bad"}

\* The end of an event tells the flags what it said (consumeEvent).
LEMMA ConsumeEventFields ==
    ASSUME NEW d \in Sized
    PROVE  /\ consumeEvent(d).line = d.line /\ consumeEvent(d).event = <<>>
           /\ Silent(d.event) => Flags(d, consumeEvent(d))
           /\ ~Silent(d.event) => Told(d, consumeEvent(d), d.event)
<1>. DEFINE e == [d EXCEPT !.event = <<>>]
<1>1. e \in Sized /\ e.line = d.line /\ e.event = <<>> /\ Flags(d, e)
  BY EmptyText, CompletionAssumption DEF Sized, Observer, CompletionAssumption, Flags
<1>2. ~(Len(d.event) > MaxEventBytes)
  <2>1. Len(d.event) \in Nat /\ MaxEventBytes \in Nat /\ Len(d.event) <= MaxEventBytes
    BY LimitIsNat DEF Sized, Observer, Text
  <2>. QED BY <2>1
<1>3. consumeEvent(d) = IF Silent(d.event) THEN e ELSE JSON(e, d.event)
  BY DEF consumeEvent
<1>. HIDE DEF e
<1>4. Told(e, JSON(e, d.event), d.event)
  BY <1>1, <1>2, JSONFields DEF Told
<1>5. ~Silent(d.event) => Told(d, consumeEvent(d), d.event)
  BY <1>1, <1>3, <1>4 DEF Told, Flags
<1>. QED BY <1>1, <1>3, <1>5, ConsumeEventType

\* What the line d.line makes of d, where text is the event's if it is a data line.
LineEffect(d, e, text) ==
    /\ Blank(d.line) =>
         /\ e.line = <<>> /\ e.event = <<>>
         /\ Silent(d.event) => Flags(d, e)
         /\ ~Silent(d.event) => Told(d, e, d.event)
    /\ ~Blank(d.line) /\ ~IsData(d.line) =>
         e.line = <<>> /\ e.event = d.event /\ Flags(d, e)
    /\ ~Blank(d.line) /\ IsData(d.line) /\ Len(text) > MaxEventBytes =>
         e.malformed /\ e.mismatch = d.mismatch /\ e.completed = d.completed
    /\ ~Blank(d.line) /\ IsData(d.line) /\ ~(Len(text) > MaxEventBytes) =>
         e.line = <<>> /\ e.event = text /\ Flags(d, e)

\* The end of a line, by its kind (consumeLine).
LEMMA ConsumeLineFields ==
    ASSUME NEW d \in Sized, NEW e, e = consumeLine(d),
           NEW text, text = d.event \o DataOf(WithoutCR(d.line)) \o <<NL>>
    PROVE  LineEffect(d, e, text)
<1>. DEFINE line == WithoutCR(d.line)
            a == [d EXCEPT !.line = <<>>]
<1>1. a \in Sized /\ a.line = <<>> /\ a.event = d.event /\ Flags(d, a)
  BY EmptyText, CompletionAssumption DEF Sized, Observer, CompletionAssumption, Flags
<1>2. ~Blank(d.line) => (IsData(line) <=> IsData(d.line))
  BY DataKeepsCR DEF Sized, Observer
<1>3. e = IF line = <<>> THEN consumeEvent(a)
        ELSE IF ~IsData(line) THEN a
        ELSE IF Len(text) > MaxEventBytes THEN [a EXCEPT !.malformed = TRUE, !.event = <<>>]
        ELSE [a EXCEPT !.event = text]
  BY DEF consumeLine
<1>4. Blank(d.line) <=> line = <<>>
  BY DEF Blank
<1>. HIDE DEF a, line
<1>5. CASE Blank(d.line)
  <2>1. e = consumeEvent(a)
    BY <1>3, <1>4, <1>5
  <2>2. /\ e.line = <<>> /\ e.event = <<>>
        /\ Silent(d.event) => Flags(d, e)
        /\ ~Silent(d.event) => Told(d, e, d.event)
    BY <1>1, <1>5, <2>1, ConsumeEventFields DEF Flags, Told
  <2>. QED BY <1>5, <2>2 DEF LineEffect
<1>6. CASE ~Blank(d.line) /\ ~IsData(d.line)
  BY <1>1, <1>2, <1>3, <1>4, <1>6 DEF LineEffect
<1>7. CASE ~Blank(d.line) /\ IsData(d.line) /\ Len(text) > MaxEventBytes
  <2>1. e = [a EXCEPT !.malformed = TRUE, !.event = <<>>]
    BY <1>2, <1>3, <1>4, <1>7
  <2>2. a \in Observer
    BY <1>1 DEF Sized
  <2>3. e.malformed /\ e.mismatch = d.mismatch /\ e.completed = d.completed
    BY <1>1, <1>7, <2>1, <2>2 DEF Flags, Observer
  <2>. QED BY <1>7, <2>3 DEF LineEffect
<1>8. CASE ~Blank(d.line) /\ IsData(d.line) /\ ~(Len(text) > MaxEventBytes)
  <2>1. e = [a EXCEPT !.event = text]
    BY <1>2, <1>3, <1>4, <1>8
  <2>2. a \in Observer
    BY <1>1 DEF Sized
  <2>3. e.line = <<>> /\ e.event = text /\ Flags(d, e)
    BY <1>1, <1>8, <2>1, <2>2 DEF Flags, Observer
  <2>. QED BY <1>8, <2>3 DEF LineEffect
<1>. QED BY <1>5, <1>6, <1>7, <1>8

\* The text of the event that is open when line n begins.
Open(ls, n) == IF n = 1 \/ Blank(ls[n - 1]) THEN <<>> ELSE EventAt(ls, n - 1)

\* The text of the event after line n, from the text open before it.
LEMMA EventIs ==
    ASSUME NEW ls \in LineList, NEW n \in 1..Len(ls)
    PROVE  EventAt(ls, n) = IF IsData(ls[n])
                            THEN Open(ls, n) \o DataOf(WithoutCR(ls[n])) \o <<NL>>
                            ELSE Open(ls, n)
<1>1. EventAt(ls, n) = EventStep(ls, EventAt(ls, n - 1), n)
  BY EventAtNext
<1>2. (IF n > 1 /\ Blank(ls[n - 1]) THEN <<>> ELSE EventAt(ls, n - 1)) = Open(ls, n)
  <2>1. CASE n = 1
    <3>1. n - 1 = 0
      BY <2>1
    <3>2. EventAt(ls, n - 1) = <<>>
      BY <3>1, EventAtZero
    <3>. QED BY <2>1, <3>2 DEF Open
  <2>2. CASE n # 1
    <3>1. n > 1
      BY <2>2 DEF LineList
    <3>. QED BY <2>2, <3>1 DEF Open
  <2>. QED BY <2>1, <2>2
<1>. QED BY <1>1, <1>2 DEF EventStep

\* The lines up to n, finished in both, break at the same places.
LEMMA BreaksSame ==
    ASSUME NEW ls \in LineList, NEW ms \in LineList, NEW n \in 1..Len(ls), n < Len(ls),
           n < Len(ms), \A i \in 1..n : ms[i] = ls[i]
    PROVE  /\ Breaks(ms, n) <=> Breaks(ls, n)
           /\ EventAt(ms, n) = EventAt(ls, n)
<1>1. n \in Nat /\ n \in 0..Len(ls) /\ n <= Len(ms) /\ n \in 1..n
  BY DEF LineList
<1>2. EventAt(ms, n) = EventAt(ls, n)
  BY <1>1, EventAtSame
<1>3. ms[n] = ls[n]
  BY <1>1
<1>. QED BY <1>2, <1>3 DEF Breaks

Judged(ls) ==
    {m \in 1 .. Len(ls) - 1 : /\ Blank(ls[m]) /\ ~Silent(EventAt(ls, m))
                              /\ \A k \in 1..m : ~Breaks(ls, k)}

\* What was said, by the lines that end an event.
LEMMA SaidIs ==
    ASSUME NEW ls
    PROVE  \A y : y \in Said(ls) <=> \E m \in Judged(ls) : y = Says(EventAt(ls, m))
BY DEF Said, Judged

\* The finished lines before n judge the same.
LEMMA JudgedSame ==
    ASSUME NEW ls \in LineList, NEW ms \in LineList, NEW n \in Nat, n < Len(ls), n < Len(ms),
           \A i \in 1..n : ms[i] = ls[i]
    PROVE  \A m \in 1..n : /\ m \in Judged(ms) <=> m \in Judged(ls)
                           /\ EventAt(ms, m) = EventAt(ls, m)
<1>. SUFFICES ASSUME NEW m \in 1..n
              PROVE  /\ m \in Judged(ms) <=> m \in Judged(ls)
                     /\ EventAt(ms, m) = EventAt(ls, m)
  OBVIOUS
<1>1. Len(ls) \in Nat /\ Len(ms) \in Nat
  BY DEF LineList
<1>2. \A k \in 1..m : /\ Breaks(ms, k) <=> Breaks(ls, k)
                      /\ EventAt(ms, k) = EventAt(ls, k)
  <2>. SUFFICES ASSUME NEW k \in 1..m
                PROVE  /\ Breaks(ms, k) <=> Breaks(ls, k)
                       /\ EventAt(ms, k) = EventAt(ls, k)
    OBVIOUS
  <2>1. k \in 1..Len(ls) /\ k < Len(ls) /\ k < Len(ms) /\ \A i \in 1..k : ms[i] = ls[i]
    BY <1>1
  <2>. QED BY <2>1, BreaksSame
<1>3. m \in 1..m /\ m \in 1..Len(ls) - 1 /\ m \in 1..Len(ms) - 1 /\ ms[m] = ls[m]
  BY <1>1
<1>. QED BY <1>2, <1>3 DEF Judged

\* The lines of a text are numbered from 1.
LEMMA BrokenIs ==
    ASSUME NEW ls \in LineList
    PROVE  Broken(ls) <=> \E n \in 1..Len(ls) : Breaks(ls, n)
BY DEF Broken, LineList

-----------------------------------------------------------------------------
(* The observer agrees with the lines                                      *)

\* What the observer d says of the lines ls.
Agrees(d, ls) ==
    /\ d.malformed <=> Broken(ls)
    /\ d.malformed \/ (d.line = ls[Len(ls)] /\ d.event = Open(ls, Len(ls)))
    /\ d.mismatch <=> "bad" \in Said(ls)
    /\ d.completed <=> "bad" \in Said(ls) \/ "ok" \in Said(ls)

\* The unfinished line breaks a text only by its length.
LEMMA BreaksLast ==
    ASSUME NEW ls \in LineList, NEW n, n = Len(ls)
    PROVE  Breaks(ls, n) <=> Len(ls[n]) > MaxEventBytes
BY DEF Breaks, LineList

\* A symbol of a line keeps the observer in agreement with the lines.
LEMMA CharacterAgrees ==
    ASSUME NEW ls \in LineList, NEW d \in Sized, Agrees(d, ls), NEW x \in Symbols, x # NL
    PROVE  Agrees(Byte(d, x), LinesStep(ls, x))
<1>1. PICK n \in Nat : Len(ls) = n + 1 /\ ls[n + 1] \in Text
  <2>1. Len(ls) \in Nat /\ Len(ls) # 0 /\ \A i \in 1..Len(ls) : ls[i] \in Text
    BY DEF LineList
  <2>2. PICK n \in Nat : Len(ls) = n + 1
    <3>1. PICK k \in Nat \ {0} : k = Len(ls)
      BY <2>1
    <3>2. k - 1 \in Nat /\ k = (k - 1) + 1
      OBVIOUS
    <3>. QED BY <3>1, <3>2
  <2>. QED BY <2>1, <2>2
<1>2. PICK ms \in LineList : ms = LinesStep(ls, x)
  BY LinesStepType
<1>3. /\ Len(ms) = n + 1 /\ ms[n + 1] = Append(ls[n + 1], x)
      /\ \A i \in 1..n : ms[i] = ls[i]
  BY <1>1, <1>2 DEF LinesStep, LineList
<1>4. \A m \in 1..n : /\ m \in Judged(ms) <=> m \in Judged(ls)
                      /\ EventAt(ms, m) = EventAt(ls, m)
  BY <1>1, <1>3, JudgedSame
<1>5. Judged(ls) \subseteq 1..n /\ Judged(ms) \subseteq 1..n
  BY <1>1, <1>3 DEF Judged
<1>6. \A y : y \in Said(ms) <=> y \in Said(ls)
  BY <1>4, <1>5, SaidIs
<1>7. Open(ms, n + 1) = Open(ls, n + 1)
  <2>1. CASE n = 0
    BY <2>1 DEF Open
  <2>2. CASE n # 0
    <3>1. n \in 1..n /\ (n + 1) - 1 = n
      BY <2>2
    <3>2. ms[n] = ls[n] /\ EventAt(ms, n) = EventAt(ls, n)
      BY <1>3, <1>4, <3>1
    <3>. QED BY <3>1, <3>2 DEF Open
  <2>. QED BY <2>1, <2>2
<1>8. \A k \in 1..n : Breaks(ms, k) <=> Breaks(ls, k)
  <2>. SUFFICES ASSUME NEW k \in 1..n PROVE Breaks(ms, k) <=> Breaks(ls, k)
    OBVIOUS
  <2>1. k \in 1..Len(ls) /\ k < Len(ls) /\ k < Len(ms) /\ \A i \in 1..k : ms[i] = ls[i]
    BY <1>1, <1>3
  <2>. QED BY <2>1, BreaksSame
<1>9. PICK l \in Nat, m \in Nat : l = Len(ls[n + 1]) /\ m = MaxEventBytes
  BY <1>1, LimitIsNat DEF Text
<1>10. Len(ms[n + 1]) = l + 1 /\ Len(<<x>>) = 1 /\ <<x>> \in Text
  BY <1>1, <1>3, <1>9 DEF Text
<1>11. /\ Breaks(ls, n + 1) <=> l > m
       /\ Breaks(ms, n + 1) <=> l + 1 > m
  BY <1>1, <1>3, <1>9, <1>10, BreaksLast
<1>12. /\ Broken(ls) <=> (\E k \in 1..n : Breaks(ls, k)) \/ l > m
       /\ Broken(ms) <=> (\E k \in 1..n : Breaks(ls, k)) \/ l + 1 > m
  <2>1. \A k : k \in 1..n + 1 <=> k \in 1..n \/ k = n + 1
    OBVIOUS
  <2>2. /\ Broken(ls) <=> \E k \in 1..n + 1 : Breaks(ls, k)
        /\ Broken(ms) <=> \E k \in 1..n + 1 : Breaks(ms, k)
    BY <1>1, <1>3, BrokenIs
  <2>. QED BY <1>8, <1>11, <2>1, <2>2
<1>13. Byte(d, x) = Rest(d, <<x>>)
  BY DEF Byte
<1>14. CASE d.malformed
  <2>1. Byte(d, x) = d
    BY <1>10, <1>13, <1>14, PieceEffect
  <2>2. l > m => l + 1 > m
    OBVIOUS
  <2>3. Broken(ls) /\ Broken(ms)
    BY <1>12, <1>14, <2>2 DEF Agrees
  <2>. QED BY <1>2, <1>6, <1>14, <2>1, <2>3 DEF Agrees
<1>15. CASE ~d.malformed
  <2>1. d.line = ls[n + 1] /\ d.event = Open(ls, n + 1) /\ ~Broken(ls)
    BY <1>1, <1>15 DEF Agrees
  <2>2. Overlong(d, <<x>>) <=> l + 1 > m
    BY <1>9, <1>10, <2>1 DEF Overlong
  <2>3. CASE Overlong(d, <<x>>)
    <3>1. Byte(d, x) = GiveUp(d)
      BY <1>10, <1>13, <1>15, <2>3, PieceEffect
    <3>2. Broken(ms)
      BY <1>12, <2>2, <2>3
    <3>. QED BY <1>2, <1>6, <3>1, <3>2, GiveUpType DEF Agrees
  <2>4. CASE ~Overlong(d, <<x>>)
    <3>1. Byte(d, x) = Extended(d, <<x>>)
      BY <1>10, <1>13, <1>15, <2>4, PieceEffect
    <3>2. ~Broken(ms)
      BY <1>12, <2>1, <2>2, <2>4
    <3>3. d.line \o <<x>> = ms[n + 1]
      BY <1>1, <1>3, <2>1 DEF Text
    <3>4. /\ Extended(d, <<x>>).line = ms[n + 1]
          /\ Extended(d, <<x>>).event = Open(ms, n + 1)
          /\ Extended(d, <<x>>).completed = d.completed
          /\ Extended(d, <<x>>).mismatch = d.mismatch
          /\ ~Extended(d, <<x>>).malformed
      BY <1>7, <1>10, <1>15, <2>1, <3>3, ExtendedFields
    <3>. QED BY <1>2, <1>3, <1>6, <3>1, <3>2, <3>4 DEF Agrees
  <2>. QED BY <2>3, <2>4
<1>. QED BY <1>14, <1>15

\* So does a line end, whatever line it ends.
LEMMA LineEndAgrees ==
    ASSUME NEW ls \in LineList, NEW d \in Sized, Agrees(d, ls)
    PROVE  Agrees(Byte(d, NL), LinesStep(ls, NL))
<1>1. PICK n \in Nat : Len(ls) = n + 1 /\ ls[n + 1] \in Text
  <2>1. Len(ls) \in Nat /\ Len(ls) # 0 /\ \A i \in 1..Len(ls) : ls[i] \in Text
    BY DEF LineList
  <2>2. PICK n \in Nat : Len(ls) = n + 1
    <3>1. PICK k \in Nat \ {0} : k = Len(ls)
      BY <2>1
    <3>2. k - 1 \in Nat /\ k = (k - 1) + 1
      OBVIOUS
    <3>. QED BY <3>1, <3>2
  <2>. QED BY <2>1, <2>2
<1>2. PICK ms \in LineList : ms = LinesStep(ls, NL)
  <2>1. NL \in Symbols
    BY DEF Symbols
  <2>. QED BY <2>1, LinesStepType
<1>3. /\ Len(ms) = n + 2 /\ ms[n + 2] = <<>>
      /\ \A i \in 1..n + 1 : ms[i] = ls[i]
  BY <1>1, <1>2 DEF LinesStep, LineList
<1>4. PICK N \in Nat : N = n + 1
  OBVIOUS
<1>5. PICK E : E = EventAt(ms, N)
  OBVIOUS
<1>6. \A m \in 1..n : /\ m \in Judged(ms) <=> m \in Judged(ls)
                      /\ EventAt(ms, m) = EventAt(ls, m)
  BY <1>1, <1>3, JudgedSame
<1>7. Open(ms, N) = Open(ls, N)
  <2>1. CASE n = 0
    BY <1>4, <2>1 DEF Open
  <2>2. CASE n # 0
    <3>1. n \in 1..n /\ N - 1 = n
      BY <1>4, <2>2
    <3>2. ms[n] = ls[n] /\ EventAt(ms, n) = EventAt(ls, n)
      BY <1>3, <1>6, <3>1
    <3>. QED BY <3>1, <3>2 DEF Open
  <2>. QED BY <2>1, <2>2
<1>8. ms[N] = ls[N] /\ N \in 1..Len(ms) /\ N < Len(ms)
  BY <1>3, <1>4
<1>9. /\ IsData(ls[N]) => E = Open(ls, N) \o DataOf(WithoutCR(ls[N])) \o <<NL>>
      /\ ~IsData(ls[N]) => E = Open(ls, N)
  BY <1>5, <1>7, <1>8, EventIs
<1>10. \A k \in 1..n : Breaks(ms, k) <=> Breaks(ls, k)
  <2>. SUFFICES ASSUME NEW k \in 1..n PROVE Breaks(ms, k) <=> Breaks(ls, k)
    OBVIOUS
  <2>1. k \in 1..Len(ls) /\ k < Len(ls) /\ k < Len(ms) /\ \A i \in 1..k : ms[i] = ls[i]
    BY <1>1, <1>3
  <2>. QED BY <2>1, BreaksSame
<1>11. Breaks(ms, N) <=> \/ Len(ls[N]) > MaxEventBytes
                         \/ Len(E) > MaxEventBytes
                         \/ Blank(ls[N]) /\ ~Silent(E) /\ Says(E) = "malformed"
  BY <1>5, <1>8 DEF Breaks
<1>12. ~Breaks(ms, n + 2)
  <2>1. Breaks(ms, n + 2) <=> Len(ms[n + 2]) > MaxEventBytes
    BY <1>3, BreaksLast
  <2>2. ~(0 > MaxEventBytes)
    BY LimitIsNat
  <2>. QED BY <1>3, <2>1, <2>2, EmptyText
<1>13. /\ Broken(ls) <=> (\E k \in 1..n : Breaks(ls, k)) \/ Len(ls[N]) > MaxEventBytes
       /\ Broken(ms) <=> (\E k \in 1..n : Breaks(ls, k)) \/ Breaks(ms, N)
  <2>1. /\ \A k : k \in 1..n + 1 <=> k \in 1..n \/ k = N
        /\ \A k : k \in 1..n + 2 <=> k \in 1..n \/ k = N \/ k = n + 2
    BY <1>4
  <2>2. /\ Broken(ls) <=> \E k \in 1..n + 1 : Breaks(ls, k)
        /\ Broken(ms) <=> \E k \in 1..n + 2 : Breaks(ms, k)
    BY <1>1, <1>3, BrokenIs
  <2>3. Breaks(ls, N) <=> Len(ls[N]) > MaxEventBytes
    BY <1>1, <1>4, BreaksLast
  <2>. QED BY <1>10, <1>12, <2>1, <2>2, <2>3
<1>14. N \in Judged(ms) <=> Blank(ls[N]) /\ ~Silent(E) /\ ~Broken(ms)
  <2>1. /\ N \in 1..Len(ms) - 1
        /\ \A k : k \in 1..N <=> k \in 1..n \/ k = N
    BY <1>3, <1>4
  <2>. QED BY <1>5, <1>8, <1>10, <1>13, <2>1 DEF Judged
<1>15. \A y : y \in Said(ms) <=> y \in Said(ls) \/ (N \in Judged(ms) /\ y = Says(E))
  <2>1. Judged(ls) \subseteq 1..n /\ Judged(ms) \subseteq 1..n \cup {N}
    BY <1>1, <1>3, <1>4 DEF Judged
  <2>. QED BY <1>5, <1>6, <2>1, SaidIs
<1>16. CASE d.malformed
  <2>1. Byte(d, NL) = d
    BY <1>16 DEF Byte
  <2>2. Broken(ls)
    BY <1>16 DEF Agrees
  <2>3. Broken(ms)
    BY <1>11, <1>13, <2>2
  <2>4. \A y : y \in Said(ms) <=> y \in Said(ls)
    BY <1>14, <1>15, <2>3
  <2>. QED BY <1>2, <1>16, <2>1, <2>3, <2>4 DEF Agrees
<1>17. CASE ~d.malformed
  <2>1. /\ d.line = ls[N] /\ d.event = Open(ls, N)
        /\ ~(\E k \in 1..n : Breaks(ls, k)) /\ ~(Len(ls[N]) > MaxEventBytes)
    BY <1>1, <1>4, <1>13, <1>17 DEF Agrees
  <2>2. PICK e : e = consumeLine(d) /\ e = Byte(d, NL) /\ e \in Sized
    BY <1>17, ConsumeLineType DEF Byte, Sized
  <2>3. PICK text : text = d.event \o DataOf(WithoutCR(d.line)) \o <<NL>>
    OBVIOUS
  <2>4. ~(Len(d.event) > MaxEventBytes)
    <3>1. Len(d.event) \in Nat /\ MaxEventBytes \in Nat /\ Len(d.event) <= MaxEventBytes
      BY LimitIsNat DEF Sized, Observer, Text
    <3>. QED BY <3>1
  <2>5. n + 2 # 1 /\ (n + 2) - 1 = N /\ Len(ms) = n + 2
    BY <1>3, <1>4
  <2>6. Open(ms, n + 2) = IF Blank(ls[N]) THEN <<>> ELSE E
    BY <1>5, <1>8, <2>5 DEF Open
  <2>7. Broken(ms) <=> Breaks(ms, N)
    BY <1>13, <2>1
  <2>8. /\ d.mismatch <=> "bad" \in Said(ls)
        /\ d.completed <=> "bad" \in Said(ls) \/ "ok" \in Said(ls)
    BY DEF Agrees
  <2>9. SUFFICES /\ e.malformed <=> Broken(ms)
                 /\ e.malformed \/ (e.line = <<>> /\ e.event = Open(ms, n + 2))
                 /\ e.mismatch <=> "bad" \in Said(ms)
                 /\ e.completed <=> "bad" \in Said(ms) \/ "ok" \in Said(ms)
    BY <1>2, <1>3, <2>2 DEF Agrees
  <2>10. LineEffect(d, e, text)
    BY <2>2, <2>3, ConsumeLineFields
  <2>11. CASE Blank(ls[N])
    <3>1. E = d.event
      BY <1>1, <1>4, <1>9, <2>1, <2>11, DataKeepsCR
    <3>2. Broken(ms) <=> ~Silent(E) /\ Says(E) = "malformed"
      BY <1>11, <2>1, <2>4, <2>7, <2>11, <3>1
    <3>3. e.line = <<>> /\ e.event = Open(ms, n + 2)
      BY <2>1, <2>6, <2>11, <2>10 DEF LineEffect
    <3>4. CASE Silent(E)
      <4>1. Flags(d, e)
        BY <2>1, <2>11, <2>10, <3>1, <3>4 DEF LineEffect
      <4>2. \A y : y \in Said(ms) <=> y \in Said(ls)
        BY <1>14, <1>15, <3>4
      <4>. QED BY <1>17, <2>8, <3>2, <3>3, <3>4, <4>1, <4>2 DEF Flags
    <3>5. CASE ~Silent(E)
      <4>1. Told(d, e, E)
        BY <2>1, <2>11, <2>10, <3>1, <3>5 DEF LineEffect
      <4>2. N \in Judged(ms) <=> Says(E) # "malformed"
        BY <1>14, <2>11, <3>2, <3>5
      <4>3. \A y : y \in Said(ms) <=> y \in Said(ls) \/ (y = Says(E) /\ y # "malformed")
        BY <1>15, <4>2
      <4>4. e.malformed <=> Broken(ms)
        BY <1>17, <3>2, <3>5, <4>1 DEF Told
      <4>5. e.mismatch <=> "bad" \in Said(ms)
        BY <2>8, <4>1, <4>3 DEF Told
      <4>6. e.completed <=> "bad" \in Said(ms) \/ "ok" \in Said(ms)
        BY <2>8, <4>1, <4>3 DEF Told
      <4>. QED BY <3>3, <4>4, <4>5, <4>6
    <3>. QED BY <3>4, <3>5
  <2>12. CASE ~Blank(ls[N]) /\ ~IsData(ls[N])
    <3>1. E = d.event
      BY <1>9, <2>1, <2>12
    <3>2. ~Broken(ms)
      BY <1>11, <2>1, <2>4, <2>7, <2>12, <3>1
    <3>3. e.line = <<>> /\ e.event = E /\ Flags(d, e)
      BY <2>1, <2>10, <2>12, <3>1 DEF LineEffect
    <3>4. \A y : y \in Said(ms) <=> y \in Said(ls)
      BY <1>14, <1>15, <2>12
    <3>. QED BY <1>17, <2>6, <2>8, <2>12, <3>2, <3>3, <3>4 DEF Flags
  <2>13. CASE ~Blank(ls[N]) /\ IsData(ls[N])
    <3>1. E = text
      BY <1>9, <2>1, <2>3, <2>13
    <3>2. Broken(ms) <=> Len(text) > MaxEventBytes
      BY <1>11, <2>1, <2>7, <2>13, <3>1
    <3>3. \A y : y \in Said(ms) <=> y \in Said(ls)
      BY <1>14, <1>15, <2>13
    <3>4. CASE Len(text) > MaxEventBytes
      <4>1. e.malformed /\ e.mismatch = d.mismatch /\ e.completed = d.completed
        BY <2>1, <2>10, <2>13, <3>4 DEF LineEffect
      <4>. QED BY <2>8, <3>2, <3>3, <3>4, <4>1
    <3>5. CASE ~(Len(text) > MaxEventBytes)
      <4>1. e.line = <<>> /\ e.event = text /\ Flags(d, e)
        BY <2>1, <2>10, <2>13, <3>5 DEF LineEffect
      <4>. QED BY <1>17, <2>6, <2>8, <2>13, <3>1, <3>2, <3>3, <3>5, <4>1 DEF Flags
    <3>. QED BY <3>4, <3>5
  <2>. QED BY <2>11, <2>12, <2>13
<1>. QED BY <1>16, <1>17

\* The new observer.
LEMMA NewIsSized == NewCompletion \in Sized
<1>1. MaxEventBytes \in Nat /\ MaxEventBytes >= 0
  BY LimitIsNat
<1>. QED BY <1>1, EmptyText DEF NewCompletion, Sized, Observer

\* Before anything is read, observer and lines agree.
LEMMA NothingAgrees == Agrees(NewCompletion, << <<>> >>)
<1>1. PICK ls \in LineList : ls = << <<>> >>
  BY OneLine
<1>2. Len(ls) = 1 /\ ls[1] = <<>> /\ 1 - 1 = 0
  BY <1>1
<1>3. Judged(ls) = {}
  BY <1>2 DEF Judged
<1>4. ~Broken(ls)
  <2>1. Breaks(ls, 1) <=> Len(ls[1]) > MaxEventBytes
    BY <1>2, BreaksLast
  <2>2. ~(0 > MaxEventBytes)
    BY LimitIsNat
  <2>3. ~Breaks(ls, 1)
    BY <1>2, <2>1, <2>2, EmptyText
  <2>. QED BY <1>2, <2>3, BrokenIs
<1>5. \A y : y \notin Said(ls)
  BY <1>3, SaidIs
<1>. QED BY <1>1, <1>2, <1>4, <1>5 DEF Agrees, NewCompletion, Open

\* What the observer says of a text is what its lines say.
LEMMA FeedAgrees == \A s \in Text : Agrees(Feed(NewCompletion, s), LinesOf(s))
<1>. DEFINE P == {s \in Text : Agrees(Feed(NewCompletion, s), LinesOf(s))}
<1>1. <<>> \in P
  BY NewIsSized, FeedEmpty, LinesOfEmpty, NothingAgrees, EmptyText
<1>2. ASSUME NEW s \in Text, NEW x \in Symbols, s \in P PROVE Append(s, x) \in P
  <2>1. Append(s, x) \in Text
    BY DEF Text
  <2>2. PICK d \in Sized : d = Feed(NewCompletion, s)
    BY NewIsSized, FeedType
  <2>3. PICK ls \in LineList : ls = LinesOf(s)
    BY LinesOfType
  <2>4. Agrees(d, ls)
    BY <1>2, <2>2, <2>3
  <2>5. Agrees(Byte(d, x), LinesStep(ls, x))
    BY <2>4, CharacterAgrees, LineEndAgrees
  <2>6. Feed(NewCompletion, Append(s, x)) = Byte(d, x)
    BY <2>2, NewIsSized, FeedAppend
  <2>7. LinesOf(Append(s, x)) = LinesStep(ls, x)
    BY <2>3, LinesOfAppend
  <2>. QED BY <2>1, <2>5, <2>6, <2>7
<1>3. Text \subseteq P
  <2>. HIDE DEF P
  <2>. QED BY <1>1, <1>2, TextInduction
<1>. QED BY <1>3

-----------------------------------------------------------------------------
(* The end of the body                                                     *)

\* Once the text is unreadable, nothing of it is kept.
Tidy(d) == d.malformed => d.line = <<>> /\ d.event = <<>>

\* A byte keeps that.
LEMMA ByteTidy ==
    ASSUME NEW d \in Sized, NEW x \in Symbols, Tidy(d)
    PROVE  Tidy(Byte(d, x))
<1>1. CASE d.malformed
  <2>1. <<x>> \in Text
    BY DEF Text
  <2>2. Byte(d, x) = d
    BY <1>1, <2>1, PieceEffect DEF Byte
  <2>. QED BY <2>2
<1>2. CASE ~d.malformed /\ x = NL
  <2>1. Byte(d, x) = consumeLine(d)
    BY <1>2 DEF Byte
  <2>. QED BY <1>2, <2>1, ConsumeLineType DEF Tidy, Sized
<1>3. CASE ~d.malformed /\ x # NL
  <2>1. <<x>> \in Text
    BY DEF Text
  <2>2. Byte(d, x) = GiveUp(d) \/ Byte(d, x) = Extended(d, <<x>>)
    BY <1>3, <2>1, PieceEffect DEF Byte
  <2>3. ~Extended(d, <<x>>).malformed
    BY <1>3, <2>1, ExtendedFields
  <2>4. GiveUp(d).line = <<>> /\ GiveUp(d).event = <<>>
    BY GiveUpType
  <2>. QED BY <2>2, <2>3, <2>4 DEF Tidy
<1>. QED BY <1>1, <1>2, <1>3

\* It holds of every text that was read.
LEMMA FeedTidy == \A s \in Text : Tidy(Feed(NewCompletion, s))
<1>. DEFINE P == {s \in Text : Tidy(Feed(NewCompletion, s))}
<1>1. <<>> \in P
  BY NewIsSized, FeedEmpty, EmptyText DEF Tidy, NewCompletion
<1>2. ASSUME NEW s \in Text, NEW x \in Symbols, s \in P PROVE Append(s, x) \in P
  <2>1. Append(s, x) \in Text
    BY DEF Text
  <2>2. Feed(NewCompletion, Append(s, x)) = Byte(Feed(NewCompletion, s), x)
    BY NewIsSized, FeedAppend
  <2>3. Feed(NewCompletion, s) \in Sized
    BY NewIsSized, FeedType
  <2>. QED BY <1>2, <2>1, <2>2, <2>3, ByteTidy
<1>3. Text \subseteq P
  <2>. HIDE DEF P
  <2>. QED BY <1>1, <1>2, TextInduction
<1>. QED BY <1>3

\* An event that is not open ends without a trace.
LEMMA EmptyEvent ==
    ASSUME NEW d \in Sized, d.event = <<>>
    PROVE  consumeEvent(d) = d
<1>. DEFINE e == consumeEvent(d)
<1>1. /\ e \in Observer /\ d \in Observer /\ e.line = d.line /\ e.event = d.event
      /\ Flags(d, e)
  BY NothingSilent, ConsumeEventType, ConsumeEventFields DEF Sized
<1>. HIDE DEF e
<1>2. e = d
  BY <1>1, SameObserver DEF Flags
<1>. QED BY <1>2 DEF e

\* An empty line ends the event.
LEMMA EmptyLine ==
    ASSUME NEW d \in Sized, d.line = <<>>
    PROVE  consumeLine(d) = consumeEvent(d)
<1>1. [d EXCEPT !.line = <<>>] = d
  BY DEF Sized, Observer
<1>2. WithoutCR(d.line) = <<>>
  BY DEF WithoutCR
<1>. QED BY <1>1, <1>2 DEF consumeLine

\* Finish is two line ends (Finish).
LEMMA FinishIs ==
    ASSUME NEW d \in Sized, Tidy(d)
    PROVE  Finish(d) = Byte(Byte(d, NL), NL)
<1>1. CASE d.malformed
  <2>1. d.line = <<>> /\ d.event = <<>>
    BY <1>1 DEF Tidy
  <2>. QED BY <1>1, <2>1, EmptyEvent DEF Finish, Byte
<1>2. CASE ~d.malformed
  <2>1. PICK e \in Sized : /\ e = consumeLine(d) /\ e = Byte(d, NL) /\ e.line = <<>>
                           /\ e.malformed => e.event = <<>>
    BY <1>2, ConsumeLineType DEF Byte, Sized
  <2>2. Byte(e, NL) = consumeEvent(e)
    BY <2>1, EmptyLine, EmptyEvent DEF Byte
  <2>3. CASE d.line # <<>>
    BY <2>1, <2>2, <2>3 DEF Finish
  <2>4. CASE d.line = <<>>
    <3>1. e = consumeEvent(d) /\ e.event = <<>>
      BY <2>1, <2>4, EmptyLine, ConsumeEventType
    <3>2. consumeEvent(e) = e
      BY <3>1, EmptyEvent
    <3>. QED BY <2>1, <2>2, <2>4, <3>1, <3>2 DEF Finish
  <2>. QED BY <2>3, <2>4
<1>. QED BY <1>1, <1>2

\* The end of the body reads like two more line ends.
LEMMA FinishFeed ==
    ASSUME NEW s \in Text
    PROVE  Finish(Feed(NewCompletion, s)) = Feed(NewCompletion, s \o <<NL, NL>>)
<1>1. NL \in Symbols
  BY DEF Symbols
<1>2. Append(s, NL) \in Text /\ s \o <<NL, NL>> = Append(Append(s, NL), NL)
  BY <1>1 DEF Text
<1>3. Feed(NewCompletion, Append(s, NL)) = Byte(Feed(NewCompletion, s), NL)
  BY <1>1, NewIsSized, FeedAppend
<1>4. Feed(NewCompletion, Append(Append(s, NL), NL)) = Byte(Feed(NewCompletion, Append(s, NL)), NL)
  BY <1>1, <1>2, NewIsSized, FeedAppend
<1>5. Feed(NewCompletion, s) \in Sized
  BY NewIsSized, FeedType
<1>. QED BY <1>2, <1>3, <1>4, <1>5, FinishIs, FeedTidy

-----------------------------------------------------------------------------
(* The specification                                                       *)

\* The inductive invariant.
IInv ==
    /\ c \in Sized
    /\ stream \in Text /\ sent \in 0 .. Len(stream)
    /\ documents \in Seq(Text) /\ finished \in BOOLEAN
    /\ documents = <<>> => c = Feed(NewCompletion, Delivered)
    /\ EventsJudged

\* Nothing that was said is taken back.
LEMMA ConsumeLineKeeps ==
    ASSUME NEW d \in Sized
    PROVE  /\ d.completed => consumeLine(d).completed
           /\ d.mismatch => consumeLine(d).mismatch
<1>1. PICK text, e : text = d.event \o DataOf(WithoutCR(d.line)) \o <<NL>> /\ e = consumeLine(d)
  OBVIOUS
<1>2. LineEffect(d, e, text)
  BY <1>1, ConsumeLineFields
<1>. QED BY <1>1, <1>2 DEF LineEffect, Flags, Told

\* The end of the body keeps a mismatch.
LEMMA FinishKeeps ==
    ASSUME NEW d \in Sized, Mismatch(d)
    PROVE  Finish(d) \in Sized /\ Mismatch(Finish(d))
<1>1. PICK e \in Sized : e = IF d.line # <<>> THEN consumeLine(d) ELSE d
  BY ConsumeLineType DEF Sized
<1>2. Mismatch(e)
  BY <1>1, ConsumeLineKeeps DEF Mismatch
<1>3. Finish(d) = consumeEvent(e)
  BY <1>1 DEF Finish
<1>. QED BY <1>2, <1>3, ConsumeEventType, ConsumeEventFields DEF Mismatch, Flags, Told

\* Finish keeps the type.
LEMMA FinishType == \A d \in Sized : Finish(d) \in Sized
<1>. SUFFICES ASSUME NEW d \in Sized PROVE Finish(d) \in Sized
  OBVIOUS
<1>1. PICK e \in Sized : e = IF d.line # <<>> THEN consumeLine(d) ELSE d
  BY ConsumeLineType DEF Sized
<1>2. Finish(d) = consumeEvent(e)
  BY <1>1 DEF Finish
<1>. QED BY <1>2, ConsumeEventType

\* A prefix of a text and the piece after it.
LEMMA CutText ==
    ASSUME NEW s \in Text, NEW i \in Nat, NEW n \in Nat, i + n <= Len(s)
    PROVE  /\ SubSeq(s, 1, i) \in Text /\ SubSeq(s, i + 1, i + n) \in Text
           /\ SubSeq(s, 1, i) \o SubSeq(s, i + 1, i + n) = SubSeq(s, 1, i + n)
<1>1. Len(s) \in Nat /\ \A k \in 1..Len(s) : s[k] \in Symbols
  BY DEF Text
<1>2. SubSeq(s, 1, i) \in Text
  <2>1. \A k \in 1..i : s[k] \in Symbols
    BY <1>1
  <2>. QED BY <2>1, SubSeqProperties DEF Text
<1>3. SubSeq(s, i + 1, i + n) \in Text
  <2>1. \A k \in i + 1..i + n : s[k] \in Symbols
    BY <1>1
  <2>. QED BY <2>1, SubSeqProperties DEF Text
<1>4. SubSeq(s, 1, i) \o SubSeq(s, i + 1, i + n) = SubSeq(s, 1, i + n)
  <2>1. 1 \in 1..Len(s) + 1 /\ i \in 1 - 1..Len(s) /\ i + n \in i..Len(s)
    BY <1>1
  <2>. QED BY <2>1, ConcatAdjacentSubSeq DEF Text
<1>. QED BY <1>2, <1>3, <1>4

\* What was delivered, before and after the request completed.
LEMMA DeliveredIs ==
    /\ ~finished => Delivered = SubSeq(stream, 1, sent) \o <<>>
    /\ finished => Delivered = SubSeq(stream, 1, sent) \o <<NL, NL>>
BY DEF Delivered

\* Joining nothing changes no text.
LEMMA AppendNothing == \A s \in Text : s \o <<>> = s
BY DEF Text

\* The invariant holds initially.
LEMMA InitIInv == Init => IInv
<1>. SUFFICES ASSUME Init PROVE IInv
  OBVIOUS
<1>1. stream \in Text /\ sent \in 0..Len(stream) /\ sent = 0
  BY CompletionAssumption DEF Init, CompletionAssumption, Text
<1>2. SubSeq(stream, 1, sent) = <<>>
  BY <1>1, SubSeqEmpty
<1>3. Delivered = <<>>
  BY <1>2, DeliveredIs, AppendNothing, EmptyText DEF Init
<1>4. c = Feed(NewCompletion, Delivered) /\ c \in Sized
  BY <1>3, NewIsSized, FeedEmpty DEF Init
<1>5. documents = <<>> /\ documents \in Seq(Text) /\ finished \in BOOLEAN
  <2>1. <<>> \in Seq(Text)
    BY EmptySeq
  <2>. QED BY <2>1 DEF Init
<1>6. EventsJudged
  BY <1>5 DEF EventsJudged
<1>. QED BY <1>1, <1>4, <1>5, <1>6 DEF IInv

\* Every step keeps the invariant: a chunk by FeedConcat, the end by FinishFeed.
LEMMA StepIInv == IInv /\ [Next]_vars => IInv'
<1>. SUFFICES ASSUME IInv, [Next]_vars PROVE IInv'
  OBVIOUS
<1>1. Len(stream) \in Nat /\ sent \in Nat /\ sent <= Len(stream)
  BY DEF IInv, Text
<1>2. stream \in Text /\ sent \in Nat /\ 0 \in Nat /\ sent + 0 <= Len(stream)
  BY <1>1 DEF IInv
<1>3. ASSUME NEW n \in 1..Len(stream), Chunk(n) PROVE IInv'
  <2>1. /\ ~finished /\ documents = <<>> /\ sent + n <= Len(stream)
        /\ c' = Feed(c, SubSeq(stream, sent + 1, sent + n)) /\ sent' = sent + n
        /\ stream' = stream /\ documents' = documents /\ finished' = finished
    BY <1>3 DEF Chunk
  <2>2. stream \in Text /\ sent \in Nat /\ n \in Nat /\ sent + n <= Len(stream)
    BY <1>1, <2>1 DEF IInv
  <2>3. PICK s \in Text : s = SubSeq(stream, 1, sent)
    <3>1. SubSeq(stream, 1, sent) \in Text
      BY <2>2, CutText
    <3>. QED BY <3>1
  <2>4. PICK p \in Text : p = SubSeq(stream, sent + 1, sent + n)
    <3>1. SubSeq(stream, sent + 1, sent + n) \in Text
      BY <2>2, CutText
    <3>. QED BY <3>1
  <2>5. s \o p = SubSeq(stream, 1, sent')
    BY <2>1, <2>3, <2>4, <2>2, CutText
  <2>6. s \o p \in Text
    BY DEF Text
  <2>7. c = Feed(NewCompletion, s)
    BY <2>1, <2>3, DeliveredIs, AppendNothing DEF IInv
  <2>8. Delivered' = s \o p
    BY <2>1, <2>5, <2>6, AppendNothing DEF Delivered
  <2>9. c' = Feed(NewCompletion, s \o p)
    BY <2>1, <2>4, <2>7, NewIsSized, FeedConcat
  <2>10. c' \in Sized
    BY <2>6, <2>9, NewIsSized, FeedType
  <2>11. sent' \in 0..Len(stream')
    BY <1>1, <2>1
  <2>12. EventsJudged'
    BY <2>1 DEF EventsJudged
  <2>. QED BY <2>1, <2>8, <2>9, <2>10, <2>11, <2>12 DEF IInv
<1>4. ASSUME NEW raw \in Documents, Document(raw) PROVE IInv'
  <2>1. /\ c' = JSON(c, raw) /\ documents' = Append(documents, raw)
        /\ stream' = stream /\ sent' = sent /\ finished' = finished
    BY <1>4 DEF Document
  <2>2. raw \in Text
    BY CompletionAssumption DEF CompletionAssumption, Text
  <2>3. /\ documents' \in Seq(Text) /\ documents' # <<>>
        /\ Len(documents') = Len(documents) + 1 /\ Len(documents) \in Nat
        /\ documents'[Len(documents) + 1] = raw
        /\ \A i \in 1..Len(documents) : documents'[i] = documents[i]
    <3>1. documents \in Seq(Text)
      BY DEF IInv
    <3>. HIDE DEF Text
    <3>. QED BY <2>1, <2>2, <3>1, AppendProperties
  <2>4. c' \in Sized
    BY <2>1, JSONType DEF IInv
  <2>5. Mismatch(c) => Mismatch(c')
    BY <2>1 DEF Mismatch, JSON, IInv, Sized, Observer
  <2>6. Len(raw) <= MaxEventBytes /\ Says(raw) = "bad" => Mismatch(c')
    <3>. SUFFICES ASSUME Len(raw) <= MaxEventBytes, Says(raw) = "bad" PROVE Mismatch(c')
      OBVIOUS
    <3>1. ~(Len(raw) > MaxEventBytes)
      BY <2>2, LimitIsNat DEF Text
    <3>. QED BY <2>1, <3>1, JSONFields DEF Mismatch, IInv
  <2>7. EventsJudged'
    <3>. SUFFICES ASSUME NEW i \in DOMAIN documents', Len(documents'[i]) <= MaxEventBytes,
                         Says(documents'[i]) = "bad"
                  PROVE  Mismatch(c')
      BY DEF EventsJudged
    <3>1. i = Len(documents) + 1 \/ i \in 1..Len(documents)
      BY <2>3
    <3>2. DOMAIN documents = 1..Len(documents)
      BY DEF IInv
    <3>. QED BY <2>3, <2>5, <2>6, <3>1, <3>2 DEF IInv, EventsJudged
  <2>. QED BY <2>1, <2>3, <2>4, <2>7 DEF IInv
<1>5. ASSUME Complete PROVE IInv'
  <2>1. /\ ~finished /\ c' = Finish(c) /\ finished' = TRUE
        /\ stream' = stream /\ sent' = sent /\ documents' = documents
    BY <1>5 DEF Complete
  <2>2. c' \in Sized
    BY <2>1, FinishType DEF IInv
  <2>3. PICK s \in Text : s = SubSeq(stream, 1, sent)
    <3>1. SubSeq(stream, 1, sent) \in Text
      BY <1>2, CutText
    <3>. QED BY <3>1
  <2>4. Delivered' = s \o <<NL, NL>>
    BY <2>1, <2>3 DEF Delivered
  <2>5. documents = <<>> => c = Feed(NewCompletion, s)
    BY <2>1, <2>3, DeliveredIs, AppendNothing DEF IInv
  <2>6. documents' = <<>> => c' = Feed(NewCompletion, Delivered')
    BY <2>1, <2>4, <2>5, FinishFeed
  <2>7. EventsJudged'
    BY <2>1, FinishKeeps DEF EventsJudged, IInv
  <2>. QED BY <2>1, <2>2, <2>6, <2>7 DEF IInv
<1>6. ASSUME UNCHANGED vars PROVE IInv'
  BY <1>6 DEF vars, IInv, Delivered, EventsJudged, Mismatch
<1>. QED BY <1>3, <1>4, <1>5, <1>6 DEF Next

\* The invariant holds in every reachable state.
LEMMA Invariance == Spec => []IInv
BY InitIInv, StepIInv, PTL DEF Spec

\* What was delivered is a text.
LEMMA DeliveredType == IInv => Delivered \in Text
<1>. SUFFICES ASSUME IInv PROVE Delivered \in Text
  OBVIOUS
<1>1. sent \in Nat /\ sent + 0 <= Len(stream) /\ stream \in Text
  BY DEF IInv, Text
<1>2. PICK s \in Text : s = SubSeq(stream, 1, sent)
  BY <1>1, CutText
<1>3. <<NL, NL>> \in Text
  BY DEF Text, Symbols
<1>. QED BY <1>2, <1>3, EmptyText DEF Delivered, Text

\* Every variable keeps its type, and neither the line nor the event grows beyond the
\* limit (completion.go, Completion, Feed and consumeLine).
THEOREM TypeCorrect == Spec => []TypeOK
<1>1. IInv => TypeOK
  BY DEF IInv, TypeOK, Sized, Observer, Text
<1>. QED BY <1>1, Invariance, PTL

\* Of documents delivered one by one, an unreadable one hides no other that tells of
\* a foreign model (completion.go, JSON; interceptor.go, ObserveWebSocketResponseEvent).
THEOREM EventsJudgedHolds == Spec => []EventsJudged
<1>1. IInv => EventsJudged
  BY DEF IInv
<1>. QED BY <1>1, Invariance, PTL

\* For every body, every cut of it into chunks and every limit, the verdict after a
\* chunk is that of the lines that were delivered (completion.go, Feed and consumeLine).
THEOREM VerdictOfWholeHolds == Spec => []VerdictOfWhole
<1>1. IInv => VerdictOfWhole
  <2>. SUFFICES ASSUME IInv, documents = <<>>
                PROVE  /\ Mismatch(c) <=> "bad" \in Said(Observed)
                       /\ Success(c) <=> /\ "ok" \in Said(Observed)
                                         /\ "bad" \notin Said(Observed)
                                         /\ ~Broken(Observed)
    BY DEF VerdictOfWhole
  <2>1. Agrees(c, Observed)
    BY DeliveredType, FeedAgrees DEF IInv, Observed
  <2>. QED BY <2>1 DEF Agrees, Mismatch, Success
<1>. QED BY <1>1, Invariance, PTL

\* For every body, the verdict on a probe's body that is read whole is the one its
\* delivery in chunks gives (completion.go, EvaluateProbeBody and SuccessfulProbe).
THEOREM ProbeAgreesHolds == Spec => []ProbeAgrees
<1>1. IInv => ProbeAgrees
  <2>. SUFFICES ASSUME IInv, finished, sent = Len(stream), documents = <<>>,
                       ~StartsJSON(stream)
                PROVE  SuccessfulProbe(stream)
                         <=> Success(c) /\ Len(stream) <= MaxProbeBytes
    BY DEF ProbeAgrees
  <2>1. stream \in Text
    BY DEF IInv
  <2>2. SubSeq(stream, 1, sent) = stream
    BY <2>1, SubSeqFull DEF Text
  <2>3. c = Finish(Feed(NewCompletion, stream))
    BY <2>1, <2>2, DeliveredIs, FinishFeed DEF IInv
  <2>. QED BY <2>3 DEF SuccessfulProbe, EvaluateProbeBody
<1>. QED BY <1>1, Invariance, PTL
=============================================================================
