---------------------------- MODULE ClientProofs ----------------------------
(***************************************************************************)
(* Proofs about the probe client, for any accounts, indices, callers and   *)
(* contents.  One invariant describes what a goroutine in the middle of a  *)
(* resolution holds: whose credentials (Own), and what the host had since  *)
(* the resolution began (Seen).                                            *)
(***************************************************************************)
EXTENDS ProbeClient, TLAPS

Probing == {"send", "sent", "accepted"}

\* What an operation holds at each place.
Placed(o) ==
    /\ o.pc \in Resolution => o.auth \in AuthIDs
    /\ o.pc \in {"runtime", "file"} => o.index \in Indices
    /\ o.pc = "config" => o.owner \in AuthIDs /\ o.file \in Files
    /\ o.pc = "idle" => o.kind = "describe"
    /\ o.pc \in {"guard", "listAll", "storeAll"} => o.kind = "discover"
    /\ o.pc \in Probing => o.kind = "probe"
    /\ o.kind = "probe" => o.expected # NoScope
    /\ o.kind = "discover" => o.expected = NoScope
    /\ o.answered => o.kind = "probe"
    /\ o.expected # NoScope => o.expected.auth = o.auth

\* The index was the account's when the runtime callback returned: whoever has it
\* when the credentials are read got it in between.
Own(o) ==
    /\ o.pc = "file" => owner[o.index] = o.auth \/ o.moved
    /\ o.pc = "config" \/ o.pc \in Probing => o.owner = o.auth \/ o.moved

\* The parts of the expected identity are among what the host had.
Justified(o) ==
    \E u, v \in o.actual : ScopeOf(o.auth, u[1][o.owner], v[2]) = o.expected

\* The history of a probe under way ends with what the host has now, and what was read
\* is part of it.
Seen(o) ==
    o.kind = "probe" =>
        /\ o.pc \in Resolution => Now \in o.actual
        /\ o.pc = "config" => \E u \in o.actual : u[1][o.owner] = o.file
        /\ o.pc \in {"send", "accepted"} => Justified(o)

Sound(o) == o \in Operation /\ Placed(o) /\ Own(o) /\ Seen(o)

HostOK ==
    /\ indices \in Directory
    /\ owner \in [Indices -> AuthIDs \cup {Nobody}]
    /\ enabled \subseteq AuthIDs
    /\ content \in [AuthIDs -> Files] /\ config \in Configs
    /\ changes \in 0..MaxChanges

Inv ==
    /\ HostOK
    /\ op \in [Goroutines -> Operation]
    /\ \A w \in Goroutines : Sound(op[w])

-----------------------------------------------------------------------------
(* One goroutine's step *)

LEMMA Basics ==
    /\ NoAuth \notin AuthIDs /\ NoIndex \notin Indices /\ Nobody \notin AuthIDs
    /\ NoScope \notin Scope /\ NoListing \in Directory
<1>1. NoAuth \notin AuthIDs /\ NoIndex \notin Indices /\ Nobody \notin AuthIDs
  BY ClientAssumption DEF NoAuth, Nobody
<1>2. NoScope \notin Scope
  BY <1>1 DEF NoScope, Scope
<1>3. NoListing \in Directory
  BY DEF NoListing, Directory
<1>. QED BY <1>1, <1>2, <1>3

\* Whatever is read of the host makes a scope.
LEMMA ScopeTyped ==
    ASSUME NEW a \in AuthIDs, NEW file \in Files, NEW cfg \in Configs
    PROVE  ScopeOf(a, file, cfg) \in Scope /\ ScopeOf(a, file, cfg).auth = a
<1>1. /\ file.workspace \in Workspaces /\ file.route \in Routes \cup {Unset}
      /\ file.agent \in Agents \cup {Unset}
  BY ClientAssumption
<1>2. cfg.route \in Routes \cup {Unset} /\ cfg.agent \in Agents \cup {Unset}
  BY ClientAssumption
<1>3. RouteOf(file, cfg) \in Routes
  BY <1>1, <1>2, ClientAssumption DEF RouteOf
<1>4. AgentOf(file, cfg) \in Agents
  BY <1>1, <1>2, ClientAssumption DEF AgentOf
<1>. QED BY <1>1, <1>3, <1>4 DEF ScopeOf, Scope

\* A goroutine with nothing to do believes nothing.
LEMMA IdleSound == Sound(Idle)
<1>1. Idle \in Operation
  BY Basics DEF Idle, Operation, PCs
<1>2. Idle.pc = "idle" /\ Idle.kind = "describe" /\ Idle.expected = NoScope /\ ~Idle.answered
  BY DEF Idle
<1>. QED BY <1>1, <1>2 DEF Sound, Placed, Resolution, Probing, Own, Seen

\* A resolution starts from what the operation knew already.
LEMMA ResolvingSound ==
    ASSUME NEW o \in Operation, NEW a \in AuthIDs,
           o.expected # NoScope => o.auth = a /\ o.expected.auth = a,
           o.kind = "probe" => o.expected # NoScope /\ Now \in o.actual,
           o.kind = "discover" => o.expected = NoScope,
           o.answered => o.kind = "probe"
    PROVE  Sound(Resolving(o, a))
<1>. DEFINE r == Resolving(o, a)
<1>1. r \in Operation
  BY Basics DEF Resolving, Operation, PCs
<1>2. /\ r.pc = "cached" /\ r.auth = a /\ r.kind = o.kind /\ r.expected = o.expected
      /\ r.answered = o.answered /\ r.actual = o.actual
  BY DEF Resolving, Operation
<1>. HIDE DEF r
<1>3. Placed(r) /\ Own(r) /\ Seen(r)
  BY <1>2 DEF Placed, Own, Seen, Resolution, Probing
<1>. QED BY <1>1, <1>3 DEF r, Sound

\* A discovery that goes on believes nothing either.
LEMMA NextSound ==
    ASSUME NEW o, Sound(o), o.kind = "discover", NEW x \in NextAccounts(o)
    PROVE  Sound(x)
<1>1. CASE o.todo = {}
  BY <1>1, IdleSound DEF NextAccounts
<1>2. CASE o.todo # {}
  <2>1. PICK a \in o.todo : x = Resolving([o EXCEPT !.todo = @ \ {a}], a)
    BY <1>2 DEF NextAccounts
  <2>. DEFINE p == [o EXCEPT !.todo = @ \ {a}]
  <2>2. o \in Operation /\ a \in AuthIDs
    BY DEF Sound, Operation
  <2>3. p \in Operation /\ p.expected = o.expected /\ p.kind = o.kind /\ p.answered = o.answered
    BY <2>2 DEF Operation
  <2>4. o.expected = NoScope /\ ~o.answered
    BY DEF Sound, Placed
  <2>5. x = Resolving(p, a)
    BY <2>1
  <2>. HIDE DEF p
  <2>. QED BY <2>2, <2>3, <2>4, <2>5, ResolvingSound
<1>. QED BY <1>1, <1>2

\* A failure leaves nothing behind that could be wrong.
LEMMA FailSound ==
    ASSUME Inv, NEW w \in Goroutines, Fail(w)
    PROVE  \E x : Becomes(w, x) /\ Sound(x)
<1>1. Sound(op[w])
  BY DEF Inv
<1>. QED BY <1>1, IdleSound, NextSound DEF Fail

\* While the host rests the operations of the others stay sound.
LEMMA OneMoves ==
    ASSUME Inv, NEW w \in Goroutines, indices' \in Directory, UNCHANGED hostVars,
           \E x : Becomes(w, x) /\ Sound(x)
    PROVE  Inv'
<1>1. PICK x : Becomes(w, x) /\ Sound(x)
  OBVIOUS
<1>2. op' = [op EXCEPT ![w] = x] /\ x \in Operation /\ op \in [Goroutines -> Operation]
  BY <1>1 DEF Becomes, Sound, Inv
<1>3. /\ owner' = owner /\ enabled' = enabled /\ content' = content /\ config' = config
      /\ changes' = changes /\ Now' = Now
  BY DEF hostVars, Now
<1>4. HostOK'
  BY <1>3 DEF Inv, HostOK
<1>5. ASSUME NEW v \in Goroutines PROVE Sound(op[v])'
  <2>1. op'[v] = x \/ op'[v] = op[v]
    BY <1>2
  <2>2. Sound(op'[v])
    BY <1>1, <2>1 DEF Inv
  <2>. QED BY <1>3, <2>2 DEF Sound, Placed, Own, Seen, Justified
<1>. QED BY <1>2, <1>4, <1>5 DEF Inv

\* A step that reads the host's directory, or the cache, or starts or ends
\* something, keeps what the operation knows.
LEMMA MoveOn ==
    ASSUME NEW o, Sound(o), NEW pc \in PCs \ (Probing \cup {"file", "config", "idle"}),
           NEW i \in Indices \cup {NoIndex}, NEW listing \in Directory,
           o.pc \in Resolution <=> pc \in Resolution, pc = "runtime" => i # NoIndex,
           pc \in {"guard", "listAll", "storeAll"} => o.kind = "discover"
    PROVE  Sound([o EXCEPT !.pc = pc, !.index = i, !.listing = listing])
<1>. DEFINE r == [o EXCEPT !.pc = pc, !.index = i, !.listing = listing]
<1>1. o \in Operation
  BY DEF Sound
<1>2. r \in Operation
  BY <1>1 DEF Operation
<1>3. /\ r.pc = pc /\ r.index = i /\ r.auth = o.auth /\ r.kind = o.kind /\ r.expected = o.expected
      /\ r.answered = o.answered /\ r.actual = o.actual
  BY <1>1 DEF Operation
<1>. HIDE DEF r
<1>4. Placed(r)
  BY <1>3 DEF Sound, Placed, PCs, Probing, Resolution
<1>5. Own(r) /\ Seen(r)
  BY <1>3 DEF Sound, Own, Seen, Probing
<1>. QED BY <1>2, <1>4, <1>5 DEF r, Sound

\* The steps of a resolution before it reads anything of the account.
LEMMA SearchSound ==
    ASSUME Inv, NEW w \in Goroutines,
           Cached(w) \/ List(w) \/ Store(w) \/ Lookup(w) \/ Guard(w)
    PROVE  Inv'
<1>. DEFINE o == op[w]
<1>1. Sound(o) /\ o \in Operation /\ indices \in Directory
  BY DEF Inv, HostOK, Sound
<1>2. /\ o.index \in Indices \cup {NoIndex} /\ o.listing \in Directory
      /\ o = [o EXCEPT !.pc = o.pc, !.index = o.index, !.listing = o.listing]
  BY <1>1 DEF Operation
<1>3. UNCHANGED hostVars
  BY DEF Cached, List, Store, Lookup, Guard
<1>4. \A a \in AuthIDs : indices[a] \in Indices \cup {NoIndex}
  BY <1>1 DEF Directory
<1>5. CASE Cached(w)
  <2>1. indices' \in Directory /\ o.pc = "cached" /\ o.auth \in AuthIDs
    BY <1>1, <1>5 DEF Cached, Sound, Placed, Resolution
  <2>2. CASE indices[o.auth] # NoIndex
    <3>1. Becomes(w, [o EXCEPT !.pc = "runtime", !.index = indices[o.auth]])
      BY <1>5, <2>2 DEF Cached
    <3>2. Becomes(w, [o EXCEPT !.pc = "runtime", !.index = indices[o.auth], !.listing = o.listing])
      BY <1>1, <3>1 DEF Operation
    <3>3. Sound([o EXCEPT !.pc = "runtime", !.index = indices[o.auth], !.listing = o.listing])
      BY <1>1, <1>2, <1>4, <2>1, <2>2, MoveOn DEF PCs, Probing, Resolution
    <3>. QED BY <1>3, <2>1, <3>2, <3>3, OneMoves
  <2>3. CASE indices[o.auth] = NoIndex
    <3>1. Becomes(w, [o EXCEPT !.pc = "list"])
      BY <1>5, <2>3 DEF Cached, Goto
    <3>2. Becomes(w, [o EXCEPT !.pc = "list", !.index = o.index, !.listing = o.listing])
      BY <1>1, <3>1 DEF Operation
    <3>3. Sound([o EXCEPT !.pc = "list", !.index = o.index, !.listing = o.listing])
      BY <1>1, <1>2, <2>1, MoveOn DEF PCs, Probing, Resolution
    <3>. QED BY <1>3, <2>1, <3>2, <3>3, OneMoves
  <2>. QED BY <2>2, <2>3
<1>6. CASE List(w)
  <2>. DEFINE listing == [a \in AuthIDs |-> IndexOf(a)]
              pc == IF o.pc = "list" THEN "store" ELSE "storeAll"
  <2>1. listing \in Directory
    <3>1. \A a \in AuthIDs : IndexOf(a) \in Indices \cup {NoIndex}
      BY DEF IndexOf
    <3>. QED BY <3>1 DEF Directory
  <2>2. o.pc \in {"list", "listAll"} /\ indices' = indices
        /\ Becomes(w, [o EXCEPT !.pc = pc, !.listing = listing])
    BY <1>6 DEF List
  <2>. HIDE DEF listing
  <2>3. Becomes(w, [o EXCEPT !.pc = pc, !.index = o.index, !.listing = listing])
    BY <1>1, <2>2 DEF Operation
  <2>4. o.pc = "listAll" => o.kind = "discover"
    BY <1>1 DEF Sound, Placed
  <2>5. pc = "store" \/ (pc = "storeAll" /\ o.pc = "listAll")
    BY <2>2
  <2>6. Sound([o EXCEPT !.pc = pc, !.index = o.index, !.listing = listing])
    BY <1>1, <1>2, <2>1, <2>2, <2>4, <2>5, MoveOn DEF PCs, Probing, Resolution
  <2>. QED BY <1>1, <1>3, <2>2, <2>3, <2>6, OneMoves
<1>7. CASE Store(w)
  <2>1. o.pc = "store" /\ indices' = o.listing
        /\ Becomes(w, [o EXCEPT !.pc = "lookup", !.listing = NoListing])
    BY <1>7 DEF Store
  <2>2. Becomes(w, [o EXCEPT !.pc = "lookup", !.index = o.index, !.listing = NoListing])
    BY <1>1, <2>1 DEF Operation
  <2>3. Sound([o EXCEPT !.pc = "lookup", !.index = o.index, !.listing = NoListing])
    BY <1>1, <1>2, <2>1, Basics, MoveOn DEF PCs, Probing, Resolution
  <2>. QED BY <1>2, <1>3, <2>1, <2>2, <2>3, OneMoves
<1>8. CASE Lookup(w)
  <2>1. indices' \in Directory /\ o.pc = "lookup" /\ o.auth \in AuthIDs
    BY <1>1, <1>8 DEF Lookup, Sound, Placed, Resolution
  <2>2. CASE indices[o.auth] # NoIndex
    <3>1. Becomes(w, [o EXCEPT !.pc = "runtime", !.index = indices[o.auth]])
      BY <1>8, <2>2 DEF Lookup
    <3>2. Becomes(w, [o EXCEPT !.pc = "runtime", !.index = indices[o.auth], !.listing = o.listing])
      BY <1>1, <3>1 DEF Operation
    <3>3. Sound([o EXCEPT !.pc = "runtime", !.index = indices[o.auth], !.listing = o.listing])
      BY <1>1, <1>2, <1>4, <2>1, <2>2, MoveOn DEF PCs, Probing, Resolution
    <3>. QED BY <1>3, <2>1, <3>2, <3>3, OneMoves
  <2>3. CASE indices[o.auth] = NoIndex
    BY <1>3, <1>8, <2>1, <2>3, FailSound, OneMoves DEF Lookup
  <2>. QED BY <2>2, <2>3
<1>9. CASE Guard(w)
  <2>1. o.pc = "guard" /\ indices' = indices /\ Becomes(w, [o EXCEPT !.pc = "listAll"])
    BY <1>9 DEF Guard, Goto
  <2>2. Becomes(w, [o EXCEPT !.pc = "listAll", !.index = o.index, !.listing = o.listing])
    BY <1>1, <2>1 DEF Operation
  <2>3. Sound([o EXCEPT !.pc = "listAll", !.index = o.index, !.listing = o.listing])
    <3>1. o.kind = "discover"
      BY <1>1, <2>1 DEF Sound, Placed
    <3>. QED BY <1>1, <1>2, <2>1, <3>1, MoveOn DEF PCs, Probing, Resolution
  <2>. QED BY <1>1, <1>3, <2>1, <2>2, <2>3, OneMoves
<1>. QED BY <1>5, <1>6, <1>7, <1>8, <1>9

\* The runtime callback finds the account's index with the account.
LEMMA RuntimeSound == ASSUME Inv, NEW w \in Goroutines, Runtime(w) PROVE Inv'
<1>. DEFINE o == op[w]
            r == [o EXCEPT !.pc = "file"]
<1>1. Sound(o) /\ o \in Operation /\ HostOK
  BY DEF Inv, Sound
<1>2. o.pc = "runtime" /\ indices' = indices /\ UNCHANGED hostVars
  BY DEF Runtime
<1>3. CASE Fail(w)
  BY <1>1, <1>2, <1>3, FailSound, OneMoves DEF HostOK
<1>4. CASE owner[o.index] = o.auth /\ Becomes(w, r)
  <2>1. r \in Operation
    BY <1>1 DEF Operation, PCs
  <2>2. /\ r.pc = "file" /\ r.index = o.index /\ r.auth = o.auth /\ r.kind = o.kind
        /\ r.expected = o.expected /\ r.answered = o.answered /\ r.actual = o.actual
    BY <1>1 DEF Operation
  <2>. HIDE DEF r
  <2>3. Placed(r)
    BY <1>1, <1>2, <2>2 DEF Sound, Placed, Resolution, Probing
  <2>4. Own(r)
    BY <1>4, <2>2 DEF Own, Probing
  <2>5. Seen(r)
    BY <1>1, <1>2, <2>2 DEF Sound, Seen, Resolution
  <2>6. Sound(r)
    BY <2>1, <2>3, <2>4, <2>5 DEF Sound
  <2>. QED BY <1>1, <1>2, <1>4, <2>6, OneMoves DEF HostOK
<1>. QED BY <1>3, <1>4 DEF Runtime, RuntimeFits, Goto

\* The credentials are the account's unless the index moved, and what is read of the
\* file is what the host has at this moment.
LEMMA FileSound == ASSUME Inv, NEW w \in Goroutines, File(w) PROVE Inv'
<1>. DEFINE o == op[w]
            a == owner[o.index]
            r == [o EXCEPT !.pc = "config", !.owner = a, !.file = content[a]]
<1>1. Sound(o) /\ o \in Operation /\ HostOK
  BY DEF Inv, Sound
<1>2. o.pc = "file" /\ indices' = indices /\ UNCHANGED hostVars
  BY DEF File
<1>3. CASE Fail(w)
  BY <1>1, <1>2, <1>3, FailSound, OneMoves DEF HostOK
<1>4. CASE a # Nobody /\ Becomes(w, r)
  <2>1. o.auth \in AuthIDs /\ o.index \in Indices
    BY <1>1, <1>2 DEF Sound, Placed, Resolution
  <2>2. a \in AuthIDs /\ content[a] \in Files
    BY <1>1, <1>4, <2>1 DEF HostOK
  <2>3. r \in Operation
    BY <1>1, <2>2 DEF Operation, PCs
  <2>4. /\ r.pc = "config" /\ r.owner = a /\ r.file = content[a] /\ r.auth = o.auth
        /\ r.kind = o.kind /\ r.expected = o.expected /\ r.answered = o.answered
        /\ r.actual = o.actual /\ r.moved = o.moved
    BY <1>1 DEF Operation
  <2>. HIDE DEF r
  <2>5. Placed(r)
    BY <1>1, <1>2, <2>1, <2>2, <2>4 DEF Sound, Placed, Resolution, Probing
  <2>6. Own(r)
    BY <1>1, <1>2, <2>4 DEF Sound, Own, Probing
  <2>7. Seen(r)
    <3>1. o.kind = "probe" => Now \in o.actual
      BY <1>1, <1>2 DEF Sound, Seen, Resolution
    <3>2. Now[1] = content
      BY DEF Now
    <3>. QED BY <2>4, <3>1, <3>2 DEF Seen
  <2>8. Sound(r)
    BY <2>3, <2>5, <2>6, <2>7 DEF Sound
  <2>. QED BY <1>1, <1>2, <1>4, <2>8, OneMoves DEF HostOK
<1>. QED BY <1>3, <1>4 DEF File

\* A resolution's end: a probe that goes on expected what was read of a saved identity
\* a while ago and of the configuration just now.
LEMMA ResolveSound == ASSUME Inv, NEW w \in Goroutines, Resolve(w) PROVE Inv'
<1>. DEFINE o == op[w]
<1>1. Sound(o) /\ o \in Operation /\ HostOK
  BY DEF Inv, Sound
<1>2. o.pc = "config" /\ indices' = indices /\ UNCHANGED hostVars
  BY DEF Resolve
<1>3. o.auth \in AuthIDs /\ o.owner \in AuthIDs /\ o.file \in Files /\ config \in Configs
  BY <1>1, <1>2 DEF Sound, Placed, Resolution, HostOK
<1>4. Resolved(w) \in Scope /\ Resolved(w).auth = o.auth
  BY <1>3, ScopeTyped DEF Resolved
<1>5. CASE /\ o.kind = "describe"
           /\ Becomes(w, [Idle EXCEPT !.auth = o.auth, !.expected = Resolved(w)])
  <2>. DEFINE r == [Idle EXCEPT !.auth = o.auth, !.expected = Resolved(w)]
  <2>1. r \in Operation
    BY <1>3, <1>4, IdleSound DEF Sound, Operation
  <2>2. /\ r.pc = "idle" /\ r.kind = "describe" /\ r.auth = o.auth /\ r.expected = Resolved(w)
        /\ ~r.answered /\ Becomes(w, r)
    BY <1>5 DEF Idle
  <2>. HIDE DEF r
  <2>3. Placed(r) /\ Own(r) /\ Seen(r)
    BY <1>4, <2>2 DEF Placed, Resolution, Probing, Own, Seen
  <2>4. Sound(r)
    BY <2>1, <2>3 DEF Sound
  <2>. QED BY <1>1, <1>2, <2>2, <2>4, OneMoves DEF HostOK
<1>6. CASE /\ o.kind = "probe" /\ Resolved(w) = o.expected
           /\ Becomes(w, [o EXCEPT !.pc = IF o.answered THEN "accepted" ELSE "send"])
  <2>. DEFINE r == [o EXCEPT !.pc = IF o.answered THEN "accepted" ELSE "send"]
  <2>1. r \in Operation
    BY <1>1 DEF Operation, PCs
  <2>2. /\ r.pc \in {"accepted", "send"} /\ r.auth = o.auth /\ r.kind = "probe"
        /\ r.expected = o.expected /\ r.answered = o.answered /\ r.actual = o.actual
        /\ r.owner = o.owner /\ r.moved = o.moved /\ Becomes(w, r)
    BY <1>1, <1>6 DEF Operation
  <2>. HIDE DEF r
  <2>3. Placed(r)
    BY <1>1, <1>6, <2>2 DEF Sound, Placed, Resolution, Probing
  <2>4. Own(r)
    BY <1>1, <1>2, <2>2 DEF Sound, Own, Probing
  <2>5. Justified(r)
    <3>1. PICK u \in o.actual : u[1][o.owner] = o.file
      BY <1>1, <1>2, <1>6 DEF Sound, Seen
    <3>2. Now \in o.actual /\ Now[2] = config
      BY <1>1, <1>2, <1>6 DEF Sound, Seen, Resolution, Now
    <3>3. ScopeOf(o.auth, u[1][o.owner], Now[2]) = o.expected
      BY <1>6, <3>1, <3>2 DEF Resolved
    <3>. QED BY <2>2, <3>1, <3>2, <3>3 DEF Justified
  <2>6. Seen(r)
    BY <2>2, <2>5 DEF Seen, Resolution
  <2>7. Sound(r)
    BY <2>1, <2>3, <2>4, <2>6 DEF Sound
  <2>. QED BY <1>1, <1>2, <2>2, <2>7, OneMoves DEF HostOK
<1>7. CASE Fail(w)
  BY <1>1, <1>2, <1>7, FailSound, OneMoves DEF HostOK
<1>8. CASE o.kind = "discover" /\ \E x \in NextAccounts(o) : Becomes(w, x)
  BY <1>1, <1>2, <1>8, NextSound, OneMoves DEF HostOK
<1>. QED BY <1>5, <1>6, <1>7, <1>8 DEF Resolve, Expected, Goto

\* What the host has now can start a history.
LEMMA NowTyped == ASSUME HostOK PROVE {Now} \in SUBSET ([AuthIDs -> Files] \X Configs)
BY DEF HostOK, Now

\* Sending a probe ends a history, its answer begins the next.
LEMMA ProbeSound ==
    ASSUME Inv, NEW w \in Goroutines, Send(w) \/ Receive(w) \/ Accept(w)
    PROVE  Inv'
<1>. DEFINE o == op[w]
<1>1. Sound(o) /\ o \in Operation /\ HostOK
  BY DEF Inv, Sound
<1>2. indices' = indices /\ UNCHANGED hostVars
  BY DEF Send, Receive, Accept
<1>3. o.pc \in Probing => o.kind = "probe" /\ o.expected # NoScope /\ o.expected.auth = o.auth
                          /\ o.auth \in AuthIDs
  <2>1. o.pc \in Probing => o.kind = "probe" /\ o.expected # NoScope /\ o.expected.auth = o.auth
    BY <1>1 DEF Sound, Placed
  <2>2. o.expected \in Scope \cup {NoScope}
    BY <1>1 DEF Operation
  <2>. QED BY <2>1, <2>2 DEF Scope
<1>4. CASE Send(w)
  <2>. DEFINE r == [o EXCEPT !.pc = "sent", !.actual = {}]
  <2>1. o.pc = "send" /\ Becomes(w, r)
    BY <1>4 DEF Send
  <2>2. r \in Operation
    BY <1>1 DEF Operation, PCs
  <2>3. /\ r.pc = "sent" /\ r.auth = o.auth /\ r.kind = o.kind /\ r.owner = o.owner
        /\ r.expected = o.expected /\ r.answered = o.answered /\ r.moved = o.moved
    BY <1>1 DEF Operation
  <2>. HIDE DEF r
  <2>4. Placed(r) /\ Own(r) /\ Seen(r)
    BY <1>1, <2>1, <2>3 DEF Sound, Placed, Own, Seen, Resolution, Probing
  <2>5. Sound(r)
    BY <2>2, <2>4 DEF Sound
  <2>. QED BY <1>1, <1>2, <2>1, <2>5, OneMoves DEF HostOK
<1>5. CASE Receive(w)
  <2>. DEFINE p == [o EXCEPT !.answered = TRUE, !.actual = {Now}]
  <2>1. o.pc = "sent" /\ Becomes(w, Resolving(p, o.auth)) /\ o.auth \in AuthIDs
    BY <1>3, <1>5 DEF Receive, Probing
  <2>2. /\ p \in Operation /\ p.auth = o.auth /\ p.kind = o.kind /\ p.expected = o.expected
        /\ p.actual = {Now}
    BY <1>1, NowTyped DEF Operation
  <2>3. o.kind = "probe" /\ o.expected # NoScope /\ o.expected.auth = o.auth
    BY <1>3, <2>1 DEF Probing
  <2>. HIDE DEF p
  <2>4. Sound(Resolving(p, o.auth))
    BY <2>1, <2>2, <2>3, ResolvingSound
  <2>. QED BY <1>1, <1>2, <2>1, <2>4, OneMoves DEF HostOK
<1>6. CASE Accept(w)
  BY <1>1, <1>2, <1>6, IdleSound, OneMoves DEF Accept, HostOK
<1>. QED BY <1>4, <1>5, <1>6

\* Whatever a goroutine does next, the invariant stays.
LEMMA StepSound ==
    ASSUME Inv, NEW w \in Goroutines, Step(w) \/ CallFails(w) \/ DiscoveryFails(w)
    PROVE  Inv'
<1>1. HostOK /\ Sound(op[w])
  BY DEF Inv
<1>2. CASE StoreAll(w)
  <2>1. op[w].listing \in Directory /\ op[w].kind = "discover" /\ op[w].pc = "storeAll"
    BY <1>1, <1>2 DEF StoreAll, Sound, Placed, Operation
  <2>2. PICK listed \in SUBSET AuthIDs :
           \E x \in NextAccounts([op[w] EXCEPT !.todo = listed, !.listing = NoListing]) :
              Becomes(w, x)
    BY <1>2 DEF StoreAll
  <2>. DEFINE p == [op[w] EXCEPT !.todo = listed, !.listing = NoListing]
  <2>3. /\ p \in Operation /\ p.pc = "storeAll" /\ p.kind = "discover"
        /\ p.expected = op[w].expected /\ p.answered = op[w].answered
    BY <1>1, <2>1, Basics DEF Sound, Operation
  <2>4. op[w].expected = NoScope /\ ~op[w].answered
    BY <1>1, <2>1 DEF Sound, Placed
  <2>5. Sound(p)
    <3>. HIDE DEF p
    <3>. QED BY <2>3, <2>4
             DEF Sound, Placed, Resolution, Probing, Own, Seen
  <2>6. \E x : Becomes(w, x) /\ Sound(x)
    BY <2>2, <2>3, <2>5, NextSound
  <2>. QED BY <1>2, <2>1, <2>6, OneMoves DEF StoreAll, ReplacedIndices
<1>3. CASE CallFails(w)
  BY <1>1, <1>3, FailSound, OneMoves DEF CallFails, HostOK
<1>4. CASE DiscoveryFails(w)
  BY <1>1, <1>4, IdleSound, OneMoves DEF DiscoveryFails, HostOK
<1>. QED BY <1>2, <1>3, <1>4, SearchSound, RuntimeSound, FileSound, ResolveSound, ProbeSound
         DEF Step

\* A caller starts, with nothing or with the description it has.
LEMMA StartSound ==
    ASSUME Inv, Discover \/ \E w \in Callers : Probe(w) \/ \E a \in AuthIDs : Describe(w, a)
    PROVE  Inv'
<1>1. HostOK /\ Callers \subseteq Goroutines /\ Scheduler \in Goroutines
  BY DEF Inv, Goroutines
<1>2. CASE Discover
  <2>. DEFINE r == [Idle EXCEPT !.pc = "guard", !.kind = "discover"]
  <2>1. /\ r \in Operation /\ r.pc = "guard" /\ r.kind = "discover"
        /\ r.expected = NoScope /\ ~r.answered
    BY IdleSound DEF Sound, Operation, PCs, Idle
  <2>2. Sound(r)
    <3>. HIDE DEF r
    <3>. QED BY <2>1 DEF Sound, Placed, Resolution, Probing, Own, Seen
  <2>3. Becomes(Scheduler, r) /\ indices' = indices /\ UNCHANGED hostVars
    BY <1>2 DEF Discover
  <2>. QED BY <1>1, <2>2, <2>3, OneMoves DEF HostOK
<1>3. ASSUME NEW w \in Callers, NEW a \in AuthIDs, Describe(w, a) PROVE Inv'
  <2>1. Sound(Resolving(Idle, a))
    <3>1. /\ Idle \in Operation /\ Idle.expected = NoScope
          /\ Idle.kind = "describe" /\ ~Idle.answered
      BY IdleSound DEF Sound, Idle
    <3>. QED BY <3>1, ResolvingSound
  <2>2. Becomes(w, Resolving(Idle, a)) /\ indices' = indices /\ UNCHANGED hostVars
    BY <1>3 DEF Describe
  <2>. QED BY <1>1, <2>1, <2>2, OneMoves DEF HostOK
<1>4. ASSUME NEW w \in Callers, Probe(w) PROVE Inv'
  <2>. DEFINE o == op[w]
              p == [o EXCEPT !.kind = "probe", !.actual = {Now}]
  <2>1. Sound(o) /\ o \in Operation /\ w \in Goroutines
    BY <1>1 DEF Inv, Sound
  <2>2. /\ o.pc = "idle" /\ o.expected # NoScope /\ Becomes(w, Resolving(p, o.auth))
        /\ indices' = indices /\ UNCHANGED hostVars
    BY <1>4 DEF Probe
  <2>3. p \in Operation /\ p.auth = o.auth /\ p.kind = "probe" /\ p.expected = o.expected
        /\ p.actual = {Now}
    BY <1>1, <2>1, NowTyped DEF Operation
  <2>4. o.expected.auth = o.auth /\ o.auth \in AuthIDs
    <3>1. o.expected \in Scope
      BY <2>1, <2>2 DEF Operation
    <3>. QED BY <2>1, <2>2, <3>1 DEF Scope, Sound, Placed
  <2>. HIDE DEF p
  <2>5. Sound(Resolving(p, o.auth))
    BY <2>2, <2>3, <2>4, ResolvingSound
  <2>. QED BY <1>1, <2>1, <2>2, <2>5, OneMoves DEF HostOK
<1>. QED BY <1>2, <1>3, <1>4

-----------------------------------------------------------------------------
(* The host's changes *)

\* One more change is within the bound.
LEMMA ChangeCounted == ASSUME HostOK, Change PROVE changes' \in 0..MaxChanges /\ indices' = indices
BY ClientAssumption DEF HostOK, Change

\* New contents are noted by the probes under way: nothing they saw is forgotten.
LEMMA NotedSound ==
    ASSUME Inv, Change, Noted, content' \in [AuthIDs -> Files], config' \in Configs
    PROVE  Inv'
<1>1. op \in [Goroutines -> Operation] /\ HostOK /\ owner' = owner /\ enabled' = enabled
  BY DEF Noted, Inv
<1>2. HostOK'
  BY <1>1, ChangeCounted DEF HostOK
<1>3. {Now'} \in SUBSET ([AuthIDs -> Files] \X Configs)
  BY DEF Now
<1>4. ASSUME NEW w \in Goroutines PROVE op'[w] \in Operation /\ Sound(op[w])'
  <2>. DEFINE o == op[w]
              r == op'[w]
  <2>1. Sound(o) /\ o \in Operation
    BY DEF Inv, Sound
  <2>2. r = IF o.kind = "probe" /\ o.pc \in Resolution
            THEN [o EXCEPT !.actual = @ \cup {Now'}] ELSE o
    BY DEF Noted
  <2>3. o.actual \cup {Now'} \in SUBSET ([AuthIDs -> Files] \X Configs)
    BY <1>3, <2>1 DEF Operation
  <2>4. r \in Operation
    BY <2>1, <2>2, <2>3 DEF Operation
  <2>5. /\ r.pc = o.pc /\ r.kind = o.kind /\ r.auth = o.auth /\ r.index = o.index
        /\ r.owner = o.owner /\ r.file = o.file /\ r.expected = o.expected
        /\ r.answered = o.answered /\ r.moved = o.moved /\ o.actual \subseteq r.actual
        /\ o.kind = "probe" /\ o.pc \in Resolution => Now' \in r.actual
    BY <2>1, <2>2 DEF Operation
  <2>. HIDE DEF r
  <2>6. Placed(r)
    BY <2>1, <2>5 DEF Sound, Placed
  <2>7. Own(r)
    BY <2>1, <2>5 DEF Sound, Own
  <2>8. r.kind = "probe" /\ r.pc = "config" => \E u \in r.actual : u[1][r.owner] = r.file
    BY <2>1, <2>5 DEF Sound, Seen
  <2>9. r.kind = "probe" /\ r.pc \in {"send", "accepted"} => Justified(r)
    BY <2>1, <2>5 DEF Sound, Seen, Justified
  <2>10. Placed(op[w])' /\ Own(op[w])'
    BY <1>1, <2>6, <2>7 DEF r, Placed, Own
  <2>11. Seen(op[w])'
    BY <2>5, <2>8, <2>9 DEF r, Seen, Justified
  <2>. QED BY <2>4, <2>10, <2>11 DEF r, Sound
<1>5. op' \in [Goroutines -> Operation]
  BY <1>4 DEF Noted
<1>. QED BY <1>2, <1>4, <1>5 DEF Inv

\* A resolution that has yet to read the credentials notes that its index moved.
LEMMA ReindexSound ==
    ASSUME Inv, NEW a \in AuthIDs, NEW i \in Indices \cup {NoIndex}, Reindex(a, i)
    PROVE  Inv'
<1>1. /\ HostOK /\ op \in [Goroutines -> Operation] /\ Change
      /\ enabled' = enabled /\ content' = content /\ config' = config /\ Now' = Now
      /\ owner' = [j \in Indices |-> IF j = i THEN a ELSE IF owner[j] = a THEN Nobody ELSE owner[j]]
  BY DEF Inv, Reindex, Now
<1>2. HostOK'
  BY <1>1, ChangeCounted DEF HostOK
<1>3. ASSUME NEW w \in Goroutines PROVE op'[w] \in Operation /\ Sound(op[w])'
  <2>. DEFINE o == op[w]
              r == op'[w]
  <2>1. Sound(o) /\ o \in Operation
    BY DEF Inv, Sound
  <2>2. r = IF o.pc = "file" /\ owner'[o.index] # owner[o.index]
            THEN [o EXCEPT !.moved = TRUE] ELSE o
    BY DEF Reindex
  <2>3. r \in Operation
    <3>1. [o EXCEPT !.moved = TRUE] \in Operation
      BY <2>1 DEF Operation
    <3>. QED BY <2>1, <2>2, <3>1
  <2>4. /\ r.pc = o.pc /\ r.kind = o.kind /\ r.auth = o.auth /\ r.index = o.index
        /\ r.owner = o.owner /\ r.file = o.file /\ r.expected = o.expected
        /\ r.answered = o.answered /\ r.actual = o.actual
    BY <2>1, <2>2 DEF Operation
  <2>5. (o.moved => r.moved) /\ (r.pc = "file" /\ owner'[r.index] # owner[r.index] => r.moved)
    BY <2>1, <2>2, <2>4 DEF Operation
  <2>. HIDE DEF r
  <2>6. r.pc = "file" => owner'[r.index] = r.auth \/ r.moved
    BY <2>1, <2>4, <2>5 DEF Sound, Own
  <2>7. Own(op[w])'
    BY <2>1, <2>4, <2>5, <2>6 DEF r, Sound, Own
  <2>8. Placed(r) /\ Seen(r)
    BY <2>1, <2>4 DEF Sound, Placed, Seen, Justified
  <2>9. Placed(op[w])' /\ Seen(op[w])'
    BY <1>1, <2>8 DEF r, Placed, Seen, Justified
  <2>. QED BY <2>3, <2>7, <2>9 DEF r, Sound
<1>4. op' \in [Goroutines -> Operation]
  BY <1>3 DEF Reindex
<1>. QED BY <1>2, <1>3, <1>4 DEF Inv

\* Every step keeps the invariant.
LEMMA InvNext == Inv /\ [Next]_vars => Inv'
<1>. SUFFICES ASSUME Inv, [Next]_vars PROVE Inv'
  OBVIOUS
<1>1. ASSUME UNCHANGED <<indices, op, owner, content, config>>, enabled' \subseteq AuthIDs,
             changes' \in 0..MaxChanges
      PROVE  Inv'
  BY <1>1 DEF Inv, HostOK, Sound, Placed, Own, Seen, Justified, Now
<1>2. CASE UNCHANGED vars
  BY <1>1, <1>2 DEF vars, hostVars, Inv, HostOK
<1>3. ASSUME NEW a \in AuthIDs, Enable(a) PROVE Inv'
  BY <1>1, <1>3, ChangeCounted DEF Enable, Inv, HostOK
<1>4. ASSUME NEW a \in AuthIDs, NEW file \in Files, ChangeContent(a, file) PROVE Inv'
  BY <1>4, NotedSound DEF ChangeContent, Inv, HostOK
<1>5. ASSUME NEW cfg \in Configs, ChangeConfig(cfg) PROVE Inv'
  BY <1>5, NotedSound DEF ChangeConfig, Inv, HostOK
<1>. QED BY <1>2, <1>3, <1>4, <1>5, ReindexSound, StepSound, StartSound DEF Next, Host

\* The invariant holds at first.
LEMMA InvInit == Init => Inv
<1>. SUFFICES ASSUME Init PROVE Inv
  OBVIOUS
<1>1. HostOK
  BY Basics, ClientAssumption DEF Init, HostOK
<1>2. \A w \in Goroutines : op[w] = Idle
  BY DEF Init
<1>3. op \in [Goroutines -> Operation]
  BY IdleSound DEF Init, Sound
<1>. QED BY <1>1, <1>2, <1>3, IdleSound DEF Inv

-----------------------------------------------------------------------------
(* Theorems *)

\* The invariant behind the theorems below.
THEOREM Invariance == Spec => []Inv
BY InvInit, InvNext, PTL DEF Spec

\* Every variable keeps its type (the whole client, under any changes of the host).
THEOREM TypeCorrect == Spec => []TypeOK
<1>1. Inv => TypeOK
  BY DEF Inv, HostOK, TypeOK
<1>. QED BY <1>1, Invariance, PTL

\* For any accounts, indices and callers, whatever is cached, and however often indices
\* move: another account's token is read only if the index changed hands between the
\* two callbacks of the resolution that read it (resolve).
THEOREM OwnCredentialsHolds == Spec => []OwnCredentials
<1>1. Inv => OwnCredentials
  BY DEF Inv, Sound, Own, OwnCredentials, Probing
<1>. QED BY <1>1, Invariance, PTL

\* For any contents that change, and change back, as often as they like: a probe is
\* sent and its result accepted only under an identity whose parts the account that
\* was read had since the probe began, and again since it was answered (Probe).
THEOREM AcceptedUnderScopeHolds == Spec => []AcceptedUnderScope
<1>1. Inv => AcceptedUnderScope
  BY DEF Inv, Sound, Placed, Probing, Seen, Justified, AcceptedUnderScope
<1>. QED BY <1>1, Invariance, PTL
=============================================================================
