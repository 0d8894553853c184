---------------------------- MODULE ProbeClient -----------------------------
(***************************************************************************)
(* The probe client (internal/probe/client.go and discovery.go): it finds  *)
(* an account in the host by a cached index, puts the account's identity   *)
(* together from several host callbacks and file reads, and resolves it    *)
(* once before a probe is sent and once after it was answered.             *)
(*                                                                         *)
(* One action is one host callback, one file read or one critical section  *)
(* of Client.mu.  The host's accounts, files and configuration change      *)
(* between any two of them.                                                *)
(***************************************************************************)
EXTENDS Integers, FiniteSets

CONSTANTS
    AuthIDs, Indices,   \* accounts, and the indices the host may give them
    Callers,            \* goroutines that describe and probe: workers and binds
    Scheduler,          \* the goroutine that discovers accounts,
    Discovers,          \* which it only does in automatic mode
    Workspaces, Routes, Agents,     \* account_id and plan; proxies; headers
    Files, Configs,     \* what saved identities and the host's configuration may hold
    MaxChanges          \* bound: changes of the host's accounts, indices and configuration

NoIndex == ""
Nobody == ""
NoAuth == ""
Unset == ""
Direct == "direct"
DefaultAgent == "codex_cli_rs"

ASSUME ClientAssumption ==
    /\ NoIndex \notin Indices /\ Nobody \notin AuthIDs /\ Scheduler \notin Callers
    /\ Unset \notin Workspaces \cup Routes \cup Agents
    /\ Direct \in Routes /\ DefaultAgent \in Agents
    /\ Files \subseteq [workspace : Workspaces, route : Routes \cup {Unset},
                       agent : Agents \cup {Unset}]
    /\ Configs \subseteq [route : Routes \cup {Unset}, agent : Agents \cup {Unset},
                         cloaks : BOOLEAN]
    /\ Files # {} /\ Configs # {}
    /\ Discovers \in BOOLEAN /\ MaxChanges \in Nat

VARIABLES
    indices,            \* Client.indices, NoIndex where the map has no entry
    op,                 \* what each caller is doing
    \* The host:
    owner,              \* the account of each index
    enabled,            \* the accounts that are enabled
    content, config,    \* each account's saved identity; the host's configuration
    changes

hostVars == <<owner, enabled, content, config, changes>>
vars == <<indices, op, hostVars>>

Goroutines == Callers \cup {Scheduler}

-----------------------------------------------------------------------------
(* Data *)

\* What Describe hashes and a probe is compared with.  The hash tells these contents
\* and no others: two accounts of one workspace may agree in all but auth, and
\* contents that return hash as before.
Scope == [auth : AuthIDs, workspace : Workspaces, route : Routes, agent : Agents]

NoScope == [auth |-> NoAuth, workspace |-> Unset, route |-> Unset, agent |-> Unset]

NoFile == [workspace |-> Unset, route |-> Unset, agent |-> Unset]

RouteOf(file, cfg) ==
    IF file.route # Unset THEN file.route ELSE IF cfg.route # Unset THEN cfg.route ELSE Direct

\* Cloaking overrides what the account or the host has configured.
AgentOf(file, cfg) ==
    IF cfg.cloaks THEN DefaultAgent
    ELSE IF file.agent # Unset THEN file.agent
    ELSE IF cfg.agent # Unset THEN cfg.agent ELSE DefaultAgent

ScopeOf(a, file, cfg) ==
    [auth |-> a, workspace |-> file.workspace,
     route |-> RouteOf(file, cfg), agent |-> AgentOf(file, cfg)]

\* The host's directory: its index for every account.
Directory == [AuthIDs -> Indices \cup {NoIndex}]

NoListing == [a \in AuthIDs |-> NoIndex]

PCs == {"idle", "guard", "listAll", "storeAll", "cached", "list", "store", "lookup", "runtime",
        "file", "config", "send", "sent", "accepted"}

Resolution == {"cached", "list", "store", "lookup", "runtime", "file", "config"}

\* owner stands for the token: the account whose credentials were read.  todo holds
\* the accounts a discovery has still to resolve.  Two fields are history: moved, that
\* the index changed hands between the two callbacks of this resolution; actual, what
\* the host had since this resolution of a probe began.
Operation == [pc : PCs, kind : {"describe", "probe", "discover"}, auth : AuthIDs \cup {NoAuth},
              index : Indices \cup {NoIndex}, listing : Directory,
              owner : AuthIDs \cup {NoAuth}, file : Files \cup {NoFile},
              expected : Scope \cup {NoScope}, answered : BOOLEAN, todo : SUBSET AuthIDs,
              moved : BOOLEAN, actual : SUBSET ([AuthIDs -> Files] \X Configs)]

Idle == [pc |-> "idle", kind |-> "describe", auth |-> NoAuth, index |-> NoIndex,
         listing |-> NoListing, owner |-> NoAuth, file |-> NoFile, expected |-> NoScope,
         answered |-> FALSE, todo |-> {}, moved |-> FALSE, actual |-> {}]

-----------------------------------------------------------------------------
(* The host *)

IndexOf(a) ==
    IF \E i \in Indices : owner[i] = a THEN CHOOSE i \in Indices : owner[i] = a ELSE NoIndex

\* What a resolution that begins now could find.
Now == <<content, config>>

-----------------------------------------------------------------------------
(* resolve, step by step *)

Becomes(w, x) == op' = [op EXCEPT ![w] = x]

Goto(w, pc) == Becomes(w, [op[w] EXCEPT !.pc = pc])

\* resolve starts with the index cache and an empty snapshot.
Resolving(o, a) ==
    [o EXCEPT !.pc = "cached", !.auth = a, !.index = NoIndex, !.owner = NoAuth, !.file = NoFile,
              !.moved = FALSE]

\* A discovery goes on with the next account, or ends.
NextAccounts(o) ==
    IF o.todo = {} THEN {Idle}
    ELSE {Resolving([o EXCEPT !.todo = @ \ {a}], a) : a \in o.todo}

\* resolve fails: a description or a probe ends, a discovery notes that the
\* account is not eligible.
Fail(w) ==
    IF op[w].kind = "discover"
    THEN \E o \in NextAccounts(op[w]) : Becomes(w, o)
    ELSE Becomes(w, Idle)

\* A host callback, a file read or the probe itself fails, or the context ended.
CallFails(w) ==
    /\ op[w].pc \in {"list", "runtime", "file", "config", "send", "sent"}
    /\ Fail(w)
    /\ UNCHANGED <<indices, hostVars>>

Cached(w) ==
    /\ op[w].pc = "cached"
    /\ IF indices[op[w].auth] # NoIndex
       THEN Becomes(w, [op[w] EXCEPT !.pc = "runtime", !.index = indices[op[w].auth]])
       ELSE Goto(w, "list")
    /\ UNCHANGED <<indices, hostVars>>

\* readDirectory's callback, for one account and for a discovery.
List(w) ==
    /\ op[w].pc \in {"list", "listAll"}
    /\ Becomes(w, [op[w] EXCEPT !.pc = IF op[w].pc = "list" THEN "store" ELSE "storeAll",
                                !.listing = [a \in AuthIDs |-> IndexOf(a)]])
    /\ UNCHANGED <<indices, hostVars>>

\* readDirectory replaces the cache by its listing, however old that is by now.
Store(w) ==
    /\ op[w].pc = "store"
    /\ indices' = op[w].listing
    /\ Becomes(w, [op[w] EXCEPT !.pc = "lookup", !.listing = NoListing])
    /\ UNCHANGED hostVars

\* authIndex reads the cache again, which others may have replaced meanwhile.
Lookup(w) ==
    /\ op[w].pc = "lookup"
    /\ IF indices[op[w].auth] # NoIndex
       THEN Becomes(w, [op[w] EXCEPT !.pc = "runtime", !.index = indices[op[w].auth]])
       ELSE Fail(w)
    /\ UNCHANGED <<indices, hostVars>>

\* Mutant: whatever account has the index is taken.
RuntimeOfAny(w) == owner[op[w].index] \in enabled

\* The account that has the index now is the one asked for, and enabled.
RuntimeFits(w) == owner[op[w].index] = op[w].auth /\ op[w].auth \in enabled

Runtime(w) ==
    /\ op[w].pc = "runtime"
    /\ IF RuntimeFits(w) THEN Goto(w, "file") ELSE Fail(w)
    /\ UNCHANGED <<indices, hostVars>>

\* Mutant: a failed read goes unnoticed.
FileIgnored(w) ==
    LET a == owner[op[w].index]
    IN  /\ op[w].pc = "file"
        /\ IF a # Nobody /\ a \in enabled
           THEN Becomes(w, [op[w] EXCEPT !.pc = "config", !.owner = a, !.file = content[a]])
           ELSE Goto(w, "config")
        /\ UNCHANGED <<indices, hostVars>>

\* The saved credentials of whatever account has the index by now; the answer
\* names the index only.
File(w) ==
    LET a == owner[op[w].index]
    IN  /\ op[w].pc = "file"
        /\ IF a # Nobody /\ a \in enabled
           THEN Becomes(w, [op[w] EXCEPT !.pc = "config", !.owner = a, !.file = content[a]])
           ELSE Fail(w)
        /\ UNCHANGED <<indices, hostVars>>

\* The scope resolve computes when it has read the configuration.
Resolved(w) == ScopeOf(op[w].auth, op[w].file, config)

\* Mutant: only the first resolution is compared.
ExpectedFirst(w) == op[w].answered \/ Resolved(w) = op[w].expected

Expected(w) == Resolved(w) = op[w].expected

\* resolve returns: Describe answers, Probe compares with the scope it expects
\* and with what it resolved before it sent, a discovery goes on.
Resolve(w) ==
    /\ op[w].pc = "config"
    /\ \/ /\ op[w].kind = "describe"
          /\ Becomes(w, [Idle EXCEPT !.auth = op[w].auth, !.expected = Resolved(w)])
       \/ /\ op[w].kind = "probe"
          /\ IF Expected(w)
             THEN Goto(w, IF op[w].answered THEN "accepted" ELSE "send")
             ELSE Fail(w)
       \/ /\ op[w].kind = "discover"
          /\ \E o \in NextAccounts(op[w]) : Becomes(w, o)
    /\ UNCHANGED <<indices, hostVars>>

-----------------------------------------------------------------------------
(* Describe, Probe and DiscoverAccounts *)

Describe(w, a) ==
    /\ op[w].pc = "idle"
    /\ Becomes(w, Resolving(Idle, a))
    /\ UNCHANGED <<indices, hostVars>>

\* The engine probes under the scope that was described to it.
Probe(w) ==
    /\ op[w].pc = "idle" /\ op[w].expected # NoScope
    /\ Becomes(w, Resolving([op[w] EXCEPT !.kind = "probe", !.actual = {Now}], op[w].auth))
    /\ UNCHANGED <<indices, hostVars>>

\* The request goes out with the credentials of the first resolution.
Send(w) ==
    /\ op[w].pc = "send"
    /\ Becomes(w, [op[w] EXCEPT !.pc = "sent", !.actual = {}])
    /\ UNCHANGED <<indices, hostVars>>

\* The answer is read; then the identity is resolved again.
Receive(w) ==
    /\ op[w].pc = "sent"
    /\ Becomes(w, Resolving([op[w] EXCEPT !.answered = TRUE, !.actual = {Now}], op[w].auth))
    /\ UNCHANGED <<indices, hostVars>>

\* The accepted result is handed to the engine.
Accept(w) ==
    /\ op[w].pc = "accepted"
    /\ Becomes(w, Idle)
    /\ UNCHANGED <<indices, hostVars>>

Discover ==
    /\ Discovers /\ op[Scheduler].pc = "idle"
    /\ Becomes(Scheduler, [Idle EXCEPT !.pc = "guard", !.kind = "discover"])
    /\ UNCHANGED <<indices, hostVars>>

\* The configuration can be read.
Guard(w) ==
    /\ op[w].pc = "guard"
    /\ Goto(w, "listAll")
    /\ UNCHANGED <<indices, hostVars>>

\* Mutant: new entries only.
GrownIndices(listing) ==
    [a \in AuthIDs |-> IF indices[a] # NoIndex THEN indices[a] ELSE listing[a]]

ReplacedIndices(listing) == listing

\* A discovery replaces the cache and resolves the listed accounts that are
\* enabled.
StoreAll(w) ==
    /\ op[w].pc = "storeAll"
    /\ indices' = ReplacedIndices(op[w].listing)
    /\ \E listed \in SUBSET {a \in AuthIDs : op[w].listing[a] # NoIndex} :
          \E o \in NextAccounts([op[w] EXCEPT !.todo = listed, !.listing = NoListing]) :
             Becomes(w, o)
    /\ UNCHANGED hostVars

\* The configuration or the directory cannot be read, or the context ended: the
\* whole discovery fails.
DiscoveryFails(w) ==
    /\ op[w].kind = "discover" /\ op[w].pc \in PCs \ {"idle", "store", "storeAll"}
    /\ Becomes(w, Idle)
    /\ UNCHANGED <<indices, hostVars>>

Step(w) ==
    \/ Cached(w) \/ List(w) \/ Store(w) \/ Lookup(w) \/ Runtime(w) \/ File(w) \/ Resolve(w)
    \/ Guard(w) \/ StoreAll(w) \/ Send(w) \/ Receive(w) \/ Accept(w)

-----------------------------------------------------------------------------
(* The host's changes *)

Change ==
    /\ changes < MaxChanges
    /\ changes' = changes + 1
    /\ UNCHANGED indices

\* Contents change, maybe to what they were before; every probe that is resolving its
\* account notes what there is now.
Noted ==
    /\ op' = [w \in Goroutines |->
                 IF op[w].kind = "probe" /\ op[w].pc \in Resolution
                 THEN [op[w] EXCEPT !.actual = @ \cup {Now'}]
                 ELSE op[w]]
    /\ UNCHANGED <<owner, enabled>>

\* The account's saved identity changes: another workspace, plan, route or header.
ChangeContent(a, file) ==
    /\ file # content[a]
    /\ content' = [content EXCEPT ![a] = file]
    /\ UNCHANGED config
    /\ Change /\ Noted

\* The global route or the header defaults change.
ChangeConfig(cfg) ==
    /\ cfg # config
    /\ config' = cfg
    /\ UNCHANGED content
    /\ Change /\ Noted

\* The account gets an index, maybe from another account, or is removed; who reads
\* credentials by an index that moves reads another account's.
Reindex(a, i) ==
    /\ IF i = NoIndex THEN IndexOf(a) # NoIndex ELSE owner[i] # a
    /\ owner' = [j \in Indices |-> IF j = i THEN a ELSE IF owner[j] = a THEN Nobody ELSE owner[j]]
    /\ op' = [w \in Goroutines |->
                 IF op[w].pc = "file" /\ owner'[op[w].index] # owner[op[w].index]
                 THEN [op[w] EXCEPT !.moved = TRUE]
                 ELSE op[w]]
    /\ UNCHANGED <<enabled, content, config>>
    /\ Change

\* The account is disabled, or enabled again.
Enable(a) ==
    /\ enabled' = IF a \in enabled THEN enabled \ {a} ELSE enabled \cup {a}
    /\ UNCHANGED <<op, owner, content, config>>
    /\ Change

Host ==
    \/ \E cfg \in Configs : ChangeConfig(cfg)
    \/ \E a \in AuthIDs :
          \/ \E file \in Files : ChangeContent(a, file)
          \/ Enable(a)
          \/ \E i \in Indices \cup {NoIndex} : Reindex(a, i)

-----------------------------------------------------------------------------
Init ==
    /\ indices = NoListing
    /\ op = [w \in Goroutines |-> Idle]
    /\ owner \in {f \in [Indices -> AuthIDs \cup {Nobody}] :
                    \A i, j \in Indices : f[i] = f[j] /\ f[i] # Nobody => i = j}
    /\ enabled = AuthIDs
    /\ content \in [AuthIDs -> Files] /\ config \in Configs
    /\ changes = 0

Next ==
    \/ \E w \in Goroutines : Step(w) \/ CallFails(w) \/ DiscoveryFails(w)
    \/ \E w \in Callers : Probe(w) \/ \E a \in AuthIDs : Describe(w, a)
    \/ Discover \/ Host

Spec == Init /\ [][Next]_vars

\* The scheduler goes on and discovers again and again, and the host answers it
\* now and then.  The callers need not go on, so that a listing may be old when it
\* is stored.
FairSpec ==
    /\ Spec
    /\ WF_vars(Step(Scheduler)) /\ WF_vars(Discover)
    /\ SF_vars(Guard(Scheduler)) /\ SF_vars(List(Scheduler))

-----------------------------------------------------------------------------
(* Properties *)

\* The value of every variable has its type.
TypeOK ==
    /\ indices \in Directory
    /\ op \in [Goroutines -> Operation]
    /\ owner \in [Indices -> AuthIDs \cup {Nobody}]
    /\ enabled \subseteq AuthIDs
    /\ content \in [AuthIDs -> Files] /\ config \in Configs
    /\ changes \in 0..MaxChanges

\* A probe carries another account's token only if the index passed to that account
\* between the two callbacks of the very resolution that read it, however long ago the
\* client cached the index: the runtime callback names the account, the credentials
\* callback names the index only, and the scope does not tell whose token it is
\* (client.go, resolve and Probe).
OwnCredentials ==
    \A w \in Goroutines :
        op[w].pc \in {"send", "sent", "accepted"} /\ op[w].owner # op[w].auth => op[w].moved

\* A probe is sent, and its result accepted, only if the account whose credentials were
\* read had each part of the expected identity since the probe began, and again since
\* the answer came: a change that lasts is noticed, although no two parts of a
\* resolution are read at the same time.  A change that is taken back before the answer
\* comes is not (client.go, Probe).
AcceptedUnderScope ==
    \A w \in Goroutines :
        op[w].pc \in {"send", "accepted"} =>
            \E u, v \in op[w].actual :
                ScopeOf(op[w].auth, u[1][op[w].owner], v[2]) = op[w].expected

\* When the host's directory settles so does the cache of indices, although a
\* listing from before a change may be stored after one from behind it
\* (probe/discovery.go, readDirectory; in automatic mode).
IndexRecovers == <>[](\A a \in AuthIDs : indices[a] = IndexOf(a))
=============================================================================
