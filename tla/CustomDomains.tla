---------------------------- MODULE CustomDomains ----------------------------
(***************************************************************************)
(* Custom domains of projects: their rows, the DNS lookups that prove them, *)
(* and the redeployments that apply a change of them.  A request looks at   *)
(* the row, waits for DNS, and writes the row by its id; the row may have   *)
(* been deleted, or written by another request, while it waited.            *)
(***************************************************************************)
EXTENDS Naturals, FiniteSets

CONSTANTS
    Projects, Domains,
    WwwOf,              \* deriveWwwCompanionDomain: the www. form of a domain, or back
    Handlers,           \* requests served at once
    MaxQueued,          \* deployments of a project that wait in the queue
    NoProject, NoDomain

VARIABLES
    rows,       \* the CustomDomain row of each domain
    calls,      \* the requests being served
    queued,     \* deployments of each project in the queue
    live,       \* projects whose active deployment is ready
    behind,     \* ghost: projects with no deployment queued since their domains changed
    proven      \* ghost: the projects each domain was proven for, forgotten with its row

domainVars == <<rows, calls, queued, live, behind, proven>>

ASSUME DomainAssumption ==
    /\ WwwOf \in [Domains -> Domains \cup {NoDomain}]
    /\ NoProject \notin Projects /\ NoDomain \notin Domains
    /\ MaxQueued \in Nat \ {0}

Absent == [project |-> NoProject, status |-> "none"]
Idle == [op |-> "idle", domain |-> NoDomain, project |-> NoProject, held |-> NoDomain,
         was |-> "none", proof |-> FALSE]

Row(p, status) == [project |-> p, status |-> status]
Exists(d) == rows[d] # Absent
ActiveDomains(p) == {d \in Domains : rows[d] = Row(p, "active")}

At(h, op) == calls[h].op = op
Go(h, op) == calls' = [calls EXCEPT ![h].op = op]
Done(h) == calls' = [calls EXCEPT ![h] = Idle]
Call(op, d, p, held) == [Idle EXCEPT !.op = op, !.domain = d, !.project = p, !.held = held]
ToSync(h) == calls' = [calls EXCEPT ![h] = Call("sync", NoDomain, @.project, NoDomain)]
ToCompanion(h) ==
    calls' = [calls EXCEPT ![h] = Call("companion", @.domain, @.project, NoDomain)]

DomainsInit ==
    /\ rows = [d \in Domains |-> Absent]
    /\ calls = [h \in Handlers |-> Idle]
    /\ queued = [p \in Projects |-> 0]
    /\ live = {}
    /\ behind = Projects
    /\ proven = [d \in Domains |-> {}]

-----------------------------------------------------------------------------
(* The routes *)

AddDomain(d, p) ==
    /\ ~Exists(d)
    /\ rows' = [rows EXCEPT ![d] = Row(p, "pending")]
    /\ UNCHANGED <<calls, queued, live, behind, proven>>

\* Requests that hold the row's id find nothing under it from now on.
RemoveDomain(h, d) ==
    /\ At(h, "idle") /\ Exists(d)
    /\ rows' = [rows EXCEPT ![d] = Absent]
    /\ calls' = [g \in Handlers |->
         IF g = h THEN Call("sync", NoDomain, rows[d].project, NoDomain)
         ELSE IF calls[g].held = d THEN [calls[g] EXCEPT !.held = NoDomain] ELSE calls[g]]
    /\ behind' = behind \cup {rows[d].project}
    /\ proven' = [proven EXCEPT ![d] = {p \in @ : \E g \in Handlers : calls[g].project = p}]
    /\ UNCHANGED <<queued, live>>

\* The route's own look at the row: an active domain is not looked up again.
StartVerify(h, d) ==
    /\ At(h, "idle") /\ Exists(d)
    /\ calls' = [calls EXCEPT ![h] =
         IF rows[d].status = "active" THEN Call("sync", NoDomain, rows[d].project, NoDomain)
         ELSE Call("lookup", d, rows[d].project, d)]
    /\ UNCHANGED <<rows, queued, live, behind, proven>>

\* verify reads the row again and asks DNS for the CNAME, then for the TXT record: one of
\* them names the project or shows the row's token, or none does at this moment.
Lookup(h, proof) ==
    LET d == calls[h].domain
        p == calls[h].project IN
    /\ At(h, "lookup") /\ calls[h].held = d
    /\ calls' = [calls EXCEPT ![h].op = "update", ![h].was = rows[d].status, ![h].proof = proof]
    /\ proven' = [proven EXCEPT ![d] = IF proof THEN @ \cup {p} ELSE @]
    /\ UNCHANGED <<rows, queued, live, behind>>

\* A bug to be caught: the row is written by its name.
UpdateMutant(h) ==
    LET d == calls[h].domain IN
    /\ At(h, "update") /\ Exists(d) /\ calls[h].proof
    /\ rows' = [rows EXCEPT ![d].status = "active"]
    /\ behind' = behind \cup {rows[d].project}
    /\ ToCompanion(h)
    /\ UNCHANGED <<queued, live, proven>>

Update(h) ==
    LET d == calls[h].domain IN
    /\ At(h, "update") /\ calls[h].held = d
    /\ calls[h].proof
    /\ rows' = [rows EXCEPT ![d].status = "active"]
    /\ behind' = behind \cup {calls[h].project}
    /\ ToCompanion(h)
    /\ UNCHANGED <<queued, live, proven>>

\* An unproven row stays pending; one that had been looked at before is failed.  Its
\* answer is not verified, so no deployment is queued.
MarkUnproven(h) ==
    LET d == calls[h].domain IN
    /\ At(h, "update") /\ calls[h].held = d
    /\ ~calls[h].proof
    /\ IF calls[h].was = "pending"
         THEN UNCHANGED <<rows, behind>>
         ELSE /\ rows' = [rows EXCEPT ![d].status = "failed"]
              /\ behind' = behind \cup {calls[h].project}
    /\ Done(h)
    /\ UNCHANGED <<queued, live, proven>>

\* update and findUniqueOrThrow throw for a row that is gone.
RowGone(h) ==
    /\ calls[h].op \in {"lookup", "update", "adopt"}
    /\ calls[h].held = NoDomain
    /\ Done(h)
    /\ UNCHANGED <<rows, queued, live, behind, proven>>

-----------------------------------------------------------------------------
(* tryActivateWwwCompanion *)

LookupCompanion(h, proof) ==
    LET c == WwwOf[calls[h].domain]
        p == calls[h].project IN
    /\ At(h, "companion")
    /\ IF c # NoDomain /\ proof
         THEN Go(h, "find") /\ proven' = [proven EXCEPT ![c] = @ \cup {p}]
         ELSE ToSync(h) /\ UNCHANGED proven
    /\ UNCHANGED <<rows, queued, live, behind>>

\* A companion of another project is left alone.
FindCompanion(h) ==
    LET c == WwwOf[calls[h].domain] IN
    /\ At(h, "find")
    /\ CASE ~Exists(c) -> Go(h, "create")
         [] Exists(c) /\ rows[c].project = calls[h].project ->
              calls' = [calls EXCEPT ![h].op = "adopt", ![h].held = c]
         [] OTHER -> ToSync(h)
    /\ UNCHANGED <<rows, queued, live, behind, proven>>

\* create throws when another request has taken the name.
ActivateCompanion(h) ==
    LET c == WwwOf[calls[h].domain]
        p == calls[h].project IN
    /\ \/ At(h, "adopt") /\ calls[h].held = c
       \/ At(h, "create")
    /\ IF At(h, "create") /\ Exists(c)
         THEN Done(h) /\ UNCHANGED <<rows, behind>>
         ELSE /\ rows' = [rows EXCEPT ![c] = Row(p, "active")]
              /\ behind' = behind \cup {p}
              /\ ToSync(h)
    /\ UNCHANGED <<queued, live, proven>>

-----------------------------------------------------------------------------
(* syncActiveDeploymentDomains *)

QueueChange(p) ==
    /\ queued[p] < MaxQueued
    /\ queued' = [queued EXCEPT ![p] = @ + 1]
    /\ behind' = behind \ {p}

Sync(h) ==
    /\ At(h, "sync") /\ calls[h].project \in live
    /\ QueueChange(calls[h].project)
    /\ Done(h)
    /\ UNCHANGED <<rows, live, proven>>

\* No ready deployment with an image, or the request for one is refused.
SyncNotQueued(h) ==
    /\ At(h, "sync")
    /\ Done(h)
    /\ UNCHANGED <<rows, queued, live, behind, proven>>

DomainStep(h) ==
    \/ \E proof \in BOOLEAN : Lookup(h, proof) \/ LookupCompanion(h, proof)
    \/ Update(h) \/ MarkUnproven(h) \/ RowGone(h)
    \/ FindCompanion(h) \/ ActivateCompanion(h)
    \/ Sync(h) \/ SyncNotQueued(h)
=============================================================================
