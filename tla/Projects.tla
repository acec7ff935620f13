------------------------------ MODULE Projects ------------------------------
(***************************************************************************)
(* The projects of one organization and what they take of its pool: the     *)
(* handlers of POST /projects, PATCH /projects/:id/resources and the        *)
(* confirmed deletion, over PostgreSQL's serializable transactions.  The    *)
(* subscription is read here and written by Billing.                        *)
(***************************************************************************)
EXTENDS Naturals, FiniteSets

CONSTANTS
    Projects, Requests, Amounts, Plans,
    PlanPool,       \* the pool of each plan
    PlanProjects,   \* the most projects of each plan
    Total(_),       \* the sum of an allocation
    MaxAttempts,    \* attempts of a serializable transaction (5 in the code)
    NoRequest       \* what an idle request slot holds

VARIABLES
    sub,     \* the organization's subscription: status, plan, bound, customer
    alloc,   \* what each project is allocated; 0 is no project
    req      \* the requests being handled

projectVars == <<alloc, req>>

Allocations == [Projects -> Amounts \cup {0}]

\* A request being handled: begin is before the transaction, commit inside it.
RequestRecords ==
    [pc : {"begin", "commit"}, kind : {"create", "resize"}, project : Projects,
     amount : Amounts, attempts : 0 .. MaxAttempts, seen : Allocations,
     pool : {PlanPool[p] : p \in Plans}, conflict : BOOLEAN]

\* Less for every project is no more in total; the slots tell a request apart.
ASSUME ProjectsAssumption ==
    /\ Amounts \subseteq Nat \ {0}
    /\ PlanPool \in [Plans -> Nat] /\ PlanProjects \in [Plans -> Nat]
    /\ MaxAttempts \in Nat \ {0}
    /\ \A f \in Allocations : Total(f) \in Nat
    /\ \A f, g \in Allocations :
         (\A p \in Projects : f[p] <= g[p]) => Total(f) <= Total(g)
    /\ NoRequest \notin RequestRecords
    /\ NoRequest \notin {PlanPool[p] : p \in Plans}

Existing == {p \in Projects : alloc[p] # 0}
Idle(r) == req[r] = NoRequest
Finish(r) == req' = [req EXCEPT ![r] = NoRequest]

\* No request in hand names p: the identifier of a new project is fresh.
Unnamed(p) == \A r \in Requests : ~Idle(r) => req[r].project # p

\* What assertCanAllocate asks of the subscription; a creation also passes its
\* first test while a payment is late.
MayAllocate == sub.status \in {"active", "trialing"}
MayCreate == MayAllocate \/ sub.status = "past_due"

ProjectsInit ==
    /\ alloc = [p \in Projects |-> 0]
    /\ req = [r \in Requests |-> NoRequest]

Accept(r, k, p, n) ==
    /\ Idle(r)
    /\ req' = [req EXCEPT ![r] =
         [pc |-> "begin", kind |-> k, project |-> p, amount |-> n, attempts |-> 0,
          seen |-> alloc, pool |-> PlanPool[sub.plan], conflict |-> FALSE]]
    /\ UNCHANGED <<sub, alloc>>

\* The project limit is counted here, before the transaction.
AskCreate(r, p, n) ==
    /\ p \notin Existing
    /\ Unnamed(p)
    /\ MayCreate
    /\ Cardinality(Existing) < PlanProjects[sub.plan]
    /\ Accept(r, "create", p, n)

AskResize(r, p, n) ==
    /\ p \in Existing
    /\ Accept(r, "resize", p, n)

\* The total once the request is granted: allocated less current plus requested.
Planned(f, p, n) == Total([f EXCEPT ![p] = n])

\* assertCanAllocate, on the transaction's snapshot of projects and subscription.
CanAllocate(r) ==
    /\ MayAllocate
    /\ req[r].kind = "resize" => req[r].project \in Existing
    /\ Planned(alloc, req[r].project, req[r].amount) <= PlanPool[sub.plan]

Begin(r) ==
    /\ ~Idle(r)
    /\ req[r].pc = "begin"
    /\ IF CanAllocate(r)
         THEN req' = [req EXCEPT ![r].pc = "commit", ![r].attempts = @ + 1,
                                 ![r].seen = alloc, ![r].pool = PlanPool[sub.plan],
                                 ![r].conflict = FALSE]
         ELSE Finish(r)
    /\ UNCHANGED <<sub, alloc>>

MustAbortMutant(r) == req[r].kind = "resize" /\ req[r].project \notin Existing

\* PostgreSQL aborts a serializable transaction that read what another one has
\* written since, and one that updates a row deleted since.
MustAbort(r) ==
    \/ req[r].conflict
    \/ req[r].kind = "resize" /\ req[r].project \notin Existing

InTransaction(r) == ~Idle(r) /\ req[r].pc = "commit"

Commit(r) ==
    /\ InTransaction(r)
    /\ ~MustAbort(r)
    /\ alloc' = [alloc EXCEPT ![req[r].project] = req[r].amount]
    /\ req' = [q \in Requests |->
                 IF q = r THEN NoRequest
                 ELSE IF InTransaction(q) THEN [req[q] EXCEPT !.conflict = TRUE] ELSE req[q]]
    /\ UNCHANGED sub

\* withSerializableRetry: again from the start, and after the last attempt 503.
Abort(r) ==
    /\ InTransaction(r)
    /\ MustAbort(r)
    /\ IF req[r].attempts < MaxAttempts
         THEN req' = [req EXCEPT ![r].pc = "begin", ![r].conflict = FALSE]
         ELSE Finish(r)
    /\ UNCHANGED <<sub, alloc>>

\* A plain delete once the code was right: no serializable transaction sees it
\* as a conflict unless it updates the same row.
DeleteProject(p) ==
    /\ p \in Existing
    /\ alloc' = [alloc EXCEPT ![p] = 0]
    /\ UNCHANGED <<sub, req>>

ProjectsNext ==
    \/ \E r \in Requests, p \in Projects, n \in Amounts :
         AskCreate(r, p, n) \/ AskResize(r, p, n)
    \/ \E r \in Requests : Begin(r) \/ Commit(r) \/ Abort(r)
    \/ \E p \in Projects : DeleteProject(p)

-----------------------------------------------------------------------------
ProjectsTypeOK ==
    /\ alloc \in Allocations
    /\ req \in [Requests -> RequestRecords \cup {NoRequest}]

\* A transaction that may still commit read a table from which rows were only
\* deleted since: what it would write was checked against no less than there is.
SnapshotSound ==
    \A r \in Requests :
      InTransaction(r) /\ ~MustAbort(r) =>
        /\ \A p \in Projects : p # req[r].project => alloc[p] <= req[r].seen[p]
        /\ Planned(req[r].seen, req[r].project, req[r].amount) <= req[r].pool
=============================================================================
