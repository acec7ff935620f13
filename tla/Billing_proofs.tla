--------------------------- MODULE Billing_proofs ---------------------------
(***************************************************************************)
(* The requests of Projects, beside every step of Billing, implement the    *)
(* abstract pool, for any number of projects, requests, plans and handlers. *)
(* A request only quotes the pool it has read, so nothing is asked of the    *)
(* billing steps but that they leave the subscription on one of the plans.  *)
(* What the handlers write at rest is what the provider says.               *)
(***************************************************************************)
EXTENDS Billing, TLAPS

\* What the subscription row and the handlers keep of plans and kinds.
SubRecords ==
    [status : {"active", "past_due", "canceled", LocalStatus["none"]}, plan : Plans,
     bound : ProviderSubs \cup {NoSub}, customer : BOOLEAN]

\* A handler has a subscription of its kind, but for a synchronisation that has yet to find one.
Settled(t) == (t.type = "sync" /\ t.pc = "read") \/ (t.sub \in ProviderSubs /\ t.kind = Kind(t.sub))

KindInv ==
    /\ sub \in SubRecords
    /\ sub.bound # NoSub => Kind(sub.bound) = "plan"
    /\ provider \in [ProviderSubs -> ProviderStatus \cup {"none"}]
    /\ events \subseteq [id : Nat, sub : ProviderSubs, type : EventTypes]
    /\ changes \in Nat
    /\ task \in [Handlers -> TaskRecords \cup {NoTask}]
    /\ \A h \in Handlers : ~Free(h) => Settled(task[h])

AgentRecords ==
    [bound : ProviderSubs \cup {NoSub},
     status : {"incomplete", "active", "past_due", "canceled", LocalStatus["none"]}]

\* The agent rows: each of its kind, and no provider subscription twice.
AgentsKept ==
    /\ agents \in Seq(AgentRecords)
    /\ \A i \in 1 .. Len(agents) :
         agents[i].bound # NoSub => Kind(agents[i].bound) = "agent_plan"
    /\ \A i, j \in 1 .. Len(agents) :
         agents[i].bound # NoSub /\ i # j => agents[j].bound # agents[i].bound

\* A transaction that begins has an attempt left.
AttemptLeft ==
    \A r \in Requests : ~Idle(r) /\ req[r].pc = "begin" => req[r].attempts < MaxAttempts

PoolInv == ProjectsTypeOK /\ AttemptLeft /\ SnapshotSound

-----------------------------------------------------------------------------
(* Allocations *)

LEMMA AllocationUpdate ==
    ASSUME NEW f \in Allocations, NEW p \in Projects, NEW n \in Amounts \cup {0}
    PROVE  [f EXCEPT ![p] = n] \in Allocations
  BY DEF Allocations

\* Planned totals keep the order of the allocations they are computed from.
LEMMA PlannedMonotone ==
    ASSUME NEW f \in Allocations, NEW g \in Allocations,
           NEW p \in Projects, NEW n \in Amounts,
           \A q \in Projects : q # p => f[q] <= g[q]
    PROVE  Planned(f, p, n) <= Planned(g, p, n)
  <1> DEFINE F == [f EXCEPT ![p] = n]
  <1> DEFINE G == [g EXCEPT ![p] = n]
  <1>1. F \in Allocations /\ G \in Allocations  BY AllocationUpdate
  <1>2. n \in Nat  BY ProjectsAssumption
  <1>3. \A q \in Projects : F[q] <= G[q]
    BY <1>2 DEF Allocations
  <1>4. Total(F) <= Total(G)
    <2> HIDE DEF F, G
    <2> QED  BY <1>1, <1>3, ProjectsAssumption
  <1> QED  BY <1>4 DEF Planned

-----------------------------------------------------------------------------
(* The requests *)

LEMMA RequestKept ==
    ASSUME ProjectsTypeOK, NEW r \in Requests, ~Idle(r)
    PROVE  req[r] \in RequestRecords
  BY DEF ProjectsTypeOK, Idle

LEMMA SubKept ==
    ASSUME KindInv
    PROVE  /\ sub.plan \in Plans /\ PlanPool[sub.plan] \in Nat
           /\ PlanPool[sub.plan] \in {PlanPool[p] : p \in Plans}
           /\ sub.bound \in ProviderSubs \cup {NoSub}
  <1>1. sub.plan \in Plans /\ sub.bound \in ProviderSubs \cup {NoSub}
    BY DEF KindInv, SubRecords
  <1> QED  BY <1>1, ProjectsAssumption

LEMMA PoolInit == Init => PoolInv
  <1> SUFFICES ASSUME Init PROVE PoolInv
    OBVIOUS
  <1> USE DEF Init, ProjectsInit
  <1>1. ProjectsTypeOK
    BY DEF ProjectsTypeOK, Allocations
  <1>2. AttemptLeft /\ SnapshotSound
    BY DEF AttemptLeft, SnapshotSound, InTransaction, Idle
  <1> QED  BY <1>1, <1>2 DEF PoolInv

LEMMA PoolAccept ==
    ASSUME PoolInv, KindInv, NEW r \in Requests, NEW k \in {"create", "resize"},
           NEW p \in Projects, NEW n \in Amounts, Accept(r, k, p, n)
    PROVE  PoolInv'
  <1> USE DEF PoolInv
  <1> DEFINE R == [pc |-> "begin", kind |-> k, project |-> p, amount |-> n, attempts |-> 0,
                   seen |-> alloc, pool |-> PlanPool[sub.plan], conflict |-> FALSE]
  <1>1. R \in RequestRecords
    BY ProjectsAssumption, SubKept DEF RequestRecords, ProjectsTypeOK
  <1>2. req' = [req EXCEPT ![r] = R] /\ UNCHANGED <<sub, alloc>>
    BY DEF Accept
  <1>3. R.pc = "begin" /\ R.attempts = 0
    OBVIOUS
  <1> HIDE DEF R
  <1>4. ProjectsTypeOK'
    BY <1>1, <1>2 DEF ProjectsTypeOK
  <1>5. AttemptLeft'
    BY <1>2, <1>3, ProjectsAssumption DEF AttemptLeft, Idle, ProjectsTypeOK
  <1>6. SnapshotSound'
    <2> SUFFICES ASSUME NEW q \in Requests, (InTransaction(q) /\ ~MustAbort(q))'
                 PROVE  /\ \A x \in Projects : x # req'[q].project => alloc'[x] <= req'[q].seen[x]
                        /\ Planned(req'[q].seen, req'[q].project, req'[q].amount) <= req'[q].pool
      BY DEF SnapshotSound
    <2>1. q # r
      BY <1>2, <1>3 DEF InTransaction, Idle, ProjectsTypeOK
    <2> QED  BY <1>2, <2>1 DEF SnapshotSound, InTransaction, Idle, MustAbort, Existing, ProjectsTypeOK
  <1> QED  BY <1>4, <1>5, <1>6

LEMMA PoolBegin ==
    ASSUME PoolInv, KindInv, NEW r \in Requests, Begin(r)
    PROVE  PoolInv'
  <1> USE DEF PoolInv
  <1> DEFINE R == [req[r] EXCEPT !.pc = "commit", !.attempts = @ + 1,
                                 !.seen = alloc, !.pool = PlanPool[sub.plan],
                                 !.conflict = FALSE]
  <1>1. ~Idle(r) /\ req[r] \in RequestRecords /\ UNCHANGED <<sub, alloc>>
    BY RequestKept DEF Begin
  <1>2. CASE CanAllocate(r)
    <2>1. req' = [req EXCEPT ![r] = R]
      BY <1>2 DEF Begin, ProjectsTypeOK
    <2>2. R \in RequestRecords
      <3>1. req[r].attempts + 1 \in 0 .. MaxAttempts
        BY <1>1, ProjectsAssumption DEF Begin, AttemptLeft, RequestRecords
      <3>2. PlanPool[sub.plan] \in {PlanPool[p] : p \in Plans}
        BY SubKept
      <3> QED  BY <1>1, <3>1, <3>2 DEF RequestRecords, ProjectsTypeOK
    <2>3. /\ R.pc = "commit" /\ R.seen = alloc /\ R.pool = PlanPool[sub.plan]
          /\ R.project = req[r].project /\ R.amount = req[r].amount
      BY <1>1 DEF RequestRecords
    <2>4. R.project \in Projects /\ \A x \in Projects : alloc[x] <= R.seen[x]
      BY <1>1, <2>3, ProjectsAssumption DEF RequestRecords, ProjectsTypeOK, Allocations
    <2>5. Planned(R.seen, R.project, R.amount) <= R.pool
      BY <1>2, <2>3 DEF CanAllocate
    <2> HIDE DEF R
    <2>6. ProjectsTypeOK'
      BY <1>1, <2>1, <2>2 DEF ProjectsTypeOK
    <2>7. AttemptLeft'
      BY <2>1, <2>3 DEF AttemptLeft, Idle, ProjectsTypeOK
    <2>8. SnapshotSound'
      <3> SUFFICES ASSUME NEW q \in Requests, (InTransaction(q) /\ ~MustAbort(q))'
                   PROVE  /\ \A x \in Projects : x # req'[q].project => alloc'[x] <= req'[q].seen[x]
                          /\ Planned(req'[q].seen, req'[q].project, req'[q].amount) <= req'[q].pool
        BY DEF SnapshotSound
      <3>1. CASE q = r
        BY <1>1, <2>1, <2>4, <2>5, <3>1 DEF ProjectsTypeOK
      <3>2. CASE q # r
        BY <1>1, <2>1, <3>2 DEF SnapshotSound, InTransaction, Idle, MustAbort, Existing, ProjectsTypeOK
      <3> QED  BY <3>1, <3>2
    <2> QED  BY <2>6, <2>7, <2>8
  <1>3. CASE ~CanAllocate(r)
    <2>1. req' = [req EXCEPT ![r] = NoRequest]
      BY <1>3 DEF Begin, Finish
    <2> QED  BY <1>1, <2>1 DEF ProjectsTypeOK, AttemptLeft, SnapshotSound, InTransaction, Idle,
                               MustAbort, Existing
  <1> QED  BY <1>2, <1>3

LEMMA PoolCommit ==
    ASSUME PoolInv, NEW r \in Requests, Commit(r)
    PROVE  PoolInv'
  <1> USE DEF PoolInv
  <1>1. req[r] \in RequestRecords
    BY RequestKept DEF Commit, InTransaction
  <1>2. ASSUME NEW q \in Requests
        PROVE  /\ req'[q] \in RequestRecords \cup {NoRequest}
               /\ (InTransaction(q))' => req'[q].conflict
               /\ ~Idle(q)' => ~Idle(q) /\ req'[q].pc = req[q].pc
                              /\ req'[q].attempts = req[q].attempts
    <2>1. CASE q = r
      BY <2>1 DEF Commit, InTransaction, Idle
    <2>2. CASE q # r /\ InTransaction(q)
      <3>1. req[q] \in RequestRecords
        BY <2>2, RequestKept DEF InTransaction
      <3>2. req'[q] = [req[q] EXCEPT !.conflict = TRUE]
        BY <2>2 DEF Commit
      <3> QED  BY <2>2, <3>1, <3>2 DEF RequestRecords, InTransaction, Idle
    <2>3. CASE q # r /\ ~InTransaction(q)
      BY <2>3 DEF Commit, InTransaction, Idle, ProjectsTypeOK
    <2> QED  BY <2>1, <2>2, <2>3
  <1>3. ProjectsTypeOK'
    <2>1. alloc' \in Allocations
      BY <1>1, AllocationUpdate DEF Commit, RequestRecords, ProjectsTypeOK
    <2>2. req' \in [Requests -> RequestRecords \cup {NoRequest}]
      <3> DEFINE F(q) == IF q = r THEN NoRequest
                         ELSE IF InTransaction(q) THEN [req[q] EXCEPT !.conflict = TRUE] ELSE req[q]
      <3>1. req' = [q \in Requests |-> F(q)]
        BY DEF Commit
      <3>2. \A q \in Requests : req'[q] = F(q)
        BY <3>1
      <3> HIDE DEF F
      <3> QED  BY <1>2, <3>1, <3>2
    <2> QED  BY <2>1, <2>2 DEF ProjectsTypeOK
  <1>4. AttemptLeft'
    BY <1>2 DEF AttemptLeft
  <1>5. SnapshotSound'
    BY <1>2 DEF SnapshotSound, MustAbort
  <1> QED  BY <1>3, <1>4, <1>5

LEMMA PoolAbort ==
    ASSUME PoolInv, NEW r \in Requests, Abort(r)
    PROVE  PoolInv'
  <1> USE DEF PoolInv
  <1> DEFINE R == [req[r] EXCEPT !.pc = "begin", !.conflict = FALSE]
  <1>1. req[r] \in RequestRecords /\ UNCHANGED <<sub, alloc>>
    BY RequestKept DEF Abort, InTransaction
  <1>2. CASE req[r].attempts < MaxAttempts
    <2>1. req' = [req EXCEPT ![r] = R]
      BY <1>2 DEF Abort, ProjectsTypeOK
    <2>2. R \in RequestRecords /\ R.pc = "begin" /\ R.attempts = req[r].attempts
      BY <1>1 DEF RequestRecords
    <2> HIDE DEF R
    <2>3. ProjectsTypeOK'
      BY <1>1, <2>1, <2>2 DEF ProjectsTypeOK
    <2>4. AttemptLeft'
      BY <1>2, <2>1, <2>2 DEF AttemptLeft, Idle, ProjectsTypeOK
    <2>5. SnapshotSound'
      <3> SUFFICES ASSUME NEW q \in Requests, (InTransaction(q) /\ ~MustAbort(q))'
                   PROVE  /\ \A x \in Projects : x # req'[q].project => alloc'[x] <= req'[q].seen[x]
                          /\ Planned(req'[q].seen, req'[q].project, req'[q].amount) <= req'[q].pool
        BY DEF SnapshotSound
      <3>1. q # r
        BY <2>1, <2>2 DEF InTransaction, Idle, ProjectsTypeOK
      <3> QED
        BY <1>1, <2>1, <3>1 DEF SnapshotSound, InTransaction, Idle, MustAbort, Existing, ProjectsTypeOK
    <2> QED  BY <2>3, <2>4, <2>5
  <1>3. CASE ~(req[r].attempts < MaxAttempts)
    <2>1. req' = [req EXCEPT ![r] = NoRequest]
      BY <1>3 DEF Abort, Finish
    <2> QED  BY <1>1, <2>1 DEF ProjectsTypeOK, AttemptLeft, SnapshotSound, InTransaction, Idle,
                               MustAbort, Existing
  <1> QED  BY <1>2, <1>3

\* A deletion lowers what a snapshot is compared with, and the resize of the
\* deleted project aborts.
LEMMA PoolDelete ==
    ASSUME PoolInv, NEW p \in Projects, DeleteProject(p)
    PROVE  PoolInv'
  <1> USE DEF PoolInv
  <1>1. /\ alloc' = [alloc EXCEPT ![p] = 0]
        /\ UNCHANGED <<sub, req>>
        /\ alloc \in [Projects -> Nat]
    <2>1. Amounts \cup {0} \subseteq Nat
      BY ProjectsAssumption
    <2> QED  BY <2>1 DEF DeleteProject, ProjectsTypeOK, Allocations
  <1>2. \A x \in Projects : alloc'[x] <= alloc[x] /\ (alloc'[x] # 0 => alloc[x] # 0)
    BY <1>1
  <1>3. ProjectsTypeOK'
    BY <1>1, AllocationUpdate DEF ProjectsTypeOK
  <1>5. AttemptLeft'
    BY <1>1 DEF AttemptLeft, Idle
  <1>4. SnapshotSound'
    <2> SUFFICES ASSUME NEW q \in Requests, (InTransaction(q) /\ ~MustAbort(q))'
                 PROVE  /\ \A x \in Projects : x # req[q].project => alloc'[x] <= req[q].seen[x]
                        /\ Planned(req[q].seen, req[q].project, req[q].amount) <= req[q].pool
      BY <1>1 DEF SnapshotSound
    <2>1. InTransaction(q) /\ ~MustAbort(q)
      <3>1. ~Idle(q) /\ req[q].pc = "commit" /\ ~req[q].conflict
        BY <1>1 DEF InTransaction, Idle, MustAbort
      <3>2. req[q].project \in Projects
        BY <3>1, RequestKept DEF RequestRecords
      <3>3. req[q].kind = "resize" => alloc'[req[q].project] # 0
        BY <1>1 DEF MustAbort, Existing
      <3> QED  BY <1>2, <3>1, <3>2, <3>3 DEF InTransaction, MustAbort, Existing
    <2>2. \A x \in Projects : req[q].seen[x] \in Nat
      <3>1. Amounts \cup {0} \subseteq Nat
        BY ProjectsAssumption
      <3>2. req[q].seen \in Allocations
        BY <2>1, RequestKept DEF InTransaction, RequestRecords
      <3> QED  BY <3>1, <3>2 DEF Allocations
    <2>3. \A x \in Projects : x # req[q].project => alloc[x] <= req[q].seen[x]
      BY <2>1 DEF SnapshotSound
    <2>4. \A x \in Projects : alloc[x] \in Nat /\ alloc'[x] \in Nat
      BY <1>1
    <2>5. Planned(req[q].seen, req[q].project, req[q].amount) <= req[q].pool
      BY <2>1 DEF SnapshotSound
    <2>6. ASSUME NEW x \in Projects, x # req[q].project
          PROVE  alloc'[x] <= req[q].seen[x]
      BY <1>2, <2>2, <2>3, <2>4, <2>6
    <2> QED  BY <2>5, <2>6
  <1> QED  BY <1>3, <1>4, <1>5

\* The billing steps leave requests and allocations alone.
LEMMA PoolUnchanged ==
    ASSUME PoolInv, UNCHANGED projectVars
    PROVE  PoolInv'
  <1> USE DEF PoolInv, projectVars
  <1>1. ProjectsTypeOK' /\ AttemptLeft'
    BY DEF ProjectsTypeOK, AttemptLeft, Idle
  <1>2. SnapshotSound'
    <2> SUFFICES ASSUME NEW q \in Requests, (InTransaction(q) /\ ~MustAbort(q))'
                 PROVE  /\ \A x \in Projects : x # req[q].project => alloc[x] <= req[q].seen[x]
                        /\ Planned(req[q].seen, req[q].project, req[q].amount) <= req[q].pool
      BY DEF SnapshotSound
    <2> QED  BY DEF SnapshotSound, InTransaction, Idle, MustAbort, Existing
  <1> QED  BY <1>1, <1>2

-----------------------------------------------------------------------------
(* The billing steps *)

LEMMA KindInit == Init => KindInv /\ AgentsKept
  BY BillingAssumption DEF Init, KindInv, AgentsKept, Free, SubRecords

LEMMA KindEmit ==
    ASSUME KindInv, NEW s \in ProviderSubs, NEW st \in ProviderStatus, NEW type \in EventTypes,
           provider' = [provider EXCEPT ![s] = st], Emit(s, type), UNCHANGED <<sub, task>>
    PROVE  KindInv'
  <1>1. changes' = changes + 1 /\ changes' \in Nat
    BY DEF KindInv, Emit
  <1>2. [id |-> changes + 1, sub |-> s, type |-> type]
          \in [id : Nat, sub : ProviderSubs, type : EventTypes]
    BY <1>1
  <1>3. events' \subseteq [id : Nat, sub : ProviderSubs, type : EventTypes]
    BY <1>2 DEF Emit, KindInv
  <1>4. provider' \in [ProviderSubs -> ProviderStatus \cup {"none"}]
    BY DEF KindInv
  <1> QED  BY <1>1, <1>3, <1>4 DEF KindInv, Free

\* A handler that begins, or goes on with what it has found.
LEMMA KindTask ==
    ASSUME KindInv, NEW h \in Handlers, NEW T \in TaskRecords, Settled(T),
           task' = [task EXCEPT ![h] = T], UNCHANGED <<sub, provider, changes, events>>
    PROVE  KindInv'
  BY DEF KindInv, Free, Held

LEMMA KindStop ==
    ASSUME KindInv, NEW h \in Handlers, Stop(h), UNCHANGED <<provider, changes, events>>,
           sub' \in SubRecords,
           sub'.bound # NoSub => Kind(sub'.bound) = "plan"
    PROVE  KindInv'
  BY DEF KindInv, Stop, Free, Held

LEMMA TaskKept ==
    ASSUME KindInv, NEW h \in Handlers, ~Free(h)
    PROVE  task[h] \in TaskRecords /\ Settled(task[h])
  BY DEF KindInv, Free

\* Writing row i, for a provider subscription no other row has.
LEMMA AgentsUpdate ==
    ASSUME AgentsKept, NEW i \in 1 .. Len(agents), NEW row \in AgentRecords,
           row.bound # NoSub => Kind(row.bound) = "agent_plan" /\ ~Taken(row.bound, i),
           agents' = [agents EXCEPT ![i] = row]
    PROVE  AgentsKept'
  <1>1. agents' \in Seq(AgentRecords) /\ Len(agents') = Len(agents)
    BY DEF AgentsKept
  <1>2. \A j \in 1 .. Len(agents) : agents'[j] = IF j = i THEN row ELSE agents[j]
    BY DEF AgentsKept
  <1> QED  BY <1>1, <1>2 DEF AgentsKept, Taken

LEMMA AgentsAppend ==
    ASSUME AgentsKept, NEW row \in AgentRecords,
           row.bound # NoSub =>
             Kind(row.bound) = "agent_plan" /\ ~Taken(row.bound, Len(agents) + 1),
           agents' = Append(agents, row)
    PROVE  AgentsKept'
  <1>1. agents' \in Seq(AgentRecords) /\ Len(agents') = Len(agents) + 1 /\ Len(agents) \in Nat
    BY DEF AgentsKept
  <1>2. \A j \in 1 .. Len(agents) + 1 :
          agents'[j] = IF j = Len(agents) + 1 THEN row ELSE agents[j]
    BY DEF AgentsKept
  <1> QED  BY <1>1, <1>2 DEF AgentsKept, Taken

LEMMA KindStep ==
    ASSUME KindInv, AgentsKept, BillingNext
    PROVE  KindInv'
  <1> USE DEF vars
  <1>1. ASSUME NEW s \in ProviderSubs, Purchase(s)
        PROVE  KindInv'
    BY <1>1, KindEmit DEF Purchase, ProviderStatus, EventTypes
  <1>2. ASSUME NEW s \in ProviderSubs, NEW st \in ProviderStatus, NEW type \in EventTypes,
               ProviderChanges(s, st, type)
        PROVE  KindInv'
    BY <1>2, KindEmit DEF ProviderChanges
  <1>3. ASSUME Checkout \/ \E recorded \in BOOLEAN : AgentCheckout(recorded)
        PROVE  KindInv'
    <2>1. sub' = [sub EXCEPT !.customer = TRUE] /\ UNCHANGED <<provider, changes, events, task>>
      BY <1>3 DEF Checkout, AgentCheckout
    <2>2. sub' \in SubRecords /\ sub'.bound = sub.bound
      BY <2>1 DEF KindInv, SubRecords
    <2> QED  BY <2>1, <2>2 DEF KindInv, Free
  <1>4. ASSUME NEW h \in Handlers, NEW e \in events, Receive(h, e)
        PROVE  KindInv'
    <2> DEFINE T == [pc |-> "read", sub |-> e.sub, type |-> e.type, kind |-> Kind(e.sub),
                     status |-> "none", row |-> 0]
    <2>1. T \in TaskRecords /\ Settled(T)
      BY DEF KindInv, TaskRecords, Settled, Kind, Kinds
    <2>2. task' = [task EXCEPT ![h] = T] /\ UNCHANGED <<sub, provider, changes, events>>
      BY <1>4 DEF Receive, Start
    <2> HIDE DEF T
    <2> QED  BY <2>1, <2>2, KindTask
  <1>5. ASSUME NEW e \in events, Answered(e)
        PROVE  KindInv'
    BY <1>5 DEF Answered, KindInv, Free, Held
  <1>6. ASSUME NEW h \in Handlers, NEW named \in ProviderSubs \cup {NoSub}, Sync(h, named)
        PROVE  KindInv'
    <2> DEFINE T == [pc |-> "read", sub |-> IF named # NoSub THEN named ELSE sub.bound, type |-> "sync",
                     kind |-> "plan", status |-> "none", row |-> 0]
    <2>1. T \in TaskRecords /\ Settled(T)
      BY DEF KindInv, SubRecords, TaskRecords, Settled, Kinds
    <2>2. task' = [task EXCEPT ![h] = T] /\ UNCHANGED <<sub, provider, changes, events>>
      BY <1>6 DEF Sync, Start
    <2> HIDE DEF T
    <2> QED  BY <2>1, <2>2, KindTask
  <1>7. ASSUME NEW h \in Handlers, NEW named \in ProviderSubs \cup {NoSub}, AgentSync(h, named)
        PROVE  KindInv'
    <2> DEFINE T == [pc |-> "read", sub |-> IF named # NoSub THEN named ELSE LatestBound, type |-> "sync",
                     kind |-> "agent_plan", status |-> "none", row |-> Len(agents)]
    <2>1. LatestBound \in ProviderSubs \cup {NoSub} /\ Len(agents) \in Nat
      <3>1. CASE agents = <<>>
        BY <3>1 DEF LatestBound
      <3>2. CASE agents # <<>>
        <4>1. Len(agents) \in 1 .. Len(agents) /\ agents[Len(agents)] \in AgentRecords
          BY <3>2 DEF AgentsKept
        <4> QED  BY <3>2, <4>1 DEF LatestBound, AgentRecords
      <3> QED  BY <3>1, <3>2
    <2>2. T \in TaskRecords /\ Settled(T)
      BY <2>1 DEF TaskRecords, Settled, Kinds
    <2>3. task' = [task EXCEPT ![h] = T] /\ UNCHANGED <<sub, provider, changes, events>>
      BY <1>7 DEF AgentSync, Start
    <2> HIDE DEF T
    <2> QED  BY <2>2, <2>3, KindTask
  <1>8. ASSUME NEW h \in Handlers, Retrieve(h)
        PROVE  KindInv'
    <2> DEFINE T == [task[h] EXCEPT !.pc = "write", !.status = provider[task[h].sub],
                       !.row = IF task[h].kind = "plan" THEN 0 ELSE AgentRow(task[h].sub)]
    <2>1. task[h] \in TaskRecords /\ task[h].kind = Kind(task[h].sub) /\ task[h].sub \in ProviderSubs
      BY <1>8, TaskKept DEF Retrieve, AtRead, Settled
    <2>2. AgentRow(task[h].sub) \in Nat
      BY DEF AgentRow, AgentsKept
    <2>3. T \in TaskRecords /\ Settled(T)
      BY <2>1, <2>2 DEF TaskRecords, KindInv, Settled
    <2>4. task' = [task EXCEPT ![h] = T] /\ UNCHANGED <<sub, provider, changes, events>>
      BY <1>8 DEF Retrieve, KindInv
    <2> HIDE DEF T
    <2> QED  BY <2>3, <2>4, KindTask
  <1>12. ASSUME NEW h \in Handlers, SyncRetrieves(h)
         PROVE  KindInv'
    <2>1. task[h] \in TaskRecords
      BY <1>12, TaskKept DEF SyncRetrieves, AtRead
    <2>2. CASE Stop(h)
      BY <1>12, <2>2, KindStop DEF SyncRetrieves, KindInv
    <2>3. CASE ~Stop(h)
      <3>1. PICK s \in ({task[h].sub} \ {NoSub}) \cup Preferred(ListedFor(task[h].kind)) :
                /\ Kind(s) = task[h].kind
                /\ task' = [task EXCEPT ![h].pc = "write", ![h].sub = s, ![h].status = provider[s]]
        BY <1>12, <2>3 DEF SyncRetrieves
      <3>2. s \in ProviderSubs
        BY <2>1 DEF TaskRecords, Preferred, ListedFor, Held
      <3> DEFINE T == [task[h] EXCEPT !.pc = "write", !.sub = s, !.status = provider[s]]
      <3>3. T \in TaskRecords /\ Settled(T)
        BY <2>1, <3>1, <3>2 DEF TaskRecords, KindInv, Settled
      <3>4. task' = [task EXCEPT ![h] = T] /\ UNCHANGED <<sub, provider, changes, events>>
        BY <1>12, <3>1 DEF SyncRetrieves, KindInv
      <3> HIDE DEF T
      <3> QED  BY <3>3, <3>4, KindTask
    <2> QED  BY <2>2, <2>3
  <1>9. ASSUME NEW h \in Handlers, NEW late \in BOOLEAN, RetrieveFails(h, late)
        PROVE  KindInv'
    <2>1. sub' = sub \/ sub' = [sub EXCEPT !.status = "past_due"]
      BY <1>9 DEF RetrieveFails
    <2>2. sub' \in SubRecords /\ sub'.bound = sub.bound
      BY <2>1 DEF KindInv, SubRecords
    <2> QED  BY <1>9, <2>2, KindStop DEF RetrieveFails, KindInv
  <1>10. ASSUME NEW h \in Handlers, SyncSubscription(h)
         PROVE  KindInv'
    <2>1. task[h] \in TaskRecords /\ Kind(task[h].sub) = "plan" /\ task[h].sub \in ProviderSubs
      BY <1>10, TaskKept DEF SyncSubscription, AtWrite, Settled
    <2>2. SubPlan[task[h].sub] \in Plans
      BY <2>1, BillingAssumption DEF Kind
    <2>3. Written(h) \in {"active", "past_due", "canceled", LocalStatus["none"]}
      BY <2>1 DEF Written, LocalStatus, TaskRecords, ProviderStatus
    <2>4. sub' \in SubRecords /\ Kind(sub'.bound) = "plan"
      BY <1>10, <2>1, <2>2, <2>3 DEF SyncSubscription, SubRecords
    <2> QED  BY <1>10, <2>4, KindStop DEF SyncSubscription
  <1>11. ASSUME NEW h \in Handlers, SyncAgent(h)
         PROVE  KindInv'
    BY <1>11, KindStop DEF SyncAgent, KindInv
  <1> QED  BY <1>1, <1>2, <1>3, <1>4, <1>5, <1>6, <1>7, <1>8, <1>9, <1>10, <1>11, <1>12 DEF BillingNext

LEMMA AgentsStep ==
    ASSUME KindInv, AgentsKept, BillingNext
    PROVE  AgentsKept'
  <1>1. CASE UNCHANGED agents
    BY <1>1 DEF AgentsKept
  <1>2. ASSUME AgentCheckout(TRUE)
        PROVE  AgentsKept'
    <2>1. CASE agents' = agents
      BY <2>1 DEF AgentsKept
    <2>2. CASE agents' = Append(agents, [bound |-> NoSub, status |-> "incomplete"])
      BY <2>2, AgentsAppend DEF AgentRecords
    <2> QED  BY <1>2, <2>1, <2>2 DEF AgentCheckout, RecordPending
  <1>3. ASSUME NEW h \in Handlers, NEW late \in BOOLEAN, RetrieveFails(h, late),
               agents' # agents
        PROVE  AgentsKept'
    <2> DEFINE i == AgentRow(task[h].sub)
    <2>1. i # 0 /\ agents' = [agents EXCEPT ![i].status = "past_due"]
      BY <1>3 DEF RetrieveFails
    <2>2. i \in 1 .. Len(agents)
      BY <2>1 DEF AgentRow, AgentsKept
    <2>3. agents[i] \in AgentRecords
      BY <2>2 DEF AgentsKept
    <2> DEFINE row == [agents[i] EXCEPT !.status = "past_due"]
    <2>4. row \in AgentRecords /\ row.bound = agents[i].bound
      BY <2>3 DEF AgentRecords
    <2>5. agents' = [agents EXCEPT ![i] = row]
      BY <2>1
    <2>6. row.bound # NoSub => Kind(row.bound) = "agent_plan" /\ ~Taken(row.bound, i)
      BY <2>2, <2>4 DEF AgentsKept, Taken
    <2> HIDE DEF i, row
    <2> QED  BY <2>2, <2>4, <2>5, <2>6, AgentsUpdate
  <1>4. ASSUME NEW h \in Handlers, SyncAgent(h), agents' # agents
        PROVE  AgentsKept'
    <2> DEFINE s == task[h].sub
               again == {j \in 1 .. Len(agents) : agents[j].bound = s}
               i == IF task[h].row # 0 THEN task[h].row
                    ELSE IF again # {} THEN CHOOSE j \in again : TRUE ELSE Len(agents) + 1
               row == [bound |-> s, status |-> Written(h)]
    <2>1. ~Taken(s, i) /\ agents' = IF i > Len(agents) THEN Append(agents, row)
                                    ELSE [agents EXCEPT ![i] = row]
      BY <1>4 DEF SyncAgent
    <2>2. task[h] \in TaskRecords /\ Kind(s) = "agent_plan"
      BY <1>4, TaskKept DEF SyncAgent, AtWrite, Settled
    <2>3. row \in AgentRecords /\ row.bound = s
      <3>1. Written(h) \in {"active", "past_due", "canceled", LocalStatus["none"]}
        BY <2>2 DEF Written, LocalStatus, TaskRecords, ProviderStatus
      <3>2. s \in ProviderSubs
        BY <1>4, TaskKept DEF SyncAgent, AtWrite, Settled
      <3> QED  BY <3>1, <3>2 DEF AgentRecords
    <2>4. i \in Nat /\ i # 0 /\ Len(agents) \in Nat
      BY <2>2 DEF TaskRecords, AgentsKept
    <2> HIDE DEF s, i, row, again
    <2>5. CASE i > Len(agents)
      <3>1. ~Taken(s, Len(agents) + 1)
        BY <2>1, <2>4, <2>5 DEF Taken
      <3> QED  BY <2>1, <2>2, <2>3, <2>5, <3>1, AgentsAppend
    <2>6. CASE ~(i > Len(agents))
      <3>1. i \in 1 .. Len(agents)
        BY <2>4, <2>6
      <3>2. agents' = [agents EXCEPT ![i] = row]
        BY <2>1, <2>6
      <3>3. row.bound # NoSub => Kind(row.bound) = "agent_plan" /\ ~Taken(row.bound, i)
        BY <2>1, <2>2, <2>3
      <3> QED  BY <2>3, <3>1, <3>2, <3>3, AgentsUpdate
    <2> QED  BY <2>5, <2>6
  <1> QED
    BY <1>1, <1>2, <1>3, <1>4
       DEF BillingNext, Purchase, ProviderChanges, Checkout, AgentCheckout, Receive, Answered,
           Sync, AgentSync, Retrieve, SyncRetrieves, SyncSubscription

-----------------------------------------------------------------------------
(* The specification *)

Inductive == PoolInv /\ KindInv /\ AgentsKept

LEMMA InductiveInit == Init => Inductive
  BY PoolInit, KindInit DEF Inductive

LEMMA InductiveStep == Inductive /\ [Next]_vars => Inductive'
  <1> SUFFICES ASSUME Inductive, [Next]_vars PROVE Inductive'
    OBVIOUS
  <1> USE DEF Inductive
  <1>1. CASE ProjectsStep
    <2>1. KindInv' /\ AgentsKept'
      BY <1>1 DEF ProjectsStep, billingVars, KindInv, AgentsKept, Free
    <2>2. PoolInv'
      BY <1>1, PoolAccept, PoolBegin, PoolCommit, PoolAbort, PoolDelete
         DEF ProjectsStep, ProjectsNext, AskCreate, AskResize
    <2> QED  BY <2>1, <2>2
  <1>2. CASE BillingNext
    <2>1. UNCHANGED projectVars
      BY <1>2 DEF BillingNext, Purchase, ProviderChanges, Checkout, AgentCheckout, Receive, Answered,
                  Sync, AgentSync, Retrieve, SyncRetrieves, RetrieveFails, SyncSubscription, SyncAgent
    <2> QED  BY <1>2, <2>1, PoolUnchanged, KindStep, AgentsStep
  <1>3. CASE UNCHANGED vars
    BY <1>3, PoolUnchanged DEF vars, billingVars, projectVars, KindInv, AgentsKept, Free
  <1> QED  BY <1>1, <1>2, <1>3 DEF Next

LEMMA InductiveInvariant == Spec => []Inductive
  BY InductiveInit, InductiveStep, PTL DEF Spec

\* A provider subscription for an agent plan never becomes the organization's
\* subscription, nor the other way round, and two agent rows never share one:
\* the handlers look both up by the one customer the provider knows.
THEOREM KindsAreKeptApart == Spec => []KindsKeptApart
  <1>1. Inductive => KindsKeptApart
    BY DEF Inductive, KindInv, AgentsKept, KindsKeptApart, Taken
  <1> QED  BY <1>1, InductiveInvariant, PTL

\* Types of what the requests keep, and the bound on a transaction's attempts.
THEOREM ProjectsTypeCorrect == Spec => []ProjectsTypeOK
  <1>1. Inductive => ProjectsTypeOK
    BY DEF Inductive, PoolInv
  <1> QED  BY <1>1, InductiveInvariant, PTL

-----------------------------------------------------------------------------
(* The rows and the provider *)

\* Events are numbered as they are emitted, and only emitted events are received.
LedgerInv ==
    /\ ledger \subseteq 1 .. changes
    /\ \A e \in events : e.id \in 1 .. changes
    /\ \A e, f \in events : e.id = f.id => e = f

\* What may still bring a row to what the provider says of s: an event nobody has received, or
\* its handler, if what it has read is still so.
Unreceived(s) == \E e \in events : e.sub = s /\ e.id \notin ledger
Attends(h, s) ==
    /\ ~Free(h) /\ task[h].sub = s /\ task[h].type # "sync"
    /\ task[h].pc = "read" \/ (task[h].pc = "write" /\ task[h].status = provider[s])
Expected(s) == s \in excused \/ Unreceived(s) \/ \E h \in Handlers : Attends(h, s)

Mirrors(status, s) == status = LocalStatus[provider[s]] \/ Expected(s)

RowsMirror ==
    /\ sub.bound # NoSub => sub.plan = SubPlan[sub.bound] /\ Mirrors(sub.status, sub.bound)
    /\ \A i \in 1 .. Len(agents) :
         agents[i].bound # NoSub => Mirrors(agents[i].status, agents[i].bound)

MirrorInv == LedgerInv /\ RowsMirror

\* While the provider is still, what is expected stays so but for the one handler that moves.
LEMMA ExpectedStays ==
    ASSUME NEW s \in ProviderSubs, NEW h \in Handlers, \A g \in Handlers \ {h} : task'[g] = task[g],
           provider' = provider, s \in excused => s \in excused' \/ Attends(h, s)',
           Unreceived(s) => Unreceived(s)' \/ Attends(h, s)',
           Attends(h, s) => Attends(h, s)' \/ s \in excused',
           Expected(s)
    PROVE  Expected(s)'
  <1>1. ASSUME NEW g \in Handlers \ {h}, Attends(g, s) PROVE Attends(g, s)'
    BY <1>1 DEF Attends, Free
  <1> QED  BY <1>1 DEF Expected

\* The same for the rows, when they stay and no handler of theirs ends without excuse.
LEMMA RowsStayMirrored ==
    ASSUME KindInv, AgentsKept, RowsMirror, NEW h \in Handlers,
           \A g \in Handlers \ {h} : task'[g] = task[g], provider' = provider, excused \subseteq excused',
           \A s \in ProviderSubs : Unreceived(s) => Unreceived(s)' \/ Attends(h, s)',
           \A s \in ProviderSubs : Attends(h, s) => Attends(h, s)' \/ s \in excused',
           sub'.bound = sub.bound, sub'.plan = sub.plan, agents' = agents,
           sub'.status = sub.status \/ sub.bound \in excused'
    PROVE  RowsMirror'
  <1>1. ASSUME NEW s \in ProviderSubs, Expected(s) PROVE Expected(s)'
    BY <1>1, ExpectedStays
  <1>2. sub'.bound # NoSub => sub'.plan = SubPlan[sub'.bound] /\ Mirrors(sub.status, sub.bound)'
    <2>1. sub.bound # NoSub => sub.bound \in ProviderSubs
      BY DEF KindInv, SubRecords
    <2> QED  BY <1>1, <2>1 DEF RowsMirror, Mirrors, Expected
  <1>3. ASSUME NEW i \in 1 .. Len(agents'), agents'[i].bound # NoSub
        PROVE  Mirrors(agents[i].status, agents[i].bound)'
    <2>1. agents[i] \in AgentRecords
      BY DEF AgentsKept
    <2>2. agents[i].bound \in ProviderSubs
      BY <1>3, <2>1 DEF AgentRecords
    <2> QED  BY <1>1, <1>3, <2>2 DEF RowsMirror, Mirrors
  <1> QED  BY <1>2, <1>3 DEF RowsMirror

LEMMA BoundKept ==
    ASSUME AgentsKept, NEW i \in 1 .. Len(agents), agents[i].bound # NoSub
    PROVE  agents[i].bound \in ProviderSubs
  <1>1. agents[i] \in AgentRecords
    BY DEF AgentsKept
  <1> QED  BY <1>1 DEF AgentRecords

\* A change at the provider is told by an event that nobody has received.
LEMMA MirrorEmit ==
    ASSUME KindInv, AgentsKept, MirrorInv, NEW s \in ProviderSubs, NEW st, NEW type, Emit(s, type),
           provider' = [provider EXCEPT ![s] = st], UNCHANGED <<sub, agents, task, excused, ledger>>
    PROVE  MirrorInv'
  <1> DEFINE e == [id |-> changes + 1, sub |-> s, type |-> type]
  <1>1. events' = events \cup {e} /\ changes' = changes + 1 /\ changes \in Nat /\ e.id = changes + 1 /\ e.sub = s
    BY DEF Emit, KindInv
  <1> HIDE DEF e
  <1>2. LedgerInv'
    BY <1>1 DEF MirrorInv, LedgerInv
  <1>3. e.id \notin ledger'
    BY <1>1 DEF MirrorInv, LedgerInv
  <1>4. Expected(s)'
    BY <1>1, <1>3 DEF Expected, Unreceived
  <1>5. ASSUME NEW t \in ProviderSubs, t # s
        PROVE  provider'[t] = provider[t] /\ (Expected(t) => Expected(t)')
    <2>1. provider'[t] = provider[t]
      BY <1>5 DEF KindInv
    <2>2. Unreceived(t) => Unreceived(t)'
      BY <1>1 DEF Unreceived
    <2>3. \A h \in Handlers : Attends(h, t) => Attends(h, t)'
      BY <2>1 DEF Attends, Free
    <2> QED  BY <2>1, <2>2, <2>3 DEF Expected
  <1>6. ASSUME NEW t \in ProviderSubs, NEW status, Mirrors(status, t)
        PROVE  status = LocalStatus[provider'[t]] \/ Expected(t)'
    BY <1>4, <1>5, <1>6 DEF Mirrors
  <1>7. sub.bound # NoSub => sub.bound \in ProviderSubs
    BY DEF KindInv, SubRecords
  <1>8. \A i \in 1 .. Len(agents) : agents[i].bound # NoSub => agents[i].bound \in ProviderSubs
    BY BoundKept
  <1>9. RowsMirror'
    BY <1>6, <1>7, <1>8 DEF MirrorInv, RowsMirror, Mirrors
  <1> QED  BY <1>2, <1>9 DEF MirrorInv

\* A received event is its handler's to apply.
LEMMA MirrorReceive ==
    ASSUME KindInv, AgentsKept, MirrorInv, NEW h \in Handlers, NEW e \in events, Receive(h, e)
    PROVE  MirrorInv'
  <1> DEFINE T == [pc |-> "read", sub |-> e.sub, type |-> e.type, kind |-> Kind(e.sub),
                   status |-> "none", row |-> 0]
  <1>1. task' = [task EXCEPT ![h] = T] /\ T.pc = "read" /\ T.sub = e.sub /\ T.type = e.type
    BY DEF Receive, Start
  <1>2. T \in TaskRecords /\ e.type # "sync" /\ e.sub \in ProviderSubs
    BY DEF KindInv, TaskRecords, Kind, Kinds, EventTypes
  <1> HIDE DEF T
  <1>3. /\ ledger' = ledger \cup {e.id} /\ Free(h)
        /\ UNCHANGED <<sub, agents, provider, changes, events, excused>>
    BY DEF Receive
  <1>4. task'[h] = T /\ T # NoTask /\ \A g \in Handlers \ {h} : task'[g] = task[g]
    BY <1>1, <1>2, BillingAssumption DEF KindInv
  <1>5. Attends(h, e.sub)'
    BY <1>1, <1>2, <1>4 DEF Attends, Free
  <1>6. LedgerInv'
    BY <1>3 DEF MirrorInv, LedgerInv
  <1>7. ASSUME NEW s \in ProviderSubs, Unreceived(s) PROVE Unreceived(s)' \/ Attends(h, s)'
    <2>1. PICK f \in events : f.sub = s /\ f.id \notin ledger
      BY <1>7 DEF Unreceived
    <2>2. CASE f.id = e.id
      BY <1>5, <2>1, <2>2 DEF MirrorInv, LedgerInv
    <2>3. CASE f.id # e.id
      BY <1>3, <2>1, <2>3 DEF Unreceived
    <2> QED  BY <2>2, <2>3
  <1>8. \A s : ~Attends(h, s)
    BY <1>3 DEF Attends
  <1>9. RowsMirror'
    BY <1>3, <1>4, <1>7, <1>8, RowsStayMirrored DEF MirrorInv
  <1> QED  BY <1>6, <1>9 DEF MirrorInv

\* A synchronisation that begins takes a free handler.
LEMMA MirrorStart ==
    ASSUME KindInv, AgentsKept, MirrorInv, NEW h \in Handlers, Free(h), NEW s, NEW kind, NEW row,
           Start(h, s, "sync", kind, row),
           UNCHANGED <<sub, agents, provider, changes, events, ledger, excused>>
    PROVE  MirrorInv'
  <1>1. LedgerInv'
    BY DEF MirrorInv, LedgerInv
  <1>2. \A g \in Handlers \ {h} : task'[g] = task[g]
    BY DEF Start, KindInv
  <1>3. \A t : ~Attends(h, t)
    BY DEF Attends
  <1>4. \A t \in ProviderSubs : Unreceived(t) => Unreceived(t)'
    BY DEF Unreceived
  <1>5. RowsMirror'
    BY <1>2, <1>3, <1>4, RowsStayMirrored DEF MirrorInv
  <1> QED  BY <1>1, <1>5 DEF MirrorInv

\* Who reads the provider has what it says.
LEMMA MirrorRetrieve ==
    ASSUME KindInv, AgentsKept, MirrorInv, NEW h \in Handlers, Retrieve(h)
    PROVE  MirrorInv'
  <1> DEFINE T == [task[h] EXCEPT !.pc = "write", !.status = provider[task[h].sub],
                     !.row = IF task[h].kind = "plan" THEN 0 ELSE AgentRow(task[h].sub)]
  <1>1. task' = [task EXCEPT ![h] = T]
    BY DEF Retrieve
  <1>2. task[h] \in TaskRecords /\ task[h].sub \in ProviderSubs
    BY TaskKept DEF Retrieve, AtRead, Settled
  <1>3. AgentRow(task[h].sub) \in Nat
    BY DEF AgentRow, AgentsKept
  <1>4. T \in TaskRecords /\ T.pc = "write" /\ T.status = provider[task[h].sub] /\ T.sub = task[h].sub
        /\ T.type = task[h].type
    BY <1>2, <1>3 DEF TaskRecords, KindInv
  <1> HIDE DEF T
  <1>5. task'[h] = T /\ T # NoTask /\ \A g \in Handlers \ {h} : task'[g] = task[g]
    BY <1>1, <1>4, BillingAssumption DEF KindInv
  <1>6. UNCHANGED <<sub, agents, provider, changes, events, ledger, excused>>
    BY DEF Retrieve
  <1>7. LedgerInv'
    BY <1>6 DEF MirrorInv, LedgerInv
  <1>8. \A s : Attends(h, s) => Attends(h, s)'
    BY <1>4, <1>5, <1>6 DEF Attends, Free
  <1>9. \A t \in ProviderSubs : Unreceived(t) => Unreceived(t)'
    BY <1>6 DEF Unreceived
  <1>10. RowsMirror'
    BY <1>5, <1>6, <1>8, <1>9, RowsStayMirrored DEF MirrorInv
  <1> QED  BY <1>7, <1>10 DEF MirrorInv

\* Nothing is expected of a synchronisation.
LEMMA MirrorSyncRetrieves ==
    ASSUME KindInv, AgentsKept, MirrorInv, NEW h \in Handlers, SyncRetrieves(h)
    PROVE  MirrorInv'
  <1>1. /\ UNCHANGED <<sub, agents, provider, changes, events, ledger, excused>>
        /\ \A g \in Handlers \ {h} : task'[g] = task[g]
    BY DEF SyncRetrieves, Stop, KindInv
  <1>2. LedgerInv'
    BY <1>1 DEF MirrorInv, LedgerInv
  <1>3. \A t : ~Attends(h, t)
    BY DEF Attends, SyncRetrieves
  <1>4. \A t \in ProviderSubs : Unreceived(t) => Unreceived(t)'
    BY <1>1 DEF Unreceived
  <1>5. RowsMirror'
    BY <1>1, <1>3, <1>4, RowsStayMirrored DEF MirrorInv
  <1> QED  BY <1>2, <1>5 DEF MirrorInv

\* A handler that ends leaves the other subscriptions to what they were expected from.
LEMMA OthersStayExpected ==
    ASSUME KindInv, NEW h \in Handlers, Stop(h), UNCHANGED <<provider, events, ledger>>,
           excused \ {task[h].sub} \subseteq excused', NEW s \in ProviderSubs,
           s # task[h].sub, Expected(s)
    PROVE  Expected(s)'
  <1>1. \A g \in Handlers \ {h} : task'[g] = task[g]
    BY DEF Stop, KindInv
  <1>2. s \in excused => s \in excused'
    OBVIOUS
  <1>3. Unreceived(s) => Unreceived(s)'
    BY DEF Unreceived
  <1>4. ~Attends(h, s)
    BY DEF Attends
  <1> QED  BY <1>1, <1>2, <1>3, <1>4, ExpectedStays

\* A handler that ends without the provider's answer excuses what it was to write, and the
\* row that it wrote all the same.
LEMMA MirrorFails ==
    ASSUME KindInv, AgentsKept, MirrorInv, NEW h \in Handlers, NEW late \in BOOLEAN,
           RetrieveFails(h, late)
    PROVE  MirrorInv'
  <1> DEFINE s == task[h].sub
             i == AgentRow(s)
  <1>1. /\ \A g \in Handlers \ {h} : task'[g] = task[g]
        /\ UNCHANGED <<provider, changes, events, ledger>>
    BY DEF RetrieveFails, Stop, KindInv
  <1>2. LedgerInv'
    BY <1>1 DEF MirrorInv, LedgerInv
  <1>3. \A t \in ProviderSubs : Unreceived(t) => Unreceived(t)'
    BY <1>1 DEF Unreceived
  <1>4. \A t : Attends(h, t) => t = s /\ task[h].type # "sync"
    BY DEF Attends
  <1>5. excused \subseteq excused' /\ (task[h].type # "sync" => s \in excused')
    <2>1. late => task[h].type = "payment"
      BY DEF RetrieveFails
    <2> QED  BY DEF RetrieveFails
  <1>6. \A t \in ProviderSubs : Attends(h, t) => Attends(h, t)' \/ t \in excused'
    BY <1>4, <1>5
  <1>7. CASE agents' = agents
    <2>1. sub' = sub \/ (sub' = [sub EXCEPT !.status = "past_due"] /\ sub.bound \in excused')
      BY <1>7 DEF RetrieveFails
    <2>2. sub \in SubRecords
      BY DEF KindInv
    <2>3. sub'.bound = sub.bound /\ sub'.plan = sub.plan
          /\ (sub'.status = sub.status \/ sub.bound \in excused')
      BY <2>1, <2>2 DEF SubRecords
    <2>4. RowsMirror'
      BY <1>1, <1>3, <1>5, <1>6, <1>7, <2>3, RowsStayMirrored DEF MirrorInv
    <2> QED  BY <1>2, <2>4 DEF MirrorInv
  <1>8. CASE agents' # agents
    <2>1. /\ i # 0 /\ agents' = [agents EXCEPT ![i].status = "past_due"]
          /\ agents[i].bound \in excused' /\ sub' = sub
      BY <1>8 DEF RetrieveFails
    <2>2. \A j \in 1 .. Len(agents) : agents[j] \in AgentRecords
      BY DEF AgentsKept
    <2>3. i \in 1 .. Len(agents)
      BY <2>1 DEF AgentRow, AgentsKept
    <2> HIDE DEF i, s
    <2>4. Len(agents') = Len(agents)
      BY <2>1, <2>3 DEF AgentsKept
    <2>5. ASSUME NEW j \in 1 .. Len(agents)
          PROVE  agents'[j].bound = agents[j].bound
                 /\ (agents'[j].status = agents[j].status \/ agents[j].bound \in excused')
      <3>1. CASE j = i
        BY <2>1, <2>2, <2>3, <3>1 DEF AgentsKept, AgentRecords
      <3>2. CASE j # i
        BY <2>1, <2>3, <3>2 DEF AgentsKept
      <3> QED  BY <3>1, <3>2
    <2>6. ASSUME NEW t \in ProviderSubs, Expected(t)
          PROVE  Expected(t)'
      BY <1>1, <1>3, <1>5, <1>6, <2>6, ExpectedStays
    <2>7. RowsMirror'
      <3>1. sub'.bound # NoSub => sub'.plan = SubPlan[sub'.bound] /\ Mirrors(sub.status, sub.bound)'
        <4>1. sub.bound # NoSub => sub.bound \in ProviderSubs
          BY DEF KindInv, SubRecords
        <4> QED  BY <1>1, <2>1, <2>6, <4>1 DEF MirrorInv, RowsMirror, Mirrors
      <3>2. ASSUME NEW j \in 1 .. Len(agents'), agents'[j].bound # NoSub
            PROVE  Mirrors(agents[j].status, agents[j].bound)'
        <4>1. agents[j].bound \in ProviderSubs
          BY <2>2, <2>4, <2>5, <3>2 DEF AgentRecords
        <4>2. Mirrors(agents[j].status, agents[j].bound)
          BY <2>4, <2>5, <3>2 DEF MirrorInv, RowsMirror
        <4> QED  BY <1>1, <2>4, <2>5, <2>6, <4>1, <4>2 DEF Mirrors, Expected
      <3> QED  BY <3>1, <3>2 DEF RowsMirror
    <2> QED  BY <1>2, <2>7 DEF MirrorInv
  <1> QED  BY <1>7, <1>8

\* What is judged a late write is excused, and any other says what the provider says.
LEMMA Judged ==
    ASSUME KindInv, NEW h \in Handlers, AtWrite(h), Judge(h), UNCHANGED provider
    PROVE  /\ Written(h) = LocalStatus[provider'[task[h].sub]] \/ task[h].sub \in excused'
           /\ excused \ {task[h].sub} \subseteq excused'
  BY DEF Judge, Written

\* The one row of a plan subscription is written whole.
LEMMA MirrorSyncSubscription ==
    ASSUME KindInv, AgentsKept, MirrorInv, NEW h \in Handlers, SyncSubscription(h)
    PROVE  MirrorInv'
  <1>0. Kind(task[h].sub) = "plan" /\ task[h].sub \in ProviderSubs
    BY TaskKept DEF SyncSubscription, AtWrite, Settled
  <1> PICK s \in ProviderSubs : s = task[h].sub
    BY <1>0
  <1>1. /\ UNCHANGED <<provider, changes, events, ledger, agents>> /\ Stop(h) /\ AtWrite(h) /\ Judge(h)
        /\ sub'.bound = s /\ sub'.status = Written(h) /\ sub'.plan = SubPlan[s]
    BY DEF SyncSubscription
  <1>2. LedgerInv'
    BY <1>1 DEF MirrorInv, LedgerInv
  <1>3. Kind(s) = "plan"
    BY <1>0
  <1>4. Written(h) = LocalStatus[provider'[s]] \/ Expected(s)'
    BY <1>1, Judged DEF Expected
  <1>5. ASSUME NEW i \in 1 .. Len(agents), agents[i].bound # NoSub
        PROVE  Mirrors(agents[i].status, agents[i].bound)'
    <2>1. agents[i].bound # s
      BY <1>3, <1>5 DEF AgentsKept
    <2>2. agents[i].bound \in ProviderSubs
      BY <1>5, BoundKept
    <2>3. excused \ {s} \subseteq excused'
      BY <1>1, Judged
    <2>4. Expected(agents[i].bound) => Expected(agents[i].bound)'
      <3>1. ASSUME NEW t \in ProviderSubs, t # s, Expected(t) PROVE Expected(t)'
        BY <1>1, <2>3, <3>1, OthersStayExpected
      <3> QED  BY <1>1, <2>1, <2>2, <3>1 DEF Expected
    <2> QED  BY <1>1, <1>5, <2>4 DEF MirrorInv, RowsMirror, Mirrors
  <1>6. RowsMirror'
    BY <1>1, <1>4, <1>5 DEF RowsMirror, Mirrors
  <1> QED  BY <1>2, <1>6 DEF MirrorInv

\* The row that is written is the only one of its provider subscription, or it is not written.
LEMMA MirrorSyncAgent ==
    ASSUME KindInv, AgentsKept, MirrorInv, NEW h \in Handlers, SyncAgent(h)
    PROVE  MirrorInv'
  <1> DEFINE s == task[h].sub
             again == {j \in 1 .. Len(agents) : agents[j].bound = s}
             i == IF task[h].row # 0 THEN task[h].row
                  ELSE IF again # {} THEN CHOOSE j \in again : TRUE ELSE Len(agents) + 1
             row == [bound |-> s, status |-> Written(h)]
  <1>1. /\ UNCHANGED <<provider, changes, events, ledger, sub>> /\ Stop(h) /\ AtWrite(h)
        /\ \A g \in Handlers \ {h} : task'[g] = task[g]
    BY DEF SyncAgent, Stop, KindInv
  <1>2. LedgerInv'
    BY <1>1 DEF MirrorInv, LedgerInv
  <1>3. task[h] \in TaskRecords /\ Kind(s) = "agent_plan" /\ s \in ProviderSubs
    BY TaskKept DEF SyncAgent, AtWrite, Settled
  <1>4. i \in Nat \ {0} /\ Len(agents) \in Nat /\ agents \in Seq(AgentRecords)
    BY <1>3 DEF TaskRecords, AgentsKept
  <1>5. row.bound = s /\ row.status = Written(h)
    OBVIOUS
  <1>6. CASE Taken(s, i)
    <2>1. agents' = agents /\ excused \subseteq excused' /\ (task[h].type # "sync" => s \in excused')
      BY <1>6 DEF SyncAgent
    <2>2. \A t \in ProviderSubs : Unreceived(t) => Unreceived(t)'
      BY <1>1 DEF Unreceived
    <2>3. \A t \in ProviderSubs : Attends(h, t) => Attends(h, t)' \/ t \in excused'
      BY <2>1 DEF Attends
    <2>4. RowsMirror'
      BY <1>1, <2>1, <2>2, <2>3, RowsStayMirrored DEF MirrorInv
    <2> QED  BY <1>2, <2>4 DEF MirrorInv
  <1>7. CASE ~Taken(s, i)
    <2>1. /\ agents' = IF i > Len(agents) THEN Append(agents, row) ELSE [agents EXCEPT ![i] = row]
          /\ Judge(h)
      BY <1>7 DEF SyncAgent
    <2>0. \A j \in 1 .. Len(agents) : j # i => agents[j].bound # s
      BY <1>7 DEF Taken
    <2> HIDE DEF i, row, again
    <2>2. ASSUME NEW j \in 1 .. Len(agents')
          PROVE  agents'[j] = row \/ (j \in 1 .. Len(agents) /\ j # i /\ agents'[j] = agents[j])
      <3>1. CASE i > Len(agents)
        BY <1>4, <2>1, <3>1
      <3>2. CASE ~(i > Len(agents))
        <4>1. i \in 1 .. Len(agents) /\ Len(agents') = Len(agents)
          BY <1>4, <2>1, <3>2
        <4> QED  BY <1>4, <2>1, <3>2, <4>1
      <3> QED  BY <3>1, <3>2
    <2>3. /\ Written(h) = LocalStatus[provider'[s]] \/ s \in excused'
          /\ excused \ {s} \subseteq excused'
      BY <1>1, <2>1, Judged
    <2>4. ASSUME NEW t \in ProviderSubs, t # s, Expected(t) PROVE Expected(t)'
      BY <1>1, <2>3, <2>4, OthersStayExpected
    <2>5. sub'.bound # NoSub => sub'.plan = SubPlan[sub'.bound] /\ Mirrors(sub.status, sub.bound)'
      <3>1. sub.bound # NoSub => sub.bound \in ProviderSubs /\ sub.bound # s
        BY <1>3 DEF KindInv, SubRecords
      <3> QED  BY <1>1, <2>4, <3>1 DEF MirrorInv, RowsMirror, Mirrors
    <2>6. ASSUME NEW j \in 1 .. Len(agents'), agents'[j].bound # NoSub
          PROVE  Mirrors(agents[j].status, agents[j].bound)'
      <3>1. CASE agents'[j] = row
        BY <1>5, <2>3, <3>1 DEF Mirrors, Expected
      <3>2. CASE j \in 1 .. Len(agents) /\ j # i /\ agents'[j] = agents[j]
        <4>1. agents[j].bound # s /\ agents[j].bound \in ProviderSubs
          BY <2>0, <2>6, <3>2, BoundKept
        <4>2. Mirrors(agents[j].status, agents[j].bound)
          BY <2>6, <3>2 DEF MirrorInv, RowsMirror
        <4> QED  BY <1>1, <2>4, <3>2, <4>1, <4>2 DEF Mirrors, Expected
      <3> QED  BY <2>2, <3>1, <3>2
    <2>7. RowsMirror'
      BY <2>5, <2>6 DEF RowsMirror
    <2> QED  BY <1>2, <2>7 DEF MirrorInv
  <1> QED  BY <1>6, <1>7

\* A step that adds at most a row no subscription is bound to, or only takes away received events.
LEMMA MirrorKept ==
    ASSUME KindInv, AgentsKept, MirrorInv,
           UNCHANGED <<provider, changes, ledger, task, excused>>,
           events' \subseteq events, \A e \in events : e \in events' \/ e.id \in ledger,
           sub'.bound = sub.bound, sub'.plan = sub.plan, sub'.status = sub.status,
           agents' = agents
             \/ agents' = Append(agents, [bound |-> NoSub, status |-> "incomplete"])
    PROVE  MirrorInv'
  <1>1. LedgerInv'
    BY DEF MirrorInv, LedgerInv
  <1>2. ASSUME NEW s \in ProviderSubs, Expected(s) PROVE Expected(s)'
    <2>1. Unreceived(s) => Unreceived(s)'
      BY DEF Unreceived
    <2>2. \A h \in Handlers : Attends(h, s) => Attends(h, s)'
      BY DEF Attends, Free
    <2> QED  BY <1>2, <2>1, <2>2 DEF Expected
  <1>3. sub'.bound # NoSub => sub'.plan = SubPlan[sub'.bound] /\ Mirrors(sub.status, sub.bound)'
    <2>1. sub.bound # NoSub => sub.bound \in ProviderSubs
      BY DEF KindInv, SubRecords
    <2> QED  BY <1>2, <2>1 DEF MirrorInv, RowsMirror, Mirrors, Expected
  <1>4. ASSUME NEW i \in 1 .. Len(agents'), agents'[i].bound # NoSub
        PROVE  Mirrors(agents[i].status, agents[i].bound)'
    <2>1. i \in 1 .. Len(agents) /\ agents'[i] = agents[i]
      <3>1. CASE agents' = agents
        BY <3>1
      <3>2. CASE agents' = Append(agents, [bound |-> NoSub, status |-> "incomplete"])
        BY <1>4, <3>2 DEF AgentsKept
      <3> QED  BY <3>1, <3>2
    <2>2. agents[i].bound \in ProviderSubs
      BY <1>4, <2>1, BoundKept
    <2> QED  BY <1>2, <1>4, <2>1, <2>2 DEF MirrorInv, RowsMirror, Mirrors, Expected
  <1>5. RowsMirror'
    BY <1>3, <1>4 DEF RowsMirror
  <1> QED  BY <1>1, <1>5 DEF MirrorInv

LEMMA MirrorInit == Init => MirrorInv
  BY DEF Init, MirrorInv, LedgerInv, RowsMirror

LEMMA MirrorStep ==
    ASSUME Inductive, MirrorInv, [Next]_vars
    PROVE  MirrorInv'
  <1> USE DEF Inductive
  <1>1. CASE UNCHANGED billingVars
    BY <1>1, MirrorKept DEF billingVars
  <1>2. ASSUME NEW s \in ProviderSubs, Purchase(s) PROVE MirrorInv'
    BY <1>2, MirrorEmit DEF Purchase
  <1>3. ASSUME NEW s \in ProviderSubs, NEW st \in ProviderStatus, NEW type \in EventTypes,
               ProviderChanges(s, st, type)
        PROVE  MirrorInv'
    BY <1>3, MirrorEmit DEF ProviderChanges
  <1>4. ASSUME NEW recorded \in BOOLEAN, Checkout \/ AgentCheckout(recorded)
        PROVE  MirrorInv'
    <2>1. /\ sub' = [sub EXCEPT !.customer = TRUE]
          /\ UNCHANGED <<provider, changes, events, ledger, task, excused>>
          /\ agents' = agents \/ agents' = Append(agents, [bound |-> NoSub, status |-> "incomplete"])
      BY <1>4 DEF Checkout, AgentCheckout, RecordPending
    <2>2. sub'.bound = sub.bound /\ sub'.plan = sub.plan /\ sub'.status = sub.status
      BY <2>1 DEF KindInv, SubRecords
    <2> QED  BY <2>1, <2>2, MirrorKept
  <1>5. ASSUME NEW h \in Handlers, NEW e \in events, Receive(h, e) PROVE MirrorInv'
    BY <1>5, MirrorReceive
  <1>6. ASSUME NEW e \in events, Answered(e) PROVE MirrorInv'
    BY <1>6, MirrorKept DEF Answered
  <1>7. ASSUME NEW h \in Handlers, NEW named \in ProviderSubs \cup {NoSub},
               Sync(h, named) \/ AgentSync(h, named)
        PROVE  MirrorInv'
    BY <1>7, MirrorStart DEF Sync, AgentSync
  <1>8. ASSUME NEW h \in Handlers, Retrieve(h) \/ SyncRetrieves(h) PROVE MirrorInv'
    BY <1>8, MirrorRetrieve, MirrorSyncRetrieves
  <1>9. ASSUME NEW h \in Handlers, NEW late \in BOOLEAN, RetrieveFails(h, late) PROVE MirrorInv'
    BY <1>9, MirrorFails
  <1>10. ASSUME NEW h \in Handlers, SyncSubscription(h) \/ SyncAgent(h) PROVE MirrorInv'
    BY <1>10, MirrorSyncSubscription, MirrorSyncAgent
  <1> QED
    BY <1>1, <1>2, <1>3, <1>4, <1>5, <1>6, <1>7, <1>8, <1>9, <1>10
       DEF Next, BillingNext, ProjectsStep, vars

\* At rest, with every event answered and no handler at work, each row says what the provider
\* says of the subscription it names, unless that subscription's event was lost after its
\* identifier was recorded, or written late by a slower handler.
THEOREM RowsMirrorAtRest == Spec => []AtRestMirrors
  <1>1. Inductive /\ MirrorInv => AtRestMirrors
    <2> SUFFICES ASSUME RowsMirror, events = {}, \A h \in Handlers : Free(h)
                 PROVE  /\ sub.bound \notin excused \cup {NoSub} =>
                             /\ sub.status = LocalStatus[provider[sub.bound]]
                             /\ sub.plan = SubPlan[sub.bound]
                        /\ \A i \in 1 .. Len(agents) :
                             agents[i].bound \notin excused \cup {NoSub} =>
                               agents[i].status = LocalStatus[provider[agents[i].bound]]
      BY DEF AtRestMirrors, MirrorInv
    <2>1. \A s : Expected(s) => s \in excused
      BY DEF Expected, Unreceived, Attends
    <2> QED  BY <2>1 DEF RowsMirror, Mirrors
  <1>2. Inductive /\ MirrorInv /\ [Next]_vars => MirrorInv'
    BY MirrorStep
  <1> QED  BY <1>1, <1>2, MirrorInit, InductiveInvariant, PTL DEF Spec

-----------------------------------------------------------------------------
(* Refinement of the abstract pool *)

\* The pool each request was quoted, as ResourcePool sees it.
Quote == [r \in Requests |-> IF InTransaction(r) THEN req[r].pool ELSE NoRequest]

LEMMA PoolRefinedInit == Init => Pool!Init
  <1> SUFFICES ASSUME Init PROVE Pool!Init
    OBVIOUS
  <1>1. \A r \in Requests : ~InTransaction(r)
    BY DEF Init, ProjectsInit, InTransaction, Idle
  <1> QED  BY <1>1, SubKept, KindInit DEF Pool!Init, Init, ProjectsInit

\* A step that changes one request changes one quote.
LEMMA QuoteUpdate ==
    ASSUME NEW r \in Requests, \A q \in Requests : q # r => req'[q] = req[q]
    PROVE  Quote' = [Quote EXCEPT ![r] = IF InTransaction(r)' THEN req'[r].pool ELSE NoRequest]
  BY DEF Quote, InTransaction, Idle

\* What Begin keeps of a request is a request.
LEMMA BeginRecord ==
    ASSUME Inductive, NEW r \in Requests, req[r] \in RequestRecords, Begin(r), CanAllocate(r)
    PROVE  req'[r] # NoRequest
  <1> DEFINE R == [req[r] EXCEPT !.pc = "commit", !.attempts = @ + 1, !.seen = alloc,
                                 !.pool = PlanPool[sub.plan], !.conflict = FALSE]
  <1>1. req'[r] = R
    BY DEF Begin, Inductive, PoolInv, ProjectsTypeOK
  <1>2. req[r].attempts + 1 \in 0 .. MaxAttempts
    BY ProjectsAssumption DEF Begin, AttemptLeft, RequestRecords, Inductive, PoolInv
  <1>3. R \in RequestRecords
    BY <1>2, SubKept DEF RequestRecords, ProjectsTypeOK, Inductive, PoolInv
  <1> QED  BY <1>1, <1>3, ProjectsAssumption

LEMMA CommitGrants ==
    ASSUME Inductive, NEW r \in Requests, Commit(r)
    PROVE  \E p \in Projects, n \in Amounts : Pool!Grant(r, p, n)
  <1>1. req[r] \in RequestRecords /\ InTransaction(r) /\ ~MustAbort(r)
    BY RequestKept DEF Commit, InTransaction, Inductive, PoolInv
  <1>a. PICK p \in Projects : p = req[r].project
    BY <1>1 DEF RequestRecords
  <1>b. PICK n \in Amounts : n = req[r].amount
    BY <1>1 DEF RequestRecords
  <1>2. p \in Projects /\ n \in Amounts /\ req[r].seen \in Allocations
        /\ req[r].pool \in {PlanPool[x] : x \in Plans}
    BY <1>1, <1>a, <1>b DEF RequestRecords
  <1>3. /\ \A x \in Projects : x # p => alloc[x] <= req[r].seen[x]
        /\ Planned(req[r].seen, p, n) <= req[r].pool
    BY <1>1, <1>a, <1>b DEF Inductive, PoolInv, SnapshotSound
  <1>4. Planned(alloc, p, n) <= Planned(req[r].seen, p, n)
    BY <1>2, <1>3, PlannedMonotone DEF Inductive, PoolInv, ProjectsTypeOK
  <1>5. /\ Planned(alloc, p, n) \in Nat /\ Planned(req[r].seen, p, n) \in Nat
        /\ req[r].pool \in Nat
    BY <1>2, AllocationUpdate, ProjectsAssumption
       DEF Planned, Inductive, PoolInv, ProjectsTypeOK
  <1>6. Planned(alloc, p, n) <= req[r].pool
    BY <1>3, <1>4, <1>5
  <1>7. Quote[r] = req[r].pool /\ Quote[r] # NoRequest
    BY <1>1, <1>2, ProjectsAssumption DEF Quote
  <1>8. Quote' = [Quote EXCEPT ![r] = NoRequest]
    <2>1. ASSUME NEW q \in Requests
          PROVE  Quote'[q] = IF q = r THEN NoRequest ELSE Quote[q]
      <3>1. CASE q = r
        BY <3>1 DEF Quote, Commit, InTransaction, Idle
      <3>2. CASE q # r /\ InTransaction(q)
        <4>1. req[q] \in RequestRecords
          BY <3>2, RequestKept DEF InTransaction, Inductive, PoolInv
        <4>2. req'[q] = [req[q] EXCEPT !.conflict = TRUE]
          BY <3>2 DEF Commit
        <4>3. req'[q].pc = req[q].pc /\ req'[q].pool = req[q].pool /\ req'[q] \in RequestRecords
          BY <4>1, <4>2 DEF RequestRecords
        <4> QED  BY <3>2, <4>3, ProjectsAssumption DEF Quote, InTransaction, Idle
      <3>3. CASE q # r /\ ~InTransaction(q)
        BY <3>3 DEF Quote, Commit, InTransaction, Idle
      <3> QED  BY <3>1, <3>2, <3>3
    <2> QED  BY <2>1 DEF Quote
  <1>9. alloc' = [alloc EXCEPT ![p] = n] /\ UNCHANGED sub
    BY <1>a, <1>b DEF Commit
  <1>10. Pool!Grant(r, p, n)
    BY <1>2, <1>6, <1>7, <1>8, <1>9 DEF Pool!Grant, Pool!Planned, Planned, Quote
  <1> QED  BY <1>2, <1>10

LEMMA PoolRefinedStep ==
    Inductive /\ [Next]_vars => [Pool!Next]_(Pool!poolVars)
  <1> SUFFICES ASSUME Inductive, [Next]_vars
               PROVE  Pool!Next \/ UNCHANGED Pool!poolVars
    OBVIOUS
  <1>1. ASSUME UNCHANGED projectVars
        PROVE  Quote' = Quote /\ alloc' = alloc
    BY <1>1 DEF projectVars, Quote, InTransaction, Idle
  <1>2. CASE ProjectsStep
    <2>0. UNCHANGED sub
      BY <1>2 DEF ProjectsStep, billingVars
    <2>1. ASSUME NEW r \in Requests, NEW k, NEW p \in Projects, NEW n \in Amounts,
                 Accept(r, k, p, n)
          PROVE  UNCHANGED Pool!poolVars
      <3>1. \A q \in Requests : q # r => req'[q] = req[q]
        BY <2>1 DEF Accept, Inductive, PoolInv, ProjectsTypeOK
      <3>2. ~InTransaction(r) /\ ~InTransaction(r)'
        BY <2>1 DEF Accept, InTransaction, Idle, Inductive, PoolInv, ProjectsTypeOK
      <3>3. Quote' = Quote
        BY <3>1, <3>2, QuoteUpdate DEF Quote
      <3> QED  BY <2>0, <2>1, <3>3 DEF Accept, Quote, Pool!poolVars
    <2>2. ASSUME NEW r \in Requests, Begin(r)
          PROVE  Pool!Next \/ UNCHANGED Pool!poolVars
      <3>1. \A q \in Requests : q # r => req'[q] = req[q]
        BY <2>2 DEF Begin, Finish, Inductive, PoolInv, ProjectsTypeOK
      <3>2. ~InTransaction(r) /\ alloc' = alloc
        BY <2>2 DEF Begin, InTransaction
      <3>3. CASE CanAllocate(r)
        <4>1. /\ req'[r] = [req[r] EXCEPT !.pc = "commit", !.attempts = @ + 1, !.seen = alloc,
                                         !.pool = PlanPool[sub.plan], !.conflict = FALSE]
              /\ req[r] \in RequestRecords
          BY <2>2, <3>3, RequestKept DEF Begin, Inductive, PoolInv, ProjectsTypeOK
        <4>2. req'[r].pc = "commit" /\ req'[r].pool = PlanPool[sub.plan]
          BY <4>1 DEF RequestRecords
        <4>3. req'[r] # NoRequest
          BY <2>2, <3>3, <4>1, BeginRecord
        <4>4. Quote' = [Quote EXCEPT ![r] = PlanPool[sub.plan]]
          BY <3>1, <4>2, <4>3, QuoteUpdate DEF InTransaction, Idle
        <4> QED  BY <2>0, <3>2, <4>4 DEF Pool!Next, Pool!Ask, Quote
      <3>4. CASE ~CanAllocate(r)
        <4>1. ~InTransaction(r)'
          BY <2>2, <3>4 DEF Begin, Finish, InTransaction, Idle, Inductive, PoolInv, ProjectsTypeOK
        <4>2. Quote' = Quote
          BY <3>1, <3>2, <4>1, QuoteUpdate DEF Quote
        <4> QED  BY <2>0, <3>2, <4>2 DEF Quote, Pool!poolVars
      <3> QED  BY <3>3, <3>4
    <2>3. ASSUME NEW r \in Requests, Commit(r)
          PROVE  Pool!Next
      <3>1. \E p \in Projects, n \in Amounts : Pool!Grant(r, p, n)
        BY <2>3, CommitGrants
      <3> QED  BY <3>1 DEF Pool!Next
    <2>4. ASSUME NEW r \in Requests, Abort(r)
          PROVE  Pool!Next
      <3>1. /\ \A q \in Requests : q # r => req'[q] = req[q]
            /\ alloc' = alloc
        BY <2>4 DEF Abort, Finish, Inductive, PoolInv, ProjectsTypeOK
      <3>2. ~InTransaction(r)'
        <4>1. req[r] \in RequestRecords
          BY <2>4, RequestKept DEF Abort, InTransaction, Inductive, PoolInv
        <4> QED  BY <2>4, <4>1 DEF Abort, Finish, InTransaction, Idle, Inductive, PoolInv,
                                   ProjectsTypeOK, RequestRecords
      <3>3. Quote' = [Quote EXCEPT ![r] = NoRequest]
        BY <3>1, <3>2, QuoteUpdate
      <3> QED  BY <2>0, <3>1, <3>3 DEF Pool!Next, Pool!Drop, Quote
    <2>5. ASSUME NEW p \in Projects, DeleteProject(p)
          PROVE  Pool!Next
      <3>1. Quote' = Quote /\ alloc' = [alloc EXCEPT ![p] = 0]
        BY <2>5 DEF DeleteProject, Quote, InTransaction, Idle
      <3> QED  BY <2>0, <2>5, <3>1 DEF Pool!Next, Pool!Release, Quote
    <2> QED
      BY <1>2, <2>1, <2>2, <2>3, <2>4, <2>5 DEF ProjectsStep, ProjectsNext, AskCreate, AskResize
  <1>3. CASE BillingNext
    <2>1. UNCHANGED projectVars
      BY <1>3 DEF BillingNext, Purchase, ProviderChanges, Checkout, AgentCheckout, Receive, Answered,
                  Sync, AgentSync, Retrieve, SyncRetrieves, RetrieveFails, SyncSubscription, SyncAgent
    <2>2. sub'.plan \in Plans
      BY InductiveStep DEF Inductive, KindInv, SubRecords
    <2> QED  BY <1>1, <2>1, <2>2 DEF Pool!Next, Pool!SetPool, Quote
  <1>4. CASE UNCHANGED vars
    BY <1>1, <1>4 DEF vars, billingVars, Quote, Pool!poolVars
  <1> QED  BY <1>2, <1>3, <1>4 DEF Next

\* The handlers, with their snapshots, conflicts and retries and with the plan
\* changed beside them, grant only what the abstract pool grants.
THEOREM PoolIsImplemented == Spec => PoolImplemented
  <1>1. Spec => Pool!Init /\ [][Pool!Next]_(Pool!poolVars)
    BY PoolRefinedInit, PoolRefinedStep, InductiveInvariant, PTL DEF Spec
  <1> QED  BY <1>1 DEF PoolImplemented, Pool!Spec
=============================================================================
