------------------------------- MODULE Billing -------------------------------
(***************************************************************************)
(* The subscription behind the pool: checkout at the payment provider, its  *)
(* webhook events, and the synchronisations a user asks for, beside the     *)
(* requests of Projects that read what they write.                          *)
(* A provider subscription has one plan for its life and changes status.    *)
(* An event names the subscription only: its handler reads the provider.    *)
(***************************************************************************)
EXTENDS Projects, Sequences

CONSTANTS
    ProviderSubs,   \* subscriptions the provider may come to hold
    SubPlan,        \* the plan each was bought for; AgentPlan for agent plans
    AgentPlan,
    FreePlan,
    Handlers,       \* webhook deliveries and synchronisations handled at once
    MaxChanges,     \* bound: changes at the provider
    MaxAgentRows,   \* bound: rows of agent_subscriptions
    NoSub,          \* no provider subscription
    NoTask          \* what an idle handler slot holds

VARIABLES
    provider,   \* status of each subscription at the provider, or "none"
    offered,    \* kinds of checkout sessions that were opened
    changes,    \* how many events the provider has emitted
    events,     \* events not yet answered with 200
    ledger,     \* webhook_events: identifiers already received
    agents,     \* agent_subscriptions, oldest first
    task,       \* the handlers at work
    excused     \* ghost: subscriptions with a lost event or a late write

billingVars == <<sub, provider, offered, changes, events, ledger, agents, task, excused>>
vars == <<projectVars, billingVars>>

Kinds == {"plan", "agent_plan"}
EventTypes == {"subscription", "payment"}
ProviderStatus == {"active", "on_hold", "cancelled"}
Kind(s) == IF SubPlan[s] = AgentPlan THEN "agent_plan" ELSE "plan"

\* What a handler keeps: the provider subscription it goes for, what the provider said of it, and
\* the agent row it will write, 0 for none.
TaskRecords ==
    [pc : {"read", "write"}, sub : ProviderSubs \cup {NoSub}, type : EventTypes \cup {"sync"},
     kind : Kinds, status : ProviderStatus \cup {"none"}, row : Nat]

ASSUME BillingAssumption ==
    /\ SubPlan \in [ProviderSubs -> Plans \cup {AgentPlan}]
    /\ FreePlan \in Plans
    /\ AgentPlan \notin Plans
    /\ NoSub \notin ProviderSubs
    /\ MaxChanges \in Nat
    /\ NoTask \notin TaskRecords

\* mapBillingSubscriptionStatus
LocalStatus == [active |-> "active", on_hold |-> "past_due", cancelled |-> "canceled"]

Priority == [active |-> 0, on_hold |-> 1, cancelled |-> 4]

\* pickPreferredBillingSubscription: ties are broken by dates.
Preferred(S) == {s \in S : \A t \in S : Priority[provider[s]] <= Priority[provider[t]]}
Held == {s \in ProviderSubs : provider[s] # "none"}

-----------------------------------------------------------------------------
(* The provider *)

Emit(s, type) ==
    /\ changes < MaxChanges
    /\ changes' = changes + 1
    /\ events' = events \cup {[id |-> changes + 1, sub |-> s, type |-> type]}

\* A checkout is paid: the subscription begins.
Purchase(s) ==
    /\ provider[s] = "none"
    /\ Kind(s) \in offered
    /\ provider' = [provider EXCEPT ![s] = "active"]
    /\ Emit(s, "subscription")
    /\ UNCHANGED <<projectVars, sub, offered, ledger, agents, task, excused>>

\* A renewal, a late payment or a cancellation, told by an event of either type.
ProviderChanges(s, st, type) ==
    /\ provider[s] \notin {"none", "cancelled", st}
    /\ provider' = [provider EXCEPT ![s] = st]
    /\ Emit(s, type)
    /\ UNCHANGED <<projectVars, sub, offered, ledger, agents, task, excused>>

-----------------------------------------------------------------------------
(* Checkouts *)

\* POST /billing/checkout-session: the row keeps the provider's customer.
Checkout ==
    /\ "plan" \notin offered
    /\ offered' = offered \cup {"plan"}
    /\ sub' = [sub EXCEPT !.customer = TRUE]
    /\ UNCHANGED <<projectVars, provider, changes, events, ledger, agents, task, excused>>

\* createOrRefreshPendingAgentSubscription
IsPending(row) == row.status = "incomplete" /\ row.bound = NoSub
RecordPending ==
    agents' = IF agents # <<>> /\ IsPending(agents[Len(agents)])
                THEN agents
                ELSE Append(agents, [bound |-> NoSub, status |-> "incomplete"])

\* POST /billing/agent/checkout-session: the session is opened first, and the
\* row is recorded unless that fails.
AgentCheckout(recorded) ==
    /\ Len(agents) < MaxAgentRows
    /\ offered' = offered \cup {"agent_plan"}
    /\ sub' = [sub EXCEPT !.customer = TRUE]
    /\ IF recorded THEN RecordPending ELSE UNCHANGED agents
    /\ UNCHANGED <<projectVars, provider, changes, events, ledger, task, excused>>

-----------------------------------------------------------------------------
(* Handlers: an event's reads the provider, finds the row and writes it; a synchronisation *)
(* has its row before it reads the provider.                                               *)

Free(h) == task[h] = NoTask
Start(h, s, type, kind, row) ==
    task' = [task EXCEPT ![h] = [pc |-> "read", sub |-> s, type |-> type, kind |-> kind,
                                 status |-> "none", row |-> row]]
Stop(h) == task' = [task EXCEPT ![h] = NoTask]

\* POST /billing/webhook: the event is recorded before it is applied.
Receive(h, e) ==
    /\ Free(h)
    /\ e.id \notin ledger
    /\ ledger' = ledger \cup {e.id}
    /\ Start(h, e.sub, e.type, Kind(e.sub), 0)
    /\ UNCHANGED <<projectVars, sub, provider, offered, changes, events, agents, excused>>

\* The answer 200 reaches the provider, which stops: that of the handler, or of
\* a repeated delivery, which is called a duplicate however the first one ended.
Answered(e) ==
    /\ e.id \in ledger
    /\ events' = events \ {e}
    /\ UNCHANGED <<projectVars, sub, provider, offered, changes, ledger, agents, task, excused>>

\* POST /billing/sync-subscription: the subscription the request names, or the bound one.
\* Without a customer there is neither, nor anything to list.
Sync(h, named) ==
    /\ Free(h)
    /\ sub.customer
    /\ named \in Held \cup {NoSub}
    /\ Start(h, IF named # NoSub THEN named ELSE sub.bound, "sync", "plan", 0)
    /\ UNCHANGED <<projectVars, sub, provider, offered, changes, events, ledger, agents, excused>>

\* POST /billing/agent/sync-subscription: the organization's latest agent row is the one that
\* will be written, whichever subscription is found.
LatestBound == IF agents = <<>> THEN NoSub ELSE agents[Len(agents)].bound
AgentSync(h, named) ==
    /\ Free(h)
    /\ named \in Held \cup {NoSub}
    /\ Start(h, IF named # NoSub THEN named ELSE LatestBound, "sync", "agent_plan", Len(agents))
    /\ UNCHANGED <<projectVars, sub, provider, offered, changes, events, ledger, agents, excused>>

AtRead(h) == ~Free(h) /\ task[h].pc = "read"

\* findTargetAgentSubscription: by provider subscription, else the latest of
\* the customer or of the organization, which are the same rows; 0 for none.
AgentRow(s) ==
    LET bound == {i \in 1 .. Len(agents) : agents[i].bound = s}
    IN IF bound # {} THEN CHOOSE i \in bound : TRUE ELSE Len(agents)

\* An event's handler: retrieveBillingSubscription, then the row to write.
Retrieve(h) ==
    /\ AtRead(h)
    /\ task[h].type # "sync"
    /\ task' = [task EXCEPT ![h].pc = "write", ![h].status = provider[task[h].sub],
                            ![h].row = IF task[h].kind = "plan" THEN 0
                                        ELSE AgentRow(task[h].sub)]
    /\ UNCHANGED <<projectVars, sub, provider, offered, changes, events, ledger, agents, excused>>

\* What the customer has, as a synchronisation lists it: only agent plans for an agent's.
ListedFor(kind) == {s \in Held : kind = "agent_plan" => Kind(s) = "agent_plan"}

SyncRetrievesMutant(h) ==
    /\ AtRead(h)
    /\ task[h].type = "sync"
    /\ \E s \in ({task[h].sub} \ {NoSub}) \cup Preferred(ListedFor(task[h].kind)) :
          task' = [task EXCEPT ![h].pc = "write", ![h].sub = s, ![h].status = provider[s]]
    /\ UNCHANGED <<projectVars, sub, provider, offered, changes, events, ledger, agents, excused>>

\* A synchronisation: the subscription it goes for or, when there is none or it cannot be
\* retrieved, the customer's most promising one.  One of the other kind ends it.
SyncRetrieves(h) ==
    /\ AtRead(h)
    /\ task[h].type = "sync"
    /\ \E s \in ({task[h].sub} \ {NoSub}) \cup Preferred(ListedFor(task[h].kind)) :
          IF Kind(s) = task[h].kind
            THEN task' = [task EXCEPT ![h].pc = "write", ![h].sub = s, ![h].status = provider[s]]
            ELSE Stop(h)
    /\ UNCHANGED <<projectVars, sub, provider, offered, changes, events, ledger, agents, excused>>

\* A synchronisation finds nothing, or the provider does not answer: 500, and the delivery that
\* follows is a duplicate.  A payment's handler goes on without the subscription and writes at most
\* that the payment is late.
RetrieveFails(h, late) ==
    /\ AtRead(h)
    /\ late => task[h].type = "payment"
    /\ Stop(h)
    /\ LET s == task[h].sub
           i == AgentRow(s)
       IN \/ /\ late /\ task[h].kind = "plan"
             /\ sub' = [sub EXCEPT !.status = "past_due"]
             /\ excused' = excused \cup {s, sub.bound}
             /\ UNCHANGED agents
          \/ /\ late /\ task[h].kind = "agent_plan" /\ i # 0
             /\ agents' = [agents EXCEPT ![i].status = "past_due"]
             /\ excused' = excused \cup {s, agents[i].bound}
             /\ UNCHANGED sub
          \/ /\ ~late
             /\ excused' = IF task[h].type = "sync" THEN excused ELSE excused \cup {s}
             /\ UNCHANGED <<sub, agents>>
    /\ UNCHANGED <<projectVars, provider, offered, changes, events, ledger>>

AtWrite(h) == ~Free(h) /\ task[h].pc = "write"
Written(h) == LocalStatus[task[h].status]

\* A write of what the provider no longer says is remembered until a later one.
Judge(h) ==
    excused' = IF task[h].status = provider[task[h].sub]
                 THEN excused \ {task[h].sub} ELSE excused \cup {task[h].sub}

SyncSubscriptionMutant(h) ==
    /\ AtWrite(h)
    /\ task[h].kind = "plan"
    /\ sub' = [status |-> Written(h), customer |-> TRUE, bound |-> task[h].sub,
               plan |-> IF sub.bound = NoSub THEN SubPlan[task[h].sub] ELSE sub.plan]
    /\ Judge(h)
    /\ Stop(h)
    /\ UNCHANGED <<projectVars, provider, offered, changes, events, ledger, agents>>

\* syncSubscriptionRecord: status, plan and pool in one update.
SyncSubscription(h) ==
    /\ AtWrite(h)
    /\ task[h].kind = "plan"
    /\ sub' = [status |-> Written(h), plan |-> SubPlan[task[h].sub],
               bound |-> task[h].sub, customer |-> TRUE]
    /\ Judge(h)
    /\ Stop(h)
    /\ UNCHANGED <<projectVars, provider, offered, changes, events, ledger, agents>>

\* The provider subscription of a row is unique: a second row is refused it.
Taken(s, i) == \E j \in 1 .. Len(agents) : j # i /\ agents[j].bound = s

\* syncAgentSubscriptionRecord: update the row that was found, or look again by
\* provider subscription and create.  A refused write is a 500: an event's is lost by it.
SyncAgent(h) ==
    /\ AtWrite(h)
    /\ task[h].kind = "agent_plan"
    /\ LET s == task[h].sub
           again == {j \in 1 .. Len(agents) : agents[j].bound = s}
           i == IF task[h].row # 0 THEN task[h].row
                ELSE IF again # {} THEN CHOOSE j \in again : TRUE ELSE Len(agents) + 1
           row == [bound |-> s, status |-> Written(h)]
       IN IF Taken(s, i)
            THEN /\ UNCHANGED agents
                 /\ excused' = IF task[h].type = "sync" THEN excused ELSE excused \cup {s}
            ELSE /\ agents' = IF i > Len(agents) THEN Append(agents, row)
                             ELSE [agents EXCEPT ![i] = row]
                 /\ Judge(h)
    /\ Stop(h)
    /\ UNCHANGED <<projectVars, sub, provider, offered, changes, events, ledger>>

-----------------------------------------------------------------------------
Init ==
    /\ ProjectsInit
    /\ sub = [status |-> "active", plan |-> FreePlan, bound |-> NoSub, customer |-> FALSE]
    /\ provider = [s \in ProviderSubs |-> "none"]
    /\ offered = {} /\ changes = 0 /\ events = {} /\ ledger = {} /\ agents = <<>>
    /\ task = [h \in Handlers |-> NoTask]
    /\ excused = {}

\* Requests beside everything else.
ProjectsStep == ProjectsNext /\ UNCHANGED billingVars

BillingNext ==
    \/ \E s \in ProviderSubs :
         \/ Purchase(s)
         \/ \E st \in ProviderStatus, type \in EventTypes :
              ProviderChanges(s, st, type)
    \/ Checkout
    \/ \E recorded \in BOOLEAN : AgentCheckout(recorded)
    \/ \E h \in Handlers, e \in events : Receive(h, e)
    \/ \E e \in events : Answered(e)
    \/ \E h \in Handlers :
         \/ \E named \in ProviderSubs \cup {NoSub} : Sync(h, named) \/ AgentSync(h, named)
         \/ Retrieve(h) \/ SyncRetrieves(h)
         \/ \E late \in BOOLEAN : RetrieveFails(h, late)
         \/ SyncSubscription(h) \/ SyncAgent(h)

Next == ProjectsStep \/ BillingNext

Spec == Init /\ [][Next]_vars
-----------------------------------------------------------------------------
\* A provider subscription for an agent plan never becomes the organization's
\* subscription, nor one for a plan an agent row, though both have the same
\* customer and are looked up by it; no two agent rows share one.
KindsKeptApart ==
    /\ sub.bound # NoSub => Kind(sub.bound) = "plan"
    /\ \A i \in 1 .. Len(agents) :
         agents[i].bound # NoSub =>
           /\ Kind(agents[i].bound) = "agent_plan"
           /\ ~Taken(agents[i].bound, i)

\* Once every event is answered and no handler is at work, each row says what
\* the provider says of the subscription it names, but for one whose event was
\* lost after its identifier was recorded, or written late by a slower handler.
AtRestMirrors ==
    (events = {} /\ \A h \in Handlers : Free(h)) =>
      /\ sub.bound \notin excused \cup {NoSub} =>
           /\ sub.status = LocalStatus[provider[sub.bound]]
           /\ sub.plan = SubPlan[sub.bound]
      /\ \A i \in 1 .. Len(agents) :
           agents[i].bound \notin excused \cup {NoSub} =>
             agents[i].status = LocalStatus[provider[agents[i].bound]]

\* The handlers implement the abstract pool: every allocation fits, beside all
\* the allocations standing when it commits, in the pool its transaction read.
Pool == INSTANCE ResourcePool WITH
    Pools <- {PlanPool[p] : p \in Plans},
    NoQuote <- NoRequest,
    pool <- PlanPool[sub.plan],
    quote <- [r \in Requests |-> IF InTransaction(r) THEN req[r].pool ELSE NoRequest]
PoolImplemented == Pool!Spec
=============================================================================
