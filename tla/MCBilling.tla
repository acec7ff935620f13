------------------------------ MODULE MCBilling ------------------------------
(***************************************************************************)
(* A small organization: two projects, two requests at a time, a free       *)
(* and a paid plan, one provider subscription of each kind beside a second  *)
(* plan subscription; or what two tabs show of two organizations, whose     *)
(* subscriptions change.  An initial state chooses the one that moves.      *)
(***************************************************************************)
EXTENDS Billing, Workspace, FiniteSetsExt, TLC

CONSTANTS r1, r2, h1, h2, p1, p2, s1, s2, a1, i1, i2, free, dev, agentPlan

VARIABLE moving     \* the part that moves

MCPlanPool == free :> 1 @@ dev :> 2
MCPlanProjects == free :> 1 @@ dev :> 3
MCSubPlan == [s \in ProviderSubs |-> IF s = s1 THEN dev ELSE IF s = a1 THEN agentPlan ELSE free]
MCTotal(f) == MapThenSumSet(LAMBDA p : f[p], DOMAIN f)

\* The requests meet the billing handlers only in the subscription row: they are
\* explored beside a plan's purchase and one change of it.  Plans and agent
\* plans meet in the customer: both together are explored up to two changes, and
\* so is a synchronisation.
Projecting == \E p \in Projects : alloc[p] # 0 \/ \E r \in Requests : ~Idle(r)
Busy == {h \in Handlers : ~Free(h)}
Apart ==
    /\ Projecting =>
         /\ changes <= 2 /\ "agent_plan" \notin offered /\ excused = {}
         /\ Cardinality(events) + Cardinality(Busy) <= 2
         /\ \A h \in Busy : task[h].type = "subscription"
         /\ \A e \in events : e.type = "subscription"
         /\ Cardinality(Busy) <= 1 /\ Cardinality(events) <= 1
         /\ events # {} /\ Busy = {} => ledger # 1 .. changes
    /\ offered = Kinds => changes <= 2 /\ Len(agents) <= 1
    /\ Cardinality({h \in Busy : task[h].type = "sync"}) <= 1
    /\ (\E h \in Busy : task[h].type = "sync") => changes <= 2

\* One tab with pages of every kind, and one that hears of its subscriptions.
PagesOfWindows == (i1 :> {"databases", "billing", "team"}) @@ (i2 :> {"security"})

\* Bounds of the workspace.  Odd: kinds of call that are late for what is selected or made twice, or
\* whose answer was amiss; one at a time, and none beside a button's.
Late(i) == {c \in Calls(i) : c.of \notin {windows[i].org, NoOrg}}
Twice(i) == {c.kind : c \in {d \in Calls(i) : Cardinality({e \in Calls(i) : e.kind = d.kind}) > 1}}
Amiss(i) == IF windows[i].amiss = {"projects", "subscription"} THEN {"projects"} ELSE windows[i].amiss
Odd(i) == {c.kind : c \in Late(i)} \cup Twice(i) \cup Amiss(i)
Posting(i) == windows[i].post # NoPost
Fresh(i) == windows[i].page = NoPage
InTurn(i) ==
    {c.kind : c \in Calls(i) \ Late(i)} \ {"sync", "page"} \in
        {{}, {"organizations"}, {"failure"}, {"projects", "subscription"}, {"subscription"}, {"note"},
         {"subscription", "note"}, {"projects", "subscription", "note"}}
Simple(i) == InTurn(i) /\ windows[i].amiss = {} /\ Odd(i) \subseteq {"subscription"}

\* Two tabs are open while there is one organization, one of them on /billing.
WorkspaceBound ==
    /\ \A i \in Windows :
          /\ Cardinality(Odd(i)) <= IF Posting(i) THEN 0 ELSE 1
          /\ Posting(i) \/ Odd(i) # {} => InTurn(i)
          /\ \A c \in Calls(i) : Cardinality({d \in Calls(i) : d.kind = c.kind}) <= 2
    /\ Cardinality({o \in Orgs : plans[o] > 0}) <= 1
    /\ ~Fresh(i2) =>
          /\ Cardinality(joined) = 1 /\ stored \in joined
          /\ Simple(i1) /\ Simple(i2) /\ ~Posting(i1) /\ (Posting(i2) => Calls(i1) = {})
          /\ Calls(i1) = {} \/ Calls(i2) = {} \/ Cardinality(underway) <= 2
          /\ windows[i1].page = "billing"

\* A subscription changes, the second tab is opened and another organization is selected while
\* little is under way.
Sparing ==
    /\ plans' # plans /\ windows' = windows => Cardinality(underway) <= (IF Fresh(i2) THEN 1 ELSE 2)
    /\ Fresh(i2) /\ windows'[i2] # windows[i2] => Calls(i1) = {} /\ Rendered(i1) /\ windows[i1].page = "billing"
    /\ \A i \in Windows : windows'[i].org \notin {windows[i].org, NoOrg} => Cardinality(Calls(i)) <= 1

\* Organizations can be told apart by what is selected only.
Sym == Permutations({h1, h2}) \cup Permutations({r1, r2}) \cup Permutations({p1, p2}) \cup Permutations(Orgs)

TenancyInit ==
    /\ moving \in {"billing", "workspace"}
    /\ Init
    /\ WorkspaceInit /\ (moving # "workspace" => stored = NoOrg /\ joined = {})

TenancyNext ==
    /\ \/ moving = "billing" /\ Next
       \/ moving # "billing" /\ UNCHANGED vars
    /\ \/ moving = "workspace" /\ WorkspaceNext /\ Sparing
       \/ moving # "workspace" /\ UNCHANGED workspaceVars
    /\ UNCHANGED moving

TenancySpec == TenancyInit /\ [][TenancyNext]_<<vars, workspaceVars, moving>>
=============================================================================
