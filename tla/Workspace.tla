----------------------------- MODULE Workspace ------------------------------
(***************************************************************************)
(* What the pages of the dashboard show of the organization that is         *)
(* selected: the workspace of a tab (projects and subscription), the        *)
(* notifications over every page, and the pages that load something of      *)
(* their own.  Nothing cancels a call, so answers come late and out of      *)
(* order; what a page does after a call of its own it does for the          *)
(* organization that was selected when its handler was made.                *)
(***************************************************************************)
EXTENDS Naturals, FiniteSets

CONSTANTS
    Windows,            \* tabs of the dashboard in one browser
    Orgs,
    NoOrg,
    OrgPages,           \* the pages that are opened in each
    MaxPlans,           \* bound: changes of a subscription
    MaxUnderway         \* bound: calls under way in a tab when its user or a timer begins another

VARIABLES
    stored,             \* apployd_selected_org in the storage of the browser
    joined,             \* organizations of the user
    plans,              \* the version of the subscription of each; 0: the free one
    announced,          \* ghost: the newest version that a tab has announced
    windows,            \* what each tab holds and shows.  seen, paid: what its effects ran for last;
                        \*   renewed: there is a subscription that they have not seen; post: the call of
                        \*   a button of its page; ghost amiss: came late, out of order or not at all
    underway,           \* calls that are not answered
    syncEvents          \* apployd_subscription_sync on its way to other tabs

workspaceVars == <<stored, joined, plans, announced, windows, underway, syncEvents>>

ASSUME WorkspaceAssumption ==
    /\ NoOrg \notin Orgs
    /\ OrgPages \in [Windows -> SUBSET {"overview", "usage", "team", "security", "databases", "billing"}]
    /\ MaxPlans \in Nat /\ MaxUnderway \in Nat

NoPage == "closed"
Plan(o, version) == [of |-> o, version |-> version]
NoPlan == Plan(NoOrg, 0)
NoPost == [of |-> NoOrg, then |-> "nothing", here |-> FALSE]

\* A page that was loaded with its address, after a checkout or not.
NewWindow(page, back) ==
    [org |-> NoOrg, listed |-> FALSE, projects |-> NoOrg, subscription |-> NoPlan,
     seen |-> NoOrg, paid |-> FALSE, renewed |-> FALSE,
     note |-> [of |-> NoOrg, with |-> NoPlan],
     page |-> page, back |-> back, shown |-> NoOrg, post |-> NoPost, amiss |-> {}]

-----------------------------------------------------------------------------
(* Calls.  by: the workspace's refresh or effects, the page, or one that was left; known: of the     *)
(* subscription when the call began.  Of two that are alike one is the later.                        *)

Call(i, kind, by, o, known) ==
    [window |-> i, kind |-> kind, by |-> by, of |-> o, known |-> known, later |-> FALSE]
Asks(i, kind, by, o) == Call(i, kind, by, o, IF o = NoOrg THEN NoPlan ELSE Plan(o, plans[o]))
Organizations(i) == Call(i, "organizations", "refresh", NoOrg, NoPlan)

Begun(old, calls) == old \cup {[c EXCEPT !.later = c \in old] : c \in calls}
Calls(i) == {c \in underway : c.window = i}
Quiet(i, kinds) == \A c \in Calls(i) : c.kind \notin kinds
Few(i) == Cardinality(Calls(i)) < MaxUnderway

\* Its effects have run for what it shows; its handlers and timers are those of that rendering.
Rendered(i) == windows[i].seen = windows[i].org /\ ~windows[i].renewed

\* hasPaidAccess
Paid(w) == w.subscription.version > 0

\* What the page shows, in the end: /databases has nothing to show without a paid subscription.
Expected(w) == IF w.page = "databases" /\ ~Paid(w) THEN NoOrg ELSE w.org

\* What a page asks for when its effect runs: after a checkout, the provider's subscription first.
PageCalls(i, w) ==
    IF Expected(w) = NoOrg THEN {}
    ELSE {Asks(i, IF w.page = "billing" /\ w.back THEN "sync" ELSE "page", "page", w.org)}

\* The workspace loads for another organization than before, the notifications for what is shown.
LoadCalls(i, w) ==
    IF w.org \in {NoOrg, w.seen} THEN {}
    ELSE {Asks(i, kind, "effect", w.org) : kind \in {"projects", "subscription"}}


NoteCalls(i, w) == IF w.org = NoOrg THEN {} ELSE {Call(i, "note", "effect", w.org, w.subscription)}

\* Right or amiss.
Judged(w, kind, right) == [w EXCEPT !.amiss = IF right THEN @ \ {kind} ELSE @ \cup {kind}]

WorkspaceInit ==
    /\ stored \in Orgs \cup {NoOrg}
    /\ joined \in SUBSET Orgs
    /\ plans = [o \in Orgs |-> 0] /\ announced = plans
    /\ windows = [i \in Windows |-> NewWindow(NoPage, FALSE)]
    /\ underway = {}
    /\ syncEvents = {}

\* A tab goes on, with calls of its own.
Goes(i, w, old, calls) ==
    /\ windows' = [windows EXCEPT ![i] = w]
    /\ underway' = Begun(old, calls)

-----------------------------------------------------------------------------
(* The workspace: useWorkspace *)

\* The effects of the workspace, of the notifications and of the page run after what was set is
\* rendered; those of the workspace for another organization, those of /databases for paid access.
EffectsRun(i) ==
    /\ ~Rendered(i)
    /\ LET w == windows[i]
           none == w.org = NoOrg
           switched == w.org # w.seen
           loads == switched \/ (w.page = "databases" /\ Paid(w) # w.paid)
           cleared == [w EXCEPT !.subscription = IF switched /\ none THEN NoPlan ELSE @]
           now == [cleared EXCEPT
                      !.seen = w.org, !.paid = Paid(w),
                      !.renewed = cleared.subscription # w.subscription,
                      !.note = IF none THEN [of |-> NoOrg, with |-> NoPlan] ELSE @,
                      !.shown = IF loads /\ Expected(w) = NoOrg THEN NoOrg ELSE @,
                      !.amiss = IF switched THEN {} ELSE (@ \ {"note"}) \ (IF loads THEN {"page"} ELSE {})]
       IN  Goes(i, now, underway,
                  LoadCalls(i, w) \cup NoteCalls(i, w) \cup (IF loads THEN PageCalls(i, w) ELSE {}))
    /\ UNCHANGED <<stored, joined, plans, announced, syncEvents>>

\* refresh, from the answer on.  All of it is gone when it fails.
Wiped(w) ==
    [w EXCEPT !.listed = FALSE, !.projects = NoOrg, !.subscription = NoPlan,
              !.renewed = @ \/ w.subscription # NoPlan, !.amiss = @ \cup {"projects", "subscription"}]

OrganizationsKnown(c) ==
    /\ c.kind = "organizations"
    /\ LET i == c.window
           w == [windows[i] EXCEPT !.listed = TRUE] IN
       \/ \E o \in joined :
             /\ stored \in joined => o = stored
             /\ stored' = o
             /\ Goes(i, [w EXCEPT !.org = o], underway \ {c},
                     {Asks(i, kind, "refresh", o) : kind \in {"projects", "subscription"}})
       \/ /\ joined = {}
          /\ Goes(i, [w EXCEPT !.org = NoOrg, !.projects = NoOrg, !.subscription = NoPlan,
                               !.renewed = @ \/ w.subscription # NoPlan], underway \ {c}, {})
          /\ UNCHANGED stored
       \/ /\ Goes(i, Wiped(w), underway \ {c}, {})
          /\ UNCHANGED stored
    /\ UNCHANGED <<joined, plans, announced, syncEvents>>

\* Only refresh looks at how it ended, once it has both.
ProjectsKnown(c) ==
    /\ c.kind = "projects"
    /\ LET i == c.window w == windows[i] IN
       \/ Goes(i, Judged([w EXCEPT !.projects = c.of], "projects", c.of = w.org), underway \ {c}, {})
       \/ Goes(i, Judged(w, "projects", FALSE), underway \ {c},
               IF c.by = "refresh" THEN {Call(i, "failure", "refresh", c.of, NoPlan)} ELSE {})
    /\ UNCHANGED <<stored, joined, plans, announced, syncEvents>>

RefreshFails(c) ==
    /\ c.kind = "failure"
    /\ ~\E other \in Calls(c.window) : other.kind = "subscription" /\ other.by = "refresh" /\ other.of = c.of
    /\ Goes(c.window, Wiped(windows[c.window]), underway \ {c}, {})
    /\ UNCHANGED <<stored, joined, plans, announced, syncEvents>>

\* loadSubscription: what it says was so at some time since it began.
Renewed(w, plan) ==
    [w EXCEPT !.subscription = plan, !.renewed = TRUE,
              !.amiss = IF plan.of # w.org \/ (w.subscription.of = plan.of /\ plan.version < w.subscription.version)
                        THEN @ \cup {"subscription"} ELSE @]

SubscriptionKnown(c) ==
    /\ c.kind = "subscription" /\ c.by \in {"refresh", "effect"}
    /\ LET i == c.window w == windows[i] IN
       \/ \E v \in c.known.version..plans[c.of] : Goes(i, Renewed(w, Plan(c.of, v)), underway \ {c}, {})
       \/ Goes(i, [Wiped(w) EXCEPT !.listed = w.listed, !.projects = w.projects,
                                   !.amiss = w.amiss \cup {"subscription"}], underway \ {c}, {})
    /\ UNCHANGED <<stored, joined, plans, announced, syncEvents>>

\* refreshSubscription for a page, which goes on with its own when it is still there: the other tabs
\* are told.
Announced(c) ==
    /\ c.kind = "subscription" /\ c.by \in {"page", "left"}
    /\ LET i == c.window
           w == windows[i]
           goesOn == IF c.by = "page" THEN {Asks(i, "page", "page", c.of)} ELSE {} IN
       \/ \E v \in c.known.version..plans[c.of] :
             /\ Goes(i, Renewed(w, Plan(c.of, v)), underway \ {c}, goesOn)
             /\ announced' = [announced EXCEPT ![c.of] = IF v > @ THEN v ELSE @]
             /\ syncEvents' = syncEvents \cup {[to |-> j, of |-> c.of] : j \in {k \in Windows \ {i} : windows[k].page # NoPage}}
       \/ /\ Goes(i, [w EXCEPT !.subscription = NoPlan, !.renewed = @ \/ w.subscription # NoPlan,
                               !.amiss = @ \cup {"subscription"}
                                           \cup (IF c.by = "page" /\ w.page = "billing" THEN {"page"} ELSE {})],
                  underway \ {c}, IF w.page = "databases" THEN goesOn ELSE {})
          /\ UNCHANGED <<announced, syncEvents>>
    /\ UNCHANGED <<stored, joined, plans>>

\* handleStorage, for the organization that the effects ran for last
SyncHeard(e) ==
    /\ LET i == e.to IN
       Goes(i, windows[i], underway,
            IF e.of = windows[i].seen THEN {Asks(i, "subscription", "effect", e.of)} ELSE {})
    /\ syncEvents' = syncEvents \ {e}
    /\ UNCHANGED <<stored, joined, plans, announced>>

-----------------------------------------------------------------------------
(* The switcher, and whatever else calls refresh *)

\* useWorkspace begins with a refresh.
Open(i) ==
    /\ windows[i].page = NoPage
    /\ \E page \in OrgPages[i] : Goes(i, NewWindow(page, FALSE), underway, {Organizations(i)})
    /\ UNCHANGED <<stored, joined, plans, announced, syncEvents>>

Select(i) ==
    /\ Rendered(i) /\ windows[i].listed /\ windows[i].org # NoOrg
    /\ \E o \in joined \ {windows[i].org} :
          /\ Goes(i, [windows[i] EXCEPT !.org = o], underway, {})
          /\ stored' = o
    /\ UNCHANGED <<joined, plans, announced, syncEvents>>

CreateOrganization(i) ==
    /\ windows[i].page # NoPage /\ Rendered(i) /\ Few(i)
    /\ \E o \in Orgs \ joined : joined' = joined \cup {o}
    /\ Goes(i, windows[i], underway, {Organizations(i)})
    /\ UNCHANGED <<stored, plans, announced, syncEvents>>

ProjectAdded(i) ==
    /\ windows[i].page # NoPage /\ Rendered(i) /\ Few(i)
    /\ Goes(i, windows[i], underway, {Organizations(i)})
    /\ UNCHANGED <<stored, joined, plans, announced, syncEvents>>

\* A checkout, a webhook or a cancellation, wherever it was begun.
PlanChanges(o) ==
    /\ plans[o] < MaxPlans
    /\ plans' = [plans EXCEPT ![o] = @ + 1]
    /\ UNCHANGED <<stored, joined, announced, windows, underway, syncEvents>>

-----------------------------------------------------------------------------
(* Notifications: made of the subscription that was there when their calls began *)

NoteKnown(c) ==
    /\ c.kind = "note"
    /\ LET w == windows[c.window] IN
       Goes(c.window, Judged([w EXCEPT !.note = [of |-> c.of, with |-> c.known]], "note",
                             c.of = w.org /\ c.known = w.subscription), underway \ {c}, {})
    /\ UNCHANGED <<stored, joined, plans, announced, syncEvents>>

\* The timer, or the menu that is opened.
NoteDue(i) ==
    /\ Rendered(i) /\ windows[i].org # NoOrg /\ Few(i)
    /\ Goes(i, windows[i], underway, {Call(i, "note", "effect", windows[i].org, windows[i].subscription)})
    /\ UNCHANGED <<stored, joined, plans, announced, syncEvents>>

-----------------------------------------------------------------------------
(* The pages *)

\* The calls of the page that is left are answered to nobody; what it has begun goes on.
Left(c) == IF c.by = "page" THEN [c EXCEPT !.by = "left"] ELSE c
Navigate(i) ==
    /\ windows[i].page # NoPage /\ Rendered(i) /\ Few(i)
    /\ \E page \in OrgPages[i] \ {windows[i].page} :
       LET w == [windows[i] EXCEPT !.page = page, !.back = FALSE, !.shown = NoOrg, !.post.here = FALSE,
                                   !.amiss = @ \ {"page"}] IN
       Goes(i, [w EXCEPT !.post = IF @.then = "load" THEN NoPost ELSE @],
            (underway \ Calls(i)) \cup {Left(c) : c \in {d \in Calls(i) : d.kind # "page"}},
            PageCalls(i, w))
    /\ UNCHANGED <<stored, joined, plans, announced, syncEvents>>

\* /security clears what it shows when a call fails, /databases too.
PageKnown(c) ==
    /\ c.kind = "page"
    /\ LET i == c.window w == windows[i] IN
       \/ Goes(i, Judged([w EXCEPT !.shown = c.of], "page", c.of = Expected(w)), underway \ {c}, {})
       \/ Goes(i, Judged([w EXCEPT !.shown = IF w.page \in {"security", "databases"} THEN NoOrg ELSE @],
                         "page", FALSE), underway \ {c}, {})
    /\ UNCHANGED <<stored, joined, plans, announced, syncEvents>>

\* /usage and /security ask again every now and then, /team when told to.
PageDue(i) ==
    /\ Rendered(i) /\ windows[i].page \in {"usage", "security", "team"} /\ windows[i].org # NoOrg /\ Few(i)
    /\ Goes(i, windows[i], underway, {Asks(i, "page", "page", windows[i].org)})
    /\ UNCHANGED <<stored, joined, plans, announced, syncEvents>>

Post(i, then) ==
    /\ Rendered(i) /\ windows[i].org # NoOrg /\ windows[i].post = NoPost /\ Few(i)
    /\ Goes(i, [windows[i] EXCEPT !.post = [of |-> windows[i].org, then |-> then, here |-> TRUE]],
            underway, {})
    /\ UNCHANGED <<stored, joined, plans, announced, syncEvents>>

\* An invitation sent, resent or accepted; attack mode, an incident unblocked or appealed against;
\* a database created.
TeamPosts(i) == windows[i].page = "team" /\ \E then \in {"load", "join"} : Post(i, then)
SecurityPosts(i) == windows[i].page = "security" /\ \E then \in {"load", "refresh"} : Post(i, then)
DatabasesPosts(i) == windows[i].page = "databases" /\ Paid(windows[i]) /\ Post(i, "load")

\* The page loads again what its handler knows as the organization.
Posted(i) ==
    /\ windows[i].post # NoPost
    /\ LET post == windows[i].post
           w == [windows[i] EXCEPT !.post = NoPost] IN
       \/ /\ Goes(i, w, underway,
                  (IF post.here THEN {Asks(i, "page", "page", post.of)} ELSE {})
                  \cup (IF post.then # "load" THEN {Organizations(i)} ELSE {}))
          /\ joined' \in IF post.then = "join" THEN {joined \cup {o} : o \in Orgs} ELSE {joined}
       \/ Goes(i, w, underway, {}) /\ UNCHANGED joined
    /\ UNCHANGED <<stored, plans, announced, syncEvents>>

\* handleRefresh; without paid access its handler has nothing to load afterwards.
DatabasesRefreshed(i) ==
    /\ Rendered(i) /\ windows[i].page = "databases" /\ windows[i].org # NoOrg /\ Few(i)
    /\ LET by == IF Paid(windows[i]) THEN "page" ELSE "left" IN
       Goes(i, windows[i], underway, {Asks(i, "subscription", by, windows[i].org)})
    /\ UNCHANGED <<stored, joined, plans, announced, syncEvents>>

\* The checkout is the provider's; it comes back to a page that is loaded anew, cancelled or not.
StartUpgrade(i) ==
    /\ Rendered(i) /\ windows[i].page = "billing" /\ windows[i].org # NoOrg
    /\ \E back \in BOOLEAN :
          Goes(i, NewWindow("billing", back), underway \ Calls(i), {Organizations(i)})
    /\ syncEvents' = {e \in syncEvents : e.to # i}
    /\ UNCHANGED <<stored, joined, plans, announced>>

\* sync-subscription: it finds what was paid, or nothing new.
Synced(c) ==
    /\ c.kind = "sync"
    /\ LET i == c.window w == windows[i] IN
       \/ /\ plans' \in {plans, [plans EXCEPT ![c.of] = IF @ < MaxPlans THEN @ + 1 ELSE @]}
          /\ windows' = windows
          /\ underway' = Begun(underway \ {c}, {Call(i, "subscription", c.by, c.of, Plan(c.of, plans'[c.of]))})
       \/ /\ Goes(i, IF c.by = "page" THEN Judged(w, "page", FALSE) ELSE w, underway \ {c}, {})
          /\ UNCHANGED plans
    /\ UNCHANGED <<stored, joined, announced, syncEvents>>

WorkspaceNext ==
    \/ \E i \in Windows :
          \/ Open(i) \/ EffectsRun(i) \/ Select(i) \/ CreateOrganization(i) \/ ProjectAdded(i) \/ NoteDue(i)
          \/ Navigate(i) \/ PageDue(i) \/ TeamPosts(i) \/ SecurityPosts(i) \/ DatabasesPosts(i) \/ Posted(i)
          \/ DatabasesRefreshed(i) \/ StartUpgrade(i)
    \/ \E c \in underway :
          \/ OrganizationsKnown(c) \/ ProjectsKnown(c) \/ RefreshFails(c) \/ SubscriptionKnown(c)
          \/ Announced(c) \/ NoteKnown(c) \/ PageKnown(c) \/ Synced(c)
    \/ \E e \in syncEvents : SyncHeard(e)
    \/ \E o \in Orgs : PlanChanges(o)

WorkspaceSpec == WorkspaceInit /\ [][WorkspaceNext]_workspaceVars

-----------------------------------------------------------------------------
(* Properties, of a tab with nothing of the kind under way *)

Settled(i, kinds) == Rendered(i) /\ windows[i].org # NoOrg /\ Quiet(i, kinds) /\ windows[i].amiss \cap kinds = {}

WorkspaceFollows(i) ==
    /\ Settled(i, {"projects"}) => windows[i].projects = windows[i].org
    /\ Settled(i, {"subscription"}) => windows[i].subscription.of = windows[i].org

\* What another tab has announced has been heard.
SubscriptionFollows(i) ==
    Settled(i, {"subscription"}) /\ (\A e \in syncEvents : e.to # i)
        => windows[i].subscription.version >= announced[windows[i].org]

NotesFollow(i) ==
    Settled(i, {"note"}) => windows[i].note = [of |-> windows[i].org, with |-> windows[i].subscription]

PageFollows(i) ==
    Settled(i, {"page", "sync"}) /\ (\A c \in Calls(i) : c.kind = "subscription" => c.by # "page")
        => Expected(windows[i]) \in {NoOrg, windows[i].shown}


=============================================================================
