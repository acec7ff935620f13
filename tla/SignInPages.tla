---------------------------- MODULE SignInPages -----------------------------
(***************************************************************************)
(* How the tabs of a browser are led to the pages of the dashboard: the     *)
(* session token that they share, the layout that asks for it, the forms    *)
(* for signing in and up, the round trip over GitHub or Google, the page    *)
(* that lets a terminal in, and the onboarding that comes first.  One       *)
(* account; of the pages of the dashboard, those that differ here.          *)
(***************************************************************************)
EXTENDS Naturals

CONSTANTS
    Tabs,
    MaxTokens,          \* bound: tokens that are handed out
    MaxHops             \* bound: moves in a row that are counted

VARIABLES
    storedToken,        \* apployd_token in the storage of the browser
    issued,             \* tokens handed out so far: 1 to issued
    refused,            \* tokens that the control plane no longer accepts
    completed,          \* users.onboardingCompletedAt
    tabs,               \* the page of each tab and what its script does.  Ghosts asked: the page the
                        \*   user is on the way to; hops: moves since somebody did something; excused:
                        \*   let through because the network failed
    grants              \* what Redis holds for the round trip of a tab: state and result

signInVars == <<storedToken, issued, refused, completed, tabs, grants>>
\* All but the tabs.
otherVars == <<storedToken, issued, refused, completed, grants>>

ASSUME SignInAssumption == MaxTokens \in Nat /\ MaxHops \in Nat

NoToken == 0
NoPage == "nowhere"
Dashboard == {"overview", "settings"}
Destinations == Dashboard \cup {"onboarding", "cli-auth"}
Forms == {"login", "signup"}
Callbacks == {"github", "google"}
Pages == Destinations \cup Forms \cup Callbacks \cup {"home", "provider"}

Default(form) == IF form = "signup" THEN "onboarding" ELSE "overview"

\* safePath, safeRedirectPath
Path(next, fallback) == IF next \in Destinations \cup Callbacks THEN next ELSE fallback

OpenTab(page, next, asked) ==
    [page |-> page, next |-> next, at |-> "start", sent |-> NoToken, asked |-> asked, hops |-> 0,
     excused |-> FALSE]

NoGrant == [state |-> NoPage, token |-> NoToken, to |-> NoPage]

SignInInit ==
    /\ storedToken = NoToken /\ issued = 0 /\ refused = {} /\ completed = FALSE
    /\ tabs = [i \in Tabs |-> [OpenTab("home", NoPage, "home") EXCEPT !.at = "shown"]]
    /\ grants = [i \in Tabs |-> NoGrant]

Valid(token) == token \in 1..issued /\ token \notin refused
Showing(i) == tabs[i].at = "shown"

-----------------------------------------------------------------------------
(* Moves and calls *)

Wait(i, at) == tabs' = [tabs EXCEPT ![i].at = at]

\* Everybody else's moves are counted anew when the token or the account changed.
Moved(i, page, next, asked) ==
    [tabs EXCEPT ![i] = [OpenTab(page, next, asked) EXCEPT !.hops = IF tabs[i].hops < MaxHops THEN tabs[i].hops + 1 ELSE MaxHops]]
Recounted(moved, i) == [j \in Tabs |-> IF j = i THEN moved[j] ELSE [moved[j] EXCEPT !.hops = 0]]

Move(i, page, next) == tabs' = Moved(i, page, next, tabs[i].asked)
Call(i, at) == tabs' = [tabs EXCEPT ![i].at = at, ![i].sent = storedToken]

\* A call that is refused takes the token away, whichever it is by then, and leads to the login.
Refuse(i) ==
    /\ tabs[i].sent # NoToken /\ ~Valid(tabs[i].sent)
    /\ storedToken' = NoToken
    /\ tabs' = Recounted(Moved(i, "login", tabs[i].page, tabs[i].asked), i)
    /\ UNCHANGED <<issued, refused, completed, grants>>

\* The answer never comes, or was none: the call carried no token.
Fails(i) == tabs' = [tabs EXCEPT ![i].at = "shown", ![i].hops = 0, ![i].excused = TRUE]

Visit(i, page, asked) == tabs' = [tabs EXCEPT ![i] = OpenTab(page, NoPage, asked)]

\* Another page, by its address or by a link.
OpenPage(i) ==
    /\ \/ \E page \in Destinations : Visit(i, page, page)
       \/ \E form \in Forms : Visit(i, form, Default(form))
       \/ Visit(i, "home", "overview")
    /\ grants' = [grants EXCEPT ![i] = NoGrant]
    /\ UNCHANGED <<storedToken, issued, refused, completed>>

\* Within the dashboard the layout stays, and does not look again.
Browse(i) ==
    /\ tabs[i].page \in Dashboard /\ Showing(i)
    /\ \E page \in Dashboard \ {tabs[i].page} :
          tabs' = [tabs EXCEPT ![i].page = page, ![i].asked = page, ![i].hops = 0]
    /\ UNCHANGED otherVars

-----------------------------------------------------------------------------
(* The layout of the dashboard *)

LayoutStarts(i) ==
    /\ tabs[i].page \in Dashboard /\ tabs[i].at = "start"
    /\ IF storedToken = NoToken THEN Move(i, "login", tabs[i].page) ELSE Call(i, "me")
    /\ UNCHANGED otherVars

LayoutKnows(i) ==
    /\ tabs[i].page \in Dashboard /\ tabs[i].at = "me"
    /\ Valid(tabs[i].sent) /\ Call(i, "status")
    /\ UNCHANGED otherVars

\* No answer counts as an onboarding that is not completed.
LayoutDecides(i) ==
    /\ tabs[i].page \in Dashboard /\ tabs[i].at = "status"
    /\ \/ Valid(tabs[i].sent) /\ completed /\ Wait(i, "shown")
       \/ Valid(tabs[i].sent) /\ ~completed /\ tabs' = Moved(i, "onboarding", NoPage, "onboarding")
       \/ tabs' = [Moved(i, "onboarding", NoPage, "onboarding") EXCEPT ![i].hops = 0]
    /\ UNCHANGED otherVars

LayoutRefused(i) == tabs[i].page \in Dashboard /\ tabs[i].at \in {"me", "status"} /\ Refuse(i)

\* What goes wrong otherwise is left to the calls of the page.
LayoutFails(i) ==
    /\ tabs[i].page \in Dashboard /\ tabs[i].at = "me" /\ Fails(i)
    /\ UNCHANGED otherVars

\* A call of the page itself.
PageAsks(i) ==
    /\ tabs[i].page \in Dashboard /\ Showing(i)
    /\ Call(i, "asking")
    /\ UNCHANGED otherVars

PageAnswered(i) ==
    /\ tabs[i].at = "asking"
    /\ \/ /\ tabs[i].sent = NoToken \/ Valid(tabs[i].sent)
          /\ Wait(i, "shown")
          /\ UNCHANGED otherVars
       \/ Refuse(i)

\* settings/page.tsx
SignOut(i) ==
    /\ tabs[i].page = "settings" /\ Showing(i)
    /\ storedToken' = NoToken
    /\ tabs' = Recounted([tabs EXCEPT ![i] = OpenTab("login", NoPage, "overview")], i)
    /\ UNCHANGED <<issued, refused, completed, grants>>

-----------------------------------------------------------------------------
(* The home page, the forms and the round trip over a provider *)

HomeStarts(i) ==
    /\ tabs[i].page = "home" /\ tabs[i].at = "start"
    /\ IF storedToken = NoToken THEN Wait(i, "shown") ELSE Move(i, "overview", NoPage)
    /\ UNCHANGED otherVars


FormStarts(i) ==
    /\ tabs[i].page \in Forms /\ tabs[i].at = "start"
    /\ IF storedToken = NoToken THEN Wait(i, "shown")
       ELSE Move(i, Path(tabs[i].next, Default(tabs[i].page)), NoPage)
    /\ UNCHANGED otherVars

\* Onto the page asked for, with a token of one's own.
Enter(i, token, page) ==
    /\ storedToken' = token
    /\ tabs' = Recounted(Moved(i, page, NoPage, tabs[i].asked), i)

Submit(i) ==
    /\ tabs[i].page \in Forms /\ tabs[i].at \in {"shown", "code"}
    /\ tabs' = [tabs EXCEPT ![i].at = "sending", ![i].hops = 0]
    /\ UNCHANGED otherVars

\* A token, a code to be entered first, or an error.
FormAnswered(i) ==
    /\ tabs[i].at = "sending"
    /\ \/ /\ issued < MaxTokens
          /\ issued' = issued + 1
          /\ Enter(i, issued + 1, Path(tabs[i].next, Default(tabs[i].page)))
       \/ /\ \E at \in {"shown", "code"} : Wait(i, at)
          /\ UNCHANGED <<storedToken, issued>>
    /\ UNCHANGED <<refused, completed, grants>>

\* login-url keeps the path under the state that goes to the provider.
ToProvider(i) ==
    /\ tabs[i].page \in Forms /\ tabs[i].at \in {"shown", "code"}
    /\ grants' = [grants EXCEPT ![i] = [NoGrant EXCEPT !.state = Path(tabs[i].next, Default(tabs[i].page))]]
    /\ \E provider \in Callbacks : tabs' = [tabs EXCEPT ![i] = OpenTab("provider", provider, tabs[i].asked)]
    /\ UNCHANGED <<storedToken, issued, refused, completed>>

\* An error, or a state that is gone, and with it the path.
ProviderFails(i) ==
    /\ tabs[i].page = "provider"
    /\ grants' = [grants EXCEPT ![i] = NoGrant]
    /\ IF grants[i].state = NoPage
       THEN tabs' = Moved(i, "login", "overview", "overview")
       ELSE Move(i, "login", grants[i].state)
    /\ UNCHANGED <<storedToken, issued, refused, completed>>

ProviderReturns(i) ==
    /\ tabs[i].page = "provider" /\ grants[i].state # NoPage
    /\ issued < MaxTokens
    /\ issued' = issued + 1
    /\ grants' = [grants EXCEPT ![i] = [state |-> NoPage, token |-> issued + 1, to |-> grants[i].state]]
    /\ Move(i, tabs[i].next, grants[i].state)
    /\ UNCHANGED <<storedToken, refused, completed>>

\* The result of a round trip is there once, and not for long.
CallbackExchanges(i) ==
    /\ tabs[i].page \in Callbacks /\ tabs[i].at = "start" /\ grants[i].token # NoToken
    /\ grants' = [grants EXCEPT ![i] = NoGrant]
    /\ Enter(i, grants[i].token, Path(grants[i].to, Path(tabs[i].next, "overview")))
    /\ UNCHANGED <<issued, refused, completed>>

\* The 401 for a result that is gone looks like one for the token that another tab has put there:
\* /auth/google is not among the paths that are called without it, as /auth/github is.
ExchangeRefused(i) ==
    /\ tabs[i].page \in Callbacks /\ tabs[i].at = "start" /\ grants[i].token = NoToken
    /\ IF tabs[i].page = "google" /\ storedToken # NoToken
       THEN /\ storedToken' = NoToken
            /\ tabs' = Recounted(Moved(i, "login", "google", tabs[i].asked), i)
       ELSE Wait(i, "shown") /\ UNCHANGED storedToken
    /\ UNCHANGED <<issued, refused, completed, grants>>

GrantExpires(i) ==
    /\ grants[i] # NoGrant
    /\ grants' = [grants EXCEPT ![i] = NoGrant]
    /\ UNCHANGED <<storedToken, issued, refused, completed, tabs>>

-----------------------------------------------------------------------------
(* The onboarding and the page for the terminal *)

OnboardingStarts(i) ==
    /\ tabs[i].page = "onboarding" /\ tabs[i].at = "start"
    /\ IF storedToken = NoToken THEN Move(i, "login", "onboarding") ELSE Call(i, "loading")
    /\ UNCHANGED otherVars

OnboardingLoads(i) ==
    /\ tabs[i].at = "loading"
    /\ \/ /\ \/ Valid(tabs[i].sent) /\ completed /\ tabs' = Moved(i, "overview", NoPage, "overview")
             \/ Valid(tabs[i].sent) /\ ~completed /\ Wait(i, "shown")
             \/ Fails(i)
          /\ UNCHANGED otherVars
       \/ Refuse(i)

Finish(i) ==
    /\ tabs[i].page = "onboarding" /\ Showing(i)
    /\ tabs' = [tabs EXCEPT ![i].at = "finishing", ![i].sent = storedToken, ![i].hops = 0]
    /\ UNCHANGED otherVars

Finished(i) ==
    /\ tabs[i].at = "finishing"
    /\ \/ /\ Valid(tabs[i].sent)
          /\ completed' = TRUE
          /\ tabs' = Recounted(Moved(i, "overview", NoPage, "overview"), i)
          /\ UNCHANGED <<storedToken, issued, refused, grants>>
       \/ Fails(i) /\ UNCHANGED otherVars
       \/ Refuse(i)

TerminalStarts(i) ==
    /\ tabs[i].page = "cli-auth" /\ tabs[i].at = "start"
    /\ IF storedToken = NoToken THEN Move(i, "login", "cli-auth") ELSE Call(i, "approving")
    /\ UNCHANGED otherVars

TerminalAnswered(i) ==
    /\ tabs[i].at = "approving"
    /\ \/ /\ \/ Valid(tabs[i].sent) /\ Wait(i, "shown")
             \/ Fails(i)
          /\ UNCHANGED otherVars
       \/ Refuse(i)

TokenExpires ==
    /\ \E token \in 1..issued : Valid(token) /\ refused' = refused \cup {token}
    /\ tabs' = [i \in Tabs |-> [tabs[i] EXCEPT !.hops = 0]]
    /\ UNCHANGED <<storedToken, issued, completed, grants>>

SignInNext ==
    \/ \E i \in Tabs :
          \/ OpenPage(i) \/ Browse(i) \/ SignOut(i)
          \/ LayoutStarts(i) \/ LayoutKnows(i) \/ LayoutDecides(i) \/ LayoutRefused(i) \/ LayoutFails(i)
          \/ PageAsks(i) \/ PageAnswered(i)
          \/ HomeStarts(i) \/ FormStarts(i) \/ Submit(i) \/ FormAnswered(i)
          \/ ToProvider(i) \/ ProviderFails(i) \/ ProviderReturns(i) \/ CallbackExchanges(i) \/ ExchangeRefused(i)
          \/ GrantExpires(i)
          \/ OnboardingStarts(i) \/ OnboardingLoads(i) \/ Finish(i) \/ Finished(i)
          \/ TerminalStarts(i) \/ TerminalAnswered(i)
    \/ TokenExpires

SignInSpec == SignInInit /\ [][SignInNext]_signInVars

-----------------------------------------------------------------------------
(* Properties *)

\* Pages that send one another on come to an end.
RedirectsEnd == \A i \in Tabs : tabs[i].hops < MaxHops

\* The path survives the login, the provider and the way back.
DestinationKept == \A i \in Tabs : tabs[i].page \in Destinations /\ Showing(i) => tabs[i].page = tabs[i].asked

\* The dashboard comes after the onboarding.
OnboardedFirst ==
    \A i \in Tabs : tabs[i].page \in Dashboard /\ Showing(i) /\ ~tabs[i].excused => completed


=============================================================================
