------------------------- MODULE ExtensionWorkspace -------------------------
(***************************************************************************)
(* The editor extension: the token in the editor's secret storage, the      *)
(* organization it remembers, and the workspace model its views show.       *)
(* Commands refresh the model, and a second command does not wait for the   *)
(* refresh of the first: both write the same model, call by call.           *)
(***************************************************************************)
EXTENDS Naturals, Sequences

CONSTANTS
    People,             \* users of Apployd
    Teams,              \* organizations
    TeamsOf,            \* what GET /organizations answers to each
    Commands,           \* commands at work in the editor
    MaxSignIns,         \* bound: tokens ever issued to the editor
    MaxRefreshes,       \* bound: refreshes begun
    NoPerson, NoTeam

VARIABLES
    storedToken,    \* the secret apployd.authToken: tokens are numbered, 0 is none
    holders,        \* the user each token was issued to
    refusedTokens,  \* tokens the server answers with 401
    savedTeam,      \* apployd.selectedOrganizationId
    workspace,      \* WorkspaceModel; an answer is kept as whose it is.  Ghost by: the refreshes
                    \*   that wrote its two parts last
    tasks,          \* the commands, with the calls they wait for
    begun           \* refreshes begun

extensionVars == <<storedToken, holders, refusedTokens, savedTeam, workspace, tasks, begun>>

ASSUME ExtensionAssumption ==
    /\ TeamsOf \in [People -> Seq(Teams)]
    /\ MaxSignIns \in Nat /\ MaxRefreshes \in Nat
    /\ NoPerson \notin People /\ NoTeam \notin Teams

NewModel == [signedIn |-> FALSE, user |-> NoPerson, teams |-> NoPerson, selected |-> NoTeam,
             projects |-> NoTeam, deployments |-> NoTeam, loading |-> FALSE, error |-> FALSE,
             by |-> [who |-> 0, lists |-> 0]]

Pair == {"first", "second"}
Other(c) == IF c = "first" THEN "second" ELSE "first"
NotMade == [at |-> "done", token |-> 0]
ToMake == [at |-> "send", token |-> 0]
NoCalls == [c \in Pair |-> NotMade]
BothCalls == [c \in Pair |-> ToMake]
OneCall == [NoCalls EXCEPT !["first"] = ToMake]
NoTask == [at |-> "idle", no |-> 0, offered |-> NoPerson, chosen |-> NoTeam, calls |-> NoCalls]

\* When the editor starts, the extension refreshes once, with the token it still has.
ExtensionInit ==
    /\ \E p \in People \cup {NoPerson} :
          /\ holders = IF p = NoPerson THEN <<>> ELSE <<p>>
          /\ storedToken = IF p = NoPerson THEN 0 ELSE 1
    /\ refusedTokens = {}
    /\ savedTeam = NoTeam
    /\ workspace = NewModel
    /\ \E t \in Commands :
          tasks = [u \in Commands |-> IF u = t THEN [NoTask EXCEPT !.at = "begin"] ELSE NoTask]
    /\ begun = 0

-----------------------------------------------------------------------------
(* The commands, until they refresh *)

TaskFree(t) == tasks[t].at = "idle"
TaskGo(t, at) == tasks' = [tasks EXCEPT ![t].at = at]

\* apployd.signIn, from the answer that brings the token on.  Passwords and codes are those of Accounts.
SignIn(t, p) ==
    /\ TaskFree(t) /\ Len(holders) < MaxSignIns
    /\ holders' = Append(holders, p)
    /\ storedToken' = Len(holders) + 1
    /\ TaskGo(t, "begin")
    /\ UNCHANGED <<refusedTokens, savedTeam, workspace, begun>>

\* apployd.signOut, in two updates
SignOut(t) ==
    /\ TaskFree(t)
    /\ storedToken' = 0
    /\ TaskGo(t, "forget")
    /\ UNCHANGED <<holders, refusedTokens, savedTeam, workspace, begun>>

ForgetTeam(t) ==
    /\ tasks[t].at = "forget"
    /\ savedTeam' = NoTeam
    /\ TaskGo(t, "begin")
    /\ UNCHANGED <<storedToken, holders, refusedTokens, workspace, begun>>

\* apployd.selectOrganization offers what the model has; the user picks later.
OfferTeams(t) ==
    /\ TaskFree(t)
    /\ workspace.signedIn /\ workspace.teams # NoPerson
    /\ tasks' = [tasks EXCEPT ![t].at = "pick", ![t].offered = workspace.teams]
    /\ UNCHANGED <<storedToken, holders, refusedTokens, savedTeam, workspace, begun>>

PickTeam(t) ==
    /\ tasks[t].at = "pick"
    /\ \E i \in DOMAIN TeamsOf[tasks[t].offered] : savedTeam' = TeamsOf[tasks[t].offered][i]
    /\ tasks' = [tasks EXCEPT ![t].at = "begin", ![t].offered = NoPerson]
    /\ UNCHANGED <<storedToken, holders, refusedTokens, workspace, begun>>

\* The other commands make a request, as a sign-in does before its token is there; apployd.refresh and
\* a change of the settings refresh at once.
AskServer(t) ==
    /\ TaskFree(t)
    /\ \/ tasks' = [tasks EXCEPT ![t].at = "command", ![t].calls = OneCall]
       \/ TaskGo(t, "begin")
    /\ UNCHANGED <<storedToken, holders, refusedTokens, savedTeam, workspace, begun>>

-----------------------------------------------------------------------------
(* WorkspaceModel.refresh *)

BeginRefresh(t) ==
    /\ tasks[t].at = "begin" /\ begun < MaxRefreshes
    /\ begun' = begun + 1
    /\ workspace' = [workspace EXCEPT !.loading = TRUE, !.error = FALSE]
    /\ tasks' = [tasks EXCEPT ![t].at = "token", ![t].no = begun + 1]
    /\ UNCHANGED <<storedToken, holders, refusedTokens, savedTeam>>

Wrote(t) == [who |-> tasks[t].no, lists |-> tasks[t].no]
SignedOut(t) ==
    [NewModel EXCEPT !.error = workspace.error, !.by = Wrote(t)]

\* Without a token the model is emptied, and that is all.
TokenRead(t) ==
    /\ tasks[t].at = "token"
    /\ IF storedToken = 0
       THEN /\ workspace' = SignedOut(t)
            /\ tasks' = [tasks EXCEPT ![t] = NoTask]
       ELSE /\ workspace' = [workspace EXCEPT !.signedIn = TRUE]
            /\ tasks' = [tasks EXCEPT ![t].at = "who", ![t].calls = BothCalls]
    /\ UNCHANGED <<storedToken, holders, refusedTokens, savedTeam, begun>>

\* Each call reads the token for itself.
SendCall(t, c) ==
    /\ tasks[t].calls[c].at = "send"
    /\ tasks' = [tasks EXCEPT ![t].calls[c] = [at |-> "sent", token |-> storedToken]]
    /\ UNCHANGED <<storedToken, holders, refusedTokens, savedTeam, workspace, begun>>

Sent(t, c) == tasks[t].calls[c].at = "sent"
Last(t, c) == tasks[t].calls[Other(c)].at = "done"
Refused(t, c) == tasks[t].calls[c].token \in {0} \cup refusedTokens
Holder(t, c) == holders[tasks[t].calls[c].token]

\* The organization that is remembered, if it is one of the user's, or else the first one
ChosenTeam(p) ==
    IF \E i \in DOMAIN TeamsOf[p] : TeamsOf[p][i] = savedTeam THEN savedTeam ELSE TeamsOf[p][1]

\* GET /auth/me and GET /organizations
WhoKnown(t) ==
    LET teams == Holder(t, "second")
        known == [workspace EXCEPT !.user = Holder(t, "first"), !.teams = teams, !.by.who = tasks[t].no]
    IN
    IF TeamsOf[teams] = <<>>
    THEN /\ workspace' = [known EXCEPT !.selected = NoTeam, !.projects = NoTeam, !.deployments = NoTeam,
                                       !.by = Wrote(t), !.loading = FALSE]
         /\ tasks' = [tasks EXCEPT ![t] = NoTask]
         /\ UNCHANGED savedTeam
    ELSE /\ workspace' = [known EXCEPT !.selected = ChosenTeam(teams)]
         /\ savedTeam' = ChosenTeam(teams)
         /\ tasks' = [tasks EXCEPT ![t].at = "lists", ![t].chosen = ChosenTeam(teams), ![t].calls = BothCalls]

\* GET /projects and GET /deployments/recent
ListsKnown(t) ==
    /\ workspace' = [workspace EXCEPT !.projects = tasks[t].chosen, !.deployments = tasks[t].chosen,
                                      !.by.lists = tasks[t].no, !.loading = FALSE]
    /\ tasks' = [tasks EXCEPT ![t] = NoTask]
    /\ UNCHANGED savedTeam

\* Promise.all goes on with the last answer.  Lists are answered to members only; a command refreshes
\* after its answer, or is given up with it.
CallAnswered(t, c) ==
    LET task == tasks[t] IN
    /\ Sent(t, c) /\ ~Refused(t, c)
    /\ task.at = "lists" => \E i \in DOMAIN TeamsOf[Holder(t, c)] : TeamsOf[Holder(t, c)][i] = task.chosen
    /\ \/ /\ ~Last(t, c)
          /\ tasks' = [tasks EXCEPT ![t].calls[c].at = "done"]
          /\ UNCHANGED <<workspace, savedTeam>>
       \/ Last(t, c) /\ task.at = "who" /\ WhoKnown(t)
       \/ Last(t, c) /\ task.at = "lists" /\ ListsKnown(t)
       \/ /\ Last(t, c) /\ task.at \in {"command", "stray"}
          /\ \E next \in {NoTask} \cup (IF task.at = "command" THEN {[NoTask EXCEPT !.at = "begin"]} ELSE {}) :
                tasks' = [tasks EXCEPT ![t] = next]
          /\ UNCHANGED <<workspace, savedTeam>>
    /\ UNCHANGED <<storedToken, holders, refusedTokens, begun>>


FailedMutant(t) == IF tasks[t].at \in {"who", "lists"} THEN [workspace EXCEPT !.error = TRUE] ELSE workspace

\* The refresh ends with the first call that fails.
Failed(t) ==
    IF tasks[t].at \in {"who", "lists"} THEN [workspace EXCEPT !.error = TRUE, !.loading = FALSE] ELSE workspace

\* An answer 401 deletes the stored token, whichever it is by then; a sign-in is also given it for a
\* wrong password or code.  The other call goes on, though nothing waits for it any more.
CallBreaks(t, c) ==
    /\ Sent(t, c)
    /\ storedToken' \in {storedToken} \cup (IF Refused(t, c) \/ tasks[t].at = "command" THEN {0} ELSE {})
    /\ workspace' = Failed(t)
    /\ tasks' = [tasks EXCEPT ![t] = IF Last(t, c) THEN NoTask
                                     ELSE [@ EXCEPT !.at = "stray", !.calls[c].at = "done"]]
    /\ UNCHANGED <<holders, refusedTokens, savedTeam, begun>>

\* External: a token expires, or its user is gone.
TokenRefused(n) ==
    /\ n \notin refusedTokens
    /\ refusedTokens' = refusedTokens \cup {n}
    /\ UNCHANGED <<storedToken, holders, savedTeam, workspace, tasks, begun>>

-----------------------------------------------------------------------------

CommandStep(t) ==
    \/ \E p \in People : SignIn(t, p)
    \/ SignOut(t) \/ ForgetTeam(t) \/ OfferTeams(t) \/ PickTeam(t) \/ AskServer(t)
    \/ BeginRefresh(t) \/ TokenRead(t)
    \/ \E c \in Pair : SendCall(t, c) \/ CallAnswered(t, c) \/ CallBreaks(t, c)

ExtensionNext ==
    \/ \E t \in Commands : CommandStep(t)
    \/ \E n \in DOMAIN holders : TokenRefused(n)

ExtensionSpec == ExtensionInit /\ [][ExtensionNext]_extensionVars

-----------------------------------------------------------------------------
(* The views *)

\* What the projects' and the deployments' views list: both look at the same conditions.
Listed ==
    IF workspace.loading \/ ~workspace.signedIn \/ workspace.selected = NoTeam \/ workspace.error
    THEN [projects |-> NoTeam, deployments |-> NoTeam]
    ELSE [projects |-> workspace.projects, deployments |-> workspace.deployments]

Refreshing(t) == tasks[t].at \in {"forget", "begin", "token", "who", "lists"}

\* When no refresh is under way the views have stopped loading; and if the last refresh that was
\* begun is also the one that wrote last, they are of one piece: the account is that of the stored
\* token, the organization is the one that is remembered, and the projects and deployments listed
\* are that organization's, whatever was signed in, selected or refused meanwhile: extension.js:226
\* writes the model in parts, with calls in between, and two refreshes may do so at once.
WorkspaceIsOne ==
    (\A t \in Commands : ~Refreshing(t)) =>
        /\ ~workspace.loading
        /\ workspace.by = [who |-> begun, lists |-> begun] /\ ~workspace.error =>
              /\ ~workspace.signedIn => storedToken = 0
              /\ workspace.signedIn /\ storedToken # 0 =>
                    /\ workspace.user = holders[storedToken] /\ workspace.teams = workspace.user
                    /\ Listed = [projects |-> workspace.selected, deployments |-> workspace.selected]
                    /\ workspace.selected # NoTeam => workspace.selected = savedTeam

=============================================================================
