----------------------------- MODULE PushDeploys -----------------------------
(***************************************************************************)
(* Deployments made by pushes: the git settings of a project, the webhook   *)
(* they put at the repository, and the handling of the pushes it delivers.  *)
(* A delivery may come twice or be sent again, and a push is deployed by    *)
(* the first that reserves its key.                                         *)
(***************************************************************************)
EXTENDS Naturals

CONSTANTS
    GitProjects, Repos, Commits,
    SettingsRequests, Deliveries,
    MaxHooks,           \* bound: hooks at one repository
    MaxDeployed,        \* bound: deployments of one commit that are counted
    NoRepo, NoCommit, NoGitProject

VARIABLES
    git,            \* repository and autoDeployEnabled of each project
    hooks,          \* hooks at each repository that name this server
    settings,       \* PATCH requests of git settings
    deliveries,     \* webhook requests
    keys,           \* apployd:github:push keys
    deployed,       \* deployments made of a commit since its key was last free
    excused         \* ghost: projects with overlapping settings requests, or whose hook was
                    \*   deleted at the repository

pushVars == <<git, hooks, settings, deliveries, keys, deployed, excused>>

ASSUME PushAssumption == NoRepo \notin Repos /\ NoCommit \notin Commits /\ MaxHooks \in Nat \ {0}

\* What a settings request asks for and holds: the new repository, or NoRepo for no change; what
\* becomes of autoDeployEnabled; and the repository the webhook is made sure of.
NoSettings == [at |-> "none", project |-> NoGitProject, repo |-> NoRepo, sets |-> "keep", target |-> NoRepo]
NoDelivery == [commit |-> NoCommit, todo |-> {}, creating |-> {}]

\* A project was created with a hook at its repository, or does not deploy on push.
PushInit ==
    /\ git \in [GitProjects -> [repo : Repos, auto : BOOLEAN]]
    /\ hooks = [r \in Repos |-> IF \E p \in GitProjects : git[p] = [repo |-> r, auto |-> TRUE]
                               THEN 1 ELSE 0]
    /\ settings = [s \in SettingsRequests |-> NoSettings]
    /\ deliveries = [d \in Deliveries |-> NoDelivery]
    /\ keys = {}
    /\ deployed = [k \in GitProjects \X Commits |-> 0]
    /\ excused = {}

-----------------------------------------------------------------------------
(* PATCH /projects/:projectId/git-settings, for a plan with auto deploy *)

SettingsAt(s, at) == settings[s].at = at
SettingsGo(s, at) == settings' = [settings EXCEPT ![s].at = at]
SettingsAnswered(s) == settings' = [settings EXCEPT ![s] = NoSettings]

\* A new repository turns auto deploy on unless the request says otherwise.
Sets(p, repo, auto) ==
    IF auto = "keep" /\ repo # NoRepo /\ ~git[p].auto THEN "on" ELSE auto

\* resolveRepoIdentity prefers an owner and a name to a URL, and the project's own stand in for
\* those the request leaves out.
HookTarget(p, repo, named) == IF named THEN repo ELSE git[p].repo

ReadSettings(s, p, repo, named, auto) ==
    /\ SettingsAt(s, "none")
    /\ named => repo # NoRepo
    /\ LET sets == Sets(p, repo, auto) IN
       settings' = [settings EXCEPT ![s] =
           [at |-> IF sets = "on" \/ (sets = "keep" /\ git[p].auto) THEN "list" ELSE "update",
            project |-> p, repo |-> repo, sets |-> sets, target |-> HookTarget(p, repo, named)]]
    /\ excused' = IF \E t \in SettingsRequests : settings[t].project = p
                  THEN excused \cup {p} ELSE excused
    /\ UNCHANGED <<git, hooks, deliveries, keys, deployed>>

\* ensureRepositoryPushWebhook: the list of hooks, then PATCH of ours or POST of a new one
ListHooks(s) ==
    /\ SettingsAt(s, "list")
    /\ SettingsGo(s, IF hooks[settings[s].target] > 0 THEN "update" ELSE "post")
    /\ UNCHANGED <<git, hooks, deliveries, keys, deployed, excused>>

CreateHook(s) ==
    /\ SettingsAt(s, "post")
    /\ hooks[settings[s].target] < MaxHooks
    /\ hooks' = [hooks EXCEPT ![settings[s].target] = @ + 1]
    /\ SettingsGo(s, "update")
    /\ UNCHANGED <<git, deliveries, keys, deployed, excused>>

HookRefused(s) ==
    /\ settings[s].at \in {"list", "post"}
    /\ SettingsAnswered(s)
    /\ UNCHANGED <<git, hooks, deliveries, keys, deployed, excused>>

UpdateSettings(s) ==
    LET r == settings[s] IN
    /\ SettingsAt(s, "update")
    /\ git' = [git EXCEPT ![r.project] =
                  [repo |-> IF r.repo # NoRepo THEN r.repo ELSE @.repo,
                   auto |-> IF r.sets = "keep" THEN @.auto ELSE r.sets = "on"]]
    /\ SettingsAnswered(s)
    /\ UNCHANGED <<hooks, deliveries, keys, deployed, excused>>

\* The owner of the repository deletes the hooks.
RemoveHooks(r) ==
    /\ hooks[r] > 0
    /\ hooks' = [hooks EXCEPT ![r] = 0]
    /\ excused' = excused \cup {p \in GitProjects : git[p].repo = r}
                         \cup {settings[s].project : s \in {t \in SettingsRequests : settings[t].target = r}}
    /\ UNCHANGED <<git, settings, deliveries, keys, deployed>>

-----------------------------------------------------------------------------
(* POST /integrations/github/webhook *)

\* Some pushes go to a branch of no interest: another than the production branch, previews off.
ReceivePush(d, r, c) ==
    /\ deliveries[d] = NoDelivery /\ hooks[r] > 0
    /\ \E todo \in SUBSET {p \in GitProjects : git[p] = [repo |-> r, auto |-> TRUE]} :
          deliveries' = [deliveries EXCEPT ![d] = [commit |-> c, todo |-> todo, creating |-> {}]]
    /\ UNCHANGED <<git, hooks, settings, keys, deployed, excused>>

ReserveKeyMutant(d, p) == [deliveries EXCEPT ![d].todo = @ \ {p}, ![d].creating = {p}]
\* SET ... NX: the delivery that sets the key makes the deployment, the others pass over it.
ReserveKey(d, p) ==
    [deliveries EXCEPT ![d].todo = @ \ {p},
                       ![d].creating = IF <<p, deliveries[d].commit>> \in keys THEN {} ELSE {p}]

NextProject(d, p) ==
    /\ deliveries[d].creating = {} /\ p \in deliveries[d].todo
    /\ deliveries' = ReserveKey(d, p)
    /\ keys' = keys \cup {<<p, deliveries[d].commit>>}
    /\ UNCHANGED <<git, hooks, settings, deployed, excused>>

\* deploymentService.create succeeds, or its error is put into the answer; the key stays.
CreateDeployment(d, p) ==
    LET k == <<p, deliveries[d].commit>> IN
    /\ p \in deliveries[d].creating
    /\ \/ deployed[k] < MaxDeployed /\ deployed' = [deployed EXCEPT ![k] = @ + 1]
       \/ UNCHANGED deployed
    /\ deliveries' = [deliveries EXCEPT ![d].creating = {}]
    /\ UNCHANGED <<git, hooks, settings, keys, excused>>

\* The delivery is answered, or its process dies.
EndDelivery(d) ==
    /\ deliveries[d] # NoDelivery
    /\ deliveries' = [deliveries EXCEPT ![d] = NoDelivery]
    /\ UNCHANGED <<git, hooks, settings, keys, deployed, excused>>

\* Twelve hours after the push, when no delivery of it is being handled any more.
KeyExpires(k) ==
    /\ k \in keys /\ ~\E d \in Deliveries : deliveries[d].creating = {k[1]} /\ deliveries[d].commit = k[2]
    /\ keys' = keys \ {k}
    /\ deployed' = [deployed EXCEPT ![k] = 0]
    /\ UNCHANGED <<git, hooks, settings, deliveries, excused>>

-----------------------------------------------------------------------------
PushNext ==
    \/ \E s \in SettingsRequests :
          \/ \E p \in GitProjects, repo \in Repos \cup {NoRepo}, named \in BOOLEAN, auto \in {"keep", "on", "off"} :
                ReadSettings(s, p, repo, named, auto)
          \/ ListHooks(s) \/ CreateHook(s) \/ HookRefused(s) \/ UpdateSettings(s)
    \/ \E r \in Repos : RemoveHooks(r)
    \/ \E d \in Deliveries :
          \/ \E r \in Repos, c \in Commits : ReceivePush(d, r, c)
          \/ \E p \in GitProjects : NextProject(d, p) \/ CreateDeployment(d, p)
          \/ EndDelivery(d)
    \/ \E k \in keys : KeyExpires(k)

PushSpec == PushInit /\ [][PushNext]_pushVars

\* A push is deployed once in a project, however often its delivery is repeated, by however many
\* hooks, and whatever becomes of the deliveries; while it is remembered it is not deployed again.
PushDeploysOnce ==
    \A k \in GitProjects \X Commits : deployed[k] <= 1 /\ (deployed[k] = 1 => k \in keys)

\* Webhook matching works by default (github-routes.ts 403): a project that deploys on push has a
\* hook at the repository it is set to, unless settings requests overlapped or the hook was
\* deleted there.
AutoDeployHasHook ==
    \A p \in GitProjects \ excused : git[p].auto => hooks[git[p].repo] > 0

=============================================================================
