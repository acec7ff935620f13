----------------------------- MODULE MCPlatform -----------------------------
(***************************************************************************)
(* The parts of the control plane and the engine that share no state with   *)
(* deployments or with one another, in one run: an initial state chooses    *)
(* the one that moves, the others stay as they start.  Two requests at     *)
(* once, for two users, accounts or projects.                               *)
(***************************************************************************)
EXTENDS Databases, GitHubIdentity, PushDeploys, VercelTokens, SecurityIncidents,
        UsageMetering, DevContainers, Editor, TLC

CONSTANTS p1, p2, h1, h2, w1, w2, u1, u2, g1, g2

VARIABLE moving     \* the part that moves

platformVars == <<databaseVars, identityVars, pushVars, vercelVars, securityVars, meteringVars, devVars, editorVars, moving>>

\* The users' own e-mail addresses are those of the accounts.
OwnEmail == (g1 :> u1) @@ (g2 :> u2)

\* The agent writes a file, there already or not, and then removes another.
AgentChanges == {<<[file |-> "page", does |-> "write", text |-> "$"], [file |-> "style", does |-> "delete", text |-> ""]>>}

\* What an initial state leaves open is settled in the parts that do not move.
PlatformInit ==
    /\ moving \in {"databases", "identity", "pushes", "tokens", "incidents", "metering", "dev", "editor"}
    /\ DatabasesInit
    /\ IdentityInit /\ (moving # "identity" => registered = {})
    /\ PushInit /\ (moving # "pushes" => git = [p \in GitProjects |-> [repo |-> "r1", auto |-> FALSE]])
    /\ VercelInit /\ (moving # "tokens" => rotation = "none")
    /\ SecurityInit
    /\ MeteringInit /\ (moving # "metering" => payer = {})
    /\ DevInit
    /\ EditorInit /\ disk["style"] # NoText /\ (moving # "editor" => disk["page"] = NoText)

PlatformNext ==
    /\ \/ moving = "databases" /\ DatabasesNext
       \/ moving # "databases" /\ UNCHANGED databaseVars
    /\ \/ moving = "identity" /\ IdentityNext
       \/ moving # "identity" /\ UNCHANGED identityVars
    /\ \/ moving = "pushes" /\ PushNext
       \/ moving # "pushes" /\ UNCHANGED pushVars
    /\ \/ moving = "tokens" /\ VercelNext
       \/ moving # "tokens" /\ UNCHANGED vercelVars
    /\ \/ moving = "incidents" /\ SecurityNext
       \/ moving # "incidents" /\ UNCHANGED securityVars
    /\ \/ moving = "metering" /\ MeteringNext
       \/ moving # "metering" /\ UNCHANGED meteringVars
    /\ \/ moving = "dev" /\ DevNext
       \/ moving # "dev" /\ UNCHANGED devVars
    /\ \/ moving = "editor" /\ EditorNext
       \/ moving # "editor" /\ UNCHANGED editorVars
    /\ UNCHANGED moving

PlatformSpec == PlatformInit /\ [][PlatformNext]_platformVars

\* The host's clock is set, or a reading is unreadable, not both.
ClockOrReading == clock.skew # 0 \/ clock.ahead > 0 => \A c \in Metered : traffic[c].unread = 0
=============================================================================
