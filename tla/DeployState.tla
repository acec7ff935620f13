---------------------------- MODULE DeployState ----------------------------
(***************************************************************************)
(* The state the control plane and the deployment engine share while a     *)
(* deployment is requested, queued and executed: PostgreSQL rows of        *)
(* `deployments`, `containers`, `servers` and `projects`, the Redis queue, *)
(* the Redis locks and idempotency keys, and the Docker daemon.            *)
(*                                                                         *)
(* A request of DeploymentRequestService.create makes at most one row, so  *)
(* a member of Deployment names the request, the row it creates and the    *)
(* Docker container apployd-<id> the engine runs for it.                   *)
(*                                                                         *)
(* RAM, CPU and bandwidth are reserved and released together by the same   *)
(* statements, each with its own counter; one counter stands for the three.*)
(***************************************************************************)
EXTENDS Integers, Sequences, FiniteSets

CONSTANTS
    Deployment,        \* deployment requests
    Project, Server, Worker,
    Key,               \* Idempotency-Key values of one project, within their hour
    NoKey, NoServer, NoDeployment,
    ProjectOf,         \* the project a deployment belongs to
    KeyOf,             \* the Idempotency-Key header of the request, or NoKey
    Preview,           \* the deployments with environment = preview
    Need,              \* the project's allocation (resourceRamMb, ...)
    Total,             \* the server's capacity (totalRamMb, ...)
    Preferred,         \* the servers of DEFAULT_REGION
    MaxAttempts,       \* MAX_CAPACITY_RESERVATION_ATTEMPTS
    MaxCancels,        \* bound: cancel requests that find a deployment in progress
    MaxStatusChanges,  \* bound: times an administrator edits a server's status
    Faults             \* the failures that may occur, a subset of AllFaults

AllFaults ==
    { "enqueue",   \* the log entry or the RPUSH throws, nothing was pushed
      "publish",   \* the item is pushed, then the PUBLISH of `queued` throws
      "resend",    \* the Redis client sends the RPUSH again after a reconnect
      "handler",   \* the API process dies, or the secrets cannot be decrypted
      "infra",     \* a database or Redis call of the pipeline throws before the switch
      "late",      \* ... after the deployment was marked ready
      "stop",    \* docker stop throws, which its callers swallow
      "runTimeout", \* docker run is killed while the daemon starts the container
      "crash",     \* the engine process dies
      "lockTTL" }  \* the 15 minutes of the deployment lock elapse

ASSUME ConstantsAssumption ==
    /\ ProjectOf \in [Deployment -> Project]
    /\ KeyOf \in [Deployment -> Key \cup {NoKey}]
    /\ Preview \subseteq Deployment
    /\ Need \in [Project -> Nat]
    /\ Total \in [Server -> Nat]
    /\ Preferred \subseteq Server
    /\ MaxAttempts \in Nat \ {0}
    /\ MaxCancels \in Nat
    /\ MaxStatusChanges \in Nat
    /\ Faults \subseteq AllFaults
    /\ NoKey \notin Key
    /\ NoServer \notin Server
    /\ NoDeployment \notin Deployment

VARIABLES
    \* PostgreSQL
    status,        \* deployments.status, "none" while there is no row
    capReserved,   \* deployments.capacityReserved
    serverOf,      \* deployments.serverId
    reserved,      \* servers.reservedRamMb / reservedCpuMillicores / reservedBandwidthGb
    healthy,       \* the servers whose status is `healthy`
    row,           \* containers.status of the deployment's container row
    active,        \* projects.activeDeploymentId
    \* Redis
    queue,         \* apployd:deployments:queue
    locked,        \* the deployments whose apployd:deployments:lock:<id> exists
    idem,          \* apployd:idempotency:deploy:<project>:<key>
    \* Docker
    docker,        \* the container named apployd-<deployment id>
    \* request handlers of the control plane
    req,           \* where the handler of the request is
    candidate,     \* candidateServer, the server the handler is about to use
    attempt,       \* failed attempts of the reservation loop
    created,       \* deployment.capacityReserved of the row the handler created
    answer,        \* the deployment an idempotent replay was answered with
    \* cancel handlers of the control plane
    claims,        \* cancels that marked the row and have not yet claimed the flag
    refunds,       \* cancels that claimed the flag and have not yet decremented
    cancelsLeft,
    statusChangesLeft,
    \* workers of the deployment engine
    wpc,           \* where the worker is in DeployQueueConsumer.run / execute
    job,           \* payload.deploymentId
    snap,          \* deployment.capacityReserved as read when execute() began
    started,       \* startedDockerContainerId is set
    prev,          \* previousContainer
    \* history
    released       \* how often each path decremented for the deployment

rowVars    == <<status, capReserved, serverOf>>
serverVars == <<reserved, healthy, statusChangesLeft>>
liveVars   == <<row, active, docker>>
redisVars  == <<queue, locked, idem>>
reqVars    == <<req, candidate, attempt, created, answer>>
cancelVars == <<claims, refunds, cancelsLeft>>
workerVars == <<wpc, job, snap, started, prev>>
vars == <<rowVars, serverVars, liveVars, redisVars, reqVars, cancelVars,
          workerVars, released>>

Status    == {"none", "queued", "building", "deploying", "ready", "failed"}
Releaser  == {"cancel", "queueFailure", "pipeline"}
Free      == "free"
InProgressKey == "in_progress"

\* No deployment has one of these values for its id.
ASSUME KeyValuesAssumption == Free \notin Deployment /\ InProgressKey \notin Deployment

\* Mutant: a finished deployment counts as one still to be worked on.
InProgressMutant(d) == status[d] \notin {"none", "failed"}

\* isInProgressDeploymentStatus, and the same three values in the cancel
\* handler and in failDeployment.
InProgress(d) == status[d] \in {"queued", "building", "deploying"}

\* The rows both findFirst queries for the latest container look at.
LiveRows(p) == {d \in Deployment : ProjectOf[d] = p /\ row[d] = "running"}

\* availableCapacity.
Available(s) == Total[s] - reserved[s]

\* reserved{Ram,Cpu,Bandwidth}: { increment / decrement }.
Decrement(s, p) == reserved' = [reserved EXCEPT ![s] = @ - Need[p]]

CountRelease(d, by) == released' = [released EXCEPT ![d][by] = @ + 1]

Init ==
    /\ status = [d \in Deployment |-> "none"]
    /\ capReserved = [d \in Deployment |-> FALSE]
    /\ serverOf = [d \in Deployment |-> NoServer]
    /\ reserved = [s \in Server |-> 0]
    /\ healthy = Server
    /\ row = [d \in Deployment |-> "none"]
    /\ active = [p \in Project |-> NoDeployment]
    /\ queue = <<>>
    /\ locked = {}
    /\ idem = [k \in Key |-> Free]
    /\ docker = [d \in Deployment |-> "none"]
    /\ req = [d \in Deployment |-> "admitted"]
    /\ candidate = [d \in Deployment |-> NoServer]
    /\ attempt = [d \in Deployment |-> 0]
    /\ created = [d \in Deployment |-> FALSE]
    /\ answer = [d \in Deployment |-> NoDeployment]
    /\ claims = [d \in Deployment |-> 0]
    /\ refunds = [d \in Deployment |-> 0]
    /\ cancelsLeft = MaxCancels
    /\ statusChangesLeft = MaxStatusChanges
    /\ wpc = [w \in Worker |-> "idle"]
    /\ job = [w \in Worker |-> NoDeployment]
    /\ snap = [w \in Worker |-> FALSE]
    /\ started = [w \in Worker |-> FALSE]
    /\ prev = [w \in Worker |-> NoDeployment]
    /\ released = [d \in Deployment |-> [b \in Releaser |-> 0]]
=============================================================================
