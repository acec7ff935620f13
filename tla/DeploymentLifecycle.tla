------------------------ MODULE DeploymentLifecycle ------------------------
(***************************************************************************)
(* Requests, cancels, the queue and the engine's workers together: every   *)
(* interleaving of the steps of DeployRequest and DeployEngine.            *)
(***************************************************************************)
EXTENDS DeployRequest, DeployEngine

Next ==
    \/ \E d \in Deployment :
          \/ RequestStep(d) \/ HandlerDies(d)
          \/ Cancel(d) \/ CancelStep(d) \/ CancelStops(d)
          \/ LockExpires(d)
    \/ \E w \in Worker : WorkerStep(w) \/ WorkerCrashes(w)
    \/ \E s \in Server : SetServerStatus(s)

Spec == Init /\ [][Next]_vars

\* A handler and a worker that can take a step take one: they are loops and
\* async functions of live processes whose awaited calls return or throw.
\* Users and administrators are under no obligation.
FairSpec ==
    /\ Spec
    /\ \A d \in Deployment : WF_vars(RequestStep(d)) /\ WF_vars(CancelStep(d))
    /\ \A w \in Worker : WF_vars(WorkerStep(w))

-----------------------------------------------------------------------------
RowTypes ==
    /\ status \in [Deployment -> Status]
    /\ capReserved \in [Deployment -> BOOLEAN]
    /\ serverOf \in [Deployment -> Server \cup {NoServer}]

ServerTypes ==
    /\ reserved \in [Server -> Int]
    /\ healthy \subseteq Server
    /\ statusChangesLeft \in Nat

LiveTypes ==
    /\ row \in [Deployment -> {"none", "running", "stopped"}]
    /\ active \in [Project -> Deployment \cup {NoDeployment}]
    /\ docker \in [Deployment -> {"none", "running", "stopped"}]

RedisTypes ==
    /\ queue \in Seq(Deployment)
    /\ locked \subseteq Deployment
    /\ idem \in [Key -> Deployment \cup {Free, InProgressKey}]

RequestTypes ==
    /\ req \in [Deployment -> RequestPc]
    /\ candidate \in [Deployment -> Server \cup {NoServer}]
    /\ attempt \in [Deployment -> Nat]
    /\ created \in [Deployment -> BOOLEAN]
    /\ answer \in [Deployment -> Deployment \cup {NoDeployment}]

CancelTypes ==
    /\ claims \in [Deployment -> Nat]
    /\ refunds \in [Deployment -> Nat]
    /\ cancelsLeft \in Nat

WorkerTypes ==
    /\ wpc \in [Worker -> WorkerPc]
    /\ job \in [Worker -> Deployment \cup {NoDeployment}]
    /\ \A w \in Worker : wpc[w] # "idle" => job[w] \in Deployment
    /\ snap \in [Worker -> BOOLEAN]
    /\ started \in [Worker -> BOOLEAN]
    /\ prev \in [Worker -> Deployment \cup {NoDeployment}]

ReleasedTypes == released \in [Deployment -> [Releaser -> Nat]]

\* Every variable has the type its column, key or local variable has, and a
\* worker that is not waiting for an item has one.
TypeOK ==
    /\ RowTypes /\ ServerTypes /\ LiveTypes /\ RedisTypes
    /\ RequestTypes /\ CancelTypes /\ WorkerTypes /\ ReleasedTypes

-----------------------------------------------------------------------------
\* Capacity

\* However requests, cancels, failures and retries interleave, the counter of
\* a server never exceeds what the server has.
ReservedWithinCapacity == \A s \in Server : reserved[s] <= Total[s]

\* Cancels racing for one deployment give its reservation back at most once:
\* whoever flips capacityReserved is the only one to decrement.
CancelReleasesAtMostOnce ==
    \A d \in Deployment : refunds[d] + released[d]["cancel"] <= 1

Releases(d) == refunds[d] + released[d]["cancel"] + released[d]["queueFailure"]
                          + released[d]["pipeline"]

\* A reservation is given back at most once, whichever paths run: the cancel
\* route, the request handler's catch block, the pipeline's catch block.
ReleasedAtMostOnce == \A d \in Deployment : Releases(d) <= 1

\* What each deployment counts for in the ledger of the servers' capacity: what
\* was reserved with its row, until a path has decremented for it.
GivenBack(d) == released[d]["cancel"] + released[d]["queueFailure"] + released[d]["pipeline"] > 0

Ledger == INSTANCE CapacityLedger WITH
              Holders  <- Deployment,
              Hosts    <- Server,
              Amount   <- [d \in Deployment |-> Need[ProjectOf[d]]],
              Capacity <- Total,
              Nowhere  <- NoServer,
              used     <- reserved,
              place    <- [d \in Deployment |->
                              IF created[d] /\ ~GivenBack(d) THEN serverOf[d] ELSE NoServer],
              granted  <- {d \in Deployment : created[d]}

\* Every write of a server's counter is one of the ledger's: what is taken is
\* taken once and only where there is room, what is given back was taken and
\* had not been given back, whichever handler or worker writes.
LedgerImplemented == Ledger!Spec

\* What a failed deployment had reserved is given back in the end.
FailedGivesCapacityBack ==
    \A d \in Deployment :
        (status[d] = "failed" /\ created[d]) ~> (Releases(d) >= 1 \/ status[d] = "ready")

-----------------------------------------------------------------------------
\* Execution

\* The Redis lock: no two workers are ever inside execute() for one deployment,
\* even if its queue item is delivered twice.
OneWorkerPerDeployment ==
    \A v, w \in Worker : Holds(v) /\ Holds(w) /\ job[v] = job[w] => v = w

\* A deployment that went live is never built or started again, by no
\* duplicate of its queue item and no late write of a slower step.
ReadyNotRestarted ==
    [][\A d \in Deployment : status[d] = "ready" => status'[d] \in {"ready", "failed"}]_vars

\* A deployment no worker is busy with keeps a container running only if it
\* is `ready`: every failure and every cancel cleans up the container it left.
NoOrphanContainer ==
    \A d \in Deployment :
        /\ docker[d] = "running"
        /\ \A w \in Worker : ~(Holds(w) /\ job[w] = d)
        => status[d] = "ready"

\* The project's active deployment is always backed by a running container,
\* at every step of the switch from one deployment to the next.
ActiveIsRunning ==
    \A p \in Project : active[p] # NoDeployment => docker[active[p]] = "running"

\* Every accepted deployment leaves the queued, building and deploying states.
EveryDeploymentFinishes ==
    \A d \in Deployment : InProgress(d) ~> status[d] \in {"ready", "failed"}

\* A deployment the user canceled does not go live.
CanceledStaysFailed ==
    [][\A d \in Deployment : claims[d] + refunds[d] + released[d]["cancel"] > 0
                                => status'[d] # "ready"]_vars

\* Preview deployments run alongside production: no production deployment
\* takes a preview's container for the one it replaces.
PreviewsRunAlongside == \A w \in Worker : prev[w] \notin Preview

-----------------------------------------------------------------------------
\* Idempotency

SameRequest(d, e) == d # e /\ KeyOf[d] # NoKey /\ KeyOf[d] = KeyOf[e]

\* Requests that carry the same Idempotency-Key never both get a container.
KeyExecutesOnce ==
    \A d, e \in Deployment : SameRequest(d, e) => docker[d] = "none" \/ docker[e] = "none"

\* A replay names the one deployment that the key was accepted for.
ReplayNamesAccepted ==
    \A d \in Deployment :
        req[d] = "replayed" =>
            /\ answer[d] \in Deployment
            /\ SameRequest(d, answer[d])
            /\ req[answer[d]] = "accepted"
=============================================================================
