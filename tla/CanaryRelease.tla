--------------------------- MODULE CanaryRelease ---------------------------
(***************************************************************************)
(* Gradual releases of one project on one server.  Three parties write the *)
(* same four things - the project's pointers, the Container rows, the      *)
(* Docker containers and the Nginx upstreams - with no lock between them:  *)
(*   - the control plane's handlers, which only read and enqueue           *)
(*     (modules/deployments/routes.ts);                                    *)
(*   - the deploy worker, from docker run to the stop of the previous      *)
(*     container (pipeline/deployment-pipeline.ts);                        *)
(*   - the canary consumer of the same process                             *)
(*     (canary/canary-release-service.ts).                                 *)
(* Every await is a step.  The traffic percentage is not kept: what counts *)
(* is which containers the route names.  An Nginx upstream block with two  *)
(* servers goes on answering while one of them runs.                       *)
(***************************************************************************)
EXTENDS Naturals, Sequences, FiniteSets

CONSTANTS Deployments,   \* deployments of the project
          None,
          Overlap,       \* what users may start while a canary is in flight
          Faults,        \* which awaits may reject
          MaxPending     \* bound on queued canary actions

ASSUME TrafficAssumption ==
    /\ None \notin Deployments
    /\ Overlap \subseteq {"canary", "deploy"}
    /\ Faults \subseteq {"canaryVerify", "deployVerify", "probe", "verify",
                         "stop", "commit"}
    /\ MaxPending \in Nat

VARIABLES
    stage,       \* Deployment.status, as far as releases look at it
    isCanary,    \* Deployment.isCanary
    baseline,    \* the stable deployment of the queue payload's port, or None
    row,         \* Container.status
    docker,      \* the container itself
    upstreams,   \* deployments whose ports the project's Nginx route names
    wakeOf,      \* the deployment whose wake path the route falls back to
    active,      \* Project.activeDeploymentId
    canary,      \* Project.canaryDeploymentId
    deploys,     \* the deployment queue
    actions,     \* apployd:canary-actions:queue
    pipeline,    \* the deploy worker
    consumer,    \* the canary consumer
    crossed      \* ghost: a writer was at work on what another one has changed

project  == <<active, canary>>
queues   == <<deploys, actions>>
route    == <<upstreams, wakeOf>>
machine  == <<docker, route>>
records  == <<stage, isCanary, row>>
vars == <<stage, isCanary, baseline, row, docker, upstreams, wakeOf, active,
          canary, deploys, actions, pipeline, consumer>>
releaseVars == <<vars, crossed>>

MaybeDeployment == Deployments \cup {None}
Action == [type : {"set_percent", "promote", "abort"},
           canary : Deployments, stable : MaybeDeployment]
NoAction == [type |-> "none", canary |-> None, stable |-> None]

TypeOK ==
    /\ stage \in [Deployments -> {"none", "queued", "ready", "failed", "rolled_back"}]
    /\ isCanary \in [Deployments -> BOOLEAN]
    /\ baseline \in [Deployments -> MaybeDeployment]
    /\ row \in [Deployments -> {"none", "running", "stopped", "crashed"}]
    /\ docker \in [Deployments -> {"none", "running", "exited"}]
    /\ upstreams \subseteq Deployments
    /\ wakeOf \in MaybeDeployment
    /\ active \in MaybeDeployment
    /\ canary \in MaybeDeployment
    /\ deploys \in Seq(Deployments)
    /\ actions \in Seq(Action)
    /\ pipeline \in [pc : {"idle", "run", "route", "verify", "createRow", "previous",
                           "markReady", "project", "stop", "stopped", "catch"},
                     job : MaybeDeployment, previous : MaybeDeployment]
    /\ consumer \in [pc : {"idle", "assert", "route", "verify", "stop", "commit"},
                     action : Action \cup {NoAction}, stable : MaybeDeployment]

Init ==
    /\ stage = [d \in Deployments |-> "none"]
    /\ isCanary = [d \in Deployments |-> FALSE]
    /\ baseline = [d \in Deployments |-> None]
    /\ row = [d \in Deployments |-> "none"]
    /\ docker = [d \in Deployments |-> "none"]
    /\ upstreams = {} /\ wakeOf = None
    /\ active = None /\ canary = None
    /\ deploys = <<>> /\ actions = <<>>
    /\ pipeline = [pc |-> "idle", job |-> None, previous |-> None]
    /\ consumer = [pc |-> "idle", action |-> NoAction, stable |-> None]
    /\ crossed = FALSE

----------------------------------------------------------------------------
(* Requests                                                                *)

\* What a careful user would wait for; the code itself only looks at canary.
InFlight(d) == stage[d] = "queued" \/ pipeline.job = d
CanaryInFlight ==
    \/ canary # None
    \/ \E d \in Deployments : InFlight(d) /\ baseline[d] # None
    \/ actions # <<>> \/ consumer.pc # "idle"
DeployInFlight ==
    \E d \in Deployments : InFlight(d) /\ baseline[d] = None

\* DeploymentRequestService.create, reduced to its outcome here: the job is on
\* the queue, with the stable deployment whose port the payload carries, and the
\* row already says isCanary.
Enqueue(d, stable) ==
    /\ stage[d] = "none"
    /\ stage' = [stage EXCEPT ![d] = "queued"]
    /\ isCanary' = [isCanary EXCEPT ![d] = stable # None]
    /\ baseline' = [baseline EXCEPT ![d] = stable]
    /\ deploys' = Append(deploys, d)
    /\ UNCHANGED <<row, machine, project, actions, pipeline, consumer>>

\* POST /deployments for production.
Deploy(d) ==
    /\ CanaryInFlight => "deploy" \in Overlap
    /\ Enqueue(d, None)

\* POST /deployments/:deploymentId/canary on the active deployment.  Nothing
\* records that a canary is on its way until the pipeline has finished.
StartCanary(d) ==
    /\ active # None
    /\ stage[active] = "ready"
    /\ row[active] = "running"
    /\ canary = None
    /\ CanaryInFlight => "canary" \in Overlap
    /\ DeployInFlight => "deploy" \in Overlap
    /\ Enqueue(d, active)

EnqueueAction(type, c, stable) ==
    /\ Len(actions) < MaxPending
    /\ actions' = Append(actions, [type |-> type, canary |-> c, stable |-> stable])
    /\ UNCHANGED <<records, baseline, machine, project, deploys, pipeline, consumer>>

IsActiveCanary(c) == isCanary[c] /\ canary = c

\* PATCH .../canary/percent
RequestPercent(c) ==
    /\ IsActiveCanary(c)
    /\ row[c] = "running"
    /\ active # None /\ row[active] = "running"
    /\ EnqueueAction("set_percent", c, None)

\* POST .../canary/promote.  The stable deployment is named now and used later.
RequestPromote(c) ==
    /\ IsActiveCanary(c)
    /\ stage[c] = "ready"
    /\ active # None
    /\ EnqueueAction("promote", c, active)

\* POST .../canary/abort
RequestAbort(c) ==
    /\ IsActiveCanary(c)
    /\ active # None
    /\ EnqueueAction("abort", c, active)

----------------------------------------------------------------------------
(* The deploy worker, from docker run on                                   *)

Job == pipeline.job
JobIsCanary == baseline[Job] # None
Goto(pc) == pipeline' = [pipeline EXCEPT !.pc = pc]
PipelineIdle == pipeline' = [pc |-> "idle", job |-> None, previous |-> None]

TakeJob ==
    /\ pipeline.pc = "idle"
    /\ deploys # <<>>
    /\ deploys' = Tail(deploys)
    /\ pipeline' = [pc |-> "run", job |-> Head(deploys), previous |-> None]
    /\ UNCHANGED <<records, baseline, machine, project, actions, consumer>>

\* docker run answers and the container is healthy or not; or the build or the
\* run throws with no container up.
RunContainer ==
    /\ pipeline.pc = "run"
    /\ \/ docker' = [docker EXCEPT ![Job] = "running"] /\ Goto("route")
       \/ docker' = [docker EXCEPT ![Job] = "running"] /\ Goto("catch")
       \/ docker' = docker /\ Goto("catch")
    /\ UNCHANGED <<records, baseline, route, project, queues, consumer>>

\* configureProjectProxy / configureWeightedProjectProxy, then the same route
\* again with TLS.  The weighted route names the port of the payload, whatever
\* has become of the container behind it.
ConfigureRoute ==
    /\ pipeline.pc = "route"
    /\ upstreams' = IF JobIsCanary THEN {baseline[Job], Job} ELSE {Job}
    /\ wakeOf' = Job
    /\ Goto("verify")
    /\ UNCHANGED <<records, baseline, docker, project, queues, consumer>>

\* The certificate, the edge probe and the cancel check before the row: each
\* may throw, with the new route already live.
VerifyRoute ==
    /\ pipeline.pc = "verify"
    /\ \/ Goto("createRow")
       \/ /\ (IF JobIsCanary THEN "canaryVerify" ELSE "deployVerify") \in Faults
          /\ Goto("catch")
    /\ UNCHANGED <<records, baseline, machine, project, queues, consumer>>

CreateRow ==
    /\ pipeline.pc = "createRow"
    /\ row' = [row EXCEPT ![Job] = "running"]
    /\ Goto("previous")
    /\ UNCHANGED <<stage, isCanary, baseline, machine, project, queues, consumer>>

\* Mutant: the query for the previous container does not exclude the job's own.
FindPreviousMutant ==
    /\ pipeline.pc = "previous"
    /\ \E p \in {d \in Deployments : row[d] = "running"} :
           pipeline' = [pipeline EXCEPT !.pc = "markReady", !.previous = p]
    /\ UNCHANGED <<records, baseline, machine, project, queues, consumer>>

\* findFirst by updatedAt desc: with two live rows either may be the latest.
FindPrevious ==
    /\ pipeline.pc = "previous"
    /\ LET live == {d \in Deployments \ {Job} : row[d] = "running"}
       IN \E p \in (IF live = {} THEN {None} ELSE live) :
            pipeline' = [pipeline EXCEPT !.pc = "markReady", !.previous = p]
    /\ UNCHANGED <<records, baseline, machine, project, queues, consumer>>

MarkReady ==
    /\ pipeline.pc = "markReady"
    /\ stage' = [stage EXCEPT ![Job] = "ready"]
    /\ isCanary' = [isCanary EXCEPT ![Job] = @ \/ JobIsCanary]
    /\ Goto("project")
    /\ UNCHANGED <<row, baseline, machine, project, queues, consumer>>

\* Mutant: a canary becomes the active deployment as any other does.
SetProjectMutant ==
    /\ pipeline.pc = "project"
    /\ active' = Job /\ canary' = canary
    /\ IF pipeline.previous # None /\ ~JobIsCanary THEN Goto("stop")
                                                   ELSE PipelineIdle
    /\ UNCHANGED <<records, baseline, machine, queues, consumer>>

\* A plain deployment leaves canaryDeploymentId as it is.
SetProject ==
    /\ pipeline.pc = "project"
    /\ IF JobIsCanary THEN canary' = Job /\ active' = active
                      ELSE active' = Job /\ canary' = canary
    /\ IF pipeline.previous # None /\ ~JobIsCanary THEN Goto("stop")
                                                   ELSE PipelineIdle
    /\ UNCHANGED <<records, baseline, machine, queues, consumer>>

StopPrevious ==
    /\ pipeline.pc = "stop"
    /\ docker' = [docker EXCEPT ![pipeline.previous] = "exited"]
    /\ Goto("stopped")
    /\ UNCHANGED <<records, baseline, route, project, queues, consumer>>

MarkPreviousStopped ==
    /\ pipeline.pc = "stopped"
    /\ row' = [row EXCEPT ![pipeline.previous] = "stopped"]
    /\ PipelineIdle
    /\ UNCHANGED <<stage, isCanary, baseline, machine, project, queues, consumer>>

\* The catch block stops what the job started and fails it.  The route stays.
CatchFailure ==
    /\ pipeline.pc = "catch"
    /\ docker' = [docker EXCEPT ![Job] = IF @ = "running" THEN "exited" ELSE @]
    /\ stage' = [stage EXCEPT ![Job] = "failed"]
    /\ PipelineIdle
    /\ UNCHANGED <<isCanary, row, baseline, route, project, queues, consumer>>

----------------------------------------------------------------------------
(* The canary consumer                                                     *)

Act == consumer.action
ConsumerIdle == consumer' = [pc |-> "idle", action |-> NoAction, stable |-> None]
Proceed(pc) == consumer' = [consumer EXCEPT !.pc = pc]

\* What loadActiveCanaryContext and the three asserts ask of the canary; its
\* row and status come with the first query.
CanaryAccepts(a) ==
    /\ IsActiveCanary(a.canary)
    /\ a.type = "promote" => stage[a.canary] = "ready"
    /\ a.type \in {"set_percent", "promote"} => row[a.canary] = "running"
    /\ a.type = "abort" => row[a.canary] # "none"

\* BLPOP and the first query: the named stable deployment, else the active one.
TakeAction ==
    /\ consumer.pc = "idle"
    /\ actions # <<>>
    /\ actions' = Tail(actions)
    /\ LET a == Head(actions)
           s == IF a.stable # None THEN a.stable ELSE active
       IN IF CanaryAccepts(a) /\ s # None
          THEN consumer' = [pc |-> "assert", action |-> a, stable |-> s]
          ELSE ConsumerIdle
    /\ UNCHANGED <<records, baseline, machine, project, deploys, pipeline>>

\* The second query reads the stable deployment's container.
AssertStable ==
    /\ consumer.pc = "assert"
    /\ IF row[consumer.stable] = "running"
          \/ (Act.type = "promote" /\ row[consumer.stable] # "none")
       THEN Proceed("route")
       ELSE ConsumerIdle
    /\ UNCHANGED <<records, baseline, machine, project, queues, pipeline>>

Target == IF Act.type = "abort" THEN consumer.stable ELSE Act.canary
Loser  == IF Act.type = "abort" THEN Act.canary ELSE consumer.stable

\* resolveUpstreamScheme: only the port traffic moves to is probed.
Reachable(d) == docker[d] = "running"

\* applyWeightedRouting / applyDirectRouting up to the reload.
ApplyRoute ==
    /\ consumer.pc = "route"
    /\ \/ /\ Reachable(Target)
          /\ upstreams' = IF Act.type = "set_percent" THEN {consumer.stable, Target}
                                                      ELSE {Target}
          /\ wakeOf' = Target
          /\ Proceed("verify")
       \/ /\ ~Reachable(Target) \/ "probe" \in Faults
          /\ UNCHANGED route
          /\ ConsumerIdle
    /\ UNCHANGED <<records, baseline, docker, project, queues, pipeline>>

\* verifyRouteReady throws with the new route live and nothing else done.
\* set_percent only writes canaryPercent after this.
VerifyApplied ==
    /\ consumer.pc = "verify"
    /\ \/ IF Act.type = "set_percent" THEN ConsumerIdle ELSE Proceed("stop")
       \/ "verify" \in Faults /\ ConsumerIdle
    /\ UNCHANGED <<records, baseline, machine, project, queues, pipeline>>

\* stopContainer(...).catch(() => undefined)
StopLoser ==
    /\ consumer.pc = "stop"
    /\ \/ docker' = [docker EXCEPT ![Loser] = "exited"]
       \/ "stop" \in Faults /\ docker' = docker
    /\ Proceed("commit")
    /\ UNCHANGED <<records, baseline, route, project, queues, pipeline>>

PromoteRecords ==
    /\ active' = Act.canary
    /\ isCanary' = [isCanary EXCEPT ![Act.canary] = FALSE]
    /\ stage' = stage

AbortRecords ==
    /\ active' = active
    /\ isCanary' = isCanary
    /\ stage' = [stage EXCEPT ![Act.canary] = "rolled_back"]

\* What the closing transaction leaves in canaryDeploymentId.
Cleared == None

\* The closing transaction.  It clears canaryDeploymentId whoever is in it.
Commit ==
    /\ consumer.pc = "commit"
    /\ IF Act.type = "promote" THEN PromoteRecords ELSE AbortRecords
    /\ canary' = Cleared
    /\ row' = [row EXCEPT ![Loser] = "stopped"]
    /\ ConsumerIdle
    /\ UNCHANGED <<baseline, machine, queues, pipeline>>

CommitThrows ==
    /\ consumer.pc = "commit"
    /\ "commit" \in Faults
    /\ ConsumerIdle
    /\ UNCHANGED <<records, project, baseline, machine, queues, pipeline>>

----------------------------------------------------------------------------
Request ==
    \E d \in Deployments :
        \/ Deploy(d) \/ StartCanary(d)
        \/ RequestPercent(d) \/ RequestPromote(d) \/ RequestAbort(d)

PipelineStep ==
    \/ TakeJob \/ RunContainer \/ ConfigureRoute \/ VerifyRoute \/ CreateRow
    \/ FindPrevious \/ MarkReady \/ SetProject
    \/ StopPrevious \/ MarkPreviousStopped \/ CatchFailure

ConsumerStep ==
    \/ TakeAction \/ AssertStable \/ ApplyRoute \/ VerifyApplied
    \/ StopLoser \/ Commit \/ CommitThrows

Next == Request \/ PipelineStep \/ ConsumerStep

\* Nothing keeps the worker, once it goes on to the route, and the consumer from being at work at
\* once, nor either from acting on a project that has changed since the release was asked for: the
\* payload still names the stable deployment of then.
Releasing == pipeline.pc \notin {"idle", "run", "catch"}
Crossing ==
    \/ Releasing /\ consumer.pc # "idle"
    \/ Releasing /\ JobIsCanary /\ (baseline[Job] # active \/ canary # None)
    \/ consumer.pc # "idle" /\ consumer.stable # active

ReleaseNext == Next /\ crossed' = (crossed \/ Crossing')

Spec == Init /\ [][ReleaseNext]_releaseVars

----------------------------------------------------------------------------
(* Properties                                                              *)

Serving == {d \in upstreams : docker[d] = "running"}
Quiet == pipeline.pc = "idle" /\ consumer.pc = "idle"

\* A plain deployment failed after the route was switched to it: nothing switches it back
\* (deployment-pipeline.ts:586-630).
Abandoned == \E d \in upstreams : upstreams = {d} /\ stage[d] = "failed"

\* As long as no release has crossed another one and the route is not that of a failed deployment,
\* some container behind the route runs: promotes and aborts move the route before they stop
\* anything, and refuse to move it to a port that does not answer, even when an earlier action
\* stopped halfway, a deployment has replaced the stable one, or a failed one had the route.
SiteServed == ~crossed /\ upstreams # {} /\ ~Abandoned => Serving # {}

\* Then also: when neither the worker nor the consumer is busy, traffic reaches what the project
\* records say: the active deployment alone if there is no canary, and otherwise nothing but the
\* active deployment and the canary.
TrafficFollowsProject ==
    Quiet /\ ~crossed => /\ Serving \subseteq {active, canary}
                         /\ (canary = None /\ upstreams # {} /\ ~Abandoned) => Serving = {active}

\* And: a deployment that is ready and flagged as a canary is the one the project points to, so
\* that it can still be promoted or aborted.
CanaryReachable ==
    Quiet /\ ~crossed => \A d \in Deployments :
               (isCanary[d] /\ stage[d] = "ready") <=> canary = d

\* "Canary promoted to 100%. The new deployment is now fully live."  The
\* transaction before that message makes a running container active.
PromotedIsLive ==
    [][(consumer.pc = "commit" /\ active' # active)
         => docker[active'] = "running"]_vars
=============================================================================
