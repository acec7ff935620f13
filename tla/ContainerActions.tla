-------------------------- MODULE ContainerActions --------------------------
(***************************************************************************)
(* What brings a stopped container of a project back, beside the releases  *)
(* of CanaryRelease that stop and start them on purpose:                   *)
(*   - the wake requests: of a user (modules/deployments/routes.ts), of    *)
(*     the Nginx fallback (modules/edge/routes.ts), and of the start of    *)
(*     the control plane (services/sleep-service.ts);                      *)
(*   - the consumer of container actions of the engine                     *)
(*     (queue/container-action-consumer.ts);                               *)
(*   - the engine's recovery loop (monitoring/container-recovery.ts).      *)
(* Nobody sends the "sleep" action any more: containers sleep because a    *)
(* release stopped them.  Blocking a container for its outbound traffic is *)
(* left out; troubles counts what goes wrong on the host.                  *)
(***************************************************************************)
EXTENDS CanaryRelease

CONSTANT MaxUpsets   \* bound on host troubles, users' wakes and server starts

ASSUME UpkeepAssumption == MaxUpsets \in Nat

VARIABLES
    sleep,      \* Container.sleepStatus
    asking,     \* a wake request past its check and before its update
    wakes,      \* apployd:container-actions:queue
    waker,      \* the container action consumer
    recovery,   \* the recovery loop; fine is what its snapshot says of the row
    troubles,
    asked

upkeep == <<sleep, asking, wakes, waker, recovery, troubles, asked>>
upkeepVars == <<vars, upkeep>>     \* crossed stays as it is

\* What only the releases write.
pointers == <<isCanary, baseline, route, project, queues, pipeline, consumer>>

UpkeepTypeOK ==
    /\ TypeOK
    /\ sleep \in [Deployments -> {"awake", "sleeping", "waking"}]
    /\ asking \in MaybeDeployment
    /\ wakes \in Seq(Deployments)
    /\ waker \in [pc : {"idle", "row", "ready"}, job : MaybeDeployment]
    /\ recovery \in [pc : {"idle", "check", "start", "health", "row", "crashed"},
                     target : MaybeDeployment, fine : BOOLEAN]
    /\ troubles \in 0..MaxUpsets
    /\ asked \in 0..MaxUpsets

WakerIdle    == [pc |-> "idle", job |-> None]
RecoveryIdle == [pc |-> "idle", target |-> None, fine |-> TRUE]

UpkeepInit ==
    /\ Init
    /\ sleep = [d \in Deployments |-> "awake"]
    /\ asking = None /\ wakes = <<>>
    /\ waker = WakerIdle /\ recovery = RecoveryIdle
    /\ troubles = 0 /\ asked = 0

----------------------------------------------------------------------------
(* The host                                                                *)

Upset == troubles + asked < MaxUpsets
Trouble == Upset /\ troubles' = troubles + 1

\* A container stops for good: Docker's restart policy did not bring it back.
ContainerExits ==
    /\ \E d \in Deployments :
          docker[d] = "running" /\ docker' = [docker EXCEPT ![d] = "exited"]
    /\ Trouble
    /\ UNCHANGED <<stage, row, pointers, sleep, asking, wakes, waker, recovery, asked>>

\* DockerAdapter.startContainer: docker start, whose failure is swallowed, then
\* the egress policy, whose failure stops the container and is thrown.
DockerStart(d, answered, thrown) ==
    \/ docker' = [docker EXCEPT ![d] = "running"] /\ answered /\ UNCHANGED troubles
    \/ docker' = docker /\ answered /\ Trouble
    \/ docker' = [docker EXCEPT ![d] = "exited"] /\ thrown /\ Trouble

----------------------------------------------------------------------------
(* Wake requests.  That nothing is queued yet when a row says "waking" is   *)
(* the same as a queue that has not been read: nobody looks at the queue.   *)

HasContainer(d) == d # None /\ row[d] # "none"
AwakeAndRunning(d) == sleep[d] = "awake" /\ row[d] = "running"
MarkAndPush(d) ==
    /\ sleep' = [sleep EXCEPT ![d] = "waking"]
    /\ wakes' = Append(wakes, d)

Ask(d) ==
    /\ asking = None
    /\ Upset
    /\ asked' = asked + 1
    /\ asking' = d
    /\ UNCHANGED <<vars, sleep, wakes, waker, recovery, troubles>>

\* POST /deployments/:deploymentId/wake, of any deployment with a container.
AskToWake ==
    \E d \in Deployments : HasContainer(d) /\ ~AwakeAndRunning(d) /\ Ask(d)

\* wakeSleepingActiveContainers, when the control plane starts.
WakeOnServerStart ==
    /\ HasContainer(active)
    /\ sleep[active] \in {"sleeping", "waking"}
    /\ Ask(active)

\* markContainerWakeInProgress, whatever the row says by now.
MarkWaking ==
    /\ asking # None
    /\ MarkAndPush(asking)
    /\ asking' = None
    /\ UNCHANGED <<vars, waker, recovery, troubles, asked>>

\* Mutant: the status nobody sets is asked for.
IsSleepingMutant(d) == row[d] = "sleeping"

IsSleeping(d) == sleep[d] = "sleeping"

\* Nobody behind the route answers and Nginx falls back to the wake path.  The
\* update is conditional, so that one visitor of many pushes.
EdgeWake ==
    /\ HasContainer(wakeOf)
    /\ Serving = {}
    /\ IsSleeping(wakeOf)
    /\ MarkAndPush(wakeOf)
    /\ UNCHANGED <<vars, asking, waker, recovery, troubles, asked>>

----------------------------------------------------------------------------
(* The container action consumer                                           *)

TakeWake ==
    /\ waker.pc = "idle"
    /\ wakes # <<>>
    /\ wakes' = Tail(wakes)
    /\ DockerStart(Head(wakes), waker' = [pc |-> "row", job |-> Head(wakes)],
                   waker' = waker)
    /\ UNCHANGED <<stage, row, pointers, sleep, asking, recovery, asked>>

Awoken(d) == [sleep EXCEPT ![d] = "awake"]

\* By the row's id alone, whether or not the container runs or was replaced.
MarkAwake ==
    /\ waker.pc = "row"
    /\ row' = [row EXCEPT ![waker.job] = "running"]
    /\ sleep' = Awoken(waker.job)
    /\ waker' = [waker EXCEPT !.pc = "ready"]
    /\ UNCHANGED <<stage, docker, pointers, asking, wakes, recovery, troubles, asked>>

\* A replaced or aborted deployment becomes ready again.
MarkWokenReady ==
    /\ waker.pc = "ready"
    /\ stage' = [stage EXCEPT ![waker.job] = "ready"]
    /\ waker' = WakerIdle
    /\ UNCHANGED <<row, docker, pointers, sleep, asking, wakes, recovery, troubles, asked>>

----------------------------------------------------------------------------
(* The recovery loop                                                       *)

\* Mutant: a container that was marked crashed is not looked at again.
RecoveryTargetsMutant == {d \in {active} : HasContainer(d) /\ row[d] = "running"}

RecoveryTargets == {d \in {active} : HasContainer(d)}

SeenFine(d) == AwakeAndRunning(d)

LoadTargets ==
    /\ recovery.pc = "idle"
    /\ \E d \in RecoveryTargets :
          recovery' = [pc |-> "check", target |-> d, fine |-> SeenFine(d)]
    /\ UNCHANGED <<vars, sleep, asking, wakes, waker, troubles, asked>>

\* The egress policy and docker inspect.  The row is corrected by what the
\* snapshot said of it.
CheckTarget ==
    /\ recovery.pc = "check"
    /\ \/ /\ docker' = docker /\ UNCHANGED troubles
          /\ recovery' =
               CASE docker[recovery.target] # "running" -> [recovery EXCEPT !.pc = "start"]
                 [] docker[recovery.target] = "running" /\ recovery.fine -> RecoveryIdle
                 [] OTHER -> [recovery EXCEPT !.pc = "row"]
       \/ /\ Trouble    \* the policy fails and the container is stopped, or no answer
          /\ docker' \in {docker, [docker EXCEPT ![recovery.target] = "exited"]}
          /\ recovery' = [recovery EXCEPT !.pc = "crashed"]
    /\ UNCHANGED <<stage, row, pointers, sleep, asking, wakes, waker, asked>>

StartTarget ==
    /\ recovery.pc = "start"
    /\ DockerStart(recovery.target, recovery' = [recovery EXCEPT !.pc = "health"],
                   recovery' = [recovery EXCEPT !.pc = "crashed"])
    /\ UNCHANGED <<stage, row, pointers, sleep, asking, wakes, waker, asked>>

CheckHealth ==
    /\ recovery.pc = "health"
    /\ \/ /\ docker[recovery.target] = "running"
          /\ recovery' = [recovery EXCEPT !.pc = "row"] /\ UNCHANGED troubles
       \/ /\ IF docker[recovery.target] = "running" THEN Trouble ELSE UNCHANGED troubles
          /\ recovery' = [recovery EXCEPT !.pc = "crashed"]
    /\ UNCHANGED <<vars, sleep, asking, wakes, waker, asked>>

CorrectRow ==
    /\ recovery.pc = "row"
    /\ row' = [row EXCEPT ![recovery.target] = "running"]
    /\ sleep' = [sleep EXCEPT ![recovery.target] = "awake"]
    /\ recovery' = RecoveryIdle
    /\ UNCHANGED <<stage, docker, pointers, asking, wakes, waker, troubles, asked>>

CrashedSleep == "awake"

\* markContainerCrashed leaves a row that is crashed already as it is.
MarkCrashed ==
    /\ recovery.pc = "crashed"
    /\ row' = [row EXCEPT ![recovery.target] = "crashed"]
    /\ sleep' = [sleep EXCEPT ![recovery.target] =
                   IF row[recovery.target] = "crashed" THEN @ ELSE CrashedSleep]
    /\ recovery' = RecoveryIdle
    /\ UNCHANGED <<stage, docker, pointers, asking, wakes, waker, troubles, asked>>

----------------------------------------------------------------------------
(* Releases: three of their updates set sleepStatus too                    *)

Released == UNCHANGED <<asking, wakes, waker, recovery, troubles, asked>>
SleepSet(d, s) == sleep' = [sleep EXCEPT ![d] = s]

UserStep == Request /\ UNCHANGED sleep /\ Released

WorkerStep ==
    /\ \/ /\ \/ TakeJob \/ RunContainer \/ ConfigureRoute \/ VerifyRoute
             \/ FindPrevious \/ MarkReady \/ SetProject
             \/ StopPrevious \/ CatchFailure
          /\ UNCHANGED sleep
       \/ CreateRow /\ SleepSet(Job, "awake")
       \/ MarkPreviousStopped /\ SleepSet(pipeline.previous, "sleeping")
    /\ Released

CanaryStep ==
    /\ \/ /\ \/ TakeAction \/ AssertStable \/ ApplyRoute \/ VerifyApplied
             \/ StopLoser \/ CommitThrows
          /\ UNCHANGED sleep
       \/ Commit /\ SleepSet(Loser, "sleeping")
    /\ Released

WakerStep    == TakeWake \/ MarkAwake \/ MarkWokenReady
RecoveryStep == LoadTargets \/ CheckTarget \/ StartTarget \/ CheckHealth
                \/ CorrectRow \/ MarkCrashed

UpkeepNext ==
    /\ \/ UserStep \/ WorkerStep \/ CanaryStep
       \/ ContainerExits
       \/ AskToWake \/ WakeOnServerStart \/ MarkWaking \/ EdgeWake
       \/ WakerStep \/ RecoveryStep
    /\ UNCHANGED crossed

\* The engine's three consumers and its loop go on; a handler that has begun
\* ends; the wake page reloads itself, so that a visitor comes back.
UpkeepSpec ==
    /\ UpkeepInit /\ [][UpkeepNext]_upkeepVars
    /\ WF_upkeepVars(WorkerStep) /\ WF_upkeepVars(CanaryStep)
    /\ WF_upkeepVars(WakerStep) /\ WF_upkeepVars(RecoveryStep)
    /\ WF_upkeepVars(MarkWaking) /\ WF_upkeepVars(EdgeWake)

----------------------------------------------------------------------------
(* Properties                                                              *)

\* Once the host gives no more trouble and users stop releasing, the active
\* deployment's container runs and its row says so: recovery undoes exits,
\* failed starts and unfinished wakes, and neither it nor a late wake or a
\* stale snapshot spoils the row for good.
ActiveSettles ==
    <>[](active # None => docker[active] = "running" /\ AwakeAndRunning(active))

\* As long as the host gives no trouble, a container marked waking is woken.
WakeCompletes ==
    \A d \in Deployments :
        sleep[d] = "waking" ~> (sleep[d] # "waking" \/ troubles > 0)

\* "This page auto-refreshes until the app is ready": a site whose wake path
\* leads to a sleeping container is served again, whoever else moves the route.
SleepingSiteWakes ==
    (upstreams # {} /\ Serving = {} /\ HasContainer(wakeOf) /\ sleep[wakeOf] = "sleeping")
        ~> (Serving # {} \/ troubles > 0)

\* What sleeps is woken, be it marked for that or reached for by a visitor (edge/routes.ts:181).
SleepersWake == WakeCompletes /\ SleepingSiteWakes
=============================================================================
