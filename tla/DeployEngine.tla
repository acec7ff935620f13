---------------------------- MODULE DeployEngine ----------------------------
(***************************************************************************)
(* The deployment engine's side: DeployQueueConsumer.run and               *)
(* DeploymentPipeline.execute, one action per awaited call that reads or   *)
(* writes shared state.  A Worker is the deployment consumer of one engine *)
(* process.  DNS, Nginx and certificates are the step "route", which here  *)
(* only succeeds or throws.                                                *)
(***************************************************************************)
EXTENDS DeployState

WorkerPc == {"idle", "lock", "load",
             "assertBuild", "markBuilding", "build",
             "assertRun", "markDeploying", "run",
             "assertHealth", "health", "assertRoute", "route",
             "assertRecord", "createRow", "readPrevious", "rebalance", "markReady",
             "setActive", "stopPrevious", "markStopped", "announceReady",
             "stopOwn", "markFailed", "release", "failDeployment", "unlock"}

Move(w, from, to) == wpc[w] = from /\ wpc' = [wpc EXCEPT ![w] = to]

\* The worker is inside the lock: between SET NX and DEL.
Holds(w) == wpc[w] \notin {"idle", "lock"}

-----------------------------------------------------------------------------
\* DeployQueueConsumer.run

\* BLPOP removes the item before anything is known about it.
Pop(w) ==
    /\ queue # <<>>
    /\ Move(w, "idle", "lock")
    /\ job' = [job EXCEPT ![w] = Head(queue)]
    /\ queue' = Tail(queue)
    /\ UNCHANGED <<rowVars, serverVars, liveVars, locked, idem, reqVars, cancelVars,
                   snap, started, prev, released>>

\* Mutant: SET without NX, the lock is always acquired.
AcquireLockMutant(w) ==
    /\ Move(w, "lock", "load")
    /\ locked' = locked \cup {job[w]}
    /\ UNCHANGED <<rowVars, serverVars, liveVars, queue, idem, reqVars, cancelVars,
                   job, snap, started, prev, released>>

\* SET lock 1 EX 900 NX; an item whose lock exists is dropped as a duplicate.
AcquireLock(w) ==
    /\ wpc[w] = "lock"
    /\ \/ /\ job[w] \notin locked
          /\ locked' = locked \cup {job[w]}
          /\ wpc' = [wpc EXCEPT ![w] = "load"]
          /\ UNCHANGED job
       \/ /\ job[w] \in locked
          /\ wpc' = [wpc EXCEPT ![w] = "idle"]
          /\ job' = [job EXCEPT ![w] = NoDeployment]
          /\ UNCHANGED locked
    /\ UNCHANGED <<rowVars, serverVars, liveVars, queue, idem, reqVars, cancelVars,
                   snap, started, prev, released>>

\* finally: DEL, without looking at who set the lock.
Unlock(w) ==
    /\ Move(w, "unlock", "idle")
    /\ locked' = locked \ {job[w]}
    /\ job' = [job EXCEPT ![w] = NoDeployment]
    /\ snap' = [snap EXCEPT ![w] = FALSE]
    /\ started' = [started EXCEPT ![w] = FALSE]
    /\ prev' = [prev EXCEPT ![w] = NoDeployment]
    /\ UNCHANGED <<rowVars, serverVars, liveVars, queue, idem, reqVars, cancelVars,
                   released>>

\* EX 900 runs out while the worker that set the lock is still busy, or
\* after it died.
LockExpires(d) ==
    /\ "lockTTL" \in Faults
    /\ d \in locked
    /\ locked' = locked \ {d}
    /\ UNCHANGED <<rowVars, serverVars, liveVars, queue, idem, reqVars, cancelVars,
                   workerVars, released>>

\* The process dies: the item it had popped is gone, its lock stays.
WorkerCrashes(w) ==
    /\ "crash" \in Faults
    /\ wpc[w] # "idle"
    /\ wpc' = [wpc EXCEPT ![w] = "idle"]
    /\ job' = [job EXCEPT ![w] = NoDeployment]
    /\ snap' = [snap EXCEPT ![w] = FALSE]
    /\ started' = [started EXCEPT ![w] = FALSE]
    /\ prev' = [prev EXCEPT ![w] = NoDeployment]
    /\ UNCHANGED <<rowVars, serverVars, liveVars, redisVars, reqVars, cancelVars,
                   released>>

-----------------------------------------------------------------------------
\* DeploymentPipeline.execute, up to the switch

\* The one read of the row the rest of execute() works with.
Load(w) ==
    /\ wpc[w] = "load"
    /\ IF InProgress(job[w])
       THEN /\ wpc' = [wpc EXCEPT ![w] = "assertBuild"]
            /\ snap' = [snap EXCEPT ![w] = capReserved[job[w]]]
       ELSE /\ wpc' = [wpc EXCEPT ![w] = "unlock"]
            /\ UNCHANGED snap
    /\ UNCHANGED <<rowVars, serverVars, liveVars, redisVars, reqVars, cancelVars,
                   job, started, prev, released>>

\* The read throws: execute() is left before its try block, and only the
\* consumer's handler runs.
LoadThrows(w) ==
    /\ "infra" \in Faults
    /\ Move(w, "load", "failDeployment")
    /\ UNCHANGED <<rowVars, serverVars, liveVars, redisVars, reqVars, cancelVars,
                   job, snap, started, prev, released>>

AfterAssert ==
    [assertBuild  |-> "markBuilding",
     assertRun    |-> "markDeploying",
     assertHealth |-> "health",
     assertRoute  |-> "route",
     assertRecord |-> "createRow"]

\* assertDeploymentCanContinue: reads the status, throws unless in progress.
AssertCanContinue(w) ==
    /\ wpc[w] \in DOMAIN AfterAssert
    /\ wpc' = [wpc EXCEPT ![w] =
                  IF InProgress(job[w]) THEN AfterAssert[wpc[w]] ELSE "stopOwn"]
    /\ UNCHANGED <<rowVars, serverVars, liveVars, redisVars, reqVars, cancelVars,
                   job, snap, started, prev, released>>

\* updateStatus: an update by id, whatever the status has become since.
UpdateStatus(w) ==
    /\ \/ /\ Move(w, "markBuilding", "build")
          /\ status' = [status EXCEPT ![job[w]] = "building"]
       \/ /\ Move(w, "markDeploying", "run")
          /\ status' = [status EXCEPT ![job[w]] = "deploying"]
    /\ UNCHANGED <<capReserved, serverOf, serverVars, liveVars, redisVars, reqVars,
                   cancelVars, job, snap, started, prev, released>>

\* Calls of Docker, DNS, Nginx and certbot that succeed and change nothing
\* that is kept here.
BuildImage(w) ==
    /\ Move(w, "build", "assertRun")
    /\ UNCHANGED <<rowVars, serverVars, liveVars, redisVars, reqVars, cancelVars,
                   job, snap, started, prev, released>>

HealthCheck(w) ==
    /\ Move(w, "health", "assertRoute")
    /\ UNCHANGED <<rowVars, serverVars, liveVars, redisVars, reqVars, cancelVars,
                   job, snap, started, prev, released>>

ConfigureRoute(w) ==
    /\ Move(w, "route", "assertRecord")
    /\ UNCHANGED <<rowVars, serverVars, liveVars, redisVars, reqVars, cancelVars,
                   job, snap, started, prev, released>>

\* docker run --name apployd-<id>: the name must be free.
RunContainer(w) ==
    /\ Move(w, "run", "assertHealth")
    /\ docker[job[w]] = "none"
    /\ docker' = [docker EXCEPT ![job[w]] = "running"]
    /\ started' = [started EXCEPT ![w] = TRUE]
    /\ UNCHANGED <<rowVars, serverVars, row, active, redisVars, reqVars, cancelVars,
                   job, snap, prev, released>>

\* Every attempt failed: the name is taken, docker refused, or the egress
\* policy could not be enforced and the new container was stopped.  When
\* `docker run` is killed by its timeout the daemon may start the container
\* all the same; the engine has no id for it, and the retry meets its name.
RunFails(w) ==
    /\ Move(w, "run", "stopOwn")
    /\ \/ UNCHANGED docker
       \/ /\ docker[job[w]] = "none"
          /\ docker' = [docker EXCEPT ![job[w]] = "stopped"]
       \/ /\ "runTimeout" \in Faults
          /\ docker[job[w]] = "none"
          /\ docker' = [docker EXCEPT ![job[w]] = "running"]
    /\ UNCHANGED <<rowVars, serverVars, row, active, redisVars, reqVars, cancelVars,
                   job, snap, started, prev, released>>

\* Mutant: the error is swallowed, the catch block does not run.
StepFailsMutant(w) ==
    /\ wpc[w] \in {"build", "health", "route"}
    /\ wpc' = [wpc EXCEPT ![w] = "unlock"]
    /\ UNCHANGED <<rowVars, serverVars, liveVars, redisVars, reqVars, cancelVars,
                   job, snap, started, prev, released>>

\* A build, a health check or a route that fails is the user's everyday error.
StepFails(w) ==
    /\ wpc[w] \in {"build", "health", "route"}
    /\ wpc' = [wpc EXCEPT ![w] = "stopOwn"]
    /\ UNCHANGED <<rowVars, serverVars, liveVars, redisVars, reqVars, cancelVars,
                   job, snap, started, prev, released>>

\* A database or Redis call throws before it has an effect: inside the try
\* block its catch block runs next, inside the catch block the consumer's.
CallThrows(w) ==
    /\ \/ /\ "infra" \in Faults
          /\ wpc[w] \in {"assertBuild", "markBuilding", "assertRun", "markDeploying",
                         "assertHealth", "assertRoute", "assertRecord", "createRow",
                         "readPrevious", "rebalance", "markReady"}
          /\ wpc' = [wpc EXCEPT ![w] = "stopOwn"]
       \/ /\ "late" \in Faults
          /\ wpc[w] \in {"setActive", "markStopped", "announceReady"}
          /\ wpc' = [wpc EXCEPT ![w] = "stopOwn"]
       \/ /\ "infra" \in Faults
          /\ wpc[w] \in {"markFailed", "release"}
          /\ wpc' = [wpc EXCEPT ![w] = "failDeployment"]
    /\ UNCHANGED <<rowVars, serverVars, liveVars, redisVars, reqVars, cancelVars,
                   job, snap, started, prev, released>>

-----------------------------------------------------------------------------
\* The switch: container row, capacity, status, project, previous container

CreateRow(w) ==
    /\ Move(w, "createRow", "readPrevious")
    /\ row' = [row EXCEPT ![job[w]] = "running"]
    /\ UNCHANGED <<rowVars, serverVars, active, docker, redisVars, reqVars, cancelVars,
                   job, snap, started, prev, released>>

\* Mutant: the query forgets to leave out the container just created.
ReadPreviousMutant(w) ==
    /\ Move(w, "readPrevious", "rebalance")
    /\ \E c \in LiveRows(ProjectOf[job[w]]) : prev' = [prev EXCEPT ![w] = c]
    /\ UNCHANGED <<rowVars, serverVars, liveVars, redisVars, reqVars, cancelVars,
                   job, snap, started, released>>

\* The latest other live container of the project, of whatever deployment.
ReadPrevious(w) ==
    LET others == LiveRows(ProjectOf[job[w]]) \ {job[w]}
    IN  /\ Move(w, "readPrevious", "rebalance")
        /\ \/ /\ job[w] \in Preview \/ others = {}
              /\ UNCHANGED prev
           \/ /\ job[w] \notin Preview
              /\ \E c \in others : prev' = [prev EXCEPT ![w] = c]
        /\ UNCHANGED <<rowVars, serverVars, liveVars, redisVars, reqVars, cancelVars,
                       job, snap, started, released>>

\* The project moved to another server: its old server gives the allocation
\* back, and a deployment that reserved nothing takes it on the new one,
\* whether or not there is room.
Rebalance(w) ==
    LET d == job[w]
        p == ProjectOf[d]
        to == serverOf[d]
        from == serverOf[prev[w]]
    IN  /\ Move(w, "rebalance", "markReady")
        /\ IF prev[w] = NoDeployment \/ from = to
           THEN UNCHANGED reserved
           ELSE reserved' = [reserved EXCEPT
                                 ![from] = @ - Need[p],
                                 ![to] = IF snap[w] THEN @ ELSE @ + Need[p]]
        /\ UNCHANGED <<rowVars, healthy, statusChangesLeft, liveVars, redisVars,
                       reqVars, cancelVars, job, snap, started, prev, released>>

MarkReady(w) ==
    /\ Move(w, "markReady", "setActive")
    /\ status' = [status EXCEPT ![job[w]] = "ready"]
    /\ UNCHANGED <<capReserved, serverOf, serverVars, liveVars, redisVars, reqVars,
                   cancelVars, job, snap, started, prev, released>>

SetActive(w) ==
    /\ Move(w, "setActive", "stopPrevious")
    /\ active' = IF job[w] \in Preview THEN active
                 ELSE [active EXCEPT ![ProjectOf[job[w]]] = job[w]]
    /\ UNCHANGED <<rowVars, serverVars, row, docker, redisVars, reqVars, cancelVars,
                   job, snap, started, prev, released>>

StopPrevious(w) ==
    /\ \/ /\ prev[w] = NoDeployment
          /\ Move(w, "stopPrevious", "announceReady")
          /\ UNCHANGED docker
       \/ /\ prev[w] # NoDeployment
          /\ Move(w, "stopPrevious", "markStopped")
          /\ \/ docker' = [docker EXCEPT ![prev[w]] = "stopped"]
             \/ "stop" \in Faults /\ docker' = docker
    /\ UNCHANGED <<rowVars, serverVars, row, active, redisVars, reqVars, cancelVars,
                   job, snap, started, prev, released>>

MarkStopped(w) ==
    /\ Move(w, "markStopped", "announceReady")
    /\ row' = [row EXCEPT ![prev[w]] = "stopped"]
    /\ UNCHANGED <<rowVars, serverVars, active, docker, redisVars, reqVars, cancelVars,
                   job, snap, started, prev, released>>

AnnounceReady(w) ==
    /\ Move(w, "announceReady", "unlock")
    /\ UNCHANGED <<rowVars, serverVars, liveVars, redisVars, reqVars, cancelVars,
                   job, snap, started, prev, released>>

-----------------------------------------------------------------------------
\* The catch block, then the consumer's own handler

\* Mutant: the container of a failed deployment is left running.
StopOwnMutant(w) ==
    /\ Move(w, "stopOwn", "markFailed")
    /\ UNCHANGED <<rowVars, serverVars, liveVars, redisVars, reqVars, cancelVars,
                   job, snap, started, prev, released>>

StopOwn(w) ==
    /\ Move(w, "stopOwn", "markFailed")
    /\ \/ started[w] /\ docker' = [docker EXCEPT ![job[w]] = "stopped"]
       \/ (~started[w] \/ "stop" \in Faults) /\ docker' = docker
    /\ UNCHANGED <<rowVars, serverVars, row, active, redisVars, reqVars, cancelVars,
                   job, snap, started, prev, released>>

MarkFailed(w) ==
    /\ Move(w, "markFailed", "release")
    /\ status' = [status EXCEPT ![job[w]] = "failed"]
    /\ UNCHANGED <<capReserved, serverOf, serverVars, liveVars, redisVars, reqVars,
                   cancelVars, job, snap, started, prev, released>>

\* Mutant: a failed pipeline keeps what it had reserved.
ReleaseCapacityMutant(w) ==
    /\ Move(w, "release", "failDeployment")
    /\ UNCHANGED <<rowVars, serverVars, liveVars, redisVars, reqVars, cancelVars,
                   job, snap, started, prev, released>>

\* Decides by the row as it was read when execute() began.
ReleaseCapacity(w) ==
    /\ Move(w, "release", "failDeployment")
    /\ IF snap[w]
       THEN /\ Decrement(serverOf[job[w]], ProjectOf[job[w]])
            /\ CountRelease(job[w], "pipeline")
       ELSE UNCHANGED <<reserved, released>>
    /\ UNCHANGED <<rowVars, healthy, statusChangesLeft, liveVars, redisVars, reqVars,
                   cancelVars, job, snap, started, prev>>

\* DeployQueueConsumer.failDeployment: only a row still in progress.
FailDeployment(w) ==
    /\ Move(w, "failDeployment", "unlock")
    /\ status' = IF InProgress(job[w]) THEN [status EXCEPT ![job[w]] = "failed"]
                                       ELSE status
    /\ UNCHANGED <<capReserved, serverOf, serverVars, liveVars, redisVars, reqVars,
                   cancelVars, job, snap, started, prev, released>>

WorkerStep(w) ==
    \/ Pop(w) \/ AcquireLock(w) \/ Load(w) \/ LoadThrows(w)
    \/ AssertCanContinue(w) \/ UpdateStatus(w)
    \/ BuildImage(w) \/ HealthCheck(w) \/ ConfigureRoute(w)
    \/ RunContainer(w) \/ RunFails(w) \/ StepFails(w) \/ CallThrows(w)
    \/ CreateRow(w) \/ ReadPrevious(w) \/ Rebalance(w) \/ MarkReady(w)
    \/ SetActive(w) \/ StopPrevious(w) \/ MarkStopped(w) \/ AnnounceReady(w)
    \/ StopOwn(w) \/ MarkFailed(w) \/ ReleaseCapacity(w) \/ FailDeployment(w)
    \/ Unlock(w)
=============================================================================
