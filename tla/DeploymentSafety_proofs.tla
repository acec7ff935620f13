----------------------- MODULE DeploymentSafety_proofs -----------------------
(***************************************************************************)
(* The safety properties of the deployment life cycle and the inductive    *)
(* invariants that they are proved from.                                   *)
(***************************************************************************)
EXTENDS DeploymentLifecycle_proofs

-----------------------------------------------------------------------------
(* The inductive invariants, each of which holds together with TypeOK *)

\* Where a handler is before its request has a row.
BeforeRow == {"admitted", "keyTaken", "place", "unreserved", "reserving"}

\* Where it is before the item can be in the queue; when no PUBLISH fails
\* after a push, also where it undoes or has answered without pushing.
BeforePush == BeforeRow \cup {"push"}

NeverPushed == BeforePush \cup {"undoStatus", "undoCapacity", "rejected", "replayed"}

\* Where a worker is before it has marked its deployment ready, and where it
\* still may decrement for it.
BeforeReady == {"assertBuild", "markBuilding", "build", "assertRun", "markDeploying",
                "run", "assertHealth", "health", "assertRoute", "route",
                "assertRecord", "createRow", "readPrevious", "rebalance", "markReady"}

BeforeRelease == BeforeReady \cup {"setActive", "stopPrevious", "markStopped",
                                   "announceReady", "stopOwn", "markFailed", "release"}

\* A worker past AcquireLock finds its deployment's key in Redis.
LockHeld == \A w \in Worker : Holds(w) => job[w] \in locked

\* The flag of a row is set once, and stands for a reservation no cancel has
\* given back.
FlagUnclaimed ==
    \A d \in Deployment :
        /\ req[d] \in BeforeRow => ~capReserved[d]
        /\ capReserved[d] \/ req[d] \in BeforeRow
              => refunds[d] + released[d]["cancel"] = 0

\* Whatever is pushed, popped, recorded as a container or about to be replaced
\* has been given a server.
Placed ==
    /\ \A d \in Deployment :
          /\ req[d] = "unreserved" => candidate[d] \in Server
          /\ req[d] = "push" => serverOf[d] \in Server
          /\ row[d] = "running" => serverOf[d] \in Server
    /\ \A i \in 1..Len(queue) : serverOf[queue[i]] \in Server
    /\ \A w \in Worker :
          /\ wpc[w] # "idle" => serverOf[job[w]] \in Server
          /\ prev[w] # NoDeployment => serverOf[prev[w]] \in Server

\* A live deployment has its row, and no worker that could still rewrite it.
ReadySettled ==
    \A d \in Deployment :
        status[d] = "ready" =>
            /\ req[d] \notin BeforeRow
            /\ \A w \in Worker : job[w] = d => wpc[w] \notin BeforeReady

\* The item of a request that is at one of the points S is in no queue and at
\* no worker, and no worker has decremented for it.
NotPushed(S) ==
    \A d \in Deployment :
        req[d] \in S =>
            /\ \A i \in 1..Len(queue) : queue[i] # d
            /\ \A w \in Worker : wpc[w] # "idle" => job[w] # d
            /\ released[d]["pipeline"] = 0

\* Whoever may still decrement for a deployment is the first to do so.
NotYetReleased ==
    \A d \in Deployment :
        /\ released[d]["queueFailure"] <= 1
        /\ released[d]["queueFailure"] = 0 \/ req[d] = "rejected"
        /\ released[d]["pipeline"] <= 1
        /\ InProgress(d) => released[d]["pipeline"] = 0
        /\ \A w \in Worker :
              /\ job[w] = d /\ wpc[w] \in BeforeRelease => released[d]["pipeline"] = 0
              /\ job[w] = d /\ wpc[w] = "release" => status[d] = "failed"

NoCancels ==
    /\ cancelsLeft = 0
    /\ \A d \in Deployment :
          claims[d] = 0 /\ refunds[d] = 0 /\ released[d]["cancel"] = 0

\* What counts in the ledger was reserved with the row, on the server of the
\* row; a flag, and a worker's copy of it, stand for a reservation.
RowsGranted ==
    /\ \A d \in Deployment :
          /\ created[d] =>
                serverOf[d] \in Server /\ candidate[d] = serverOf[d] /\ req[d] \notin BeforeRow
          /\ capReserved[d] => created[d]
    /\ \A w \in Worker : snap[w] => wpc[w] \notin {"idle", "lock"} /\ created[job[w]]

-----------------------------------------------------------------------------
\* What a container says of the request and the worker behind it

\* Where a worker has its container running and the deployment is not ready
\* yet, and where it is ready and the switch still goes on.
AfterRun == {"assertHealth", "health", "assertRoute", "route", "assertRecord",
             "createRow", "readPrevious", "rebalance", "markReady"}

AfterReady == {"setActive", "stopPrevious", "markStopped", "announceReady"}

\* The request pushed its item, and its deployment has a server.
Pushed(d) == req[d] \notin NeverPushed /\ serverOf[d] \in Server

\* Only what was pushed has a container, a row for it or is to be replaced.
ContainersPushed ==
    /\ \A d \in Deployment : docker[d] # "none" \/ row[d] = "running" => Pushed(d)
    /\ \A w \in Worker : prev[w] # NoDeployment => Pushed(prev[w])

\* A running container is live, or its worker is on the way to make it live or
\* to stop it, and has not forgotten that it started it.
ContainersWatched ==
    /\ \A d \in Deployment :
          docker[d] = "running" =>
              \/ status[d] = "ready"
              \/ \E w \in Worker : job[w] = d /\ wpc[w] \in AfterRun \cup {"stopOwn"}
    /\ \A w \in Worker :
          /\ wpc[w] \in AfterRun \cup AfterReady => started[w]
          /\ wpc[w] = "stopOwn" /\ docker[job[w]] = "running" => started[w]
          /\ wpc[w] = "markFailed" => docker[job[w]] # "running"

\* The active deployment is out of reach of every step that stops a container
\* or starts an execution, and what is about to be made active is running.
SwitchedOver ==
    /\ \A p \in Project :
          active[p] # NoDeployment =>
              /\ docker[active[p]] = "running" /\ ProjectOf[active[p]] = p
              /\ req[active[p]] \notin BeforePush /\ ~InProgress(active[p])
              /\ \A w \in Worker :
                    job[w] = active[p] => wpc[w] \notin BeforeReady \cup {"setActive", "stopOwn"}
    /\ \A w \in Worker :
          /\ wpc[w] \in AfterRun \cup {"setActive"} => docker[job[w]] = "running"
          /\ wpc[w] = "setActive" => ~InProgress(job[w])
          /\ wpc[w] \in {"idle", "lock"} => prev[w] = NoDeployment
          /\ prev[w] # NoDeployment =>
                /\ prev[w] # job[w] /\ ProjectOf[prev[w]] = ProjectOf[job[w]]
                /\ job[w] \notin Preview
                /\ wpc[w] = "stopPrevious" => active[ProjectOf[job[w]]] = job[w]

-----------------------------------------------------------------------------
\* Idempotency

\* Where a handler has its key reserved and will record it or give it back.
KeyReserved == {"place", "unreserved", "reserving", "push", "announce", "undoStatus",
                "undoCapacity", "recordKey"}

\* A request that has executed, or may still, by the key it reserved: also
\* one whose handler died once its row was there.
Spends(d) ==
    \/ req[d] \in KeyReserved \cup {"accepted"}
    \/ req[d] = "dead" /\ serverOf[d] \in Server

\* Of the requests with one key at most one spends it, and the key says so; a
\* recorded key and a replay name an accepted request that carried the key.
KeysSpentOnce ==
    /\ \A d \in Deployment :
          /\ req[d] \in BeforeRow => serverOf[d] = NoServer
          /\ KeyOf[d] # NoKey /\ Spends(d) => idem[KeyOf[d]] # Free
          /\ KeyOf[d] # NoKey /\ req[d] \in KeyReserved => idem[KeyOf[d]] = InProgressKey
          /\ req[d] = "keyTaken" => KeyOf[d] # NoKey
          /\ req[d] = "replayed" =>
                /\ answer[d] \in Deployment
                /\ SameRequest(d, answer[d])
                /\ req[answer[d]] = "accepted"
    /\ \A d, e \in Deployment : SameRequest(d, e) /\ Spends(d) => ~Spends(e)
    /\ \A k \in Key :
          idem[k] \in Deployment => KeyOf[idem[k]] = k /\ req[idem[k]] = "accepted"

-----------------------------------------------------------------------------
\* What the steps leave alone

\* A step of a handler leaves the lock, the containers and the workers alone.
LEMMA RequestFrame ==
    ASSUME NEW d \in Deployment, RequestStep(d)
    PROVE  UNCHANGED <<locked, liveVars, cancelVars, workerVars>>
BY DEF RequestStep, Refuse, ReserveKey, ReadKey, Place, WorkersOffline, CreateUnreserved,
       Schedule, TryReserve, ReserveContended, Push, PushThrows, PublishQueued,
       MarkQueueingFailed, UndoCapacity, RecordKey, redisVars

\* So do the cancels and the death of a handler; they enqueue nothing.
LEMMA CancelFrame ==
    ASSUME NEW d \in Deployment,
           Cancel(d) \/ CancelStep(d) \/ CancelStops(d) \/ HandlerDies(d)
    PROVE  UNCHANGED <<serverOf, redisVars, liveVars, workerVars>>
BY DEF Cancel, CancelStep, ClaimRelease, RefundServer, CancelStops, HandlerDies, rowVars

\* The steps of a worker inside execute(): it holds the lock before and after.
Inside(w) ==
    /\ Holds(w) /\ wpc'[w] \notin {"idle", "lock"}
    /\ \A v \in Worker : v # w => wpc'[v] = wpc[v]
    /\ UNCHANGED <<job, queue, locked>>

\* Every step of a worker is one of three kinds: it takes an item or gives one
\* up, it tries the lock, or it stays Inside.
LEMMA WorkerFrame ==
    ASSUME TypeOK, NEW w \in Worker, WorkerStep(w)
    PROVE  /\ UNCHANGED <<idem, healthy, statusChangesLeft, reqVars, cancelVars, capReserved, serverOf>>
           /\ Pop(w) \/ AcquireLock(w) \/ Unlock(w) \/ Inside(w)
<1>. wpc \in [Worker -> WorkerPc]
  BY DEF TypeOK, WorkerTypes
<1>1. CASE Pop(w) \/ AcquireLock(w) \/ Unlock(w)
  BY <1>1 DEF Pop, AcquireLock, Unlock, rowVars, serverVars
<1>2. CASE Load(w) \/ LoadThrows(w)
  BY <1>2 DEF Load, LoadThrows, Inside, Holds, Move, rowVars, serverVars, redisVars
<1>3. CASE AssertCanContinue(w) \/ UpdateStatus(w)
  BY <1>3 DEF AssertCanContinue, AfterAssert, UpdateStatus, Inside, Holds, Move, rowVars, serverVars, redisVars
<1>4. CASE BuildImage(w) \/ HealthCheck(w) \/ ConfigureRoute(w)
  BY <1>4 DEF BuildImage, HealthCheck, ConfigureRoute, Inside, Holds, Move, rowVars, serverVars, redisVars
<1>5. CASE RunContainer(w) \/ RunFails(w)
  BY <1>5 DEF RunContainer, RunFails, Inside, Holds, Move, rowVars, serverVars, redisVars
<1>6. CASE StepFails(w)
  BY <1>6 DEF StepFails, Inside, Holds, rowVars, serverVars, redisVars
<1>7. CASE CallThrows(w)
  BY <1>7 DEF CallThrows, Inside, Holds, rowVars, serverVars, redisVars
<1>8. CASE CreateRow(w) \/ ReadPrevious(w) \/ Rebalance(w)
  BY <1>8 DEF CreateRow, ReadPrevious, Rebalance, Inside, Holds, Move, rowVars, serverVars, redisVars
<1>9. CASE MarkReady(w) \/ SetActive(w)
  BY <1>9 DEF MarkReady, SetActive, Inside, Holds, Move, rowVars, serverVars, redisVars
<1>10. CASE StopPrevious(w) \/ MarkStopped(w) \/ AnnounceReady(w)
  BY <1>10 DEF StopPrevious, MarkStopped, AnnounceReady, Inside, Holds, Move, rowVars, serverVars, redisVars
<1>11. CASE StopOwn(w) \/ MarkFailed(w)
  BY <1>11 DEF StopOwn, MarkFailed, Inside, Holds, Move, rowVars, serverVars, redisVars
<1>12. CASE ReleaseCapacity(w) \/ FailDeployment(w)
  BY <1>12 DEF ReleaseCapacity, FailDeployment, Inside, Holds, Move, rowVars, serverVars, redisVars
<1>. QED BY <1>1, <1>2, <1>3, <1>4, <1>5, <1>6, <1>7, <1>8, <1>9, <1>10, <1>11, <1>12
         DEF WorkerStep

\* Of a worker's steps only ReleaseCapacity decrements for its deployment, and
\* only Rebalance writes counters besides.
LEMMA WorkerReleases ==
    ASSUME NEW w \in Worker, WorkerStep(w)
    PROVE  /\ ReleaseCapacity(w) \/ UNCHANGED released
           /\ ReleaseCapacity(w) \/ Rebalance(w) \/ UNCHANGED reserved
BY DEF WorkerStep, Pop, AcquireLock, Load, LoadThrows, AssertCanContinue, UpdateStatus,
       BuildImage, HealthCheck, ConfigureRoute, RunContainer, RunFails, StepFails,
       CallThrows, CreateRow, ReadPrevious, MarkReady, SetActive, StopPrevious,
       MarkStopped, AnnounceReady, StopOwn, MarkFailed, FailDeployment, Unlock,
       Rebalance, serverVars

-----------------------------------------------------------------------------
\* The lock

Locking == LockHeld /\ OneWorkerPerDeployment

\* A worker inside execute() stays the only one for its deployment.
LEMMA WorkerLocking ==
    ASSUME TypeOK, Locking, NEW w \in Worker, WorkerStep(w) \/ WorkerCrashes(w)
    PROVE  Locking'
<1>. /\ wpc \in [Worker -> WorkerPc]
     /\ job \in [Worker -> Deployment \cup {NoDeployment}]
  BY DEF TypeOK, WorkerTypes
<1>1. CASE Pop(w)
  BY <1>1 DEF Pop, Move, Locking, LockHeld, OneWorkerPerDeployment, Holds
<1>2. CASE AcquireLock(w)
  BY <1>2 DEF AcquireLock, Locking, LockHeld, OneWorkerPerDeployment, Holds
<1>3. CASE Unlock(w)
  <2>1. Holds(w)
    BY <1>3 DEF Unlock, Move, Holds
  <2>2. \A v \in Worker : Holds(v)' => v # w /\ Holds(v) /\ job'[v] = job[v]
    BY <1>3 DEF Unlock, Move, Holds
  <2>3. \A v \in Worker : Holds(v)' => job[v] # job[w]
    BY <2>1, <2>2 DEF Locking, OneWorkerPerDeployment
  <2>4. locked' = locked \ {job[w]}
    BY <1>3 DEF Unlock
  <2>. QED BY <2>2, <2>3, <2>4 DEF Locking, LockHeld, OneWorkerPerDeployment
<1>4. CASE Inside(w)
  BY <1>4 DEF Inside, Locking, LockHeld, OneWorkerPerDeployment, Holds
<1>5. CASE WorkerCrashes(w)
  BY <1>5 DEF WorkerCrashes, redisVars, Locking, LockHeld, OneWorkerPerDeployment, Holds
<1>. QED BY <1>1, <1>2, <1>3, <1>4, <1>5, WorkerFrame

\* Nobody is inside execute() at the start.
LEMMA InitLocking == Init => Locking
BY DEF Init, Locking, LockHeld, OneWorkerPerDeployment, Holds

\* No step brings a second worker inside, unless a lock expires.
LEMMA NextLocking ==
    ASSUME "lockTTL" \notin Faults
    PROVE  TypeOK /\ Locking /\ [Next]_vars => Locking'
<1>. SUFFICES ASSUME TypeOK, Locking, [Next]_vars PROVE Locking'
  OBVIOUS
<1>1. CASE UNCHANGED vars
  BY <1>1 DEF vars, redisVars, workerVars, Locking, LockHeld, OneWorkerPerDeployment, Holds
<1>2. ASSUME NEW d \in Deployment,
             RequestStep(d) \/ Cancel(d) \/ CancelStep(d) \/ CancelStops(d) \/ HandlerDies(d)
      PROVE  Locking'
  <2>1. UNCHANGED <<locked, wpc, job>>
    BY <1>2, RequestFrame, CancelFrame DEF workerVars, redisVars
  <2>. QED BY <2>1 DEF Locking, LockHeld, OneWorkerPerDeployment, Holds
<1>3. ASSUME NEW d \in Deployment, LockExpires(d) PROVE Locking'
  BY <1>3 DEF LockExpires
<1>4. ASSUME NEW w \in Worker, WorkerStep(w) \/ WorkerCrashes(w) PROVE Locking'
  BY <1>4, WorkerLocking
<1>5. ASSUME NEW s \in Server, SetServerStatus(s) PROVE Locking'
  BY <1>5 DEF SetServerStatus, redisVars, workerVars, Locking, LockHeld, OneWorkerPerDeployment, Holds
<1>. QED BY <1>1, <1>2, <1>3, <1>4, <1>5 DEF Next

\* The deployment lock works as long as it does not expire: for any number of
\* workers, crashes and duplicated items, no two workers are ever inside
\* DeploymentPipeline.execute for one deployment.
THEOREM LockExcludes ==
    ASSUME "lockTTL" \notin Faults
    PROVE  Spec => []OneWorkerPerDeployment
<1>1. Init => TypeOK /\ Locking
  BY InitTypeOK, InitLocking
<1>2. TypeOK /\ Locking /\ [Next]_vars => TypeOK' /\ Locking'
  BY NextTypeOK, NextLocking
<1>3. Locking => OneWorkerPerDeployment
  BY DEF Locking
<1>. QED BY <1>1, <1>2, <1>3, PTL DEF Spec

-----------------------------------------------------------------------------
\* Cancels

CancelOnce == FlagUnclaimed /\ CancelReleasesAtMostOnce

\* No path but the cancel route counts as a cancel's release.
LEMMA CountOther ==
    ASSUME TypeOK, NEW d \in Deployment, NEW b \in Releaser \ {"cancel"}, CountRelease(d, b)
    PROVE  \A e \in Deployment : released'[e]["cancel"] = released[e]["cancel"]
BY DEF TypeOK, ReleasedTypes, CountRelease, Releaser

\* A handler's step sets the flag of a row only when it creates it, before any
\* cancel can have found it.
LEMMA RequestCancelOnce ==
    ASSUME TypeOK, CancelOnce, NEW d \in Deployment, RequestStep(d) \/ HandlerDies(d)
    PROVE  CancelOnce'
<1>. /\ req \in [Deployment -> RequestPc]
     /\ capReserved \in [Deployment -> BOOLEAN]
     /\ refunds \in [Deployment -> Nat]
     /\ released \in [Deployment -> [Releaser -> Nat]]
  BY DEF TypeOK, RequestTypes, RowTypes, CancelTypes, ReleasedTypes
<1>. USE DEF CancelOnce, FlagUnclaimed, CancelReleasesAtMostOnce, BeforeRow
<1>1. CASE Refuse(d) \/ ReserveKey(d) \/ ReadKey(d) \/ Place(d)
  BY <1>1 DEF Refuse, ReserveKey, ReadKey, Place, Goto, rowVars, cancelVars
<1>2. CASE WorkersOffline(d) \/ Schedule(d) \/ ReserveContended(d)
  BY <1>2 DEF WorkersOffline, Schedule, ReserveContended, Reject, rowVars, cancelVars
<1>3. CASE CreateUnreserved(d)
  BY <1>3 DEF CreateUnreserved, Goto, cancelVars
<1>4. CASE TryReserve(d)
  BY <1>4 DEF TryReserve, cancelVars
<1>5. CASE Push(d) \/ PushThrows(d) \/ PublishQueued(d) \/ MarkQueueingFailed(d) \/ RecordKey(d)
  BY <1>5 DEF Push, PushThrows, PublishQueued, MarkQueueingFailed, RecordKey, Goto, rowVars, cancelVars
<1>6. CASE UndoCapacity(d)
  <2>1. \A e \in Deployment : released'[e]["cancel"] = released[e]["cancel"]
    BY <1>6, CountOther DEF UndoCapacity, Releaser
  <2>2. UNCHANGED <<capReserved, refunds>>
    BY <1>6 DEF UndoCapacity, rowVars, cancelVars
  <2>3. \A e \in Deployment : req'[e] \in BeforeRow => req[e] \in BeforeRow
    BY <1>6 DEF UndoCapacity, Reject
  <2>. QED BY <2>1, <2>2, <2>3
<1>7. CASE HandlerDies(d)
  BY <1>7 DEF HandlerDies, rowVars, cancelVars
<1>. QED BY <1>1, <1>2, <1>3, <1>4, <1>5, <1>6, <1>7 DEF RequestStep

\* Of the cancels of one deployment only the one that flips the flag goes on
\* to decrement.
LEMMA CancelCancelOnce ==
    ASSUME TypeOK, CancelOnce, NEW d \in Deployment,
           Cancel(d) \/ CancelStep(d) \/ CancelStops(d)
    PROVE  CancelOnce'
<1>. /\ capReserved \in [Deployment -> BOOLEAN]
     /\ claims \in [Deployment -> Nat]
     /\ refunds \in [Deployment -> Nat]
     /\ released \in [Deployment -> [Releaser -> Nat]]
  BY DEF TypeOK, RowTypes, CancelTypes, ReleasedTypes
<1>. USE DEF CancelOnce, FlagUnclaimed, CancelReleasesAtMostOnce
<1>1. CASE Cancel(d)
  BY <1>1 DEF Cancel, reqVars
<1>2. CASE ClaimRelease(d)
  <2>1. /\ UNCHANGED <<req, released>>
        /\ capReserved' = [capReserved EXCEPT ![d] = FALSE]
        /\ refunds' = IF capReserved[d] THEN [refunds EXCEPT ![d] = @ + 1] ELSE refunds
    BY <1>2 DEF ClaimRelease, reqVars
  <2>2. CASE capReserved[d]
    BY <2>1, <2>2 DEF Releaser
  <2>3. CASE ~capReserved[d]
    BY <2>1, <2>3
  <2>. QED BY <2>2, <2>3
<1>3. CASE RefundServer(d)
  <2>1. /\ UNCHANGED <<req, capReserved>>
        /\ refunds[d] > 0
        /\ refunds' = [refunds EXCEPT ![d] = @ - 1]
        /\ released' = [released EXCEPT ![d]["cancel"] = @ + 1]
    BY <1>3 DEF RefundServer, CountRelease, reqVars, rowVars
  <2>2. \A e \in Deployment :
           refunds'[e] + released'[e]["cancel"] = refunds[e] + released[e]["cancel"]
    BY <2>1 DEF Releaser
  <2>. QED BY <2>1, <2>2
<1>4. CASE CancelStops(d)
  <2>1. UNCHANGED <<req, capReserved, released>>
    BY <1>4 DEF CancelStops, reqVars, rowVars
  <2>2. \A e \in Deployment : refunds'[e] \in Nat /\ refunds'[e] <= refunds[e]
    BY <1>4 DEF CancelStops
  <2>3. \A e \in Deployment : released[e]["cancel"] \in Nat
    BY DEF Releaser
  <2>. QED BY <2>1, <2>2, <2>3
<1>. QED BY <1>1, <1>2, <1>3, <1>4 DEF CancelStep

\* No cancel has run at the start.
LEMMA InitCancelOnce == Init => CancelOnce
BY DEF Init, CancelOnce, FlagUnclaimed, CancelReleasesAtMostOnce, BeforeRow, Releaser

\* Every step keeps the flag and the cancels' releases apart.
LEMMA NextCancelOnce == TypeOK /\ CancelOnce /\ [Next]_vars => CancelOnce'
<1>. SUFFICES ASSUME TypeOK, CancelOnce, [Next]_vars PROVE CancelOnce'
  OBVIOUS
<1>1. ASSUME UNCHANGED <<capReserved, req, refunds, released>> PROVE CancelOnce'
  BY <1>1 DEF CancelOnce, FlagUnclaimed, CancelReleasesAtMostOnce
<1>2. CASE UNCHANGED vars
  BY <1>1, <1>2 DEF vars, rowVars, reqVars, cancelVars
<1>3. ASSUME NEW d \in Deployment, RequestStep(d) \/ HandlerDies(d) PROVE CancelOnce'
  BY <1>3, RequestCancelOnce
<1>4. ASSUME NEW d \in Deployment, Cancel(d) \/ CancelStep(d) \/ CancelStops(d)
      PROVE  CancelOnce'
  BY <1>4, CancelCancelOnce
<1>5. ASSUME NEW d \in Deployment, LockExpires(d) PROVE CancelOnce'
  BY <1>1, <1>5 DEF LockExpires, rowVars, reqVars, cancelVars
<1>6. ASSUME NEW w \in Worker, WorkerStep(w) PROVE CancelOnce'
  <2>1. UNCHANGED <<capReserved, req, refunds>>
    BY <1>6, WorkerFrame DEF reqVars, cancelVars
  <2>2. CASE UNCHANGED released
    BY <1>1, <2>1, <2>2
  <2>3. CASE ReleaseCapacity(w)
    <3>1. job[w] \in Deployment
      BY <2>3 DEF ReleaseCapacity, Move, TypeOK, WorkerTypes
    <3>2. \A e \in Deployment : released'[e]["cancel"] = released[e]["cancel"]
      BY <2>3, <3>1, CountOther DEF ReleaseCapacity, Releaser
    <3>. QED BY <2>1, <3>2 DEF CancelOnce, FlagUnclaimed, CancelReleasesAtMostOnce
  <2>. QED BY <1>6, <2>2, <2>3, WorkerReleases
<1>7. ASSUME NEW w \in Worker, WorkerCrashes(w) PROVE CancelOnce'
  BY <1>1, <1>7 DEF WorkerCrashes, rowVars, reqVars, cancelVars
<1>8. ASSUME NEW s \in Server, SetServerStatus(s) PROVE CancelOnce'
  BY <1>1, <1>8 DEF SetServerStatus, rowVars, reqVars, cancelVars
<1>. QED BY <1>2, <1>3, <1>4, <1>5, <1>6, <1>7, <1>8 DEF Next

\* However many cancels race with each other, with the pipeline and with
\* failures, releaseReservedCapacityIfNeeded decrements at most once for a
\* deployment: flipping capacityReserved decides who does.
THEOREM CancelsReleaseOnce == Spec => []CancelReleasesAtMostOnce
<1>1. Init => TypeOK /\ CancelOnce
  BY InitTypeOK, InitCancelOnce
<1>2. TypeOK /\ CancelOnce /\ [Next]_vars => TypeOK' /\ CancelOnce'
  BY NextTypeOK, NextCancelOnce
<1>3. CancelOnce => CancelReleasesAtMostOnce
  BY DEF CancelOnce
<1>. QED BY <1>1, <1>2, <1>3, PTL DEF Spec

-----------------------------------------------------------------------------
\* Capacity

\* Placed speaks of these variables only.
LEMMA PlacedKept ==
    ASSUME Placed, UNCHANGED <<req, candidate, serverOf, row, queue, wpc, job, prev>>
    PROVE  Placed'
BY DEF Placed

\* What a push leaves in the queue was there before, or is the item pushed.
LEMMA PushElements ==
    ASSUME queue \in Seq(Deployment), NEW d \in Deployment, Push(d),
           NEW i \in 1..Len(queue')
    PROVE  queue'[i] = d \/ (i \in 1..Len(queue) /\ queue'[i] = queue[i])
<1>1. Append(queue, d) \in Seq(Deployment)
  BY AppendType
<1>2. CASE queue' = Append(queue, d)
  BY <1>2, AppendElements
<1>3. CASE queue' = Append(Append(queue, d), d)
  <2>1. queue'[i] = d \/ (i \in 1..Len(Append(queue, d)) /\ queue'[i] = Append(queue, d)[i])
    BY <1>1, <1>3, AppendElements
  <2>. QED BY <2>1, AppendElements
<1>. QED BY <1>2, <1>3 DEF Push

\* A handler pushes nothing it has not placed.
LEMMA RequestPlaced ==
    ASSUME TypeOK, Placed, NEW d \in Deployment, RequestStep(d) \/ HandlerDies(d)
    PROVE  Placed'
<1>. /\ req \in [Deployment -> RequestPc]
     /\ candidate \in [Deployment -> Server \cup {NoServer}]
     /\ serverOf \in [Deployment -> Server \cup {NoServer}]
     /\ healthy \subseteq Server
     /\ queue \in Seq(Deployment)
     /\ job \in [Worker -> Deployment \cup {NoDeployment}]
     /\ \A w \in Worker : wpc[w] # "idle" => job[w] \in Deployment
     /\ prev \in [Worker -> Deployment \cup {NoDeployment}]
  BY DEF TypeOK, RequestTypes, RowTypes, ServerTypes, RedisTypes, WorkerTypes
<1>0. NoServer \notin Server
  BY ConstantsAssumption
<1>frame. RequestStep(d) => UNCHANGED <<row, wpc, job, prev>>
  BY RequestFrame DEF liveVars, workerVars
<1>1. CASE Refuse(d) \/ ReserveKey(d) \/ ReadKey(d) \/ WorkersOffline(d)
  BY <1>1, <1>frame DEF Placed, RequestStep, Refuse, ReserveKey, ReadKey, WorkersOffline,
         Goto, Reject, rowVars, redisVars
<1>2. CASE Place(d)
  <2>1. UNCHANGED <<serverOf, row, queue, wpc, job, prev>>
    BY <1>2 DEF Place, rowVars, liveVars, redisVars, workerVars
  <2>2. \A e \in Deployment :
           /\ req'[e] = "unreserved" => candidate'[e] \in Server
           /\ req'[e] = "push" => req[e] = "push"
    BY <1>2 DEF Place, Placed
  <2>. QED BY <2>1, <2>2 DEF Placed
<1>3. CASE Schedule(d) \/ ReserveContended(d)
  <2>1. UNCHANGED <<serverOf, row, queue, wpc, job, prev>>
    BY <1>3 DEF Schedule, ReserveContended, rowVars, liveVars, workerVars
  <2>2. \A e \in Deployment :
           /\ req'[e] = "unreserved" => req[e] = "unreserved" /\ candidate'[e] = candidate[e]
           /\ req'[e] = "push" => req[e] = "push"
    BY <1>3 DEF Schedule, ReserveContended, Reject
  <2>. QED BY <2>1, <2>2 DEF Placed
<1>4. CASE CreateUnreserved(d) \/ TryReserve(d)
  <2>1. UNCHANGED <<candidate, row, queue, wpc, job, prev>>
    BY <1>4 DEF CreateUnreserved, TryReserve, liveVars, redisVars, workerVars
  <2>2. candidate[d] \in Server
    BY <1>4 DEF CreateUnreserved, TryReserve, Goto, Placed
  <2>3. /\ serverOf' = [serverOf EXCEPT ![d] = candidate[d]]
        /\ req' = [req EXCEPT ![d] = "push"]
    BY <1>4 DEF CreateUnreserved, TryReserve, Goto
  <2>4. \A e \in Deployment : serverOf[e] \in Server \/ e = d => serverOf'[e] \in Server
    BY <2>2, <2>3
  <2>5. /\ \A i \in 1..Len(queue) : queue[i] \in Deployment
        /\ \A w \in Worker : prev[w] # NoDeployment => prev[w] \in Deployment
    OBVIOUS
  <2>. QED BY <2>1, <2>2, <2>3, <2>4, <2>5 DEF Placed
<1>5. CASE Push(d)
  <2>1. UNCHANGED <<candidate, serverOf, row, wpc, job, prev>>
    BY <1>5 DEF Push, rowVars, liveVars, workerVars
  <2>2. serverOf[d] \in Server
    BY <1>5 DEF Push, Goto, Placed
  <2>3. \A i \in 1..Len(queue') : queue'[i] = d \/ (i \in 1..Len(queue) /\ queue'[i] = queue[i])
    BY <1>5, PushElements
  <2>4. \A e \in Deployment : req'[e] \in {"push", "unreserved"} => req'[e] = req[e]
    BY <1>5 DEF Push, Goto
  <2>. QED BY <2>1, <2>2, <2>3, <2>4 DEF Placed
<1>6. CASE PushThrows(d) \/ PublishQueued(d) \/ MarkQueueingFailed(d) \/ UndoCapacity(d)
           \/ RecordKey(d) \/ HandlerDies(d)
  <2>1. UNCHANGED <<candidate, serverOf, row, queue, wpc, job, prev>>
    BY <1>6 DEF PushThrows, PublishQueued, MarkQueueingFailed, UndoCapacity, RecordKey,
           HandlerDies, rowVars, liveVars, redisVars, workerVars
  <2>2. \A e \in Deployment : req'[e] \in {"push", "unreserved"} => req'[e] = req[e]
    BY <1>6 DEF PushThrows, PublishQueued, MarkQueueingFailed, UndoCapacity, RecordKey,
           HandlerDies, Goto, Reject
  <2>. QED BY <2>1, <2>2 DEF Placed
<1>. QED BY <1>1, <1>2, <1>3, <1>4, <1>5, <1>6 DEF RequestStep

\* What a worker pops, runs and replaces has been placed.
LEMMA WorkerPlaced ==
    ASSUME TypeOK, Placed, NEW w \in Worker, WorkerStep(w) \/ WorkerCrashes(w)
    PROVE  Placed'
<1>. /\ serverOf \in [Deployment -> Server \cup {NoServer}]
     /\ row \in [Deployment -> {"none", "running", "stopped"}]
     /\ queue \in Seq(Deployment)
     /\ wpc \in [Worker -> WorkerPc]
     /\ job \in [Worker -> Deployment \cup {NoDeployment}]
     /\ \A v \in Worker : wpc[v] # "idle" => job[v] \in Deployment
     /\ prev \in [Worker -> Deployment \cup {NoDeployment}]
  BY DEF TypeOK, RowTypes, LiveTypes, RedisTypes, WorkerTypes
<1>1. CASE Pop(w)
  <2>1. UNCHANGED <<req, candidate, serverOf, row, prev>>
    BY <1>1 DEF Pop, rowVars, liveVars, reqVars
  <2>2. /\ job'[w] = queue[1] /\ 1 \in 1..Len(queue)
        /\ \A v \in Worker : v # w => job'[v] = job[v] /\ wpc'[v] = wpc[v]
    BY <1>1 DEF Pop, Move
  <2>3. \A i \in 1..Len(queue') : i + 1 \in 1..Len(queue) /\ queue'[i] = queue[i + 1]
    BY <1>1 DEF Pop
  <2>. QED BY <2>1, <2>2, <2>3 DEF Placed
<1>2. CASE AcquireLock(w) \/ Unlock(w) \/ WorkerCrashes(w)
  <2>1. UNCHANGED <<req, candidate, serverOf, row, queue>>
    BY <1>2 DEF AcquireLock, Unlock, WorkerCrashes, rowVars, liveVars, reqVars, redisVars
  <2>2. \A v \in Worker :
           /\ wpc'[v] # "idle" => wpc[v] # "idle" /\ job'[v] = job[v]
           /\ prev'[v] \in {prev[v], NoDeployment}
    BY <1>2 DEF AcquireLock, Unlock, WorkerCrashes, Move
  <2>. QED BY <2>1, <2>2 DEF Placed
<1>3. ASSUME Inside(w), UNCHANGED <<row, prev>>, WorkerStep(w) PROVE Placed'
  BY <1>3, WorkerFrame DEF Placed, Inside, Holds, reqVars
<1>4. CASE CreateRow(w)
  <2>1. UNCHANGED <<req, candidate, serverOf, queue, job, prev>> /\ wpc[w] = "createRow"
    BY <1>4 DEF CreateRow, Move, rowVars, reqVars, redisVars
  <2>2. \A e \in Deployment : row'[e] = "running" => row[e] = "running" \/ e = job[w]
    BY <1>4 DEF CreateRow
  <2>3. \A v \in Worker : wpc'[v] # "idle" => wpc[v] # "idle"
    BY <1>4 DEF CreateRow, Move
  <2>. QED BY <2>1, <2>2, <2>3 DEF Placed
<1>5. CASE ReadPrevious(w)
  <2>1. UNCHANGED <<req, candidate, serverOf, queue, job, row>>
    BY <1>5 DEF ReadPrevious, Move, rowVars, reqVars, redisVars, liveVars
  <2>2. \A v \in Worker : prev'[v] = prev[v] \/ prev'[v] \in LiveRows(ProjectOf[job[w]])
    BY <1>5 DEF ReadPrevious
  <2>3. \A v \in Worker : wpc'[v] # "idle" => wpc[v] # "idle"
    BY <1>5 DEF ReadPrevious, Move
  <2>. QED BY <2>1, <2>2, <2>3 DEF Placed, LiveRows
<1>6. CASE MarkStopped(w)
  <2>1. UNCHANGED <<req, candidate, serverOf, queue, job, prev>>
    BY <1>6 DEF MarkStopped, Move, rowVars, reqVars, redisVars
  <2>2. \A e \in Deployment : row'[e] = "running" => row[e] = "running"
    BY <1>6 DEF MarkStopped
  <2>3. \A v \in Worker : wpc'[v] # "idle" => wpc[v] # "idle"
    BY <1>6 DEF MarkStopped, Move
  <2>. QED BY <2>1, <2>2, <2>3 DEF Placed
<1>7. WorkerStep(w) =>
         \/ AcquireLock(w) \/ Unlock(w) \/ Pop(w) \/ CreateRow(w) \/ ReadPrevious(w) \/ MarkStopped(w)
         \/ UNCHANGED <<row, prev>>
  BY DEF WorkerStep, Load, LoadThrows, AssertCanContinue, UpdateStatus, BuildImage,
         HealthCheck, ConfigureRoute, RunContainer, RunFails, StepFails, CallThrows,
         Rebalance, MarkReady, SetActive, StopPrevious, AnnounceReady, StopOwn,
         MarkFailed, ReleaseCapacity, FailDeployment, liveVars
<1>. QED BY <1>1, <1>2, <1>3, <1>4, <1>5, <1>6, <1>7, WorkerFrame

\* There is nothing to place at the start.
LEMMA InitPlaced == Init => Placed
BY DEF Init, Placed

\* Every step keeps what is queued, executed and running placed.
LEMMA NextPlaced == TypeOK /\ Placed /\ [Next]_vars => Placed'
<1>. SUFFICES ASSUME TypeOK, Placed, [Next]_vars PROVE Placed'
  OBVIOUS
<1>1. CASE UNCHANGED vars
  BY <1>1, PlacedKept DEF vars, reqVars, rowVars, liveVars, redisVars, workerVars
<1>2. ASSUME NEW d \in Deployment, RequestStep(d) \/ HandlerDies(d) PROVE Placed'
  BY <1>2, RequestPlaced
<1>3. ASSUME NEW d \in Deployment, Cancel(d) \/ CancelStep(d) \/ CancelStops(d) PROVE Placed'
  <2>1. UNCHANGED reqVars
    BY <1>3 DEF Cancel, CancelStep, ClaimRelease, RefundServer, CancelStops
  <2>. QED BY <1>3, <2>1, CancelFrame, PlacedKept DEF reqVars, liveVars, redisVars, workerVars
<1>4. ASSUME NEW d \in Deployment, LockExpires(d) PROVE Placed'
  BY <1>4, PlacedKept DEF LockExpires, reqVars, rowVars, liveVars, workerVars
<1>5. ASSUME NEW w \in Worker, WorkerStep(w) \/ WorkerCrashes(w) PROVE Placed'
  BY <1>5, WorkerPlaced
<1>6. ASSUME NEW s \in Server, SetServerStatus(s) PROVE Placed'
  BY <1>6, PlacedKept DEF SetServerStatus, reqVars, rowVars, liveVars, redisVars, workerVars
<1>. QED BY <1>1, <1>2, <1>3, <1>4, <1>5, <1>6 DEF Next

\* A counter that is decremented stays within the server.
LEMMA DecrementWithin ==
    ASSUME TypeOK, ReservedWithinCapacity, NEW s, NEW d \in Deployment,
           Decrement(s, ProjectOf[d])
    PROVE  ReservedWithinCapacity'
<1>1. Need[ProjectOf[d]] \in Nat /\ \A t \in Server : Total[t] \in Nat /\ reserved[t] \in Int
  BY NeedType, ConstantsAssumption DEF TypeOK, ServerTypes
<1>2. ASSUME NEW t \in Server PROVE reserved'[t] <= Total[t]
  <2>1. reserved \in [Server -> Int] /\ reserved[t] <= Total[t]
    BY DEF TypeOK, ServerTypes, ReservedWithinCapacity
  <2>2. reserved'[t] = IF t = s THEN reserved[t] - Need[ProjectOf[d]] ELSE reserved[t]
    BY <2>1 DEF Decrement
  <2>. QED BY <1>1, <2>1, <2>2
<1>. QED BY <1>2 DEF ReservedWithinCapacity

\* The conditional UPDATE is the only statement that adds to the counter of a
\* single host: a rebalance finds both containers on it.
LEMMA NextWithinCapacity ==
    ASSUME \A s, t \in Server : s = t
    PROVE  TypeOK /\ Placed /\ ReservedWithinCapacity /\ [Next]_vars => ReservedWithinCapacity'
<1>. SUFFICES ASSUME TypeOK, Placed, ReservedWithinCapacity, [Next]_vars
              PROVE  ReservedWithinCapacity'
  OBVIOUS
<1>1. ASSUME UNCHANGED reserved PROVE ReservedWithinCapacity'
  BY <1>1 DEF ReservedWithinCapacity
<1>2. CASE UNCHANGED vars
  BY <1>1, <1>2 DEF vars, serverVars
<1>3. ASSUME NEW d \in Deployment, RequestStep(d) PROVE ReservedWithinCapacity'
  <2>1. CASE TryReserve(d)
    <3>1. ASSUME NEW t \in Server PROVE reserved'[t] <= Total[t]
      <4>1. reserved \in [Server -> Int] /\ reserved[t] <= Total[t]
        BY DEF TypeOK, ServerTypes, ReservedWithinCapacity
      <4>2. /\ reserved' = [reserved EXCEPT ![candidate[d]] = @ + Need[ProjectOf[d]]]
            /\ reserved[candidate[d]] + Need[ProjectOf[d]] <= Total[candidate[d]]
        BY <2>1 DEF TryReserve, HasRoom
      <4>3. CASE t = candidate[d]
        BY <4>1, <4>2, <4>3
      <4>4. CASE t # candidate[d]
        BY <4>1, <4>2, <4>4
      <4>. QED BY <4>3, <4>4
    <3>. QED BY <3>1 DEF ReservedWithinCapacity
  <2>2. CASE UndoCapacity(d)
    BY <1>1, <2>2, DecrementWithin DEF UndoCapacity
  <2>3. TryReserve(d) \/ UndoCapacity(d) \/ UNCHANGED reserved
    BY <1>3 DEF RequestStep, Refuse, ReserveKey, ReadKey, Place, WorkersOffline,
           CreateUnreserved, Schedule, ReserveContended, Push, PushThrows, PublishQueued,
           MarkQueueingFailed, RecordKey, serverVars
  <2>. QED BY <1>1, <2>1, <2>2, <2>3
<1>4. ASSUME NEW d \in Deployment,
             Cancel(d) \/ CancelStep(d) \/ CancelStops(d) \/ HandlerDies(d) \/ LockExpires(d)
      PROVE  ReservedWithinCapacity'
  <2>1. CASE RefundServer(d)
    BY <2>1, DecrementWithin DEF RefundServer
  <2>2. RefundServer(d) \/ UNCHANGED reserved
    BY <1>4 DEF Cancel, CancelStep, ClaimRelease, CancelStops, HandlerDies, LockExpires, serverVars
  <2>. QED BY <1>1, <2>1, <2>2
<1>5. ASSUME NEW w \in Worker, WorkerStep(w) PROVE ReservedWithinCapacity'
  <2>1. CASE ReleaseCapacity(w)
    <3>1. job[w] \in Deployment
      BY <2>1 DEF ReleaseCapacity, Move, TypeOK, WorkerTypes
    <3>. QED BY <1>1, <2>1, <3>1, DecrementWithin DEF ReleaseCapacity
  <2>2. CASE Rebalance(w)
    <3>1. serverOf[job[w]] \in Server
      BY <2>2 DEF Rebalance, Move, Placed
    <3>2. prev[w] = NoDeployment \/ serverOf[prev[w]] = serverOf[job[w]]
      BY <3>1 DEF Placed
    <3>3. UNCHANGED reserved
      BY <2>2, <3>2 DEF Rebalance
    <3>. QED BY <1>1, <3>3
  <2>. QED BY <1>1, <1>5, <2>1, <2>2, WorkerReleases
<1>6. ASSUME NEW w \in Worker, WorkerCrashes(w) PROVE ReservedWithinCapacity'
  BY <1>1, <1>6 DEF WorkerCrashes, serverVars
<1>7. ASSUME NEW s \in Server, SetServerStatus(s) PROVE ReservedWithinCapacity'
  BY <1>1, <1>7 DEF SetServerStatus
<1>. QED BY <1>2, <1>3, <1>4, <1>5, <1>6, <1>7 DEF Next

\* Nothing is reserved at the start.
LEMMA InitWithinCapacity == Init => ReservedWithinCapacity
BY ConstantsAssumption DEF Init, ReservedWithinCapacity

\* On a single host, for any number of concurrent requests, cancels, workers
\* and failures, what is reserved never exceeds what the host has.
THEOREM SingleHostNotOvercommitted ==
    ASSUME \A s, t \in Server : s = t
    PROVE  Spec => []ReservedWithinCapacity
<1>1. Init => TypeOK /\ Placed /\ ReservedWithinCapacity
  BY InitTypeOK, InitPlaced, InitWithinCapacity
<1>2. TypeOK /\ Placed /\ ReservedWithinCapacity /\ [Next]_vars
         => TypeOK' /\ Placed' /\ ReservedWithinCapacity'
  BY NextTypeOK, NextPlaced, NextWithinCapacity
<1>. QED BY <1>1, <1>2, PTL DEF Spec

-----------------------------------------------------------------------------
\* Items that have not been pushed

\* The points of a handler a step cannot reach from a point outside.
Closed(S) == S = BeforePush \/ (S = NeverPushed /\ "publish" \notin Faults)

\* No step of a handler reaches the points S from outside.
LEMMA RequestPoints ==
    ASSUME TypeOK, NEW S, Closed(S), NEW d \in Deployment, RequestStep(d) \/ HandlerDies(d)
    PROVE  \A e \in Deployment : req'[e] \in S => req[e] \in S
<1>. req \in [Deployment -> RequestPc]
  BY DEF TypeOK, RequestTypes
<1>. USE DEF Closed, BeforePush, NeverPushed, BeforeRow
<1>1. CASE Refuse(d) \/ ReserveKey(d) \/ ReadKey(d) \/ Place(d) \/ WorkersOffline(d)
  BY <1>1 DEF Refuse, ReserveKey, ReadKey, Place, WorkersOffline, Goto, Reject
<1>2. CASE CreateUnreserved(d) \/ Schedule(d) \/ TryReserve(d) \/ ReserveContended(d)
  BY <1>2 DEF CreateUnreserved, Schedule, TryReserve, ReserveContended, Goto, Reject
<1>3. CASE Push(d) \/ PushThrows(d) \/ PublishQueued(d)
  BY <1>3 DEF Push, PushThrows, PublishQueued, Goto
<1>4. CASE MarkQueueingFailed(d) \/ UndoCapacity(d) \/ RecordKey(d) \/ HandlerDies(d)
  BY <1>4 DEF MarkQueueingFailed, UndoCapacity, RecordKey, HandlerDies, Goto, Reject
<1>. QED BY <1>1, <1>2, <1>3, <1>4 DEF RequestStep

\* A handler's step leaves the points S only by pushing or by being done.
LEMMA RequestNotPushed ==
    ASSUME TypeOK, NEW S, Closed(S), NotPushed(S), NEW d \in Deployment,
           RequestStep(d) \/ HandlerDies(d)
    PROVE  NotPushed(S)'
<1>. /\ req \in [Deployment -> RequestPc]
     /\ queue \in Seq(Deployment)
     /\ released \in [Deployment -> [Releaser -> Nat]]
  BY DEF TypeOK, RequestTypes, RedisTypes, ReleasedTypes
<1>1. UNCHANGED <<wpc, job>>
  BY RequestFrame DEF HandlerDies, workerVars
<1>2. \A e \in Deployment : released'[e]["pipeline"] = released[e]["pipeline"]
  <2>1. CASE UndoCapacity(d)
    <3>1. \/ released' = [released EXCEPT ![d]["queueFailure"] = @ + 1]
          \/ UNCHANGED released
      BY <2>1 DEF UndoCapacity, CountRelease
    <3>. QED BY <3>1, ZenonT(60) DEF Releaser
  <2>2. UndoCapacity(d) \/ UNCHANGED released
    BY DEF RequestStep, HandlerDies, Refuse, ReserveKey, ReadKey, Place, WorkersOffline,
           CreateUnreserved, Schedule, TryReserve, ReserveContended, Push, PushThrows,
           PublishQueued, MarkQueueingFailed, RecordKey
  <2>. QED BY <2>1, <2>2
<1>3. \A e \in Deployment : req'[e] \in S => req[e] \in S
  BY RequestPoints
<1>4. CASE Push(d)
  <2>1. req'[d] \notin S
    BY <1>4 DEF Push, Goto, Closed, BeforePush, NeverPushed, BeforeRow
  <2>2. \A i \in 1..Len(queue') : queue'[i] = d \/ (i \in 1..Len(queue) /\ queue'[i] = queue[i])
    BY <1>4, PushElements
  <2>. QED BY <1>1, <1>2, <1>3, <2>1, <2>2 DEF NotPushed
<1>5. CASE UNCHANGED queue
  BY <1>1, <1>2, <1>3, <1>5 DEF NotPushed
<1>6. Push(d) \/ UNCHANGED queue
  BY DEF RequestStep, HandlerDies, Refuse, ReserveKey, ReadKey, Place, WorkersOffline,
         CreateUnreserved, Schedule, TryReserve, ReserveContended, PushThrows,
         PublishQueued, MarkQueueingFailed, UndoCapacity, RecordKey, redisVars
<1>. QED BY <1>4, <1>5, <1>6

\* A worker only has items that were pushed.
LEMMA WorkerNotPushed ==
    ASSUME TypeOK, NEW S, NotPushed(S), NEW w \in Worker, WorkerStep(w) \/ WorkerCrashes(w)
    PROVE  NotPushed(S)'
<1>. /\ queue \in Seq(Deployment)
     /\ wpc \in [Worker -> WorkerPc]
     /\ job \in [Worker -> Deployment \cup {NoDeployment}]
     /\ \A v \in Worker : wpc[v] # "idle" => job[v] \in Deployment
     /\ released \in [Deployment -> [Releaser -> Nat]]
  BY DEF TypeOK, RedisTypes, WorkerTypes, ReleasedTypes
<1>1. UNCHANGED req
  BY WorkerFrame DEF WorkerCrashes, reqVars
<1>2. CASE Pop(w)
  <2>1. /\ job'[w] = queue[1] /\ 1 \in 1..Len(queue)
        /\ \A v \in Worker : v # w => job'[v] = job[v] /\ wpc'[v] = wpc[v]
        /\ UNCHANGED released
    BY <1>2 DEF Pop, Move
  <2>2. \A i \in 1..Len(queue') : i + 1 \in 1..Len(queue) /\ queue'[i] = queue[i + 1]
    BY <1>2 DEF Pop
  <2>3. ASSUME NEW d \in Deployment, req[d] \in S
        PROVE  /\ \A i \in 1..Len(queue') : queue'[i] # d
               /\ \A v \in Worker : wpc'[v] # "idle" => job'[v] # d
    <3>1. \A i \in 1..Len(queue) : queue[i] # d
      BY <2>3 DEF NotPushed
    <3>2. \A v \in Worker : wpc[v] # "idle" => job[v] # d
      BY <2>3 DEF NotPushed
    <3>3. job'[w] # d
      BY <2>1, <3>1
    <3>. QED BY <2>1, <2>2, <3>1, <3>2, <3>3, ZenonT(60)
  <2>. QED BY <1>1, <2>1, <2>3 DEF NotPushed
<1>3. CASE AcquireLock(w) \/ Unlock(w) \/ WorkerCrashes(w)
  <2>1. UNCHANGED <<queue, released>>
    BY <1>3 DEF AcquireLock, Unlock, WorkerCrashes, redisVars
  <2>2. \A v \in Worker : wpc'[v] # "idle" => wpc[v] # "idle" /\ job'[v] = job[v]
    BY <1>3 DEF AcquireLock, Unlock, WorkerCrashes, Move
  <2>. QED BY <1>1, <2>1, <2>2 DEF NotPushed
<1>4. CASE Inside(w) /\ UNCHANGED released
  BY <1>1, <1>4 DEF Inside, Holds, NotPushed
<1>5. CASE Inside(w) /\ ReleaseCapacity(w)
  <2>1. \A e \in Deployment : e # job[w] => released'[e] = released[e]
    BY <1>5 DEF ReleaseCapacity, CountRelease
  <2>2. \A e \in Deployment : req[e] \in S => e # job[w]
    BY <1>5 DEF Inside, Holds, NotPushed
  <2>. QED BY <1>1, <1>5, <2>1, <2>2 DEF Inside, Holds, NotPushed
<1>. QED BY <1>2, <1>3, <1>4, <1>5, WorkerFrame, WorkerReleases

\* Nothing is pushed at the start.
LEMMA InitNotPushed == ASSUME NEW S PROVE Init => NotPushed(S)
BY DEF Init, NotPushed, Releaser

\* Every step keeps the items of requests at the points S out of the queue.
LEMMA NextNotPushed ==
    ASSUME NEW S, Closed(S)
    PROVE  TypeOK /\ NotPushed(S) /\ [Next]_vars => NotPushed(S)'
<1>. SUFFICES ASSUME TypeOK, NotPushed(S), [Next]_vars PROVE NotPushed(S)'
  OBVIOUS
<1>1. CASE UNCHANGED vars
  BY <1>1 DEF vars, reqVars, redisVars, workerVars, NotPushed
<1>2. ASSUME NEW d \in Deployment, RequestStep(d) \/ HandlerDies(d) PROVE NotPushed(S)'
  BY <1>2, RequestNotPushed
<1>3. ASSUME NEW d \in Deployment, Cancel(d) \/ CancelStep(d) \/ CancelStops(d)
      PROVE  NotPushed(S)'
  <2>1. UNCHANGED <<req, queue, wpc, job>>
    BY <1>3, CancelFrame
    DEF Cancel, CancelStep, ClaimRelease, RefundServer, CancelStops, reqVars, redisVars, workerVars
  <2>2. \A e \in Deployment : released'[e]["pipeline"] = released[e]["pipeline"]
    BY <1>3 DEF TypeOK, ReleasedTypes, Cancel, CancelStep, ClaimRelease, RefundServer,
           CancelStops, CountRelease, Releaser
  <2>. QED BY <2>1, <2>2 DEF NotPushed
<1>4. ASSUME NEW d \in Deployment, LockExpires(d) PROVE NotPushed(S)'
  BY <1>4 DEF LockExpires, reqVars, workerVars, NotPushed
<1>5. ASSUME NEW w \in Worker, WorkerStep(w) \/ WorkerCrashes(w) PROVE NotPushed(S)'
  BY <1>5, WorkerNotPushed
<1>6. ASSUME NEW s \in Server, SetServerStatus(s) PROVE NotPushed(S)'
  BY <1>6 DEF SetServerStatus, reqVars, redisVars, workerVars, NotPushed
<1>. QED BY <1>1, <1>2, <1>3, <1>4, <1>5, <1>6 DEF Next

-----------------------------------------------------------------------------
\* Live deployments

\* How a handler's step can change a status.
LEMMA RequestStatus ==
    ASSUME TypeOK, NEW d \in Deployment,
           RequestStep(d) \/ Cancel(d) \/ CancelStep(d) \/ CancelStops(d) \/ HandlerDies(d)
    PROVE  \A e \in Deployment :
              /\ req'[e] \in BeforeRow => req[e] \in BeforeRow
              /\ \/ status'[e] \in {status[e], "failed"}
                 \/ status'[e] = "queued" /\ req[e] \in BeforeRow
<1>. /\ req \in [Deployment -> RequestPc]
     /\ status \in [Deployment -> Status]
  BY DEF TypeOK, RequestTypes, RowTypes
<1>. USE DEF BeforeRow, rowVars, reqVars
<1>1. CASE Refuse(d) \/ ReserveKey(d) \/ ReadKey(d) \/ Place(d) \/ WorkersOffline(d)
  BY <1>1 DEF Refuse, ReserveKey, ReadKey, Place, WorkersOffline, Goto, Reject
<1>2. CASE CreateUnreserved(d) \/ Schedule(d) \/ TryReserve(d) \/ ReserveContended(d)
  BY <1>2 DEF CreateUnreserved, Schedule, TryReserve, ReserveContended, Goto, Reject
<1>3. CASE Push(d) \/ PushThrows(d) \/ PublishQueued(d)
  BY <1>3 DEF Push, PushThrows, PublishQueued, Goto
<1>4. CASE MarkQueueingFailed(d) \/ UndoCapacity(d) \/ RecordKey(d) \/ HandlerDies(d)
  BY <1>4 DEF MarkQueueingFailed, UndoCapacity, RecordKey, HandlerDies, Goto, Reject
<1>5. CASE Cancel(d) \/ CancelStep(d) \/ CancelStops(d)
  BY <1>5 DEF Cancel, CancelStep, ClaimRelease, RefundServer, CancelStops
<1>. QED BY <1>1, <1>2, <1>3, <1>4, <1>5 DEF RequestStep

\* How a worker's step can change a status, and where the worker was then.
LEMMA WorkerStatus ==
    ASSUME TypeOK, NEW w \in Worker, WorkerStep(w)
    PROVE  /\ \A e \in Deployment :
                 \/ status'[e] \in {status[e], "failed"}
                 \/ e = job[w] /\ wpc[w] \in BeforeReady /\ status'[e] \in {"building", "deploying"}
                 \/ e = job[w] /\ MarkReady(w) /\ status'[e] = "ready"
           /\ wpc'[w] \in BeforeReady => wpc[w] \in BeforeReady \/ InProgress(job[w])
<1>. /\ wpc \in [Worker -> WorkerPc]
     /\ status \in [Deployment -> Status]
  BY DEF TypeOK, WorkerTypes, RowTypes
<1>. USE DEF BeforeReady, rowVars
<1>1. CASE Pop(w) \/ AcquireLock(w) \/ Unlock(w)
  BY <1>1 DEF Pop, AcquireLock, Unlock, Move
<1>2. CASE Load(w) \/ LoadThrows(w) \/ StepFails(w) \/ CallThrows(w)
  BY <1>2 DEF Load, LoadThrows, StepFails, CallThrows, Move
<1>3. CASE AssertCanContinue(w)
  BY <1>3 DEF AssertCanContinue, AfterAssert
<1>4. CASE UpdateStatus(w)
  BY <1>4 DEF UpdateStatus, Move
<1>5. CASE BuildImage(w) \/ HealthCheck(w) \/ ConfigureRoute(w) \/ RunContainer(w) \/ RunFails(w)
  BY <1>5 DEF BuildImage, HealthCheck, ConfigureRoute, RunContainer, RunFails, Move
<1>6. CASE CreateRow(w) \/ ReadPrevious(w) \/ Rebalance(w)
  BY <1>6 DEF CreateRow, ReadPrevious, Rebalance, Move
<1>7. CASE MarkReady(w)
  BY <1>7 DEF MarkReady, Move
<1>8. CASE SetActive(w) \/ StopPrevious(w) \/ MarkStopped(w) \/ AnnounceReady(w)
  BY <1>8 DEF SetActive, StopPrevious, MarkStopped, AnnounceReady, Move
<1>9. CASE StopOwn(w) \/ MarkFailed(w) \/ ReleaseCapacity(w) \/ FailDeployment(w)
  BY <1>9 DEF StopOwn, MarkFailed, ReleaseCapacity, FailDeployment, Move
<1>. QED BY <1>1, <1>2, <1>3, <1>4, <1>5, <1>6, <1>7, <1>8, <1>9 DEF WorkerStep

\* A step that brings no worker to a point before MarkReady keeps what is live.
LEMMA ReadyKept ==
    ASSUME ReadySettled, UNCHANGED <<status, req>>,
           \A v \in Worker :
              wpc'[v] \in BeforeReady => wpc[v] \in BeforeReady /\ job'[v] = job[v]
    PROVE  ReadySettled'
<1>. SUFFICES ASSUME NEW d \in Deployment, status[d] = "ready", NEW v \in Worker, job'[v] = d
              PROVE  req[d] \notin BeforeRow /\ wpc'[v] \notin BeforeReady
  BY DEF ReadySettled
<1>. QED BY DEF ReadySettled

\* A worker that makes its deployment ready is the only one that has it.
LEMMA WorkerReady ==
    ASSUME TypeOK, Locking, NotPushed(BeforePush), ReadySettled, NEW w \in Worker, WorkerStep(w)
    PROVE  ReadySettled'
<1>. /\ wpc \in [Worker -> WorkerPc]
     /\ \A v \in Worker : wpc[v] # "idle" => job[v] \in Deployment
  BY DEF TypeOK, WorkerTypes
<1>1. UNCHANGED req
  BY WorkerFrame DEF reqVars
<1>2. CASE MarkReady(w)
  <2>1. Holds(w) /\ job[w] \in Deployment /\ UNCHANGED job
    BY <1>2 DEF MarkReady, Move, Holds
  <2>2. req[job[w]] \notin BeforeRow
    BY <2>1 DEF NotPushed, Holds, BeforePush
  <2>3. \A v \in Worker : v # w /\ job[v] = job[w] => wpc[v] \notin BeforeReady
    BY <2>1 DEF Locking, OneWorkerPerDeployment, Holds, BeforeReady
  <2>4. /\ wpc'[w] \notin BeforeReady
        /\ \A v \in Worker : v # w => wpc'[v] = wpc[v]
    BY <1>2 DEF MarkReady, Move, BeforeReady
  <2>5. \A e \in Deployment : e # job[w] => status'[e] = status[e]
    BY <1>2 DEF MarkReady
  <2>. QED BY <1>1, <2>1, <2>2, <2>3, <2>4, <2>5 DEF ReadySettled
<1>3. CASE Inside(w) /\ ~MarkReady(w)
  <2>1. \A e \in Deployment : status'[e] = "ready" => status[e] = "ready"
    BY <1>3, WorkerStatus
  <2>2. wpc'[w] \in BeforeReady => wpc[w] \in BeforeReady \/ status[job[w]] # "ready"
    BY WorkerStatus DEF InProgress
  <2>. QED BY <1>1, <1>3, <2>1, <2>2 DEF Inside, ReadySettled
<1>4. CASE Pop(w) \/ AcquireLock(w) \/ Unlock(w)
  <2>1. UNCHANGED status
    BY <1>4 DEF Pop, AcquireLock, Unlock, rowVars
  <2>2. job \in [Worker -> Deployment \cup {NoDeployment}]
    BY DEF TypeOK, WorkerTypes
  <2>3. \A v \in Worker : v # w => wpc'[v] = wpc[v] /\ job'[v] = job[v]
    BY <1>4, <2>2 DEF Pop, AcquireLock, Unlock, Move
  <2>4. wpc'[w] \notin BeforeReady
    BY <1>4 DEF Pop, AcquireLock, Unlock, Move, BeforeReady
  <2>. QED BY <1>1, <2>1, <2>3, <2>4, ReadyKept
<1>. QED BY <1>2, <1>3, <1>4, WorkerFrame

\* Every step keeps live deployments settled, unless a lock expires.
LEMMA NextReady ==
    TypeOK /\ Locking /\ NotPushed(BeforePush) /\ ReadySettled /\ [Next]_vars => ReadySettled'
<1>. SUFFICES ASSUME TypeOK, Locking, NotPushed(BeforePush), ReadySettled, [Next]_vars
              PROVE  ReadySettled'
  OBVIOUS
<1>1. ASSUME UNCHANGED <<status, req, job, wpc>> PROVE ReadySettled'
  BY <1>1 DEF ReadySettled
<1>2. CASE UNCHANGED vars
  BY <1>1, <1>2 DEF vars, rowVars, reqVars, workerVars
<1>3. ASSUME NEW d \in Deployment,
             RequestStep(d) \/ Cancel(d) \/ CancelStep(d) \/ CancelStops(d) \/ HandlerDies(d)
      PROVE  ReadySettled'
  <2>1. UNCHANGED <<job, wpc>>
    BY <1>3, RequestFrame, CancelFrame DEF workerVars
  <2>. QED BY <1>3, <2>1, RequestStatus DEF ReadySettled
<1>4. ASSUME NEW d \in Deployment, LockExpires(d) PROVE ReadySettled'
  BY <1>1, <1>4 DEF LockExpires, rowVars, reqVars, workerVars
<1>5. ASSUME NEW w \in Worker, WorkerStep(w) PROVE ReadySettled'
  BY <1>5, WorkerReady
<1>6. ASSUME NEW w \in Worker, WorkerCrashes(w) PROVE ReadySettled'
  <2>1. wpc \in [Worker -> WorkerPc] /\ job \in [Worker -> Deployment \cup {NoDeployment}]
    BY DEF TypeOK, WorkerTypes
  <2>2. \A v \in Worker : v # w => wpc'[v] = wpc[v] /\ job'[v] = job[v]
    BY <1>6, <2>1 DEF WorkerCrashes
  <2>3. wpc'[w] \notin BeforeReady
    BY <1>6, <2>1 DEF WorkerCrashes, BeforeReady
  <2>. QED BY <1>6, <2>2, <2>3, ReadyKept DEF WorkerCrashes, rowVars, reqVars
<1>7. ASSUME NEW s \in Server, SetServerStatus(s) PROVE ReadySettled'
  BY <1>1, <1>7 DEF SetServerStatus, rowVars, reqVars, workerVars
<1>. QED BY <1>2, <1>3, <1>4, <1>5, <1>6, <1>7 DEF Next

\* As long as the lock does not expire, a deployment that went live is never
\* queued, built or deployed again, by no duplicate of its item, no crash and
\* no late write: it stays ready until it is failed.
THEOREM ReadyStays ==
    ASSUME "lockTTL" \notin Faults
    PROVE  Spec => ReadyNotRestarted
<1>. DEFINE Inv == TypeOK /\ Locking /\ NotPushed(BeforePush) /\ ReadySettled
<1>1. Init => Inv
  BY InitTypeOK, InitLocking, InitNotPushed DEF Init, ReadySettled
<1>2. Inv /\ [Next]_vars => Inv'
  BY NextTypeOK, NextLocking, NextNotPushed, NextReady DEF Closed
<1>3. Inv /\ [Next]_vars
         => [\A d \in Deployment : status[d] = "ready" => status'[d] \in {"ready", "failed"}]_vars
  <2>. SUFFICES ASSUME Inv, Next, NEW e \in Deployment, status[e] = "ready"
                PROVE  status'[e] \in {"ready", "failed"}
    OBVIOUS
  <2>1. ASSUME NEW d \in Deployment,
               RequestStep(d) \/ Cancel(d) \/ CancelStep(d) \/ CancelStops(d) \/ HandlerDies(d)
        PROVE  status'[e] \in {"ready", "failed"}
    BY <2>1, RequestStatus DEF ReadySettled
  <2>2. ASSUME NEW w \in Worker, WorkerStep(w) PROVE status'[e] \in {"ready", "failed"}
    BY <2>2, WorkerStatus DEF ReadySettled
  <2>3. CASE UNCHANGED status
    BY <2>3
  <2>4. \/ UNCHANGED status
        \/ \E w \in Worker : WorkerStep(w)
        \/ \E d \in Deployment :
              RequestStep(d) \/ Cancel(d) \/ CancelStep(d) \/ CancelStops(d) \/ HandlerDies(d)
    BY DEF Next, LockExpires, WorkerCrashes, SetServerStatus, rowVars
  <2>. QED BY <2>1, <2>2, <2>3, <2>4
<1>. QED BY <1>1, <1>2, <1>3, PTL DEF Spec, ReadyNotRestarted

-----------------------------------------------------------------------------
\* Releases without cancels

\* What the request handler and the pipeline have given back.
ReleasedOnce == NotYetReleased /\ NoCancels

\* The handler gives back what it reserved only after queueing failed, and is
\* done with the request then.
LEMMA RequestReleases ==
    ASSUME TypeOK, NEW d \in Deployment, RequestStep(d) \/ HandlerDies(d)
    PROVE  /\ \A e \in Deployment :
                /\ released'[e]["pipeline"] = released[e]["pipeline"]
                /\ released'[e]["cancel"] = released[e]["cancel"]
                /\ req[e] = "rejected" => req'[e] = "rejected"
           /\ \/ \A e \in Deployment : released'[e]["queueFailure"] = released[e]["queueFailure"]
              \/ /\ req[d] = "undoCapacity" /\ req'[d] = "rejected"
                 /\ released'[d]["queueFailure"] = released[d]["queueFailure"] + 1
                 /\ \A e \in Deployment \ {d} :
                       released'[e]["queueFailure"] = released[e]["queueFailure"]
<1>. /\ req \in [Deployment -> RequestPc]
     /\ released \in [Deployment -> [Releaser -> Nat]]
  BY DEF TypeOK, RequestTypes, ReleasedTypes
<1>1. CASE UndoCapacity(d)
  <2>1. \/ released' = [released EXCEPT ![d]["queueFailure"] = @ + 1]
        \/ UNCHANGED released
    BY <1>1 DEF UndoCapacity, CountRelease
  <2>2. req[d] = "undoCapacity" /\ req' = [req EXCEPT ![d] = "rejected"]
    BY <1>1 DEF UndoCapacity, Reject
  <2>. QED BY <2>1, <2>2 DEF Releaser
<1>2. UndoCapacity(d) \/ UNCHANGED released
  BY DEF RequestStep, HandlerDies, Refuse, ReserveKey, ReadKey, Place, WorkersOffline,
         CreateUnreserved, Schedule, TryReserve, ReserveContended, Push, PushThrows,
         PublishQueued, MarkQueueingFailed, RecordKey
<1>3. \A e \in Deployment : req[e] = "rejected" => req'[e] = "rejected"
  <2>1. CASE Refuse(d) \/ ReserveKey(d) \/ ReadKey(d) \/ Place(d) \/ WorkersOffline(d)
    BY <2>1 DEF Refuse, ReserveKey, ReadKey, Place, WorkersOffline, Goto, Reject
  <2>2. CASE CreateUnreserved(d) \/ Schedule(d) \/ TryReserve(d) \/ ReserveContended(d)
    BY <2>2 DEF CreateUnreserved, Schedule, TryReserve, ReserveContended, Goto, Reject
  <2>3. CASE Push(d) \/ PushThrows(d) \/ PublishQueued(d)
    BY <2>3 DEF Push, PushThrows, PublishQueued, Goto
  <2>4. CASE MarkQueueingFailed(d) \/ UndoCapacity(d) \/ RecordKey(d) \/ HandlerDies(d)
    BY <2>4 DEF MarkQueueingFailed, UndoCapacity, RecordKey, HandlerDies, Goto, Reject
  <2>. QED BY <2>1, <2>2, <2>3, <2>4 DEF RequestStep
<1>4. CASE UNCHANGED released
  BY <1>3, <1>4
<1>. QED BY <1>1, <1>2, <1>3, <1>4

\* A request's step keeps what workers still have to decide: it puts a
\* deployment in progress only before its item is pushed.
LEMMA RequestReleasedOnce ==
    ASSUME TypeOK, NotPushed(BeforePush), ReleasedOnce, NEW d \in Deployment,
           RequestStep(d) \/ HandlerDies(d)
    PROVE  ReleasedOnce'
<1>. released \in [Deployment -> [Releaser -> Nat]]
  BY DEF TypeOK, ReleasedTypes
<1>1. UNCHANGED <<wpc, job, cancelsLeft, claims, refunds>>
  BY RequestFrame DEF HandlerDies, workerVars, cancelVars
<1>2. \A e \in Deployment :
         /\ released'[e]["pipeline"] = released[e]["pipeline"]
         /\ released'[e]["cancel"] = released[e]["cancel"]
         /\ released'[e]["queueFailure"] <= 1
         /\ released'[e]["queueFailure"] = 0 \/ req'[e] = "rejected"
  BY RequestReleases DEF ReleasedOnce, NotYetReleased, Releaser
<1>3. \A e \in Deployment :
         \/ status'[e] \in {status[e], "failed"}
         \/ /\ released[e]["pipeline"] = 0
            /\ \A w \in Worker : wpc[w] # "idle" => job[w] # e
  BY RequestStatus DEF NotPushed, BeforePush
<1>4. ASSUME NEW e \in Deployment
      PROVE  /\ status'[e] \in {"queued", "building", "deploying"} => released[e]["pipeline"] = 0
             /\ \A w \in Worker : job[w] = e /\ wpc[w] = "release" => status'[e] = "failed"
  BY <1>3 DEF ReleasedOnce, NotYetReleased, InProgress
<1>. QED BY <1>1, <1>2, <1>4 DEF ReleasedOnce, NotYetReleased, NoCancels, InProgress

\* A worker inside execute() that comes to a point before its release found the
\* deployment in progress, and comes to `release` by writing `failed`.
LEMMA WorkerPoints ==
    ASSUME TypeOK, NEW w \in Worker, WorkerStep(w)
    PROVE  /\ wpc'[w] \in BeforeRelease =>
                 /\ wpc[w] \in BeforeRelease \/ InProgress(job[w])
                 /\ ~ReleaseCapacity(w)
           /\ wpc'[w] = "release" => status'[job[w]] = "failed"
<1>. /\ wpc \in [Worker -> WorkerPc]
     /\ \A v \in Worker : wpc[v] # "idle" => job[v] \in Deployment
     /\ status \in [Deployment -> Status]
  BY DEF TypeOK, WorkerTypes, RowTypes
<1>. USE DEF BeforeRelease, BeforeReady
<1>1. CASE Pop(w) \/ AcquireLock(w) \/ Unlock(w)
  BY <1>1 DEF Pop, AcquireLock, Unlock, Move, ReleaseCapacity
<1>2. CASE Load(w) \/ LoadThrows(w) \/ StepFails(w) \/ CallThrows(w)
  BY <1>2 DEF Load, LoadThrows, StepFails, CallThrows, Move, ReleaseCapacity
<1>3. CASE AssertCanContinue(w) \/ UpdateStatus(w)
  BY <1>3 DEF AssertCanContinue, AfterAssert, UpdateStatus, Move, ReleaseCapacity
<1>4. CASE BuildImage(w) \/ HealthCheck(w) \/ ConfigureRoute(w) \/ RunContainer(w) \/ RunFails(w)
  BY <1>4 DEF BuildImage, HealthCheck, ConfigureRoute, RunContainer, RunFails, Move, ReleaseCapacity
<1>5. CASE CreateRow(w) \/ ReadPrevious(w) \/ Rebalance(w) \/ MarkReady(w)
  BY <1>5 DEF CreateRow, ReadPrevious, Rebalance, MarkReady, Move, ReleaseCapacity
<1>6. CASE SetActive(w) \/ StopPrevious(w) \/ MarkStopped(w) \/ AnnounceReady(w)
  BY <1>6 DEF SetActive, StopPrevious, MarkStopped, AnnounceReady, Move, ReleaseCapacity
<1>7. CASE StopOwn(w) \/ MarkFailed(w)
  BY <1>7 DEF StopOwn, MarkFailed, Move, ReleaseCapacity
<1>8. CASE ReleaseCapacity(w) \/ FailDeployment(w)
  BY <1>8 DEF ReleaseCapacity, FailDeployment, Move
<1>. QED BY <1>1, <1>2, <1>3, <1>4, <1>5, <1>6, <1>7, <1>8 DEF WorkerStep

\* A worker's step keeps it: it is alone with its deployment.
LEMMA WorkerReleasedOnce ==
    ASSUME TypeOK, Locking, ReleasedOnce, NEW w \in Worker, WorkerStep(w)
    PROVE  ReleasedOnce'
<1>. /\ wpc \in [Worker -> WorkerPc]
     /\ job \in [Worker -> Deployment \cup {NoDeployment}]
     /\ \A v \in Worker : wpc[v] # "idle" => job[v] \in Deployment
     /\ released \in [Deployment -> [Releaser -> Nat]]
  BY DEF TypeOK, WorkerTypes, ReleasedTypes
<1>1. UNCHANGED <<req, cancelsLeft, claims, refunds>>
  BY WorkerFrame DEF reqVars, cancelVars
<1>2. CASE Pop(w) \/ AcquireLock(w) \/ Unlock(w)
  <2>1. UNCHANGED <<status, released>>
    BY <1>2 DEF Pop, AcquireLock, Unlock, rowVars
  <2>2. \A v \in Worker : v # w => wpc'[v] = wpc[v] /\ job'[v] = job[v]
    BY <1>2 DEF Pop, AcquireLock, Unlock, Move
  <2>3. wpc'[w] \notin BeforeRelease /\ wpc'[w] # "release"
    BY <1>2 DEF Pop, AcquireLock, Unlock, Move, BeforeRelease, BeforeReady
  <2>. QED BY <1>1, <2>1, <2>2, <2>3 DEF ReleasedOnce, NotYetReleased, NoCancels, InProgress
<1>3. CASE Inside(w)
  <2>. DEFINE d == job[w]
  <2>0. d \in Deployment /\ Holds(w) /\ UNCHANGED job
    BY <1>3 DEF Inside, Holds
  <2>1. \A v \in Worker : v # w => wpc'[v] = wpc[v]
    BY <1>3 DEF Inside
  <2>2. \A v \in Worker : v # w /\ job[v] = d => wpc[v] \notin BeforeRelease
    BY <2>0 DEF Locking, OneWorkerPerDeployment, Holds, BeforeRelease, BeforeReady
  <2>3. \A e \in Deployment :
           /\ released'[e]["cancel"] = released[e]["cancel"]
           /\ released'[e]["queueFailure"] = released[e]["queueFailure"]
           /\ e # d => released'[e]["pipeline"] = released[e]["pipeline"]
    BY <2>0, WorkerReleases DEF ReleaseCapacity, CountRelease, Releaser
  <2>4. \/ released'[d]["pipeline"] = released[d]["pipeline"]
        \/ /\ ReleaseCapacity(w) /\ wpc[w] = "release"
           /\ released'[d]["pipeline"] = released[d]["pipeline"] + 1
    BY <2>0, WorkerReleases DEF ReleaseCapacity, CountRelease, Releaser, Move
  <2>5. released'[d]["pipeline"] <= 1
    BY <2>0, <2>4 DEF ReleasedOnce, NotYetReleased, BeforeRelease, Releaser
  <2>6. \A e \in Deployment : e # d => status'[e] \in {status[e], "failed"}
    BY WorkerStatus
  <2>7. wpc'[w] \in BeforeRelease => released'[d]["pipeline"] = 0
    BY <2>0, <2>4, WorkerPoints DEF ReleasedOnce, NotYetReleased
  <2>8. wpc'[w] = "release" => status'[d] = "failed"
    BY WorkerPoints
  <2>9. status'[d] \in {"queued", "building", "deploying"} => released'[d]["pipeline"] = 0
    <3>1. CASE ReleaseCapacity(w) /\ wpc[w] = "release"
      BY <2>0, <3>1 DEF ReleaseCapacity, rowVars, ReleasedOnce, NotYetReleased
    <3>2. CASE released'[d]["pipeline"] = released[d]["pipeline"]
      BY <2>0, <3>2, WorkerStatus DEF ReleasedOnce, NotYetReleased, InProgress, BeforeRelease
    <3>. QED BY <2>4, <3>1, <3>2
  <2>. HIDE DEF d
  <2>10. NoCancels'
    BY <1>1, <2>3 DEF ReleasedOnce, NoCancels
  <2>11. ASSUME NEW e \in Deployment
         PROVE  /\ released'[e]["queueFailure"] <= 1
                /\ released'[e]["queueFailure"] = 0 \/ req'[e] = "rejected"
                /\ released'[e]["pipeline"] <= 1
                /\ InProgress(e)' => released'[e]["pipeline"] = 0
    BY <1>1, <2>3, <2>5, <2>6, <2>9 DEF ReleasedOnce, NotYetReleased, InProgress
  <2>12. ASSUME NEW e \in Deployment, NEW v \in Worker, job'[v] = e, wpc'[v] \in BeforeRelease
         PROVE  released'[e]["pipeline"] = 0
    <3>1. CASE v = w
      BY <2>0, <2>7, <2>12, <3>1 DEF d
    <3>2. CASE v # w
      <4>1. e # d
        BY <2>0, <2>1, <2>2, <2>12, <3>2
      <4>. QED BY <2>0, <2>1, <2>3, <2>12, <3>2, <4>1 DEF ReleasedOnce, NotYetReleased
    <3>. QED BY <3>1, <3>2
  <2>13. ASSUME NEW e \in Deployment, NEW v \in Worker, job'[v] = e, wpc'[v] = "release"
         PROVE  status'[e] = "failed"
    <3>1. CASE v = w
      BY <2>0, <2>8, <2>13, <3>1 DEF d
    <3>2. CASE v # w
      <4>1. e # d
        BY <2>0, <2>1, <2>2, <2>13, <3>2 DEF BeforeRelease
      <4>. QED BY <2>0, <2>1, <2>6, <2>13, <3>2, <4>1 DEF ReleasedOnce, NotYetReleased
    <3>. QED BY <3>1, <3>2
  <2>. QED BY <2>10, <2>11, <2>12, <2>13 DEF ReleasedOnce, NotYetReleased
<1>. QED BY <1>2, <1>3, WorkerFrame

\* Every other step leaves the counts of releases alone.
LEMMA NextReleasedOnce ==
    TypeOK /\ Locking /\ NotPushed(BeforePush) /\ ReleasedOnce /\ [Next]_vars => ReleasedOnce'
<1>. SUFFICES ASSUME TypeOK, Locking, NotPushed(BeforePush), ReleasedOnce, [Next]_vars
              PROVE  ReleasedOnce'
  OBVIOUS
<1>1. ASSUME UNCHANGED <<status, req, job, wpc, released, cancelVars>> PROVE ReleasedOnce'
  BY <1>1 DEF ReleasedOnce, NotYetReleased, NoCancels, InProgress, cancelVars
<1>2. CASE UNCHANGED vars
  BY <1>1, <1>2 DEF vars, rowVars, reqVars, workerVars
<1>3. ASSUME NEW d \in Deployment, RequestStep(d) \/ HandlerDies(d) PROVE ReleasedOnce'
  BY <1>3, RequestReleasedOnce
<1>4. ASSUME NEW d \in Deployment, Cancel(d) \/ CancelStep(d) \/ CancelStops(d)
      PROVE  ReleasedOnce'
  <2>1. cancelsLeft = 0 /\ claims[d] = 0 /\ refunds[d] = 0
    BY DEF ReleasedOnce, NoCancels
  <2>. QED BY <1>4, <2>1 DEF Cancel, CancelStep, ClaimRelease, RefundServer, CancelStops
<1>5. ASSUME NEW d \in Deployment, LockExpires(d) PROVE ReleasedOnce'
  BY <1>1, <1>5 DEF LockExpires, rowVars, reqVars, workerVars
<1>6. ASSUME NEW w \in Worker, WorkerStep(w) PROVE ReleasedOnce'
  BY <1>6, WorkerReleasedOnce
<1>7. ASSUME NEW w \in Worker, WorkerCrashes(w) PROVE ReleasedOnce'
  <2>1. wpc \in [Worker -> WorkerPc] /\ job \in [Worker -> Deployment \cup {NoDeployment}]
    BY DEF TypeOK, WorkerTypes
  <2>2. \A v \in Worker : v # w => wpc'[v] = wpc[v] /\ job'[v] = job[v]
    BY <1>7, <2>1 DEF WorkerCrashes
  <2>3. wpc'[w] \notin BeforeRelease /\ wpc'[w] # "release"
    BY <1>7, <2>1 DEF WorkerCrashes, BeforeRelease, BeforeReady
  <2>4. UNCHANGED <<status, req, released, cancelVars>>
    BY <1>7 DEF WorkerCrashes, rowVars, reqVars
  <2>. QED BY <2>2, <2>3, <2>4 DEF ReleasedOnce, NotYetReleased, NoCancels, InProgress, cancelVars
<1>8. ASSUME NEW s \in Server, SetServerStatus(s) PROVE ReleasedOnce'
  BY <1>1, <1>8 DEF SetServerStatus, rowVars, reqVars, workerVars
<1>. QED BY <1>2, <1>3, <1>4, <1>5, <1>6, <1>7, <1>8 DEF Next

\* The handler releases only what was never pushed, a worker only what was.
LEMMA OnceEach ==
    TypeOK /\ NotPushed(NeverPushed) /\ ReleasedOnce => ReleasedAtMostOnce
<1>. SUFFICES ASSUME TypeOK, NotPushed(NeverPushed), ReleasedOnce, NEW d \in Deployment
              PROVE  Releases(d) <= 1
  BY DEF ReleasedAtMostOnce
<1>1. /\ released[d]["queueFailure"] \in Nat /\ released[d]["pipeline"] \in Nat
      /\ refunds[d] = 0 /\ released[d]["cancel"] = 0
  BY DEF TypeOK, ReleasedTypes, Releaser, ReleasedOnce, NoCancels
<1>2. released[d]["queueFailure"] = 0 \/ released[d]["pipeline"] = 0
  BY DEF ReleasedOnce, NotYetReleased, NotPushed, NeverPushed
<1>. QED BY <1>1, <1>2 DEF ReleasedOnce, NotYetReleased, Releases

\* Where nobody cancels, the lock does not expire and no PUBLISH fails after a
\* push, a reservation is given back at most once, for any number of requests,
\* workers, duplicated items, crashes and failures: the other double releases
\* are all made by one of the three.
THEOREM ReleasedOnceWithoutCancels ==
    ASSUME MaxCancels = 0, "lockTTL" \notin Faults, "publish" \notin Faults
    PROVE  Spec => []ReleasedAtMostOnce
<1>. DEFINE Inv == /\ TypeOK /\ Locking /\ ReleasedOnce
                   /\ NotPushed(BeforePush) /\ NotPushed(NeverPushed)
<1>1. Init => Inv
  <2>1. Init => ReleasedOnce
    BY DEF Init, ReleasedOnce, NotYetReleased, NoCancels, InProgress, Releaser,
           BeforeRelease, BeforeReady
  <2>. QED BY <2>1, InitTypeOK, InitLocking, InitNotPushed
<1>2. Inv /\ [Next]_vars => Inv'
  BY NextTypeOK, NextLocking, NextNotPushed, NextReleasedOnce DEF Closed
<1>3. Inv => ReleasedAtMostOnce
  BY OnceEach
<1>. QED BY <1>1, <1>2, <1>3, PTL DEF Spec

-----------------------------------------------------------------------------
\* Containers and the requests behind them

\* A handler gives a deployment a server once, before it pushes it.
LEMMA RequestServer ==
    ASSUME TypeOK, Placed, NEW d \in Deployment, RequestStep(d) \/ HandlerDies(d)
    PROVE  \A e \in Deployment :
              \/ serverOf'[e] = serverOf[e]
              \/ /\ e = d /\ req[d] \in BeforeRow /\ req'[d] = "push"
                 /\ serverOf'[d] \in Server
<1>. /\ req \in [Deployment -> RequestPc]
     /\ serverOf \in [Deployment -> Server \cup {NoServer}]
     /\ candidate \in [Deployment -> Server \cup {NoServer}]
  BY DEF TypeOK, RequestTypes, RowTypes
<1>1. CASE CreateUnreserved(d)
  BY <1>1 DEF CreateUnreserved, Goto, BeforeRow, Placed
<1>2. CASE TryReserve(d)
  BY <1>2 DEF TryReserve, BeforeRow
<1>3. CreateUnreserved(d) \/ TryReserve(d) \/ UNCHANGED serverOf
  BY DEF RequestStep, HandlerDies, Refuse, ReserveKey, ReadKey, Place, WorkersOffline,
         Schedule, ReserveContended, Push, PushThrows, PublishQueued,
         MarkQueueingFailed, UndoCapacity, RecordKey, rowVars
<1>. QED BY <1>1, <1>2, <1>3

\* What was pushed stays pushed, unless a PUBLISH fails after a push.
LEMMA PushedStays ==
    ASSUME TypeOK, Placed, "publish" \notin Faults, [Next]_vars,
           NEW d \in Deployment, Pushed(d)
    PROVE  Pushed(d)'
<1>1. ASSUME NEW e \in Deployment, RequestStep(e) \/ HandlerDies(e) PROVE Pushed(d)'
  <2>1. Closed(NeverPushed)
    BY DEF Closed
  <2>2. req'[d] \notin NeverPushed
    BY <1>1, <2>1, RequestPoints DEF Pushed
  <2>3. serverOf'[d] \in Server
    BY <1>1, RequestServer DEF Pushed
  <2>. QED BY <2>2, <2>3 DEF Pushed
<1>2. ASSUME UNCHANGED <<req, serverOf>> PROVE Pushed(d)'
  BY <1>2 DEF Pushed
<1>3. ASSUME NEW e \in Deployment, Cancel(e) \/ CancelStep(e) \/ CancelStops(e) \/ LockExpires(e)
      PROVE  Pushed(d)'
  BY <1>2, <1>3 DEF Cancel, CancelStep, ClaimRelease, RefundServer, CancelStops, LockExpires,
                    rowVars, reqVars
<1>4. ASSUME NEW w \in Worker, WorkerStep(w) \/ WorkerCrashes(w) PROVE Pushed(d)'
  BY <1>2, <1>4, WorkerFrame DEF WorkerCrashes, rowVars, reqVars
<1>5. ASSUME NEW s \in Server, SetServerStatus(s) PROVE Pushed(d)'
  BY <1>2, <1>5 DEF SetServerStatus, rowVars, reqVars
<1>6. CASE UNCHANGED vars
  BY <1>2, <1>6 DEF vars, rowVars, reqVars
<1>. QED BY <1>1, <1>3, <1>4, <1>5, <1>6 DEF Next

\* A step of a worker touches the containers and rows of its deployment and of
\* the one it replaces, and replaces only what has a live row.
LEMMA WorkerTouches ==
    ASSUME TypeOK, NEW w \in Worker, WorkerStep(w) \/ WorkerCrashes(w)
    PROVE  /\ \A e \in Deployment :
                 \/ docker'[e] = docker[e] /\ row'[e] = row[e]
                 \/ wpc[w] # "idle" /\ e = job[w]
                 \/ prev[w] # NoDeployment /\ e = prev[w]
           /\ \A v \in Worker :
                 \/ prev'[v] \in {prev[v], NoDeployment}
                 \/ prev'[v] \in Deployment /\ row[prev'[v]] = "running"
<1>. /\ docker \in [Deployment -> {"none", "running", "stopped"}]
     /\ row \in [Deployment -> {"none", "running", "stopped"}]
     /\ prev \in [Worker -> Deployment \cup {NoDeployment}]
  BY DEF TypeOK, LiveTypes, WorkerTypes
<1>1. CASE CreateRow(w) \/ RunContainer(w) \/ RunFails(w) \/ StopOwn(w)
  BY <1>1 DEF CreateRow, RunContainer, RunFails, StopOwn, Move
<1>2. CASE StopPrevious(w)
  BY <1>2 DEF StopPrevious, Move
<1>3. CASE MarkStopped(w)
  BY <1>3, ConstantsAssumption DEF MarkStopped, Move
<1>4. CASE ReadPrevious(w)
  BY <1>4 DEF ReadPrevious, Move, LiveRows, liveVars
<1>5. CASE Unlock(w) \/ WorkerCrashes(w)
  BY <1>5 DEF Unlock, WorkerCrashes, liveVars
<1>6. ASSUME UNCHANGED <<docker, row, prev>>
      PROVE  /\ \A e \in Deployment : docker'[e] = docker[e] /\ row'[e] = row[e]
             /\ \A v \in Worker : prev'[v] = prev[v]
  BY <1>6
<1>7. \/ CreateRow(w) \/ RunContainer(w) \/ RunFails(w) \/ StopOwn(w) \/ StopPrevious(w)
      \/ MarkStopped(w) \/ ReadPrevious(w) \/ Unlock(w) \/ WorkerCrashes(w)
      \/ UNCHANGED <<docker, row, prev>>
  BY DEF WorkerStep, Pop, AcquireLock, Load, LoadThrows, AssertCanContinue, UpdateStatus,
         BuildImage, HealthCheck, ConfigureRoute, StepFails, CallThrows, Rebalance, MarkReady,
         SetActive, AnnounceReady, MarkFailed, ReleaseCapacity, FailDeployment, liveVars
<1>. QED BY <1>1, <1>2, <1>3, <1>4, <1>5, <1>6, <1>7

\* Every step leaves containers, rows and replacements to pushed deployments.
LEMMA NextContainersPushed ==
    ASSUME "publish" \notin Faults
    PROVE  TypeOK /\ Placed /\ NotPushed(NeverPushed) /\ ContainersPushed /\ [Next]_vars
              => ContainersPushed'
<1>. SUFFICES ASSUME TypeOK, Placed, NotPushed(NeverPushed), ContainersPushed, [Next]_vars
              PROVE  ContainersPushed'
  OBVIOUS
<1>. prev \in [Worker -> Deployment \cup {NoDeployment}]
  BY DEF TypeOK, WorkerTypes
<1>1. \A d \in Deployment : Pushed(d) => Pushed(d)'
  BY PushedStays
<1>2. ASSUME UNCHANGED <<liveVars, prev>> PROVE ContainersPushed'
  <2>1. ASSUME NEW d \in Deployment, docker'[d] # "none" \/ row'[d] = "running"
        PROVE  Pushed(d)'
    BY <1>1, <1>2, <2>1 DEF ContainersPushed, liveVars
  <2>2. ASSUME NEW w \in Worker, prev'[w] # NoDeployment PROVE Pushed(prev[w])'
    BY <1>1, <1>2, <2>2 DEF ContainersPushed
  <2>. QED BY <1>2, <2>1, <2>2 DEF ContainersPushed
<1>3. ASSUME NEW d \in Deployment,
             RequestStep(d) \/ HandlerDies(d) \/ Cancel(d) \/ CancelStep(d) \/ CancelStops(d)
      PROVE  ContainersPushed'
  BY <1>2, <1>3, RequestFrame, CancelFrame DEF workerVars
<1>4. ASSUME NEW d \in Deployment, LockExpires(d) PROVE ContainersPushed'
  BY <1>2, <1>4 DEF LockExpires, workerVars
<1>5. ASSUME NEW s \in Server, SetServerStatus(s) PROVE ContainersPushed'
  BY <1>2, <1>5 DEF SetServerStatus, workerVars
<1>6. CASE UNCHANGED vars
  BY <1>2, <1>6 DEF vars, workerVars
<1>7. ASSUME NEW w \in Worker, WorkerStep(w) \/ WorkerCrashes(w) PROVE ContainersPushed'
  <2>1. wpc[w] # "idle" => Pushed(job[w])
    BY DEF TypeOK, WorkerTypes, NotPushed, Placed, Pushed
  <2>2. ASSUME NEW d \in Deployment, docker'[d] # "none" \/ row'[d] = "running"
        PROVE  Pushed(d)
    BY <1>7, <2>1, <2>2, WorkerTouches DEF ContainersPushed
  <2>3. ASSUME NEW v \in Worker, prev'[v] # NoDeployment
        PROVE  prev'[v] \in Deployment /\ Pushed(prev'[v])
    BY <1>7, <2>3, WorkerTouches DEF ContainersPushed
  <2>4. \A d \in Deployment : Pushed(d) => req'[d] \notin NeverPushed /\ serverOf'[d] \in Server
    BY <1>1 DEF Pushed
  <2>. QED BY <2>2, <2>3, <2>4 DEF ContainersPushed, Pushed
<1>. QED BY <1>3, <1>4, <1>5, <1>6, <1>7 DEF Next

-----------------------------------------------------------------------------
\* No container is left behind

\* A worker turns a container on only in RunContainer, when no `docker run` is
\* killed half way.
LEMMA WorkerDocker ==
    ASSUME TypeOK, "runTimeout" \notin Faults, NEW w \in Worker, WorkerStep(w)
    PROVE  \A e \in Deployment :
              docker'[e] = "running" => docker[e] = "running" \/ (RunContainer(w) /\ e = job[w])
<1>. docker \in [Deployment -> {"none", "running", "stopped"}]
  BY DEF TypeOK, LiveTypes
<1>1. CASE RunContainer(w) \/ RunFails(w) \/ StopOwn(w) \/ StopPrevious(w)
  BY <1>1 DEF RunContainer, RunFails, StopOwn, StopPrevious
<1>2. CASE UNCHANGED docker
  BY <1>2
<1>3. RunContainer(w) \/ RunFails(w) \/ StopOwn(w) \/ StopPrevious(w) \/ UNCHANGED docker
  BY DEF WorkerStep, Pop, AcquireLock, Load, LoadThrows, AssertCanContinue, UpdateStatus,
         BuildImage, HealthCheck, ConfigureRoute, StepFails, CallThrows, CreateRow,
         ReadPrevious, Rebalance, MarkReady, SetActive, MarkStopped, AnnounceReady,
         MarkFailed, ReleaseCapacity, FailDeployment, Unlock, liveVars
<1>. QED BY <1>1, <1>2, <1>3

\* How a worker gets to the points where its container matters: with started
\* set by RunContainer and kept since.
LEMMA WorkerStarted ==
    ASSUME TypeOK, NEW w \in Worker, WorkerStep(w)
    PROVE  /\ wpc'[w] \in AfterRun \cup AfterReady =>
                 \/ RunContainer(w) /\ started'[w]
                 \/ wpc[w] \in AfterRun \cup AfterReady /\ started'[w] = started[w]
           /\ wpc'[w] = "stopOwn" =>
                 /\ wpc[w] \in BeforeReady \cup AfterReady
                 /\ started'[w] = started[w]
           /\ wpc'[w] = "markFailed" => StopOwn(w)
           /\ wpc[w] \in AfterRun =>
                 MarkReady(w) \/ wpc'[w] \in AfterRun \cup {"stopOwn"}
<1>. /\ wpc \in [Worker -> WorkerPc]
     /\ started \in [Worker -> BOOLEAN]
  BY DEF TypeOK, WorkerTypes
<1>. USE DEF AfterRun, AfterReady, BeforeReady
<1>1. CASE Pop(w) \/ AcquireLock(w) \/ Unlock(w)
  BY <1>1 DEF Pop, AcquireLock, Unlock, Move
<1>2. CASE Load(w) \/ LoadThrows(w)
  BY <1>2 DEF Load, LoadThrows, Move
<1>3. CASE AssertCanContinue(w)
  BY <1>3 DEF AssertCanContinue, AfterAssert
<1>4. CASE UpdateStatus(w) \/ BuildImage(w) \/ HealthCheck(w) \/ ConfigureRoute(w)
  BY <1>4 DEF UpdateStatus, BuildImage, HealthCheck, ConfigureRoute, Move
<1>5. CASE RunContainer(w)
  BY <1>5 DEF RunContainer, Move
<1>6. CASE RunFails(w) \/ StepFails(w)
  BY <1>6 DEF RunFails, StepFails, Move
<1>7. CASE CallThrows(w)
  BY <1>7 DEF CallThrows
<1>8. CASE CreateRow(w) \/ ReadPrevious(w) \/ Rebalance(w) \/ MarkReady(w)
  BY <1>8 DEF CreateRow, ReadPrevious, Rebalance, MarkReady, Move
<1>9. CASE SetActive(w) \/ StopPrevious(w) \/ MarkStopped(w) \/ AnnounceReady(w)
  BY <1>9 DEF SetActive, StopPrevious, MarkStopped, AnnounceReady, Move
<1>10. CASE StopOwn(w) \/ MarkFailed(w) \/ ReleaseCapacity(w) \/ FailDeployment(w)
  BY <1>10 DEF StopOwn, MarkFailed, ReleaseCapacity, FailDeployment, Move
<1>. QED BY <1>1, <1>2, <1>3, <1>4, <1>5, <1>6, <1>7, <1>8, <1>9, <1>10 DEF WorkerStep

\* Of the handlers, none takes a pushed deployment out of ready.
LEMMA RequestKeepsReady ==
    ASSUME TypeOK, NEW d \in Deployment,
           RequestStep(d) \/ Cancel(d) \/ CancelStep(d) \/ CancelStops(d) \/ HandlerDies(d)
    PROVE  \A e \in Deployment :
              status[e] = "ready" /\ req[e] \notin NeverPushed => status'[e] = "ready"
<1>. status \in [Deployment -> Status]
  BY DEF TypeOK, RowTypes
<1>. USE DEF NeverPushed, BeforePush, BeforeRow
<1>1. CASE CreateUnreserved(d) \/ TryReserve(d) \/ MarkQueueingFailed(d)
  BY <1>1 DEF CreateUnreserved, TryReserve, MarkQueueingFailed, Goto
<1>2. CASE Cancel(d)
  BY <1>2 DEF Cancel, InProgress
<1>3. CreateUnreserved(d) \/ TryReserve(d) \/ MarkQueueingFailed(d) \/ Cancel(d) \/ UNCHANGED status
  BY DEF RequestStep, HandlerDies, Refuse, ReserveKey, ReadKey, Place, WorkersOffline,
         Schedule, ReserveContended, Push, PushThrows, PublishQueued, UndoCapacity,
         RecordKey, CancelStep, ClaimRelease, RefundServer, CancelStops, rowVars
<1>. QED BY <1>1, <1>2, <1>3

\* Of the worker's steps, only MarkFailed does once a deployment is ready.
LEMMA WorkerKeepsReady ==
    ASSUME TypeOK, Locking, ReadySettled, NEW w \in Worker, WorkerStep(w),
           NEW e \in Deployment, status[e] = "ready"
    PROVE  status'[e] = "ready" \/ (MarkFailed(w) /\ e = job[w])
<1>. status \in [Deployment -> Status]
  BY DEF TypeOK, RowTypes
<1>1. CASE UpdateStatus(w)
  BY <1>1 DEF UpdateStatus, Move, ReadySettled, BeforeReady
<1>2. CASE MarkReady(w) \/ MarkFailed(w) \/ FailDeployment(w)
  BY <1>2 DEF MarkReady, MarkFailed, FailDeployment, InProgress
<1>3. UpdateStatus(w) \/ MarkReady(w) \/ MarkFailed(w) \/ FailDeployment(w) \/ UNCHANGED status
  BY DEF WorkerStep, Pop, AcquireLock, Load, LoadThrows, AssertCanContinue,
         BuildImage, HealthCheck, ConfigureRoute, RunContainer, RunFails, StepFails,
         CallThrows, CreateRow, ReadPrevious, Rebalance, SetActive, StopPrevious,
         MarkStopped, AnnounceReady, StopOwn, ReleaseCapacity, Unlock, rowVars
<1>. QED BY <1>1, <1>2, <1>3

\* A worker that is before its RunContainer finds no container running under
\* its deployment's name.
LEMMA NameNotRunning ==
    ASSUME TypeOK, Locking, ReadySettled, ContainersWatched, NEW w \in Worker,
           wpc[w] \in BeforeReady \ AfterRun
    PROVE  docker[job[w]] # "running"
<1>1. Holds(w) /\ job[w] \in Deployment
  BY DEF TypeOK, WorkerTypes, Holds, BeforeReady
<1>2. status[job[w]] # "ready"
  BY <1>1 DEF ReadySettled
<1>3. ASSUME NEW v \in Worker, job[v] = job[w], wpc[v] \in AfterRun \cup {"stopOwn"} PROVE FALSE
  <2>1. Holds(v)
    BY <1>3 DEF Holds, AfterRun
  <2>2. v = w
    BY <1>1, <1>3, <2>1 DEF Locking, OneWorkerPerDeployment
  <2>. QED BY <1>3, <2>2 DEF BeforeReady
<1>. QED BY <1>1, <1>2, <1>3 DEF ContainersWatched

\* A worker's step inside the lock keeps every running container live or watched.
LEMMA WorkerContainersWatched ==
    ASSUME TypeOK, Locking, ReadySettled, ContainersWatched, "runTimeout" \notin Faults,
           "stop" \notin Faults, NEW w \in Worker, WorkerStep(w), Inside(w)
    PROVE  ContainersWatched'
<1>. /\ job \in [Worker -> Deployment \cup {NoDeployment}]
     /\ job[w] \in Deployment
     /\ docker \in [Deployment -> {"none", "running", "stopped"}]
     /\ started \in [Worker -> BOOLEAN]
  BY DEF TypeOK, WorkerTypes, LiveTypes, Inside, Holds
<1>1. /\ UNCHANGED job /\ Holds(w)
      /\ \A v \in Worker : v # w => wpc'[v] = wpc[v] /\ started'[v] = started[v]
  BY DEF Inside, WorkerStep, Pop, AcquireLock, Load, LoadThrows, AssertCanContinue, UpdateStatus,
         BuildImage, HealthCheck, ConfigureRoute, RunContainer, RunFails, StepFails, CallThrows,
         CreateRow, ReadPrevious, Rebalance, MarkReady, SetActive, StopPrevious, MarkStopped,
         AnnounceReady, StopOwn, MarkFailed, ReleaseCapacity, FailDeployment, Unlock, Move
<1>2. ASSUME StopOwn(w) PROVE docker'[job[w]] # "running"
  BY <1>2 DEF StopOwn, Move, ContainersWatched
<1>3. wpc[w] = "stopOwn" => StopOwn(w)
  BY DEF WorkerStep, Pop, AcquireLock, Load, LoadThrows, AssertCanContinue, AfterAssert,
         UpdateStatus, BuildImage, HealthCheck, ConfigureRoute, RunContainer, RunFails, StepFails,
         CallThrows, CreateRow, ReadPrevious, Rebalance, MarkReady, SetActive, StopPrevious,
         MarkStopped, AnnounceReady, MarkFailed, ReleaseCapacity, FailDeployment, Unlock, Move
<1>4. ASSUME RunContainer(w)
      PROVE  /\ wpc'[w] \in AfterRun /\ wpc[w] \in BeforeReady \ AfterRun
             /\ \A v \in Worker : Holds(v) /\ job[v] = job[w] => v = w
  <2>1. wpc \in [Worker -> WorkerPc]
    BY DEF TypeOK, WorkerTypes
  <2>2. wpc'[w] \in AfterRun /\ wpc[w] \in BeforeReady \ AfterRun
    BY <1>4, <2>1 DEF RunContainer, Move, AfterRun, BeforeReady
  <2>. QED BY <1>1, <2>2 DEF Locking, OneWorkerPerDeployment
<1>5. ASSUME NEW d \in Deployment, docker'[d] = "running"
      PROVE  \/ status'[d] = "ready"
             \/ \E v \in Worker : job'[v] = d /\ wpc'[v] \in AfterRun \cup {"stopOwn"}
  <2>1. CASE RunContainer(w) /\ d = job[w]
    BY <1>1, <1>4, <2>1
  <2>2. CASE docker[d] = "running" /\ status[d] = "ready"
    <3>1. ASSUME MarkFailed(w), d = job[w] PROVE FALSE
      BY <2>2, <3>1 DEF MarkFailed, Move, ContainersWatched
    <3>. QED BY <2>2, <3>1, WorkerKeepsReady
  <2>3. ASSUME docker[d] = "running", NEW v \in Worker, job[v] = d,
               wpc[v] \in AfterRun \cup {"stopOwn"}
        PROVE  \/ status'[d] = "ready"
               \/ \E u \in Worker : job'[u] = d /\ wpc'[u] \in AfterRun \cup {"stopOwn"}
    <3>1. CASE v # w
      BY <1>1, <2>3, <3>1
    <3>2. CASE v = w /\ wpc[w] = "stopOwn"
      BY <1>2, <1>3, <1>5, <2>3, <3>2
    <3>3. CASE v = w /\ MarkReady(w)
      BY <2>3, <3>3 DEF MarkReady, TypeOK, RowTypes
    <3>4. CASE v = w /\ wpc[w] \in AfterRun /\ wpc'[w] \in AfterRun \cup {"stopOwn"}
      BY <1>1, <2>3, <3>4
    <3>. QED BY <2>3, <3>1, <3>2, <3>3, <3>4, WorkerStarted
  <2>. QED BY <1>5, <2>1, <2>2, <2>3, WorkerDocker DEF ContainersWatched
<1>6. ASSUME NEW v \in Worker, wpc'[v] \in AfterRun \cup AfterReady PROVE started'[v]
  <2>1. wpc[v] \in AfterRun \cup AfterReady => started[v]
    BY DEF ContainersWatched
  <2>. QED BY <1>1, <1>6, <2>1, WorkerStarted
<1>7. ASSUME NEW v \in Worker, wpc'[v] = "stopOwn", docker'[job'[v]] = "running"
      PROVE  started'[v]
  <2>1. job[v] \in Deployment
    BY <1>1, <1>7 DEF Inside, Holds, TypeOK, WorkerTypes
  <2>2. docker[job[v]] = "running" \/ (RunContainer(w) /\ job[v] = job[w])
    BY <1>1, <1>7, <2>1, WorkerDocker
  <2>3. CASE v # w
    <3>1. Holds(v) /\ wpc[v] = "stopOwn"
      BY <1>1, <1>7, <2>3 DEF Holds
    <3>. QED BY <1>1, <1>4, <2>2, <2>3, <3>1 DEF ContainersWatched
  <2>4. CASE v = w
    <3>1. wpc[w] \in BeforeReady \cup AfterReady /\ started'[w] = started[w]
      BY <1>7, <2>4, WorkerStarted
    <3>2. ~RunContainer(w)
      BY <1>4, <1>7, <2>4 DEF AfterRun
    <3>3. wpc[w] \in AfterRun \cup AfterReady
      BY <2>2, <2>4, <3>1, <3>2, NameNotRunning
    <3>. QED BY <2>4, <3>1, <3>3 DEF ContainersWatched
  <2>. QED BY <2>3, <2>4
<1>8. ASSUME NEW v \in Worker, wpc'[v] = "markFailed" PROVE docker'[job'[v]] # "running"
  <2>1. CASE v = w
    BY <1>1, <1>2, <1>8, <2>1, WorkerStarted
  <2>2. CASE v # w
    <3>1. Holds(v) /\ wpc[v] = "markFailed" /\ job[v] \in Deployment
      BY <1>1, <1>8, <2>2 DEF Holds, TypeOK, WorkerTypes
    <3>2. docker[job[v]] # "running"
      BY <3>1 DEF ContainersWatched
    <3>. QED BY <1>1, <1>4, <2>2, <3>1, <3>2, WorkerDocker
  <2>. QED BY <2>1, <2>2
<1>. QED BY <1>5, <1>6, <1>7, <1>8 DEF ContainersWatched

\* The failures a running container may outlive its deployment by: a stop that
\* throws, a `docker run` that is killed, an engine that dies or whose lock
\* expires, and a PUBLISH that throws after the push.
LeavesRunning == {"stop", "runTimeout", "crash", "lockTTL", "publish"}

\* Without them, every step keeps every running container live or watched.
LEMMA NextContainersWatched ==
    ASSUME LeavesRunning \cap Faults = {}
    PROVE  TypeOK /\ Locking /\ ReadySettled /\ ContainersPushed /\ ContainersWatched /\ [Next]_vars
              => ContainersWatched'
<1>. SUFFICES ASSUME TypeOK, Locking, ReadySettled, ContainersPushed, ContainersWatched, [Next]_vars
              PROVE  ContainersWatched'
  OBVIOUS
<1>. /\ "stop" \notin Faults /\ "runTimeout" \notin Faults /\ "crash" \notin Faults
     /\ "lockTTL" \notin Faults
  BY DEF LeavesRunning
<1>1. ASSUME UNCHANGED <<docker, wpc, job, started>>,
             \A d \in Deployment :
                docker[d] = "running" /\ status[d] = "ready" => status'[d] = "ready"
      PROVE  ContainersWatched'
  BY <1>1 DEF ContainersWatched
<1>2. ASSUME NEW d \in Deployment,
             RequestStep(d) \/ Cancel(d) \/ CancelStep(d) \/ CancelStops(d) \/ HandlerDies(d)
      PROVE  ContainersWatched'
  <2>1. UNCHANGED <<docker, wpc, job, started>>
    BY <1>2, RequestFrame, CancelFrame DEF liveVars, workerVars
  <2>2. \A e \in Deployment :
           docker[e] = "running" /\ status[e] = "ready" => status'[e] = "ready"
    BY <1>2, RequestKeepsReady DEF ContainersPushed, Pushed
  <2>. QED BY <1>1, <2>1, <2>2
<1>3. ASSUME NEW s \in Server, SetServerStatus(s) PROVE ContainersWatched'
  BY <1>1, <1>3 DEF SetServerStatus, rowVars, liveVars, workerVars
<1>4. CASE UNCHANGED vars
  BY <1>1, <1>4 DEF vars, rowVars, liveVars, workerVars
<1>5. ASSUME NEW w \in Worker, Pop(w) \/ AcquireLock(w) \/ Unlock(w)
      PROVE  ContainersWatched'
  <2>1. UNCHANGED <<docker, status>>
    BY <1>5 DEF Pop, AcquireLock, Unlock, rowVars, liveVars
  <2>2. /\ wpc[w] \in {"idle", "lock", "unlock"} /\ wpc'[w] \in {"idle", "lock", "load"}
        /\ \A v \in Worker : v # w => wpc'[v] = wpc[v] /\ job'[v] = job[v] /\ started'[v] = started[v]
    BY <1>5 DEF Pop, AcquireLock, Unlock, Move, TypeOK, WorkerTypes
  <2>3. \A v \in Worker : wpc[v] \in AfterRun \cup {"stopOwn"} =>
            v # w /\ wpc'[v] = wpc[v] /\ job'[v] = job[v]
    BY <2>2 DEF AfterRun
  <2>4. \A v \in Worker : wpc'[v] \in AfterRun \cup AfterReady \cup {"stopOwn", "markFailed"} =>
            v # w /\ wpc'[v] = wpc[v] /\ job'[v] = job[v] /\ started'[v] = started[v]
    BY <2>2 DEF AfterRun, AfterReady
  <2>5. ASSUME NEW d \in Deployment, docker'[d] = "running"
        PROVE  \/ status'[d] = "ready"
               \/ \E v \in Worker : job'[v] = d /\ wpc'[v] \in AfterRun \cup {"stopOwn"}
    BY <2>1, <2>3, <2>5 DEF ContainersWatched
  <2>. QED BY <2>1, <2>4, <2>5 DEF ContainersWatched
<1>6. ASSUME NEW w \in Worker, WorkerStep(w), Inside(w) PROVE ContainersWatched'
  BY <1>6, WorkerContainersWatched
<1>7. ASSUME NEW w \in Worker PROVE ~WorkerCrashes(w)
  BY DEF WorkerCrashes
<1>8. ASSUME NEW d \in Deployment PROVE ~LockExpires(d)
  BY DEF LockExpires
<1>. QED BY <1>2, <1>3, <1>4, <1>5, <1>6, <1>7, <1>8, WorkerFrame DEF Next

\* Where stops succeed, the engine lives, its lock lasts and no PUBLISH fails
\* after a push, a container without a busy worker runs only for a live
\* deployment: for any number of requests, cancels, workers, duplicated items
\* and failures of requests, builds, containers and database calls.
THEOREM NoContainerIsLeft ==
    ASSUME LeavesRunning \cap Faults = {}
    PROVE  Spec => []NoOrphanContainer
<1>. "lockTTL" \notin Faults /\ "publish" \notin Faults
  BY DEF LeavesRunning
<1>. DEFINE Inv == /\ TypeOK /\ Locking /\ Placed /\ ReadySettled
                   /\ NotPushed(BeforePush) /\ NotPushed(NeverPushed)
                   /\ ContainersPushed /\ ContainersWatched
<1>1. Init => Inv
  <2>1. Init => ReadySettled /\ ContainersPushed /\ ContainersWatched
    BY DEF Init, ReadySettled, ContainersPushed, ContainersWatched, AfterRun, AfterReady
  <2>. QED BY <2>1, InitTypeOK, InitLocking, InitPlaced, InitNotPushed
<1>2. Inv /\ [Next]_vars => Inv'
  BY NextTypeOK, NextLocking, NextPlaced, NextNotPushed, NextReady, NextContainersPushed,
     NextContainersWatched DEF Closed
<1>3. Inv => NoOrphanContainer
  BY DEF NoOrphanContainer, ContainersWatched, Holds, AfterRun
<1>. QED BY <1>1, <1>2, <1>3, PTL DEF Spec

-----------------------------------------------------------------------------
\* Idempotency keys

\* A handler that has not answered takes a step, which changes nothing for
\* another request and no other key.
LEMMA RequestOwn ==
    ASSUME TypeOK, NEW d \in Deployment, RequestStep(d) \/ HandlerDies(d)
    PROVE  /\ \A e \in Deployment :
                 e # d => /\ req'[e] = req[e] /\ serverOf'[e] = serverOf[e]
                          /\ answer'[e] = answer[e]
           /\ \A k \in Key : k # KeyOf[d] => idem'[k] = idem[k]
           /\ req[d] \notin {"accepted", "replayed", "rejected", "dead"}
<1>. /\ req \in [Deployment -> RequestPc]
     /\ serverOf \in [Deployment -> Server \cup {NoServer}]
     /\ answer \in [Deployment -> Deployment \cup {NoDeployment}]
     /\ idem \in [Key -> Deployment \cup {Free, InProgressKey}]
  BY DEF TypeOK, RequestTypes, RowTypes, RedisTypes
<1>1. CASE Refuse(d) \/ ReserveKey(d) \/ ReadKey(d) \/ Place(d) \/ WorkersOffline(d)
  BY <1>1 DEF Refuse, ReserveKey, ReadKey, Place, WorkersOffline, Goto, Reject, DropKey,
              rowVars, redisVars
<1>2. CASE CreateUnreserved(d) \/ Schedule(d) \/ TryReserve(d) \/ ReserveContended(d)
  BY <1>2 DEF CreateUnreserved, Schedule, TryReserve, ReserveContended, Goto, Reject, DropKey,
              rowVars, redisVars
<1>3. CASE Push(d) \/ PushThrows(d) \/ PublishQueued(d)
  BY <1>3 DEF Push, PushThrows, PublishQueued, Goto, rowVars, redisVars
<1>4. CASE MarkQueueingFailed(d) \/ UndoCapacity(d) \/ RecordKey(d) \/ HandlerDies(d)
  BY <1>4 DEF MarkQueueingFailed, UndoCapacity, RecordKey, HandlerDies, Goto, Reject, DropKey,
              rowVars, redisVars
<1>. QED BY <1>1, <1>2, <1>3, <1>4 DEF RequestStep

\* A request with a key reserves it, gives it back, records it or leaves it.
Reserves(d) == /\ req[d] = "admitted" /\ req'[d] = "place"
               /\ idem[KeyOf[d]] = Free /\ idem'[KeyOf[d]] = InProgressKey
GivesBack(d) == /\ req[d] \in KeyReserved /\ req'[d] = "rejected"
                /\ idem'[KeyOf[d]] = Free
Records(d) == /\ req[d] = "recordKey" /\ req'[d] = "accepted"
              /\ idem'[KeyOf[d]] = d
Replays(d) == /\ req[d] = "keyTaken" /\ req'[d] = "replayed" /\ idem' = idem
              /\ answer'[d] = idem[KeyOf[d]] /\ idem[KeyOf[d]] \in Deployment
Leaves(d) == /\ idem' = idem
             /\ \/ req[d] \in KeyReserved /\ req'[d] \in KeyReserved
                \/ req'[d] \in {"keyTaken", "rejected", "dead"}

\* Nothing else can happen to its key.
LEMMA RequestKey ==
    ASSUME TypeOK, NEW d \in Deployment, KeyOf[d] # NoKey, RequestStep(d) \/ HandlerDies(d)
    PROVE  Reserves(d) \/ GivesBack(d) \/ Records(d) \/ Replays(d) \/ Leaves(d)
<1>. /\ req \in [Deployment -> RequestPc]
     /\ answer \in [Deployment -> Deployment \cup {NoDeployment}]
     /\ idem \in [Key -> Deployment \cup {Free, InProgressKey}]
     /\ KeyOf[d] \in Key
  BY ConstantsAssumption DEF TypeOK, RequestTypes, RedisTypes
<1>. USE DEF Goto, Reject, DropKey, KeyReserved, redisVars
<1>1. CASE Refuse(d) \/ Place(d) \/ Push(d) \/ PushThrows(d) \/ PublishQueued(d)
  BY <1>1 DEF Refuse, Place, Push, PushThrows, PublishQueued, Leaves
<1>2. CASE CreateUnreserved(d) \/ TryReserve(d) \/ MarkQueueingFailed(d) \/ HandlerDies(d)
  BY <1>2 DEF CreateUnreserved, TryReserve, MarkQueueingFailed, HandlerDies, Leaves
<1>3. CASE ReserveKey(d)
  BY <1>3 DEF ReserveKey, Reserves, Leaves
<1>4. CASE ReadKey(d)
  BY <1>4 DEF ReadKey, Replays, Leaves
<1>5. CASE WorkersOffline(d) \/ Schedule(d) \/ ReserveContended(d) \/ UndoCapacity(d)
  BY <1>5 DEF WorkersOffline, Schedule, ReserveContended, UndoCapacity, GivesBack, Leaves
<1>6. CASE RecordKey(d)
  BY <1>6 DEF RecordKey, Records
<1>. QED BY <1>1, <1>2, <1>3, <1>4, <1>5, <1>6 DEF RequestStep

\* A request without a key never finds it taken.
LEMMA RequestWithoutKey ==
    ASSUME TypeOK, NEW d \in Deployment, KeyOf[d] = NoKey, RequestStep(d) \/ HandlerDies(d),
           req[d] # "keyTaken"
    PROVE  req'[d] \notin {"keyTaken", "replayed"}
<1>. req \in [Deployment -> RequestPc]
  BY DEF TypeOK, RequestTypes
<1>1. CASE Refuse(d) \/ ReserveKey(d) \/ ReadKey(d) \/ Place(d) \/ WorkersOffline(d)
  BY <1>1 DEF Refuse, ReserveKey, ReadKey, Place, WorkersOffline, Goto, Reject
<1>2. CASE CreateUnreserved(d) \/ Schedule(d) \/ TryReserve(d) \/ ReserveContended(d)
  BY <1>2 DEF CreateUnreserved, Schedule, TryReserve, ReserveContended, Goto, Reject
<1>3. CASE Push(d) \/ PushThrows(d) \/ PublishQueued(d)
  BY <1>3 DEF Push, PushThrows, PublishQueued, Goto
<1>4. CASE MarkQueueingFailed(d) \/ UndoCapacity(d) \/ RecordKey(d) \/ HandlerDies(d)
  BY <1>4 DEF MarkQueueingFailed, UndoCapacity, RecordKey, HandlerDies, Goto, Reject
<1>. QED BY <1>1, <1>2, <1>3, <1>4 DEF RequestStep

\* A handler's step that spends a key does so as the only one with it.
LEMMA RequestSpends ==
    ASSUME TypeOK, Placed, KeysSpentOnce, NEW d \in Deployment, RequestStep(d) \/ HandlerDies(d),
           KeyOf[d] # NoKey
    PROVE  /\ Spends(d)' => Spends(d) \/ Reserves(d)
           /\ Reserves(d) => \A e \in Deployment : SameRequest(d, e) => ~Spends(e)
<1>1. ASSUME Spends(d)' PROVE Spends(d) \/ Reserves(d)
  <2>1. req[d] \in RequestPc
    BY DEF TypeOK, RequestTypes
  <2>2. CASE Reserves(d)
    BY <2>2
  <2>3. CASE GivesBack(d) \/ Replays(d)
    BY <1>1, <2>3 DEF GivesBack, Replays, Spends, KeyReserved
  <2>4. CASE Records(d)
    BY <2>4 DEF Records, Spends, KeyReserved
  <2>5. CASE Leaves(d) /\ req[d] \notin KeyReserved
    <3>1. req'[d] = "dead" /\ serverOf'[d] \in Server
      BY <1>1, <2>5 DEF Leaves, Spends, KeyReserved
    <3>2. serverOf'[d] = serverOf[d]
      BY <3>1, RequestServer
    <3>3. req[d] \in BeforeRow
      BY <2>1, <2>5, RequestOwn DEF RequestPc, BeforeRow, KeyReserved
    <3>. QED BY <3>1, <3>2, <3>3, ConstantsAssumption DEF KeysSpentOnce
  <2>6. CASE req[d] \in KeyReserved
    BY <2>6 DEF Spends
  <2>. QED BY <2>2, <2>3, <2>4, <2>5, <2>6, RequestKey
<1>2. ASSUME Reserves(d), NEW e \in Deployment, SameRequest(d, e) PROVE ~Spends(e)
  BY <1>2 DEF Reserves, SameRequest, KeysSpentOnce
<1>. QED BY <1>1, <1>2

\* Every step of a handler keeps the keys spent once.
LEMMA RequestKeysSpentOnce ==
    ASSUME TypeOK, Placed, KeysSpentOnce, NEW d \in Deployment, RequestStep(d) \/ HandlerDies(d)
    PROVE  KeysSpentOnce'
<1>. /\ KeyOf \in [Deployment -> Key \cup {NoKey}]
     /\ \A e \in Deployment : KeyOf[e] # NoKey => KeyOf[e] \in Key
     /\ NoKey \notin Key /\ NoServer \notin Server
     /\ Free \notin Deployment /\ InProgressKey \notin Deployment /\ Free # InProgressKey
  BY ConstantsAssumption, KeyValuesAssumption DEF Free, InProgressKey
<1>1. /\ \A e \in Deployment :
            e # d => /\ req'[e] = req[e] /\ serverOf'[e] = serverOf[e]
                     /\ answer'[e] = answer[e]
      /\ \A k \in Key : k # KeyOf[d] => idem'[k] = idem[k]
      /\ req[d] \notin {"accepted", "replayed", "rejected", "dead"}
  BY RequestOwn
<1>2. \A e \in Deployment : e # d => (Spends(e)' <=> Spends(e))
  BY <1>1 DEF Spends
<1>3. KeyOf[d] # NoKey => Reserves(d) \/ GivesBack(d) \/ Records(d) \/ Replays(d) \/ Leaves(d)
  BY RequestKey
<1>4. \A e, f \in Deployment : SameRequest(e, f) /\ Spends(e) => ~Spends(f)
  BY DEF KeysSpentOnce
<1>5. ASSUME NEW e \in Deployment, NEW f \in Deployment, SameRequest(e, f), Spends(e)'
      PROVE  ~Spends(f)'
  <2>1. /\ SameRequest(f, e) /\ e # f
        /\ e = d \/ f = d => KeyOf[d] # NoKey
    BY <1>5 DEF SameRequest
  <2>2. CASE e = d
    BY <1>2, <1>4, <1>5, <2>1, <2>2, RequestSpends
  <2>3. CASE f = d
    BY <1>2, <1>4, <1>5, <2>1, <2>3, RequestSpends
  <2>4. CASE e # d /\ f # d
    BY <1>2, <1>4, <1>5, <2>4
  <2>. QED BY <2>2, <2>3, <2>4
<1>6. ASSUME NEW e \in Deployment, req'[e] \in BeforeRow PROVE serverOf'[e] = NoServer
  <2>1. req[e] \in BeforeRow
    BY <1>6, RequestStatus
  <2>2. serverOf[e] = NoServer
    BY <2>1 DEF KeysSpentOnce
  <2>3. serverOf'[e] = serverOf[e]
    BY <1>6, RequestServer DEF BeforeRow
  <2>. QED BY <2>2, <2>3
<1>7. ASSUME NEW e \in Deployment, KeyOf[e] # NoKey, KeyOf[e] = KeyOf[d], e # d, Spends(e)
      PROVE  idem'[KeyOf[d]] = idem[KeyOf[d]]
  <2>1. idem[KeyOf[e]] # Free /\ SameRequest(e, d) /\ ~Spends(d)
    BY <1>4, <1>7 DEF KeysSpentOnce, SameRequest
  <2>2. ~Reserves(d) /\ ~GivesBack(d) /\ ~Records(d)
    BY <1>7, <2>1 DEF Reserves, GivesBack, Records, Spends, KeyReserved
  <2>. QED BY <1>3, <1>7, <2>2 DEF Replays, Leaves
<1>8. ASSUME NEW e \in Deployment, KeyOf[e] # NoKey
      PROVE  /\ Spends(e)' => idem'[KeyOf[e]] # Free
             /\ req'[e] \in KeyReserved => idem'[KeyOf[e]] = InProgressKey
  <2>1. CASE e # d
    <3>1. Spends(e) => idem[KeyOf[e]] # Free
      BY <1>8 DEF KeysSpentOnce
    <3>2. req[e] \in KeyReserved => Spends(e) /\ idem[KeyOf[e]] = InProgressKey
      BY <1>8 DEF KeysSpentOnce, Spends
    <3>3. Spends(e) => idem'[KeyOf[e]] = idem[KeyOf[e]]
      BY <1>1, <1>7, <1>8, <2>1
    <3>. QED BY <1>1, <1>2, <2>1, <3>1, <3>2, <3>3
  <2>2. CASE e = d
    <3>1. Spends(d) => idem[KeyOf[d]] # Free
      BY <1>8, <2>2 DEF KeysSpentOnce
    <3>2. req[d] \in KeyReserved => idem[KeyOf[d]] = InProgressKey
      BY <1>8, <2>2 DEF KeysSpentOnce
    <3>3. CASE Reserves(d)
      BY <2>2, <3>3 DEF Reserves
    <3>4. CASE GivesBack(d) \/ Replays(d)
      BY <2>2, <3>4 DEF GivesBack, Replays, Spends, KeyReserved
    <3>5. CASE Records(d)
      BY <2>2, <3>5 DEF Records, KeyReserved
    <3>6. CASE Leaves(d)
      <4>1. Spends(d)' => Spends(d)
        BY <1>8, <2>2, <3>6, RequestSpends DEF Reserves, Leaves, KeyReserved
      <4>2. req'[d] \in KeyReserved => req[d] \in KeyReserved
        BY <3>6 DEF Leaves, KeyReserved
      <4>. QED BY <2>2, <3>1, <3>2, <3>6, <4>1, <4>2 DEF Leaves
    <3>. QED BY <1>3, <1>8, <2>2, <3>3, <3>4, <3>5, <3>6
  <2>. QED BY <2>1, <2>2
<1>9. ASSUME NEW e \in Deployment, req'[e] = "keyTaken" PROVE KeyOf[e] # NoKey
  BY <1>1, <1>9, RequestWithoutKey DEF KeysSpentOnce
<1>10. ASSUME NEW e \in Deployment, req'[e] = "replayed"
       PROVE  /\ answer'[e] \in Deployment
              /\ SameRequest(e, answer'[e])
              /\ req'[answer'[e]] = "accepted"
  <2>1. CASE e # d
    BY <1>1, <1>10, <2>1 DEF KeysSpentOnce
  <2>2. CASE e = d
    <3>1. KeyOf[d] # NoKey
      BY <1>10, <2>2, RequestWithoutKey DEF KeysSpentOnce
    <3>2. Replays(d)
      BY <1>3, <1>10, <2>2, <3>1
      DEF Reserves, GivesBack, Records, Leaves, KeyReserved
    <3>3. KeyOf[idem[KeyOf[d]]] = KeyOf[d] /\ req[idem[KeyOf[d]]] = "accepted"
      BY <3>1, <3>2 DEF Replays, KeysSpentOnce
    <3>. QED BY <1>1, <2>2, <3>1, <3>2, <3>3 DEF Replays, SameRequest
  <2>. QED BY <2>1, <2>2
<1>11. ASSUME NEW k \in Key, idem'[k] \in Deployment
       PROVE  KeyOf[idem'[k]] = k /\ req'[idem'[k]] = "accepted"
  <2>1. CASE idem'[k] = idem[k]
    BY <1>1, <1>11, <2>1 DEF KeysSpentOnce
  <2>2. CASE idem'[k] # idem[k]
    BY <1>1, <1>3, <1>11, <2>2 DEF Reserves, GivesBack, Records, Replays, Leaves
  <2>. QED BY <2>1, <2>2
<1>12. \A e \in Deployment :
          /\ req'[e] \in BeforeRow => serverOf'[e] = NoServer
          /\ KeyOf[e] # NoKey /\ Spends(e)' => idem'[KeyOf[e]] # Free
          /\ KeyOf[e] # NoKey /\ req'[e] \in KeyReserved => idem'[KeyOf[e]] = InProgressKey
          /\ req'[e] = "keyTaken" => KeyOf[e] # NoKey
  BY <1>6, <1>8, <1>9
<1>. QED BY <1>5, <1>10, <1>11, <1>12 DEF KeysSpentOnce, SameRequest

\* No key is spent at the start.
LEMMA InitKeysSpentOnce == Init => KeysSpentOnce
BY KeyValuesAssumption, ConstantsAssumption
   DEF Init, KeysSpentOnce, Spends, SameRequest, KeyReserved, BeforeRow

\* Every step keeps the keys spent once.
LEMMA NextKeysSpentOnce == TypeOK /\ Placed /\ KeysSpentOnce /\ [Next]_vars => KeysSpentOnce'
<1>. SUFFICES ASSUME TypeOK, Placed, KeysSpentOnce, [Next]_vars PROVE KeysSpentOnce'
  OBVIOUS
<1>1. ASSUME UNCHANGED <<req, serverOf, idem, answer>> PROVE KeysSpentOnce'
  <2>1. \A d \in Deployment : Spends(d)' <=> Spends(d)
    BY <1>1 DEF Spends
  <2>. QED BY <1>1, <2>1 DEF KeysSpentOnce, SameRequest
<1>2. ASSUME NEW d \in Deployment, RequestStep(d) \/ HandlerDies(d) PROVE KeysSpentOnce'
  BY <1>2, RequestKeysSpentOnce
<1>3. ASSUME NEW d \in Deployment, Cancel(d) \/ CancelStep(d) \/ CancelStops(d)
      PROVE  KeysSpentOnce'
  BY <1>1, <1>3 DEF Cancel, CancelStep, ClaimRelease, RefundServer, CancelStops,
                    rowVars, redisVars, reqVars
<1>4. ASSUME NEW d \in Deployment, LockExpires(d) PROVE KeysSpentOnce'
  BY <1>1, <1>4 DEF LockExpires, rowVars, reqVars
<1>5. ASSUME NEW w \in Worker, WorkerStep(w) \/ WorkerCrashes(w) PROVE KeysSpentOnce'
  BY <1>1, <1>5, WorkerFrame DEF WorkerCrashes, rowVars, redisVars, reqVars
<1>6. ASSUME NEW s \in Server, SetServerStatus(s) PROVE KeysSpentOnce'
  BY <1>1, <1>6 DEF SetServerStatus, rowVars, redisVars, reqVars
<1>7. CASE UNCHANGED vars
  BY <1>1, <1>7 DEF vars, rowVars, redisVars, reqVars
<1>. QED BY <1>2, <1>3, <1>4, <1>5, <1>6, <1>7 DEF Next

\* A request whose deployment has a container spends its key.
LEMMA ContainersSpend ==
    ASSUME TypeOK, ContainersPushed, NEW d \in Deployment, docker[d] # "none"
    PROVE  Spends(d)
BY DEF TypeOK, RequestTypes, RequestPc, ContainersPushed, Pushed, NeverPushed, BeforePush,
       BeforeRow, Spends, KeyReserved

\* A replay is answered with the deployment of the one accepted request that
\* carried the key, whatever requests, failures and deaths of handlers come
\* between.
THEOREM ReplaysNameAccepted == Spec => []ReplayNamesAccepted
<1>1. Init => TypeOK /\ Placed /\ KeysSpentOnce
  BY InitTypeOK, InitPlaced, InitKeysSpentOnce
<1>2. TypeOK /\ Placed /\ KeysSpentOnce /\ [Next]_vars => TypeOK' /\ Placed' /\ KeysSpentOnce'
  BY NextTypeOK, NextPlaced, NextKeysSpentOnce
<1>3. KeysSpentOnce => ReplayNamesAccepted
  BY DEF KeysSpentOnce, ReplayNamesAccepted
<1>. QED BY <1>1, <1>2, <1>3, PTL DEF Spec

\* Unless a PUBLISH fails after a push, two requests with one key never both
\* get a container: for any number of requests, repetitions, workers,
\* duplicated items, crashes and expired locks.
THEOREM KeysExecuteOnce ==
    ASSUME "publish" \notin Faults
    PROVE  Spec => []KeyExecutesOnce
<1>. DEFINE Inv == /\ TypeOK /\ Placed /\ NotPushed(NeverPushed)
                   /\ ContainersPushed /\ KeysSpentOnce
<1>1. Init => Inv
  <2>1. Init => ContainersPushed
    BY DEF Init, ContainersPushed
  <2>. QED BY <2>1, InitTypeOK, InitPlaced, InitNotPushed, InitKeysSpentOnce
<1>2. Inv /\ [Next]_vars => Inv'
  BY NextTypeOK, NextPlaced, NextNotPushed, NextContainersPushed, NextKeysSpentOnce DEF Closed
<1>3. Inv => KeyExecutesOnce
  BY ContainersSpend DEF KeysSpentOnce, KeyExecutesOnce
<1>. QED BY <1>1, <1>2, <1>3, PTL DEF Spec

-----------------------------------------------------------------------------
\* The ledger of the servers' capacity

\* What a request's step does to what counts in the ledger: only TryReserve
\* reserves, with the row, and only UndoCapacity gives back.
LEMMA RequestGrants ==
    ASSUME TypeOK, NEW d \in Deployment, RequestStep(d) \/ HandlerDies(d)
    PROVE  /\ TryReserve(d) \/ UNCHANGED <<created, capReserved>>
           /\ TryReserve(d) \/ UndoCapacity(d) \/ UNCHANGED <<reserved, released>>
           /\ \A e \in Deployment \ {d} : candidate'[e] = candidate[e]
           /\ candidate'[d] = candidate[d] \/ req[d] \in BeforeRow
           /\ \A e \in Deployment : req'[e] \in BeforeRow => req[e] \in BeforeRow
<1>. candidate \in [Deployment -> Server \cup {NoServer}]
  BY DEF TypeOK, RequestTypes
<1>1. TryReserve(d) \/ UNCHANGED <<created, capReserved>>
  BY DEF RequestStep, HandlerDies, Refuse, ReserveKey, ReadKey, Place, WorkersOffline,
         CreateUnreserved, Schedule, ReserveContended, Push, PushThrows, PublishQueued,
         MarkQueueingFailed, UndoCapacity, RecordKey, rowVars
<1>2. TryReserve(d) \/ UndoCapacity(d) \/ UNCHANGED <<reserved, released>>
  BY DEF RequestStep, HandlerDies, Refuse, ReserveKey, ReadKey, Place, WorkersOffline,
         CreateUnreserved, Schedule, ReserveContended, Push, PushThrows, PublishQueued,
         MarkQueueingFailed, RecordKey, serverVars
<1>3. CASE Place(d) \/ Schedule(d) \/ ReserveContended(d)
  BY <1>1, <1>2, <1>3, RequestStatus DEF Place, Schedule, ReserveContended, BeforeRow
<1>4. Place(d) \/ Schedule(d) \/ ReserveContended(d) \/ UNCHANGED candidate
  BY DEF RequestStep, HandlerDies, Refuse, ReserveKey, ReadKey, WorkersOffline,
         CreateUnreserved, TryReserve, Push, PushThrows, PublishQueued,
         MarkQueueingFailed, UndoCapacity, RecordKey
<1>. QED BY <1>1, <1>2, <1>3, <1>4, RequestStatus

\* A step of a handler keeps what is counted and what stands for it.
LEMMA RequestRowsGranted ==
    ASSUME TypeOK, Placed, RowsGranted, NEW d \in Deployment, RequestStep(d) \/ HandlerDies(d)
    PROVE  RowsGranted'
<1>. /\ created \in [Deployment -> BOOLEAN]
     /\ capReserved \in [Deployment -> BOOLEAN]
     /\ serverOf \in [Deployment -> Server \cup {NoServer}]
     /\ candidate \in [Deployment -> Server \cup {NoServer}]
     /\ req \in [Deployment -> RequestPc]
     /\ \A w \in Worker : wpc[w] # "idle" => job[w] \in Deployment
  BY DEF TypeOK, RequestTypes, RowTypes, WorkerTypes
<1>1. UNCHANGED <<snap, wpc, job>>
  BY RequestFrame DEF HandlerDies, workerVars
<1>2. CASE TryReserve(d)
  <2>1. /\ created' = [created EXCEPT ![d] = TRUE]
        /\ capReserved' = [capReserved EXCEPT ![d] = TRUE]
        /\ serverOf' = [serverOf EXCEPT ![d] = candidate[d]]
        /\ req' = [req EXCEPT ![d] = "push"]
        /\ candidate[d] \in Server /\ UNCHANGED candidate
    BY <1>2 DEF TryReserve
  <2>2. "push" \notin BeforeRow
    BY DEF BeforeRow
  <2>. QED BY <1>1, <2>1, <2>2 DEF RowsGranted
<1>3. CASE UNCHANGED <<created, capReserved>>
  <2>1. ASSUME NEW e \in Deployment, created[e]
        PROVE  serverOf'[e] \in Server /\ candidate'[e] = serverOf'[e] /\ req'[e] \notin BeforeRow
    BY <2>1, RequestGrants, RequestServer DEF RowsGranted
  <2>. QED BY <1>1, <1>3, <2>1 DEF RowsGranted
<1>. QED BY <1>2, <1>3, RequestGrants

\* A step of a worker copies a flag only where it loads its deployment.
LEMMA WorkerRowsGranted ==
    ASSUME TypeOK, RowsGranted, NEW w \in Worker, WorkerStep(w)
    PROVE  RowsGranted'
<1>. /\ wpc \in [Worker -> WorkerPc]
     /\ snap \in [Worker -> BOOLEAN]
     /\ job \in [Worker -> Deployment \cup {NoDeployment}]
  BY DEF TypeOK, WorkerTypes
<1>1. UNCHANGED <<created, capReserved, serverOf, candidate, req>>
  BY WorkerFrame DEF reqVars
<1>2. ASSUME \A v \in Worker : snap'[v] => wpc'[v] \notin {"idle", "lock"} /\ created[job'[v]]
      PROVE  RowsGranted'
  BY <1>1, <1>2 DEF RowsGranted
<1>3. CASE Pop(w) \/ AcquireLock(w) \/ Unlock(w)
  <2>1. /\ wpc[w] \in {"idle", "lock"} \/ snap' = [snap EXCEPT ![w] = FALSE]
        /\ \A v \in Worker \ {w} : wpc'[v] = wpc[v] /\ job'[v] = job[v]
        /\ \A v \in Worker : snap'[v] => snap[v]
    BY <1>3 DEF Pop, AcquireLock, Unlock, Move
  <2>. QED BY <1>2, <2>1 DEF RowsGranted
<1>4. CASE Load(w)
  BY <1>2, <1>4 DEF Load, TypeOK, WorkerTypes, RowsGranted
<1>5. CASE Inside(w) /\ UNCHANGED snap
  BY <1>2, <1>5 DEF Inside, Holds, RowsGranted
<1>6. \/ Pop(w) \/ AcquireLock(w) \/ Unlock(w) \/ Load(w) \/ UNCHANGED snap
  BY DEF WorkerStep, LoadThrows, AssertCanContinue, UpdateStatus, BuildImage, HealthCheck,
         ConfigureRoute, RunContainer, RunFails, StepFails, CallThrows, CreateRow,
         ReadPrevious, Rebalance, MarkReady, SetActive, StopPrevious, MarkStopped,
         AnnounceReady, StopOwn, MarkFailed, ReleaseCapacity, FailDeployment
<1>. QED BY <1>3, <1>4, <1>5, <1>6, WorkerFrame

\* No step counts a row that reserved nothing, or moves one that did.
LEMMA NextRowsGranted == TypeOK /\ Placed /\ RowsGranted /\ [Next]_vars => RowsGranted'
<1>. SUFFICES ASSUME TypeOK, Placed, RowsGranted, [Next]_vars PROVE RowsGranted'
  OBVIOUS
<1>1. ASSUME NEW d \in Deployment, RequestStep(d) \/ HandlerDies(d) PROVE RowsGranted'
  BY <1>1, RequestRowsGranted
<1>2. ASSUME NEW w \in Worker, WorkerStep(w) PROVE RowsGranted'
  BY <1>2, WorkerRowsGranted
<1>3. ASSUME UNCHANGED <<serverOf, reqVars, snap, wpc, job>>,
             \A d \in Deployment : capReserved'[d] => capReserved[d]
      PROVE  RowsGranted'
  BY <1>3 DEF RowsGranted, reqVars
<1>4. ASSUME NEW d \in Deployment, Cancel(d) \/ CancelStep(d) \/ CancelStops(d) \/ LockExpires(d)
      PROVE  RowsGranted'
  <2>1. \A e \in Deployment : capReserved'[e] => capReserved[e]
    BY <1>4 DEF Cancel, CancelStep, ClaimRelease, RefundServer, CancelStops, LockExpires,
       rowVars, TypeOK, RowTypes
  <2>. QED BY <1>3, <1>4, <2>1 DEF Cancel, CancelStep, ClaimRelease, RefundServer,
           CancelStops, LockExpires, rowVars, workerVars
<1>5. ASSUME NEW s \in Server, SetServerStatus(s) PROVE RowsGranted'
  BY <1>3, <1>5 DEF SetServerStatus, rowVars, workerVars
<1>6. CASE UNCHANGED vars
  BY <1>3, <1>6 DEF vars, rowVars, workerVars
<1>7. ASSUME NEW w \in Worker, WorkerCrashes(w) PROVE RowsGranted'
  <2>1. /\ snap' = [snap EXCEPT ![w] = FALSE]
        /\ wpc' = [wpc EXCEPT ![w] = "idle"] /\ job' = [job EXCEPT ![w] = NoDeployment]
        /\ UNCHANGED <<serverOf, capReserved, req, candidate, created>>
    BY <1>7 DEF WorkerCrashes, rowVars, reqVars
  <2>. QED BY <2>1 DEF RowsGranted, TypeOK, WorkerTypes
<1>. QED BY <1>1, <1>2, <1>4, <1>5, <1>6, <1>7 DEF Next

\* What one step of the ledger does, said of the state of the system.
LEMMA LedgerStutters ==
    ASSUME UNCHANGED <<reserved, created>>,
           \A d \in Deployment :
              created[d] => /\ GivenBack(d)' <=> GivenBack(d)
                            /\ serverOf'[d] = serverOf[d]
    PROVE  UNCHANGED Ledger!ledgerVars
BY DEF Ledger!ledgerVars

\* Only the reservation that makes a row is a grant, on the server the UPDATE
\* found room on.
LEMMA LedgerGrant ==
    ASSUME TypeOK, RowsGranted, ReleasedOnce, NotPushed(BeforePush),
           NEW d \in Deployment, TryReserve(d)
    PROVE  Ledger!Next
<1>. /\ created \in [Deployment -> BOOLEAN]
     /\ serverOf \in [Deployment -> Server \cup {NoServer}]
     /\ candidate \in [Deployment -> Server \cup {NoServer}]
     /\ ProjectOf \in [Deployment -> Project] /\ NoServer \notin Server
  BY ConstantsAssumption DEF TypeOK, RequestTypes, RowTypes
<1>0. PICK s \in Server : s = candidate[d]
  BY DEF TryReserve
<1>1. /\ req[d] = "reserving"
      /\ reserved[s] + Need[ProjectOf[d]] <= Total[s]
      /\ reserved' = [reserved EXCEPT ![s] = @ + Need[ProjectOf[d]]]
      /\ serverOf' = [serverOf EXCEPT ![d] = s]
      /\ created' = [created EXCEPT ![d] = TRUE]
      /\ UNCHANGED released
  BY <1>0 DEF TryReserve, HasRoom
<1>2. ~created[d]
  BY <1>1 DEF RowsGranted, BeforeRow
<1>3. ~GivenBack(d)
  BY <1>1 DEF GivenBack, ReleasedOnce, NotYetReleased, NoCancels, NotPushed, BeforePush, BeforeRow
<1>4. \A e \in Deployment : GivenBack(e)' <=> GivenBack(e)
  BY <1>1 DEF GivenBack
<1>5. Ledger!Grant(d, s)
  <2>1. [e \in Deployment |-> IF created'[e] /\ ~GivenBack(e)' THEN serverOf'[e] ELSE NoServer]
           = [[e \in Deployment |-> IF created[e] /\ ~GivenBack(e) THEN serverOf[e] ELSE NoServer]
                 EXCEPT ![d] = s]
    BY <1>1, <1>3, <1>4
  <2>2. {e \in Deployment : created'[e]} = {e \in Deployment : created[e]} \cup {d}
    BY <1>1
  <2>. QED BY <1>1, <1>2, <2>1, <2>2 DEF Ledger!Grant
<1>. QED BY <1>5 DEF Ledger!Next

\* A decrement for a deployment that counts, on its server, is a return.
LEMMA LedgerGiveBack ==
    ASSUME TypeOK, NEW d \in Deployment, NEW b \in Releaser,
           created[d], serverOf[d] \in Server, ~GivenBack(d),
           Decrement(serverOf[d], ProjectOf[d]), CountRelease(d, b),
           UNCHANGED <<created, serverOf>>
    PROVE  Ledger!Next
<1>. /\ released \in [Deployment -> [Releaser -> Nat]]
     /\ ProjectOf \in [Deployment -> Project] /\ NoServer \notin Server
  BY ConstantsAssumption DEF TypeOK, ReleasedTypes
<1>1. released' = [released EXCEPT ![d][b] = @ + 1]
  BY DEF CountRelease
<1>2. \A e \in Deployment \ {d} : GivenBack(e)' <=> GivenBack(e)
  BY <1>1 DEF GivenBack
<1>3. GivenBack(d)'
  <2>1. \A c \in Releaser : released[d][c] \in Nat
    OBVIOUS
  <2>2. \A c \in Releaser : released'[d][c] = IF c = b THEN released[d][c] + 1 ELSE released[d][c]
    BY <1>1
  <2>. QED BY <2>1, <2>2 DEF GivenBack, Releaser
<1>4. Ledger!GiveBack(d)
  <2>. DEFINE place == [e \in Deployment |->
                           IF created[e] /\ ~GivenBack(e) THEN serverOf[e] ELSE NoServer]
  <2>1. place[d] = serverOf[d]
    OBVIOUS
  <2>2. [e \in Deployment |-> IF created'[e] /\ ~GivenBack(e)' THEN serverOf'[e] ELSE NoServer]
           = [place EXCEPT ![d] = NoServer]
    BY <1>2, <1>3
  <2>. QED BY <2>1, <2>2 DEF Ledger!GiveBack, Decrement
<1>. QED BY <1>4 DEF Ledger!Next

\* Which states the steps of the ledger are matched from.
Counted == /\ TypeOK /\ Placed /\ RowsGranted /\ ReleasedOnce
           /\ NotPushed(BeforePush) /\ NotPushed(NeverPushed)

\* A handler grants once and gives back once, and otherwise stays out of it.
LEMMA RequestInLedger ==
    ASSUME Counted, NEW d \in Deployment, RequestStep(d) \/ HandlerDies(d)
    PROVE  [Ledger!Next]_Ledger!ledgerVars
<1>. TypeOK /\ RowsGranted /\ Placed
  BY DEF Counted
<1>0. \A e \in Deployment : created[e] => serverOf'[e] = serverOf[e]
  BY RequestServer DEF RowsGranted
<1>1. CASE TryReserve(d)
  BY <1>1, LedgerGrant DEF Counted
<1>2. CASE UndoCapacity(d) /\ created[d]
  <2>1. /\ req[d] = "undoCapacity" /\ candidate[d] = serverOf[d] /\ serverOf[d] \in Server
        /\ Decrement(candidate[d], ProjectOf[d]) /\ CountRelease(d, "queueFailure")
        /\ UNCHANGED <<created, serverOf>>
    BY <1>2 DEF UndoCapacity, RowsGranted, rowVars
  <2>2. ~GivenBack(d)
    BY <2>1 DEF GivenBack, Counted, ReleasedOnce, NotYetReleased, NoCancels, NotPushed, NeverPushed
  <2>. QED BY <1>2, <2>1, <2>2, LedgerGiveBack DEF Releaser
<1>3. CASE UNCHANGED <<reserved, released, created>>
  <2>1. \A e \in Deployment : GivenBack(e)' <=> GivenBack(e)
    BY <1>3 DEF GivenBack
  <2>. QED BY <1>0, <1>3, <2>1, LedgerStutters
<1>4. CASE UndoCapacity(d) /\ ~created[d]
  BY <1>3, <1>4 DEF UndoCapacity
<1>. QED BY <1>1, <1>2, <1>3, <1>4, RequestGrants

\* A worker gives back once, by the copy of the flag it loaded; what it moves
\* to another server does not arise on a single host.
LEMMA WorkerInLedger ==
    ASSUME Counted, \A s, t \in Server : s = t, NEW w \in Worker, WorkerStep(w)
    PROVE  [Ledger!Next]_Ledger!ledgerVars
<1>. TypeOK /\ RowsGranted /\ Placed
  BY DEF Counted
<1>0. UNCHANGED <<created, serverOf>>
  BY WorkerFrame DEF reqVars
<1>1. CASE UNCHANGED <<reserved, released>>
  <2>1. \A e \in Deployment : GivenBack(e)' <=> GivenBack(e)
    BY <1>1 DEF GivenBack
  <2>. QED BY <1>0, <1>1, <2>1, LedgerStutters
<1>2. CASE ReleaseCapacity(w) /\ snap[w]
  <2>. DEFINE d == job[w]
  <2>1. /\ wpc[w] = "release" /\ d \in Deployment
        /\ Decrement(serverOf[d], ProjectOf[d]) /\ CountRelease(d, "pipeline")
    BY <1>2 DEF ReleaseCapacity, Move, TypeOK, WorkerTypes
  <2>2. created[d] /\ serverOf[d] \in Server
    BY <1>2, <2>1 DEF RowsGranted
  <2>3. released[d]["pipeline"] = 0 /\ released[d]["cancel"] = 0
    BY <2>1 DEF Counted, ReleasedOnce, NotYetReleased, NoCancels, BeforeRelease
  <2>4. released[d]["queueFailure"] = 0
    <3>1. req[d] # "rejected"
      BY <2>1 DEF Counted, NotPushed, NeverPushed
    <3>. QED BY <2>1, <3>1 DEF Counted, ReleasedOnce, NotYetReleased
  <2>5. ~GivenBack(d)
    BY <2>3, <2>4 DEF GivenBack
  <2>. QED BY <1>0, <2>1, <2>2, <2>5, LedgerGiveBack DEF Releaser
<1>3. CASE ReleaseCapacity(w) /\ ~snap[w]
  BY <1>1, <1>3 DEF ReleaseCapacity
<1>4. CASE Rebalance(w)
  <2>1. prev[w] = NoDeployment \/ serverOf[prev[w]] = serverOf[job[w]]
    BY <1>4 DEF Rebalance, Move, Placed
  <2>. QED BY <1>1, <1>4, <2>1 DEF Rebalance
<1>. QED BY <1>1, <1>2, <1>3, <1>4, WorkerReleases

\* Every step is one of the ledger's, or none.
LEMMA NextInLedger ==
    ASSUME \A s, t \in Server : s = t
    PROVE  Counted /\ [Next]_vars => [Ledger!Next]_Ledger!ledgerVars
<1>. SUFFICES ASSUME Counted, [Next]_vars PROVE [Ledger!Next]_Ledger!ledgerVars
  OBVIOUS
<1>1. ASSUME UNCHANGED <<reserved, created, serverOf, released>>
      PROVE  UNCHANGED Ledger!ledgerVars
  BY <1>1, LedgerStutters DEF GivenBack
<1>2. ASSUME NEW d \in Deployment, RequestStep(d) \/ HandlerDies(d)
      PROVE  [Ledger!Next]_Ledger!ledgerVars
  BY <1>2, RequestInLedger
<1>3. ASSUME NEW d \in Deployment, Cancel(d) \/ CancelStep(d) \/ CancelStops(d) \/ LockExpires(d)
      PROVE  UNCHANGED Ledger!ledgerVars
  BY <1>1, <1>3 DEF Counted, ReleasedOnce, NoCancels, Cancel, CancelStep, ClaimRelease,
     RefundServer, CancelStops, LockExpires, rowVars, serverVars, reqVars
<1>4. ASSUME NEW w \in Worker, WorkerStep(w) PROVE [Ledger!Next]_Ledger!ledgerVars
  BY <1>4, WorkerInLedger
<1>5. ASSUME NEW w \in Worker, WorkerCrashes(w) PROVE UNCHANGED Ledger!ledgerVars
  BY <1>1, <1>5 DEF WorkerCrashes, rowVars, serverVars, reqVars
<1>6. ASSUME NEW s \in Server, SetServerStatus(s) PROVE UNCHANGED Ledger!ledgerVars
  BY <1>1, <1>6 DEF SetServerStatus, rowVars, reqVars
<1>7. CASE UNCHANGED vars
  BY <1>1, <1>7 DEF vars, rowVars, serverVars, reqVars
<1>. QED BY <1>2, <1>3, <1>4, <1>5, <1>6, <1>7 DEF Next

\* The ledger starts empty.
LEMMA InitInLedger == Init => Ledger!Init
BY DEF Init, Ledger!Init

\* On a single host where nobody cancels, the lock does not expire and no
\* PUBLISH fails after a push, the handlers and the engine implement the
\* ledger: each write of the server's counter takes what fits once with a new
\* row or gives back, once, what a row took, for any number of requests,
\* workers, duplicated items, crashes and failures.
THEOREM LedgerIsImplemented ==
    ASSUME \A s, t \in Server : s = t, MaxCancels = 0,
           "lockTTL" \notin Faults, "publish" \notin Faults
    PROVE  Spec => LedgerImplemented
<1>. DEFINE Inv == Counted /\ Locking
<1>1. Init => Inv
  <2>1. Init => ReleasedOnce
    BY DEF Init, ReleasedOnce, NotYetReleased, NoCancels, InProgress, Releaser,
           BeforeRelease, BeforeReady
  <2>2. Init => RowsGranted
    BY DEF Init, RowsGranted
  <2>. QED BY <2>1, <2>2, InitTypeOK, InitLocking, InitNotPushed, InitPlaced DEF Counted
<1>2. Inv /\ [Next]_vars => Inv'
  BY NextTypeOK, NextLocking, NextNotPushed, NextReleasedOnce, NextPlaced, NextRowsGranted
     DEF Closed, Counted
<1>3. Inv /\ [Next]_vars => [Ledger!Next]_Ledger!ledgerVars
  BY NextInLedger
<1>. QED BY <1>1, <1>2, <1>3, InitInLedger, PTL DEF Spec, LedgerImplemented, Ledger!Spec

-----------------------------------------------------------------------------
\* The switch

\* How a worker's step leads to the points of the switch, when no call throws
\* after MarkReady.
LEMMA WorkerSwitch ==
    ASSUME TypeOK, "late" \notin Faults, NEW w \in Worker, WorkerStep(w)
    PROVE  /\ wpc'[w] = "setActive" => MarkReady(w) /\ wpc[w] = "markReady"
           /\ wpc'[w] = "stopPrevious" => SetActive(w)
           /\ wpc'[w] = "stopOwn" => wpc[w] \in BeforeReady
           /\ wpc'[w] \in AfterRun \cup {"setActive"} =>
                 RunContainer(w) \/ (wpc[w] \in AfterRun /\ UNCHANGED docker)
           /\ Pop(w) \/ AcquireLock(w) \/ Unlock(w) \/ UNCHANGED job
<1>. wpc \in [Worker -> WorkerPc]
  BY DEF TypeOK, WorkerTypes
<1>. USE DEF AfterRun, BeforeReady
<1>1. CASE Pop(w) \/ AcquireLock(w) \/ Unlock(w)
  BY <1>1 DEF Pop, AcquireLock, Unlock, Move
<1>2. CASE Load(w) \/ LoadThrows(w)
  BY <1>2 DEF Load, LoadThrows, Move
<1>3. CASE AssertCanContinue(w)
  BY <1>3 DEF AssertCanContinue, AfterAssert, liveVars
<1>4. CASE UpdateStatus(w) \/ BuildImage(w) \/ HealthCheck(w) \/ ConfigureRoute(w)
  BY <1>4 DEF UpdateStatus, BuildImage, HealthCheck, ConfigureRoute, Move, liveVars
<1>5. CASE RunContainer(w)
  BY <1>5 DEF RunContainer, Move
<1>6. CASE RunFails(w) \/ StepFails(w)
  BY <1>6 DEF RunFails, StepFails, Move
<1>7. CASE CallThrows(w)
  BY <1>7 DEF CallThrows
<1>8. CASE CreateRow(w) \/ ReadPrevious(w) \/ Rebalance(w) \/ MarkReady(w)
  BY <1>8 DEF CreateRow, ReadPrevious, Rebalance, MarkReady, Move, liveVars
<1>9. CASE SetActive(w) \/ StopPrevious(w) \/ MarkStopped(w) \/ AnnounceReady(w)
  BY <1>9 DEF SetActive, StopPrevious, MarkStopped, AnnounceReady, Move
<1>10. CASE StopOwn(w) \/ MarkFailed(w) \/ ReleaseCapacity(w) \/ FailDeployment(w)
  BY <1>10 DEF StopOwn, MarkFailed, ReleaseCapacity, FailDeployment, Move
<1>. QED BY <1>1, <1>2, <1>3, <1>4, <1>5, <1>6, <1>7, <1>8, <1>9, <1>10 DEF WorkerStep

\* What a worker's step does to the containers, to the active deployments and
\* to the one it replaces.
LEMMA WorkerSwitches ==
    ASSUME TypeOK, NEW w \in Worker, WorkerStep(w)
    PROVE  /\ \/ UNCHANGED docker
              \/ /\ docker[job[w]] = "none"
                 /\ \A e \in Deployment : e # job[w] => docker'[e] = docker[e]
              \/ /\ wpc[w] = "stopPrevious" /\ prev[w] # NoDeployment
                 /\ \A e \in Deployment : e # prev[w] => docker'[e] = docker[e]
              \/ /\ wpc[w] = "stopOwn"
                 /\ \A e \in Deployment : e # job[w] => docker'[e] = docker[e]
           /\ \/ UNCHANGED active
              \/ /\ SetActive(w) /\ job[w] \notin Preview
                 /\ active' = [active EXCEPT ![ProjectOf[job[w]]] = job[w]]
           /\ \/ UNCHANGED prev
              \/ Unlock(w)
              \/ /\ ReadPrevious(w) /\ job[w] \notin Preview
                 /\ \E c \in LiveRows(ProjectOf[job[w]]) \ {job[w]} :
                       prev' = [prev EXCEPT ![w] = c]
<1>. docker \in [Deployment -> {"none", "running", "stopped"}]
  BY DEF TypeOK, LiveTypes
<1>1. CASE RunContainer(w) \/ RunFails(w)
  BY <1>1 DEF RunContainer, RunFails
<1>2. CASE StopOwn(w)
  BY <1>2 DEF StopOwn, Move
<1>3. CASE StopPrevious(w)
  BY <1>3 DEF StopPrevious, Move
<1>4. CASE SetActive(w)
  BY <1>4 DEF SetActive
<1>5. CASE ReadPrevious(w)
  BY <1>5 DEF ReadPrevious, liveVars
<1>6. CASE Unlock(w)
  BY <1>6 DEF Unlock, liveVars
<1>7. \/ RunContainer(w) \/ RunFails(w) \/ StopOwn(w) \/ StopPrevious(w) \/ SetActive(w)
      \/ ReadPrevious(w) \/ Unlock(w) \/ UNCHANGED <<docker, active, prev>>
  BY DEF WorkerStep, Pop, AcquireLock, Load, LoadThrows, AssertCanContinue, UpdateStatus,
         BuildImage, HealthCheck, ConfigureRoute, StepFails, CallThrows, CreateRow,
         Rebalance, MarkReady, MarkStopped, AnnounceReady, MarkFailed, ReleaseCapacity,
         FailDeployment, liveVars
<1>. QED BY <1>1, <1>2, <1>3, <1>4, <1>5, <1>6, <1>7

\* A step of the only worker keeps the switch in order.
LEMMA WorkerSwitchedOver ==
    ASSUME TypeOK, NotPushed(BeforePush), SwitchedOver, "late" \notin Faults,
           NEW w \in Worker, \A v \in Worker : v = w, WorkerStep(w)
    PROVE  SwitchedOver'
<1>. /\ wpc \in [Worker -> WorkerPc]
     /\ job \in [Worker -> Deployment \cup {NoDeployment}]
     /\ wpc[w] # "idle" => job[w] \in Deployment
     /\ prev \in [Worker -> Deployment \cup {NoDeployment}]
     /\ docker \in [Deployment -> {"none", "running", "stopped"}]
     /\ active \in [Project -> Deployment \cup {NoDeployment}]
     /\ status \in [Deployment -> Status]
     /\ \A d \in Deployment : ProjectOf[d] \in Project
     /\ NoDeployment \notin Deployment
  BY ConstantsAssumption DEF TypeOK, WorkerTypes, LiveTypes, RowTypes
<1>. DEFINE d == job[w]
<1>1. UNCHANGED req
  BY WorkerFrame DEF reqVars
<1>2. wpc[w] # "idle" => req[d] \notin BeforePush
  BY DEF NotPushed
<1>3. ASSUME NEW p \in Project, NEW a \in Deployment, active[p] = a
      PROVE  /\ docker'[a] = "running" /\ ProjectOf[a] = p
             /\ req'[a] \notin BeforePush /\ ~InProgress(a)'
             /\ job'[w] = a => wpc'[w] \notin BeforeReady \cup {"setActive", "stopOwn"}
  <2>1. /\ docker[a] = "running" /\ ProjectOf[a] = p
        /\ req[a] \notin BeforePush /\ ~InProgress(a)
        /\ d = a => wpc[w] \notin BeforeReady \cup {"setActive", "stopOwn"}
    BY <1>3 DEF SwitchedOver
  <2>2. docker'[a] = "running"
    <3>1. ASSUME wpc[w] = "stopPrevious", prev[w] = a PROVE FALSE
      BY <1>3, <2>1, <3>1 DEF SwitchedOver
    <3>. QED BY <2>1, <3>1, WorkerSwitches
  <2>3. ~InProgress(a)'
    BY <2>1, WorkerStatus DEF InProgress, MarkReady
  <2>4. ASSUME job'[w] = a PROVE wpc'[w] \notin BeforeReady \cup {"setActive", "stopOwn"}
    <3>1. CASE UNCHANGED job
      <4>1. wpc'[w] \notin BeforeReady
        BY <2>1, <2>4, <3>1, WorkerStatus
      <4>2. wpc[w] # "markReady"
        BY <2>1, <2>4, <3>1 DEF BeforeReady
      <4>. QED BY <2>1, <2>4, <3>1, <4>1, <4>2, WorkerSwitch
    <3>2. CASE Pop(w) \/ AcquireLock(w) \/ Unlock(w)
      BY <3>2 DEF Pop, AcquireLock, Unlock, Move, BeforeReady
    <3>. QED BY <3>1, <3>2, WorkerSwitch
  <2>. QED BY <1>1, <2>1, <2>2, <2>3, <2>4
<1>4. ASSUME SetActive(w), d \notin Preview,
             active' = [active EXCEPT ![ProjectOf[d]] = d]
      PROVE  /\ docker'[d] = "running" /\ req'[d] \notin BeforePush
             /\ status'[d] \notin {"queued", "building", "deploying"}
             /\ wpc'[w] = "stopPrevious" /\ d \in Deployment
  BY <1>1, <1>2, <1>4 DEF SetActive, Move, SwitchedOver, rowVars, InProgress
<1>5. ASSUME NEW p \in Project, active'[p] # NoDeployment
      PROVE  /\ docker'[active'[p]] = "running" /\ ProjectOf[active'[p]] = p
             /\ req'[active'[p]] \notin BeforePush
             /\ status'[active'[p]] \notin {"queued", "building", "deploying"}
             /\ \A v \in Worker :
                   job'[v] = active'[p] => wpc'[v] \notin BeforeReady \cup {"setActive", "stopOwn"}
  <2>1. CASE active'[p] = active[p]
    BY <1>3, <1>5, <2>1 DEF InProgress
  <2>2. CASE active'[p] # active[p]
    <3>1. /\ SetActive(w) /\ d \notin Preview
          /\ active' = [active EXCEPT ![ProjectOf[d]] = d]
      BY <2>2, WorkerSwitches
    <3>2. active'[p] = d /\ p = ProjectOf[d]
      BY <2>2, <3>1
    <3>3. "stopPrevious" \notin BeforeReady \cup {"setActive", "stopOwn"}
      BY DEF BeforeReady
    <3>. QED BY <1>4, <3>1, <3>2, <3>3 DEF InProgress
  <2>. QED BY <2>1, <2>2
<1>6. ASSUME wpc'[w] \in AfterRun \cup {"setActive"} PROVE docker'[job'[w]] = "running"
  <2>1. CASE RunContainer(w)
    BY <2>1 DEF RunContainer, Move
  <2>2. CASE wpc[w] \in AfterRun /\ UNCHANGED docker
    <3>1. UNCHANGED job
      BY <2>2, WorkerSwitch DEF Pop, AcquireLock, Unlock, Move, AfterRun
    <3>. QED BY <2>2, <3>1 DEF SwitchedOver
  <2>. QED BY <1>6, <2>1, <2>2, WorkerSwitch
<1>7. ASSUME wpc'[w] = "setActive" PROVE status'[job'[w]] \notin {"queued", "building", "deploying"}
  BY <1>7, WorkerSwitch DEF MarkReady
<1>8. ASSUME wpc'[w] \in {"idle", "lock"} PROVE prev'[w] = NoDeployment
  <2>1. CASE Unlock(w)
    BY <2>1 DEF Unlock
  <2>2. CASE Pop(w) \/ AcquireLock(w)
    BY <2>2 DEF Pop, AcquireLock, Move, SwitchedOver
  <2>. QED BY <1>8, <2>1, <2>2, WorkerFrame DEF Inside
<1>9. ASSUME prev'[w] # NoDeployment
      PROVE  /\ prev'[w] # job'[w] /\ ProjectOf[prev'[w]] = ProjectOf[job'[w]]
             /\ job'[w] \notin Preview
             /\ wpc'[w] = "stopPrevious" => active'[ProjectOf[job'[w]]] = job'[w]
  <2>1. ~Unlock(w) /\ ~Pop(w) /\ ~AcquireLock(w)
    BY <1>9 DEF Unlock, Pop, AcquireLock, Move, SwitchedOver
  <2>2. UNCHANGED job
    BY <2>1, WorkerSwitch
  <2>3. CASE UNCHANGED prev
    <3>1. wpc'[w] = "stopPrevious" => active'[ProjectOf[d]] = d
      BY <1>9, <2>3, WorkerSwitch DEF SetActive, Move, SwitchedOver
    <3>. QED BY <1>9, <2>2, <2>3, <3>1 DEF SwitchedOver
  <2>4. CASE ReadPrevious(w)
    <3>1. wpc'[w] = "rebalance"
      BY <2>4 DEF ReadPrevious, Move
    <3>2. prev[w] = NoDeployment \/ d \notin Preview
      BY DEF SwitchedOver
    <3>3. CASE prev' = prev
      BY <2>3, <3>3
    <3>. QED BY <2>2, <2>4, <3>1, <3>3, WorkerSwitches DEF LiveRows, Unlock, Move
  <2>. QED BY <2>1, <2>3, <2>4, WorkerSwitches
<1>. QED BY <1>5, <1>6, <1>7, <1>8, <1>9 DEF SwitchedOver, InProgress

\* Every step keeps the switch in order, with one engine and no call that
\* throws after MarkReady.
LEMMA NextSwitchedOver ==
    ASSUME \A v, w \in Worker : v = w, "late" \notin Faults
    PROVE  TypeOK /\ NotPushed(BeforePush) /\ SwitchedOver /\ [Next]_vars => SwitchedOver'
<1>. SUFFICES ASSUME TypeOK, NotPushed(BeforePush), SwitchedOver, [Next]_vars
              PROVE  SwitchedOver'
  OBVIOUS
<1>. /\ \A w \in Worker : wpc[w] # "idle" => job[w] \in Deployment
     /\ active \in [Project -> Deployment \cup {NoDeployment}]
  BY DEF TypeOK, WorkerTypes, LiveTypes
<1>1. ASSUME UNCHANGED <<active, docker, wpc, job, prev>>,
             \A d \in Deployment :
                req[d] \notin BeforePush =>
                   /\ req'[d] \notin BeforePush
                   /\ InProgress(d)' => InProgress(d)
      PROVE  SwitchedOver'
  <2>1. ASSUME NEW p \in Project, active[p] # NoDeployment
        PROVE  req'[active[p]] \notin BeforePush /\ ~InProgress(active[p])'
    BY <1>1, <2>1 DEF SwitchedOver
  <2>2. ASSUME NEW w \in Worker, wpc[w] = "setActive" PROVE ~InProgress(job[w])'
    BY <1>1, <2>2 DEF SwitchedOver, NotPushed
  <2>. QED BY <1>1, <2>1, <2>2 DEF SwitchedOver, InProgress
<1>2. ASSUME NEW d \in Deployment,
             RequestStep(d) \/ Cancel(d) \/ CancelStep(d) \/ CancelStops(d) \/ HandlerDies(d)
      PROVE  SwitchedOver'
  <2>1. UNCHANGED <<active, docker, wpc, job, prev>>
    BY <1>2, RequestFrame, CancelFrame DEF liveVars, workerVars
  <2>2. \A e \in Deployment : req[e] \notin BeforePush => req'[e] \notin BeforePush
    BY <1>2, RequestPoints DEF Closed, Cancel, CancelStep, ClaimRelease, RefundServer,
       CancelStops, reqVars
  <2>3. \A e \in Deployment : req[e] \notin BeforePush /\ InProgress(e)' => InProgress(e)
    BY <1>2, RequestStatus DEF BeforePush, InProgress
  <2>. QED BY <1>1, <2>1, <2>2, <2>3
<1>3. ASSUME NEW d \in Deployment, LockExpires(d) PROVE SwitchedOver'
  BY <1>1, <1>3 DEF LockExpires, rowVars, liveVars, reqVars, workerVars, InProgress
<1>4. ASSUME NEW s \in Server, SetServerStatus(s) PROVE SwitchedOver'
  BY <1>1, <1>4 DEF SetServerStatus, rowVars, liveVars, reqVars, workerVars, InProgress
<1>5. CASE UNCHANGED vars
  BY <1>1, <1>5 DEF vars, rowVars, liveVars, reqVars, workerVars, InProgress
<1>6. ASSUME NEW w \in Worker, WorkerStep(w) PROVE SwitchedOver'
  BY <1>6, WorkerSwitchedOver
<1>7. ASSUME NEW w \in Worker, WorkerCrashes(w) PROVE SwitchedOver'
  <2>1. /\ UNCHANGED <<req, status, active, docker>>
        /\ \A v \in Worker :
              wpc'[v] = "idle" /\ job'[v] = NoDeployment /\ prev'[v] = NoDeployment
    BY <1>7 DEF WorkerCrashes, rowVars, liveVars, reqVars, TypeOK, WorkerTypes
  <2>2. "idle" \notin AfterRun \cup BeforeReady \cup {"setActive", "stopOwn"}
    BY DEF AfterRun, BeforeReady
  <2>. QED BY <2>1, <2>2 DEF SwitchedOver, InProgress
<1>. QED BY <1>2, <1>3, <1>4, <1>5, <1>6, <1>7 DEF Next

\* With the one engine the documentation deploys, a project's active deployment
\* is backed by a running container, at every step of every switch and whatever
\* fails before the switch: crashes, duplicated items, expired locks, cancels,
\* stops that throw.  A call that throws after MarkReady is what breaks it.
THEOREM ActiveRuns ==
    ASSUME \A v, w \in Worker : v = w, "late" \notin Faults
    PROVE  Spec => []ActiveIsRunning
<1>. DEFINE Inv == TypeOK /\ NotPushed(BeforePush) /\ SwitchedOver
<1>1. Init => Inv
  <2>1. Init => SwitchedOver
    BY DEF Init, SwitchedOver, AfterRun
  <2>. QED BY <2>1, InitTypeOK, InitNotPushed
<1>2. Inv /\ [Next]_vars => Inv'
  BY NextTypeOK, NextNotPushed, NextSwitchedOver DEF Closed
<1>3. Inv => ActiveIsRunning
  BY DEF SwitchedOver, ActiveIsRunning
<1>. QED BY <1>1, <1>2, <1>3, PTL DEF Spec
=============================================================================
