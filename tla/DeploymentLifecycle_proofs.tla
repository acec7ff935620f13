---------------------- MODULE DeploymentLifecycle_proofs ----------------------
(***************************************************************************)
(* Proofs about the deployment life cycle, for any number of deployments,  *)
(* projects, servers, workers, cancels and failures.                       *)
(***************************************************************************)
EXTENDS DeploymentLifecycle, TLAPS

\* What a project allocates is a number.
LEMMA NeedType == \A d \in Deployment : Need[ProjectOf[d]] \in Nat
BY ConstantsAssumption

\* Appending an element of S to a sequence over S gives a sequence over S.
LEMMA AppendType ==
    ASSUME NEW S, NEW q \in Seq(S), NEW e \in S
    PROVE  Append(q, e) \in Seq(S)
OBVIOUS

\* Its elements are the elements of the sequence and the one appended.
LEMMA AppendElements ==
    ASSUME NEW S, NEW q \in Seq(S), NEW e \in S, NEW i \in 1..Len(Append(q, e))
    PROVE  Append(q, e)[i] = e \/ (i \in 1..Len(q) /\ Append(q, e)[i] = q[i])
OBVIOUS

\* Adding to a counter and taking from it keeps it an integer; a server that
\* does not exist is not touched.
LEMMA IncType ==
    ASSUME NEW f \in [Server -> Int], NEW s, NEW n \in Nat
    PROVE  /\ [f EXCEPT ![s] = @ + n] \in [Server -> Int]
           /\ [f EXCEPT ![s] = @ - n] \in [Server -> Int]
<1>1. CASE s \in Server
  <2>1. f[s] + n \in Int /\ f[s] - n \in Int
    BY <1>1
  <2>. QED BY <2>1
<1>2. CASE s \notin Server
  BY <1>2
<1>. QED BY <1>1, <1>2

\* The same for the two counters a rebalance writes, also when they are one.
LEMMA MoveType ==
    ASSUME NEW f \in [Server -> Int], NEW s, NEW t, NEW n \in Nat, NEW b \in BOOLEAN
    PROVE  [f EXCEPT ![s] = @ - n, ![t] = IF b THEN @ ELSE @ + n] \in [Server -> Int]
<1>1. ASSUME NEW x \in Server
      PROVE  [f EXCEPT ![s] = @ - n, ![t] = IF b THEN @ ELSE @ + n][x] \in Int
  <2>1. f[x] \in Int /\ f[x] - n \in Int /\ f[x] + n \in Int /\ f[x] - n + n \in Int
    OBVIOUS
  <2>2. CASE s = x /\ t = x
    BY <2>1, <2>2
  <2>3. CASE s = x /\ t # x
    BY <2>1, <2>3
  <2>4. CASE s # x /\ t = x
    BY <2>1, <2>4
  <2>5. CASE s # x /\ t # x
    BY <2>1, <2>5
  <2>. QED BY <2>2, <2>3, <2>4, <2>5
<1>. QED BY <1>1

-----------------------------------------------------------------------------
\* Type correctness

\* A step that leaves variables alone leaves their types alone.
LEMMA TypesKept ==
    /\ RowTypes /\ UNCHANGED rowVars => RowTypes'
    /\ ServerTypes /\ UNCHANGED serverVars => ServerTypes'
    /\ LiveTypes /\ UNCHANGED liveVars => LiveTypes'
    /\ RedisTypes /\ UNCHANGED redisVars => RedisTypes'
    /\ RequestTypes /\ UNCHANGED reqVars => RequestTypes'
    /\ CancelTypes /\ UNCHANGED cancelVars => CancelTypes'
    /\ WorkerTypes /\ UNCHANGED workerVars => WorkerTypes'
    /\ ReleasedTypes /\ UNCHANGED released => ReleasedTypes'
BY DEF RowTypes, ServerTypes, LiveTypes, RedisTypes, RequestTypes,
       CancelTypes, WorkerTypes, ReleasedTypes, rowVars, serverVars, liveVars,
       redisVars, reqVars, cancelVars, workerVars

\* A step of a request handler keeps the types.
LEMMA RequestTypeOK ==
    ASSUME TypeOK, NEW d \in Deployment, RequestStep(d)
    PROVE  TypeOK'
<1>1. CASE Refuse(d)
  <2>1. RequestTypes'
    BY TypeOK, <1>1 DEF TypeOK, RequestTypes, Refuse, Goto, RequestPc, reqVars
  <2>2. UNCHANGED <<rowVars, serverVars, liveVars, redisVars, cancelVars, workerVars, released>>
    BY <1>1 DEF Refuse, Goto
  <2>. QED BY <2>1, <2>2, TypesKept DEF TypeOK
<1>2. CASE ReserveKey(d)
  <2>1. RedisTypes'
    BY TypeOK, <1>2 DEF TypeOK, RedisTypes, ReserveKey, Free, InProgressKey,
        redisVars
  <2>2. RequestTypes'
    BY TypeOK, <1>2 DEF TypeOK, RequestTypes, ReserveKey, RequestPc, reqVars
  <2>3. UNCHANGED <<rowVars, serverVars, liveVars, cancelVars, workerVars, released>>
    BY <1>2 DEF ReserveKey
  <2>. QED BY <2>1, <2>2, <2>3, TypesKept DEF TypeOK
<1>3. CASE ReadKey(d)
  <2>1. RequestTypes'
    BY TypeOK, <1>3 DEF TypeOK, RequestTypes, RedisTypes, ReadKey, RequestPc,
        reqVars
  <2>2. UNCHANGED <<rowVars, serverVars, liveVars, redisVars, cancelVars, workerVars, released>>
    BY <1>3 DEF ReadKey
  <2>. QED BY <2>1, <2>2, TypesKept DEF TypeOK
<1>4. CASE Place(d)
  <2>1. RequestTypes'
    BY TypeOK, <1>4 DEF TypeOK, RequestTypes, RowTypes, ServerTypes, Place,
        LiveRows, RequestPc, reqVars
  <2>2. UNCHANGED <<rowVars, serverVars, liveVars, redisVars, cancelVars, workerVars, released>>
    BY <1>4 DEF Place
  <2>. QED BY <2>1, <2>2, TypesKept DEF TypeOK
<1>5. CASE WorkersOffline(d)
  <2>1. RedisTypes'
    BY TypeOK, <1>5 DEF TypeOK, RedisTypes, WorkersOffline, Reject, DropKey,
        Free, InProgressKey, redisVars
  <2>2. RequestTypes'
    BY TypeOK, <1>5 DEF TypeOK, RequestTypes, WorkersOffline, Reject,
        RequestPc, reqVars
  <2>3. UNCHANGED <<rowVars, serverVars, liveVars, cancelVars, workerVars, released>>
    BY <1>5 DEF WorkersOffline, Reject, DropKey
  <2>. QED BY <2>1, <2>2, <2>3, TypesKept DEF TypeOK
<1>6. CASE CreateUnreserved(d)
  <2>1. RowTypes'
    BY TypeOK, <1>6 DEF TypeOK, RowTypes, RequestTypes, CreateUnreserved,
        Status, rowVars
  <2>2. RequestTypes'
    BY TypeOK, <1>6 DEF TypeOK, RequestTypes, CreateUnreserved, Goto,
        RequestPc, reqVars
  <2>3. UNCHANGED <<serverVars, liveVars, redisVars, cancelVars, workerVars, released>>
    BY <1>6 DEF CreateUnreserved, Goto
  <2>. QED BY <2>1, <2>2, <2>3, TypesKept DEF TypeOK
<1>7. CASE Schedule(d)
  <2>1. RedisTypes'
    BY TypeOK, <1>7 DEF TypeOK, RedisTypes, Schedule, Reject, DropKey,
        Free, InProgressKey, redisVars
  <2>2. RequestTypes'
    BY TypeOK, <1>7 DEF TypeOK, RequestTypes, ServerTypes, Schedule, Reject,
        Ranked, Roomiest, Fitting, RequestPc, reqVars
  <2>3. UNCHANGED <<rowVars, serverVars, liveVars, cancelVars, workerVars, released>>
    BY <1>7 DEF Schedule, Reject, DropKey
  <2>. QED BY <2>1, <2>2, <2>3, TypesKept DEF TypeOK
<1>8. CASE TryReserve(d)
  <2>1. RowTypes'
    BY TypeOK, <1>8 DEF TypeOK, RowTypes, RequestTypes, TryReserve, Status,
        rowVars
  <2>2. ServerTypes'
    <3>1. reserved' \in [Server -> Int]
      BY TypeOK, <1>8, NeedType, IncType DEF TypeOK, ServerTypes, TryReserve
    <3>. QED BY TypeOK, <1>8, <3>1 DEF TypeOK, ServerTypes, TryReserve
  <2>3. RequestTypes'
    BY TypeOK, <1>8 DEF TypeOK, RequestTypes, TryReserve, RequestPc, reqVars
  <2>4. UNCHANGED <<liveVars, redisVars, cancelVars, workerVars, released>>
    BY <1>8 DEF TryReserve
  <2>. QED BY <2>1, <2>2, <2>3, <2>4, TypesKept DEF TypeOK
<1>9. CASE ReserveContended(d)
  <2>1. RedisTypes'
    BY TypeOK, <1>9 DEF TypeOK, RedisTypes, ReserveContended, Reject, DropKey,
        Free, InProgressKey, redisVars
  <2>2. RequestTypes'
    <3>1. attempt' \in [Deployment -> Nat]
      BY TypeOK, <1>9 DEF TypeOK, RequestTypes, ReserveContended
    <3>2. candidate' \in [Deployment -> Server \cup {NoServer}]
      BY TypeOK, <1>9 DEF TypeOK, RequestTypes, ReserveContended
    <3>3. req' \in [Deployment -> RequestPc]
      BY TypeOK, <1>9 DEF TypeOK, RequestTypes, RequestPc, ReserveContended, Reject
    <3>. QED BY TypeOK, <1>9, <3>1, <3>2, <3>3 DEF TypeOK, RequestTypes, ReserveContended
  <2>3. UNCHANGED <<rowVars, serverVars, liveVars, cancelVars, workerVars, released>>
    BY <1>9 DEF ReserveContended, Reject, DropKey
  <2>. QED BY <2>1, <2>2, <2>3, TypesKept DEF TypeOK
<1>10. CASE Push(d)
  <2>1. RedisTypes'
    BY TypeOK, <1>10, AppendType DEF TypeOK, RedisTypes, Push, redisVars
  <2>2. RequestTypes'
    BY TypeOK, <1>10 DEF TypeOK, RequestTypes, Push, Goto, RequestPc, reqVars
  <2>3. UNCHANGED <<rowVars, serverVars, liveVars, cancelVars, workerVars, released>>
    BY <1>10 DEF Push, Goto
  <2>. QED BY <2>1, <2>2, <2>3, TypesKept DEF TypeOK
<1>11. CASE PushThrows(d)
  <2>1. RequestTypes'
    BY TypeOK, <1>11 DEF TypeOK, RequestTypes, PushThrows, Goto, RequestPc,
        reqVars
  <2>2. UNCHANGED <<rowVars, serverVars, liveVars, redisVars, cancelVars, workerVars, released>>
    BY <1>11 DEF PushThrows, Goto
  <2>. QED BY <2>1, <2>2, TypesKept DEF TypeOK
<1>12. CASE PublishQueued(d)
  <2>1. RequestTypes'
    BY TypeOK, <1>12 DEF TypeOK, RequestTypes, PublishQueued, Goto, RequestPc,
        reqVars
  <2>2. UNCHANGED <<rowVars, serverVars, liveVars, redisVars, cancelVars, workerVars, released>>
    BY <1>12 DEF PublishQueued, Goto
  <2>. QED BY <2>1, <2>2, TypesKept DEF TypeOK
<1>13. CASE MarkQueueingFailed(d)
  <2>1. RowTypes'
    BY TypeOK, <1>13 DEF TypeOK, RowTypes, MarkQueueingFailed, Status, rowVars
  <2>2. RequestTypes'
    BY TypeOK, <1>13 DEF TypeOK, RequestTypes, MarkQueueingFailed, Goto,
        RequestPc, reqVars
  <2>3. UNCHANGED <<serverVars, liveVars, redisVars, cancelVars, workerVars, released>>
    BY <1>13 DEF MarkQueueingFailed, Goto
  <2>. QED BY <2>1, <2>2, <2>3, TypesKept DEF TypeOK
<1>14. CASE UndoCapacity(d)
  <2>1. ServerTypes'
    BY TypeOK, <1>14, NeedType DEF TypeOK, ServerTypes, UndoCapacity,
        Decrement, serverVars
  <2>2. RedisTypes'
    BY TypeOK, <1>14 DEF TypeOK, RedisTypes, UndoCapacity, Reject, DropKey,
        Free, InProgressKey, redisVars
  <2>3. RequestTypes'
    BY TypeOK, <1>14 DEF TypeOK, RequestTypes, UndoCapacity, Reject,
        RequestPc, reqVars
  <2>4. ReleasedTypes'
    BY TypeOK, <1>14 DEF TypeOK, ReleasedTypes, UndoCapacity, CountRelease,
        Releaser
  <2>5. UNCHANGED <<rowVars, liveVars, cancelVars, workerVars>>
    BY <1>14 DEF UndoCapacity, Reject, DropKey, Decrement, CountRelease
  <2>. QED BY <2>1, <2>2, <2>3, <2>4, <2>5, TypesKept DEF TypeOK
<1>15. CASE RecordKey(d)
  <2>1. RedisTypes'
    BY TypeOK, <1>15 DEF TypeOK, RedisTypes, RecordKey, Free, InProgressKey,
        redisVars
  <2>2. RequestTypes'
    BY TypeOK, <1>15 DEF TypeOK, RequestTypes, RecordKey, Goto, RequestPc,
        reqVars
  <2>3. UNCHANGED <<rowVars, serverVars, liveVars, cancelVars, workerVars, released>>
    BY <1>15 DEF RecordKey, Goto
  <2>. QED BY <2>1, <2>2, <2>3, TypesKept DEF TypeOK
<1>. QED BY <1>1, <1>2, <1>3, <1>4, <1>5, <1>6, <1>7, <1>8, <1>9, <1>10, <1>11,
           <1>12, <1>13, <1>14, <1>15 DEF RequestStep

\* A step of a worker keeps the types.
LEMMA WorkerTypeOK ==
    ASSUME TypeOK, NEW w \in Worker, WorkerStep(w)
    PROVE  TypeOK'
<1>1. CASE Pop(w)
  <2>1. RedisTypes'
    BY TypeOK, <1>1, AppendType DEF TypeOK, RedisTypes, Pop, redisVars
  <2>2. WorkerTypes'
    BY TypeOK, <1>1 DEF TypeOK, WorkerTypes, RedisTypes, Pop, Move, WorkerPc,
        workerVars
  <2>3. UNCHANGED <<rowVars, serverVars, liveVars, reqVars, cancelVars, released>>
    BY <1>1 DEF Pop, Move
  <2>. QED BY <2>1, <2>2, <2>3, TypesKept DEF TypeOK
<1>2. CASE AcquireLock(w)
  <2>1. RedisTypes'
    BY TypeOK, <1>2 DEF TypeOK, RedisTypes, WorkerTypes, AcquireLock,
        redisVars
  <2>2. WorkerTypes'
    BY TypeOK, <1>2 DEF TypeOK, WorkerTypes, AcquireLock, WorkerPc, workerVars
  <2>3. UNCHANGED <<rowVars, serverVars, liveVars, reqVars, cancelVars, released>>
    BY <1>2 DEF AcquireLock
  <2>. QED BY <2>1, <2>2, <2>3, TypesKept DEF TypeOK
<1>3. CASE Load(w)
  <2>1. WorkerTypes'
    BY TypeOK, <1>3 DEF TypeOK, WorkerTypes, RowTypes, Load, WorkerPc,
        workerVars
  <2>2. UNCHANGED <<rowVars, serverVars, liveVars, redisVars, reqVars, cancelVars, released>>
    BY <1>3 DEF Load
  <2>. QED BY <2>1, <2>2, TypesKept DEF TypeOK
<1>4. CASE LoadThrows(w)
  <2>1. WorkerTypes'
    BY TypeOK, <1>4 DEF TypeOK, WorkerTypes, LoadThrows, Move, WorkerPc,
        workerVars
  <2>2. UNCHANGED <<rowVars, serverVars, liveVars, redisVars, reqVars, cancelVars, released>>
    BY <1>4 DEF LoadThrows, Move
  <2>. QED BY <2>1, <2>2, TypesKept DEF TypeOK
<1>5. CASE AssertCanContinue(w)
  <2>1. WorkerTypes'
    BY TypeOK, <1>5 DEF TypeOK, WorkerTypes, AssertCanContinue, AfterAssert,
        WorkerPc, workerVars
  <2>2. UNCHANGED <<rowVars, serverVars, liveVars, redisVars, reqVars, cancelVars, released>>
    BY <1>5 DEF AssertCanContinue
  <2>. QED BY <2>1, <2>2, TypesKept DEF TypeOK
<1>6. CASE UpdateStatus(w)
  <2>1. RowTypes'
    BY TypeOK, <1>6 DEF TypeOK, RowTypes, UpdateStatus, Status, rowVars
  <2>2. WorkerTypes'
    BY TypeOK, <1>6 DEF TypeOK, WorkerTypes, UpdateStatus, Move, WorkerPc,
        workerVars
  <2>3. UNCHANGED <<serverVars, liveVars, redisVars, reqVars, cancelVars, released>>
    BY <1>6 DEF UpdateStatus, Move
  <2>. QED BY <2>1, <2>2, <2>3, TypesKept DEF TypeOK
<1>7. CASE BuildImage(w)
  <2>1. WorkerTypes'
    BY TypeOK, <1>7 DEF TypeOK, WorkerTypes, BuildImage, Move, WorkerPc,
        workerVars
  <2>2. UNCHANGED <<rowVars, serverVars, liveVars, redisVars, reqVars, cancelVars, released>>
    BY <1>7 DEF BuildImage, Move
  <2>. QED BY <2>1, <2>2, TypesKept DEF TypeOK
<1>8. CASE HealthCheck(w)
  <2>1. WorkerTypes'
    BY TypeOK, <1>8 DEF TypeOK, WorkerTypes, HealthCheck, Move, WorkerPc,
        workerVars
  <2>2. UNCHANGED <<rowVars, serverVars, liveVars, redisVars, reqVars, cancelVars, released>>
    BY <1>8 DEF HealthCheck, Move
  <2>. QED BY <2>1, <2>2, TypesKept DEF TypeOK
<1>9. CASE ConfigureRoute(w)
  <2>1. WorkerTypes'
    BY TypeOK, <1>9 DEF TypeOK, WorkerTypes, ConfigureRoute, Move, WorkerPc,
        workerVars
  <2>2. UNCHANGED <<rowVars, serverVars, liveVars, redisVars, reqVars, cancelVars, released>>
    BY <1>9 DEF ConfigureRoute, Move
  <2>. QED BY <2>1, <2>2, TypesKept DEF TypeOK
<1>10. CASE RunContainer(w)
  <2>1. LiveTypes'
    BY TypeOK, <1>10 DEF TypeOK, LiveTypes, RunContainer, liveVars
  <2>2. WorkerTypes'
    BY TypeOK, <1>10 DEF TypeOK, WorkerTypes, RunContainer, Move, WorkerPc,
        workerVars
  <2>3. UNCHANGED <<rowVars, serverVars, redisVars, reqVars, cancelVars, released>>
    BY <1>10 DEF RunContainer, Move
  <2>. QED BY <2>1, <2>2, <2>3, TypesKept DEF TypeOK
<1>11. CASE RunFails(w)
  <2>1. LiveTypes'
    BY TypeOK, <1>11 DEF TypeOK, LiveTypes, RunFails, liveVars
  <2>2. WorkerTypes'
    BY TypeOK, <1>11 DEF TypeOK, WorkerTypes, RunFails, Move, WorkerPc,
        workerVars
  <2>3. UNCHANGED <<rowVars, serverVars, redisVars, reqVars, cancelVars, released>>
    BY <1>11 DEF RunFails, Move
  <2>. QED BY <2>1, <2>2, <2>3, TypesKept DEF TypeOK
<1>12. CASE StepFails(w)
  <2>1. WorkerTypes'
    BY TypeOK, <1>12 DEF TypeOK, WorkerTypes, StepFails, WorkerPc, workerVars
  <2>2. UNCHANGED <<rowVars, serverVars, liveVars, redisVars, reqVars, cancelVars, released>>
    BY <1>12 DEF StepFails
  <2>. QED BY <2>1, <2>2, TypesKept DEF TypeOK
<1>13. CASE CallThrows(w)
  <2>1. WorkerTypes'
    BY TypeOK, <1>13 DEF TypeOK, WorkerTypes, CallThrows, WorkerPc, workerVars
  <2>2. UNCHANGED <<rowVars, serverVars, liveVars, redisVars, reqVars, cancelVars, released>>
    BY <1>13 DEF CallThrows
  <2>. QED BY <2>1, <2>2, TypesKept DEF TypeOK
<1>14. CASE CreateRow(w)
  <2>1. LiveTypes'
    BY TypeOK, <1>14 DEF TypeOK, LiveTypes, CreateRow, liveVars
  <2>2. WorkerTypes'
    BY TypeOK, <1>14 DEF TypeOK, WorkerTypes, CreateRow, Move, WorkerPc,
        workerVars
  <2>3. UNCHANGED <<rowVars, serverVars, redisVars, reqVars, cancelVars, released>>
    BY <1>14 DEF CreateRow, Move
  <2>. QED BY <2>1, <2>2, <2>3, TypesKept DEF TypeOK
<1>15. CASE ReadPrevious(w)
  <2>1. WorkerTypes'
    BY TypeOK, <1>15 DEF TypeOK, WorkerTypes, ReadPrevious, Move, LiveRows,
        WorkerPc, workerVars
  <2>2. UNCHANGED <<rowVars, serverVars, liveVars, redisVars, reqVars, cancelVars, released>>
    BY <1>15 DEF ReadPrevious, Move
  <2>. QED BY <2>1, <2>2, TypesKept DEF TypeOK
<1>16. CASE Rebalance(w)
  <2>1. ServerTypes'
    <3>1. job[w] \in Deployment
      BY TypeOK, <1>16 DEF TypeOK, WorkerTypes, Rebalance, Move
    <3>2. Need[ProjectOf[job[w]]] \in Nat
      BY <3>1, NeedType
    <3>3. snap[w] \in BOOLEAN
      BY TypeOK DEF TypeOK, WorkerTypes
    <3>4. reserved' \in [Server -> Int]
      BY TypeOK, <1>16, <3>2, <3>3, MoveType DEF TypeOK, ServerTypes, Rebalance
    <3>. QED BY TypeOK, <1>16, <3>4 DEF TypeOK, ServerTypes, Rebalance
  <2>2. WorkerTypes'
    BY TypeOK, <1>16 DEF TypeOK, WorkerTypes, Rebalance, Move, WorkerPc,
        workerVars
  <2>3. UNCHANGED <<rowVars, liveVars, redisVars, reqVars, cancelVars, released>>
    BY <1>16 DEF Rebalance, Move
  <2>. QED BY <2>1, <2>2, <2>3, TypesKept DEF TypeOK
<1>17. CASE MarkReady(w)
  <2>1. RowTypes'
    BY TypeOK, <1>17 DEF TypeOK, RowTypes, MarkReady, Status, rowVars
  <2>2. WorkerTypes'
    BY TypeOK, <1>17 DEF TypeOK, WorkerTypes, MarkReady, Move, WorkerPc,
        workerVars
  <2>3. UNCHANGED <<serverVars, liveVars, redisVars, reqVars, cancelVars, released>>
    BY <1>17 DEF MarkReady, Move
  <2>. QED BY <2>1, <2>2, <2>3, TypesKept DEF TypeOK
<1>18. CASE SetActive(w)
  <2>1. LiveTypes'
    BY TypeOK, <1>18 DEF TypeOK, LiveTypes, WorkerTypes, SetActive, liveVars
  <2>2. WorkerTypes'
    BY TypeOK, <1>18 DEF TypeOK, WorkerTypes, SetActive, Move, WorkerPc,
        workerVars
  <2>3. UNCHANGED <<rowVars, serverVars, redisVars, reqVars, cancelVars, released>>
    BY <1>18 DEF SetActive, Move
  <2>. QED BY <2>1, <2>2, <2>3, TypesKept DEF TypeOK
<1>19. CASE StopPrevious(w)
  <2>1. LiveTypes'
    BY TypeOK, <1>19 DEF TypeOK, LiveTypes, StopPrevious, liveVars
  <2>2. WorkerTypes'
    BY TypeOK, <1>19 DEF TypeOK, WorkerTypes, StopPrevious, Move, WorkerPc,
        workerVars
  <2>3. UNCHANGED <<rowVars, serverVars, redisVars, reqVars, cancelVars, released>>
    BY <1>19 DEF StopPrevious, Move
  <2>. QED BY <2>1, <2>2, <2>3, TypesKept DEF TypeOK
<1>20. CASE MarkStopped(w)
  <2>1. LiveTypes'
    BY TypeOK, <1>20 DEF TypeOK, LiveTypes, MarkStopped, liveVars
  <2>2. WorkerTypes'
    BY TypeOK, <1>20 DEF TypeOK, WorkerTypes, MarkStopped, Move, WorkerPc,
        workerVars
  <2>3. UNCHANGED <<rowVars, serverVars, redisVars, reqVars, cancelVars, released>>
    BY <1>20 DEF MarkStopped, Move
  <2>. QED BY <2>1, <2>2, <2>3, TypesKept DEF TypeOK
<1>21. CASE AnnounceReady(w)
  <2>1. WorkerTypes'
    BY TypeOK, <1>21 DEF TypeOK, WorkerTypes, AnnounceReady, Move, WorkerPc,
        workerVars
  <2>2. UNCHANGED <<rowVars, serverVars, liveVars, redisVars, reqVars, cancelVars, released>>
    BY <1>21 DEF AnnounceReady, Move
  <2>. QED BY <2>1, <2>2, TypesKept DEF TypeOK
<1>22. CASE StopOwn(w)
  <2>1. LiveTypes'
    BY TypeOK, <1>22 DEF TypeOK, LiveTypes, StopOwn, liveVars
  <2>2. WorkerTypes'
    BY TypeOK, <1>22 DEF TypeOK, WorkerTypes, StopOwn, Move, WorkerPc,
        workerVars
  <2>3. UNCHANGED <<rowVars, serverVars, redisVars, reqVars, cancelVars, released>>
    BY <1>22 DEF StopOwn, Move
  <2>. QED BY <2>1, <2>2, <2>3, TypesKept DEF TypeOK
<1>23. CASE MarkFailed(w)
  <2>1. RowTypes'
    BY TypeOK, <1>23 DEF TypeOK, RowTypes, MarkFailed, Status, rowVars
  <2>2. WorkerTypes'
    BY TypeOK, <1>23 DEF TypeOK, WorkerTypes, MarkFailed, Move, WorkerPc,
        workerVars
  <2>3. UNCHANGED <<serverVars, liveVars, redisVars, reqVars, cancelVars, released>>
    BY <1>23 DEF MarkFailed, Move
  <2>. QED BY <2>1, <2>2, <2>3, TypesKept DEF TypeOK
<1>24. CASE ReleaseCapacity(w)
  <2>1. ServerTypes'
    <3>1. job[w] \in Deployment
      BY TypeOK, <1>24 DEF TypeOK, WorkerTypes, ReleaseCapacity, Move
    <3>2. reserved' \in [Server -> Int]
      BY TypeOK, <1>24, <3>1, NeedType, IncType
      DEF TypeOK, ServerTypes, ReleaseCapacity, Decrement
    <3>. QED BY TypeOK, <1>24, <3>2 DEF TypeOK, ServerTypes, ReleaseCapacity
  <2>2. WorkerTypes'
    BY TypeOK, <1>24 DEF TypeOK, WorkerTypes, ReleaseCapacity, Move, WorkerPc,
        workerVars
  <2>3. ReleasedTypes'
    BY TypeOK, <1>24 DEF TypeOK, ReleasedTypes, ReleaseCapacity, CountRelease,
        Releaser
  <2>4. UNCHANGED <<rowVars, liveVars, redisVars, reqVars, cancelVars>>
    BY <1>24 DEF ReleaseCapacity, Move, Decrement, CountRelease
  <2>. QED BY <2>1, <2>2, <2>3, <2>4, TypesKept DEF TypeOK
<1>25. CASE FailDeployment(w)
  <2>1. RowTypes'
    BY TypeOK, <1>25 DEF TypeOK, RowTypes, FailDeployment, Status, rowVars
  <2>2. WorkerTypes'
    BY TypeOK, <1>25 DEF TypeOK, WorkerTypes, FailDeployment, Move, WorkerPc,
        workerVars
  <2>3. UNCHANGED <<serverVars, liveVars, redisVars, reqVars, cancelVars, released>>
    BY <1>25 DEF FailDeployment, Move
  <2>. QED BY <2>1, <2>2, <2>3, TypesKept DEF TypeOK
<1>26. CASE Unlock(w)
  <2>1. RedisTypes'
    BY TypeOK, <1>26 DEF TypeOK, RedisTypes, Unlock, redisVars
  <2>2. WorkerTypes'
    BY TypeOK, <1>26 DEF TypeOK, WorkerTypes, Unlock, Move, WorkerPc,
        workerVars
  <2>3. UNCHANGED <<rowVars, serverVars, liveVars, reqVars, cancelVars, released>>
    BY <1>26 DEF Unlock, Move
  <2>. QED BY <2>1, <2>2, <2>3, TypesKept DEF TypeOK
<1>. QED BY <1>1, <1>2, <1>3, <1>4, <1>5, <1>6, <1>7, <1>8, <1>9, <1>10, <1>11,
           <1>12, <1>13, <1>14, <1>15, <1>16, <1>17, <1>18, <1>19, <1>20,
           <1>21, <1>22, <1>23, <1>24, <1>25, <1>26 DEF WorkerStep

\* So do the cancels, the death of a handler and the expiry of a lock,
LEMMA CancelTypeOK ==
    ASSUME TypeOK, NEW d \in Deployment, Cancel(d) \/ CancelStep(d) \/ CancelStops(d)
                 \/ HandlerDies(d) \/ LockExpires(d)
    PROVE  TypeOK'
<1>1. CASE Cancel(d)
  <2>1. RowTypes'
    BY TypeOK, <1>1 DEF TypeOK, RowTypes, Cancel, Status, rowVars
  <2>2. CancelTypes'
    BY TypeOK, <1>1 DEF TypeOK, CancelTypes, Cancel, cancelVars
  <2>3. UNCHANGED <<serverVars, liveVars, redisVars, reqVars, workerVars, released>>
    BY <1>1 DEF Cancel
  <2>. QED BY <2>1, <2>2, <2>3, TypesKept DEF TypeOK
<1>2. CASE ClaimRelease(d)
  <2>1. RowTypes'
    BY TypeOK, <1>2 DEF TypeOK, RowTypes, ClaimRelease, rowVars
  <2>2. CancelTypes'
    BY TypeOK, <1>2 DEF TypeOK, CancelTypes, ClaimRelease, cancelVars
  <2>3. UNCHANGED <<serverVars, liveVars, redisVars, reqVars, workerVars, released>>
    BY <1>2 DEF ClaimRelease
  <2>. QED BY <2>1, <2>2, <2>3, TypesKept DEF TypeOK
<1>3. CASE RefundServer(d)
  <2>1. ServerTypes'
    <3>1. reserved' \in [Server -> Int]
      BY TypeOK, <1>3, NeedType, IncType DEF TypeOK, ServerTypes, RefundServer, Decrement
    <3>. QED BY TypeOK, <1>3, <3>1 DEF TypeOK, ServerTypes, RefundServer
  <2>2. CancelTypes'
    BY TypeOK, <1>3 DEF TypeOK, CancelTypes, RefundServer, cancelVars
  <2>3. ReleasedTypes'
    BY TypeOK, <1>3 DEF TypeOK, ReleasedTypes, RefundServer, CountRelease,
        Releaser
  <2>4. UNCHANGED <<rowVars, liveVars, redisVars, reqVars, workerVars>>
    BY <1>3 DEF RefundServer, Decrement, CountRelease
  <2>. QED BY <2>1, <2>2, <2>3, <2>4, TypesKept DEF TypeOK
<1>4. CASE CancelStops(d)
  <2>1. CancelTypes'
    BY TypeOK, <1>4 DEF TypeOK, CancelTypes, CancelStops, cancelVars
  <2>2. UNCHANGED <<rowVars, serverVars, liveVars, redisVars, reqVars, workerVars, released>>
    BY <1>4 DEF CancelStops
  <2>. QED BY <2>1, <2>2, TypesKept DEF TypeOK
<1>5. CASE HandlerDies(d)
  <2>1. RequestTypes'
    BY TypeOK, <1>5 DEF TypeOK, RequestTypes, HandlerDies, RequestPc, reqVars
  <2>2. UNCHANGED <<rowVars, serverVars, liveVars, redisVars, cancelVars, workerVars, released>>
    BY <1>5 DEF HandlerDies
  <2>. QED BY <2>1, <2>2, TypesKept DEF TypeOK
<1>6. CASE LockExpires(d)
  <2>1. RedisTypes'
    BY TypeOK, <1>6 DEF TypeOK, RedisTypes, LockExpires, redisVars
  <2>2. UNCHANGED <<rowVars, serverVars, liveVars, reqVars, cancelVars, workerVars, released>>
    BY <1>6 DEF LockExpires
  <2>. QED BY <2>1, <2>2, TypesKept DEF TypeOK
<1>. QED BY <1>1, <1>2, <1>3, <1>4, <1>5, <1>6 DEF CancelStep

\* the death of a worker,
LEMMA CrashTypeOK ==
    ASSUME TypeOK, NEW w \in Worker, WorkerCrashes(w)
    PROVE  TypeOK'
<1>1. CASE WorkerCrashes(w)
  <2>1. WorkerTypes'
    BY TypeOK, <1>1 DEF TypeOK, WorkerTypes, WorkerCrashes, WorkerPc,
        workerVars
  <2>2. UNCHANGED <<rowVars, serverVars, liveVars, redisVars, reqVars, cancelVars, released>>
    BY <1>1 DEF WorkerCrashes
  <2>. QED BY <2>1, <2>2, TypesKept DEF TypeOK
<1>. QED BY <1>1

\* and the administration of a server.
LEMMA ServerTypeOK ==
    ASSUME TypeOK, NEW s \in Server, SetServerStatus(s)
    PROVE  TypeOK'
<1>1. CASE SetServerStatus(s)
  <2>1. ServerTypes'
    BY TypeOK, <1>1 DEF TypeOK, ServerTypes, SetServerStatus, serverVars
  <2>2. UNCHANGED <<rowVars, liveVars, redisVars, reqVars, cancelVars, workerVars, released>>
    BY <1>1 DEF SetServerStatus
  <2>. QED BY <2>1, <2>2, TypesKept DEF TypeOK
<1>. QED BY <1>1

\* Init establishes the types.
LEMMA InitTypeOK == Init => TypeOK
BY ConstantsAssumption
   DEF Init, TypeOK, RowTypes, ServerTypes, LiveTypes, RedisTypes, RequestTypes,
       CancelTypes, WorkerTypes, ReleasedTypes, Status, RequestPc, WorkerPc,
       Releaser, Free, InProgressKey

\* Every step of the system keeps the types.
LEMMA NextTypeOK == TypeOK /\ [Next]_vars => TypeOK'
<1>. SUFFICES ASSUME TypeOK, [Next]_vars PROVE TypeOK'
  OBVIOUS
<1>1. CASE UNCHANGED vars
  BY <1>1, TypesKept DEF TypeOK, vars
<1>2. ASSUME NEW d \in Deployment, RequestStep(d) PROVE TypeOK'
  BY <1>2, RequestTypeOK
<1>3. ASSUME NEW d \in Deployment,
             Cancel(d) \/ CancelStep(d) \/ CancelStops(d) \/ HandlerDies(d) \/ LockExpires(d)
      PROVE  TypeOK'
  BY <1>3, CancelTypeOK
<1>4. ASSUME NEW w \in Worker, WorkerStep(w) PROVE TypeOK'
  BY <1>4, WorkerTypeOK
<1>5. ASSUME NEW w \in Worker, WorkerCrashes(w) PROVE TypeOK'
  BY <1>5, CrashTypeOK
<1>6. ASSUME NEW s \in Server, SetServerStatus(s) PROVE TypeOK'
  BY <1>6, ServerTypeOK
<1>. QED BY <1>1, <1>2, <1>3, <1>4, <1>5, <1>6 DEF Next

\* Type correctness: no handler, worker, cancel or failure ever leaves a
\* column, a key or a local variable with a value it cannot have, and a worker
\* past its BLPOP always has an item.
THEOREM TypeCorrect == Spec => []TypeOK
<1>1. Init => TypeOK
  BY InitTypeOK
<1>2. TypeOK /\ [Next]_vars => TypeOK'
  BY NextTypeOK
<1>. QED BY <1>1, <1>2, PTL DEF Spec

=============================================================================
