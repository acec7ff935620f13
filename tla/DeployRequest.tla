--------------------------- MODULE DeployRequest ---------------------------
(***************************************************************************)
(* The control plane's side of a deployment: the steps of                  *)
(* DeploymentRequestService.create, of the cancel route, and the server    *)
(* administration that changes what the scheduler may pick.  Each action   *)
(* is what happens between two awaits of the handler, so handlers of       *)
(* different requests interleave at every database or Redis call.          *)
(***************************************************************************)
EXTENDS DeployState

RequestPc == {"admitted", "keyTaken", "place", "unreserved", "reserving", "push",
              "announce", "undoStatus", "undoCapacity", "recordKey",
              "accepted", "replayed", "rejected", "dead"}

Goto(d, from, to) == req[d] = from /\ req' = [req EXCEPT ![d] = to]

\* redis.del of the request's idempotency key: the value is not looked at.
DropKey(d) ==
    idem' = IF KeyOf[d] = NoKey THEN idem ELSE [idem EXCEPT ![KeyOf[d]] = Free]

\* The handler answers with an error after giving its key back.
Reject(d) ==
    /\ req' = [req EXCEPT ![d] = "rejected"]
    /\ DropKey(d)

-----------------------------------------------------------------------------
\* No project, no repository, a reserved domain, an ended subscription or an
\* exhausted pool: create() throws before it has taken anything.
Refuse(d) ==
    /\ Goto(d, "admitted", "rejected")
    /\ UNCHANGED <<rowVars, serverVars, liveVars, redisVars, candidate, attempt,
                   created, answer, cancelVars, workerVars, released>>

\* The idempotency key: SET key in_progress NX, then GET if it was taken.

\* Mutant: SET without NX, every request with the key goes ahead.
ReserveKeyMutant(d) ==
    /\ Goto(d, "admitted", "place")
    /\ idem' = [idem EXCEPT ![KeyOf[d]] = InProgressKey]
    /\ UNCHANGED <<rowVars, serverVars, liveVars, queue, locked, candidate, attempt,
                   created, answer, cancelVars, workerVars, released>>

ReserveKey(d) ==
    /\ req[d] = "admitted"
    /\ \/ /\ KeyOf[d] = NoKey
          /\ req' = [req EXCEPT ![d] = "place"]
          /\ UNCHANGED idem
       \/ /\ KeyOf[d] # NoKey /\ idem[KeyOf[d]] = Free
          /\ req' = [req EXCEPT ![d] = "place"]
          /\ idem' = [idem EXCEPT ![KeyOf[d]] = InProgressKey]
       \/ /\ KeyOf[d] # NoKey /\ idem[KeyOf[d]] # Free
          /\ req' = [req EXCEPT ![d] = "keyTaken"]
          /\ UNCHANGED idem
    /\ UNCHANGED <<rowVars, serverVars, liveVars, queue, locked, candidate, attempt,
                   created, answer, cancelVars, workerVars, released>>

\* A finished key replays its deployment, any other value is a 409.
ReadKey(d) ==
    /\ req[d] = "keyTaken"
    /\ \/ /\ idem[KeyOf[d]] \in Deployment
          /\ req' = [req EXCEPT ![d] = "replayed"]
          /\ answer' = [answer EXCEPT ![d] = idem[KeyOf[d]]]
       \/ /\ idem[KeyOf[d]] \notin Deployment
          /\ req' = [req EXCEPT ![d] = "rejected"]
          /\ UNCHANGED answer
    /\ UNCHANGED <<rowVars, serverVars, liveVars, redisVars, candidate, attempt,
                   created, cancelVars, workerVars, released>>

-----------------------------------------------------------------------------
\* Placement and the atomic reservation.

\* The project's latest live container decides whether its server is reused.
\* Every write to a container row (wake, recovery, the end of another
\* deployment) refreshes updatedAt, so any live row can be the latest one.
Place(d) ==
    /\ req[d] = "place"
    /\ \/ /\ LiveRows(ProjectOf[d]) = {}
          /\ req' = [req EXCEPT ![d] = "reserving"]
          /\ UNCHANGED candidate
       \/ \E c \in LiveRows(ProjectOf[d]) :
             \/ /\ serverOf[c] \in healthy
                /\ req' = [req EXCEPT ![d] = "unreserved"]
                /\ candidate' = [candidate EXCEPT ![d] = serverOf[c]]
             \/ /\ serverOf[c] \notin healthy
                /\ req' = [req EXCEPT ![d] = "reserving"]
                /\ UNCHANGED candidate
    /\ UNCHANGED <<rowVars, serverVars, liveVars, redisVars, attempt, created, answer,
                   cancelVars, workerVars, released>>

\* hasActiveWorkers() finds no heartbeat; the look-up above had no effect yet.
WorkersOffline(d) ==
    /\ req[d] = "place"
    /\ Reject(d)
    /\ UNCHANGED <<rowVars, serverVars, liveVars, queue, locked, candidate, attempt,
                   created, answer, cancelVars, workerVars, released>>

\* A redeploy on the server the project already occupies reserves nothing.
CreateUnreserved(d) ==
    /\ Goto(d, "unreserved", "push")
    /\ status' = [status EXCEPT ![d] = "queued"]
    /\ serverOf' = [serverOf EXCEPT ![d] = candidate[d]]
    /\ UNCHANGED <<capReserved, serverVars, liveVars, redisVars, candidate, attempt,
                   created, answer, cancelVars, workerVars, released>>

\* ServerSchedulerService.schedule: the roomiest healthy server, those of the
\* preferred region first.  What it read may be stale when it is used.
Fitting(S, p) == {s \in S \cap healthy : Need[p] <= Available(s)}

Roomiest(S) == {s \in S : \A t \in S : Available(t) <= Available(s)}

Ranked(p) ==
    IF Fitting(Preferred, p) # {} THEN Roomiest(Fitting(Preferred, p))
                                  ELSE Roomiest(Fitting(Server, p))

Schedule(d) ==
    /\ req[d] = "reserving" /\ candidate[d] = NoServer
    /\ \/ /\ \E s \in Ranked(ProjectOf[d]) :
                candidate' = [candidate EXCEPT ![d] = s]
          /\ UNCHANGED <<req, idem>>
       \/ /\ Ranked(ProjectOf[d]) = {}       \* ServerSchedulingError
          /\ Reject(d)
          /\ UNCHANGED candidate
    /\ UNCHANGED <<rowVars, serverVars, liveVars, queue, locked, attempt, created, answer,
                   cancelVars, workerVars, released>>

\* Mutant: the UPDATE trusts what the scheduler saw and only tests the status.
HasRoomMutant(s, p) == s \in healthy

\* The WHERE clause of tryReserveServerCapacity.
HasRoom(s, p) == s \in healthy /\ reserved[s] + Need[p] <= Total[s]

\* One transaction: the conditional UPDATE of the counters and the INSERT.
TryReserve(d) ==
    LET s == candidate[d]
        p == ProjectOf[d]
    IN  /\ req[d] = "reserving" /\ s # NoServer
        /\ HasRoom(s, p)
        /\ reserved' = [reserved EXCEPT ![s] = @ + Need[p]]
        /\ status' = [status EXCEPT ![d] = "queued"]
        /\ capReserved' = [capReserved EXCEPT ![d] = TRUE]
        /\ serverOf' = [serverOf EXCEPT ![d] = s]
        /\ req' = [req EXCEPT ![d] = "push"]
        /\ created' = [created EXCEPT ![d] = TRUE]
        /\ UNCHANGED <<healthy, statusChangesLeft, liveVars, redisVars, candidate,
                       attempt, answer, cancelVars, workerVars, released>>

\* The UPDATE matched no row: schedule again, or give up after MaxAttempts.
ReserveContended(d) ==
    /\ req[d] = "reserving" /\ candidate[d] # NoServer
    /\ ~HasRoom(candidate[d], ProjectOf[d])
    /\ attempt' = [attempt EXCEPT ![d] = @ + 1]
    /\ candidate' = [candidate EXCEPT ![d] = NoServer]
    /\ IF attempt[d] + 1 >= MaxAttempts
       THEN Reject(d)
       ELSE UNCHANGED <<req, idem>>
    /\ UNCHANGED <<rowVars, serverVars, liveVars, queue, locked, created, answer,
                   cancelVars, workerVars, released>>

-----------------------------------------------------------------------------
\* Queueing, and what the handler undoes when queueing throws.

Push(d) ==
    /\ Goto(d, "push", "announce")
    /\ \/ queue' = Append(queue, d)
       \/ /\ "resend" \in Faults
          /\ queue' = Append(Append(queue, d), d)
    /\ UNCHANGED <<rowVars, serverVars, liveVars, locked, idem, candidate, attempt,
                   created, answer, cancelVars, workerVars, released>>

PushThrows(d) ==
    /\ "enqueue" \in Faults
    /\ Goto(d, "push", "undoStatus")
    /\ UNCHANGED <<rowVars, serverVars, liveVars, redisVars, candidate, attempt,
                   created, answer, cancelVars, workerVars, released>>

PublishQueued(d) ==
    /\ \/ Goto(d, "announce", "recordKey")
       \/ "publish" \in Faults /\ Goto(d, "announce", "undoStatus")
    /\ UNCHANGED <<rowVars, serverVars, liveVars, redisVars, candidate, attempt,
                   created, answer, cancelVars, workerVars, released>>

\* The catch block writes `failed` whatever the row says by then.
MarkQueueingFailed(d) ==
    /\ Goto(d, "undoStatus", "undoCapacity")
    /\ status' = [status EXCEPT ![d] = "failed"]
    /\ UNCHANGED <<capReserved, serverOf, serverVars, liveVars, redisVars, candidate,
                   attempt, created, answer, cancelVars, workerVars, released>>

\* Mutant: it does not test whether the row had reserved anything.
UndoCapacityMutant(d) ==
    /\ req[d] = "undoCapacity"
    /\ Decrement(candidate[d], ProjectOf[d])
    /\ CountRelease(d, "queueFailure")
    /\ Reject(d)
    /\ UNCHANGED <<rowVars, healthy, statusChangesLeft, liveVars, queue, locked,
                   candidate, attempt, created, answer, cancelVars, workerVars>>

\* It tests the row as it was created, not as it is now, and leaves the flag
\* of the row set.  The idempotency key is given back with it.
UndoCapacity(d) ==
    /\ req[d] = "undoCapacity"
    /\ IF created[d]
       THEN /\ Decrement(candidate[d], ProjectOf[d])
            /\ CountRelease(d, "queueFailure")
       ELSE UNCHANGED <<reserved, released>>
    /\ Reject(d)
    /\ UNCHANGED <<rowVars, healthy, statusChangesLeft, liveVars, queue, locked,
                   candidate, attempt, created, answer, cancelVars, workerVars>>

RecordKey(d) ==
    /\ Goto(d, "recordKey", "accepted")
    /\ idem' = IF KeyOf[d] = NoKey THEN idem ELSE [idem EXCEPT ![KeyOf[d]] = d]
    /\ UNCHANGED <<rowVars, serverVars, liveVars, queue, locked, candidate, attempt,
                   created, answer, cancelVars, workerVars, released>>

\* The process dies, or the secrets cannot be read or decrypted: the handler
\* stops where it is and nothing is undone.
HandlerDies(d) ==
    /\ "handler" \in Faults
    /\ req[d] \notin {"admitted", "accepted", "replayed", "rejected", "dead"}
    /\ req' = [req EXCEPT ![d] = "dead"]
    /\ UNCHANGED <<rowVars, serverVars, liveVars, redisVars, candidate, attempt,
                   created, answer, cancelVars, workerVars, released>>

RequestStep(d) ==
    \/ Refuse(d) \/ ReserveKey(d) \/ ReadKey(d) \/ Place(d) \/ WorkersOffline(d)
    \/ CreateUnreserved(d) \/ Schedule(d) \/ TryReserve(d) \/ ReserveContended(d)
    \/ Push(d) \/ PushThrows(d) \/ PublishQueued(d)
    \/ MarkQueueingFailed(d) \/ UndoCapacity(d) \/ RecordKey(d)

-----------------------------------------------------------------------------
\* POST /deployments/:id/cancel

\* The updateMany is conditional on the status, so of the cancels and workers
\* racing for a row only one changes it.
Cancel(d) ==
    /\ cancelsLeft > 0
    /\ InProgress(d)
    /\ status' = [status EXCEPT ![d] = "failed"]
    /\ claims' = [claims EXCEPT ![d] = @ + 1]
    /\ cancelsLeft' = cancelsLeft - 1
    /\ UNCHANGED <<capReserved, serverOf, serverVars, liveVars, redisVars, reqVars,
                   refunds, workerVars, released>>

\* Mutant: the flag is read and not flipped.
ClaimReleaseMutant(d) ==
    /\ claims[d] > 0
    /\ claims' = [claims EXCEPT ![d] = @ - 1]
    /\ refunds' = IF capReserved[d] THEN [refunds EXCEPT ![d] = @ + 1] ELSE refunds
    /\ UNCHANGED <<rowVars, serverVars, liveVars, redisVars, reqVars,
                   cancelsLeft, workerVars, released>>

\* releaseReservedCapacityIfNeeded, first statement: flip the flag if it is set.
ClaimRelease(d) ==
    /\ claims[d] > 0
    /\ claims' = [claims EXCEPT ![d] = @ - 1]
    /\ capReserved' = [capReserved EXCEPT ![d] = FALSE]
    /\ refunds' = IF capReserved[d] THEN [refunds EXCEPT ![d] = @ + 1] ELSE refunds
    /\ UNCHANGED <<status, serverOf, serverVars, liveVars, redisVars, reqVars,
                   cancelsLeft, workerVars, released>>

\* Second statement: whoever flipped the flag decrements the server.
RefundServer(d) ==
    /\ refunds[d] > 0
    /\ refunds' = [refunds EXCEPT ![d] = @ - 1]
    /\ Decrement(serverOf[d], ProjectOf[d])
    /\ CountRelease(d, "cancel")
    /\ UNCHANGED <<rowVars, healthy, statusChangesLeft, liveVars, redisVars, reqVars,
                   claims, cancelsLeft, workerVars>>

\* The statement throws, which the route swallows, or the API process dies:
\* what the cancel had yet to give back stays taken.
CancelStops(d) ==
    /\ "handler" \in Faults
    /\ \/ /\ claims[d] > 0
          /\ claims' = [claims EXCEPT ![d] = @ - 1]
          /\ UNCHANGED refunds
       \/ /\ refunds[d] > 0
          /\ refunds' = [refunds EXCEPT ![d] = @ - 1]
          /\ UNCHANGED claims
    /\ UNCHANGED <<rowVars, serverVars, liveVars, redisVars, reqVars,
                   cancelsLeft, workerVars, released>>

CancelStep(d) == ClaimRelease(d) \/ RefundServer(d)

-----------------------------------------------------------------------------
\* PATCH /servers/:id: an administrator drains a server or brings it back.

SetServerStatus(s) ==
    /\ statusChangesLeft > 0
    /\ healthy' = IF s \in healthy THEN healthy \ {s} ELSE healthy \cup {s}
    /\ statusChangesLeft' = statusChangesLeft - 1
    /\ UNCHANGED <<rowVars, reserved, liveVars, redisVars, reqVars, cancelVars,
                   workerVars, released>>
=============================================================================
