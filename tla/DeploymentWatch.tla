--------------------------- MODULE DeploymentWatch ---------------------------
(***************************************************************************)
(* How the deployment form of a project's page learns that a deployment has *)
(* ended: websocket/deployment-events.ts replays the log entries of the     *)
(* deployment and then subscribes to its channel, the pipeline and the      *)
(* cancel route write an entry and then publish to the channel, and         *)
(* deploy-form.tsx connects after a submission and whenever the page's list *)
(* of deployments says that one is in progress.  One deployment; messages   *)
(* the form does nothing with are left out.                                 *)
(***************************************************************************)
EXTENDS Naturals, FiniteSets

CONSTANT MaxLoads       \* loads of the list that are on their way at once

VARIABLES dep,          \* Deployment.status: "none" before the row, "progress" for the first three
          pipeline,     \* what the pipeline does next: "pop", "assert", "update" or "none"
          saying,       \* what the engine and the cancel route have still to tell: an event and the step
          entries,      \* the eventTypes, of those that tell of an end, of the deployment's log entries
          stream,       \* the form's socket: where its route is, and the messages on their way
          form,         \* the mounted form: deploying, its POST and its GET of the active deployment
          list,         \* whether the page's list has the deployment in progress
          loads,        \* GET /deployments on their way: what they have read
          gaps          \* why the end may not have reached the form's socket

watchVars == <<dep, pipeline, saying, entries, stream, form, list, loads, gaps>>

Finals == {"ready", "failed"}       \* the events that end the form's wait
Sayers == {"engine", "cancel"}
Silent == [event |-> "none", at |-> "none"]
NoStream == [at |-> "none", pipe |-> {}]
Unmounted == [mounted |-> FALSE, deploying |-> FALSE, post |-> FALSE, get |-> "none"]

WatchInit ==
    /\ dep = "none" /\ pipeline = "none"
    /\ saying = [s \in Sayers |-> Silent]
    /\ entries = {} /\ gaps = {}
    /\ stream = NoStream /\ form = Unmounted
    /\ list = FALSE /\ loads = {}

-----------------------------------------------------------------------------
(* What there is to see *)

Say(s, event) == saying' = [saying EXCEPT ![s] = [event |-> event, at |-> "log"]]

\* A deployment that is no longer in progress is skipped.
PopItem ==
    /\ pipeline = "pop"
    /\ pipeline' = IF dep = "progress" THEN "assert" ELSE "none"
    /\ UNCHANGED <<dep, saying, entries, stream, form, list, loads, gaps>>

\* assertDeploymentCanContinue; a deployment that has been canceled throws
AssertGoesOn ==
    /\ pipeline = "assert" /\ dep = "progress"
    /\ pipeline' = "update"
    /\ UNCHANGED <<dep, saying, entries, stream, form, list, loads, gaps>>

\* updateStatus: whatever the status has become, the deployment is building or deploying
SetProgress ==
    /\ pipeline = "update"
    /\ dep' = "progress" /\ pipeline' = "assert"
    /\ UNCHANGED <<saying, entries, stream, form, list, loads, gaps>>

GoLive ==
    /\ pipeline = "update"
    /\ dep' = "ready" /\ pipeline' = "none" /\ Say("engine", "ready")
    /\ UNCHANGED <<entries, stream, form, list, loads, gaps>>

\* The pipeline's catch block; it says nothing when giving back the capacity throws.
FailRun ==
    /\ pipeline \in {"assert", "update"}
    /\ dep' = "failed" /\ pipeline' = "none"
    /\ \/ Say("engine", "failed") /\ UNCHANGED gaps
       \/ UNCHANGED saying /\ gaps' = gaps \cup {"untold"}
    /\ UNCHANGED <<entries, stream, form, list, loads>>

\* The list's Cancel button: POST /deployments/:deploymentId/cancel
CancelListed ==
    /\ list /\ dep = "progress" /\ saying["cancel"] = Silent
    /\ dep' = "failed" /\ Say("cancel", "failed")
    /\ UNCHANGED <<pipeline, entries, stream, form, list, loads, gaps>>

\* The entry of a cancellation has a type of its own; an entry that cannot be written is done without.
Persist(s) ==
    /\ saying[s].at = "log"
    /\ saying' = [saying EXCEPT ![s].at = "publish"]
    /\ \/ /\ entries' = entries \cup {IF s = "cancel" THEN "canceled" ELSE saying[s].event}
          /\ UNCHANGED gaps
       \/ entries' = entries /\ gaps' = gaps \cup {"unlogged"}
    /\ UNCHANGED <<dep, pipeline, stream, form, list, loads>>

\* redis.publish: nobody but the present subscribers hears of it.
Publish(s) ==
    /\ saying[s].at = "publish"
    /\ saying' = [saying EXCEPT ![s] = Silent]
    /\ IF stream.at = "open"
       THEN /\ stream' = [stream EXCEPT !.pipe = @ \cup {saying[s].event}]
            /\ UNCHANGED gaps
       ELSE /\ gaps' = gaps \cup {g \in {"canceled", "between"} :
                                     IF g = "canceled" THEN s = "cancel" ELSE stream.at = "subscribe"}
            /\ UNCHANGED stream
    /\ UNCHANGED <<dep, pipeline, entries, form, list, loads>>

\* A deployment whose last publish throws fails although it was ready.
PublishThrows(s) ==
    /\ saying[s].at = "publish"
    /\ IF saying[s].event = "ready"
       THEN dep' = "failed" /\ Say(s, "failed") /\ UNCHANGED gaps
       ELSE saying' = [saying EXCEPT ![s] = Silent] /\ gaps' = gaps \cup {"untold"} /\ UNCHANGED dep
    /\ UNCHANGED <<pipeline, entries, stream, form, list, loads>>

-----------------------------------------------------------------------------
(* The route of the socket *)

\* Mutant: the entries are not replayed.
ReplayMutant ==
    /\ stream.at = "history"
    /\ stream' = [at |-> "subscribe", pipe |-> {}]
    /\ UNCHANGED <<dep, pipeline, saying, entries, form, list, loads, gaps>>

\* The form does nothing with the message that says what the status is.
Replay ==
    /\ stream.at = "history"
    /\ stream' = [at |-> "subscribe", pipe |-> entries \cap Finals]
    /\ UNCHANGED <<dep, pipeline, saying, entries, form, list, loads, gaps>>

Subscribe ==
    /\ stream.at = "subscribe"
    /\ stream' = [stream EXCEPT !.at = "open"]
    /\ UNCHANGED <<dep, pipeline, saying, entries, form, list, loads, gaps>>

\* The connection breaks, is refused, or cannot subscribe; nobody connects again.
Drop ==
    /\ stream.at # "none"
    /\ stream' = NoStream /\ gaps' = gaps \cup {"dropped"}
    /\ UNCHANGED <<dep, pipeline, saying, entries, form, list, loads>>

-----------------------------------------------------------------------------
(* The form and the list *)

\* connectDeploymentStream closes the socket there is; the replay does not tell the new one of a cancellation.
OpenStream ==
    /\ stream' = [at |-> "history", pipe |-> {}]
    /\ gaps' = (gaps \ {"between", "dropped"}) \cup (entries \cap {"canceled"})

\* The dependency of the form's effect: the list has an active deployment that it had not before.
Turns(shown) == form.mounted /\ ~list /\ shown

Show(shown) ==
    /\ list' = shown
    /\ form' = IF Turns(shown) THEN [form EXCEPT !.get = "sent"] ELSE form

Mount ==
    /\ ~form.mounted
    /\ form' = [Unmounted EXCEPT !.mounted = TRUE, !.get = IF list THEN "sent" ELSE "none"]
    /\ UNCHANGED <<dep, pipeline, saying, entries, stream, list, loads, gaps>>

\* Another tab of the page: the form and what it knows are gone, its socket is closed.
Unmount ==
    /\ form.mounted
    /\ form' = Unmounted /\ stream' = NoStream
    /\ UNCHANGED <<dep, pipeline, saying, entries, list, loads, gaps>>

\* onSubmit; a form with a bad environment variable is refused before anything is sent
Submit ==
    /\ form.mounted /\ ~form.deploying /\ dep = "none"
    /\ form' = [form EXCEPT !.deploying = TRUE, !.post = TRUE]
    /\ UNCHANGED <<dep, pipeline, saying, entries, stream, list, loads, gaps>>

\* POST /deployments
AcceptPost ==
    /\ form.post /\ dep = "none"
    /\ dep' = "progress" /\ pipeline' = "pop"
    /\ UNCHANGED <<saying, entries, stream, form, list, loads, gaps>>

PostAnswered ==
    /\ form.post /\ dep # "none"
    /\ form' = [form EXCEPT !.post = FALSE]
    /\ OpenStream
    /\ UNCHANGED <<dep, pipeline, saying, entries, list, loads>>

PostFails ==
    /\ form.post
    /\ form' = [form EXCEPT !.post = FALSE, !.deploying = FALSE]
    /\ UNCHANGED <<dep, pipeline, saying, entries, stream, list, loads, gaps>>

\* GET /deployments/:deploymentId of the reconnecting form
ReadActive ==
    /\ form.get = "sent"
    /\ form' = [form EXCEPT !.get = dep]
    /\ UNCHANGED <<dep, pipeline, saying, entries, stream, list, loads, gaps>>

Reconnect ==
    /\ form.get \notin {"none", "sent"}
    /\ IF form.get = "progress"
       THEN form' = [form EXCEPT !.get = "none", !.deploying = TRUE] /\ OpenStream
       ELSE form' = [form EXCEPT !.get = "none"] /\ UNCHANGED <<stream, gaps>>
    /\ UNCHANGED <<dep, pipeline, saying, entries, list, loads>>

GetFails ==
    /\ form.get # "none"
    /\ form' = [form EXCEPT !.get = "none"]
    /\ UNCHANGED <<dep, pipeline, saying, entries, stream, list, loads, gaps>>

\* socket.onmessage of a final event, and onDeploymentComplete
Receive(event) ==
    /\ event \in stream.pipe
    /\ stream' = [stream EXCEPT !.pipe = @ \ {event}]
    /\ form' = [form EXCEPT !.deploying = FALSE]
    /\ loads' = loads \cup {"unread"}
    /\ UNCHANGED <<dep, pipeline, saying, entries, list, gaps>>

\* loadDeployments: of the page, its Refresh and Cancel buttons, and every 5 s while the list has a
\* deployment in progress
LoadList ==
    /\ Cardinality(loads) < MaxLoads
    /\ loads' = loads \cup {"unread"}
    /\ UNCHANGED <<dep, pipeline, saying, entries, stream, form, list, gaps>>

ReadList ==
    /\ "unread" \in loads
    /\ loads' = (loads \ {"unread"}) \cup {IF dep = "progress" THEN "active" ELSE "idle"}
    /\ UNCHANGED <<dep, pipeline, saying, entries, stream, form, list, gaps>>

\* Answers overtake one another; one that makes the form ask waits for the form's last GET (a bound).
Loaded(got) ==
    /\ got \in loads /\ (Turns(got = "active") => form.get = "none")
    /\ Show(got = "active")
    /\ loads' = loads \ {got}
    /\ UNCHANGED <<dep, pipeline, saying, entries, stream, gaps>>

\* Only a load that is not silent empties the list.
LoadFails ==
    /\ "unread" \in loads
    /\ \E shown \in {list, FALSE} : Show(shown)
    /\ loads' = loads \ {"unread"}
    /\ UNCHANGED <<dep, pipeline, saying, entries, stream, gaps>>

-----------------------------------------------------------------------------
WatchNext ==
    \/ PopItem \/ AssertGoesOn \/ SetProgress \/ GoLive \/ FailRun \/ CancelListed
    \/ \E s \in Sayers : Persist(s) \/ Publish(s) \/ PublishThrows(s)
    \/ Replay \/ Subscribe \/ Drop
    \/ Mount \/ Unmount \/ Submit \/ AcceptPost \/ PostAnswered \/ PostFails
    \/ ReadActive \/ Reconnect \/ GetFails
    \/ \E event \in Finals : Receive(event)
    \/ LoadList \/ ReadList \/ LoadFails
    \/ \E got \in {"active", "idle"} : Loaded(got)

WatchSpec == WatchInit /\ [][WatchNext]_watchVars

\* A form does not wait for a deployment whose end has been told: the end is in the replay to come or
\* on its way, or the form asks for the deployment; else the socket broke (dropped), the end was
\* published between the replay and the subscription (between), its entry could not be written
\* (unlogged), it was not published (untold), or it is a cancellation, whose entry the form does not
\* know for an end (canceled).
\* (deployment-events.ts replays before it subscribes; publishEvent writes before it publishes.)
WaitEnds ==
    /\ form.deploying /\ ~form.post /\ form.get = "none"
    /\ dep \in Finals /\ pipeline = "none" /\ \A s \in Sayers : saying[s] = Silent
    => stream.at = "history" \/ stream.pipe # {} \/ gaps # {}

=============================================================================
