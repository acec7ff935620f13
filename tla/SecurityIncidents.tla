-------------------------- MODULE SecurityIncidents --------------------------
(***************************************************************************)
(* Incidents about a container: the engine's recovery loop stops it and     *)
(* records an incident or opens a recent one of the same reason again;      *)
(* members of the organization appeal against incidents; an admin's         *)
(* unblock closes the incident, approves its appeals and wakes the          *)
(* container.  Each reads the incident first and writes it by id later.     *)
(* The loop starts a stopped active container whatever stopped it.          *)
(***************************************************************************)
EXTENDS Naturals

CONSTANTS
    Reasons,            \* reason codes: policy not enforceable, suspicious outbound traffic
    Members,            \* users who may see the incidents
    Appealing,          \* appeal requests served at once
    Admins,             \* unblock requests served at once
    MaxIncidents        \* bound: incidents ever recorded

VARIABLES
    incidents,      \* securityIncident by id: reason, status, blocked, and whether it was detected
                    \*   within the dedupe window
    submitted,      \* pending appeals of each member on each incident
    container,      \* "running" or "stopped"
    recorder,       \* the recovery loop's call of recordAutoBlockedIncident
    appealing,      \* appeal requests
    admins,         \* unblock requests
    crossed         \* ghost: incidents closed while an appeal against them was being made

securityVars == <<incidents, submitted, container, recorder, appealing, admins, crossed>>

ASSUME SecurityAssumption == MaxIncidents \in Nat

IncidentIds == 1..MaxIncidents
Unrecorded == [reason |-> "none", status |-> "none", blocked |-> FALSE, recent |-> FALSE]
NotRecording == [at |-> "none", reason |-> "none", incident |-> 0]
NoAppeal == [at |-> "none", member |-> "none", incident |-> 0, open |-> FALSE]

SecurityInit ==
    /\ incidents = [i \in IncidentIds |-> Unrecorded]
    /\ submitted = [a \in Members \X IncidentIds |-> 0]
    /\ container = "running"
    /\ recorder = NotRecording
    /\ appealing = [r \in Appealing |-> NoAppeal]
    /\ admins = [a \in Admins |-> 0]
    /\ crossed = {}

-----------------------------------------------------------------------------
(* The recovery loop, and recordAutoBlockedIncident *)

\* The policy can fail on any container, traffic is looked at while it runs; docker stop may throw.
BlockContainer(reason) ==
    /\ recorder = NotRecording
    /\ reason = "outbound" => container = "running"
    /\ container' \in {container, "stopped"}
    /\ recorder' = [at |-> "find", reason |-> reason, incident |-> 0]
    /\ UNCHANGED <<incidents, submitted, appealing, admins, crossed>>

\* Whatever stopped the active container, a later cycle starts it.
RestartContainer ==
    /\ recorder = NotRecording /\ container = "stopped"
    /\ container' = "running"
    /\ UNCHANGED <<incidents, submitted, recorder, appealing, admins, crossed>>

Existing == {i \in IncidentIds : incidents[i].reason = recorder.reason /\ incidents[i].blocked
                                  /\ incidents[i].recent /\ incidents[i].status \in {"open", "appealed"}}

FindExisting ==
    /\ recorder.at = "find"
    /\ \/ \E i \in Existing :
            /\ \A j \in Existing : j <= i
            /\ recorder' = [recorder EXCEPT !.at = "update", !.incident = i]
       \/ Existing = {} /\ recorder' = [recorder EXCEPT !.at = "create"]
    /\ UNCHANGED <<incidents, submitted, container, appealing, admins, crossed>>

OpenAgain ==
    /\ recorder.at = "update"
    /\ incidents' = [incidents EXCEPT ![recorder.incident].blocked = TRUE,
                                      ![recorder.incident].status = "open"]
    /\ recorder' = NotRecording
    /\ UNCHANGED <<submitted, container, appealing, admins, crossed>>

NewIncident ==
    /\ recorder.at = "create"
    /\ \E i \in IncidentIds :
          /\ \A j \in IncidentIds : (incidents[j] = Unrecorded) <=> (j >= i)
          /\ incidents' = [incidents EXCEPT ![i] =
                 [reason |-> recorder.reason, status |-> "open", blocked |-> TRUE, recent |-> TRUE]]
    /\ recorder' = NotRecording
    /\ UNCHANGED <<submitted, container, appealing, admins, crossed>>

\* The errors of the recorder are caught; the container stays as it is.
RecordFails ==
    /\ recorder # NotRecording
    /\ recorder' = NotRecording
    /\ UNCHANGED <<incidents, submitted, container, appealing, admins, crossed>>

\* Half an hour after it was detected; opening it again does not make it recent.
WindowPasses(i) ==
    /\ incidents[i].recent
    /\ incidents' = [incidents EXCEPT ![i].recent = FALSE]
    /\ UNCHANGED <<submitted, container, recorder, appealing, admins, crossed>>

-----------------------------------------------------------------------------
(* POST /security/incidents/:incidentId/appeals *)

AppealGo(r, at) == appealing' = [appealing EXCEPT ![r].at = at]
EndAppeal(r) == appealing' = [appealing EXCEPT ![r] = NoAppeal]

ReadIncident(r, m, i) ==
    /\ appealing[r] = NoAppeal
    /\ incidents[i].blocked /\ incidents[i].status # "resolved"
    /\ appealing' = [appealing EXCEPT ![r] =
           [at |-> "find", member |-> m, incident |-> i, open |-> incidents[i].status = "open"]]
    /\ UNCHANGED <<incidents, submitted, container, recorder, admins, crossed>>

FindAppeal(r) ==
    LET a == appealing[r] IN
    /\ a.at = "find"
    /\ IF submitted[<<a.member, a.incident>>] = 0 THEN AppealGo(r, "create") ELSE EndAppeal(r)
    /\ UNCHANGED <<incidents, submitted, container, recorder, admins, crossed>>

CreateAppeal(r) ==
    LET a == appealing[r] IN
    /\ a.at = "create"
    /\ submitted' = [submitted EXCEPT ![<<a.member, a.incident>>] = @ + 1]
    /\ IF a.open THEN AppealGo(r, "mark") ELSE EndAppeal(r)
    /\ UNCHANGED <<incidents, container, recorder, admins, crossed>>

MarkAppealed(r) ==
    /\ appealing[r].at = "mark"
    /\ incidents' = [incidents EXCEPT ![appealing[r].incident].status = "appealed"]
    /\ EndAppeal(r)
    /\ UNCHANGED <<submitted, container, recorder, admins, crossed>>

AppealFails(r) ==
    /\ appealing[r] # NoAppeal
    /\ EndAppeal(r)
    /\ UNCHANGED <<incidents, submitted, container, recorder, admins, crossed>>

-----------------------------------------------------------------------------
(* POST /security/incidents/:incidentId/unblock *)

ReadBlocked(a, i) ==
    /\ admins[a] = 0
    /\ incidents[i].blocked
    /\ admins' = [admins EXCEPT ![a] = i]
    /\ UNCHANGED <<incidents, submitted, container, recorder, appealing, crossed>>

DecidedMutant(i) == IF incidents[i].status = "appealed" THEN Members \X {i} ELSE {}
\* The pending appeals of the incident, whatever status the recorder and the appeals left it in.
Decided(i) == Members \X {i}

\* One transaction; the wake that follows starts the container.
Unblock(a) ==
    LET i == admins[a] IN
    /\ i # 0
    /\ incidents' = [incidents EXCEPT ![i].blocked = FALSE, ![i].status = "resolved"]
    /\ submitted' = [p \in DOMAIN submitted |-> IF p \in Decided(i) THEN 0 ELSE submitted[p]]
    /\ container' \in {container, "running"}
    /\ admins' = [admins EXCEPT ![a] = 0]
    /\ crossed' = IF \E r \in Appealing : appealing[r].incident = i THEN crossed \cup {i} ELSE crossed
    /\ UNCHANGED <<recorder, appealing>>

SecurityNext ==
    \/ \E reason \in Reasons : BlockContainer(reason)
    \/ RestartContainer \/ FindExisting \/ OpenAgain \/ NewIncident \/ RecordFails
    \/ \E i \in IncidentIds : WindowPasses(i)
    \/ \E r \in Appealing :
          \/ \E m \in Members, i \in IncidentIds : ReadIncident(r, m, i)
          \/ FindAppeal(r) \/ CreateAppeal(r) \/ MarkAppealed(r) \/ AppealFails(r)
    \/ \E a \in Admins : Unblock(a) \/ \E i \in IncidentIds : ReadBlocked(a, i)

SecuritySpec == SecurityInit /\ [][SecurityNext]_securityVars

\* An appeal waits only on an incident that is blocked, so that an unblock can decide it (the
\* unblock route answers before its transaction when the incident is not, routes.ts 471-479), and
\* an incident is closed when it is unblocked, however appeals, unblocks and the recorder's
\* reopening follow on one another.  Only an unblock beside an appeal being made breaks it.
AppealsAreDecided ==
    \A i \in IncidentIds \ crossed :
        /\ \A m \in Members : submitted[<<m, i>>] > 0 => incidents[i].blocked
        /\ incidents[i].blocked <=> incidents[i].status \in {"open", "appealed"}

=============================================================================
