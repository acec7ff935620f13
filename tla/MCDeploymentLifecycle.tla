----------------------- MODULE MCDeploymentLifecycle -----------------------
(***************************************************************************)
(* The deployments, projects, servers and requests of the runs of          *)
(* DeploymentLifecycle.                                                    *)
(***************************************************************************)
EXTENDS DeploymentLifecycle, TLC

CONSTANTS p1, d1, k1

\* Every deployment belongs to p1.
SameProject == [d \in Deployment |-> p1]

NoKeys == [d \in Deployment |-> NoKey]

\* Every request carries the same Idempotency-Key.
SameKey == [d \in Deployment |-> k1]

\* d1 carries no key, the other requests the same one.
FirstWithout == [d \in Deployment |-> IF d = d1 THEN NoKey ELSE k1]

\* Every project takes one unit; a server has room for two projects, or one.
UnitNeed == [p \in Project |-> 1]
RoomForTwo == [s \in Server |-> 2]
RoomForOne == [s \in Server |-> 1]

FirstIsPreview == {d1}
NoPreview == {}

\* Workers are interchangeable, requests that carry no key, and those that carry the same.
Requests == Permutations(Deployment)
RequestsAndWorkers == Requests \cup Permutations(Worker)
RequestsWithKey == Permutations(Deployment \ {d1})
=============================================================================
