---------------------------- MODULE DevContainers ----------------------------
(***************************************************************************)
(* The development container of one project: dev-containers/routes.ts makes *)
(* it under a fixed name, with volumes that outlive it, and keeps a row for *)
(* every container it has made; the routes of files, the terminal and the   *)
(* agent work in the container that the newest running row names.  The      *)
(* docker commands of two requests interleave, and their failures are       *)
(* swallowed or end the request.                                            *)
(***************************************************************************)
EXTENDS Naturals, Sequences

CONSTANTS
    DevRequests,    \* requests served at once
    MaxMade,        \* bound: containers ever made
    NoDevRow

DevRow == [id : Nat, status : {"running", "stopped"}]
ASSUME NoDevRowAssumption == NoDevRow \notin DevRow

VARIABLES
    devRows,    \* rows of containerType development, oldest first: the container's id, the status
    made,       \* docker run: ids handed out so far
    named,      \* the container that has the name: its id, 0 for none, and whether it runs
    volume,     \* what the project's volume holds: "none", "empty" or "files"
    asking,     \* the requests: what they do next, the row or the container they work with
    upset       \* ghost: a row may be wrong, as requests overlapped or docker failed

devVars == <<devRows, made, named, volume, asking, upset>>

NoContainer == [id |-> 0, runs |-> FALSE]
NoAsking == [does |-> "nothing", at |-> "none", id |-> 0, wipe |-> FALSE, alone |-> TRUE]

DevInit ==
    /\ devRows = <<>> /\ made = 0
    /\ named = NoContainer /\ volume = "none"
    /\ asking = [q \in DevRequests |-> NoAsking]
    /\ upset = FALSE

\* findFirst by createdAt, newest first
Newest == IF devRows = <<>> THEN NoDevRow ELSE devRows[Len(devRows)]

RowsWithout(i) == [j \in 1..(Len(devRows) - 1) |-> devRows[IF j < i THEN j ELSE j + 1]]

DevGoes(q, at) == asking' = [asking EXCEPT ![q].at = at]
DevEnds(q) == asking' = [asking EXCEPT ![q] = NoAsking]

\* A request begins; beside another, neither is alone.
DevBegins(q, request) ==
    LET others == {other \in DevRequests : asking[other] # NoAsking} IN
    /\ asking[q] = NoAsking
    /\ asking' = [other \in DevRequests |->
           IF other = q THEN [request EXCEPT !.alone = others = {}]
           ELSE IF other \in others THEN [asking[other] EXCEPT !.alone = FALSE]
           ELSE asking[other]]
    /\ upset' = (upset \/ others # {})
    /\ UNCHANGED <<devRows, made, named, volume>>

-----------------------------------------------------------------------------
(* POST .../dev-container *)

\* Only a newest row that is running (or starting, or sleeping, which no route writes) is in the way.
AskCreate(q) ==
    /\ Newest # NoDevRow => Newest.status = "stopped"
    /\ DevBegins(q, [NoAsking EXCEPT !.does = "create", !.at = "remove"])

\* docker rm -f || true
RemoveStale(q) ==
    /\ asking[q].at = "remove"
    /\ named' \in {NoContainer, named}
    /\ DevGoes(q, "volume")
    /\ UNCHANGED upset
    /\ UNCHANGED <<devRows, made, volume>>

CreateVolume(q) ==
    /\ asking[q].at = "volume"
    /\ volume' = IF volume = "none" THEN "empty" ELSE volume
    /\ DevGoes(q, "run")
    /\ UNCHANGED <<devRows, made, named, upset>>

\* docker run --name: refused when the name is taken
RunContainer(q) ==
    /\ asking[q].at = "run" /\ named = NoContainer /\ made < MaxMade
    /\ made' = made + 1
    /\ named' = [id |-> made + 1, runs |-> TRUE]
    /\ asking' = [asking EXCEPT ![q].at = "clone", ![q].id = made + 1]
    /\ UNCHANGED <<devRows, volume, upset>>

\* git clone, into an empty directory only; its failure is of no account.
CloneRepo(q) ==
    /\ asking[q].at = "clone"
    /\ volume' = IF volume = "empty" /\ named = [id |-> asking[q].id, runs |-> TRUE] THEN "files" ELSE volume
    /\ DevGoes(q, "row")
    /\ UNCHANGED <<devRows, made, named, upset>>

CloneFails(q) ==
    /\ asking[q].at = "clone"
    /\ DevGoes(q, "row")
    /\ UNCHANGED <<devRows, made, named, volume, upset>>

CreateDevRow(q) ==
    /\ asking[q].at = "row"
    /\ devRows' = Append(devRows, [id |-> asking[q].id, status |-> "running"])
    /\ DevEnds(q)
    /\ upset' = (upset /\ (~asking[q].alone \/ \E i \in DOMAIN devRows : devRows[i].status = "running"))
    /\ UNCHANGED <<made, named, volume>>

-----------------------------------------------------------------------------
(* POST .../start, POST .../stop, DELETE *)

AskRow(q, does, wipe) ==
    /\ Newest # NoDevRow
    /\ DevBegins(q, [does |-> does, at |-> "docker", id |-> Newest.id, wipe |-> wipe, alone |-> TRUE])

AskStart(q) == AskRow(q, "start", FALSE)
AskStop(q) == AskRow(q, "stop", FALSE)
AskDelete(q) == \E wipe \in BOOLEAN : AskRow(q, "delete", wipe)

\* docker start or stop by the id of the row, errors swallowed
DockerCommand(q) ==
    /\ asking[q].at = "docker" /\ asking[q].does \in {"start", "stop"}
    /\ \/ /\ named.id = asking[q].id
          /\ named' = [named EXCEPT !.runs = asking[q].does = "start"]
          /\ UNCHANGED upset
       \/ named' = named /\ upset' = TRUE
    /\ DevGoes(q, "update")
    /\ UNCHANGED <<devRows, made, volume>>

\* Prisma's update throws when the row is gone.
UpdateDevRow(q) ==
    /\ asking[q].at = "update"
    /\ devRows' = [i \in DOMAIN devRows |->
           IF devRows[i].id = asking[q].id
           THEN [devRows[i] EXCEPT !.status = IF asking[q].does = "start" THEN "running" ELSE "stopped"]
           ELSE devRows[i]]
    /\ DevEnds(q)
    /\ UNCHANGED <<made, named, volume, upset>>

\* docker rm -f by the name, whatever container has it
RemoveNamed(q) ==
    /\ asking[q].at = "docker" /\ asking[q].does = "delete"
    /\ \/ named' = NoContainer /\ UNCHANGED upset
       \/ named' = named /\ upset' = TRUE
    /\ DevGoes(q, "wipe")
    /\ UNCHANGED <<devRows, made, volume>>

\* docker volume rm, refused while a container has the volume; then the row
DeleteDevRow(q) ==
    /\ asking[q].at = "wipe"
    /\ volume' = IF asking[q].wipe /\ named = NoContainer THEN "none" ELSE volume
    /\ \/ \E i \in DOMAIN devRows : devRows[i].id = asking[q].id /\ devRows' = RowsWithout(i)
       \/ (\A i \in DOMAIN devRows : devRows[i].id # asking[q].id) /\ UNCHANGED devRows
    /\ DevEnds(q)
    /\ UNCHANGED <<made, named, upset>>

\* A command or the database throws, or the process dies.
RequestDies(q) ==
    /\ asking[q] # NoAsking
    /\ DevEnds(q) /\ upset' = TRUE
    /\ UNCHANGED <<devRows, made, named, volume>>

-----------------------------------------------------------------------------
DevNext ==
    \E q \in DevRequests :
        \/ AskCreate(q) \/ RemoveStale(q) \/ CreateVolume(q) \/ RunContainer(q)
        \/ CloneRepo(q) \/ CloneFails(q) \/ CreateDevRow(q)
        \/ AskStart(q) \/ AskStop(q) \/ AskDelete(q)
        \/ DockerCommand(q) \/ UpdateDevRow(q) \/ RemoveNamed(q) \/ DeleteDevRow(q)
        \/ RequestDies(q)

DevSpec == DevInit /\ [][DevNext]_devVars

-----------------------------------------------------------------------------
\* While no request is served, the newest row tells the truth of the container the editor works in:
\* running, it is the one that has the name, and it runs; stopped, no container runs.  Once requests
\* have overlapped or docker has failed this is so again after a create that was let run, unless one
\* of the older rows still says running: deleting the new row would bring that one back.
RowIsContainer ==
    upset \/ (\E q \in DevRequests : asking[q] # NoAsking)
    \/ IF devRows = <<>> \/ devRows[Len(devRows)].status = "stopped"
       THEN ~named.runs
       ELSE named = [id |-> devRows[Len(devRows)].id, runs |-> TRUE]

=============================================================================
