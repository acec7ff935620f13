------------------------------ MODULE Databases ------------------------------
(***************************************************************************)
(* Provisioning a managed PostgreSQL database at the provider (Neon).  A    *)
(* request creates a provider project of its own, then a role, a database,  *)
(* a password and an endpoint in it.  The provider answers a mutation       *)
(* before the work is done and gives the ids of operations to wait for; it  *)
(* refuses a mutation while an operation is running, and a role it has made *)
(* may not be visible at once.  When all is done a row with status ready is *)
(* written.  Requests share nothing but the provider, so one is modelled.   *)
(***************************************************************************)
EXTENDS Naturals

CONSTANTS
    RoleRetries,        \* ROLE_PROPAGATION_RETRY_DELAYS_MS.length
    WaitRetries,        \* NEON_OPERATION_WAIT_MAX_ATTEMPTS
    MaxBackground       \* bound: operations the provider starts by itself

VARIABLES
    neon,       \* what the provider's project of the request holds
    ops,        \* the last operation of each kind in that project
    request,    \* the request
    database    \* the ManagedDatabase row it writes, with the password of the URL

databaseVars == <<neon, ops, request, database>>

ASSUME DatabaseAssumption == RoleRetries \in Nat /\ WaitRetries \in Nat /\ MaxBackground \in Nat

Mutations == {"role", "database", "password", "endpoint"}
Kinds == Mutations \cup {"project", "background"}
Pending == {k \in Kinds : ops[k] = "running"}       \* isPendingNeonOperationStatus

\* at: what the request waits for next; for: the function it is in; does: the mutation that
\* function has under way, which is "role" inside ensureDatabaseOnBranch and resetRolePassword
\* too; tries, polls, looks, rounds: the attempt counters of the nested loops; misread (a ghost):
\* an error of the database's creation was taken for a database that is there.
DatabasesInit ==
    /\ neon = [role |-> "absent", database |-> FALSE, password |-> 0, endpoint |-> FALSE, background |-> 0]
    /\ ops = [k \in Kinds |-> "none"]
    /\ request = [at |-> "idle", custom |-> FALSE, for |-> "project", does |-> "project", tries |-> 0,
                  polls |-> 0, looks |-> 0, rounds |-> 0, password |-> 0, misread |-> FALSE]
    /\ database = [status |-> "none", password |-> 0]

To(at) == request' = [request EXCEPT !.at = at]
Fail == To("done") /\ UNCHANGED <<neon, ops, database>>

\* The next call of provisionNeonManagedDatabase.
Begun(m) ==
    [request EXCEPT !.at = IF m = "endpoint" THEN "list" ELSE "post", !.for = m,
                    !.does = m, !.tries = 0, !.polls = 0, !.looks = 0, !.rounds = 0]
Begin(m) == request' = Begun(m)

-----------------------------------------------------------------------------
(* The provider *)

\* What a mutation leaves when it is done; a new role need not be visible yet.
Effect(k) ==
    neon' = CASE k = "role" -> [neon EXCEPT !.role = "made"]
              [] k = "database" -> [neon EXCEPT !.database = TRUE]
              [] k = "password" -> [neon EXCEPT !.password = request.password]
              [] k = "endpoint" -> [neon EXCEPT !.endpoint = TRUE]
              [] OTHER -> neon

Finish(k) ==
    /\ ops[k] = "running"
    /\ \/ ops' = [ops EXCEPT ![k] = "finished"] /\ Effect(k)
       \/ ops' = [ops EXCEPT ![k] = "failed"] /\ UNCHANGED neon
    /\ UNCHANGED <<request, database>>

RoleVisible ==
    /\ neon.role = "made"
    /\ neon' = [neon EXCEPT !.role = "visible"]
    /\ UNCHANGED <<ops, request, database>>

\* Compute starts, suspends and checks are operations nobody asked for.
StartBackground ==
    /\ request.at # "idle" /\ neon.background < MaxBackground /\ Pending = {}
    /\ neon' = [neon EXCEPT !.background = @ + 1]
    /\ ops' = [ops EXCEPT !["background"] = "running"]
    /\ UNCHANGED <<request, database>>

ProviderStep == RoleVisible \/ StartBackground \/ \E k \in Kinds : Finish(k)

-----------------------------------------------------------------------------
(* createNeonProject *)

\* custom: a role name was asked for; without one the provider's default role owns the database.
Ask(custom) ==
    /\ request.at = "idle"
    /\ request' = [request EXCEPT !.at = "primary", !.custom = custom]
    /\ UNCHANGED <<neon, ops, database>>

\* The provider may leave out of the project what it does not know of in the body.
CreateProject ==
    /\ request.at \in {"primary", "fallback"}
    /\ \E role \in {"absent", "visible"}, made, endpoint \in BOOLEAN :
          /\ made \/ ~request.custom => role = "visible"
          /\ neon' = [neon EXCEPT !.role = role, !.database = made, !.endpoint = endpoint]
    /\ ops' = [ops EXCEPT !["project"] = "running"]
    /\ To("poll")
    /\ UNCHANGED database

ProjectRefused ==
    \/ request.at = "primary" /\ To("fallback") /\ UNCHANGED <<neon, ops, database>>
    \/ request.at = "fallback" /\ Fail

-----------------------------------------------------------------------------
(* runNeonProjectMutationWithRetries and waitForNeonProjectToBeIdle *)

MutationBusy ==
    /\ request.at = "post" /\ Pending # {}
    /\ \/ request.tries >= WaitRetries /\ Fail
       \/ /\ request.tries < WaitRetries
          /\ request' = [request EXCEPT !.at = "quiet", !.polls = 0]
          /\ UNCHANGED <<neon, ops, database>>

AfterQuiet ==
    IF request.does = "project"
    THEN Begin(IF request.custom THEN "role" ELSE "database")
    ELSE request' = [request EXCEPT !.at = "post", !.tries = @ + 1]

PollAgainMutant == request' = [request EXCEPT !.polls = @ + 1]
\* One attempt more, or the end of the loop: an operation still running, or a poll that failed.
PollAgain ==
    request' = IF request.polls >= WaitRetries
               THEN [request EXCEPT !.at = "done"]
               ELSE [request EXCEPT !.polls = @ + 1]

WaitIdle ==
    /\ request.at = "quiet"
    /\ (Pending = {} /\ AfterQuiet) \/ PollAgain
    /\ UNCHANGED <<neon, ops, database>>

-----------------------------------------------------------------------------
(* The mutations, and waitForNeonOperations *)

EnsureRole ==
    request' = [request EXCEPT !.at = "post", !.does = "role", !.tries = 0, !.polls = 0, !.looks = 0,
                               !.rounds = @ + 1]

\* isNeonRoleMissingError in the loops of ensureDatabaseOnBranch and resetRolePassword
RoleMissing ==
    /\ \/ /\ request.rounds < RoleRetries /\ (request.custom \/ request.does = "password")
          /\ EnsureRole
       \/ /\ request.rounds >= RoleRetries \/ (~request.custom /\ request.does = "database")
          /\ To("done")
    /\ UNCHANGED <<neon, ops, database>>

\* What follows when the mutation under way has been carried out.
Onward ==
    CASE request.does = "role" -> [request EXCEPT !.at = "look", !.looks = 0]
      [] request.does = "database" -> Begun("password")
      [] request.does = "password" -> Begun("endpoint")
      [] request.does = "endpoint" -> [request EXCEPT !.at = "relist"]
      [] OTHER -> [request EXCEPT !.at = "quiet", !.polls = 0]
Proceed == request' = Onward

\* isNeonAlreadyExistsError goes by the text of an error: whatever says "already exists",
\* "duplicate key" or "conflict" counts as the object being there.
TakenForExisting ==
    /\ request.does \in {"role", "database"}
    /\ request' = [Onward EXCEPT !.misread = @ \/ (request.does = "database" /\ ~neon.database)]

Present(m) ==
    CASE m = "role" -> neon.role # "absent"
      [] m = "database" -> neon.database
      [] OTHER -> FALSE

Post ==
    /\ request.at = "post" /\ Pending = {} /\ ~Present(request.does)
    /\ request.does \in {"database", "password"} => neon.role = "visible"
    /\ request' = [request EXCEPT !.at = "poll", !.polls = 0,
                                  !.password = IF request.does = "password" THEN @ + 1 ELSE @]
    /\ ops' = [ops EXCEPT ![request.does] = "running"]
    /\ UNCHANGED <<neon, database>>

\* The object is there, or the refusal reads as if it were.
AlreadyExists ==
    /\ request.at = "post" /\ Pending = {}
    /\ TakenForExisting
    /\ UNCHANGED <<neon, ops, database>>

PostRoleMissing ==
    /\ request.at = "post" /\ Pending = {} /\ request.does \in {"database", "password"}
    /\ neon.role # "visible"
    /\ RoleMissing

\* Any other error of a request leaves the function that made it, and so the provisioning.
RequestFails ==
    /\ request.at \in {"post", "list", "relist", "commit"}
    /\ Fail

AwaitedMutant == TRUE
\* The operations waited for are those of the mutation under way.
Awaited == ops[request.does] = "finished"

Poll ==
    /\ request.at = "poll"
    /\ (Awaited /\ Proceed) \/ PollAgain
    /\ UNCHANGED <<neon, ops, database>>

\* A failed operation throws with the provider's message, which may read as a role that is
\* missing or as an object that is there already.
PollFailed ==
    /\ request.at = "poll" /\ ops[request.does] = "failed"
    /\ \/ Fail
       \/ request.does \in {"database", "password"} /\ RoleMissing
       \/ TakenForExisting /\ UNCHANGED <<neon, ops, database>>

\* waitForRoleOnBranch: a list that cannot be read counts as the role being there; running out
\* of attempts throws from the catch block, past the caller's loop.
Look ==
    /\ request.at = "look"
    /\ \/ /\ \/ request.for = "role" /\ Begin("database")
             \/ /\ request.for # "role"
                /\ request' = [request EXCEPT !.at = "post", !.does = request.for, !.tries = 0]
       \/ /\ neon.role # "visible"
          /\ request' = IF request.looks >= RoleRetries
                        THEN [request EXCEPT !.at = "done"]
                        ELSE [request EXCEPT !.looks = @ + 1]
    /\ UNCHANGED <<neon, ops, database>>

-----------------------------------------------------------------------------
(* resolveEndpointInfo, the connection URI and the row *)

ListEndpoints ==
    /\ request.at \in {"list", "relist"}
    /\ \/ neon.endpoint /\ To("uri")
       \/ ~neon.endpoint /\ request.at = "list" /\ To("post")
    /\ UNCHANGED <<neon, ops, database>>

\* The URI names the role's password of now; when there is none the URL is put together from
\* the password of the reset.
ResolveUri ==
    /\ request.at = "uri"
    /\ \E uri \in BOOLEAN :
          request' = [request EXCEPT !.at = "commit",
                                     !.password = IF uri THEN neon.password ELSE @]
    /\ UNCHANGED <<neon, ops, database>>

CreateRow ==
    /\ request.at = "commit"
    /\ database' = [status |-> "ready", password |-> request.password]
    /\ To("done")
    /\ UNCHANGED <<neon, ops>>

-----------------------------------------------------------------------------
RequestStep ==
    \/ CreateProject \/ ProjectRefused
    \/ MutationBusy \/ WaitIdle
    \/ Post \/ AlreadyExists \/ PostRoleMissing \/ RequestFails \/ Poll \/ PollFailed \/ Look
    \/ ListEndpoints \/ ResolveUri \/ CreateRow

DatabasesNext == ProviderStep \/ RequestStep \/ \E custom \in BOOLEAN : Ask(custom)

DatabasesSpec == DatabasesInit /\ [][DatabasesNext]_databaseVars

\* A database that is recorded as ready can be used with the URL that was recorded: its role and
\* an endpoint are there, the role's password is the one in the URL, and no operation of the
\* provisioning is still running or has failed unnoticed, although an error that reads as an
\* object that is there passes for one (routes.ts 604-619, 815-819, 864-867): a role taken for
\* made is asked for again before it is used.  Only the database itself may be missing, and only
\* when an error of its own creation was misread.  The nested retries and waits (routes.ts
\* 261-382, 783-939) are what this rests on.
ReadyIsUsable ==
    database.status = "ready" =>
        /\ neon.role = "visible" /\ neon.endpoint
        /\ database.password = neon.password
        /\ neon.database \/ request.misread
        /\ \A m \in Mutations : ops[m] # "running"
        /\ \A m \in Mutations : ops[m] = "failed" => m = "database" /\ request.misread

\* How far the request is from its end: the function it is in, the retries left of that function,
\* whether it is inside the nested ensureRoleOnBranch, the retries left of the mutation, the step,
\* and the attempts left of the loop that step is.
Left ==
    LET Stage == [project |-> 5, role |-> 4, database |-> 3, password |-> 2, endpoint |-> 1]
        Step == [idle |-> 8, primary |-> 7, fallback |-> 6, list |-> 5, post |-> 4, poll |-> 3,
                 relist |-> 2, quiet |-> 2, look |-> 2, uri |-> 1, commit |-> 0]
    IN  IF request.at = "done" THEN <<0, 0, 0, 0, 0, 0>>
        ELSE <<Stage[request.for], RoleRetries - request.rounds,
               IF request.does = request.for THEN 0 ELSE 1, WaitRetries - request.tries,
               Step[request.at],
               IF request.at = "look" THEN RoleRetries - request.looks ELSE WaitRetries - request.polls>>

Below(s, t) == \E i \in 1..6 : s[i] < t[i] /\ \A j \in 1..(i - 1) : s[j] = t[j]

\* The loops nested in one another come to an end, even when an operation of the provider never
\* does: every step of a request but those of the provider brings it nearer to its answer.
AttemptsRunOut ==
    [][RequestStep => Below(Left', Left) /\ \A i \in 1..6 : Left[i]' >= 0]_databaseVars

=============================================================================
