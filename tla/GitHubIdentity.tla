--------------------------- MODULE GitHubIdentity ---------------------------
(***************************************************************************)
(* GitHub accounts and the users they belong to.  A user connects an       *)
(* account, or somebody signs in with one; the OAuth callback moves the    *)
(* connection to that user in one transaction, but finds the user of a     *)
(* sign-in, writes the account's id into the user's row and moves the      *)
(* connection in three.  The id in the user's row is not unique in the     *)
(* schema, and it outlives the connection.  The OAuth state is read and    *)
(* deleted, and the code exchanged, before a callback starts here.         *)
(***************************************************************************)
EXTENDS Naturals

CONSTANTS
    Users, GitHubs,
    UserOfEmail,        \* the user whose e-mail is the primary one of the account
    Callbacks,          \* OAuth callbacks served at once
    NoUser, NoGitHub

VARIABLES
    registered,     \* the users that exist
    connection,     \* gitHubConnection: the account each user is connected to
    subject,        \* User.oauthSubject
    callbacks,
    loose           \* ghost: accounts whose connection was deleted or replaced, or whose sign-in
                    \*   broke off between its writes

identityVars == <<registered, connection, subject, callbacks, loose>>

ASSUME GitHubAssumption ==
    /\ UserOfEmail \in [GitHubs -> Users]
    /\ NoUser \notin Users /\ NoGitHub \notin GitHubs

Waiting == [op |-> "none", github |-> NoGitHub, user |-> NoUser, linked |-> FALSE]

IdentityInit ==
    /\ registered \in SUBSET Users
    /\ connection = [u \in Users |-> NoGitHub]
    /\ subject = [u \in Users |-> NoGitHub]
    /\ callbacks = [c \in Callbacks |-> Waiting]
    /\ loose = {}

Answered(c) == callbacks' = [callbacks EXCEPT ![c] = Waiting]
InCallback(c, op) == callbacks[c].op = op

StartConnect(c, u, g) ==
    /\ InCallback(c, "none") /\ u \in registered
    /\ callbacks' = [callbacks EXCEPT ![c] = [Waiting EXCEPT !.op = "upsert", !.github = g, !.user = u]]
    /\ UNCHANGED <<registered, connection, subject, loose>>

StartLogin(c, g) ==
    /\ InCallback(c, "none")
    /\ callbacks' = [callbacks EXCEPT ![c] = [Waiting EXCEPT !.op = "resolve", !.github = g]]
    /\ UNCHANGED <<registered, connection, subject, loose>>

-----------------------------------------------------------------------------
(* upsertGitHubConnectionForUser: one transaction *)

ConnectedTo(g) == {v \in Users : connection[v] = g}

\* The account the user was connected to until now loses its connection.
Dropped(u, g) == {connection[u]} \ {g, NoGitHub}

UnlinkMutant(u, g) == UNCHANGED subject
\* The former owner of the account can no longer sign in with it.
Unlink(u, g) ==
    subject' = [v \in Users |-> IF v \in ConnectedTo(g) \ {u} /\ subject[v] = g
                                THEN NoGitHub ELSE subject[v]]

UpsertConnection(u, g) ==
    /\ connection' = [v \in Users |-> IF v = u THEN g
                                      ELSE IF connection[v] = g THEN NoGitHub
                                      ELSE connection[v]]
    /\ Unlink(u, g)
    /\ loose' = loose \cup Dropped(u, g)

FinishCallback(c) ==
    /\ InCallback(c, "upsert")
    /\ UpsertConnection(callbacks[c].user, callbacks[c].github)
    /\ Answered(c)
    /\ UNCHANGED registered

-----------------------------------------------------------------------------
(* resolveUserForGitHubLogin *)

\* The row that is read says whether the user is linked to this account already.
Found(c, u, op) ==
    callbacks' = [callbacks EXCEPT ![c].op = op, ![c].user = u,
                                   ![c].linked = (subject[u] = callbacks[c].github)]

ResolveUser(c) ==
    LET g == callbacks[c].github IN
    /\ InCallback(c, "resolve")
    /\ \/ \E u \in ConnectedTo(g) : Found(c, u, "link")
       \/ ConnectedTo(g) = {} /\ callbacks' = [callbacks EXCEPT ![c].op = "subject"]
    /\ UNCHANGED <<registered, connection, subject, loose>>

ResolveBySubject(c) ==
    LET linked == {u \in Users : subject[u] = callbacks[c].github} IN
    /\ InCallback(c, "subject")
    /\ \/ \E u \in linked : Found(c, u, "link")
       \/ linked = {} /\ callbacks' = [callbacks EXCEPT ![c].op = "email"]
    /\ UNCHANGED <<registered, connection, subject, loose>>

ResolveByEmail(c) ==
    LET g == callbacks[c].github
        u == UserOfEmail[g]
    IN
    /\ InCallback(c, "email")
    /\ \/ u \in registered /\ subject[u] \in {NoGitHub, g} /\ Found(c, u, "adopt")
       \/ u \in registered /\ subject[u] \notin {NoGitHub, g} /\ Answered(c)
       \/ u \notin registered /\ Found(c, u, "signup")
    /\ UNCHANGED <<registered, connection, subject, loose>>

\* The user is written by id, whatever it is linked to by now.
WriteSubject(c, op) ==
    /\ subject' = [subject EXCEPT ![callbacks[c].user] = callbacks[c].github]
    /\ callbacks' = [callbacks EXCEPT ![c].op = op]

AdoptUser(c) ==
    /\ InCallback(c, "adopt")
    /\ WriteSubject(c, "upsert")
    /\ UNCHANGED <<registered, connection, loose>>

\* The user, its workspace and its free subscription, unless the e-mail has been taken.
SignUp(c) ==
    /\ InCallback(c, "signup")
    /\ \/ /\ callbacks[c].user \notin registered
          /\ registered' = registered \cup {callbacks[c].user}
          /\ WriteSubject(c, "upsert")
       \/ /\ callbacks[c].user \in registered
          /\ Answered(c) /\ UNCHANGED <<registered, subject>>
    /\ UNCHANGED <<connection, loose>>

\* The row is written when it named another account when it was read, or lacked a picture, a
\* name or the verified mark.
LinkUser(c) ==
    /\ InCallback(c, "link")
    /\ \/ WriteSubject(c, "upsert")
       \/ callbacks[c].linked /\ callbacks' = [callbacks EXCEPT ![c].op = "upsert"] /\ UNCHANGED subject
    /\ UNCHANGED <<registered, connection, loose>>

\* A call fails; the user's row may have been written and the connection not.
CallbackFails(c) ==
    /\ ~InCallback(c, "none")
    /\ loose' = IF InCallback(c, "upsert") THEN loose \cup {callbacks[c].github} ELSE loose
    /\ Answered(c)
    /\ UNCHANGED <<registered, connection, subject>>

Disconnect(u) ==
    /\ connection[u] # NoGitHub
    /\ connection' = [connection EXCEPT ![u] = NoGitHub]
    /\ loose' = loose \cup {connection[u]}
    /\ UNCHANGED <<registered, subject, callbacks>>

CallbackStep(c) ==
    \/ ResolveUser(c) \/ ResolveBySubject(c) \/ ResolveByEmail(c)
    \/ AdoptUser(c) \/ SignUp(c) \/ LinkUser(c) \/ FinishCallback(c) \/ CallbackFails(c)

IdentityNext ==
    \/ \E c \in Callbacks :
          \/ \E g \in GitHubs : StartLogin(c, g) \/ \E u \in Users : StartConnect(c, u, g)
          \/ CallbackStep(c)
    \/ \E u \in Users : Disconnect(u)

IdentitySpec == IdentityInit /\ [][IdentityNext]_identityVars

\* Signing in with a GitHub account leads to one user.  While no callback is being served, two
\* users carry the same account's id only if its connection was once deleted or replaced, or a
\* sign-in broke off: moving the connection (github-routes.ts 691-720) takes the id along,
\* whatever sign-ins and connects overlap.
OneUserPerSubject ==
    (\A c \in Callbacks : InCallback(c, "none")) =>
        \A u, v \in Users : u # v /\ subject[u] = subject[v] /\ subject[u] # NoGitHub =>
            subject[u] \in loose

=============================================================================
