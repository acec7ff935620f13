------------------------------ MODULE Accounts ------------------------------
(***************************************************************************)
(* Signing up and logging in: a password with its counter of failures, a    *)
(* login challenge, the one-time code that completes it, the browser login  *)
(* that a command-line client waits for, and the OAuth round trip; beside   *)
(* the invitations that every completed login collects, and the code that   *)
(* confirms the deletion of a project.                                      *)
(***************************************************************************)
EXTENDS Invites

CONSTANTS
    Challenges,     \* identifiers of login challenges
    LoginLimit      \* LOGIN_ATTEMPT_LIMIT

VARIABLES
    challenges,     \* the user each live login challenge was issued to
    failures,       \* failed logins counted for each e-mail address
    window,         \* addresses whose counter has an expiry
    stuck,          \* ghost: addresses whose counter lost its expiry to a crash
    cli,            \* the command-line login: a challenge and its result
    oauth           \* the OAuth login: its state and the result to exchange

loginVars == <<challenges, failures, window, stuck>>
vars == <<codeVars, tasks, account, session, inviteVars, loginVars, cli, oauth>>

ASSUME LoginAssumption == LoginLimit \in Nat \ {0} /\ NoChallenge \notin Challenges

NoLogin == [open |-> FALSE, result |-> NoUser]

Init ==
    /\ CodeInit
    /\ tasks = [h \in Handlers |-> Idle]
    /\ InviteInit
    /\ challenges = [c \in Challenges |-> NoUser]
    /\ failures = [u \in Users |-> 0]
    /\ window = {}
    /\ stuck = {}
    /\ cli = NoLogin
    /\ oauth = NoLogin

-----------------------------------------------------------------------------
(* Signup, codes and login *)

\* A new account gets its code at once; one that was never verified, if no code
\* was sent a moment ago.
Signup(h, u) ==
    /\ account[u] # "verified"
    /\ account' = [account EXCEPT ![u] = "unverified"]
    /\ Start(h, Task(IF account[u] = "none" THEN "bypass" ELSE "reserve", u, "none", NoChallenge))
    /\ UNCHANGED <<codeVars, session, inviteVars, loginVars, cli, oauth>>

\* The counter is read before the password is looked at.
Login(h, u) ==
    /\ failures[u] < LoginLimit
    /\ Start(h, Task("password", u, "login", NoChallenge))
    /\ UNCHANGED <<codeVars, account, session, inviteVars, loginVars, cli, oauth>>

WrongPassword(h) ==
    /\ At(h, "password")
    /\ failures' = [failures EXCEPT ![Key(h)] = @ + 1]
    /\ IF failures'[Key(h)] = 1 THEN Go(h, "expire") ELSE Done(h)
    /\ UNCHANGED <<codeVars, account, session, inviteVars, challenges, window, stuck, cli, oauth>>

\* EXPIRE of the counter, which does nothing when the counter is gone.
SetWindow(h) ==
    /\ At(h, "expire")
    /\ window' = IF failures[Key(h)] > 0 THEN window \cup {Key(h)} ELSE window
    /\ stuck' = stuck \ window'
    /\ Done(h)
    /\ UNCHANGED <<codeVars, account, session, inviteVars, challenges, failures, cli, oauth>>

Held(c) == \E h \in Handlers : tasks[h].challenge = c

RightPassword(h, c) ==
    /\ At(h, "password")
    /\ account[Key(h)] # "none"
    /\ challenges[c] = NoUser /\ ~Held(c)
    /\ failures' = [failures EXCEPT ![Key(h)] = 0]
    /\ window' = window \ {Key(h)}
    /\ stuck' = stuck \ {Key(h)}
    /\ challenges' = [challenges EXCEPT ![c] = Key(h)]
    /\ tasks' = [tasks EXCEPT ![h].op = "reserve", ![h].challenge = c]
    /\ UNCHANGED <<codeVars, account, session, inviteVars, cli, oauth>>

WindowEnds(u) ==
    /\ u \in window
    /\ failures' = [failures EXCEPT ![u] = 0]
    /\ window' = window \ {u}
    /\ UNCHANGED <<codeVars, tasks, account, session, inviteVars, challenges, stuck, cli, oauth>>

Forget(c) == IF c = NoChallenge THEN challenges ELSE [challenges EXCEPT ![c] = NoUser]

\* The mail of the code failed: a login's challenge is withdrawn.
Refused(h) ==
    /\ At(h, "refuse")
    /\ challenges' = IF tasks[h].why = "login" THEN Forget(tasks[h].challenge) ELSE challenges
    /\ Done(h)
    /\ UNCHANGED <<codeVars, account, session, inviteVars, failures, window, stuck, cli, oauth>>

\* A verified user needs a login challenge, an unverified one may have one.
Entitled(u, c) == IF c = NoChallenge THEN account[u] = "unverified" ELSE challenges[c] = u

ResendCode(h, u, c) ==
    /\ Entitled(u, c)
    /\ Start(h, Task("reserve", u, "none", NoChallenge))
    /\ UNCHANGED <<codeVars, account, session, inviteVars, loginVars, cli, oauth>>

VerifyEmail(h, u, c) ==
    /\ Entitled(u, c)
    /\ Start(h, Task("check", u, "none", c))
    /\ UNCHANGED <<codeVars, account, session, inviteVars, loginVars, cli, oauth>>

VerifiedMutant(h) ==
    /\ At(h, "granted") /\ Key(h) \in Users
    /\ challenges' = Forget(tasks[h].challenge)
    /\ Go(h, "sync")
    /\ UNCHANGED <<codeVars, account, session, inviteVars, failures, window, stuck, cli, oauth>>

\* The code was right: the address is verified, then the challenge deleted.
Verified(h) ==
    /\ At(h, "granted") /\ Key(h) \in Users
    /\ account' = [account EXCEPT ![Key(h)] = "verified"]
    /\ challenges' = Forget(tasks[h].challenge)
    /\ Go(h, "sync")
    /\ UNCHANGED <<codeVars, session, inviteVars, failures, window, stuck, cli, oauth>>

ReadToSync(h) ==
    /\ At(h, "sync")
    /\ Read(h, "joining", Key(h), tasks[h].why)
    /\ UNCHANGED <<codeVars, account, session, inviteVars, loginVars, cli, oauth>>

\* Only then the token is issued, to the caller or, after OAuth, for an exchange.
\* A conflict fails the whole login: its code is used up.
SyncInvites(h) ==
    /\ At(h, "joining")
    /\ IF tasks[h].role # 0 /\ Conflict(h)
         THEN UNCHANGED <<member, invite, session, oauth>>
         ELSE /\ Synced(h)
              /\ IF tasks[h].why = "google"
                   THEN oauth' = [oauth EXCEPT !.result = Key(h)] /\ UNCHANGED session
                   ELSE session' = session \cup {Key(h)} /\ UNCHANGED oauth
    /\ Done(h)
    /\ UNCHANGED <<codeVars, account, lock, cycle, loginVars, cli>>

ChallengeExpires(c) ==
    /\ challenges[c] # NoUser
    /\ challenges' = Forget(c)
    /\ UNCHANGED <<codeVars, tasks, account, session, inviteVars, failures, window, stuck, cli, oauth>>

-----------------------------------------------------------------------------
(* Confirming a project's deletion *)

AskDeletionCode(h, d) ==
    /\ Start(h, Task("reserve", d, "none", NoChallenge))
    /\ UNCHANGED <<codeVars, account, session, inviteVars, loginVars, cli, oauth>>

ConfirmDeletion(h, d) ==
    /\ Start(h, Task("check", d, "none", NoChallenge))
    /\ UNCHANGED <<codeVars, account, session, inviteVars, loginVars, cli, oauth>>

DeletionGranted(h) ==
    /\ At(h, "granted") /\ Key(h) \in Deletions
    /\ Done(h)
    /\ UNCHANGED <<codeVars, account, session, inviteVars, loginVars, cli, oauth>>

-----------------------------------------------------------------------------
(* Command-line login *)

StartCli ==
    /\ cli = NoLogin
    /\ cli' = [cli EXCEPT !.open = TRUE]
    /\ UNCHANGED <<codeVars, tasks, account, session, inviteVars, loginVars, oauth>>

ApproveCli(h, u) ==
    /\ u \in session
    /\ cli.open
    /\ Start(h, Task("approve", u, "none", NoChallenge))
    /\ UNCHANGED <<codeVars, account, session, inviteVars, loginVars, cli, oauth>>

StoreCliResult(h) ==
    /\ At(h, "approve")
    /\ cli' = [cli EXCEPT !.result = Key(h)]
    /\ Done(h)
    /\ UNCHANGED <<codeVars, account, session, inviteVars, loginVars, oauth>>

PollCli(h) ==
    /\ cli.result # NoUser
    /\ Start(h, Task("poll", cli.result, "none", NoChallenge))
    /\ UNCHANGED <<codeVars, account, session, inviteVars, loginVars, cli, oauth>>

\* Two DELs after the GET: two polls may both have read the result.
TakeCliResult(h) ==
    /\ At(h, "poll")
    /\ cli' = NoLogin
    /\ Done(h)
    /\ UNCHANGED <<codeVars, account, session, inviteVars, loginVars, oauth>>

\* The result is stored for at least as long as the challenge has left.
CliExpires ==
    /\ \/ cli.open /\ cli' = [cli EXCEPT !.open = FALSE]
       \/ ~cli.open /\ cli.result # NoUser /\ cli' = NoLogin
    /\ UNCHANGED <<codeVars, tasks, account, session, inviteVars, loginVars, oauth>>

-----------------------------------------------------------------------------
(* OAuth *)

LoginUrl ==
    /\ ~oauth.open
    /\ oauth' = [oauth EXCEPT !.open = TRUE]
    /\ UNCHANGED <<codeVars, tasks, account, session, inviteVars, loginVars, cli>>

\* The state is read, then deleted, before the provider is asked who the user is.
Callback(h, u) ==
    /\ oauth.open
    /\ Start(h, Task("resolve", u, "google", NoChallenge))
    /\ oauth' = [oauth EXCEPT !.open = FALSE]
    /\ UNCHANGED <<codeVars, account, session, inviteVars, loginVars, cli>>

\* The user is found, linked or created, with a verified address in every case.
ResolveUser(h) ==
    /\ At(h, "resolve")
    /\ account' = [account EXCEPT ![Key(h)] = "verified"]
    /\ Go(h, "sync")
    /\ UNCHANGED <<codeVars, session, inviteVars, loginVars, cli, oauth>>

ReadExchange(h) ==
    /\ oauth.result # NoUser
    /\ Start(h, Task("exchange", oauth.result, "none", NoChallenge))
    /\ UNCHANGED <<codeVars, account, session, inviteVars, loginVars, cli, oauth>>

Exchange(h) ==
    /\ At(h, "exchange")
    /\ oauth' = [oauth EXCEPT !.result = NoUser]
    /\ session' = session \cup {Key(h)}
    /\ Done(h)
    /\ UNCHANGED <<codeVars, account, inviteVars, loginVars, cli>>

OAuthExpires ==
    /\ oauth # NoLogin
    /\ oauth' = NoLogin
    /\ UNCHANGED <<codeVars, tasks, account, session, inviteVars, loginVars, cli>>

-----------------------------------------------------------------------------
\* A command fails or the process restarts: the request ends where it is.
Dies(h) ==
    /\ ~Free(h)
    /\ Done(h)
    /\ Abandon(h)
    /\ stuck' = IF At(h, "expire") /\ failures[Key(h)] > 0 /\ Key(h) \notin window
                  THEN stuck \cup {Key(h)} ELSE stuck
    /\ UNCHANGED <<code, mailed, cooldown, attempts, account, session, inviteVars,
                   challenges, failures, window, cli, oauth>>

LoginStep(h) ==
    \/ \E u \in Users :
         \/ Signup(h, u) \/ Login(h, u)
         \/ \E c \in Challenges \cup {NoChallenge} : ResendCode(h, u, c) \/ VerifyEmail(h, u, c)
         \/ ApproveCli(h, u) \/ Callback(h, u)
    \/ WrongPassword(h) \/ SetWindow(h) \/ Refused(h)
    \/ \E c \in Challenges : RightPassword(h, c)
    \/ Verified(h) \/ ReadToSync(h) \/ SyncInvites(h)
    \/ \E d \in Deletions : AskDeletionCode(h, d) \/ ConfirmDeletion(h, d)
    \/ DeletionGranted(h)
    \/ StoreCliResult(h) \/ PollCli(h) \/ TakeCliResult(h)
    \/ ResolveUser(h) \/ ReadExchange(h) \/ Exchange(h)

Expiry ==
    \/ \E u \in Users : WindowEnds(u)
    \/ \E c \in Challenges : ChallengeExpires(c)
    \/ CliExpires \/ OAuthExpires

CodeActions ==
    /\ (\E h \in Handlers : CodeStep(h)) \/ (\E k \in Keys : CodeExpiry(k))
    /\ UNCHANGED <<account, session, inviteVars, loginVars, cli, oauth>>

InviteActions ==
    /\ (\E h \in Handlers : InviteStep(h)) \/ Maintenance
    /\ UNCHANGED <<loginVars, cli, oauth>>

Next ==
    \/ CodeActions
    \/ InviteActions
    \/ \E h \in Handlers : LoginStep(h) \/ Dies(h)
    \/ StartCli \/ LoginUrl
    \/ Expiry

Spec == Init /\ [][Next]_vars

-----------------------------------------------------------------------------
\* Every key, row and counter of the accounts and the invitations has the values
\* the code gives it.  Failures exceed their limit by no more than the requests at once,
\* reminders by no more than the maintenance cycles at once, which may be of one process.
AccountsTypeOK ==
    /\ code \in [Keys -> Handlers \cup {NoCode}]
    /\ mailed \subseteq Keys /\ cooldown \subseteq Keys /\ orphaned \subseteq Keys
    /\ attempts \in [Keys -> 0 .. MaxAttempts + Cardinality(Handlers) - 1]
    /\ DOMAIN tasks = Handlers
    /\ \A h \in Handlers : tasks[h].key \in Keys \cup {NoUser}
    /\ account \in [Users -> {"none", "unverified", "verified"}]
    /\ session \subseteq Users
    /\ member \in [Users -> Roles \cup {0}]
    /\ invite \in [Users -> {NoRow}
         \cup [role : Roles, accepted : BOOLEAN, revoked : BOOLEAN, expired : BOOLEAN,
               mail : MailStatus, reminders : 0 .. MaxReminders + Cardinality(Cycles) - 1]]
    /\ lock \in BOOLEAN
    /\ cycle \in [Cycles -> [of : Workers \cup {NoWorker}, stale : SUBSET Users, due : SUBSET Users]]
    /\ challenges \in [Challenges -> Users \cup {NoUser}]
    /\ failures \in [Users -> 0 .. LoginLimit + Cardinality(Handlers) - 1]
    /\ window \subseteq Users /\ stuck \subseteq Users
    /\ {cli, oauth} \subseteq [open : BOOLEAN, result : Users \cup {NoUser}]

\* Nobody holds a token before the address is verified, whichever of the code, the
\* challenge, the OAuth exchange and their concurrent copies it came from.
TokensAreVerified == \A u \in session : account[u] = "verified"

\* A counter of failed logins always goes away by itself: it has an expiry, or the
\* request that counted the first failure is about to set it, or died before.
LockoutEnds ==
    \A u \in Users : failures[u] > 0 =>
        \/ u \in window
        \/ u \in stuck
        \/ \E h \in Handlers : At(h, "expire") /\ Key(h) = u
=============================================================================
