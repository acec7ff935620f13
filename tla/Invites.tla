------------------------------- MODULE Invites -------------------------------
(***************************************************************************)
(* Invitations to one organization, one row per invited e-mail address, and *)
(* the memberships they turn into.  Administrators invite and resend, the   *)
(* invited accept, decline or simply log in, maintenance workers revoke     *)
(* what expired and send reminders, and the mail provider reports bounces.  *)
(* Transactions are read committed: what one read may be stale when it      *)
(* writes.                                                                  *)
(***************************************************************************)
EXTENDS OneTimeCode

CONSTANTS
    Workers,        \* control-plane processes that run invite maintenance
    Cycles,         \* the maintenance cycles that are under way at once
    NoWorker,       \* no process is held back by a cycle
    Roles,          \* ranks of the roles an invitation may give
    MaxReminders,   \* INVITE_MAX_REMINDERS
    NoRow           \* no row for an address

VARIABLES
    account,    \* each user: "none", "unverified" or "verified"
    session,    \* users who hold a token
    member,     \* rank of each user's role in the organization, 0 for none
    invite,     \* the row for each user's e-mail address
    lock,       \* the maintenance lock is taken
    cycle       \* what each cycle has still to do, and the process that runs no other

inviteVars == <<member, invite, lock, cycle>>

MailStatus == {"not_sent", "sent", "failed", "bounced", "complained"}
Rows == [role : Roles, accepted : BOOLEAN, revoked : BOOLEAN, expired : BOOLEAN,
         mail : MailStatus, reminders : Nat]

ASSUME InviteAssumption ==
    /\ Roles \subseteq Nat \ {0}
    /\ IsFiniteSet(Cycles)
    /\ NoWorker \notin Workers
    /\ MaxReminders \in Nat \ {0}
    /\ NoRow \notin Rows

Rest == [of |-> NoWorker, stale |-> {}, due |-> {}]

InviteInit ==
    /\ account = [u \in Users |-> "none"]
    /\ session = {}
    /\ member = [u \in Users |-> 0]
    /\ invite = [u \in Users |-> NoRow]
    /\ lock = FALSE
    /\ cycle = [c \in Cycles |-> Rest]

Exists(u) == invite[u] # NoRow
Open(r) == ~r.accepted /\ ~r.revoked
Pending(u) == Exists(u) /\ Open(invite[u]) /\ ~invite[u].expired

Accepted(u) == [invite EXCEPT ![u].accepted = TRUE, ![u].revoked = FALSE]

-----------------------------------------------------------------------------
(* Administrators *)

\* A user who exists becomes a member at once, with the role asked for.
InviteUser(h, u, r) ==
    /\ account[u] # "none"
    /\ member' = [member EXCEPT ![u] = r]
    /\ Start(h, Task("mark", u, "none", NoChallenge))
    /\ UNCHANGED <<codeVars, account, session, invite, lock, cycle>>

\* Whatever was left of an earlier invitation counts as accepted.
MarkAccepted(h) ==
    /\ At(h, "mark")
    /\ invite' = IF Exists(Key(h)) /\ ~invite[Key(h)].accepted
                   THEN Accepted(Key(h)) ELSE invite
    /\ Done(h)
    /\ UNCHANGED <<codeVars, account, session, member, lock, cycle>>

\* No user has the address: an invitation will be stored.
InviteAddress(h, u, r) ==
    /\ account[u] = "none"
    /\ Start(h, [Task("upsert", u, "none", NoChallenge) EXCEPT !.role = r])
    /\ UNCHANGED <<codeVars, account, session, inviteVars>>

\* The row starts over, whoever signed up and joined in the meantime.
UpsertInvite(h) ==
    /\ At(h, "upsert")
    /\ invite' = [invite EXCEPT ![Key(h)] =
         [role |-> tasks[h].role, accepted |-> FALSE, revoked |-> FALSE,
          expired |-> FALSE, mail |-> "not_sent", reminders |-> 0]]
    /\ tasks' = [tasks EXCEPT ![h].op = "deliver", ![h].role = 0]
    /\ UNCHANGED <<codeVars, account, session, member, lock, cycle>>

Resend(h, u) ==
    /\ Pending(u)
    /\ Start(h, Task("deliver", u, "none", NoChallenge))
    /\ UNCHANGED <<codeVars, account, session, inviteVars>>

\* recordEmailResult overwrites what a webhook may have reported meanwhile.
RecordDelivery(h, result) ==
    /\ At(h, "deliver")
    /\ invite' = [invite EXCEPT ![Key(h)].mail = result]
    /\ Done(h)
    /\ UNCHANGED <<codeVars, account, session, member, lock, cycle>>

\* A bounce or a complaint, for the invitations open when the webhook reads them.
ReceiveFeedback(h, u, kind) ==
    /\ Exists(u) /\ Open(invite[u])
    /\ Start(h, Task("feedback", u, kind, NoChallenge))
    /\ UNCHANGED <<codeVars, account, session, inviteVars>>

RecordFeedback(h) ==
    /\ At(h, "feedback")
    /\ invite' = [invite EXCEPT ![Key(h)].mail = tasks[h].why]
    /\ Done(h)
    /\ UNCHANGED <<codeVars, account, session, member, lock, cycle>>

-----------------------------------------------------------------------------
(* The invited *)

\* What a transaction reads: the role a pending invitation offers, 0 without one,
\* and the role the user has.
Read(h, op, u, why) ==
    tasks' = [tasks EXCEPT ![h] =
      [Task(op, u, why, NoChallenge) EXCEPT
         !.role = IF Pending(u) THEN invite[u].role ELSE 0, !.was = member[u]]]

ReadToAccept(h, u) ==
    /\ Free(h) /\ u \in session
    /\ Pending(u)
    /\ Read(h, "accept", u, "none")
    /\ UNCHANGED <<codeVars, account, session, inviteVars>>

\* Creating the membership fails when another transaction created it first.
Conflict(h) == tasks[h].was = 0 /\ member[Key(h)] # 0
Joined(h) ==
    IF tasks[h].was = 0 THEN [member EXCEPT ![Key(h)] = tasks[h].role] ELSE member

AcceptMutant(h) ==
    /\ At(h, "accept")
    /\ IF Conflict(h) THEN UNCHANGED <<member, invite>>
       ELSE member' = member /\ invite' = Accepted(Key(h))
    /\ Done(h)
    /\ UNCHANGED <<codeVars, account, session, lock, cycle>>

Accept(h) ==
    /\ At(h, "accept")
    /\ IF Conflict(h) THEN UNCHANGED <<member, invite>>
       ELSE member' = Joined(h) /\ invite' = Accepted(Key(h))
    /\ Done(h)
    /\ UNCHANGED <<codeVars, account, session, lock, cycle>>

ReadToDecline(h, u) ==
    /\ u \in session
    /\ Exists(u) /\ Open(invite[u])
    /\ Start(h, Task("decline", u, "none", NoChallenge))
    /\ UNCHANGED <<codeVars, account, session, inviteVars>>

Decline(h) ==
    /\ At(h, "decline")
    /\ invite' = [invite EXCEPT ![Key(h)].revoked = TRUE]
    /\ Done(h)
    /\ UNCHANGED <<codeVars, account, session, member, lock, cycle>>

\* syncInvitesForUser writes nothing when no invitation is pending.  It raises a
\* role to the invitation's, compared with the role it read.
Synced(h) ==
    IF tasks[h].role = 0 THEN UNCHANGED <<member, invite>>
    ELSE /\ invite' = Accepted(Key(h))
         /\ member' = IF tasks[h].role > tasks[h].was
                        THEN [member EXCEPT ![Key(h)] = tasks[h].role] ELSE member

-----------------------------------------------------------------------------
(* Maintenance *)

InviteExpires(u) ==
    /\ Pending(u)
    /\ invite' = [invite EXCEPT ![u].expired = TRUE]
    /\ UNCHANGED <<codeVars, tasks, account, session, member, lock, cycle>>

Stale == {u \in Users : Exists(u) /\ Open(invite[u]) /\ invite[u].expired}
Remindable == {u \in Users : /\ Pending(u)
                             /\ invite[u].reminders < MaxReminders
                             /\ invite[u].mail \notin {"bounced", "complained"}}

Running(w) == \E c \in Cycles : cycle[c].of = w

\* A cycle with nothing left to do lets its process run another.
Over(r) == IF r.stale = {} /\ r.due = {} THEN Rest ELSE r

\* The two scans of a cycle run at once.  When one throws, Promise.all rejects and
\* `running` is cleared, while the other goes on.
Scanned(w, due) ==
    {[of |-> w, stale |-> Stale, due |-> due],
     [of |-> NoWorker, stale |-> Stale, due |-> {}],
     [of |-> NoWorker, stale |-> {}, due |-> due]}

\* SET NX of the lock, then both scans.  Which of the invitations have waited long
\* enough for a reminder is left open.
BeginCycle(w, c, due) ==
    /\ ~Running(w)
    /\ cycle[c] = Rest
    /\ ~lock
    /\ lock' = TRUE
    /\ due \subseteq Remindable
    /\ \E r \in Scanned(w, due) : cycle' = [cycle EXCEPT ![c] = Over(r)]
    /\ UNCHANGED <<codeVars, tasks, account, session, member, invite>>

\* The lock is never released: it expires, also under a cycle that is not over.
LockExpires ==
    /\ lock
    /\ lock' = FALSE
    /\ UNCHANGED <<codeVars, tasks, account, session, member, invite, cycle>>

RevokeStale(c) ==
    /\ cycle[c].stale # {}
    /\ invite' = [u \in Users |-> IF u \in cycle[c].stale
                                    THEN [invite[u] EXCEPT !.revoked = TRUE] ELSE invite[u]]
    /\ cycle' = [cycle EXCEPT ![c] = Over([cycle[c] EXCEPT !.stale = {}])]
    /\ UNCHANGED <<codeVars, tasks, account, session, member, lock>>

\* The mail is sent to what the scan saw, and its result recorded.
Remind(c, u, result) ==
    /\ u \in cycle[c].due
    /\ invite' = [invite EXCEPT ![u].mail = result, ![u].reminders = @ + 1]
    /\ cycle' = [cycle EXCEPT ![c] = Over([cycle[c] EXCEPT !.due = @ \ {u}])]
    /\ UNCHANGED <<codeVars, tasks, account, session, member, lock>>

\* A transaction of one scan fails: the process may begin another cycle at once.
RevokeFails(c) ==
    /\ cycle[c].stale # {}
    /\ cycle' = [cycle EXCEPT ![c].of = NoWorker, ![c].stale = {}]
    /\ UNCHANGED <<codeVars, tasks, account, session, member, invite, lock>>

RemindFails(c) ==
    /\ cycle[c].due # {}
    /\ cycle' = [cycle EXCEPT ![c].of = NoWorker, ![c].due = {}]
    /\ UNCHANGED <<codeVars, tasks, account, session, member, invite, lock>>

\* The process restarts: whatever it was doing ends.
CycleLost(c) ==
    /\ cycle[c] # Rest
    /\ cycle' = [cycle EXCEPT ![c] = Rest]
    /\ UNCHANGED <<codeVars, tasks, account, session, member, invite, lock>>

InviteStep(h) ==
    \/ \E u \in Users, r \in Roles : InviteUser(h, u, r) \/ InviteAddress(h, u, r)
    \/ MarkAccepted(h) \/ UpsertInvite(h)
    \/ \E u \in Users : Resend(h, u) \/ ReadToAccept(h, u) \/ ReadToDecline(h, u)
    \/ \E result \in {"sent", "failed"} : RecordDelivery(h, result)
    \/ \E u \in Users, kind \in {"bounced", "complained"} : ReceiveFeedback(h, u, kind)
    \/ RecordFeedback(h) \/ Accept(h) \/ Decline(h)

Maintenance ==
    \/ \E c \in Cycles :
         \/ \E w \in Workers, due \in SUBSET Users : BeginCycle(w, c, due)
         \/ RevokeStale(c) \/ RevokeFails(c) \/ RemindFails(c) \/ CycleLost(c)
         \/ \E u \in Users, result \in {"sent", "failed"} : Remind(c, u, result)
    \/ LockExpires
    \/ \E u \in Users : InviteExpires(u)

-----------------------------------------------------------------------------
\* An invitation that counts as accepted has made its addressee a member, in
\* whatever order administrators, logins, answers and maintenance come.
AcceptedIsMember ==
    \A u \in Users : Exists(u) /\ invite[u].accepted => member[u] # 0
=============================================================================
