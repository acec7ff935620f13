--------------------------- MODULE Accounts_proofs ---------------------------
(***************************************************************************)
(* For any number of users, requests, challenges and maintenance workers:   *)
(* codes, logins and invitations keep their promises while requests         *)
(* interleave and die anywhere.                                             *)
(***************************************************************************)
EXTENDS Accounts, FiniteSetTheorems, TLAPS

CodeOps == {"reserve", "bypass", "store", "reset", "mail", "refuse",
            "check", "compare", "wrong", "matched", "granted"}
UserOps == {"mark", "upsert", "deliver", "feedback", "accept", "decline", "password", "expire",
            "sync", "joining", "approve", "poll", "resolve", "exchange"}

\* What a request keeps while it waits.
Kept == [op : CodeOps \cup UserOps \cup {"idle"}, key : Keys \cup {NoUser},
         why : {"none", "login", "google", "bounced", "complained"},
         challenge : Challenges \cup {NoChallenge},
         was : Roles \cup {0}, role : Roles \cup {0}]

KeyFits(t) ==
    /\ t.op \in CodeOps => t.key \in Keys
    /\ t.op \in UserOps => t.key \in Users
    /\ t.op = "feedback" => t.why \in {"bounced", "complained"}
    /\ t.op = "upsert" => t.role \in Roles

TasksTyped ==
    /\ tasks \in [Handlers -> Kept]
    /\ \A h \in Handlers : KeyFits(tasks[h])

CodesTyped ==
    /\ code \in [Keys -> Handlers \cup {NoCode}]
    /\ mailed \subseteq Keys /\ cooldown \subseteq Keys /\ orphaned \subseteq Keys
    /\ attempts \in [Keys -> Nat]

Row == [role : Roles, accepted : BOOLEAN, revoked : BOOLEAN, expired : BOOLEAN,
        mail : MailStatus, reminders : Nat]

\* Requests and cycles that write to a row by its address have seen it, and rows stay.
SeenBy(h) ==
    /\ tasks[h].op \in {"deliver", "feedback", "decline", "accept"} => Exists(Key(h))
    /\ tasks[h].op = "joining" /\ tasks[h].role # 0 => Exists(Key(h))

RowsSeen ==
    /\ \A h \in Handlers : SeenBy(h)
    /\ \A c \in Cycles : \A u \in cycle[c].stale \cup cycle[c].due : Exists(u)

CycleKind == [of : Workers \cup {NoWorker}, stale : SUBSET Users, due : SUBSET Users]

InvitesTyped ==
    /\ account \in [Users -> {"none", "unverified", "verified"}]
    /\ session \subseteq Users
    /\ member \in [Users -> Roles \cup {0}]
    /\ invite \in [Users -> Row \cup {NoRow}]
    /\ lock \in BOOLEAN
    /\ cycle \in [Cycles -> CycleKind]

LoginsTyped ==
    /\ challenges \in [Challenges -> Users \cup {NoUser}]
    /\ failures \in [Users -> Nat]
    /\ window \subseteq Users /\ stuck \subseteq Users
    /\ cli \in [open : BOOLEAN, result : Users \cup {NoUser}]
    /\ oauth \in [open : BOOLEAN, result : Users \cup {NoUser}]

Typed == TasksTyped /\ CodesTyped /\ InvitesTyped /\ RowsSeen /\ LoginsTyped

-----------------------------------------------------------------------------
(* Types *)

LEMMA IdleKept == Idle \in Kept /\ KeyFits(Idle) /\ Idle.op = "idle" /\ Idle.role = 0 /\ Idle.key = NoUser
BY DEF Idle, Kept, KeyFits, CodeOps, UserOps

LEMMA RowIsNoRow == Row = Rows /\ NoRow \notin Row
BY InviteAssumption DEF Row, Rows

LEMMA InitTyped == Init => Typed
<1> SUFFICES ASSUME Init PROVE Typed
  OBVIOUS
<1>1. TasksTyped
  BY IdleKept DEF Init, TasksTyped
<1>2. CodesTyped
  BY DEF Init, CodeInit, CodesTyped
<1>3. InvitesTyped
  BY DEF Init, InviteInit, InvitesTyped, Rest, CycleKind
<1>4. RowsSeen
  BY IdleKept DEF Init, InviteInit, RowsSeen, SeenBy, Rest
<1>5. LoginsTyped
  BY DEF Init, NoLogin, LoginsTyped
<1> QED BY <1>1, <1>2, <1>3, <1>4, <1>5 DEF Typed


\* The tasks after a request that goes on, or ends.
LEMMA TaskUpdate ==
    ASSUME TasksTyped, NEW h \in Handlers, NEW t \in Kept, KeyFits(t),
           tasks' = [tasks EXCEPT ![h] = t]
    PROVE  TasksTyped'
BY DEF TasksTyped

LEMMA CodeTasks ==
    ASSUME TasksTyped, NEW h \in Handlers, CodeStep(h)
    PROVE  /\ TasksTyped'
           /\ tasks' = [tasks EXCEPT ![h] = tasks'[h]]
           /\ tasks'[h] = Idle \/ tasks'[h].op \in CodeOps
<1>1. PICK op \in CodeOps : tasks[h].op \in CodeOps /\ (Go(h, op) \/ Done(h))
  BY DEF CodeStep, CodeOps, At, ReserveCooldown, Throttled, StoreCode, ClearAttempts, MailDelivered,
         MailFails, CheckAttempts, Compare, CountWrong, Consume
<1>2. CASE Go(h, op)
  <2>1. [tasks[h] EXCEPT !.op = op] \in Kept /\ KeyFits([tasks[h] EXCEPT !.op = op])
    BY <1>1 DEF TasksTyped, Kept, KeyFits, CodeOps, UserOps
  <2>2. tasks' = [tasks EXCEPT ![h] = [tasks[h] EXCEPT !.op = op]]
    BY <1>2 DEF Go
  <2> QED BY <2>1, <2>2, TaskUpdate DEF TasksTyped, Kept
<1>3. CASE Done(h)
  BY <1>3, IdleKept, TaskUpdate DEF Done, TasksTyped
<1> QED BY <1>1, <1>2, <1>3

LEMMA CodesStep ==
    ASSUME TasksTyped, CodesTyped, NEW h \in Handlers, CodeStep(h)
    PROVE  CodesTyped'
<1>1. Key(h) \in Keys
  BY DEF TasksTyped, KeyFits, Key, CodeStep, CodeOps, At, ReserveCooldown, Throttled, StoreCode, ClearAttempts,
         MailDelivered, MailFails, CheckAttempts, Compare, CountWrong, Consume
<1>2. CASE ReserveCooldown(h) \/ StoreCode(h) \/ ClearAttempts(h) \/ MailDelivered(h)
  BY <1>1, <1>2 DEF CodesTyped, ReserveCooldown, StoreCode, ClearAttempts, MailDelivered
<1>3. CASE CountWrong(h) \/ Consume(h)
  BY <1>1, <1>3 DEF CodesTyped, CountWrong, Consume
<1>4. CASE Throttled(h) \/ MailFails(h) \/ CheckAttempts(h) \/ Compare(h)
  BY <1>4 DEF CodesTyped, Throttled, MailFails, CheckAttempts, Compare, codeVars
<1> QED BY <1>2, <1>3, <1>4 DEF CodeStep

LEMMA CodesExpire ==
    ASSUME CodesTyped, NEW k \in Keys, CodeExpiry(k)
    PROVE  CodesTyped' /\ tasks' = tasks
BY DEF CodesTyped, CodeExpiry, CooldownExpires, CodeExpires, AttemptsExpire

Fields(t, op, key, why, c, was, role) ==
    t.op = op /\ t.key = key /\ t.why = why /\ t.challenge = c /\ t.was = was /\ t.role = role

\* A request that starts.
LEMMA TaskKept ==
    ASSUME NEW op \in CodeOps \cup UserOps, op # "upsert",
           NEW k \in Keys, op \in UserOps => k \in Users,
           NEW why \in {"none", "login", "google", "bounced", "complained"},
           op = "feedback" => why \in {"bounced", "complained"},
           NEW c \in Challenges \cup {NoChallenge}
    PROVE  /\ Task(op, k, why, c) \in Kept /\ KeyFits(Task(op, k, why, c))
           /\ Fields(Task(op, k, why, c), op, k, why, c, 0, 0)
<1>1. Fields(Task(op, k, why, c), op, k, why, c, 0, 0)
  BY DEF Task, Idle, Fields
<1>2. Task(op, k, why, c) \in Kept
  BY DEF Task, Idle, Kept
<1> QED BY <1>1, <1>2 DEF Fields, KeyFits

LEMMA StartTyped ==
    ASSUME TasksTyped, NEW h \in Handlers,
           NEW op \in CodeOps \cup UserOps, op # "upsert",
           NEW k \in Keys, op \in UserOps => k \in Users,
           NEW why \in {"none", "login", "google", "bounced", "complained"},
           op = "feedback" => why \in {"bounced", "complained"},
           NEW c \in Challenges \cup {NoChallenge},
           Start(h, Task(op, k, why, c))
    PROVE  TasksTyped'
BY TaskKept, TaskUpdate DEF Start

LEMMA DoneTyped ==
    ASSUME TasksTyped, NEW h \in Handlers, Done(h)
    PROVE  TasksTyped'
BY IdleKept, TaskUpdate DEF Done

\* A transaction that reads an invitation, if it is pending, and the membership.
LEMMA ReadTyped ==
    ASSUME TasksTyped, InvitesTyped, NEW h \in Handlers, NEW op \in {"accept", "joining"},
           NEW u \in Users, NEW why \in {"none", "login", "google", "bounced", "complained"},
           Read(h, op, u, why)
    PROVE  /\ TasksTyped'
           /\ tasks' = [tasks EXCEPT ![h] = tasks'[h]]
           /\ Fields(tasks'[h], op, u, why, NoChallenge, member[u], IF Pending(u) THEN invite[u].role ELSE 0)
<1> DEFINE r == IF Pending(u) THEN invite[u].role ELSE 0
           t == [Task(op, u, why, NoChallenge) EXCEPT !.role = r, !.was = member[u]]
<1>1. op \in CodeOps \cup UserOps /\ op # "upsert" /\ op # "feedback"
  BY DEF CodeOps, UserOps
<1>2. /\ Task(op, u, why, NoChallenge) \in Kept /\ KeyFits(Task(op, u, why, NoChallenge))
      /\ Fields(Task(op, u, why, NoChallenge), op, u, why, NoChallenge, 0, 0)
  BY <1>1, TaskKept DEF Keys
<1>3. r \in Roles \cup {0} /\ member[u] \in Roles \cup {0}
  BY DEF InvitesTyped, Pending, Exists, Row
<1>4. t \in Kept /\ Fields(t, op, u, why, NoChallenge, member[u], r)
  BY <1>2, <1>3 DEF Kept, Fields
<1>5. KeyFits(t)
  BY <1>1, <1>2, <1>4 DEF KeyFits, Fields
<1>6. tasks' = [tasks EXCEPT ![h] = t]
  BY DEF Read
<1> HIDE DEF t
<1>7. tasks'[h] = t
  BY <1>6 DEF TasksTyped
<1> QED BY <1>4, <1>5, <1>6, <1>7, TaskUpdate

LEMMA InviteTasks ==
    ASSUME TasksTyped, InvitesTyped, NEW h \in Handlers, InviteStep(h)
    PROVE  TasksTyped'
<1>1. ASSUME NEW u \in Users, NEW r \in Roles, InviteAddress(h, u, r)
      PROVE  TasksTyped'
  <2> DEFINE t == [Task("upsert", u, "none", NoChallenge) EXCEPT !.role = r]
  <2>1. t \in Kept /\ KeyFits(t)
    BY DEF Task, Idle, Kept, KeyFits, CodeOps, UserOps, Keys
  <2>2. tasks' = [tasks EXCEPT ![h] = t]
    BY <1>1 DEF InviteAddress, Start
  <2> QED BY <2>1, <2>2, TaskUpdate
<1>2. ASSUME NEW u \in Users, (\E r \in Roles : InviteUser(h, u, r)) \/ Resend(h, u) \/ ReadToDecline(h, u)
      PROVE  TasksTyped'
  BY <1>2, StartTyped DEF InviteUser, Resend, ReadToDecline, UserOps, CodeOps, Keys
<1>3. ASSUME NEW u \in Users, NEW kind \in {"bounced", "complained"}, ReceiveFeedback(h, u, kind)
      PROVE  TasksTyped'
  BY <1>3, StartTyped DEF ReceiveFeedback, UserOps, CodeOps, Keys
<1>4. ASSUME NEW u \in Users, ReadToAccept(h, u)
      PROVE  TasksTyped'
  BY <1>4, ReadTyped DEF ReadToAccept
<1>5. CASE UpsertInvite(h)
  <2> DEFINE t == [tasks[h] EXCEPT !.op = "deliver", !.role = 0]
  <2>1. t \in Kept /\ KeyFits(t)
    BY <1>5 DEF UpsertInvite, At, TasksTyped, Kept, KeyFits, UserOps, CodeOps
  <2>2. tasks' = [tasks EXCEPT ![h] = t]
    BY <1>5 DEF UpsertInvite, TasksTyped, Kept
  <2> QED BY <2>1, <2>2, TaskUpdate
<1>6. ASSUME NEW result \in {"sent", "failed"}, RecordDelivery(h, result)
      PROVE  TasksTyped'
  BY <1>6, DoneTyped DEF RecordDelivery
<1>7. CASE MarkAccepted(h) \/ RecordFeedback(h) \/ Accept(h) \/ Decline(h)
  BY <1>7, DoneTyped DEF MarkAccepted, RecordFeedback, Accept, Decline
<1> QED BY <1>1, <1>2, <1>3, <1>4, <1>5, <1>6, <1>7 DEF InviteStep

LEMMA RowUpdate ==
    ASSUME InvitesTyped, NEW u \in Users, NEW r \in Row, invite' = [invite EXCEPT ![u] = r]
    PROVE  /\ invite' \in [Users -> Row \cup {NoRow}]
           /\ \A x \in Users : Exists(x) => Exists(x)'
BY RowIsNoRow DEF InvitesTyped, Exists

LEMMA AcceptedRow ==
    ASSUME InvitesTyped, NEW u \in Users, Exists(u), invite' = Accepted(u)
    PROVE  /\ invite' \in [Users -> Row \cup {NoRow}]
           /\ \A x \in Users : Exists(x) => Exists(x)'
<1> DEFINE r == [invite[u] EXCEPT !.accepted = TRUE, !.revoked = FALSE]
<1>1. r \in Row
  BY DEF InvitesTyped, Exists, Row
<1>2. invite' = [invite EXCEPT ![u] = r]
  BY DEF Accepted, InvitesTyped
<1> QED BY <1>1, <1>2, RowUpdate

LEMMA InvitesStep ==
    ASSUME Typed, NEW h \in Handlers, InviteStep(h)
    PROVE  InvitesTyped' /\ \A u \in Users : Exists(u) => Exists(u)'
<1> USE InviteAssumption, RowIsNoRow DEF Typed, InvitesTyped, Exists
<1>1. ASSUME NEW u \in Users, NEW r \in Roles, InviteUser(h, u, r)
      PROVE  InvitesTyped' /\ invite' = invite
  BY <1>1 DEF InviteUser
<1>2. ASSUME NEW u \in Users,
             \/ \E r \in Roles : InviteAddress(h, u, r)
             \/ \E kind \in {"bounced", "complained"} : ReceiveFeedback(h, u, kind)
             \/ Resend(h, u) \/ ReadToAccept(h, u) \/ ReadToDecline(h, u)
      PROVE  InvitesTyped' /\ invite' = invite
  BY <1>2 DEF InviteAddress, ReceiveFeedback, Resend, ReadToAccept, ReadToDecline, inviteVars
<1>3. CASE MarkAccepted(h)
  BY <1>3, AcceptedRow DEF MarkAccepted, At, TasksTyped, KeyFits, UserOps, Key
<1>4. CASE UpsertInvite(h)
  <2> DEFINE r == [role |-> tasks[h].role, accepted |-> FALSE, revoked |-> FALSE,
                   expired |-> FALSE, mail |-> "not_sent", reminders |-> 0]
  <2>1. r \in Row /\ Key(h) \in Users
    BY <1>4 DEF UpsertInvite, At, TasksTyped, KeyFits, UserOps, Key, Row, MailStatus
  <2> QED BY <1>4, <2>1, RowUpdate DEF UpsertInvite
<1>5. ASSUME NEW result \in {"sent", "failed"}, RecordDelivery(h, result)
      PROVE  InvitesTyped' /\ \A u \in Users : Exists(u) => Exists(u)'
  BY <1>5 DEF RecordDelivery, At, TasksTyped, KeyFits, UserOps, Key, Row, MailStatus, RowsSeen, SeenBy
<1>6. CASE RecordFeedback(h)
  BY <1>6 DEF RecordFeedback, At, TasksTyped, KeyFits, UserOps, Key, Row, MailStatus, RowsSeen, SeenBy
<1>7. CASE Accept(h)
  <2>1. Key(h) \in Users /\ Exists(Key(h)) /\ tasks[h].role \in Roles \cup {0}
    BY <1>7 DEF Accept, At, TasksTyped, Kept, KeyFits, UserOps, Key, RowsSeen, SeenBy
  <2>2. Joined(h) \in [Users -> Roles \cup {0}]
    BY <2>1 DEF Joined
  <2> QED BY <1>7, <2>1, <2>2, AcceptedRow DEF Accept
<1>8. CASE Decline(h)
  <2> DEFINE r == [invite[Key(h)] EXCEPT !.revoked = TRUE]
  <2>1. Key(h) \in Users /\ invite[Key(h)] \in Row
    BY <1>8 DEF Decline, At, TasksTyped, KeyFits, UserOps, Key, RowsSeen, SeenBy
  <2>2. r \in Row
    BY <2>1 DEF Row
  <2>3. invite' = [invite EXCEPT ![Key(h)] = r]
    BY <1>8 DEF Decline
  <2>4. invite' \in [Users -> Row \cup {NoRow}] /\ \A x \in Users : Exists(x) => Exists(x)'
    BY <2>1, <2>2, <2>3, RowUpdate
  <2> QED BY <1>8, <2>4 DEF Decline
<1> QED BY <1>1, <1>2, <1>3, <1>4, <1>5, <1>6, <1>7, <1>8 DEF InviteStep

\* What maintenance leaves of the rows and the cycles.
RowsStay ==
    /\ InvitesTyped' /\ \A u \in Users : Exists(u) => Exists(u)'
    /\ tasks' = tasks
    /\ \A c \in Cycles : \A u \in (cycle[c].stale \cup cycle[c].due)' : Exists(u)

\* Resting or not, a cycle has the same rows still to do.
LEMMA OverKeeps ==
    ASSUME NEW r \in CycleKind
    PROVE  Over(r) \in CycleKind /\ Over(r).stale = r.stale /\ Over(r).due = r.due
BY DEF Over, Rest, CycleKind

\* Every step of a cycle but its beginning leaves it less to do.
CyclesShrink ==
    /\ cycle' \in [Cycles -> CycleKind]
    /\ \A x \in Cycles : cycle'[x].stale \subseteq cycle[x].stale /\ cycle'[x].due \subseteq cycle[x].due

LEMMA CycleShrinks ==
    ASSUME Typed, NEW c \in Cycles,
           \/ RevokeStale(c) \/ RevokeFails(c) \/ RemindFails(c) \/ CycleLost(c)
           \/ \E u \in Users, result \in {"sent", "failed"} : Remind(c, u, result)
    PROVE  CyclesShrink
<1>1. cycle \in [Cycles -> CycleKind] /\ cycle[c] \in CycleKind
  BY DEF Typed, InvitesTyped
<1>2. ASSUME NEW r \in CycleKind, r.stale \subseteq cycle[c].stale, r.due \subseteq cycle[c].due,
             cycle' = [cycle EXCEPT ![c] = Over(r)]
      PROVE  CyclesShrink
  BY <1>1, <1>2, OverKeeps DEF CyclesShrink
<1>3. ASSUME RevokeStale(c) PROVE CyclesShrink
  <2>1. [cycle[c] EXCEPT !.stale = {}] \in CycleKind
    BY <1>1 DEF CycleKind
  <2> QED BY <1>1, <1>2, <1>3, <2>1 DEF RevokeStale, CycleKind
<1>4. ASSUME NEW u \in Users, NEW result \in {"sent", "failed"}, Remind(c, u, result) PROVE CyclesShrink
  <2>1. [cycle[c] EXCEPT !.due = @ \ {u}] \in CycleKind
    BY <1>1 DEF CycleKind
  <2>2. [cycle[c] EXCEPT !.due = @ \ {u}].stale = cycle[c].stale
        /\ [cycle[c] EXCEPT !.due = @ \ {u}].due = cycle[c].due \ {u}
    BY <1>1 DEF CycleKind
  <2>3. cycle' = [cycle EXCEPT ![c] = Over([cycle[c] EXCEPT !.due = @ \ {u}])]
    BY <1>4 DEF Remind
  <2> QED BY <1>2, <2>1, <2>2, <2>3
<1>5. ASSUME RevokeFails(c) \/ RemindFails(c) \/ CycleLost(c) PROVE CyclesShrink
  BY <1>1, <1>5 DEF RevokeFails, RemindFails, CycleLost, CycleKind, Rest, CyclesShrink
<1> QED BY <1>3, <1>4, <1>5

LEMMA CycleBegins ==
    ASSUME Typed, NEW w \in Workers, NEW c \in Cycles, NEW due \in SUBSET Users, BeginCycle(w, c, due)
    PROVE  /\ cycle' \in [Cycles -> CycleKind]
           /\ cycle[c].due = {} /\ due \subseteq Remindable
           /\ cycle'[c].stale \subseteq Stale /\ cycle'[c].due \subseteq due
           /\ \A x \in Cycles \ {c} : cycle'[x] = cycle[x]
<1>1. PICK r \in Scanned(w, due) : cycle' = [cycle EXCEPT ![c] = Over(r)]
  BY DEF BeginCycle
<1>2. r \in CycleKind /\ r.stale \subseteq Stale /\ r.due \subseteq due
  BY DEF Scanned, CycleKind, Stale
<1> QED BY <1>1, <1>2, OverKeeps DEF BeginCycle, Rest, Typed, InvitesTyped

LEMMA MaintenanceStep ==
    ASSUME Typed, Maintenance
    PROVE  RowsStay
<1> USE InviteAssumption, RowIsNoRow DEF Typed, InvitesTyped, Exists, RowsSeen, RowsStay
<1>1. ASSUME NEW w \in Workers, NEW c \in Cycles, NEW due \in SUBSET Users, BeginCycle(w, c, due)
      PROVE  RowsStay
  <2>1. /\ cycle' \in [Cycles -> CycleKind]
        /\ \A x \in Cycles : /\ cycle'[x].stale \subseteq cycle[x].stale \cup Stale
                              /\ cycle'[x].due \subseteq cycle[x].due \cup Remindable
    BY <1>1, CycleBegins
  <2> QED BY <1>1, <2>1 DEF BeginCycle, Stale, Remindable, Pending
<1>2. ASSUME NEW c \in Cycles, RevokeStale(c)
      PROVE  RowsStay
  <2>1. ASSUME NEW u \in cycle[c].stale
        PROVE  u \in Users /\ [invite[u] EXCEPT !.revoked = TRUE] \in Row
    <3>1. u \in Users
      BY <2>1 DEF CycleKind
    <3>2. invite[u] \in Row
      BY <1>2, <2>1, <3>1
    <3> QED BY <3>1, <3>2 DEF Row
  <2>2. invite' \in [Users -> Row \cup {NoRow}]
    BY <1>2, <2>1 DEF RevokeStale
  <2>3. \A u \in Users : Exists(u) => Exists(u)'
    BY <1>2, <2>1 DEF RevokeStale
  <2>4. CyclesShrink
    BY <1>2, CycleShrinks
  <2> QED BY <1>2, <2>2, <2>3, <2>4 DEF RevokeStale, CyclesShrink
<1>3. ASSUME NEW c \in Cycles, NEW u \in Users, NEW result \in {"sent", "failed"}, Remind(c, u, result)
      PROVE  RowsStay
  <2>1. CyclesShrink
    BY <1>3, CycleShrinks
  <2> QED BY <1>3, <2>1 DEF Remind, Row, MailStatus, CyclesShrink
<1>4. ASSUME NEW c \in Cycles, RevokeFails(c) \/ RemindFails(c) \/ CycleLost(c)
      PROVE  RowsStay
  <2>1. CyclesShrink
    BY <1>4, CycleShrinks
  <2> QED BY <1>4, <2>1 DEF RevokeFails, RemindFails, CycleLost, CyclesShrink
<1>5. CASE LockExpires
  BY <1>5 DEF LockExpires
<1>6. ASSUME NEW u \in Users, InviteExpires(u)
      PROVE  RowsStay
  BY <1>6 DEF InviteExpires, Pending, Row
<1> HIDE DEF RowsStay
<1> QED BY <1>1, <1>2, <1>3, <1>4, <1>5, <1>6 DEF Maintenance

\* What a request that starts or ends has to have seen.
LEMMA InviteSeen ==
    ASSUME Typed, NEW h \in Handlers, InviteStep(h)
    PROVE  RowsSeen'
<1>1. /\ TasksTyped'
      /\ InvitesTyped' /\ \A u \in Users : Exists(u) => Exists(u)'
  BY InviteTasks, InvitesStep DEF Typed
<1>2. /\ cycle' = cycle
      /\ \A g \in Handlers : g # h => tasks'[g] = tasks[g]
  BY DEF InviteStep, InviteUser, InviteAddress, MarkAccepted, UpsertInvite, Resend, ReadToAccept, ReadToDecline,
         RecordDelivery, ReceiveFeedback, RecordFeedback, Accept, Decline, inviteVars, Start, Done, Read, Typed, TasksTyped
<1>3. \A c \in Cycles : \A u \in cycle[c].stale \cup cycle[c].due : u \in Users /\ Exists(u)
  BY DEF Typed, RowsSeen, InvitesTyped, CycleKind
<1>4. ASSUME NEW g \in Handlers, g # h PROVE SeenBy(g)'
  BY <1>1, <1>2, <1>4 DEF Typed, RowsSeen, SeenBy, Key, TasksTyped, KeyFits, UserOps
<1>5. SeenBy(h)'
  <2>1. CASE Done(h)
    BY <2>1, IdleKept DEF SeenBy, Done, Typed, TasksTyped
  <2>2. ASSUME NEW u \in Users, NEW r \in Roles, InviteUser(h, u, r) \/ InviteAddress(h, u, r)
        PROVE  SeenBy(h)'
    BY <2>2 DEF InviteUser, InviteAddress, Start, Task, Idle, SeenBy, Typed, TasksTyped
  <2>3. ASSUME NEW u \in Users, NEW kind \in {"bounced", "complained"},
               Resend(h, u) \/ ReadToDecline(h, u) \/ ReceiveFeedback(h, u, kind)
        PROVE  SeenBy(h)'
    <3>1. Exists(u) /\ invite' = invite
      BY <2>3 DEF Resend, ReadToDecline, ReceiveFeedback, Pending, inviteVars
    <3>2. tasks'[h].key = u /\ tasks'[h].op # "joining"
      BY <2>3 DEF Resend, ReadToDecline, ReceiveFeedback, Start, Task, Idle, Typed, TasksTyped
    <3> QED BY <3>1, <3>2 DEF SeenBy, Key, Exists
  <2>4. ASSUME NEW u \in Users, ReadToAccept(h, u)
        PROVE  SeenBy(h)'
    BY <2>4, ReadTyped DEF ReadToAccept, Fields, SeenBy, Key, Pending, Exists, inviteVars, Typed
  <2>5. CASE UpsertInvite(h)
    <3>1. Exists(Key(h))' /\ tasks'[h].op # "joining"
      BY <2>5, <1>1, InviteAssumption DEF UpsertInvite, At, Key, Exists, Typed, TasksTyped, Kept, KeyFits, UserOps,
             InvitesTyped, Rows, MailStatus
    <3> QED BY <3>1 DEF SeenBy
  <2> QED BY <2>1, <2>2, <2>3, <2>4, <2>5
          DEF InviteStep, MarkAccepted, RecordDelivery, RecordFeedback, Accept, Decline
<1> QED BY <1>2, <1>3, <1>4, <1>5, <1>1 DEF RowsSeen

\* A request that goes on for the same key, or for the same user after a code.
LEMMA GoTyped ==
    ASSUME TasksTyped, NEW h \in Handlers, NEW op \in CodeOps \cup UserOps,
           op \notin {"feedback", "upsert"}, tasks[h].key \in Keys, op \in UserOps => tasks[h].key \in Users,
           Go(h, op)
    PROVE  TasksTyped'
<1> DEFINE t == [tasks[h] EXCEPT !.op = op]
<1>1. t \in Kept /\ KeyFits(t)
  BY DEF TasksTyped, Kept, KeyFits
<1>2. tasks' = [tasks EXCEPT ![h] = t]
  BY DEF Go
<1> QED BY <1>1, <1>2, TaskUpdate

LEMMA LoginTasks ==
    ASSUME Typed, NEW h \in Handlers, LoginStep(h)
    PROVE  TasksTyped'
<1> USE DEF Typed
<1>1. ASSUME NEW u \in Users, NEW c \in Challenges \cup {NoChallenge},
             Signup(h, u) \/ Login(h, u) \/ ResendCode(h, u, c) \/ VerifyEmail(h, u, c)
             \/ ApproveCli(h, u) \/ Callback(h, u)
      PROVE  TasksTyped'
  BY <1>1, StartTyped DEF Signup, Login, ResendCode, VerifyEmail, ApproveCli, Callback, CodeOps, UserOps, Keys
<1>2. ASSUME NEW d \in Deletions, AskDeletionCode(h, d) \/ ConfirmDeletion(h, d)
      PROVE  TasksTyped'
  BY <1>2, StartTyped DEF AskDeletionCode, ConfirmDeletion, CodeOps, UserOps, Keys
<1>3. CASE PollCli(h) \/ ReadExchange(h)
  BY <1>3, StartTyped DEF PollCli, ReadExchange, CodeOps, UserOps, Keys, LoginsTyped
<1>4. CASE SetWindow(h) \/ Refused(h) \/ SyncInvites(h) \/ DeletionGranted(h) \/ StoreCliResult(h)
           \/ TakeCliResult(h) \/ Exchange(h)
  BY <1>4, DoneTyped DEF SetWindow, Refused, SyncInvites, DeletionGranted, StoreCliResult, TakeCliResult, Exchange
<1>5. CASE WrongPassword(h)
  <2>1. tasks[h].key \in Users
    BY <1>5 DEF WrongPassword, At, TasksTyped, KeyFits, UserOps
  <2> QED BY <1>5, <2>1, DoneTyped, GoTyped DEF WrongPassword, UserOps, CodeOps, Keys
<1>6. CASE Verified(h) \/ ResolveUser(h)
  <2>1. tasks[h].key \in Users
    BY <1>6 DEF Verified, ResolveUser, At, Key, TasksTyped, KeyFits, UserOps
  <2> QED BY <1>6, <2>1, GoTyped DEF Verified, ResolveUser, UserOps, CodeOps, Keys
<1>7. ASSUME NEW c \in Challenges, RightPassword(h, c)
      PROVE  TasksTyped'
  <2> DEFINE t == [tasks[h] EXCEPT !.op = "reserve", !.challenge = c]
  <2>1. tasks[h] \in Kept /\ tasks[h].key \in Users
    BY <1>7 DEF RightPassword, At, TasksTyped, KeyFits, UserOps
  <2>3. t \in Kept /\ t.op = "reserve" /\ t.key = tasks[h].key
    <3> DEFINE k == tasks[h]
               s == [k EXCEPT !.op = "reserve"]
    <3>1. k \in Kept
      BY <2>1
    <3> HIDE DEF k
    <3>2. s \in Kept /\ s.op = "reserve" /\ s.key = k.key
      BY <3>1 DEF Kept, CodeOps
    <3> HIDE DEF s
    <3>3. LET r == [s EXCEPT !.challenge = c] IN r \in Kept /\ r.op = s.op /\ r.key = s.key
      BY <3>2 DEF Kept
    <3> QED BY <3>2, <3>3 DEF k, s
  <2>4. KeyFits(t)
    BY <2>1, <2>3 DEF KeyFits, UserOps, CodeOps, Keys
  <2>2. tasks' = [tasks EXCEPT ![h] = t]
    BY <1>7 DEF RightPassword, TasksTyped, Kept
  <2> HIDE DEF t
  <2> QED BY <2>2, <2>3, <2>4, TaskUpdate
<1>8. CASE ReadToSync(h)
  <2>1. tasks[h].key \in Users /\ tasks[h].why \in {"none", "login", "google", "bounced", "complained"}
    BY <1>8 DEF ReadToSync, At, TasksTyped, KeyFits, Kept, UserOps
  <2> QED BY <1>8, <2>1, ReadTyped DEF ReadToSync, Key
<1>9. ASSUME NEW u \in Users, Signup(h, u) \/ Login(h, u) \/ ApproveCli(h, u) \/ Callback(h, u)
      PROVE  TasksTyped'
  BY <1>9, <1>1
<1> QED BY <1>1, <1>2, <1>3, <1>4, <1>5, <1>6, <1>7, <1>8, <1>9 DEF LoginStep

LEMMA LoginRows ==
    ASSUME Typed, NEW h \in Handlers, LoginStep(h)
    PROVE  /\ InvitesTyped' /\ \A u \in Users : Exists(u) => Exists(u)'
           /\ LoginsTyped' /\ cycle' = cycle
           /\ code' = code /\ mailed' = mailed /\ cooldown' = cooldown /\ attempts' = attempts /\ orphaned' = orphaned
<1> USE DEF Typed
<1>1. codeVars' = codeVars /\ cycle' = cycle
  BY DEF LoginStep, Signup, Login, ResendCode, VerifyEmail, ApproveCli, Callback, WrongPassword, SetWindow, Refused,
         RightPassword, Verified, ReadToSync, SyncInvites, AskDeletionCode, ConfirmDeletion, DeletionGranted,
         StoreCliResult, PollCli, TakeCliResult, ResolveUser, ReadExchange, Exchange, codeVars, inviteVars
<1>2. CASE \E u \in Users : Signup(h, u)
  BY <1>1, <1>2 DEF Signup, InvitesTyped, LoginsTyped, Exists, inviteVars, loginVars, codeVars
<1>3. ASSUME NEW u \in Users,
             Login(h, u) \/ ApproveCli(h, u)
             \/ \E c \in Challenges \cup {NoChallenge} : ResendCode(h, u, c) \/ VerifyEmail(h, u, c)
      PROVE  InvitesTyped' /\ LoginsTyped' /\ invite' = invite
  BY <1>3 DEF Login, ResendCode, VerifyEmail, ApproveCli, InvitesTyped, LoginsTyped, inviteVars, loginVars
<1>4. ASSUME NEW u \in Users, Callback(h, u)
      PROVE  InvitesTyped' /\ LoginsTyped' /\ invite' = invite
  BY <1>4 DEF Callback, InvitesTyped, LoginsTyped, inviteVars, loginVars
<1>5. CASE WrongPassword(h) \/ SetWindow(h)
  BY <1>1, <1>5 DEF WrongPassword, SetWindow, At, Key, TasksTyped, KeyFits, UserOps,
                    InvitesTyped, LoginsTyped, Exists, inviteVars, codeVars
<1>6. CASE Refused(h)
  BY <1>1, <1>6 DEF Refused, Forget, TasksTyped, Kept, InvitesTyped, LoginsTyped, Exists, inviteVars, codeVars
<1>7. ASSUME NEW c \in Challenges, RightPassword(h, c)
      PROVE  InvitesTyped' /\ LoginsTyped' /\ invite' = invite
  BY <1>7 DEF RightPassword, At, Key, TasksTyped, KeyFits, UserOps, InvitesTyped, LoginsTyped, inviteVars
<1>8. CASE Verified(h)
  BY <1>1, <1>8 DEF Verified, Forget, Key, TasksTyped, Kept, InvitesTyped, LoginsTyped, Exists, inviteVars, codeVars
<1>9. CASE ResolveUser(h)
  BY <1>1, <1>9 DEF ResolveUser, At, Key, TasksTyped, KeyFits, UserOps,
                    InvitesTyped, LoginsTyped, Exists, inviteVars, loginVars, codeVars
<1>10. CASE SyncInvites(h)
  <2>1. Key(h) \in Users /\ tasks[h].role \in Roles \cup {0} /\ (tasks[h].role # 0 => Exists(Key(h)))
    BY <1>10 DEF SyncInvites, At, Key, TasksTyped, Kept, KeyFits, UserOps, RowsSeen, SeenBy
  <2>2. member' \in [Users -> Roles \cup {0}]
    BY <1>10, <2>1 DEF SyncInvites, Synced, InvitesTyped
  <2>3. /\ invite' \in [Users -> Row \cup {NoRow}]
        /\ \A u \in Users : Exists(u) => Exists(u)'
    BY <1>10, <2>1, AcceptedRow DEF SyncInvites, Synced, InvitesTyped, Exists
  <2>4. session' \subseteq Users /\ oauth' \in [open : BOOLEAN, result : Users \cup {NoUser}]
    BY <1>10, <2>1 DEF SyncInvites, InvitesTyped, LoginsTyped
  <2> QED BY <1>1, <1>10, <2>2, <2>3, <2>4 DEF SyncInvites, InvitesTyped, LoginsTyped, loginVars, codeVars
<1>11. CASE \/ ReadToSync(h) \/ DeletionGranted(h) \/ PollCli(h) \/ ReadExchange(h)
            \/ \E d \in Deletions : AskDeletionCode(h, d) \/ ConfirmDeletion(h, d)
  BY <1>1, <1>11 DEF ReadToSync, DeletionGranted, PollCli, ReadExchange, AskDeletionCode, ConfirmDeletion,
                     InvitesTyped, LoginsTyped, Exists, inviteVars, loginVars, codeVars
<1>12. CASE StoreCliResult(h) \/ TakeCliResult(h)
  <2>1. cli' \in [open : BOOLEAN, result : Users \cup {NoUser}]
    <3>1. CASE StoreCliResult(h)
      <4>1. Key(h) \in Users
        BY <3>1 DEF StoreCliResult, At, Key, TasksTyped, KeyFits, UserOps
      <4> QED BY <3>1, <4>1 DEF StoreCliResult, LoginsTyped
    <3>2. CASE TakeCliResult(h)
      BY <3>2 DEF TakeCliResult, NoLogin
    <3> QED BY <1>12, <3>1, <3>2
  <2> QED BY <1>1, <1>12, <2>1 DEF StoreCliResult, TakeCliResult,
                     InvitesTyped, LoginsTyped, Exists, inviteVars, loginVars, codeVars
<1>13. CASE Exchange(h)
  BY <1>1, <1>13 DEF Exchange, At, Key, TasksTyped, KeyFits, UserOps,
                     InvitesTyped, LoginsTyped, Exists, inviteVars, loginVars, codeVars
<1>14. InvitesTyped' /\ LoginsTyped' /\ \A u \in Users : Exists(u) => Exists(u)'
  <2> DEFINE P == InvitesTyped' /\ LoginsTyped' /\ \A u \in Users : Exists(u) => Exists(u)'
  <2>1. InvitesTyped' /\ LoginsTyped' /\ invite' = invite => P
    BY DEF Exists
  <2> HIDE DEF P
  <2>2. P
    BY <2>1, <1>2, <1>3, <1>4, <1>5, <1>6, <1>7, <1>8, <1>9, <1>10, <1>11, <1>12, <1>13 DEF LoginStep, P
  <2> QED BY <2>2 DEF P
<1> QED BY <1>1, <1>14 DEF codeVars

LEMMA LoginSeen ==
    ASSUME Typed, NEW h \in Handlers, LoginStep(h)
    PROVE  RowsSeen'
<1> USE DEF Typed
<1>1. /\ TasksTyped'
      /\ InvitesTyped' /\ \A u \in Users : Exists(u) => Exists(u)'
      /\ cycle' = cycle
  BY LoginTasks, LoginRows
<1>2. \A g \in Handlers : g # h => tasks'[g] = tasks[g]
  BY DEF LoginStep, Signup, Login, ResendCode, VerifyEmail, ApproveCli, Callback, WrongPassword, SetWindow, Refused,
         RightPassword, Verified, ReadToSync, SyncInvites, AskDeletionCode, ConfirmDeletion, DeletionGranted,
         StoreCliResult, PollCli, TakeCliResult, ResolveUser, ReadExchange, Exchange,
         Start, Go, Done, Read, TasksTyped
<1>3. \A c \in Cycles : \A u \in cycle[c].stale \cup cycle[c].due : u \in Users /\ Exists(u)
  BY DEF RowsSeen, InvitesTyped, CycleKind
<1>4. ASSUME NEW g \in Handlers, g # h PROVE SeenBy(g)'
  BY <1>1, <1>2, <1>4 DEF RowsSeen, SeenBy, Key, TasksTyped, KeyFits, UserOps
<1>5. SeenBy(h)'
  <2>2. CASE ReadToSync(h)
    <3>1. tasks[h].key \in Users /\ tasks[h].why \in {"none", "login", "google", "bounced", "complained"}
      BY <2>2 DEF ReadToSync, At, TasksTyped, KeyFits, Kept, UserOps
    <3>2. Fields(tasks'[h], "joining", Key(h), tasks[h].why, NoChallenge, member[Key(h)],
                 IF Pending(Key(h)) THEN invite[Key(h)].role ELSE 0)
      BY <2>2, <3>1, ReadTyped DEF ReadToSync, Key
    <3> QED BY <2>2, <3>2 DEF ReadToSync, SeenBy, Key, Fields, Pending, Exists, inviteVars
  <2>3. ASSUME NEW op \in {"reserve", "bypass", "password", "check", "approve", "resolve", "poll", "exchange"},
               NEW k, NEW why, NEW c, Start(h, Task(op, k, why, c))
        PROVE  SeenBy(h)'
    BY <2>3 DEF Start, Task, Idle, SeenBy, TasksTyped
  <2>4. CASE \/ \E u \in Users : Signup(h, u) \/ Login(h, u) \/ ApproveCli(h, u) \/ Callback(h, u)
             \/ \E u \in Users, c \in Challenges \cup {NoChallenge} : ResendCode(h, u, c) \/ VerifyEmail(h, u, c)
             \/ \E d \in Deletions : AskDeletionCode(h, d) \/ ConfirmDeletion(h, d)
             \/ PollCli(h) \/ ReadExchange(h)
    BY <2>3, <2>4 DEF Signup, Login, ResendCode, VerifyEmail, ApproveCli, Callback, AskDeletionCode, ConfirmDeletion,
                      PollCli, ReadExchange
  <2>5. CASE Done(h)
    BY <2>5, IdleKept DEF Done, SeenBy, TasksTyped
  <2>6. ASSUME NEW op \in {"expire", "sync"}, Go(h, op)
        PROVE  SeenBy(h)'
    BY <2>6 DEF Go, SeenBy, TasksTyped, Kept
  <2>7. ASSUME NEW c \in Challenges, RightPassword(h, c)
        PROVE  SeenBy(h)'
    BY <2>7 DEF RightPassword, SeenBy, TasksTyped, Kept
  <2>8. CASE WrongPassword(h) \/ SetWindow(h) \/ Refused(h) \/ SyncInvites(h) \/ DeletionGranted(h) \/ StoreCliResult(h)
             \/ TakeCliResult(h) \/ Exchange(h) \/ Verified(h) \/ ResolveUser(h)
    BY <2>5, <2>6, <2>8 DEF WrongPassword, SetWindow, Refused, SyncInvites, DeletionGranted, StoreCliResult, TakeCliResult,
                            Exchange, Verified, ResolveUser
  <2> QED BY <2>2, <2>4, <2>7, <2>8 DEF LoginStep
<1> QED BY <1>1, <1>3, <1>4, <1>5 DEF RowsSeen

\* Steps that leave every request and every row alone.
LEMMA SeenStays ==
    ASSUME RowsSeen, tasks' = tasks, invite' = invite, cycle' = cycle
    PROVE  RowsSeen'
BY DEF RowsSeen, SeenBy, Key, Exists

LEMMA CodeSeen ==
    ASSUME Typed, NEW h \in Handlers, CodeStep(h), invite' = invite, cycle' = cycle
    PROVE  RowsSeen'
<1>1. \A g \in Handlers : SeenBy(g)'
  <2> SUFFICES ASSUME NEW g \in Handlers PROVE SeenBy(g)'
    OBVIOUS
  <2>1. CASE g = h
    BY <2>1, CodeTasks, IdleKept DEF SeenBy, CodeOps, Typed
  <2>2. CASE g # h
    <3>1. tasks'[g] = tasks[g]
      BY <2>2, CodeTasks DEF Typed, TasksTyped
    <3> QED BY <3>1 DEF Typed, RowsSeen, SeenBy, Key, Exists
  <2> QED BY <2>1, <2>2
<1> QED BY <1>1 DEF Typed, RowsSeen, Exists

LEMMA DiesTyped ==
    ASSUME Typed, NEW h \in Handlers, Dies(h)
    PROVE  Typed'
<1>1. TasksTyped'
  BY DoneTyped DEF Dies, Typed
<1>2. CodesTyped'
  BY DEF Dies, Abandon, Key, Typed, CodesTyped
<1>3. InvitesTyped'
  BY DEF Dies, inviteVars, Typed, InvitesTyped
<1>4. RowsSeen'
  <2>1. \A g \in Handlers : SeenBy(g)'
    <3> SUFFICES ASSUME NEW g \in Handlers PROVE SeenBy(g)'
      OBVIOUS
    <3>1. CASE g = h
      BY <3>1, IdleKept DEF Dies, Done, SeenBy, Typed, TasksTyped
    <3>2. CASE g # h
      BY <3>2 DEF Dies, Done, SeenBy, Key, Exists, inviteVars, Typed, TasksTyped, RowsSeen
    <3> QED BY <3>1, <3>2
  <2> QED BY <2>1 DEF Dies, inviteVars, Exists, Typed, RowsSeen
<1>5. LoginsTyped'
  BY DEF Dies, At, Key, Typed, LoginsTyped, TasksTyped, KeyFits, UserOps
<1> QED BY <1>1, <1>2, <1>3, <1>4, <1>5 DEF Typed

LEMMA ExpiryTyped ==
    ASSUME Typed, Expiry \/ StartCli \/ LoginUrl
    PROVE  Typed' /\ tasks' = tasks
<1> USE DEF Typed, codeVars, inviteVars, loginVars
<1>1. ASSUME NEW u \in Users, WindowEnds(u) PROVE LoginsTyped'
  BY <1>1 DEF WindowEnds, LoginsTyped
<1>2. ASSUME NEW c \in Challenges, ChallengeExpires(c) PROVE LoginsTyped'
  BY <1>2 DEF ChallengeExpires, Forget, LoginsTyped
<1>3. ASSUME CliExpires \/ OAuthExpires \/ StartCli \/ LoginUrl PROVE LoginsTyped'
  <2>1. /\ challenges' = challenges /\ failures' = failures /\ window' = window /\ stuck' = stuck
        /\ \/ cli' = cli \/ cli' = NoLogin \/ \E b \in BOOLEAN : cli' = [cli EXCEPT !.open = b]
        /\ \/ oauth' = oauth \/ oauth' = NoLogin \/ oauth' = [oauth EXCEPT !.open = TRUE]
    <3>1. CASE CliExpires
      BY <3>1 DEF CliExpires
    <3>2. CASE OAuthExpires
      BY <3>2 DEF OAuthExpires
    <3>3. CASE StartCli \/ LoginUrl
      BY <3>3 DEF StartCli, LoginUrl
    <3> QED BY <1>3, <3>1, <3>2, <3>3
  <2>2. NoLogin \in [open : BOOLEAN, result : Users \cup {NoUser}]
    BY DEF NoLogin
  <2>3. cli' \in [open : BOOLEAN, result : Users \cup {NoUser}]
    BY <2>1, <2>2 DEF LoginsTyped
  <2>4. oauth' \in [open : BOOLEAN, result : Users \cup {NoUser}]
    BY <2>1, <2>2 DEF LoginsTyped
  <2> QED BY <2>1, <2>3, <2>4 DEF LoginsTyped
<1>4. /\ tasks' = tasks /\ invite' = invite /\ cycle' = cycle /\ codeVars' = codeVars
      /\ account' = account /\ session' = session /\ member' = member /\ lock' = lock
  BY DEF Expiry, WindowEnds, ChallengeExpires, CliExpires, OAuthExpires, StartCli, LoginUrl
<1>5. LoginsTyped'
  BY <1>1, <1>2, <1>3 DEF Expiry
<1>6. TasksTyped' /\ CodesTyped' /\ InvitesTyped'
  BY <1>4 DEF TasksTyped, CodesTyped, InvitesTyped
<1> QED BY <1>4, <1>5, <1>6, SeenStays

LEMMA StepTyped == Typed /\ [Next]_vars => Typed'
<1> SUFFICES ASSUME Typed, [Next]_vars PROVE Typed'
  OBVIOUS
<1>1. CASE CodeActions
  <2>1. InvitesTyped' /\ LoginsTyped' /\ invite' = invite /\ cycle' = cycle
    BY <1>1 DEF CodeActions, Typed, InvitesTyped, LoginsTyped, inviteVars, loginVars
  <2>2. CASE \E h \in Handlers : CodeStep(h)
    BY <2>1, <2>2, CodeTasks, CodesStep, CodeSeen DEF Typed
  <2>3. CASE \E k \in Keys : CodeExpiry(k)
    <3>1. CodesTyped' /\ tasks' = tasks
      BY <2>3, CodesExpire DEF Typed
    <3>2. TasksTyped'
      BY <3>1 DEF Typed, TasksTyped
    <3> QED BY <2>1, <3>1, <3>2, SeenStays DEF Typed
  <2> QED BY <1>1, <2>2, <2>3 DEF CodeActions
<1>2. CASE InviteActions
  <2>1. LoginsTyped'
    BY <1>2 DEF InviteActions, Typed, LoginsTyped, loginVars
  <2>2. ASSUME NEW h \in Handlers, InviteStep(h) PROVE Typed'
    <3>1. CodesTyped'
      BY <2>2 DEF Typed, CodesTyped, codeVars, InviteStep, InviteUser, InviteAddress, MarkAccepted, UpsertInvite, Resend,
             ReadToAccept, ReadToDecline, RecordDelivery, ReceiveFeedback, RecordFeedback, Accept, Decline
    <3> QED BY <2>1, <2>2, <3>1, InviteTasks, InvitesStep, InviteSeen DEF Typed
  <2>3. CASE Maintenance
    <3>1. RowsStay
      BY <2>3, MaintenanceStep
    <3>2. CodesTyped' /\ TasksTyped'
      BY <2>3, <3>1 DEF RowsStay, Typed, CodesTyped, codeVars, TasksTyped, Maintenance, BeginCycle, RevokeStale,
             RevokeFails, RemindFails, CycleLost, Remind, LockExpires, InviteExpires
    <3>3. ASSUME NEW h \in Handlers PROVE SeenBy(h)'
      BY <3>1 DEF RowsStay, Typed, RowsSeen, SeenBy, Key, TasksTyped, KeyFits, UserOps
    <3>4. ASSUME NEW c \in Cycles, NEW u \in (cycle[c].stale \cup cycle[c].due)' PROVE Exists(u)'
      BY <3>1, <3>4 DEF RowsStay, InvitesTyped, CycleKind
    <3> QED BY <2>1, <3>1, <3>2, <3>3, <3>4 DEF RowsStay, Typed, RowsSeen
  <2> QED BY <1>2, <2>2, <2>3 DEF InviteActions
<1>3. ASSUME NEW h \in Handlers, LoginStep(h) PROVE Typed'
  <2>1. CodesTyped'
    BY <1>3, LoginRows DEF Typed, CodesTyped
  <2> QED BY <1>3, <2>1, LoginTasks, LoginRows, LoginSeen DEF Typed
<1>4. ASSUME NEW h \in Handlers, Dies(h) PROVE Typed'
  BY <1>4, DiesTyped
<1>5. CASE Expiry \/ StartCli \/ LoginUrl
  BY <1>5, ExpiryTyped
<1>6. CASE UNCHANGED vars
  BY <1>6, SeenStays DEF vars, codeVars, inviteVars, loginVars, Typed, TasksTyped, CodesTyped, InvitesTyped, LoginsTyped
<1> QED BY <1>1, <1>2, <1>3, <1>4, <1>5, <1>6 DEF Next

\* Every request holds a key of the kind its next command is about, and writes to an
\* invitation's row only if there is one.
THEOREM AccountsTyped == Spec => []Typed
BY InitTyped, StepTyped, PTL DEF Spec

-----------------------------------------------------------------------------
(* Who moves, and from which command to which *)

CodeNext == CodeOps \cup {"idle"}
InviteNext == {"idle", "mark", "upsert", "deliver", "feedback", "accept", "decline"}
LoginFrom == {"idle", "password", "expire", "refuse", "granted", "sync", "joining",
              "approve", "poll", "resolve", "exchange"}
LoginNext == {"idle", "reserve", "bypass", "check", "password", "expire", "sync", "joining",
              "approve", "poll", "resolve", "exchange"}

\* Only the request of h moves, from one of these commands to one of those.
Moves(h, from, to) ==
    /\ \A g \in Handlers : g # h => tasks'[g] = tasks[g]
    /\ tasks[h].op \in from
    /\ tasks'[h].op \in to

\* The command of a request that starts.
StartsWith(h, op) ==
    /\ tasks[h].op = "idle"
    /\ tasks' = [tasks EXCEPT ![h] = tasks'[h]]
    /\ tasks'[h].op = op

LEMMA StartOp ==
    ASSUME TasksTyped, NEW h \in Handlers, NEW op \in CodeOps \cup UserOps,
           NEW k \in Keys, NEW why, NEW c, Start(h, Task(op, k, why, c))
    PROVE  StartsWith(h, op)
BY DEF TasksTyped, Start, Free, Task, Idle, StartsWith

LEMMA CodeMoves ==
    ASSUME Typed, NEW h \in Handlers, CodeStep(h)
    PROVE  Moves(h, CodeOps, CodeNext)
<1>1. tasks[h].op \in CodeOps
  BY DEF CodeStep, CodeOps, At, ReserveCooldown, Throttled, StoreCode, ClearAttempts, MailDelivered,
         MailFails, CheckAttempts, Compare, CountWrong, Consume
<1> QED BY <1>1, CodeTasks, IdleKept DEF Moves, CodeNext, Typed, TasksTyped

LEMMA InviteMoves ==
    ASSUME Typed, NEW h \in Handlers, InviteStep(h)
    PROVE  Moves(h, InviteNext, InviteNext)
<1> USE DEF Typed, TasksTyped
<1>1. ASSUME NEW u \in Users, NEW r \in Roles, InviteAddress(h, u, r) PROVE StartsWith(h, "upsert")
  BY <1>1 DEF InviteAddress, Start, Free, Task, Idle, StartsWith
<1>2. ASSUME NEW op \in InviteNext, StartsWith(h, op) PROVE Moves(h, InviteNext, InviteNext)
  BY <1>2 DEF StartsWith, Moves, InviteNext
<1>7. CASE \/ \E u \in Users : Resend(h, u) \/ ReadToDecline(h, u) \/ \E r \in Roles : InviteUser(h, u, r)
           \/ \E u \in Users, kind \in {"bounced", "complained"} : ReceiveFeedback(h, u, kind)
  <2>1. \E op \in {"mark", "deliver", "decline", "feedback"} : StartsWith(h, op)
    BY <1>7, StartOp DEF Resend, ReadToDecline, ReceiveFeedback, InviteUser, UserOps, Keys
  <2> QED BY <1>2, <2>1 DEF InviteNext
<1>3. ASSUME NEW u \in Users, ReadToAccept(h, u) PROVE Moves(h, InviteNext, InviteNext)
  <2>1. Free(h) /\ Read(h, "accept", u, "none")
    BY <1>3 DEF ReadToAccept
  <2>2. tasks'[h].op = "accept" /\ tasks' = [tasks EXCEPT ![h] = tasks'[h]]
    BY <2>1, ReadTyped DEF Fields
  <2> QED BY <2>1, <2>2, IdleKept DEF Free, Moves, InviteNext
<1>4. CASE UpsertInvite(h)
  BY <1>4 DEF UpsertInvite, At, Moves, InviteNext, Kept
<1>5. ASSUME tasks[h].op \in InviteNext, Done(h) PROVE Moves(h, InviteNext, InviteNext)
  BY <1>5, IdleKept DEF Done, Moves, InviteNext
<1>6. CASE \/ MarkAccepted(h) \/ RecordFeedback(h) \/ Accept(h) \/ Decline(h)
           \/ \E result \in {"sent", "failed"} : RecordDelivery(h, result)
  BY <1>5, <1>6 DEF MarkAccepted, RecordFeedback, Accept, Decline, RecordDelivery, At, InviteNext
<1>8. ASSUME NEW u \in Users, NEW r \in Roles, InviteAddress(h, u, r) PROVE Moves(h, InviteNext, InviteNext)
  BY <1>1, <1>2, <1>8 DEF InviteNext
<1> QED BY <1>3, <1>4, <1>6, <1>7, <1>8 DEF InviteStep

LEMMA LoginMoves ==
    ASSUME Typed, NEW h \in Handlers, LoginStep(h)
    PROVE  Moves(h, LoginFrom, LoginNext)
<1> USE DEF Typed, TasksTyped
<1>1. ASSUME NEW op \in LoginNext, StartsWith(h, op) PROVE Moves(h, LoginFrom, LoginNext)
  BY <1>1 DEF StartsWith, Moves, LoginFrom
<1>2. ASSUME tasks[h].op \in LoginFrom, Done(h) PROVE Moves(h, LoginFrom, LoginNext)
  BY <1>2, IdleKept DEF Done, Moves, LoginNext
<1>3. ASSUME tasks[h].op \in LoginFrom, NEW op \in {"expire", "sync"}, Go(h, op) PROVE Moves(h, LoginFrom, LoginNext)
  BY <1>3 DEF Go, Moves, LoginNext, Kept
<1>4. ASSUME NEW c \in Challenges, RightPassword(h, c) PROVE Moves(h, LoginFrom, LoginNext)
  BY <1>4 DEF RightPassword, At, Moves, LoginFrom, LoginNext, Kept
<1>5. CASE ReadToSync(h)
  <2>1. tasks[h].op = "sync" /\ tasks[h].key \in Users
        /\ tasks[h].why \in {"none", "login", "google", "bounced", "complained"}
    BY <1>5 DEF ReadToSync, At, KeyFits, Kept, UserOps
  <2>2. tasks'[h].op = "joining" /\ tasks' = [tasks EXCEPT ![h] = tasks'[h]]
    BY <1>5, <2>1, ReadTyped DEF ReadToSync, Key, Fields
  <2> QED BY <2>1, <2>2 DEF Moves, LoginFrom, LoginNext
<1>6. CASE \/ \E u \in Users : Signup(h, u) \/ Login(h, u) \/ ApproveCli(h, u) \/ Callback(h, u)
           \/ \E u \in Users, c \in Challenges \cup {NoChallenge} : ResendCode(h, u, c) \/ VerifyEmail(h, u, c)
           \/ \E d \in Deletions : AskDeletionCode(h, d) \/ ConfirmDeletion(h, d)
           \/ PollCli(h) \/ ReadExchange(h)
  <2>1. \E op \in {"reserve", "bypass", "password", "check", "approve", "resolve", "poll", "exchange"} : StartsWith(h, op)
    BY <1>6, StartOp DEF Signup, Login, ResendCode, VerifyEmail, ApproveCli, Callback, AskDeletionCode, ConfirmDeletion,
                    PollCli, ReadExchange, CodeOps, UserOps, Keys, LoginsTyped
  <2>2. PICK op \in {"reserve", "bypass", "password", "check", "approve", "resolve", "poll", "exchange"} : StartsWith(h, op)
    BY <2>1
  <2>3. op \in LoginNext
    BY DEF LoginNext
  <2> QED BY <1>1, <2>2, <2>3
<1>7. CASE \/ WrongPassword(h) \/ SetWindow(h) \/ Refused(h) \/ SyncInvites(h) \/ DeletionGranted(h)
           \/ StoreCliResult(h) \/ TakeCliResult(h) \/ Exchange(h) \/ Verified(h) \/ ResolveUser(h)
  <2>1. tasks[h].op \in LoginFrom
    BY <1>7 DEF WrongPassword, SetWindow, Refused, SyncInvites, DeletionGranted, StoreCliResult, TakeCliResult,
                Exchange, Verified, ResolveUser, At, LoginFrom
  <2>2. Done(h) \/ Go(h, "expire") \/ Go(h, "sync")
    BY <1>7 DEF WrongPassword, SetWindow, Refused, SyncInvites, DeletionGranted, StoreCliResult, TakeCliResult,
                Exchange, Verified, ResolveUser
  <2> QED BY <1>2, <1>3, <2>1, <2>2
<1> QED BY <1>4, <1>5, <1>6, <1>7 DEF LoginStep

LEMMA DiesMoves ==
    ASSUME Typed, NEW h \in Handlers, Dies(h)
    PROVE  Moves(h, CodeOps \cup UserOps \cup {"idle"}, {"idle"})
BY IdleKept DEF Dies, Done, Moves, Typed, TasksTyped, Kept

-----------------------------------------------------------------------------
(* Codes *)

LEMMA CooldownStep == Typed /\ CooldownMeansCode /\ [Next]_vars => CooldownMeansCode'
<1> SUFFICES ASSUME Typed, CooldownMeansCode, [Next]_vars PROVE CooldownMeansCode'
  OBVIOUS
\* The promise holds on after a step of a request that stores no code.
<1>1. ASSUME codeVars' = codeVars, \A g \in Handlers : tasks[g].op = "store" => tasks'[g] = tasks[g]
      PROVE  CooldownMeansCode'
  BY <1>1 DEF CooldownMeansCode, codeVars, At, Key
<1>2. ASSUME NEW h \in Handlers, CodeStep(h) PROVE CooldownMeansCode'
  <2>1. Moves(h, CodeOps, CodeNext) /\ Key(h) \in Keys
    BY <1>2, CodeMoves DEF Moves, Typed, TasksTyped, KeyFits, Key
  <2>2. CASE ReserveCooldown(h)
    BY <2>1, <2>2 DEF ReserveCooldown, CooldownMeansCode, At, Key, Go, Moves, Typed, TasksTyped, Kept
  <2>3. CASE StoreCode(h)
    BY <2>1, <2>3, CodeAssumption DEF StoreCode, CooldownMeansCode, At, Key, Moves, Typed, CodesTyped
  <2>4. CASE Consume(h)
    BY <2>1, <2>4 DEF Consume, CooldownMeansCode, At, Key, Moves, Typed, CodesTyped
  <2>5. CASE ClearAttempts(h) \/ MailDelivered(h) \/ CountWrong(h)
    BY <2>1, <2>5 DEF ClearAttempts, MailDelivered, CountWrong, CooldownMeansCode, At, Key, Moves
  <2>6. CASE Throttled(h) \/ MailFails(h) \/ CheckAttempts(h) \/ Compare(h)
    <3>1. codeVars' = codeVars /\ tasks[h].op # "store"
      BY <2>6 DEF Throttled, MailFails, CheckAttempts, Compare, At
    <3> QED BY <1>1, <2>1, <3>1 DEF Moves
  <2> QED BY <1>2, <2>2, <2>3, <2>4, <2>5, <2>6 DEF CodeStep
<1>3. ASSUME NEW k \in Keys, CodeExpiry(k) PROVE CooldownMeansCode'
  BY <1>3 DEF CodeExpiry, CooldownExpires, CodeExpires, AttemptsExpire, CooldownMeansCode, At, Key, Typed, CodesTyped
<1>4. ASSUME NEW h \in Handlers, InviteStep(h) PROVE CooldownMeansCode'
  <2>1. codeVars' = codeVars
    BY <1>4 DEF InviteStep, InviteUser, InviteAddress, MarkAccepted, UpsertInvite, Resend,
           ReadToAccept, ReadToDecline, RecordDelivery, ReceiveFeedback, RecordFeedback, Accept, Decline
  <2> QED BY <1>1, <1>4, <2>1, InviteMoves DEF Moves, InviteNext
<1>5. CASE Maintenance
  <2>1. codeVars' = codeVars /\ tasks' = tasks
    BY <1>5 DEF Maintenance, BeginCycle, RevokeStale, RevokeFails, RemindFails, CycleLost, Remind, LockExpires, InviteExpires
  <2> QED BY <1>1, <2>1
<1>6. ASSUME NEW h \in Handlers, LoginStep(h) PROVE CooldownMeansCode'
  <2>1. codeVars' = codeVars
    BY <1>6, LoginRows DEF codeVars
  <2> QED BY <1>1, <1>6, <2>1, LoginMoves DEF Moves, LoginFrom
<1>7. ASSUME NEW h \in Handlers, Dies(h) PROVE CooldownMeansCode'
  <2>1. \A g \in Handlers : g # h => tasks'[g] = tasks[g]
    BY <1>7, DiesMoves DEF Moves
  <2>2. /\ code' = code /\ cooldown' = cooldown
        /\ orphaned \subseteq orphaned'
        /\ At(h, "store") /\ Key(h) \in cooldown => Key(h) \in orphaned'
    BY <1>7 DEF Dies, Abandon
  <2> QED BY <2>1, <2>2 DEF At, Key, CooldownMeansCode
<1>8. CASE Expiry \/ StartCli \/ LoginUrl \/ UNCHANGED vars
  <2>1. codeVars' = codeVars /\ tasks' = tasks
    BY <1>8 DEF Expiry, WindowEnds, ChallengeExpires, CliExpires, OAuthExpires, StartCli, LoginUrl, vars, codeVars
  <2> QED BY <1>1, <2>1
<1> QED BY <1>2, <1>3, <1>4, <1>5, <1>6, <1>7, <1>8 DEF Next, CodeActions, InviteActions

\* CooldownMeansCode: what the login handler relies on when it answers a throttled
\* request: while a key cools down there is a code to type, unless the request that
\* reserved the cooldown has not stored its code yet or died before it did.
THEOREM CodesBehindCooldowns == Spec => []CooldownMeansCode
<1>1. Init => CooldownMeansCode
  BY DEF Init, CodeInit, CooldownMeansCode
<1> QED BY <1>1, CooldownStep, AccountsTyped, PTL DEF Spec

-----------------------------------------------------------------------------
(* Failed logins *)

LEMMA LockoutStep == Typed /\ LockoutEnds /\ [Next]_vars => LockoutEnds'
<1> SUFFICES ASSUME Typed, LockoutEnds, [Next]_vars PROVE LockoutEnds'
  OBVIOUS
<1>1. ASSUME failures' = failures, window' = window, stuck' = stuck,
             \A g \in Handlers : tasks[g].op = "expire" => tasks'[g] = tasks[g]
      PROVE  LockoutEnds'
  BY <1>1 DEF LockoutEnds, At, Key
<1>2. CASE CodeActions
  <2>1. failures' = failures /\ window' = window /\ stuck' = stuck
    BY <1>2 DEF CodeActions, loginVars
  <2>2. CASE \E h \in Handlers : CodeStep(h)
    BY <1>1, <2>1, <2>2, CodeMoves DEF Moves, CodeOps
  <2>3. CASE \E k \in Keys : CodeExpiry(k)
    BY <1>1, <2>1, <2>3, CodesExpire DEF Typed
  <2> QED BY <1>2, <2>2, <2>3 DEF CodeActions
<1>3. CASE InviteActions
  <2>1. failures' = failures /\ window' = window /\ stuck' = stuck
    BY <1>3 DEF InviteActions, loginVars
  <2>2. CASE \E h \in Handlers : InviteStep(h)
    BY <1>1, <2>1, <2>2, InviteMoves DEF Moves, InviteNext
  <2>3. CASE Maintenance
    BY <1>1, <2>1, <2>3, MaintenanceStep DEF RowsStay
  <2> QED BY <1>3, <2>2, <2>3 DEF InviteActions
<1>4. ASSUME NEW h \in Handlers, LoginStep(h) PROVE LockoutEnds'
  <2>1. Moves(h, LoginFrom, LoginNext)
    BY <1>4, LoginMoves
  <2>2. CASE WrongPassword(h)
    <3>1. Key(h) \in Users /\ failures[Key(h)] \in Nat
      BY <2>2 DEF WrongPassword, At, Key, Typed, TasksTyped, KeyFits, UserOps, LoginsTyped
    <3>2. failures' = [failures EXCEPT ![Key(h)] = failures[Key(h)] + 1]
      BY <2>2 DEF WrongPassword
    <3>3. CASE failures[Key(h)] = 0
      <4>1. tasks'[h].op = "expire" /\ tasks'[h].key = Key(h)
        BY <2>2, <3>1, <3>2, <3>3 DEF WrongPassword, Go, Key, Typed, TasksTyped, Kept, LoginsTyped
      <4> QED BY <2>1, <2>2, <3>1, <3>2, <4>1 DEF Moves, WrongPassword, LockoutEnds, At, Key, Typed, LoginsTyped
    <3>4. CASE failures[Key(h)] > 0
      BY <2>1, <2>2, <3>1, <3>2, <3>4 DEF Moves, WrongPassword, LockoutEnds, At, Key, Typed, LoginsTyped
    <3> QED BY <3>1, <3>3, <3>4
  <2>3. CASE SetWindow(h)
    BY <2>1, <2>3 DEF Moves, SetWindow, LockoutEnds, At, Key
  <2>4. ASSUME NEW c \in Challenges, RightPassword(h, c) PROVE LockoutEnds'
    <3>1. /\ \A g \in Handlers : g # h => tasks'[g] = tasks[g]
          /\ tasks[h].op = "password" /\ Key(h) \in Users
      BY <2>1, <2>4 DEF Moves, RightPassword, At, Key, Typed, TasksTyped, KeyFits, UserOps
    <3>2. /\ failures' = [failures EXCEPT ![Key(h)] = 0]
          /\ window' = window \ {Key(h)} /\ stuck' = stuck \ {Key(h)}
      BY <2>4 DEF RightPassword
    <3>3. failures'[Key(h)] = 0 /\ \A u \in Users : u # Key(h) => failures'[u] = failures[u]
      BY <3>1, <3>2 DEF Typed, LoginsTyped
    <3> QED BY <3>1, <3>2, <3>3 DEF LockoutEnds, At, Key
  <2>5. ASSUME ~WrongPassword(h), ~SetWindow(h), ~\E c \in Challenges : RightPassword(h, c) PROVE LockoutEnds'
    <3>1. /\ failures' = failures /\ window' = window /\ stuck' = stuck
          /\ tasks[h].op # "expire"
      <4>1. CASE \/ \E u \in Users : Signup(h, u) \/ Login(h, u) \/ ApproveCli(h, u) \/ Callback(h, u)
                 \/ \E u \in Users, c \in Challenges \cup {NoChallenge} : ResendCode(h, u, c) \/ VerifyEmail(h, u, c)
                 \/ \E d \in Deletions : AskDeletionCode(h, d) \/ ConfirmDeletion(h, d)
                 \/ PollCli(h) \/ ReadExchange(h)
        BY <4>1, IdleKept DEF Signup, Login, ResendCode, VerifyEmail, ApproveCli, Callback, AskDeletionCode, ConfirmDeletion,
                    PollCli, ReadExchange, Start, Free, loginVars
      <4>2. CASE \/ Refused(h) \/ SyncInvites(h) \/ DeletionGranted(h) \/ ReadToSync(h)
                 \/ StoreCliResult(h) \/ TakeCliResult(h) \/ Exchange(h) \/ Verified(h) \/ ResolveUser(h)
        BY <4>2 DEF Refused, SyncInvites, DeletionGranted, ReadToSync, StoreCliResult, TakeCliResult,
                    Exchange, Verified, ResolveUser, At, loginVars
      <4> QED BY <1>4, <2>5, <4>1, <4>2 DEF LoginStep
    <3> QED BY <1>1, <2>1, <3>1 DEF Moves
  <2> QED BY <2>2, <2>3, <2>4, <2>5
<1>5. ASSUME NEW h \in Handlers, Dies(h) PROVE LockoutEnds'
  BY <1>5, DiesMoves DEF Moves, Dies, At, Key, LockoutEnds
<1>6. ASSUME NEW u \in Users, WindowEnds(u) PROVE LockoutEnds'
  BY <1>6 DEF WindowEnds, LockoutEnds, At, Key, Typed, LoginsTyped
<1>7. CASE (\E c \in Challenges : ChallengeExpires(c)) \/ CliExpires \/ OAuthExpires \/ StartCli \/ LoginUrl \/ UNCHANGED vars
  <2>1. tasks' = tasks /\ failures' = failures /\ window' = window /\ stuck' = stuck
    BY <1>7 DEF ChallengeExpires, CliExpires, OAuthExpires, StartCli, LoginUrl, vars, loginVars
  <2> QED BY <1>1, <2>1
<1> QED BY <1>2, <1>3, <1>4, <1>5, <1>6, <1>7 DEF Next, Expiry

\* LockoutEnds: a counter of failed logins always goes away by itself: it has an
\* expiry, or the request that counted the first failure is about to set it, or
\* that request died before it could.
THEOREM LockoutsEnd == Spec => []LockoutEnds
<1>1. Init => LockoutEnds
  BY DEF Init, LockoutEnds
<1> QED BY <1>1, LockoutStep, AccountsTyped, PTL DEF Spec

-----------------------------------------------------------------------------
(* Tokens *)

IsVerified(u) == account[u] = "verified"

TokenOps == {"sync", "joining", "exchange", "approve", "poll"}

\* What is on its way to a token carries a verified user as much as the token does.
TokensInv ==
    /\ TokensAreVerified
    /\ \A h \in Handlers : tasks[h].op \in TokenOps => IsVerified(Key(h))
    /\ cli.result # NoUser => IsVerified(cli.result)
    /\ oauth.result # NoUser => IsVerified(oauth.result)

\* A step that gives nobody a token and puts no one on the way to it.
LEMMA TokensStay ==
    ASSUME Typed, TokensInv, NEW h \in Handlers, \A g \in Handlers : g # h => tasks'[g] = tasks[g],
           tasks'[h].op \notin TokenOps, session' = session,
           cli' = cli \/ cli'.result \in {NoUser, cli.result},
           oauth' = oauth \/ oauth'.result \in {NoUser, oauth.result},
           \A u \in Users : IsVerified(u) => IsVerified(u)'
    PROVE  TokensInv'
<1>1. \A u \in session' : IsVerified(u)'
  BY DEF TokensInv, TokensAreVerified, IsVerified, Typed, InvitesTyped
<1>2. ASSUME NEW g \in Handlers, tasks'[g].op \in TokenOps PROVE IsVerified(Key(g))'
  BY <1>2 DEF TokensInv, Key, Typed, TasksTyped, KeyFits, UserOps, TokenOps
<1>3. cli'.result # NoUser => IsVerified(cli.result)'
  BY DEF TokensInv, Typed, LoginsTyped
<1>4. oauth'.result # NoUser => IsVerified(oauth.result)'
  BY DEF TokensInv, Typed, LoginsTyped
<1> QED BY <1>1, <1>2, <1>3, <1>4 DEF TokensInv, TokensAreVerified, IsVerified

\* Nobody who was verified ceases to be.
LEMMA StaysVerified ==
    ASSUME Typed, [Next]_vars
    PROVE  \A u \in Users : IsVerified(u) => IsVerified(u)'
<1>1. ASSUME NEW h \in Handlers, LoginStep(h)
      PROVE  \/ account' = account
             \/ \E x \in Users : account' = [account EXCEPT ![x] = "verified"]
             \/ \E x \in Users : account[x] # "verified" /\ account' = [account EXCEPT ![x] = "unverified"]
  <2>1. CASE \E u \in Users : Signup(h, u)
    BY <2>1 DEF Signup
  <2>2. CASE Verified(h) \/ ResolveUser(h)
    BY <2>2 DEF Verified, ResolveUser, At, Key, Typed, TasksTyped, KeyFits, UserOps
  <2>3. CASE \/ \E u \in Users : Login(h, u) \/ ApproveCli(h, u) \/ Callback(h, u)
             \/ \E u \in Users, c \in Challenges \cup {NoChallenge} : ResendCode(h, u, c) \/ VerifyEmail(h, u, c)
             \/ \E d \in Deletions : AskDeletionCode(h, d) \/ ConfirmDeletion(h, d)
             \/ PollCli(h) \/ ReadExchange(h)
    BY <2>3 DEF Login, ResendCode, VerifyEmail, ApproveCli, Callback, AskDeletionCode, ConfirmDeletion, PollCli, ReadExchange
  <2>4. CASE \/ \E c \in Challenges : RightPassword(h, c)
             \/ WrongPassword(h) \/ SetWindow(h) \/ Refused(h) \/ SyncInvites(h) \/ DeletionGranted(h) \/ ReadToSync(h)
             \/ StoreCliResult(h) \/ TakeCliResult(h) \/ Exchange(h)
    BY <2>4 DEF RightPassword, WrongPassword, SetWindow, Refused, SyncInvites, DeletionGranted, ReadToSync,
                StoreCliResult, TakeCliResult, Exchange
  <2> QED BY <1>1, <2>1, <2>2, <2>3, <2>4 DEF LoginStep
<1>2. ASSUME NEW h \in Handlers, InviteStep(h) PROVE account' = account
  BY <1>2 DEF InviteStep, InviteUser, InviteAddress, MarkAccepted, UpsertInvite, Resend, ReadToAccept, ReadToDecline,
         RecordDelivery, ReceiveFeedback, RecordFeedback, Accept, Decline
<1>3. CASE CodeActions \/ Maintenance \/ Expiry \/ StartCli \/ LoginUrl \/ (\E h \in Handlers : Dies(h)) \/ UNCHANGED vars
  <2>1. account' = account
    BY <1>3 DEF CodeActions, Maintenance, BeginCycle, RevokeStale, RevokeFails, RemindFails, CycleLost, Remind, LockExpires, InviteExpires,
                Expiry, WindowEnds, ChallengeExpires, CliExpires, OAuthExpires, StartCli, LoginUrl, Dies, vars
  <2> QED BY <2>1 DEF IsVerified
<1>4. ASSUME \/ account' = account
             \/ \E x \in Users : account' = [account EXCEPT ![x] = "verified"]
             \/ \E x \in Users : account[x] # "verified" /\ account' = [account EXCEPT ![x] = "unverified"]
      PROVE  \A u \in Users : IsVerified(u) => IsVerified(u)'
  BY <1>4 DEF IsVerified, Typed, InvitesTyped
<1> QED BY <1>1, <1>2, <1>3, <1>4 DEF Next, InviteActions

LEMMA TokensStep == Typed /\ TokensInv /\ [Next]_vars => TokensInv'
<1> SUFFICES ASSUME Typed, TokensInv, [Next]_vars PROVE TokensInv'
  OBVIOUS
<1>1. \A u \in Users : IsVerified(u) => IsVerified(u)'
  BY StaysVerified
\* No request moves at all.
<1>2. ASSUME tasks' = tasks, session' = session,
             cli' = cli \/ cli'.result \in {NoUser, cli.result},
             oauth' = oauth \/ oauth'.result \in {NoUser, oauth.result}
      PROVE  TokensInv'
  <2>1. \A u \in session' : IsVerified(u)'
    BY <1>1, <1>2 DEF TokensInv, TokensAreVerified, IsVerified, Typed, InvitesTyped
  <2>2. ASSUME NEW g \in Handlers, tasks'[g].op \in TokenOps PROVE IsVerified(Key(g))'
    BY <1>1, <1>2, <2>2 DEF TokensInv, Key, Typed, TasksTyped, KeyFits, UserOps, TokenOps
  <2>3. cli'.result # NoUser => IsVerified(cli.result)'
    BY <1>1, <1>2 DEF TokensInv, Typed, LoginsTyped
  <2>4. oauth'.result # NoUser => IsVerified(oauth.result)'
    BY <1>1, <1>2 DEF TokensInv, Typed, LoginsTyped
  <2> QED BY <2>1, <2>2, <2>3, <2>4 DEF TokensInv, TokensAreVerified, IsVerified
<1>3. CASE CodeActions
  <2>1. session' = session /\ cli' = cli /\ oauth' = oauth
    BY <1>3 DEF CodeActions
  <2>2. ASSUME NEW h \in Handlers, CodeStep(h) PROVE TokensInv'
    BY <1>1, <2>1, <2>2, CodeMoves, TokensStay DEF Moves, CodeNext, CodeOps, TokenOps
  <2>3. ASSUME NEW k \in Keys, CodeExpiry(k) PROVE TokensInv'
    BY <1>2, <2>1, <2>3, CodesExpire DEF Typed
  <2> QED BY <1>3, <2>2, <2>3 DEF CodeActions
<1>4. CASE InviteActions
  <2>1. cli' = cli /\ oauth' = oauth
    BY <1>4 DEF InviteActions
  <2>2. ASSUME NEW h \in Handlers, InviteStep(h) PROVE TokensInv'
    <3>1. session' = session
      BY <2>2 DEF InviteStep, InviteUser, InviteAddress, MarkAccepted, UpsertInvite, Resend, ReadToAccept, ReadToDecline,
             RecordDelivery, ReceiveFeedback, RecordFeedback, Accept, Decline
    <3> QED BY <1>1, <2>1, <2>2, <3>1, InviteMoves, TokensStay DEF Moves, InviteNext, TokenOps
  <2>3. CASE Maintenance
    <3>1. session' = session
      BY <2>3 DEF Maintenance, BeginCycle, RevokeStale, RevokeFails, RemindFails, CycleLost, Remind, LockExpires, InviteExpires
    <3> QED BY <1>2, <2>1, <2>3, <3>1, MaintenanceStep DEF RowsStay
  <2> QED BY <1>4, <2>2, <2>3 DEF InviteActions
<1>5. ASSUME NEW h \in Handlers, LoginStep(h) PROVE TokensInv'
  <2>1. Moves(h, LoginFrom, LoginNext)
    BY <1>5, LoginMoves
  <2>2. \A g \in Handlers : g # h => tasks'[g] = tasks[g]
    BY <2>1 DEF Moves
  \* Only this request's user gets nearer to a token, and that user is verified.
  <2>3. ASSUME tasks'[h].op \in TokenOps => Key(h)' \in Users /\ IsVerified(Key(h))',
               \A u \in session' : u \in session \/ IsVerified(u)',
               cli' = cli \/ cli'.result \in {NoUser, cli.result} \/ IsVerified(cli.result)',
               oauth' = oauth \/ oauth'.result \in {NoUser, oauth.result} \/ IsVerified(oauth.result)'
        PROVE  TokensInv'
    <3>1. \A u \in session' : IsVerified(u)'
      BY <1>1, <2>3 DEF TokensInv, TokensAreVerified, IsVerified, Typed, InvitesTyped
    <3>2. ASSUME NEW g \in Handlers, tasks'[g].op \in TokenOps PROVE IsVerified(Key(g))'
      BY <1>1, <2>2, <2>3, <3>2 DEF TokensInv, Key, Typed, TasksTyped, KeyFits, UserOps, TokenOps
    <3>3. cli'.result # NoUser => IsVerified(cli.result)'
      BY <1>1, <2>3 DEF TokensInv, Typed, LoginsTyped
    <3>4. oauth'.result # NoUser => IsVerified(oauth.result)'
      BY <1>1, <2>3 DEF TokensInv, Typed, LoginsTyped
    <3> QED BY <3>1, <3>2, <3>3, <3>4 DEF TokensInv, TokensAreVerified, IsVerified
  <2>4. ASSUME tasks'[h].op \notin TokenOps, session' = session,
               cli' = cli \/ cli' = NoLogin,
               oauth' = oauth \/ oauth' = [oauth EXCEPT !.open = FALSE]
        PROVE  TokensInv'
    BY <2>3, <2>4 DEF NoLogin, Typed, LoginsTyped
  <2>5. ASSUME NEW u \in Users,
               Signup(h, u) \/ Login(h, u) \/ Callback(h, u)
               \/ \E c \in Challenges \cup {NoChallenge} : ResendCode(h, u, c) \/ VerifyEmail(h, u, c)
        PROVE  TokensInv'
    <3>1. \E op \in {"reserve", "bypass", "password", "check", "resolve"} : StartsWith(h, op)
      BY <2>5, StartOp DEF Signup, Login, ResendCode, VerifyEmail, Callback, CodeOps, UserOps, Keys, Typed
    <3>2. session' = session /\ cli' = cli /\ (oauth' = oauth \/ oauth' = [oauth EXCEPT !.open = FALSE])
      BY <2>5 DEF Signup, Login, ResendCode, VerifyEmail, Callback
    <3> QED BY <2>4, <3>1, <3>2 DEF StartsWith, TokenOps
  <2>6. ASSUME NEW d \in Deletions, AskDeletionCode(h, d) \/ ConfirmDeletion(h, d)
        PROVE  TokensInv'
    <3>1. \E op \in {"reserve", "check"} : StartsWith(h, op)
      BY <2>6, StartOp DEF AskDeletionCode, ConfirmDeletion, CodeOps, Keys, Typed
    <3>2. session' = session /\ cli' = cli /\ oauth' = oauth
      BY <2>6 DEF AskDeletionCode, ConfirmDeletion
    <3> QED BY <2>4, <3>1, <3>2 DEF StartsWith, TokenOps
  \* A request that starts where a token, or a result, already is.
  <2>7. ASSUME NEW u \in Users, IsVerified(u), NEW op \in {"approve", "poll", "exchange"},
               Start(h, Task(op, u, "none", NoChallenge)), UNCHANGED <<session, cli, oauth>>
        PROVE  TokensInv'
    <3>1. tasks'[h].key = u
      BY <2>7 DEF Start, Task, Idle, Typed, TasksTyped
    <3> QED BY <1>1, <2>3, <2>7, <3>1 DEF Key, IsVerified
  <2>8. ASSUME NEW u \in Users, ApproveCli(h, u) PROVE TokensInv'
    BY <2>7, <2>8 DEF ApproveCli, TokensInv, TokensAreVerified, IsVerified
  <2>9. CASE PollCli(h)
    BY <2>7, <2>9 DEF PollCli, TokensInv, Typed, LoginsTyped
  <2>10. CASE ReadExchange(h)
    BY <2>7, <2>10 DEF ReadExchange, TokensInv, Typed, LoginsTyped
  <2>11. CASE WrongPassword(h) \/ SetWindow(h) \/ Refused(h) \/ DeletionGranted(h) \/ TakeCliResult(h)
    <3>1. Done(h) \/ Go(h, "expire")
      BY <2>11 DEF WrongPassword, SetWindow, Refused, DeletionGranted, TakeCliResult
    <3>2. tasks'[h].op \in {"idle", "expire"}
      BY <3>1, IdleKept DEF Done, Go, Typed, TasksTyped, Kept
    <3>3. session' = session /\ (cli' = cli \/ cli' = NoLogin) /\ oauth' = oauth
      BY <2>11 DEF WrongPassword, SetWindow, Refused, DeletionGranted, TakeCliResult
    <3> QED BY <2>4, <3>2, <3>3 DEF TokenOps
  <2>12. ASSUME NEW c \in Challenges, RightPassword(h, c) PROVE TokensInv'
    <3>1. tasks'[h].op = "reserve"
      BY <2>12 DEF RightPassword, Typed, TasksTyped, Kept
    <3> QED BY <2>4, <2>12, <3>1 DEF RightPassword, TokenOps
  <2>13. CASE Verified(h) \/ ResolveUser(h)
    <3>1. tasks[h].key \in Users /\ account' = [account EXCEPT ![tasks[h].key] = "verified"] /\ Go(h, "sync")
          /\ session' = session /\ cli' = cli /\ oauth' = oauth
      BY <2>13 DEF Verified, ResolveUser, At, Key, Typed, TasksTyped, KeyFits, UserOps
    <3>2. tasks'[h].key = tasks[h].key
      BY <3>1 DEF Go, Typed, TasksTyped, Kept
    <3>3. account'[tasks[h].key] = "verified"
      BY <3>1 DEF IsVerified, Typed, InvitesTyped
    <3> QED BY <2>3, <3>1, <3>2, <3>3 DEF Key, IsVerified
  <2>14. CASE ReadToSync(h)
    <3>1. tasks[h].op = "sync" /\ tasks[h].key \in Users
          /\ tasks[h].why \in {"none", "login", "google", "bounced", "complained"}
      BY <2>14 DEF ReadToSync, At, KeyFits, Kept, UserOps, Typed, TasksTyped
    <3>2. tasks'[h].key = tasks[h].key
      BY <2>14, <3>1, ReadTyped DEF ReadToSync, Key, Fields, Typed
    <3>3. account'[tasks[h].key] = "verified"
      BY <1>1, <3>1 DEF IsVerified, TokensInv, TokenOps, Key
    <3> QED BY <2>3, <2>14, <3>1, <3>2, <3>3 DEF ReadToSync, Key, IsVerified
  <2>15. CASE SyncInvites(h) \/ StoreCliResult(h) \/ Exchange(h)
    <3>1. Key(h) \in Users /\ account'[Key(h)] = "verified"
      BY <1>1, <2>15 DEF IsVerified, SyncInvites, StoreCliResult, Exchange, At, Key, Typed, TasksTyped, KeyFits, UserOps, TokensInv, TokenOps
    <3>2. tasks'[h].op \notin TokenOps
      BY <2>15, IdleKept DEF SyncInvites, StoreCliResult, Exchange, Done, Typed, TasksTyped, TokenOps
    <3>3. session' \subseteq session \cup {Key(h)}
      BY <2>15 DEF SyncInvites, StoreCliResult, Exchange
    <3>4. cli' = cli \/ cli'.result = Key(h)
      BY <2>15 DEF SyncInvites, StoreCliResult, Exchange, Typed, LoginsTyped
    <3>5. oauth' = oauth \/ oauth'.result \in {NoUser, Key(h)}
      BY <2>15 DEF SyncInvites, StoreCliResult, Exchange, Typed, LoginsTyped
    <3>6. \A u \in session' : u \in session \/ IsVerified(u)'
      BY <3>1, <3>3 DEF IsVerified
    <3>7. IsVerified(cli.result)' \/ cli' = cli
      BY <3>1, <3>4 DEF IsVerified
    <3>8. oauth' = oauth \/ oauth'.result = NoUser \/ IsVerified(oauth.result)'
      BY <3>1, <3>5 DEF IsVerified
    <3> QED BY <2>3, <3>2, <3>6, <3>7, <3>8
  <2> QED BY <1>5, <2>5, <2>6, <2>8, <2>9, <2>10, <2>11, <2>12, <2>13, <2>14, <2>15 DEF LoginStep
<1>6. ASSUME NEW h \in Handlers, Dies(h) PROVE TokensInv'
  <2>1. tasks'[h].op = "idle" /\ \A g \in Handlers : g # h => tasks'[g] = tasks[g]
    BY <1>6, DiesMoves DEF Moves
  <2>2. session' = session /\ cli' = cli /\ oauth' = oauth
    BY <1>6 DEF Dies
  <2> QED BY <1>1, <2>1, <2>2, TokensStay DEF TokenOps
<1>7. CASE Expiry \/ StartCli \/ LoginUrl
  <2>1. tasks' = tasks /\ session' = session
    BY <1>7, ExpiryTyped DEF Expiry, WindowEnds, ChallengeExpires, CliExpires, OAuthExpires, StartCli, LoginUrl
  <2>2. cli' = cli \/ cli'.result \in {NoUser, cli.result}
    BY <1>7 DEF Expiry, WindowEnds, ChallengeExpires, CliExpires, OAuthExpires, StartCli, LoginUrl, NoLogin, Typed, LoginsTyped
  <2>3. oauth' = oauth \/ oauth'.result \in {NoUser, oauth.result}
    BY <1>7 DEF Expiry, WindowEnds, ChallengeExpires, CliExpires, OAuthExpires, StartCli, LoginUrl, NoLogin, Typed, LoginsTyped
  <2> QED BY <1>2, <2>1, <2>2, <2>3
<1>8. CASE UNCHANGED vars
  BY <1>2, <1>8 DEF vars
<1> QED BY <1>3, <1>4, <1>5, <1>6, <1>7, <1>8 DEF Next

\* TokensAreVerified: nobody holds a token before the address is verified, whichever
\* of the code, the command-line login, the OAuth exchange and their concurrent
\* copies it came from.
THEOREM TokensOfVerified == Spec => []TokensAreVerified
<1>1. Init => TokensInv
  BY IdleKept DEF Init, InviteInit, NoLogin, TokensInv, TokensAreVerified, TokenOps
<1>2. TokensInv => TokensAreVerified
  BY DEF TokensInv
<1> QED BY <1>1, <1>2, TokensStep, AccountsTyped, PTL DEF Spec

-----------------------------------------------------------------------------
(* Members *)

IsMember(u) == member[u] # 0

\* What a request still has to write about a membership stays true until it does.
JoinsFit(h) ==
    /\ tasks[h].op = "mark" => IsMember(Key(h))
    /\ tasks[h].op = "accept" => tasks[h].role \in Roles
    /\ tasks[h].op \in {"accept", "joining"} /\ tasks[h].was # 0 => IsMember(Key(h))

MembersInv == AcceptedIsMember /\ \A h \in Handlers : JoinsFit(h)

\* Memberships only come, in rows nothing else becomes accepted, and no request is
\* left behind.
LEMMA MembersStay ==
    ASSUME Typed, MembersInv,
           \A u \in Users : IsMember(u) => IsMember(u)',
           \A u \in Users : (Exists(u) /\ invite[u].accepted)' => (Exists(u) /\ invite[u].accepted) \/ IsMember(u)',
           \A g \in Handlers : tasks'[g] = tasks[g] \/ JoinsFit(g)'
    PROVE  MembersInv'
<1>1. AcceptedIsMember'
  BY DEF MembersInv, AcceptedIsMember, IsMember
<1>2. ASSUME NEW g \in Handlers PROVE JoinsFit(g)'
  BY <1>2 DEF MembersInv, JoinsFit, Key, Typed, TasksTyped, KeyFits, UserOps
<1> QED BY <1>1, <1>2 DEF MembersInv

LEMMA OtherOpsFit ==
    ASSUME NEW h \in Handlers, tasks'[h].op \notin {"mark", "accept", "joining"}
    PROVE  JoinsFit(h)'
BY DEF JoinsFit

\* What was read in one transaction agrees with the membership it was read with.
LEMMA ReadFits ==
    ASSUME Typed, NEW h \in Handlers, NEW op \in {"accept", "joining"},
           NEW u \in Users, NEW why \in {"none", "login", "google", "bounced", "complained"},
           Read(h, op, u, why), op = "accept" => Pending(u), member' = member
    PROVE  JoinsFit(h)'
<1>1. Fields(tasks'[h], op, u, why, NoChallenge, member[u], IF Pending(u) THEN invite[u].role ELSE 0)
  BY ReadTyped DEF Typed
<1>2. Pending(u) => invite[u].role \in Roles
  BY DEF Typed, InvitesTyped, Pending, Exists, Row
<1> QED BY <1>1, <1>2 DEF Fields, JoinsFit, Key, IsMember

LEMMA AcceptedKeeps ==
    ASSUME Typed, NEW u \in Users, Exists(u), invite' = Accepted(u)
    PROVE  \A x \in Users : (Exists(x) /\ invite[x].accepted)' => (Exists(x) /\ invite[x].accepted) \/ x = u
BY DEF Accepted, Typed, InvitesTyped, Exists

LEMMA InviteMembers ==
    ASSUME Typed, MembersInv, NEW h \in Handlers, InviteStep(h)
    PROVE  MembersInv'
<1>0. \A g \in Handlers : g # h => tasks'[g] = tasks[g]
  BY InviteMoves DEF Moves
\* A step that changes no membership and accepts nothing.
<1>1. ASSUME member' = member, JoinsFit(h)',
             \A u \in Users : (Exists(u) /\ invite[u].accepted)' => Exists(u) /\ invite[u].accepted
      PROVE  MembersInv'
  BY <1>0, <1>1, MembersStay DEF IsMember
<1>2. ASSUME NEW u \in Users, NEW r \in Roles, InviteUser(h, u, r) PROVE MembersInv'
  <2>1. member' = [member EXCEPT ![u] = r] /\ invite' = invite
    BY <1>2 DEF InviteUser
  <2>2. \A x \in Users : IsMember(x) => IsMember(x)'
    BY <2>1, InviteAssumption DEF IsMember, Typed, InvitesTyped
  <2>3. JoinsFit(h)'
    <3>1. tasks'[h].op = "mark" /\ tasks'[h].key = u
      BY <1>2 DEF InviteUser, Start, Task, Idle, Typed, TasksTyped
    <3> QED BY <2>1, <3>1, InviteAssumption DEF JoinsFit, Key, IsMember, Typed, InvitesTyped
  <2> QED BY <1>0, <2>1, <2>2, <2>3, MembersStay DEF Exists
<1>3. ASSUME NEW u \in Users,
             \/ \E r \in Roles : InviteAddress(h, u, r)
             \/ \E kind \in {"bounced", "complained"} : ReceiveFeedback(h, u, kind)
             \/ Resend(h, u) \/ ReadToDecline(h, u)
      PROVE  MembersInv'
  <2>1. \E op \in {"upsert", "deliver", "decline", "feedback"} : tasks'[h].op = op
    BY <1>3 DEF InviteAddress, ReceiveFeedback, Resend, ReadToDecline, Start, Task, Idle, Typed, TasksTyped
  <2>2. member' = member /\ invite' = invite
    BY <1>3 DEF InviteAddress, ReceiveFeedback, Resend, ReadToDecline, inviteVars
  <2> QED BY <1>1, <2>1, <2>2, OtherOpsFit DEF Exists
<1>4. ASSUME NEW u \in Users, ReadToAccept(h, u) PROVE MembersInv'
  <2>1. Read(h, "accept", u, "none") /\ Pending(u) /\ member' = member /\ invite' = invite
    BY <1>4 DEF ReadToAccept, inviteVars
  <2> QED BY <1>1, <2>1, ReadFits DEF Exists
<1>5. CASE MarkAccepted(h)
  <2>1. Key(h) \in Users /\ IsMember(Key(h)) /\ member' = member
    BY <1>5 DEF MarkAccepted, At, Key, Typed, TasksTyped, KeyFits, UserOps, MembersInv, JoinsFit
  <2>2. JoinsFit(h)'
    BY <1>5, IdleKept, OtherOpsFit DEF MarkAccepted, Done, Typed, TasksTyped
  <2>3. \A u \in Users : (Exists(u) /\ invite[u].accepted)' => (Exists(u) /\ invite[u].accepted) \/ u = Key(h)
    <3>1. CASE invite' = invite
      BY <3>1 DEF Exists
    <3>2. CASE Exists(Key(h)) /\ invite' = Accepted(Key(h))
      BY <2>1, <3>2, AcceptedKeeps
    <3> QED BY <1>5, <3>1, <3>2 DEF MarkAccepted
  <2> QED BY <1>0, <2>1, <2>2, <2>3, MembersStay DEF IsMember
<1>6. CASE UpsertInvite(h) \/ RecordFeedback(h) \/ Decline(h) \/ \E result \in {"sent", "failed"} : RecordDelivery(h, result)
  <2>1. Key(h) \in Users /\ member' = member
    BY <1>6 DEF UpsertInvite, RecordFeedback, Decline, RecordDelivery, At, Key, Typed, TasksTyped, KeyFits, UserOps
  <2>2. tasks'[h].op \in {"idle", "deliver"}
    BY <1>6, IdleKept DEF UpsertInvite, RecordFeedback, Decline, RecordDelivery, Done, Typed, TasksTyped, Kept
  <2>3. \A u \in Users : (Exists(u) /\ invite[u].accepted)' => Exists(u) /\ invite[u].accepted
    <3>1. CASE UpsertInvite(h)
      BY <2>1, <3>1 DEF UpsertInvite, Exists, Typed, InvitesTyped
    <3>2. ASSUME RecordFeedback(h) \/ Decline(h) \/ \E result \in {"sent", "failed"} : RecordDelivery(h, result)
          PROVE  Exists(Key(h))
      BY <3>2 DEF RecordFeedback, Decline, RecordDelivery, At, Typed, RowsSeen, SeenBy
    <3>3. CASE RecordFeedback(h) \/ Decline(h) \/ \E result \in {"sent", "failed"} : RecordDelivery(h, result)
      BY <2>1, <3>2, <3>3 DEF RecordFeedback, Decline, RecordDelivery, Exists, Typed, InvitesTyped, Row
    <3> QED BY <1>6, <3>1, <3>3
  <2> QED BY <1>1, <2>1, <2>2, <2>3, OtherOpsFit
<1>7. CASE Accept(h)
  <2>1. Key(h) \in Users /\ Exists(Key(h)) /\ tasks[h].role \in Roles /\ (tasks[h].was # 0 => IsMember(Key(h)))
    BY <1>7 DEF Accept, At, Key, Typed, TasksTyped, KeyFits, UserOps, RowsSeen, SeenBy, MembersInv, JoinsFit
  <2>2. JoinsFit(h)'
    BY <1>7, IdleKept, OtherOpsFit DEF Accept, Done, Typed, TasksTyped
  <2>3. CASE Conflict(h)
    BY <1>1, <1>7, <2>2, <2>3 DEF Accept, Exists
  <2>4. CASE ~Conflict(h)
    <3>1. member' = Joined(h) /\ invite' = Accepted(Key(h))
      BY <1>7, <2>4 DEF Accept
    <3>2. IsMember(Key(h)) \/ member'[Key(h)] # 0
      BY <2>1, <3>1, InviteAssumption DEF Joined, IsMember, Typed, InvitesTyped
    <3>3. \A u \in Users : IsMember(u) => IsMember(u)'
      BY <2>1, <3>1, InviteAssumption DEF Joined, IsMember, Typed, InvitesTyped
    <3> QED BY <1>0, <2>1, <2>2, <3>1, <3>2, <3>3, AcceptedKeeps, MembersStay DEF IsMember
  <2> QED BY <2>3, <2>4
<1> QED BY <1>2, <1>3, <1>4, <1>5, <1>6, <1>7 DEF InviteStep

LEMMA MembersStep == Typed /\ MembersInv /\ [Next]_vars => MembersInv'
<1> SUFFICES ASSUME Typed, MembersInv, [Next]_vars PROVE MembersInv'
  OBVIOUS
<1>1. ASSUME member' = member, invite' = invite, \A g \in Handlers : tasks'[g] = tasks[g] \/ JoinsFit(g)'
      PROVE  MembersInv'
  BY <1>1, MembersStay DEF IsMember, Exists
<1>2. CASE CodeActions
  <2>1. member' = member /\ invite' = invite
    BY <1>2 DEF CodeActions, inviteVars
  <2>2. ASSUME NEW h \in Handlers, CodeStep(h) PROVE MembersInv'
    BY <1>1, <2>1, <2>2, CodeMoves, OtherOpsFit DEF Moves, CodeNext, CodeOps
  <2>3. ASSUME NEW k \in Keys, CodeExpiry(k) PROVE MembersInv'
    BY <1>1, <2>1, <2>3, CodesExpire DEF Typed
  <2> QED BY <1>2, <2>2, <2>3 DEF CodeActions
<1>3. CASE Maintenance
  <2>1. tasks' = tasks /\ member' = member
    BY <1>3 DEF Maintenance, BeginCycle, RevokeStale, RevokeFails, RemindFails, CycleLost, Remind, LockExpires, InviteExpires
  <2>2. ASSUME NEW u \in Users, (Exists(u) /\ invite[u].accepted)' PROVE Exists(u) /\ invite[u].accepted
    <3>1. CASE invite' = invite
      BY <2>2, <3>1 DEF Exists
    <3>2. CASE \E c \in Cycles : RevokeStale(c)
      <4>1. PICK c \in Cycles : RevokeStale(c)
        BY <3>2
      <4>2. u \in cycle[c].stale => Exists(u)
        BY DEF Typed, RowsSeen
      <4> QED BY <2>2, <4>1, <4>2 DEF RevokeStale, Exists, Typed, InvitesTyped, Row
    <3>3. CASE \E c \in Cycles, x \in Users, result \in {"sent", "failed"} : Remind(c, x, result)
      <4>1. PICK c \in Cycles, x \in Users, result \in {"sent", "failed"} : Remind(c, x, result)
        BY <3>3
      <4>2. Exists(x)
        BY <4>1 DEF Remind, Typed, RowsSeen
      <4> QED BY <2>2, <4>1, <4>2 DEF Remind, Exists, Typed, InvitesTyped, Row
    <3>4. CASE \E x \in Users : InviteExpires(x)
      BY <2>2, <3>4 DEF InviteExpires, Pending, Exists, Typed, InvitesTyped, Row
    <3> QED BY <1>3, <3>1, <3>2, <3>3, <3>4 DEF Maintenance, BeginCycle, RevokeFails, RemindFails, CycleLost, LockExpires
  <2> QED BY <2>1, <2>2, MembersStay DEF IsMember
<1>4. ASSUME NEW h \in Handlers, LoginStep(h) PROVE MembersInv'
  <2>1. \A g \in Handlers : g # h => tasks'[g] = tasks[g]
    BY <1>4, LoginMoves DEF Moves
  <2>2. CASE ReadToSync(h)
    <3>1. tasks[h].key \in Users /\ tasks[h].why \in {"none", "login", "google", "bounced", "complained"}
      BY <2>2 DEF ReadToSync, At, Typed, TasksTyped, KeyFits, Kept, UserOps
    <3>2. JoinsFit(h)'
      BY <2>2, <3>1, ReadFits DEF ReadToSync, Key, inviteVars
    <3> QED BY <1>1, <2>1, <2>2, <3>2 DEF ReadToSync, inviteVars
  <2>3. CASE SyncInvites(h)
    <3>1. /\ Key(h) \in Users /\ tasks[h].role \in Roles \cup {0} /\ tasks[h].was \in Roles \cup {0}
          /\ tasks[h].role # 0 => Exists(Key(h))
          /\ tasks[h].was # 0 => IsMember(Key(h))
      BY <2>3 DEF SyncInvites, At, Key, Typed, TasksTyped, Kept, KeyFits, UserOps, RowsSeen, SeenBy, MembersInv, JoinsFit
    <3>2. JoinsFit(h)'
      BY <2>3, IdleKept, OtherOpsFit DEF SyncInvites, Done, Typed, TasksTyped
    <3>3. CASE member' = member /\ invite' = invite
      BY <1>1, <2>1, <3>2, <3>3
    <3>4. CASE tasks[h].role # 0 /\ Synced(h)
      <4>1. invite' = Accepted(Key(h))
        BY <3>4 DEF Synced
      <4>2. tasks[h].role > tasks[h].was \/ tasks[h].was # 0
        <5>1. tasks[h].role \in Nat \ {0}
          BY <3>1, <3>4, InviteAssumption
        <5> QED BY <5>1
      <4>3. \A u \in Users : IsMember(u) => IsMember(u)'
        BY <3>1, <3>4 DEF Synced, IsMember, Typed, InvitesTyped
      <4>4. IsMember(Key(h)) \/ member'[Key(h)] # 0
        BY <3>1, <3>4, <4>2 DEF Synced, Typed, InvitesTyped
      <4> QED BY <2>1, <3>1, <3>2, <3>4, <4>1, <4>3, <4>4, AcceptedKeeps, MembersStay DEF IsMember
    <3> QED BY <2>3, <3>3, <3>4 DEF SyncInvites, Synced
  <2>4. ASSUME ~ReadToSync(h), ~SyncInvites(h) PROVE MembersInv'
    <3>1. member' = member /\ invite' = invite
      BY <1>4, <2>4 DEF LoginStep, Signup, Login, ResendCode, VerifyEmail, ApproveCli, Callback, WrongPassword, SetWindow,
             Refused, RightPassword, Verified, AskDeletionCode, ConfirmDeletion, DeletionGranted,
             StoreCliResult, PollCli, TakeCliResult, ResolveUser, ReadExchange, Exchange, inviteVars
    <3>2. tasks'[h].op # "joining"
      <4>1. CASE \/ \E u \in Users : Signup(h, u) \/ Login(h, u) \/ ApproveCli(h, u) \/ Callback(h, u)
                 \/ \E u \in Users, c \in Challenges \cup {NoChallenge} : ResendCode(h, u, c) \/ VerifyEmail(h, u, c)
                 \/ \E d \in Deletions : AskDeletionCode(h, d) \/ ConfirmDeletion(h, d)
                 \/ PollCli(h) \/ ReadExchange(h)
        <5>1. \E op \in {"reserve", "bypass", "password", "check", "approve", "resolve", "poll", "exchange"} : StartsWith(h, op)
          BY <4>1, StartOp DEF Signup, Login, ResendCode, VerifyEmail, ApproveCli, Callback, AskDeletionCode,
                    ConfirmDeletion, PollCli, ReadExchange, CodeOps, UserOps, Keys, Typed, LoginsTyped
        <5> QED BY <5>1 DEF StartsWith
      <4>2. CASE \E c \in Challenges : RightPassword(h, c)
        BY <4>2 DEF RightPassword, Typed, TasksTyped, Kept
      <4>3. CASE Done(h) \/ Go(h, "expire") \/ Go(h, "sync")
        BY <4>3, IdleKept DEF Done, Go, Typed, TasksTyped, Kept
      <4> QED BY <1>4, <2>4, <4>1, <4>2, <4>3 DEF LoginStep, WrongPassword, SetWindow, Refused, Verified, DeletionGranted,
                   StoreCliResult, TakeCliResult, ResolveUser, Exchange
    <3>3. JoinsFit(h)'
      BY <1>4, <3>2, LoginMoves, OtherOpsFit DEF Moves, LoginNext
    <3> QED BY <1>1, <2>1, <3>1, <3>3
  <2> QED BY <2>2, <2>3, <2>4
<1>5. ASSUME NEW h \in Handlers, Dies(h) PROVE MembersInv'
  <2>1. tasks'[h].op = "idle" /\ \A g \in Handlers : g # h => tasks'[g] = tasks[g]
    BY <1>5, DiesMoves DEF Moves
  <2> QED BY <1>1, <1>5, <2>1, OtherOpsFit DEF Dies, inviteVars
<1>6. CASE Expiry \/ StartCli \/ LoginUrl \/ UNCHANGED vars
  <2>1. tasks' = tasks /\ member' = member /\ invite' = invite
    BY <1>6 DEF Expiry, WindowEnds, ChallengeExpires, CliExpires, OAuthExpires, StartCli, LoginUrl, vars, inviteVars
  <2> QED BY <1>1, <2>1
<1> QED BY <1>2, <1>3, <1>4, <1>5, <1>6, InviteMembers DEF Next, InviteActions

\* AcceptedIsMember: an invitation that counts as accepted has made its addressee a
\* member, in whatever order administrators, logins, answers and maintenance come.
THEOREM AcceptedMeansMember == Spec => []AcceptedIsMember
<1>1. Init => MembersInv
  BY IdleKept DEF Init, InviteInit, MembersInv, AcceptedIsMember, JoinsFit, Exists
<1>2. MembersInv => AcceptedIsMember
  BY DEF MembersInv
<1> QED BY <1>1, <1>2, MembersStep, AccountsTyped, PTL DEF Spec

-----------------------------------------------------------------------------
(* Counters *)

\* A counter, and those who passed its check and have not counted yet: it starts
\* over below its limit, loses some of them, or counts one of them.
CounterStep(a, a2, T, T2, limit) ==
    \/ a2 < limit
    \/ a2 = a /\ T2 \subseteq T
    \/ a2 = a + 1 /\ \E x \in T : T2 \subseteq T \ {x}

Bounded(a, T, limit, S) == a + Cardinality(T) <= limit - 1 + Cardinality(S)

LEMMA CounterBounded ==
    ASSUME NEW S, IsFiniteSet(S), NEW T \in SUBSET S, NEW T2 \in SUBSET S,
           NEW a \in Nat, NEW a2 \in Nat, NEW limit \in Nat \ {0},
           Bounded(a, T, limit, S), CounterStep(a, a2, T, T2, limit)
    PROVE  Bounded(a2, T2, limit, S)
<1>1. \A A \in SUBSET S : IsFiniteSet(A) /\ Cardinality(A) \in Nat
  BY FS_Subset, FS_CardinalityType
<1>2. \A A \in SUBSET S : \A B \in SUBSET A : Cardinality(B) <= Cardinality(A)
  BY <1>1, FS_Subset
<1>3. Cardinality(S) \in Nat
  BY FS_CardinalityType
<1>4. CASE a2 < limit
  <2>1. Cardinality(T2) <= Cardinality(S) /\ Cardinality(T2) \in Nat
    BY <1>1, <1>2
  <2> QED BY <1>3, <1>4, <2>1 DEF Bounded
<1>5. CASE a2 = a /\ T2 \subseteq T
  <2>1. Cardinality(T2) <= Cardinality(T) /\ Cardinality(T2) \in Nat /\ Cardinality(T) \in Nat
    BY <1>1, <1>2, <1>5
  <2> QED BY <1>3, <1>5, <2>1 DEF Bounded
<1>6. ASSUME a2 = a + 1, NEW x \in T, T2 \subseteq T \ {x} PROVE Bounded(a2, T2, limit, S)
  <2>1. Cardinality(T \ {x}) = Cardinality(T) - 1
    BY <1>1, FS_RemoveElement
  <2>2. T \ {x} \in SUBSET S
    OBVIOUS
  <2>3. Cardinality(T2) <= Cardinality(T \ {x})
    BY <1>2, <1>6, <2>2
  <2>4. Cardinality(T2) \in Nat /\ Cardinality(T) \in Nat
    BY <1>1
  <2> QED BY <1>3, <1>6, <2>1, <2>3, <2>4 DEF Bounded
<1> QED BY <1>4, <1>5, <1>6 DEF CounterStep

LEMMA CounterValue ==
    ASSUME NEW S, IsFiniteSet(S), NEW T \in SUBSET S,
           NEW a \in Nat, NEW limit \in Nat \ {0}, Bounded(a, T, limit, S)
    PROVE  a \in 0 .. limit + Cardinality(S) - 1
<1>1. Cardinality(T) \in Nat /\ Cardinality(S) \in Nat
  BY FS_Subset, FS_CardinalityType
<1> QED BY <1>1 DEF Bounded

LEMMA CounterStart ==
    ASSUME NEW S, IsFiniteSet(S), NEW T \in SUBSET S, NEW limit \in Nat \ {0}
    PROVE  Bounded(0, T, limit, S)
<1>1. Cardinality(T) \in Nat /\ Cardinality(S) \in Nat /\ Cardinality(T) <= Cardinality(S)
  BY FS_Subset, FS_CardinalityType
<1> QED BY <1>1 DEF Bounded

\* Requests that may still count a wrong code, a wrong password, or a reminder.
Trying(k) == {h \in Handlers : tasks[h].op \in {"compare", "wrong"} /\ tasks[h].key = k}
Guessing(u) == {h \in Handlers : tasks[h].op = "password" /\ tasks[h].key = u}
Reminding(u) == {c \in Cycles : u \in cycle[c].due}

AttemptsBounded == \A k \in Keys : Bounded(attempts[k], Trying(k), MaxAttempts, Handlers)
FailuresBounded == \A u \in Users : Bounded(failures[u], Guessing(u), LoginLimit, Handlers)
RemindersCapped ==
    \A u \in Users : Exists(u) => Bounded(invite[u].reminders, Reminding(u), MaxReminders, Cycles)

CountersInv == AttemptsBounded /\ FailuresBounded /\ RemindersCapped

\* Of the counters of one kind, what a step has to do for them to stay bounded.
LEMMA AttemptsKept ==
    ASSUME Typed, Typed', AttemptsBounded,
           \A k \in Keys : CounterStep(attempts[k], attempts'[k], Trying(k), Trying(k)', MaxAttempts)
    PROVE  AttemptsBounded'
<1>1. ASSUME NEW k \in Keys PROVE Bounded(attempts'[k], Trying(k)', MaxAttempts, Handlers)
  <2>1. /\ attempts[k] \in Nat /\ attempts'[k] \in Nat
        /\ Trying(k) \in SUBSET Handlers /\ Trying(k)' \in SUBSET Handlers
    BY DEF Typed, CodesTyped, Trying
  <2> QED BY <2>1, CounterBounded, CodeAssumption DEF AttemptsBounded
<1> QED BY <1>1 DEF AttemptsBounded, Bounded

LEMMA FailuresKept ==
    ASSUME Typed, Typed', FailuresBounded,
           \A u \in Users : CounterStep(failures[u], failures'[u], Guessing(u), Guessing(u)', LoginLimit)
    PROVE  FailuresBounded'
<1>1. ASSUME NEW u \in Users PROVE Bounded(failures'[u], Guessing(u)', LoginLimit, Handlers)
  <2>1. /\ failures[u] \in Nat /\ failures'[u] \in Nat
        /\ Guessing(u) \in SUBSET Handlers /\ Guessing(u)' \in SUBSET Handlers
    BY DEF Typed, LoginsTyped, Guessing
  <2> QED BY <2>1, CounterBounded, CodeAssumption, LoginAssumption DEF FailuresBounded
<1> QED BY <1>1 DEF FailuresBounded, Bounded

\* A row that starts over counts from zero.
LEMMA RemindersKept ==
    ASSUME Typed, Typed', RemindersCapped,
           \A u \in Users : Exists(u)' =>
               \/ invite'[u].reminders = 0
               \/ /\ Exists(u)
                  /\ CounterStep(invite[u].reminders, invite'[u].reminders, Reminding(u), Reminding(u)', MaxReminders)
    PROVE  RemindersCapped'
<1>1. ASSUME NEW u \in Users, Exists(u)'
      PROVE  Bounded(invite'[u].reminders, Reminding(u)', MaxReminders, Cycles)
  <2>1. Reminding(u) \in SUBSET Cycles /\ Reminding(u)' \in SUBSET Cycles /\ invite'[u].reminders \in Nat
    BY <1>1 DEF Typed, InvitesTyped, Reminding, Exists, Row
  <2>2. Exists(u) => invite[u].reminders \in Nat
    BY DEF Typed, InvitesTyped, Exists, Row
  <2>3. CASE invite'[u].reminders = 0
    BY <2>1, <2>3, CounterStart, InviteAssumption
  <2>4. CASE /\ Exists(u)
             /\ CounterStep(invite[u].reminders, invite'[u].reminders, Reminding(u), Reminding(u)', MaxReminders)
    BY <2>1, <2>2, <2>4, CounterBounded, InviteAssumption DEF RemindersCapped
  <2> QED BY <1>1, <2>3, <2>4
<1> QED BY <1>1 DEF RemindersCapped, Bounded, Exists

LEMMA TryingShrinks ==
    ASSUME Typed, NEW h \in Handlers, \A g \in Handlers : g # h => tasks'[g] = tasks[g],
           tasks'[h].op \notin {"compare", "wrong"}
    PROVE  \A k \in Keys : Trying(k)' \subseteq Trying(k) \ {h}
BY DEF Trying

LEMMA AttemptsCode ==
    ASSUME Typed, NEW h \in Handlers, CodeStep(h), NEW k \in Keys
    PROVE  CounterStep(attempts[k], attempts'[k], Trying(k), Trying(k)', MaxAttempts)
<1>1. \A g \in Handlers : g # h => tasks'[g] = tasks[g]
  BY CodeMoves DEF Moves
<1>2. Key(h) \in Keys /\ attempts[k] \in Nat
  BY CodeMoves DEF Moves, Typed, TasksTyped, CodesTyped, KeyFits, Key
<1>3. CASE ClearAttempts(h) \/ Consume(h)
  <2>1. tasks'[h].op \in {"mail", "granted"}
    BY <1>3 DEF ClearAttempts, Consume, Go, Typed, TasksTyped, Kept
  <2>2. attempts' = [attempts EXCEPT ![Key(h)] = 0]
    BY <1>3 DEF ClearAttempts, Consume
  <2> QED BY <1>1, <1>2, <2>1, <2>2, TryingShrinks, CodeAssumption DEF CounterStep, Typed, CodesTyped
<1>4. CASE CheckAttempts(h)
  <2>1. attempts' = attempts
    BY <1>4 DEF CheckAttempts, codeVars
  <2>2. CASE k = Key(h) /\ attempts[k] < MaxAttempts
    BY <2>1, <2>2 DEF CounterStep
  <2>3. CASE k # Key(h)
    <3>1. tasks'[h].key \in {Key(h), NoUser} /\ k # NoUser
      BY <1>4, IdleKept, CodeAssumption DEF CheckAttempts, Go, Done, Key, Typed, TasksTyped, Kept
    <3>2. Trying(k)' \subseteq Trying(k)
      BY <1>1, <2>3, <3>1 DEF Trying
    <3> QED BY <2>1, <3>2 DEF CounterStep
  <2>4. CASE k = Key(h) /\ ~(attempts[k] < MaxAttempts)
    <3>1. Done(h)
      BY <1>2, <1>4, <2>4, CodeAssumption DEF CheckAttempts
    <3>2. tasks'[h].op = "idle"
      BY <3>1, IdleKept DEF Done, Typed, TasksTyped
    <3> QED BY <1>1, <2>1, <3>2, TryingShrinks DEF CounterStep
  <2> QED BY <2>2, <2>3, <2>4
<1>5. CASE Compare(h)
  <2>1. attempts' = attempts /\ tasks[h].op = "compare" /\ (Done(h) \/ Go(h, "wrong") \/ Go(h, "matched"))
    BY <1>5 DEF Compare, codeVars, At
  <2>2. tasks'[h].op \in {"idle", "matched"} \/ (tasks'[h].op = "wrong" /\ tasks'[h].key = tasks[h].key)
    BY <2>1, IdleKept DEF Done, Go, Typed, TasksTyped, Kept
  <2>3. Trying(k)' \subseteq Trying(k)
    BY <1>1, <2>1, <2>2 DEF Trying
  <2> QED BY <2>1, <2>3 DEF CounterStep
<1>6. CASE CountWrong(h)
  <2>1. /\ attempts' = [attempts EXCEPT ![Key(h)] = attempts[Key(h)] + 1]
        /\ tasks[h].op = "wrong" /\ tasks'[h].op = "idle"
    BY <1>6, IdleKept DEF CountWrong, At, Done, Typed, TasksTyped
  <2>2. Trying(k)' \subseteq Trying(k) \ {h}
    BY <1>1, <2>1, TryingShrinks
  <2>3. k = Key(h) => h \in Trying(k)
    BY <2>1 DEF Trying, Key
  <2> QED BY <1>2, <2>1, <2>2, <2>3 DEF CounterStep, Typed, CodesTyped
<1>7. CASE ReserveCooldown(h) \/ Throttled(h) \/ StoreCode(h) \/ MailDelivered(h) \/ MailFails(h)
  <2>1. attempts' = attempts /\ (Done(h) \/ Go(h, "store") \/ Go(h, "reset") \/ Go(h, "refuse"))
    BY <1>7 DEF ReserveCooldown, Throttled, StoreCode, MailDelivered, MailFails, codeVars
  <2>2. tasks'[h].op \in {"idle", "store", "reset", "refuse"}
    BY <2>1, IdleKept DEF Done, Go, Typed, TasksTyped, Kept
  <2> QED BY <1>1, <2>1, <2>2, TryingShrinks DEF CounterStep
<1> QED BY <1>3, <1>4, <1>5, <1>6, <1>7 DEF CodeStep

LEMMA AttemptsStep == Typed /\ Typed' /\ AttemptsBounded /\ [Next]_vars => AttemptsBounded'
<1> SUFFICES ASSUME Typed, Typed', AttemptsBounded, [Next]_vars PROVE AttemptsBounded'
  OBVIOUS
<1>1. ASSUME attempts' = attempts, tasks' = tasks PROVE AttemptsBounded'
  BY <1>1 DEF AttemptsBounded, Trying, Bounded
<1>2. ASSUME attempts' = attempts, NEW h \in Handlers, \A g \in Handlers : g # h => tasks'[g] = tasks[g],
             tasks'[h].op \notin {"compare", "wrong"}
      PROVE  AttemptsBounded'
  BY <1>2, TryingShrinks, AttemptsKept DEF CounterStep
<1>3. ASSUME NEW h \in Handlers, CodeStep(h) PROVE AttemptsBounded'
  BY <1>3, AttemptsCode, AttemptsKept
<1>4. ASSUME NEW k \in Keys, CodeExpiry(k) PROVE AttemptsBounded'
  <2>1. tasks' = tasks
    BY <1>4 DEF CodeExpiry, CooldownExpires, CodeExpires, AttemptsExpire
  <2>2. attempts' = attempts \/ attempts' = [attempts EXCEPT ![k] = 0]
    BY <1>4 DEF CodeExpiry, CooldownExpires, CodeExpires, AttemptsExpire
  <2>3. \A x \in Keys : attempts'[x] = 0 \/ attempts'[x] = attempts[x]
    BY <2>2 DEF Typed, CodesTyped
  <2>4. \A x \in Keys : Trying(x)' = Trying(x)
    BY <2>1 DEF Trying
  <2> QED BY <2>3, <2>4, AttemptsKept, CodeAssumption DEF CounterStep
<1>5. ASSUME NEW h \in Handlers, InviteStep(h) PROVE AttemptsBounded'
  <2>1. attempts' = attempts
    BY <1>5 DEF InviteStep, InviteUser, InviteAddress, MarkAccepted, UpsertInvite, Resend, ReadToAccept, ReadToDecline,
           RecordDelivery, ReceiveFeedback, RecordFeedback, Accept, Decline, codeVars
  <2> QED BY <1>2, <1>5, <2>1, InviteMoves DEF Moves, InviteNext
<1>6. ASSUME NEW h \in Handlers, LoginStep(h) PROVE AttemptsBounded'
  BY <1>2, <1>6, LoginMoves, LoginRows DEF Moves, LoginNext
<1>7. ASSUME NEW h \in Handlers, Dies(h) PROVE AttemptsBounded'
  <2>1. attempts' = attempts
    BY <1>7 DEF Dies
  <2> QED BY <1>2, <1>7, <2>1, DiesMoves DEF Moves
<1>8. CASE Maintenance \/ Expiry \/ StartCli \/ LoginUrl \/ UNCHANGED vars
  <2>1. attempts' = attempts /\ tasks' = tasks
    BY <1>8 DEF Maintenance, BeginCycle, RevokeStale, RevokeFails, RemindFails, CycleLost, Remind, LockExpires, InviteExpires,
                Expiry, WindowEnds, ChallengeExpires, CliExpires, OAuthExpires, StartCli, LoginUrl, vars, codeVars
  <2> QED BY <1>1, <2>1
<1> QED BY <1>3, <1>4, <1>5, <1>6, <1>7, <1>8 DEF Next, CodeActions, InviteActions

LEMMA GuessingShrinks ==
    ASSUME Typed, NEW h \in Handlers, \A g \in Handlers : g # h => tasks'[g] = tasks[g],
           tasks'[h].op # "password"
    PROVE  \A u \in Users : Guessing(u)' \subseteq Guessing(u) \ {h}
BY DEF Guessing

LEMMA FailuresStep == Typed /\ Typed' /\ FailuresBounded /\ [Next]_vars => FailuresBounded'
<1> SUFFICES ASSUME Typed, Typed', FailuresBounded, [Next]_vars PROVE FailuresBounded'
  OBVIOUS
<1>1. ASSUME failures' = failures, tasks' = tasks PROVE FailuresBounded'
  BY <1>1 DEF FailuresBounded, Guessing, Bounded
<1>2. ASSUME failures' = failures, NEW h \in Handlers, \A g \in Handlers : g # h => tasks'[g] = tasks[g],
             tasks'[h].op # "password"
      PROVE  FailuresBounded'
  BY <1>2, GuessingShrinks, FailuresKept DEF CounterStep
<1>3. CASE CodeActions
  <2>1. failures' = failures
    BY <1>3 DEF CodeActions, loginVars
  <2>2. ASSUME NEW h \in Handlers, CodeStep(h) PROVE FailuresBounded'
    BY <1>2, <2>1, <2>2, CodeMoves DEF Moves, CodeNext, CodeOps
  <2>3. ASSUME NEW k \in Keys, CodeExpiry(k) PROVE FailuresBounded'
    BY <1>1, <2>1, <2>3, CodesExpire DEF Typed
  <2> QED BY <1>3, <2>2, <2>3 DEF CodeActions
<1>4. CASE InviteActions
  <2>1. failures' = failures
    BY <1>4 DEF InviteActions, loginVars
  <2>2. ASSUME NEW h \in Handlers, InviteStep(h) PROVE FailuresBounded'
    BY <1>2, <2>1, <2>2, InviteMoves DEF Moves, InviteNext
  <2>3. CASE Maintenance
    BY <1>1, <2>1, <2>3, MaintenanceStep DEF RowsStay
  <2> QED BY <1>4, <2>2, <2>3 DEF InviteActions
<1>5. ASSUME NEW h \in Handlers, LoginStep(h) PROVE FailuresBounded'
  <2>1. \A g \in Handlers : g # h => tasks'[g] = tasks[g]
    BY <1>5, LoginMoves DEF Moves
  <2>2. ASSUME NEW u \in Users, Login(h, u) PROVE FailuresBounded'
    <3>1. failures' = failures /\ failures[u] < LoginLimit /\ tasks'[h].key = u
      BY <2>2 DEF Login, loginVars, Start, Task, Idle, Typed, TasksTyped
    <3>2. \A x \in Users : x # u => Guessing(x)' \subseteq Guessing(x)
      BY <2>1, <3>1 DEF Guessing
    <3> QED BY <3>1, <3>2, FailuresKept DEF CounterStep
  <2>3. CASE WrongPassword(h)
    <3>1. /\ Key(h) \in Users /\ tasks[h].op = "password"
          /\ failures' = [failures EXCEPT ![Key(h)] = failures[Key(h)] + 1]
          /\ Done(h) \/ Go(h, "expire")
      BY <2>3 DEF WrongPassword, At, Key, Typed, TasksTyped, KeyFits, UserOps
    <3>2. tasks'[h].op \in {"idle", "expire"}
      BY <3>1, IdleKept DEF Done, Go, Typed, TasksTyped, Kept
    <3>3. \A u \in Users : Guessing(u)' \subseteq Guessing(u) \ {h}
      BY <2>1, <3>2, GuessingShrinks
    <3>4. h \in Guessing(Key(h))
      BY <3>1 DEF Guessing, Key
    <3>5. failures'[Key(h)] = failures[Key(h)] + 1 /\ \A u \in Users : u # Key(h) => failures'[u] = failures[u]
      BY <3>1 DEF Typed, LoginsTyped
    <3>6. \A u \in Users : CounterStep(failures[u], failures'[u], Guessing(u), Guessing(u)', LoginLimit)
      BY <3>3, <3>4, <3>5 DEF CounterStep
    <3> QED BY <3>6, FailuresKept
  <2>4. ASSUME NEW c \in Challenges, RightPassword(h, c) PROVE FailuresBounded'
    <3>1. failures' = [failures EXCEPT ![Key(h)] = 0] /\ tasks'[h].op = "reserve"
      BY <2>4 DEF RightPassword, Typed, TasksTyped, Kept
    <3>2. \A u \in Users : failures'[u] = 0 \/ failures'[u] = failures[u]
      BY <3>1 DEF Typed, LoginsTyped
    <3>3. \A u \in Users : Guessing(u)' \subseteq Guessing(u)
      BY <2>1, <3>1, GuessingShrinks
    <3> QED BY <3>2, <3>3, FailuresKept, LoginAssumption DEF CounterStep
  <2>5. ASSUME NEW u \in Users,
               Signup(h, u) \/ ApproveCli(h, u) \/ Callback(h, u)
               \/ \E c \in Challenges \cup {NoChallenge} : ResendCode(h, u, c) \/ VerifyEmail(h, u, c)
        PROVE  FailuresBounded'
    <3>1. \E op \in {"reserve", "bypass", "check", "approve", "resolve"} : StartsWith(h, op)
      BY <2>5, StartOp DEF Signup, ResendCode, VerifyEmail, ApproveCli, Callback, CodeOps, UserOps, Keys, Typed
    <3>2. failures' = failures
      BY <2>5 DEF Signup, ResendCode, VerifyEmail, ApproveCli, Callback, loginVars
    <3> QED BY <1>2, <2>1, <3>1, <3>2 DEF StartsWith
  <2>6. CASE PollCli(h) \/ ReadExchange(h) \/ \E d \in Deletions : AskDeletionCode(h, d) \/ ConfirmDeletion(h, d)
    <3>1. \E op \in {"reserve", "check", "poll", "exchange"} : StartsWith(h, op)
      BY <2>6, StartOp DEF PollCli, ReadExchange, AskDeletionCode, ConfirmDeletion, CodeOps, UserOps, Keys, Typed, LoginsTyped
    <3>2. failures' = failures
      BY <2>6 DEF PollCli, ReadExchange, AskDeletionCode, ConfirmDeletion, loginVars
    <3> QED BY <1>2, <2>1, <3>1, <3>2 DEF StartsWith
  <2>7. CASE \/ SetWindow(h) \/ Refused(h) \/ SyncInvites(h) \/ DeletionGranted(h)
             \/ StoreCliResult(h) \/ TakeCliResult(h) \/ Exchange(h) \/ Verified(h) \/ ResolveUser(h)
    <3>1. Done(h) \/ Go(h, "sync")
      BY <2>7 DEF SetWindow, Refused, SyncInvites, DeletionGranted, StoreCliResult, TakeCliResult, Exchange, Verified, ResolveUser
    <3>2. tasks'[h].op \in {"idle", "sync"}
      BY <3>1, IdleKept DEF Done, Go, Typed, TasksTyped, Kept
    <3>3. failures' = failures
      BY <2>7 DEF SetWindow, Refused, SyncInvites, DeletionGranted, StoreCliResult, TakeCliResult, Exchange, Verified,
                  ResolveUser, loginVars
    <3> QED BY <1>2, <2>1, <3>2, <3>3
  <2>8. CASE ReadToSync(h)
    <3>1. tasks[h].key \in Users /\ tasks[h].why \in {"none", "login", "google", "bounced", "complained"}
      BY <2>8 DEF ReadToSync, At, KeyFits, Kept, UserOps, Typed, TasksTyped
    <3>2. tasks'[h].op = "joining" /\ failures' = failures
      BY <2>8, <3>1, ReadTyped DEF ReadToSync, Key, Fields, Typed, loginVars
    <3> QED BY <1>2, <2>1, <3>2
  <2> QED BY <1>5, <2>2, <2>3, <2>4, <2>5, <2>6, <2>7, <2>8 DEF LoginStep
<1>6. ASSUME NEW h \in Handlers, Dies(h) PROVE FailuresBounded'
  <2>1. failures' = failures
    BY <1>6 DEF Dies
  <2> QED BY <1>2, <1>6, <2>1, DiesMoves DEF Moves
<1>7. ASSUME NEW u \in Users, WindowEnds(u) PROVE FailuresBounded'
  <2>1. \A x \in Users : failures'[x] = 0 \/ failures'[x] = failures[x]
    BY <1>7 DEF WindowEnds, Typed, LoginsTyped
  <2>2. \A x \in Users : Guessing(x)' = Guessing(x)
    BY <1>7 DEF WindowEnds, Guessing
  <2> QED BY <2>1, <2>2, FailuresKept, LoginAssumption DEF CounterStep
<1>8. CASE (\E c \in Challenges : ChallengeExpires(c)) \/ CliExpires \/ OAuthExpires \/ StartCli \/ LoginUrl \/ UNCHANGED vars
  <2>1. tasks' = tasks /\ failures' = failures
    BY <1>8 DEF ChallengeExpires, CliExpires, OAuthExpires, StartCli, LoginUrl, vars, loginVars
  <2> QED BY <1>1, <2>1
<1> QED BY <1>3, <1>4, <1>5, <1>6, <1>7, <1>8 DEF Next, Expiry

\* A row whose reminders are not counted on, under cycles that stay or end.
RowKept(u) == Exists(u) /\ invite'[u].reminders = invite[u].reminders /\ Reminding(u)' \subseteq Reminding(u)

LEMMA RemindersStay ==
    ASSUME Typed, Typed', RemindersCapped,
           \A u \in Users : Exists(u)' => invite'[u].reminders = 0 \/ RowKept(u)
    PROVE  RemindersCapped'
BY RemindersKept DEF RowKept, CounterStep

LEMMA RemindersMaintained ==
    ASSUME Typed, Typed', RemindersCapped, Maintenance
    PROVE  RemindersCapped'
<1>1. ASSUME NEW w \in Workers, NEW c \in Cycles, NEW due \in SUBSET Users, BeginCycle(w, c, due) PROVE RemindersCapped'
  <2>1. /\ invite' = invite /\ cycle[c].due = {} /\ due \subseteq Remindable
        /\ cycle'[c].due \subseteq due /\ \A x \in Cycles \ {c} : cycle'[x] = cycle[x]
    BY <1>1, CycleBegins DEF BeginCycle
  <2>2. ASSUME NEW u \in Users, Exists(u)
        PROVE  CounterStep(invite[u].reminders, invite'[u].reminders, Reminding(u), Reminding(u)', MaxReminders)
    <3>1. CASE u \in due
      BY <2>1, <3>1 DEF Remindable, CounterStep
    <3>2. CASE u \notin due
      <4>1. Reminding(u)' \subseteq Reminding(u)
        BY <2>1, <3>2 DEF Reminding, Typed, InvitesTyped
      <4> QED BY <2>1, <4>1 DEF CounterStep
    <3> QED BY <3>1, <3>2
  <2> QED BY <2>1, <2>2, RemindersKept DEF Exists
<1>2. ASSUME NEW c \in Cycles, NEW x \in Users, NEW result \in {"sent", "failed"}, Remind(c, x, result)
      PROVE  RemindersCapped'
  <2>1. /\ x \in cycle[c].due /\ Exists(x)
        /\ invite' = [invite EXCEPT ![x].mail = result, ![x].reminders = @ + 1]
        /\ c \notin Reminding(x)'
        /\ CyclesShrink
    <3>1. [cycle[c] EXCEPT !.due = @ \ {x}] \in CycleKind
      BY DEF Typed, InvitesTyped, CycleKind
    <3>2. cycle'[c].due = cycle[c].due \ {x}
      <4>1. cycle' = [cycle EXCEPT ![c] = Over([cycle[c] EXCEPT !.due = @ \ {x}])]
        BY <1>2 DEF Remind
      <4>2. [cycle[c] EXCEPT !.due = @ \ {x}].due = cycle[c].due \ {x}
        BY DEF Typed, InvitesTyped, CycleKind
      <4> QED BY <3>1, <4>1, <4>2, OverKeeps DEF Typed, InvitesTyped
    <3> QED BY <1>2, <3>2, CycleShrinks DEF Remind, Reminding, Typed, RowsSeen
  <2>2. ASSUME NEW u \in Users, Exists(u)'
        PROVE  /\ Exists(u)
               /\ CounterStep(invite[u].reminders, invite'[u].reminders, Reminding(u), Reminding(u)', MaxReminders)
    <3>1. CASE u = x
      <4>1. invite'[x].reminders = invite[x].reminders + 1
        BY <2>1 DEF Typed, InvitesTyped, Exists, Row
      <4>2. c \in Reminding(x) /\ Reminding(x)' \subseteq Reminding(x) \ {c}
        BY <2>1 DEF Reminding, CyclesShrink
      <4> QED BY <2>1, <3>1, <4>1, <4>2 DEF CounterStep
    <3>2. CASE u # x
      <4>1. invite'[u] = invite[u]
        BY <2>1, <3>2 DEF Typed, InvitesTyped
      <4>2. Reminding(u)' \subseteq Reminding(u)
        BY <2>1 DEF Reminding, CyclesShrink
      <4> QED BY <2>2, <4>1, <4>2 DEF CounterStep, Exists
    <3> QED BY <3>1, <3>2
  <2> QED BY <2>2, RemindersKept
<1>3. ASSUME NEW c \in Cycles, RevokeStale(c) PROVE RemindersCapped'
  <2>1. ASSUME NEW u \in Users, Exists(u)' PROVE RowKept(u)
    <3>1. u \in cycle[c].stale => Exists(u)
      BY DEF Typed, RowsSeen
    <3>2. invite'[u] = IF u \in cycle[c].stale THEN [invite[u] EXCEPT !.revoked = TRUE] ELSE invite[u]
      BY <1>3 DEF RevokeStale
    <3>3. Exists(u)
      BY <2>1, <3>1, <3>2 DEF Exists
    <3>4. invite'[u].reminders = invite[u].reminders
      BY <3>2, <3>3 DEF Exists, Typed, InvitesTyped, Row
    <3>5. Reminding(u)' \subseteq Reminding(u)
      BY <1>3, CycleShrinks DEF CyclesShrink, Reminding
    <3> QED BY <3>3, <3>4, <3>5 DEF RowKept
  <2> QED BY <2>1, RemindersStay
<1>4. CASE (\E c \in Cycles : RevokeFails(c) \/ RemindFails(c) \/ CycleLost(c)) \/ LockExpires
  <2>1. invite' = invite
    BY <1>4 DEF RevokeFails, RemindFails, CycleLost, LockExpires
  <2>2. \A u \in Users : Reminding(u)' \subseteq Reminding(u)
    BY <1>4, CycleShrinks DEF CyclesShrink, LockExpires, Reminding
  <2> QED BY <2>1, <2>2, RemindersStay DEF RowKept, Exists
<1>5. ASSUME NEW x \in Users, InviteExpires(x) PROVE RemindersCapped'
  <2>1. ASSUME NEW u \in Users, Exists(u)' PROVE RowKept(u)
    BY <1>5, <2>1 DEF InviteExpires, Pending, RowKept, Reminding, Exists, Typed, InvitesTyped, Row
  <2> QED BY <2>1, RemindersStay
<1> QED BY <1>1, <1>2, <1>3, <1>4, <1>5 DEF Maintenance

LEMMA RemindersStep == Typed /\ Typed' /\ RemindersCapped /\ [Next]_vars => RemindersCapped'
<1> SUFFICES ASSUME Typed, Typed', RemindersCapped, [Next]_vars PROVE RemindersCapped'
  OBVIOUS
<1>1. ASSUME cycle' = cycle, invite' = invite PROVE RemindersCapped'
  BY <1>1, RemindersStay DEF RowKept, Reminding, Exists
<1>2. ASSUME cycle' = cycle, NEW u \in Users, Exists(u), invite' = Accepted(u) PROVE RemindersCapped'
  <2>1. ASSUME NEW x \in Users, Exists(x)' PROVE RowKept(x)
    BY <1>2, <2>1 DEF RowKept, Accepted, Reminding, Exists, Typed, InvitesTyped, Row
  <2> QED BY <2>1, RemindersStay
<1>3. ASSUME NEW h \in Handlers, InviteStep(h) PROVE RemindersCapped'
  <2>1. cycle' = cycle
    BY <1>3 DEF InviteStep, InviteUser, InviteAddress, MarkAccepted, UpsertInvite, Resend, ReadToAccept, ReadToDecline,
           RecordDelivery, ReceiveFeedback, RecordFeedback, Accept, Decline, inviteVars
  <2>2. CASE UpsertInvite(h) \/ RecordFeedback(h) \/ Decline(h) \/ \E result \in {"sent", "failed"} : RecordDelivery(h, result)
    <3>1. Key(h) \in Users
      BY <2>2 DEF UpsertInvite, RecordFeedback, Decline, RecordDelivery, At, Key, Typed, TasksTyped, KeyFits, UserOps
    <3>2. CASE UpsertInvite(h)
      <4>1. ASSUME NEW x \in Users, Exists(x)' PROVE invite'[x].reminders = 0 \/ RowKept(x)
        BY <2>1, <3>1, <3>2, <4>1 DEF UpsertInvite, RowKept, Reminding, Exists, Typed, InvitesTyped
      <4> QED BY <4>1, RemindersStay
    <3>3. ASSUME RecordFeedback(h) \/ Decline(h) \/ \E result \in {"sent", "failed"} : RecordDelivery(h, result)
          PROVE  RemindersCapped'
      <4>1. Exists(Key(h))
        BY <3>3 DEF RecordFeedback, Decline, RecordDelivery, At, Typed, RowsSeen, SeenBy
      <4>2. ASSUME NEW x \in Users, Exists(x)' PROVE RowKept(x)
        BY <2>1, <3>1, <3>3, <4>1, <4>2 DEF RecordFeedback, Decline, RecordDelivery, RowKept, Reminding, Exists,
                                            Typed, InvitesTyped, Row
      <4> QED BY <4>2, RemindersStay
    <3> QED BY <2>2, <3>2, <3>3
  <2>3. CASE MarkAccepted(h) \/ Accept(h)
    <3>1. Key(h) \in Users
      BY <2>3 DEF MarkAccepted, Accept, At, Key, Typed, TasksTyped, KeyFits, UserOps
    <3>2. invite' = invite \/ (Exists(Key(h)) /\ invite' = Accepted(Key(h)))
      BY <2>3 DEF MarkAccepted, Accept, At, Typed, RowsSeen, SeenBy
    <3> QED BY <1>1, <1>2, <2>1, <3>1, <3>2
  <2>4. ASSUME NEW u \in Users,
               \/ \E r \in Roles : InviteUser(h, u, r) \/ InviteAddress(h, u, r)
               \/ \E kind \in {"bounced", "complained"} : ReceiveFeedback(h, u, kind)
               \/ Resend(h, u) \/ ReadToAccept(h, u) \/ ReadToDecline(h, u)
        PROVE  RemindersCapped'
    <3>1. invite' = invite
      BY <2>4 DEF InviteUser, InviteAddress, ReceiveFeedback, Resend, ReadToAccept, ReadToDecline, inviteVars
    <3> QED BY <1>1, <2>1, <3>1
  <2> QED BY <1>3, <2>2, <2>3, <2>4 DEF InviteStep
<1>4. ASSUME NEW h \in Handlers, LoginStep(h) PROVE RemindersCapped'
  <2>1. cycle' = cycle
    BY <1>4, LoginRows
  <2>2. CASE SyncInvites(h)
    <3>1. Key(h) \in Users
      BY <2>2 DEF SyncInvites, At, Key, Typed, TasksTyped, KeyFits, UserOps
    <3>2. invite' = invite \/ (Exists(Key(h)) /\ invite' = Accepted(Key(h)))
      BY <2>2 DEF SyncInvites, Synced, At, Typed, RowsSeen, SeenBy
    <3> QED BY <1>1, <1>2, <2>1, <3>1, <3>2
  <2>3. ASSUME ~SyncInvites(h) PROVE invite' = invite
    BY <1>4, <2>3 DEF LoginStep, Signup, Login, ResendCode, VerifyEmail, ApproveCli, Callback, WrongPassword, SetWindow,
             Refused, RightPassword, Verified, ReadToSync, AskDeletionCode, ConfirmDeletion, DeletionGranted,
             StoreCliResult, PollCli, TakeCliResult, ResolveUser, ReadExchange, Exchange, inviteVars
  <2> QED BY <1>1, <2>1, <2>2, <2>3
<1>5. CASE CodeActions \/ Expiry \/ StartCli \/ LoginUrl \/ (\E h \in Handlers : Dies(h)) \/ UNCHANGED vars
  <2>1. cycle' = cycle /\ invite' = invite
    BY <1>5 DEF CodeActions, Expiry, WindowEnds, ChallengeExpires, CliExpires, OAuthExpires, StartCli, LoginUrl, Dies,
                vars, inviteVars
  <2> QED BY <1>1, <2>1
<1> QED BY <1>3, <1>4, <1>5, RemindersMaintained DEF Next, InviteActions

LEMMA CountersInit == Init => CountersInv
<1> SUFFICES ASSUME Init PROVE CountersInv
  OBVIOUS
<1>1. \A k : Trying(k) \subseteq Handlers /\ Guessing(k) \subseteq Handlers
  BY DEF Trying, Guessing
<1>2. AttemptsBounded
  BY <1>1, CounterStart, CodeAssumption DEF Init, CodeInit, AttemptsBounded
<1>3. FailuresBounded
  BY <1>1, CounterStart, CodeAssumption, LoginAssumption DEF Init, FailuresBounded
<1>4. RemindersCapped
  BY DEF Init, InviteInit, Exists, RemindersCapped
<1> QED BY <1>2, <1>3, <1>4 DEF CountersInv

\* The bounds of the counters, read off what the requests at once may still add.
LEMMA CountersType == Typed /\ CountersInv => AccountsTypeOK
<1> SUFFICES ASSUME Typed, CountersInv PROVE AccountsTypeOK
  OBVIOUS
<1>1. \A k : Trying(k) \subseteq Handlers /\ Guessing(k) \subseteq Handlers /\ Reminding(k) \subseteq Cycles
  BY DEF Trying, Guessing, Reminding
<1>2. attempts \in [Keys -> 0 .. MaxAttempts + Cardinality(Handlers) - 1]
  BY <1>1, CounterValue, CodeAssumption DEF CountersInv, AttemptsBounded, Typed, CodesTyped
<1>3. failures \in [Users -> 0 .. LoginLimit + Cardinality(Handlers) - 1]
  BY <1>1, CounterValue, CodeAssumption, LoginAssumption DEF CountersInv, FailuresBounded, Typed, LoginsTyped
<1>4. ASSUME NEW u \in Users, Exists(u)
      PROVE  invite[u] \in [role : Roles, accepted : BOOLEAN, revoked : BOOLEAN, expired : BOOLEAN,
                            mail : MailStatus, reminders : 0 .. MaxReminders + Cardinality(Cycles) - 1]
  <2>1. invite[u] \in Row
    BY <1>4 DEF Exists, Typed, InvitesTyped
  <2>2. invite[u].reminders \in Nat
    BY <2>1 DEF Row
  <2>3. invite[u].reminders \in 0 .. MaxReminders + Cardinality(Cycles) - 1
    BY <1>1, <1>4, <2>2, CounterValue, InviteAssumption DEF CountersInv, RemindersCapped
  <2> QED BY <2>1, <2>3 DEF Row
<1>5. invite \in [Users -> {NoRow}
         \cup [role : Roles, accepted : BOOLEAN, revoked : BOOLEAN, expired : BOOLEAN,
               mail : MailStatus, reminders : 0 .. MaxReminders + Cardinality(Cycles) - 1]]
  BY <1>4 DEF Exists, Typed, InvitesTyped
<1>6. DOMAIN tasks = Handlers /\ \A h \in Handlers : tasks[h].key \in Keys \cup {NoUser}
  BY DEF Typed, TasksTyped, Kept
<1>7. {cli, oauth} \subseteq [open : BOOLEAN, result : Users \cup {NoUser}]
  BY DEF Typed, LoginsTyped
<1> QED BY <1>2, <1>3, <1>5, <1>6, <1>7 DEF AccountsTypeOK, Typed, CodesTyped, InvitesTyped, LoginsTyped, CycleKind

\* AccountsTypeOK: rows, keys and requests have the values the code gives them, and
\* wrong codes, failed logins and reminders exceed their limits by no more than the
\* requests, or the maintenance cycles of whatever process, that passed the check at once.
THEOREM AccountsTypeCorrect == Spec => []AccountsTypeOK
<1>1. Typed /\ Typed' /\ CountersInv /\ [Next]_vars => CountersInv'
  BY AttemptsStep, FailuresStep, RemindersStep DEF CountersInv
<1> QED BY <1>1, CountersInit, CountersType, AccountsTyped, PTL DEF Spec
=============================================================================
