----------------------------- MODULE OneTimeCode -----------------------------
(***************************************************************************)
(* One-time codes kept in Redis: a cooldown, a code and a counter of wrong  *)
(* attempts under three keys, written by commands that other requests can   *)
(* come between.  A key stands for a user's e-mail verification, or for a   *)
(* user's confirmation that a project is to be deleted.                     *)
(***************************************************************************)
EXTENDS Naturals, FiniteSets

CONSTANTS
    Users, Deletions,   \* what a code may be for
    Handlers,           \* requests served at once
    MaxAttempts,        \* EMAIL_VERIFICATION_MAX_ATTEMPTS
    NoUser,
    NoChallenge,
    NoCode              \* the code key is absent

VARIABLES
    code,       \* which request stored the code of each key
    mailed,     \* keys whose stored code reached its addressee
    cooldown,   \* keys whose cooldown has not expired
    attempts,   \* wrong attempts counted for each key
    orphaned,   \* ghost: keys whose cooldown was reserved by a request that died
    tasks       \* the requests being served

codeVars == <<code, mailed, cooldown, attempts, orphaned>>

Keys == Users \cup Deletions

ASSUME CodeAssumption ==
    /\ MaxAttempts \in Nat \ {0}
    /\ IsFiniteSet(Handlers)
    /\ NoUser \notin Keys
    /\ NoCode \notin Handlers

Idle == [op |-> "idle", key |-> NoUser, why |-> "none", challenge |-> NoChallenge,
         was |-> 0, role |-> 0]
Task(op, k, why, c) == [Idle EXCEPT !.op = op, !.key = k, !.why = why, !.challenge = c]

Free(h) == tasks[h] = Idle
At(h, op) == tasks[h].op = op
Key(h) == tasks[h].key

Start(h, t) == Free(h) /\ tasks' = [tasks EXCEPT ![h] = t]
Go(h, op) == tasks' = [tasks EXCEPT ![h].op = op]
Done(h) == tasks' = [tasks EXCEPT ![h] = Idle]

CodeInit ==
    /\ code = [k \in Keys |-> NoCode]
    /\ mailed = {}
    /\ cooldown = {}
    /\ attempts = [k \in Keys |-> 0]
    /\ orphaned = {}

-----------------------------------------------------------------------------
(* sendCode *)

\* SET NX of the cooldown; a signup sets it whatever was there.
ReserveCooldown(h) ==
    /\ \/ At(h, "reserve") /\ Key(h) \notin cooldown
       \/ At(h, "bypass")
    /\ cooldown' = cooldown \cup {Key(h)}
    /\ orphaned' = orphaned \ {Key(h)}
    /\ Go(h, "store")
    /\ UNCHANGED <<code, mailed, attempts>>

\* 429: a code was asked for a moment ago.
Throttled(h) ==
    /\ At(h, "reserve")
    /\ Key(h) \in cooldown
    /\ Done(h)
    /\ UNCHANGED codeVars

StoreCode(h) ==
    /\ At(h, "store")
    /\ code' = [code EXCEPT ![Key(h)] = h]
    /\ mailed' = mailed \ {Key(h)}
    /\ Go(h, "reset")
    /\ UNCHANGED <<cooldown, attempts, orphaned>>

ClearAttempts(h) ==
    /\ At(h, "reset")
    /\ attempts' = [attempts EXCEPT ![Key(h)] = 0]
    /\ Go(h, "mail")
    /\ UNCHANGED <<code, mailed, cooldown, orphaned>>

MailDelivered(h) ==
    /\ At(h, "mail")
    /\ mailed' = IF code[Key(h)] = h THEN mailed \cup {Key(h)} ELSE mailed
    /\ Done(h)
    /\ UNCHANGED <<code, cooldown, attempts, orphaned>>

\* In production a failed mail is an error: the code and the cooldown stay.
MailFails(h) ==
    /\ At(h, "mail")
    /\ Go(h, "refuse")
    /\ UNCHANGED codeVars

-----------------------------------------------------------------------------
(* verifyCode *)

CheckAttempts(h) ==
    /\ At(h, "check")
    /\ IF attempts[Key(h)] >= MaxAttempts THEN Done(h) ELSE Go(h, "compare")
    /\ UNCHANGED codeVars

\* The code read is compared with what was typed: a code that was mailed may be
\* typed right, and any code wrong.
Compare(h) ==
    /\ At(h, "compare")
    /\ \/ code[Key(h)] = NoCode /\ Done(h)
       \/ code[Key(h)] # NoCode /\ Go(h, "wrong")
       \/ code[Key(h)] # NoCode /\ Key(h) \in mailed /\ Go(h, "matched")
    /\ UNCHANGED codeVars

CountWrong(h) ==
    /\ At(h, "wrong")
    /\ attempts' = [attempts EXCEPT ![Key(h)] = @ + 1]
    /\ Done(h)
    /\ UNCHANGED <<code, mailed, cooldown, orphaned>>

ConsumeMutant(h) ==
    /\ At(h, "matched")
    /\ code' = [code EXCEPT ![Key(h)] = NoCode]
    /\ mailed' = mailed \ {Key(h)}
    /\ attempts' = [attempts EXCEPT ![Key(h)] = 0]
    /\ Go(h, "granted")
    /\ UNCHANGED <<cooldown, orphaned>>

\* One DEL of the three keys, whatever they hold by now.
Consume(h) ==
    /\ At(h, "matched")
    /\ code' = [code EXCEPT ![Key(h)] = NoCode]
    /\ mailed' = mailed \ {Key(h)}
    /\ cooldown' = cooldown \ {Key(h)}
    /\ attempts' = [attempts EXCEPT ![Key(h)] = 0]
    /\ orphaned' = orphaned \ {Key(h)}
    /\ Go(h, "granted")

-----------------------------------------------------------------------------
(* Expiry *)

CooldownExpires(k) ==
    /\ k \in cooldown
    /\ cooldown' = cooldown \ {k}
    /\ orphaned' = orphaned \ {k}
    /\ UNCHANGED <<code, mailed, attempts, tasks>>

\* A code lives longer than the cooldown it was sent under: it goes first only
\* when a later cooldown has been reserved and no code stored under it yet.
CodeExpires(k) ==
    /\ code[k] # NoCode
    /\ k \in cooldown => k \in orphaned \/ \E h \in Handlers : At(h, "store") /\ Key(h) = k
    /\ code' = [code EXCEPT ![k] = NoCode]
    /\ mailed' = mailed \ {k}
    /\ UNCHANGED <<cooldown, attempts, orphaned, tasks>>

AttemptsExpire(k) ==
    /\ attempts[k] > 0
    /\ attempts' = [attempts EXCEPT ![k] = 0]
    /\ UNCHANGED <<code, mailed, cooldown, orphaned, tasks>>

\* What is left behind when the request that held key k ends half way.
Abandon(h) ==
    orphaned' = IF At(h, "store") /\ Key(h) \in cooldown
                  THEN orphaned \cup {Key(h)} ELSE orphaned

\* The codes that confirm a deletion are a second service with the same commands.
CodeStep(h) ==
    \/ ReserveCooldown(h) \/ Throttled(h) \/ StoreCode(h) \/ ClearAttempts(h)
    \/ MailDelivered(h) \/ MailFails(h)
    \/ CheckAttempts(h) \/ Compare(h) \/ CountWrong(h) \/ Consume(h)

CodeExpiry(k) == CooldownExpires(k) \/ CodeExpires(k) \/ AttemptsExpire(k)

-----------------------------------------------------------------------------
\* While a key cools down there is a code to type, as the login handler says when
\* it answers a throttled request (auth/routes.ts:299), unless the request that
\* reserved the cooldown has not stored its code yet or died before it did.
CooldownMeansCode ==
    \A k \in cooldown :
        \/ code[k] # NoCode
        \/ k \in orphaned
        \/ \E h \in Handlers : At(h, "store") /\ Key(h) = k
=============================================================================
