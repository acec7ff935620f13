----------------------------- MODULE MCAccounts -----------------------------
(***************************************************************************)
(* One user and one project to delete, two requests at a time, two cycles   *)
(* of two maintenance workers; two tabs of a browser that lead to the       *)
(* pages; and what an organization is told of the usage of its projects.    *)
(* An initial state chooses the one that moves.                             *)
(***************************************************************************)
EXTENDS Accounts, SignInPages, UsageReport, TLC

CONSTANTS u1, d1, h1, h2, w1, w2, k1, k2, c1

VARIABLE moving     \* the part that moves

\* What an initial state leaves open is settled in the parts that do not move.
AccountsInit ==
    /\ moving \in {"requests", "tabs", "reports"}
    /\ Init /\ SignInInit
    /\ ReportInit /\ (moving # "reports" => period.status = "active")

AccountsNext ==
    /\ \/ moving = "requests" /\ Next
       \/ moving # "requests" /\ UNCHANGED vars
    /\ \/ moving = "tabs" /\ SignInNext
       \/ moving # "tabs" /\ UNCHANGED signInVars
    /\ \/ moving = "reports" /\ ReportNext
       \/ moving # "reports" /\ UNCHANGED reportVars
    /\ UNCHANGED moving

AccountsSpec == AccountsInit /\ [][AccountsNext]_<<vars, signInVars, reportVars, moving>>

\* The tabs and the projects are named as the requests are.
Sym == Permutations({h1, h2}) \cup Permutations({w1, w2}) \cup Permutations({k1, k2})

\* UsageAddsUp, where the usage moves.
ReportsAddUp == moving = "reports" => UsageAddsUp

\* A report is read before the first new period, while no other project has used anything.
FirstPeriod ==
    detail # NoDetail =>
        period.span.start = 0 /\ \A p \in members \ {detail.project} : Of(p, Times) = 0

\* What shares no state is explored apart: the failed logins, the command line, the
\* deletion code, and the codes beside the invitations.
Inviting == \E u \in Users : Exists(u)
Deleting == \E d \in Deletions : d \in cooldown \/ code[d] # NoCode \/ attempts[d] > 0
                                 \/ \E h \in Handlers : Key(h) = d
Failing == \E u \in Users : failures[u] > 0
OnCli == cli # NoLogin
Coding == \E u \in Users : u \in cooldown \/ attempts[u] > 0
Tending == lock \/ \E c \in Cycles : cycle[c] # Rest
Crowded == \A h \in Handlers : ~Free(h)
OnOAuth == oauth # NoLogin
Apart ==
    /\ Deleting => account = [u \in Users |-> "none"] /\ ~Inviting /\ ~Failing
    /\ OnCli => ~Inviting /\ ~Coding /\ ~Failing /\ ~OnOAuth
    /\ Failing => ~Inviting /\ ~OnOAuth /\ ~Coding /\ code = [k \in Keys |-> NoCode]
    /\ Coding \/ challenges # [c \in Challenges |-> NoUser] =>
         /\ ~Tending /\ ~OnOAuth
         /\ \A u \in Users : Exists(u) =>
              invite[u].mail = "sent" /\ ~invite[u].expired /\ attempts[u] = 0
    /\ Tending => Inviting /\ ~OnOAuth /\ \A u \in Users : Exists(u) => invite[u].role = 1
    /\ (\A c \in Cycles : cycle[c] # Rest) =>
         /\ \A h \in Handlers : Free(h)
         /\ \A u \in Users : Exists(u) => invite[u].mail \in {"sent", "failed"}
    /\ OnOAuth => \A u \in Users : Exists(u) => invite[u].mail = "sent" /\ invite[u].reminders = 0
    /\ Coding /\ Inviting => \A u \in Users : invite[u].role = 1
    /\ Crowded => /\ ~Tending
                  /\ ~oauth.open
                  /\ Inviting => ~Coding /\ challenges = [c \in Challenges |-> NoUser]
                  /\ \A u \in Users : Exists(u) =>
                       invite[u].mail \in {"not_sent", "sent"} /\ invite[u].reminders = 0
                                  /\ ~invite[u].expired
=============================================================================
