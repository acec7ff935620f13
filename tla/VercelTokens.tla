---------------------------- MODULE VercelTokens ----------------------------
(***************************************************************************)
(* The Vercel connections of users and the refresh tokens in them.  A       *)
(* request that finds the access token about to expire exchanges the        *)
(* refresh token at Vercel and writes the answer by the id of the row it    *)
(* read.  Meanwhile the row may have been refreshed by another request,     *)
(* given to another account or user, or deleted; and Vercel may take the    *)
(* old refresh token back when it issues a new one.                         *)
(***************************************************************************)
EXTENDS Naturals

CONSTANTS
    VercelUsers,        \* our users
    Vercels,            \* Vercel accounts
    TokenRequests,      \* requests that need an API token, served at once
    MaxRows,            \* bound: connection rows ever made
    MaxTokens,          \* bound: refresh tokens issued to an account
    NoVercelUser, NoVercel

VARIABLES
    rows,           \* vercelConnection by id: user, account, refresh token
    issued,         \* the number of refresh tokens issued to each account
    valid,          \* the refresh tokens Vercel accepts
    rotation,       \* what Vercel does at a refresh: "none" (no new token), "keep" (the old one
                    \*   goes on working) or "revoke"
    requests,       \* the row a request read and the token it holds
    spoilt          \* ghost: rows whose account changed between a request's read and its write,
                    \*   or whose new token was lost with the request

vercelVars == <<rows, issued, valid, rotation, requests, spoilt>>

ASSUME VercelAssumption ==
    /\ MaxRows \in Nat /\ MaxTokens \in Nat
    /\ NoVercelUser \notin VercelUsers /\ NoVercel \notin Vercels

NoToken == <<NoVercel, 0>>
NoRow == [user |-> NoVercelUser, vercel |-> NoVercel, token |-> NoToken]
NoRequest == [at |-> "none", row |-> 0, vercel |-> NoVercel, token |-> NoToken]
Ids == 1..MaxRows
Linked(u) == {i \in Ids : rows[i].user = u}

VercelInit ==
    /\ rows = [i \in Ids |-> NoRow]
    /\ issued = [v \in Vercels |-> 0]
    /\ valid = {}
    /\ rotation \in {"none", "keep", "revoke"}
    /\ requests = [q \in TokenRequests |-> NoRequest]
    /\ spoilt = {}

\* A new refresh token for the account.
Issue(v) ==
    /\ issued[v] < MaxTokens
    /\ issued' = [issued EXCEPT ![v] = @ + 1]

-----------------------------------------------------------------------------
(* The callback of the OAuth redirect, and DELETE .../connection *)

Fresh == {i \in Ids : \A j \in Ids : (j >= i) => rows[j] = NoRow}

\* The row of the account, if another user has it; else the user's own; else a new one.  Ids are
\* not used twice: a deleted row keeps its account in the model.
Upserted(u, v) ==
    LET taken == {i \in Ids : rows[i].vercel = v /\ rows[i].user \in VercelUsers \ {u}} IN
    CASE taken # {} -> taken
      [] taken = {} /\ Linked(u) # {} -> Linked(u)
      [] OTHER -> {i \in Fresh : \A j \in Fresh : i <= j}

\* One transaction; the row of the user who takes an account over is deleted.
Connect(u, v) ==
    LET t == <<v, issued[v] + 1>> IN
    /\ Issue(v)
    /\ valid' = valid \cup {t}
    /\ \E i \in Upserted(u, v) :
          rows' = [j \in Ids |-> IF j = i THEN [user |-> u, vercel |-> v, token |-> t]
                                 ELSE IF rows[j].user = u THEN [rows[j] EXCEPT !.user = NoVercelUser]
                                 ELSE rows[j]]
    /\ UNCHANGED <<rotation, requests, spoilt>>

Delete(u) ==
    /\ Linked(u) # {}
    /\ rows' = [i \in Ids |-> IF rows[i].user = u THEN [rows[i] EXCEPT !.user = NoVercelUser] ELSE rows[i]]
    /\ UNCHANGED <<issued, valid, rotation, requests, spoilt>>

-----------------------------------------------------------------------------
(* resolveVercelApiToken and refreshStoredConnectionToken *)

AnswerRequest(q) == requests' = [requests EXCEPT ![q] = NoRequest]

\* A request that finds the access token about to expire.
ReadExpiring(q, u) ==
    /\ requests[q] = NoRequest
    /\ \E i \in Linked(u) :
          requests' = [requests EXCEPT ![q] =
              [at |-> "refresh", row |-> i, vercel |-> rows[i].vercel, token |-> rows[i].token]]
    /\ UNCHANGED <<rows, issued, valid, rotation, spoilt>>

NextTokenMutant(q, new) == requests[q].token
\* refreshed.refresh_token ?? refreshToken
NextToken(q, new) == IF rotation = "none" THEN requests[q].token ELSE new

Refresh(q) ==
    LET r == requests[q]
        v == r.token[1]
        new == <<v, issued[v] + 1>>
    IN
    /\ r.at = "refresh" /\ r.token \in valid
    /\ IF rotation = "none" THEN UNCHANGED <<issued, valid>>
       ELSE /\ Issue(v)
            /\ valid' = (IF rotation = "keep" THEN valid ELSE valid \ {r.token}) \cup {new}
    /\ requests' = [requests EXCEPT ![q].at = "write", ![q].token = NextToken(q, new)]
    /\ UNCHANGED <<rows, rotation, spoilt>>

RefreshRefused(q) ==
    /\ requests[q].at = "refresh"
    /\ AnswerRequest(q)
    /\ UNCHANGED <<rows, issued, valid, rotation, spoilt>>

\* The row with the id that was read, if it exists.
Written(q) == {i \in Ids : i = requests[q].row /\ rows[i].user # NoVercelUser}

WriteToken(q) ==
    LET r == requests[q] IN
    /\ r.at = "write"
    /\ rows' = [i \in Ids |-> IF i \in Written(q) THEN [rows[i] EXCEPT !.token = r.token] ELSE rows[i]]
    /\ spoilt' = IF rows[r.row].vercel # r.vercel THEN spoilt \cup {r.row} ELSE spoilt
    /\ AnswerRequest(q)
    /\ UNCHANGED <<issued, valid, rotation>>

\* The update fails or the process dies: the new token is lost.
WriteLost(q) ==
    /\ requests[q].at = "write"
    /\ spoilt' = spoilt \cup {requests[q].row}
    /\ AnswerRequest(q)
    /\ UNCHANGED <<rows, issued, valid, rotation>>

VercelNext ==
    \/ \E u \in VercelUsers : Delete(u) \/ \E v \in Vercels : Connect(u, v)
    \/ \E q \in TokenRequests :
          \/ \E u \in VercelUsers : ReadExpiring(q, u)
          \/ Refresh(q) \/ RefreshRefused(q) \/ WriteToken(q) \/ WriteLost(q)

VercelSpec == VercelInit /\ [][VercelNext]_vercelVars

\* The refresh token of a connection belongs to the account the row names, and Vercel accepts it
\* unless a request is about to write the one that replaces it: overlapping refreshes, takeovers
\* and a delete followed by a new connect lose no token.  Two things do: an account that changes
\* under a refresh (vercel-routes.ts 768 writes by id what belongs to the account before), and a
\* refresh that dies before its write.
TokensFitAccount ==
    \A i \in Ids : rows[i].user # NoVercelUser /\ i \notin spoilt =>
        /\ rows[i].token[1] = rows[i].vercel
        /\ \/ rows[i].token \in valid
           \/ \E q \in TokenRequests : requests[q].at = "write" /\ requests[q].row = i

=============================================================================
