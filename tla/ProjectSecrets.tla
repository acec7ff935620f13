---------------------------- MODULE ProjectSecrets ----------------------------
(***************************************************************************)
(* The environment variables of one project: the rows that                  *)
(* secrets/routes.ts keeps, and the Environment tab of the project's page,  *)
(* which holds the values it has revealed.  A bulk import upserts its keys  *)
(* in batches, a batch at a time, the upserts of a batch at once and each a *)
(* transaction of its own: when one fails the request is answered and the   *)
(* others of the batch go on.  Encryption, roles and messages are left out. *)
(***************************************************************************)
EXTENDS Naturals, Sequences, FiniteSets, Functions, TLC

CONSTANTS
    EnvKeys, EnvValues,     \* names and (non-empty) values of variables
    NoEnvValue,             \* a row or a revealed value that is not there
    TabTexts,               \* what is pasted into the tab: sequences of lines
    TouchedKeys,            \* bound: the keys that are written one at a time, here or elsewhere
    BatchSize,              \* upserts at once: 25 in the code
    MaxBulks                \* bound: bulk imports, answered or not, with upserts to do

\* A line of text is a key and a value; one of these the parser of .env files refuses.
BadLine == <<NoEnvValue, NoEnvValue>>
Lines == EnvKeys \X EnvValues
Texts == Seq(Lines \cup {BadLine})

ASSUME SecretsAssumption ==
    /\ TouchedKeys \subseteq EnvKeys /\ NoEnvValue \notin EnvValues
    /\ TabTexts \subseteq Texts /\ BatchSize \in Nat

VARIABLES
    secrets,    \* projectSecret: the value of every key
    bulks,      \* the bulk imports: what they were given, how far they are
    listed,     \* the tab's list of keys
    revealed,   \* the values the tab shows, or edits without asking again
    draft,      \* the key and the value in the tab's fields, and whether it edits a row of the list
    calls,      \* the tab's requests: "list", "reveal", "save", "delete"
    outdated,    \* ghost: the keys whose revealed value may be old, see RevealedIsStored
    since       \* ghost: the keys that a request other than the new project's import has written

secretVars == <<secrets, bulks, listed, revealed, draft, calls, outdated, since>>

Bulks == 1..MaxBulks
NoBulk == [at |-> "none", from |-> "none", next |-> 0, lines |-> <<>>, pending |-> {}]
NoDraft == [key |-> NoEnvValue, value |-> NoEnvValue, editing |-> FALSE]
NoCall == [at |-> "none", key |-> NoEnvValue, value |-> NoEnvValue, keys |-> {}, edit |-> FALSE, old |-> FALSE]
NoValues == [k \in EnvKeys |-> NoEnvValue]
Rows == {k \in EnvKeys : secrets[k] # NoEnvValue}

SecretsInit ==
    /\ secrets = NoValues
    /\ bulks = [b \in Bulks |-> NoBulk]
    /\ listed = {} /\ revealed = NoValues
    /\ draft = NoDraft
    /\ calls = [c \in {"list", "reveal", "save", "delete"} |-> NoCall]
    /\ outdated = {} /\ since = {}

-----------------------------------------------------------------------------
(* POST .../secrets/bulk *)

\* The Map that the lines are put into keeps the last value of a key, at the place of its first.
KeysOf(lines) == {lines[i][1] : i \in DOMAIN lines}
LinesOf(lines, k) == {i \in DOMAIN lines : lines[i][1] = k}
LastValue(lines, k) == lines[CHOOSE i \in LinesOf(lines, k) : \A j \in LinesOf(lines, k) : j <= i][2]
PlaceOfKey(lines, k) ==
    LET first == CHOOSE i \in LinesOf(lines, k) : \A j \in LinesOf(lines, k) : i <= j IN
    Cardinality({lines[j][1] : j \in 1..first})

\* The request of "wizard" or "tab", the lines of a text and then the entries of a list, which replace
\* the text's; one whose text does not parse, or that brings nothing, is refused.
StartBulk(b, from, text, rows) ==
    /\ bulks[b] = NoBulk
    /\ LET refused == BadLine \in Range(text) \/ text \o rows = <<>> IN
       bulks' = [bulks EXCEPT ![b] =
           [NoBulk EXCEPT !.at = IF refused THEN "failed" ELSE "run", !.from = from,
                          !.lines = IF refused THEN <<>> ELSE text \o rows]]

\* Mutant: the last keys are left out when they do not fill a batch.
BatchMutant(b) ==
    {k \in KeysOf(bulks[b].lines) :
        /\ PlaceOfKey(bulks[b].lines, k) \in (bulks[b].next + 1)..(bulks[b].next + BatchSize)
        /\ bulks[b].next + BatchSize <= Cardinality(KeysOf(bulks[b].lines))}

\* slice(index, index + batchSize)
Batch(b) ==
    {k \in KeysOf(bulks[b].lines) :
        PlaceOfKey(bulks[b].lines, k) \in (bulks[b].next + 1)..(bulks[b].next + BatchSize)}

\* Whether there are keys for another batch
HasMore(b) == bulks[b].next < Cardinality(KeysOf(bulks[b].lines))

NextBatch(b) ==
    /\ bulks[b].at = "run" /\ bulks[b].pending = {} /\ HasMore(b)
    /\ bulks' = [bulks EXCEPT ![b].pending = Batch(b), ![b].next = @ + BatchSize]
    /\ UNCHANGED <<secrets, listed, revealed, draft, calls, outdated, since>>

\* Requests of the tab that have been served for the key know an older value than the row's.
Overtake(keys) ==
    [c \in DOMAIN calls |->
        IF calls[c].at = "served" /\ calls[c].key \in keys THEN [calls[c] EXCEPT !.old = TRUE] ELSE calls[c]]

\* Also when the request has been answered because another upsert of the batch failed.
UpsertOne(b, k) ==
    /\ k \in bulks[b].pending
    /\ secrets' = [secrets EXCEPT ![k] = LastValue(bulks[b].lines, k)]
    /\ bulks' = [bulks EXCEPT ![b].pending = @ \ {k}]
    /\ outdated' = outdated \cup {k} /\ calls' = Overtake({k})
    /\ since' = IF bulks[b].from = "wizard" THEN since ELSE since \cup {k}
    /\ UNCHANGED <<listed, revealed, draft>>

UpsertFails(b, k) ==
    /\ k \in bulks[b].pending
    /\ bulks' = [bulks EXCEPT ![b].pending = @ \ {k}, ![b].at = IF @ = "run" THEN "failed" ELSE @]
    /\ UNCHANGED <<secrets, listed, revealed, draft, calls, outdated, since>>

\* The audit record comes last, and may fail after everything is written.
EndBulk(b) ==
    /\ bulks[b].at = "run" /\ bulks[b].pending = {} /\ ~HasMore(b)
    /\ \E at \in {"ok", "failed"} : bulks' = [bulks EXCEPT ![b].at = at]
    /\ UNCHANGED <<secrets, listed, revealed, draft, calls, outdated, since>>

\* The answer has been read and every upsert has ended: nothing is left of the request.
ForgetBulk(b) ==
    /\ bulks[b].at = "read" /\ bulks[b].pending = {}
    /\ bulks' = [bulks EXCEPT ![b] = NoBulk]
    /\ UNCHANGED <<secrets, listed, revealed, draft, calls, outdated, since>>

-----------------------------------------------------------------------------
(* Somebody else's PUT or DELETE *)

ElseWrites(k) ==
    /\ \E v \in EnvValues \cup {NoEnvValue} : secrets' = [secrets EXCEPT ![k] = v]
    /\ outdated' = outdated \cup {k} /\ calls' = Overtake({k}) /\ since' = since \cup {k}
    /\ UNCHANGED <<bulks, listed, revealed, draft>>

-----------------------------------------------------------------------------
(* The tab's requests *)

Send(type, call) ==
    /\ calls[type] = NoCall
    /\ calls' = [calls EXCEPT ![type] = [call EXCEPT !.at = "sent"]]

\* loadProjectSecrets
LoadSecrets ==
    /\ Send("list", NoCall)
    /\ UNCHANGED <<secrets, bulks, listed, revealed, draft, outdated, since>>

RevealSecret(k) ==
    /\ k \in listed /\ revealed[k] = NoEnvValue
    /\ Send("reveal", [NoCall EXCEPT !.key = k])
    /\ UNCHANGED <<secrets, bulks, listed, revealed, draft, outdated, since>>

HideSecret(k) ==
    /\ k \in listed /\ revealed[k] # NoEnvValue
    /\ revealed' = [revealed EXCEPT ![k] = NoEnvValue]
    /\ outdated' = outdated \ {k}
    /\ draft' = IF draft.editing /\ draft.key = k THEN NoDraft ELSE draft
    /\ UNCHANGED <<secrets, bulks, listed, calls, since>>

\* editProjectEnvVar: from what has been revealed, else by revealing it
EditSecret(k) ==
    /\ k \in listed
    /\ IF revealed[k] # NoEnvValue
       THEN draft' = [key |-> k, value |-> revealed[k], editing |-> TRUE] /\ UNCHANGED calls
       ELSE Send("reveal", [NoCall EXCEPT !.key = k, !.edit = TRUE]) /\ UNCHANGED draft
    /\ UNCHANGED <<secrets, bulks, listed, revealed, outdated, since>>

CancelEdit ==
    /\ draft.editing /\ calls["save"] = NoCall
    /\ draft' = NoDraft
    /\ UNCHANGED <<secrets, bulks, listed, revealed, calls, outdated, since>>

\* saveProjectEnvVar: the key of a row that is edited stays, the value may have been typed over.
SaveSecret(k, v) ==
    /\ draft.editing => k = draft.key
    /\ Send("save", [NoCall EXCEPT !.key = k, !.value = v])
    /\ UNCHANGED <<secrets, bulks, listed, revealed, draft, outdated, since>>

DeleteSecret(k) ==
    /\ k \in listed
    /\ Send("delete", [NoCall EXCEPT !.key = k])
    /\ UNCHANGED <<secrets, bulks, listed, revealed, draft, outdated, since>>

-----------------------------------------------------------------------------
(* The routes that serve them *)

Served(type, call) == [calls EXCEPT ![type] = [call EXCEPT !.at = "served"]]

\* The row is written; of the tab's own answers on their way, an older one may come later.
ServedWrite(type, k) ==
    [Overtake({k}) EXCEPT ![type] = [calls[type] EXCEPT !.at = "served"]]

ServeList ==
    /\ calls["list"].at = "sent"
    /\ calls' = Served("list", [calls["list"] EXCEPT !.keys = Rows])
    /\ UNCHANGED <<secrets, bulks, listed, revealed, draft, outdated, since>>

ServeReveal ==
    LET k == calls["reveal"].key IN
    /\ calls["reveal"].at = "sent"
    /\ calls' = IF k \in Rows THEN Served("reveal", [calls["reveal"] EXCEPT !.value = secrets[k]])
                ELSE [calls EXCEPT !["reveal"] = NoCall]
    /\ UNCHANGED <<secrets, bulks, listed, revealed, draft, outdated, since>>

ServeSave ==
    /\ calls["save"].at = "sent"
    /\ secrets' = [secrets EXCEPT ![calls["save"].key] = calls["save"].value]
    /\ calls' = ServedWrite("save", calls["save"].key)
    /\ since' = since \cup {calls["save"].key}
    /\ UNCHANGED <<bulks, listed, revealed, draft, outdated>>

ServeDelete ==
    /\ calls["delete"].at = "sent"
    /\ secrets' = [secrets EXCEPT ![calls["delete"].key] = NoEnvValue]
    /\ calls' = ServedWrite("delete", calls["delete"].key)
    /\ since' = since \cup {calls["delete"].key}
    /\ UNCHANGED <<bulks, listed, revealed, draft, outdated>>

-----------------------------------------------------------------------------
(* The answers *)

\* What is revealed of a key, and whether it was old when it came.
Learn(k, v, old) ==
    /\ revealed' = [revealed EXCEPT ![k] = v]
    /\ outdated' = IF old THEN outdated \cup {k} ELSE outdated \ {k}

\* Keys that are gone are no longer revealed, and no longer edited.
ListAnswered ==
    LET keys == calls["list"].keys IN
    /\ calls["list"].at = "served"
    /\ calls' = [calls EXCEPT !["list"] = NoCall]
    /\ listed' = keys
    /\ revealed' = [k \in EnvKeys |-> IF k \in keys THEN revealed[k] ELSE NoEnvValue]
    /\ draft' = IF draft.editing /\ draft.key \notin keys THEN [draft EXCEPT !.editing = FALSE] ELSE draft
    /\ UNCHANGED <<secrets, bulks, outdated, since>>

ListFails ==
    /\ calls["list"] # NoCall
    /\ calls' = [calls EXCEPT !["list"] = NoCall]
    /\ listed' = {} /\ revealed' = NoValues
    /\ UNCHANGED <<secrets, bulks, draft, outdated, since>>

RevealAnswered ==
    LET call == calls["reveal"] IN
    /\ call.at = "served"
    /\ Learn(call.key, call.value, call.old)
    /\ draft' = IF call.edit THEN [key |-> call.key, value |-> call.value, editing |-> TRUE] ELSE draft
    /\ calls' = [calls EXCEPT !["reveal"] = NoCall]
    /\ UNCHANGED <<secrets, bulks, listed, since>>

\* The list is loaded again (a load already on its way is waited for: a bound) and the fields emptied.
SaveAnswered ==
    LET call == calls["save"] IN
    /\ call.at = "served" /\ calls["list"] = NoCall
    /\ Learn(call.key, call.value, call.old)
    /\ calls' = [calls EXCEPT !["save"] = NoCall, !["list"] = [NoCall EXCEPT !.at = "sent"]]
    /\ draft' = NoDraft
    /\ UNCHANGED <<secrets, bulks, listed, since>>

\* Mutant: what was revealed is forgotten with the list only.
DeleteAnsweredMutant ==
    LET call == calls["delete"] IN
    /\ call.at = "served"
    /\ listed' = listed \ {call.key}
    /\ UNCHANGED <<revealed, outdated>>
    /\ draft' = IF draft.editing /\ draft.key = call.key THEN NoDraft ELSE draft
    /\ calls' = [calls EXCEPT !["delete"] = NoCall]
    /\ UNCHANGED <<secrets, bulks, since>>

DeleteAnswered ==
    LET call == calls["delete"] IN
    /\ call.at = "served"
    /\ listed' = listed \ {call.key}
    /\ Learn(call.key, NoEnvValue, FALSE)
    /\ draft' = IF draft.editing /\ draft.key = call.key THEN NoDraft ELSE draft
    /\ calls' = [calls EXCEPT !["delete"] = NoCall]
    /\ UNCHANGED <<secrets, bulks, since>>

\* The answer is an error, or is lost after the route has done its work.
CallFails(type) ==
    /\ type # "list" /\ calls[type] # NoCall
    /\ calls' = [calls EXCEPT ![type] = NoCall]
    /\ outdated' = IF type \in {"save", "delete"} /\ calls[type].at = "served"
                  THEN outdated \cup {calls[type].key} ELSE outdated
    /\ UNCHANGED <<secrets, bulks, listed, revealed, draft, since>>

\* importProjectEnvVars: what has been revealed is left as it is.
ImportText ==
    /\ \A b \in Bulks : bulks[b].from = "tab" => bulks[b].at = "read"
    /\ \E b \in Bulks, text \in TabTexts : StartBulk(b, "tab", text, <<>>)
    /\ UNCHANGED <<secrets, listed, revealed, draft, calls, outdated, since>>

ImportAnswered(b) ==
    /\ bulks[b].from = "tab" /\ bulks[b].at \in {"ok", "failed"} /\ calls["list"] = NoCall
    /\ bulks' = [bulks EXCEPT ![b].at = "read"]
    /\ calls' = IF bulks[b].at = "ok" THEN [calls EXCEPT !["list"] = [NoCall EXCEPT !.at = "sent"]] ELSE calls
    /\ UNCHANGED <<secrets, listed, revealed, draft, outdated, since>>

-----------------------------------------------------------------------------
SecretsNext ==
    \/ \E b \in Bulks : NextBatch(b) \/ EndBulk(b) \/ ForgetBulk(b) \/ ImportAnswered(b)
    \/ \E b \in Bulks, k \in EnvKeys : UpsertOne(b, k) \/ UpsertFails(b, k)
    \/ \E k \in TouchedKeys :
          \/ ElseWrites(k) \/ RevealSecret(k) \/ HideSecret(k) \/ EditSecret(k) \/ DeleteSecret(k)
          \/ \E v \in EnvValues : SaveSecret(k, v)
    \/ LoadSecrets \/ CancelEdit \/ ImportText
    \/ ServeList \/ ServeReveal \/ ServeSave \/ ServeDelete
    \/ ListAnswered \/ ListFails \/ RevealAnswered \/ SaveAnswered \/ DeleteAnswered
    \/ \E type \in {"reveal", "save", "delete"} : CallFails(type)

SecretsSpec == SecretsInit /\ [][SecretsNext]_secretVars

\* The tab shows, and edits from, the value a key has, unless since it learned it the row was written
\* by somebody else or by an import; or by a request of its own, that is on its way, was lost, or was
\* served after the one whose answer came last.  (page.tsx keeps revealed values over loads, saves and
\* deletions.)
RevealedIsStored ==
    \A k \in EnvKeys :
        \/ revealed[k] \in {NoEnvValue, secrets[k]}
        \/ k \in outdated
        \/ \E type \in {"save", "delete"} : calls[type].at = "served" /\ calls[type].key = k

=============================================================================
