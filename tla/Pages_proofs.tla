---------------------------- MODULE Pages_proofs ----------------------------
(***************************************************************************)
(* What the pages of the dashboard know of the server, for every order of   *)
(* the events, answers and failures: a form does not wait for a deployment  *)
(* whose end was told; for any keys and values the Environment tab shows    *)
(* what is stored, but for the gaps that the models name, and a new project *)
(* has the variables that its page says are set up.  And the views of the   *)
(* editor are of one account and one organization.                          *)
(***************************************************************************)
EXTENDS DeploymentWatch, ProjectImport, ExtensionWorkspace, FiniteSetTheorems, WellFoundedInduction, TLAPS

-----------------------------------------------------------------------------
(* DeploymentWatch *)

Events == Finals \cup {"none"}
Gaps == {"untold", "unlogged", "canceled", "between", "dropped"}

WatchTyped ==
    /\ dep \in {"none", "progress"} \cup Finals
    /\ pipeline \in {"pop", "assert", "update", "none"}
    /\ saying \in [Sayers -> [event : Events, at : {"none", "log", "publish"}]]
    /\ \A s \in Sayers : saying[s] = Silent \/ (saying[s].event \in Finals /\ saying[s].at # "none")
    /\ saying["cancel"].event # "ready"
    /\ entries \subseteq Finals \cup {"canceled"}
    /\ stream \in [at : {"none", "history", "subscribe", "open"}, pipe : SUBSET Finals]
    /\ form \in [mounted : BOOLEAN, deploying : BOOLEAN, post : BOOLEAN,
                 get : {"none", "sent", "progress"} \cup Finals]
    /\ gaps \subseteq Gaps

\* An end is an entry, or about to become one, unless it was left untold or unlogged.
EndLogged ==
    dep \in Finals /\ gaps \cap {"untold", "unlogged"} = {}
    => entries # {} \/ \E s \in Sayers : saying[s].at = "log"

\* A form that waits for an answered submission has a socket, on which nothing comes before the replay.
Waits == form.deploying /\ ~form.post /\ gaps = {}
HasSocket ==
    /\ form.deploying /\ ~form.post => stream.at # "none" \/ "dropped" \in gaps
    /\ stream.at = "history" => stream.pipe = {}

\* Until something comes, the engine's entries since the replay are still to be published, and so are
\* the cancellations since the socket was opened.
NothingMissed ==
    Waits /\ stream.pipe = {} =>
        /\ "canceled" \in entries => saying["cancel"].at = "publish"
        /\ stream.at \in {"subscribe", "open"} /\ entries \cap Finals # {} => saying["engine"] # Silent

WatchInv == WatchTyped /\ EndLogged /\ HasSocket /\ NothingMissed

\* Who says something has an event for the log; the other goes on as it was.
LEMMA Saying ==
    ASSUME WatchTyped, NEW s \in Sayers, NEW event \in Finals, s = "cancel" => event # "ready",
           NEW x \in {[event |-> event, at |-> "log"], [event |-> event, at |-> "publish"]},
           saying' = [saying EXCEPT ![s] = x]
    PROVE  /\ saying' \in [Sayers -> [event : Events, at : {"none", "log", "publish"}]]
           /\ \A z \in Sayers : saying'[z] = Silent \/ (saying'[z].event \in Finals /\ saying'[z].at # "none")
           /\ saying'["cancel"].event # "ready"
           /\ saying'[s].at = x.at /\ saying'[s] # Silent
           /\ \A z \in Sayers \ {s} : saying'[z] = saying[z]
<1>1. x.event = event /\ x.at # "none" /\ x \in [event : Events, at : {"none", "log", "publish"}]
  BY DEF Events
<1>2. x # Silent
  BY <1>1 DEF Silent
<1>3. saying'[s] = x /\ \A z \in Sayers \ {s} : saying'[z] = saying[z]
  BY DEF WatchTyped
<1>. QED BY <1>1, <1>2, <1>3 DEF WatchTyped, Sayers

\* Every step keeps it.
LEMMA WatchStep == WatchInv /\ [WatchNext]_watchVars => WatchInv'
<1>. SUFFICES ASSUME WatchInv, [WatchNext]_watchVars  PROVE WatchInv'
  OBVIOUS
<1>. USE DEF WatchInv, WatchTyped, EndLogged, HasSocket, NothingMissed, Waits, Events, Gaps, Finals, Sayers
<1>1. CASE PopItem
  <2>1. WatchTyped'
    BY <1>1 DEF PopItem
  <2>2. EndLogged'
    BY <1>1 DEF PopItem
  <2>3. HasSocket'
    BY <1>1 DEF PopItem
  <2>4. NothingMissed'
    BY <1>1 DEF PopItem
  <2>. QED BY <2>1, <2>2, <2>3, <2>4
<1>2. CASE AssertGoesOn
  <2>1. WatchTyped'
    BY <1>2 DEF AssertGoesOn
  <2>2. EndLogged'
    BY <1>2 DEF AssertGoesOn
  <2>3. HasSocket'
    BY <1>2 DEF AssertGoesOn
  <2>4. NothingMissed'
    BY <1>2 DEF AssertGoesOn
  <2>. QED BY <2>1, <2>2, <2>3, <2>4
<1>3. CASE SetProgress
  <2>1. WatchTyped'
    BY <1>3 DEF SetProgress
  <2>2. EndLogged'
    BY <1>3 DEF SetProgress
  <2>3. HasSocket'
    BY <1>3 DEF SetProgress
  <2>4. NothingMissed'
    BY <1>3 DEF SetProgress
  <2>. QED BY <2>1, <2>2, <2>3, <2>4
<1>4. CASE GoLive
  <2>9. /\ saying' \in [Sayers -> [event : Events, at : {"none", "log", "publish"}]]
        /\ \A z \in Sayers : saying'[z] = Silent \/ (saying'[z].event \in Finals /\ saying'[z].at # "none")
        /\ saying'["cancel"].event # "ready" /\ saying'["engine"] # Silent
        /\ saying'["cancel"] = saying["cancel"]
    BY <1>4, Saying DEF GoLive, Say
  <2>1. WatchTyped'
    BY <1>4 DEF GoLive, Say
  <2>2. EndLogged'
    BY <1>4 DEF GoLive, Say
  <2>3. HasSocket'
    BY <1>4 DEF GoLive, Say
  <2>4. NothingMissed'
    BY <1>4, <2>9 DEF GoLive
  <2>. QED BY <2>1, <2>2, <2>3, <2>4
<1>5. CASE FailRun
  <2>8. CASE Say("engine", "failed") /\ UNCHANGED gaps
    <3>9. /\ saying' \in [Sayers -> [event : Events, at : {"none", "log", "publish"}]]
          /\ \A z \in Sayers : saying'[z] = Silent \/ (saying'[z].event \in Finals /\ saying'[z].at # "none")
          /\ saying'["cancel"].event # "ready" /\ saying'["engine"] # Silent
          /\ saying'["cancel"] = saying["cancel"] /\ saying'["engine"].at = "log"
      BY <2>8, Saying DEF Say
    <3>. QED BY <1>5, <2>8, <3>9 DEF FailRun
  <2>9. CASE saying' = saying /\ gaps' = gaps \cup {"untold"}
    BY <1>5, <2>9 DEF FailRun
  <2>. QED BY <1>5, <2>8, <2>9 DEF FailRun
<1>6. CASE CancelListed
  <2>1. WatchTyped'
    BY <1>6 DEF CancelListed, Say, Silent
  <2>2. EndLogged'
    BY <1>6 DEF CancelListed, Say, Silent
  <2>3. HasSocket'
    BY <1>6 DEF CancelListed, Say, Silent
  <2>4. NothingMissed'
    BY <1>6 DEF CancelListed, Say, Silent
  <2>. QED BY <2>1, <2>2, <2>3, <2>4
<1>7. CASE Replay
  <2>1. WatchTyped'
    BY <1>7 DEF Replay
  <2>2. EndLogged'
    BY <1>7 DEF Replay
  <2>3. HasSocket'
    BY <1>7 DEF Replay
  <2>4. NothingMissed'
    BY <1>7 DEF Replay
  <2>. QED BY <2>1, <2>2, <2>3, <2>4
<1>8. CASE Subscribe
  <2>1. WatchTyped'
    BY <1>8 DEF Subscribe
  <2>2. EndLogged'
    BY <1>8 DEF Subscribe
  <2>3. HasSocket'
    BY <1>8 DEF Subscribe
  <2>4. NothingMissed'
    BY <1>8 DEF Subscribe
  <2>. QED BY <2>1, <2>2, <2>3, <2>4
<1>9. CASE Drop
  <2>1. WatchTyped'
    BY <1>9 DEF Drop, NoStream
  <2>2. EndLogged'
    BY <1>9 DEF Drop, NoStream
  <2>3. HasSocket'
    BY <1>9 DEF Drop, NoStream
  <2>4. NothingMissed'
    BY <1>9 DEF Drop, NoStream
  <2>. QED BY <2>1, <2>2, <2>3, <2>4
<1>10. CASE Mount
  <2>1. WatchTyped'
    BY <1>10 DEF Mount, Unmounted
  <2>2. EndLogged'
    BY <1>10 DEF Mount, Unmounted
  <2>3. HasSocket'
    BY <1>10 DEF Mount, Unmounted
  <2>4. NothingMissed'
    BY <1>10 DEF Mount, Unmounted
  <2>. QED BY <2>1, <2>2, <2>3, <2>4
<1>11. CASE Unmount
  <2>1. WatchTyped'
    BY <1>11 DEF Unmount, Unmounted, NoStream
  <2>2. EndLogged'
    BY <1>11 DEF Unmount, Unmounted, NoStream
  <2>3. HasSocket'
    BY <1>11 DEF Unmount, Unmounted, NoStream
  <2>4. NothingMissed'
    BY <1>11 DEF Unmount, Unmounted, NoStream
  <2>. QED BY <2>1, <2>2, <2>3, <2>4
<1>12. CASE Submit
  <2>1. WatchTyped'
    BY <1>12 DEF Submit
  <2>2. EndLogged'
    BY <1>12 DEF Submit
  <2>3. HasSocket'
    BY <1>12 DEF Submit
  <2>4. NothingMissed'
    BY <1>12 DEF Submit
  <2>. QED BY <2>1, <2>2, <2>3, <2>4
<1>13. CASE AcceptPost
  <2>1. WatchTyped'
    BY <1>13 DEF AcceptPost
  <2>2. EndLogged'
    BY <1>13 DEF AcceptPost
  <2>3. HasSocket'
    BY <1>13 DEF AcceptPost
  <2>4. NothingMissed'
    BY <1>13 DEF AcceptPost
  <2>. QED BY <2>1, <2>2, <2>3, <2>4
<1>14. CASE PostAnswered
  <2>1. WatchTyped'
    BY <1>14 DEF PostAnswered, OpenStream
  <2>2. EndLogged'
    BY <1>14 DEF PostAnswered, OpenStream
  <2>3. HasSocket'
    BY <1>14 DEF PostAnswered, OpenStream
  <2>4. NothingMissed'
    BY <1>14 DEF PostAnswered, OpenStream
  <2>. QED BY <2>1, <2>2, <2>3, <2>4
<1>15. CASE PostFails
  <2>1. WatchTyped'
    BY <1>15 DEF PostFails
  <2>2. EndLogged'
    BY <1>15 DEF PostFails
  <2>3. HasSocket'
    BY <1>15 DEF PostFails
  <2>4. NothingMissed'
    BY <1>15 DEF PostFails
  <2>. QED BY <2>1, <2>2, <2>3, <2>4
<1>16. CASE ReadActive
  <2>1. WatchTyped'
    BY <1>16 DEF ReadActive
  <2>2. EndLogged'
    BY <1>16 DEF ReadActive
  <2>3. HasSocket'
    BY <1>16 DEF ReadActive
  <2>4. NothingMissed'
    BY <1>16 DEF ReadActive
  <2>. QED BY <2>1, <2>2, <2>3, <2>4
<1>17. CASE Reconnect
  <2>1. form.get \in {"progress"} \cup Finals
    BY <1>17 DEF Reconnect
  <2>2. CASE form.get = "progress"
    <3>1. form' = [form EXCEPT !.get = "none", !.deploying = TRUE] /\ OpenStream
      BY <1>17, <2>2 DEF Reconnect
    <3>. QED BY <1>17, <3>1 DEF Reconnect, OpenStream
  <2>3. CASE form.get # "progress"
    <3>1. form' = [form EXCEPT !.get = "none"] /\ UNCHANGED <<stream, gaps>>
      BY <1>17, <2>3 DEF Reconnect
    <3>. QED BY <1>17, <3>1 DEF Reconnect
  <2>. QED BY <2>2, <2>3
<1>18. CASE GetFails
  <2>1. WatchTyped'
    BY <1>18 DEF GetFails
  <2>2. EndLogged'
    BY <1>18 DEF GetFails
  <2>3. HasSocket'
    BY <1>18 DEF GetFails
  <2>4. NothingMissed'
    BY <1>18 DEF GetFails
  <2>. QED BY <2>1, <2>2, <2>3, <2>4
<1>19. CASE LoadList
  <2>1. WatchTyped'
    BY <1>19 DEF LoadList
  <2>2. EndLogged'
    BY <1>19 DEF LoadList
  <2>3. HasSocket'
    BY <1>19 DEF LoadList
  <2>4. NothingMissed'
    BY <1>19 DEF LoadList
  <2>. QED BY <2>1, <2>2, <2>3, <2>4
<1>20. CASE ReadList
  <2>1. WatchTyped'
    BY <1>20 DEF ReadList
  <2>2. EndLogged'
    BY <1>20 DEF ReadList
  <2>3. HasSocket'
    BY <1>20 DEF ReadList
  <2>4. NothingMissed'
    BY <1>20 DEF ReadList
  <2>. QED BY <2>1, <2>2, <2>3, <2>4
<1>21. CASE LoadFails
  <2>1. WatchTyped'
    BY <1>21 DEF LoadFails, Show, Turns
  <2>2. EndLogged'
    BY <1>21 DEF LoadFails, Show, Turns
  <2>3. HasSocket'
    BY <1>21 DEF LoadFails, Show, Turns
  <2>4. NothingMissed'
    BY <1>21 DEF LoadFails, Show, Turns
  <2>. QED BY <2>1, <2>2, <2>3, <2>4
<1>22. ASSUME NEW s \in Sayers, Persist(s) PROVE WatchInv'
  <2>1. saying[s].event \in Finals /\ (s = "cancel" => saying[s].event # "ready")
    BY <1>22 DEF Persist, Silent
  <2>2. saying' = [saying EXCEPT ![s] = [event |-> saying[s].event, at |-> "publish"]]
    <3>1. saying[s] \in [event : Events, at : {"none", "log", "publish"}]
      OBVIOUS
    <3>2. [saying[s] EXCEPT !.at = "publish"] = [event |-> saying[s].event, at |-> "publish"]
      BY <3>1
    <3>3. saying' = [saying EXCEPT ![s] = [saying[s] EXCEPT !.at = "publish"]]
      BY <1>22 DEF Persist
    <3>. QED BY <3>2, <3>3
  <2>3. /\ saying' \in [Sayers -> [event : Events, at : {"none", "log", "publish"}]]
        /\ \A z \in Sayers : saying'[z] = Silent \/ (saying'[z].event \in Finals /\ saying'[z].at # "none")
        /\ saying'["cancel"].event # "ready" /\ saying'[s].at = "publish" /\ saying'[s] # Silent
        /\ \A z \in Sayers \ {s} : saying'[z] = saying[z]
    BY <2>1, <2>2, Saying
  <2>4. UNCHANGED <<dep, pipeline, stream, form>>
    BY <1>22 DEF Persist
  <2>5. CASE /\ entries' = entries \cup {IF s = "cancel" THEN "canceled" ELSE saying[s].event}
             /\ UNCHANGED gaps
    <3>1. entries' \subseteq Finals \cup {"canceled"} /\ entries' # {} /\ entries \subseteq entries'
      BY <2>1, <2>5
    <3>2. WatchTyped'
      BY <2>3, <2>4, <2>5, <3>1
    <3>3. EndLogged' /\ HasSocket'
      BY <2>4, <2>5, <3>1
    <3>4. NothingMissed'
      BY <2>1, <2>3, <2>4, <2>5
    <3>. QED BY <3>2, <3>3, <3>4
  <2>6. CASE entries' = entries /\ gaps' = gaps \cup {"unlogged"}
    BY <2>3, <2>4, <2>6
  <2>. QED BY <1>22, <2>5, <2>6 DEF Persist
<1>23. ASSUME NEW s \in Sayers, Publish(s) PROVE WatchInv'
  <2>1. WatchTyped'
    BY <1>23 DEF Publish, Silent
  <2>2. EndLogged'
    BY <1>23 DEF Publish, Silent
  <2>3. HasSocket'
    BY <1>23 DEF Publish, Silent
  <2>4. NothingMissed'
    BY <1>23 DEF Publish, Silent
  <2>. QED BY <2>1, <2>2, <2>3, <2>4
<1>24. ASSUME NEW s \in Sayers, PublishThrows(s) PROVE WatchInv'
  <2>1. UNCHANGED <<pipeline, entries, stream, form>>
    BY <1>24 DEF PublishThrows
  <2>2. CASE saying[s].event = "ready"
    <3>1. dep' = "failed" /\ Say(s, "failed") /\ UNCHANGED gaps
      BY <1>24, <2>2 DEF PublishThrows
    <3>2. s = "engine"
      BY <2>2
    <3>3. /\ saying' \in [Sayers -> [event : Events, at : {"none", "log", "publish"}]]
          /\ \A z \in Sayers : saying'[z] = Silent \/ (saying'[z].event \in Finals /\ saying'[z].at # "none")
          /\ saying'["cancel"].event # "ready" /\ saying'["engine"] # Silent
          /\ saying'["cancel"] = saying["cancel"] /\ saying'["engine"].at = "log"
      BY <3>1, <3>2, Saying DEF Say
    <3>. QED BY <2>1, <3>1, <3>3
  <2>3. CASE saying[s].event # "ready"
    <3>1. saying' = [saying EXCEPT ![s] = Silent] /\ gaps' = gaps \cup {"untold"} /\ dep' = dep
      BY <1>24, <2>3 DEF PublishThrows
    <3>. QED BY <2>1, <3>1 DEF Silent
  <2>. QED BY <2>2, <2>3
<1>25. ASSUME NEW event \in Finals, Receive(event) PROVE WatchInv'
  <2>1. WatchTyped'
    BY <1>25 DEF Receive
  <2>2. EndLogged'
    BY <1>25 DEF Receive
  <2>3. HasSocket'
    BY <1>25 DEF Receive
  <2>4. NothingMissed'
    BY <1>25 DEF Receive
  <2>. QED BY <2>1, <2>2, <2>3, <2>4
<1>26. ASSUME NEW got \in {"active", "idle"}, Loaded(got) PROVE WatchInv'
  <2>1. WatchTyped'
    BY <1>26 DEF Loaded, Show, Turns
  <2>2. EndLogged'
    BY <1>26 DEF Loaded, Show, Turns
  <2>3. HasSocket'
    BY <1>26 DEF Loaded, Show, Turns
  <2>4. NothingMissed'
    BY <1>26 DEF Loaded, Show, Turns
  <2>. QED BY <2>1, <2>2, <2>3, <2>4
<1>27. CASE UNCHANGED watchVars
  <2>1. WatchTyped'
    BY <1>27 DEF watchVars
  <2>2. EndLogged'
    BY <1>27 DEF watchVars
  <2>3. HasSocket'
    BY <1>27 DEF watchVars
  <2>4. NothingMissed'
    BY <1>27 DEF watchVars
  <2>. QED BY <2>1, <2>2, <2>3, <2>4
<1>. QED BY <1>1, <1>2, <1>3, <1>4, <1>5, <1>6, <1>7, <1>8, <1>9, <1>10, <1>11, <1>12, <1>13, <1>14, <1>15, <1>16, <1>17, <1>18, <1>19, <1>20, <1>21, <1>22, <1>23, <1>24, <1>25, <1>26, <1>27 DEF WatchNext

\* No form waits for the end of a deployment that has been told, whatever order the entries, the
\* publications, the replays, the subscriptions, the lists and the user come in: the end is still to
\* be replayed or on its way, or one of the gaps was met (deployment-events.ts, deploy-form.tsx).
THEOREM WaitsEnd == WatchSpec => []WaitEnds
<1>1. WatchInit => WatchInv
  BY DEF WatchInit, WatchInv, WatchTyped, EndLogged, HasSocket, NothingMissed, Waits, Silent, Sayers,
         Finals, Events, Gaps, NoStream, Unmounted
<1>2. WatchInv => WaitEnds
  <2>. SUFFICES ASSUME WatchInv, form.deploying /\ ~form.post, dep \in Finals,
                       \A s \in Sayers : saying[s] = Silent, stream.at # "history", stream.pipe = {}, gaps = {}
                PROVE  FALSE
    BY DEF WaitEnds
  <2>1. stream.at \in {"subscribe", "open"}
    BY DEF WatchInv, WatchTyped, HasSocket
  <2>2. entries = {}
    BY <2>1 DEF WatchInv, WatchTyped, NothingMissed, Waits, Sayers, Silent
  <2>. QED BY <2>2 DEF WatchInv, EndLogged, Silent
<1>. QED BY <1>1, <1>2, WatchStep, PTL DEF WatchSpec

-----------------------------------------------------------------------------
(* ProjectSecrets *)

Types == {"list", "reveal", "save", "delete"}

IsCall(x) ==
    x = [at |-> x.at, key |-> x.key, value |-> x.value, keys |-> x.keys, edit |-> x.edit, old |-> x.old]

\* What the variables are, whatever the values of the variables.
SecretsTyped ==
    /\ secrets = [k \in EnvKeys |-> secrets[k]] /\ revealed = [k \in EnvKeys |-> revealed[k]]
    /\ calls = [c \in Types |-> calls[c]]
    /\ \A c \in Types : IsCall(calls[c]) /\ calls[c].old \in BOOLEAN
    /\ \A c \in Types \ {"list"} : calls[c].at # "none" => calls[c].key \in EnvKeys
    /\ calls["list"].key = NoEnvValue

\* An answer that no write has overtaken tells what is stored.
AnswersTell ==
    \A c \in Types \ {"list"} :
        calls[c].at = "served" /\ ~calls[c].old =>
            secrets[calls[c].key] = IF c = "delete" THEN NoEnvValue ELSE calls[c].value

SecretsInv == SecretsTyped /\ AnswersTell /\ RevealedIsStored

\* A write of a row overtakes the answers that know the row, and no others.
Overtaken(C, k) ==
    /\ C = [c \in Types |-> C[c]]
    /\ \A c \in Types :
          /\ IsCall(C[c]) /\ C[c].old \in BOOLEAN
          /\ C[c].at = calls[c].at /\ C[c].key = calls[c].key /\ C[c].value = calls[c].value
          /\ calls[c].old => C[c].old
          /\ C[c].at = "served" /\ C[c].key = k => C[c].old

LEMMA Overtaking == ASSUME SecretsTyped, NEW k PROVE Overtaken(Overtake({k}), k)
<1>1. DOMAIN calls = Types
  BY DEF SecretsTyped
<1>2. Overtake({k}) = [c \in Types |-> IF calls[c].at = "served" /\ calls[c].key = k
                                         THEN [calls[c] EXCEPT !.old = TRUE] ELSE calls[c]]
  BY <1>1 DEF Overtake
<1>3. ASSUME NEW c \in Types
      PROVE  LET x == [calls[c] EXCEPT !.old = TRUE] IN
             IsCall(x) /\ x.old = TRUE /\ x.at = calls[c].at /\ x.key = calls[c].key /\ x.value = calls[c].value
  <2>. DEFINE y == calls[c]
  <2>1. y = [at |-> y.at, key |-> y.key, value |-> y.value, keys |-> y.keys, edit |-> y.edit, old |-> y.old]
    BY DEF SecretsTyped, IsCall
  <2>. HIDE DEF y
  <2>2. PICK a, l, v, s, e, o :
            y = [at |-> a, key |-> l, value |-> v, keys |-> s, edit |-> e, old |-> o]
    BY <2>1
  <2>. DEFINE x == [y EXCEPT !.old = TRUE]
  <2>3. x \in [at : {a}, key : {l}, value : {v}, keys : {s}, edit : {e}, old : {TRUE}]
    <3>1. y \in [at : {a}, key : {l}, value : {v}, keys : {s}, edit : {e}, old : {o}]
      BY <2>2
    <3>. QED BY <3>1
  <2>4. y.at = a /\ y.key = l /\ y.value = v
    BY <2>2
  <2>5. IsCall(x) /\ x.old = TRUE /\ x.at = a /\ x.key = l /\ x.value = v
    <3>. HIDE DEF x
    <3>. QED BY <2>3 DEF IsCall
  <2>. QED BY <2>4, <2>5 DEF y
<1>. QED BY <1>2, <1>3 DEF Overtaken, SecretsTyped

LEMMA OvertakingTells ==
    ASSUME SecretsTyped, AnswersTell, NEW k \in EnvKeys, NEW v, NEW C, Overtaken(C, k), calls' = C,
           secrets' = [secrets EXCEPT ![k] = v], UNCHANGED revealed
    PROVE  SecretsTyped' /\ AnswersTell'
<1>1. SecretsTyped'
  BY DEF SecretsTyped, Overtaken, Types
<1>2. AnswersTell'
  BY DEF SecretsTyped, AnswersTell, Overtaken, Types
<1>. QED BY <1>1, <1>2

\* Every step keeps it.
LEMMA SecretsStep == SecretsInv /\ [SecretsNext]_secretVars => SecretsInv'
<1>. SUFFICES ASSUME SecretsInv, [SecretsNext]_secretVars  PROVE SecretsInv'
  OBVIOUS
<1>. USE SecretsAssumption DEF SecretsInv, Types
<1>1. ASSUME NEW b \in Bulks, NextBatch(b) PROVE SecretsInv'
  <2>1. SecretsTyped'
    BY <1>1 DEF SecretsTyped, IsCall, NextBatch, NoCall
  <2>2. AnswersTell'
    BY <1>1 DEF SecretsTyped, IsCall, AnswersTell, NextBatch, NoCall
  <2>3. RevealedIsStored'
    BY <1>1 DEF SecretsTyped, IsCall, AnswersTell, RevealedIsStored, NextBatch, NoCall
  <2>. QED BY <2>1, <2>2, <2>3
<1>2. ASSUME NEW b \in Bulks, EndBulk(b) PROVE SecretsInv'
  <2>1. SecretsTyped'
    BY <1>2 DEF SecretsTyped, IsCall, EndBulk, NoCall
  <2>2. AnswersTell'
    BY <1>2 DEF SecretsTyped, IsCall, AnswersTell, EndBulk, NoCall
  <2>3. RevealedIsStored'
    BY <1>2 DEF SecretsTyped, IsCall, AnswersTell, RevealedIsStored, EndBulk, NoCall
  <2>. QED BY <2>1, <2>2, <2>3
<1>3. ASSUME NEW b \in Bulks, ForgetBulk(b) PROVE SecretsInv'
  <2>1. SecretsTyped'
    BY <1>3 DEF SecretsTyped, IsCall, ForgetBulk, NoCall
  <2>2. AnswersTell'
    BY <1>3 DEF SecretsTyped, IsCall, AnswersTell, ForgetBulk, NoCall
  <2>3. RevealedIsStored'
    BY <1>3 DEF SecretsTyped, IsCall, AnswersTell, RevealedIsStored, ForgetBulk, NoCall
  <2>. QED BY <2>1, <2>2, <2>3
<1>4. ASSUME NEW b \in Bulks, ImportAnswered(b) PROVE SecretsInv'
  <2>1. SecretsTyped'
    BY <1>4 DEF SecretsTyped, IsCall, ImportAnswered, NoCall
  <2>2. AnswersTell'
    BY <1>4 DEF SecretsTyped, IsCall, AnswersTell, ImportAnswered, NoCall
  <2>3. RevealedIsStored'
    BY <1>4 DEF SecretsTyped, IsCall, AnswersTell, RevealedIsStored, ImportAnswered, NoCall
  <2>. QED BY <2>1, <2>2, <2>3
<1>5. ASSUME NEW b \in Bulks, NEW k \in EnvKeys, UpsertOne(b, k) PROVE SecretsInv'
  <2>0. /\ secrets' = [secrets EXCEPT ![k] = LastValue(bulks[b].lines, k)] /\ calls' = Overtake({k}) /\ revealed' = revealed
        /\ Overtaken(Overtake({k}), k) /\ k \in EnvKeys
    BY <1>5, Overtaking DEF UpsertOne
  <2>1. SecretsTyped' /\ AnswersTell'
    BY <2>0, OvertakingTells
  <2>2. outdated' = outdated \cup {k}
    BY <1>5 DEF UpsertOne
  <2>3. RevealedIsStored'
    <3>. DEFINE C == Overtake({k})
    <3>1. calls' = C /\ Overtaken(C, k)
      BY <2>0
    <3>. HIDE DEF C
    <3>. QED BY <2>0, <2>2, <3>1 DEF SecretsTyped, RevealedIsStored, Overtaken
  <2>. QED BY <2>1, <2>3
<1>6. ASSUME NEW b \in Bulks, NEW k \in EnvKeys, UpsertFails(b, k) PROVE SecretsInv'
  <2>1. SecretsTyped'
    BY <1>6 DEF SecretsTyped, IsCall, UpsertFails
  <2>2. AnswersTell'
    BY <1>6 DEF SecretsTyped, IsCall, AnswersTell, UpsertFails
  <2>3. RevealedIsStored'
    BY <1>6 DEF SecretsTyped, IsCall, AnswersTell, RevealedIsStored, UpsertFails
  <2>. QED BY <2>1, <2>2, <2>3
<1>7. ASSUME NEW k \in TouchedKeys, ElseWrites(k) PROVE SecretsInv'
  <2>. PICK v \in EnvValues \cup {NoEnvValue} : secrets' = [secrets EXCEPT ![k] = v]
    BY <1>7 DEF ElseWrites
  <2>0. /\ secrets' = [secrets EXCEPT ![k] = v] /\ calls' = Overtake({k}) /\ revealed' = revealed
        /\ Overtaken(Overtake({k}), k) /\ k \in EnvKeys
    BY <1>7, Overtaking DEF ElseWrites
  <2>1. SecretsTyped' /\ AnswersTell'
    BY <2>0, OvertakingTells
  <2>2. outdated' = outdated \cup {k}
    BY <1>7 DEF ElseWrites
  <2>3. RevealedIsStored'
    <3>. DEFINE C == Overtake({k})
    <3>1. calls' = C /\ Overtaken(C, k)
      BY <2>0
    <3>. HIDE DEF C
    <3>. QED BY <2>0, <2>2, <3>1 DEF SecretsTyped, RevealedIsStored, Overtaken
  <2>. QED BY <2>1, <2>3
<1>8. ASSUME NEW k \in TouchedKeys, RevealSecret(k) PROVE SecretsInv'
  <2>1. SecretsTyped'
    BY <1>8 DEF SecretsTyped, IsCall, RevealSecret, Send, NoCall
  <2>2. AnswersTell'
    BY <1>8 DEF SecretsTyped, IsCall, AnswersTell, RevealSecret, Send, NoCall
  <2>3. RevealedIsStored'
    BY <1>8 DEF SecretsTyped, IsCall, AnswersTell, RevealedIsStored, RevealSecret, Send, NoCall
  <2>. QED BY <2>1, <2>2, <2>3
<1>9. ASSUME NEW k \in TouchedKeys, HideSecret(k) PROVE SecretsInv'
  <2>1. SecretsTyped'
    BY <1>9 DEF SecretsTyped, IsCall, HideSecret
  <2>2. AnswersTell'
    BY <1>9 DEF SecretsTyped, IsCall, AnswersTell, HideSecret
  <2>3. RevealedIsStored'
    BY <1>9 DEF SecretsTyped, IsCall, AnswersTell, RevealedIsStored, HideSecret
  <2>. QED BY <2>1, <2>2, <2>3
<1>10. ASSUME NEW k \in TouchedKeys, EditSecret(k) PROVE SecretsInv'
  <2>0. UNCHANGED <<secrets, revealed, outdated>>
    BY <1>10 DEF EditSecret
  <2>1. CASE calls' = calls
    BY <2>0, <2>1 DEF SecretsTyped, IsCall, AnswersTell, RevealedIsStored
  <2>2. CASE Send("reveal", [NoCall EXCEPT !.key = k, !.edit = TRUE])
    <3>1. SecretsTyped'
      BY <2>0, <2>2 DEF SecretsTyped, IsCall, Send, NoCall
    <3>2. AnswersTell'
      BY <2>0, <2>2 DEF SecretsTyped, IsCall, AnswersTell, Send, NoCall
    <3>3. RevealedIsStored'
      BY <2>0, <2>2 DEF SecretsTyped, IsCall, AnswersTell, RevealedIsStored, Send, NoCall
    <3>. QED BY <3>1, <3>2, <3>3
  <2>. QED BY <1>10, <2>1, <2>2 DEF EditSecret
<1>11. ASSUME NEW k \in TouchedKeys, DeleteSecret(k) PROVE SecretsInv'
  <2>1. SecretsTyped'
    BY <1>11 DEF SecretsTyped, IsCall, DeleteSecret, Send, NoCall
  <2>2. AnswersTell'
    BY <1>11 DEF SecretsTyped, IsCall, AnswersTell, DeleteSecret, Send, NoCall
  <2>3. RevealedIsStored'
    BY <1>11 DEF SecretsTyped, IsCall, AnswersTell, RevealedIsStored, DeleteSecret, Send, NoCall
  <2>. QED BY <2>1, <2>2, <2>3
<1>12. ASSUME NEW k \in TouchedKeys, NEW v \in EnvValues, SaveSecret(k, v) PROVE SecretsInv'
  <2>1. SecretsTyped'
    BY <1>12 DEF SecretsTyped, IsCall, SaveSecret, Send, NoCall
  <2>2. AnswersTell'
    BY <1>12 DEF SecretsTyped, IsCall, AnswersTell, SaveSecret, Send, NoCall
  <2>3. RevealedIsStored'
    BY <1>12 DEF SecretsTyped, IsCall, AnswersTell, RevealedIsStored, SaveSecret, Send, NoCall
  <2>. QED BY <2>1, <2>2, <2>3
<1>13. CASE LoadSecrets
  <2>1. SecretsTyped'
    BY <1>13 DEF SecretsTyped, IsCall, LoadSecrets, Send, NoCall
  <2>2. AnswersTell'
    BY <1>13 DEF SecretsTyped, IsCall, AnswersTell, LoadSecrets, Send, NoCall
  <2>3. RevealedIsStored'
    BY <1>13 DEF SecretsTyped, IsCall, AnswersTell, RevealedIsStored, LoadSecrets, Send, NoCall
  <2>. QED BY <2>1, <2>2, <2>3
<1>14. CASE CancelEdit
  <2>1. SecretsTyped'
    BY <1>14 DEF SecretsTyped, IsCall, CancelEdit
  <2>2. AnswersTell'
    BY <1>14 DEF SecretsTyped, IsCall, AnswersTell, CancelEdit
  <2>3. RevealedIsStored'
    BY <1>14 DEF SecretsTyped, IsCall, AnswersTell, RevealedIsStored, CancelEdit
  <2>. QED BY <2>1, <2>2, <2>3
<1>15. CASE ImportText
  <2>1. SecretsTyped'
    BY <1>15 DEF SecretsTyped, IsCall, ImportText
  <2>2. AnswersTell'
    BY <1>15 DEF SecretsTyped, IsCall, AnswersTell, ImportText
  <2>3. RevealedIsStored'
    BY <1>15 DEF SecretsTyped, IsCall, AnswersTell, RevealedIsStored, ImportText
  <2>. QED BY <2>1, <2>2, <2>3
<1>16. CASE ServeList
  <2>1. SecretsTyped'
    BY <1>16 DEF SecretsTyped, IsCall, ServeList, Served
  <2>2. AnswersTell'
    BY <1>16 DEF SecretsTyped, IsCall, AnswersTell, ServeList, Served
  <2>3. RevealedIsStored'
    BY <1>16 DEF SecretsTyped, IsCall, AnswersTell, RevealedIsStored, ServeList, Served
  <2>. QED BY <2>1, <2>2, <2>3
<1>17. CASE ServeReveal
  <2>1. SecretsTyped'
    BY <1>17 DEF SecretsTyped, IsCall, ServeReveal, Served, NoCall, Rows
  <2>2. AnswersTell'
    BY <1>17 DEF SecretsTyped, IsCall, AnswersTell, ServeReveal, Served, NoCall, Rows
  <2>3. RevealedIsStored'
    BY <1>17 DEF SecretsTyped, IsCall, AnswersTell, RevealedIsStored, ServeReveal, Served, NoCall, Rows
  <2>. QED BY <2>1, <2>2, <2>3
<1>18. CASE ServeSave
  <2>. DEFINE k == calls["save"].key
             C == Overtake({k})
             x == [calls["save"] EXCEPT !.at = "served"]
  <2>1. k \in EnvKeys /\ Overtaken(C, k)
    BY <1>18, Overtaking DEF ServeSave, SecretsTyped
  <2>2. /\ calls' = [C EXCEPT !["save"] = x] /\ secrets' = [secrets EXCEPT ![k] = calls["save"].value]
        /\ UNCHANGED <<revealed, outdated>>
    BY <1>18 DEF ServeSave, ServedWrite
  <2>3. /\ IsCall(x) /\ x.old \in BOOLEAN /\ x.at = "served" /\ x.key = k
        /\ x.value = calls["save"].value
    BY DEF SecretsTyped, IsCall
  <2>. HIDE DEF C, x
  <2>4. SecretsTyped'
    BY <2>1, <2>2, <2>3 DEF SecretsTyped, Overtaken
  <2>5. AnswersTell'
    BY <2>1, <2>2, <2>3 DEF SecretsTyped, AnswersTell, Overtaken
  <2>6. RevealedIsStored'
    BY <2>1, <2>2, <2>3 DEF SecretsTyped, RevealedIsStored, Overtaken
  <2>. QED BY <2>4, <2>5, <2>6
<1>19. CASE ServeDelete
  <2>. DEFINE k == calls["delete"].key
             C == Overtake({k})
             x == [calls["delete"] EXCEPT !.at = "served"]
  <2>1. k \in EnvKeys /\ Overtaken(C, k)
    BY <1>19, Overtaking DEF ServeDelete, SecretsTyped
  <2>2. /\ calls' = [C EXCEPT !["delete"] = x] /\ secrets' = [secrets EXCEPT ![k] = NoEnvValue]
        /\ UNCHANGED <<revealed, outdated>>
    BY <1>19 DEF ServeDelete, ServedWrite
  <2>3. /\ IsCall(x) /\ x.old \in BOOLEAN /\ x.at = "served" /\ x.key = k
        /\ x.value = calls["delete"].value
    BY DEF SecretsTyped, IsCall
  <2>. HIDE DEF C, x
  <2>4. SecretsTyped'
    BY <2>1, <2>2, <2>3 DEF SecretsTyped, Overtaken
  <2>5. AnswersTell'
    BY <2>1, <2>2, <2>3 DEF SecretsTyped, AnswersTell, Overtaken
  <2>6. RevealedIsStored'
    BY <2>1, <2>2, <2>3 DEF SecretsTyped, RevealedIsStored, Overtaken
  <2>. QED BY <2>4, <2>5, <2>6
<1>20. CASE ListAnswered
  <2>1. SecretsTyped'
    BY <1>20 DEF SecretsTyped, IsCall, ListAnswered, NoCall
  <2>2. AnswersTell'
    BY <1>20 DEF SecretsTyped, IsCall, AnswersTell, ListAnswered, NoCall
  <2>3. RevealedIsStored'
    BY <1>20 DEF SecretsTyped, IsCall, AnswersTell, RevealedIsStored, ListAnswered, NoCall
  <2>. QED BY <2>1, <2>2, <2>3
<1>21. CASE ListFails
  <2>1. SecretsTyped'
    BY <1>21 DEF SecretsTyped, IsCall, ListFails, NoCall, NoValues
  <2>2. AnswersTell'
    BY <1>21 DEF SecretsTyped, IsCall, AnswersTell, ListFails, NoCall, NoValues
  <2>3. RevealedIsStored'
    BY <1>21 DEF SecretsTyped, IsCall, AnswersTell, RevealedIsStored, ListFails, NoCall, NoValues
  <2>. QED BY <2>1, <2>2, <2>3
<1>22. CASE RevealAnswered
  <2>1. SecretsTyped'
    BY <1>22 DEF SecretsTyped, IsCall, RevealAnswered, Learn, NoCall
  <2>2. AnswersTell'
    BY <1>22 DEF SecretsTyped, IsCall, AnswersTell, RevealAnswered, Learn, NoCall
  <2>3. RevealedIsStored'
    BY <1>22 DEF SecretsTyped, IsCall, AnswersTell, RevealedIsStored, RevealAnswered, Learn, NoCall
  <2>. QED BY <2>1, <2>2, <2>3
<1>23. CASE SaveAnswered
  <2>1. SecretsTyped'
    BY <1>23 DEF SecretsTyped, IsCall, SaveAnswered, Learn, NoCall
  <2>2. AnswersTell'
    BY <1>23 DEF SecretsTyped, IsCall, AnswersTell, SaveAnswered, Learn, NoCall
  <2>3. RevealedIsStored'
    BY <1>23 DEF SecretsTyped, IsCall, AnswersTell, RevealedIsStored, SaveAnswered, Learn, NoCall
  <2>. QED BY <2>1, <2>2, <2>3
<1>24. CASE DeleteAnswered
  <2>1. SecretsTyped'
    BY <1>24 DEF SecretsTyped, IsCall, DeleteAnswered, Learn, NoCall
  <2>2. AnswersTell'
    BY <1>24 DEF SecretsTyped, IsCall, AnswersTell, DeleteAnswered, Learn, NoCall
  <2>3. RevealedIsStored'
    BY <1>24 DEF SecretsTyped, IsCall, AnswersTell, RevealedIsStored, DeleteAnswered, Learn, NoCall
  <2>. QED BY <2>1, <2>2, <2>3
<1>25. ASSUME NEW type \in {"reveal", "save", "delete"}, CallFails(type) PROVE SecretsInv'
  <2>1. SecretsTyped'
    BY <1>25 DEF SecretsTyped, IsCall, CallFails, NoCall
  <2>2. AnswersTell'
    BY <1>25 DEF SecretsTyped, IsCall, AnswersTell, CallFails, NoCall
  <2>3. RevealedIsStored'
    BY <1>25 DEF SecretsTyped, IsCall, AnswersTell, RevealedIsStored, CallFails, NoCall
  <2>. QED BY <2>1, <2>2, <2>3
<1>26. CASE UNCHANGED secretVars
  <2>1. SecretsTyped'
    BY <1>26 DEF SecretsTyped, IsCall, secretVars
  <2>2. AnswersTell'
    BY <1>26 DEF SecretsTyped, IsCall, AnswersTell, secretVars
  <2>3. RevealedIsStored'
    BY <1>26 DEF SecretsTyped, IsCall, AnswersTell, RevealedIsStored, secretVars
  <2>. QED BY <2>1, <2>2, <2>3
<1>. QED BY <1>1, <1>2, <1>3, <1>4, <1>5, <1>6, <1>7, <1>8, <1>9, <1>10, <1>11, <1>12, <1>13, <1>14, <1>15, <1>16, <1>17, <1>18, <1>19, <1>20, <1>21, <1>22, <1>23, <1>24, <1>25, <1>26 DEF SecretsNext

\* The Environment tab shows, and edits from, the value a key has, whatever requests of this tab,
\* of others and of imports interleave and fail, except where the model names the reason why it may
\* show an older one (page.tsx, secrets/routes.ts).
THEOREM RevealsAreStored == SecretsSpec => []RevealedIsStored
<1>1. ASSUME SecretsInit PROVE SecretsInv
  <2>1. SecretsTyped
    BY <1>1 DEF SecretsInit, SecretsTyped, IsCall, Types, NoCall, NoValues
  <2>2. AnswersTell /\ RevealedIsStored
    BY <1>1 DEF SecretsInit, AnswersTell, RevealedIsStored, Types, NoCall, NoValues
  <2>. QED BY <2>1, <2>2 DEF SecretsInv
<1>2. SecretsInv => RevealedIsStored
  BY DEF SecretsInv
<1>. QED BY <1>1, <1>2, SecretsStep, PTL DEF SecretsSpec

-----------------------------------------------------------------------------
(* ProjectImport *)

\* A set of numbers has a least one, and a greatest if it has a bound.
LEMMA HasLeast ==
    ASSUME NEW T, T \subseteq Nat, T # {}
    PROVE  \E m \in T : \A i \in T : m <= i
<1>1. IsWellFoundedOn(OpToRel(<, Nat), Nat)
  BY NatLessThanWellFounded
<1>2. PICK m \in T : \A i \in T : ~ (<<i, m>> \in OpToRel(<, Nat))
  BY <1>1, WFMin
<1>3. \A i \in T : ~ (i < m)
  BY <1>2 DEF OpToRel
<1>. QED BY <1>3

LEMMA HasGreatest ==
    ASSUME NEW T, NEW n \in Nat, T \subseteq 0..n, T # {}
    PROVE  \E m \in T : \A i \in T : i <= m
<1>. DEFINE U == {j \in 0..n : n - j \in T}
<1>1. U \subseteq Nat
  OBVIOUS
<1>2. U # {}
  <2>1. PICK t \in T : TRUE
    OBVIOUS
  <2>2. n - (n - t) = t /\ n - t \in 0..n
    BY <2>1
  <2>. QED BY <2>2
<1>3. PICK j \in U : \A i \in U : j <= i
  <2>. HIDE DEF U
  <2>. QED BY <1>1, <1>2, HasLeast
<1>4. ASSUME NEW i \in T PROVE i <= n - j
  <2>1. n - (n - i) = i /\ n - i \in 0..n
    OBVIOUS
  <2>2. j <= n - i
    BY <1>3, <2>1
  <2>. QED BY <2>2
<1>. QED BY <1>3, <1>4

\* The keys are finitely many.
LEMMA KeysAreFinite ==
    ASSUME NEW S, NEW lines \in Seq(S)
    PROVE  IsFiniteSet(KeysOf(lines)) /\ Cardinality(KeysOf(lines)) \in Nat
<1>. DEFINE f == [i \in DOMAIN lines |-> lines[i][1]]
<1>1. f \in Surjection(DOMAIN lines, KeysOf(lines))
  BY DEF Surjection, KeysOf
<1>2. IsFiniteSet(DOMAIN lines)
  <2>1. DOMAIN lines = 1..Len(lines) /\ Len(lines) \in Nat
    OBVIOUS
  <2>. QED BY <2>1, FS_Interval
<1>. QED BY <1>1, <1>2, FS_Surjection, FS_CardinalityType

\* A key's place is one among the keys.
LEMMA PlaceInKeys ==
    ASSUME NEW S, NEW lines \in Seq(S), NEW k \in KeysOf(lines)
    PROVE  PlaceOfKey(lines, k) \in 1..Cardinality(KeysOf(lines))
<1>. DEFINE first == CHOOSE i \in LinesOf(lines, k) : \A j \in LinesOf(lines, k) : i <= j
            T == {lines[j][1] : j \in 1..first}
<1>0. DOMAIN lines = 1..Len(lines) /\ Len(lines) \in Nat
  OBVIOUS
<1>1. \E i \in LinesOf(lines, k) : \A j \in LinesOf(lines, k) : i <= j
  <2>1. LinesOf(lines, k) \subseteq Nat /\ LinesOf(lines, k) # {}
    BY <1>0 DEF LinesOf, KeysOf
  <2>. QED BY <2>1, HasLeast
<1>2. first \in LinesOf(lines, k)
  BY <1>1
<1>3. first \in 1..Len(lines) /\ lines[first][1] = k
  BY <1>0, <1>2 DEF LinesOf
<1>. HIDE DEF first
<1>4. T \in SUBSET KeysOf(lines) /\ k \in T
  BY <1>0, <1>3 DEF KeysOf
<1>. HIDE DEF T
<1>5. IsFiniteSet(T) /\ Cardinality(T) <= Cardinality(KeysOf(lines))
  BY <1>4, KeysAreFinite, FS_Subset
<1>6. Cardinality(T) \in Nat /\ Cardinality(T) # 0
  BY <1>4, <1>5, FS_CardinalityType, FS_EmptySet
<1>7. PlaceOfKey(lines, k) = Cardinality(T)
  BY DEF PlaceOfKey, T, first
<1>. QED BY <1>5, <1>6, <1>7, KeysAreFinite

\* The last value of a key is that of its last line.
LEMMA LastIs ==
    ASSUME NEW S, NEW lines \in Seq(S), NEW k, NEW i \in LinesOf(lines, k),
           \A j \in LinesOf(lines, k) : j <= i
    PROVE  LastValue(lines, k) = lines[i][2]
<1>. DEFINE last == CHOOSE n \in LinesOf(lines, k) : \A j \in LinesOf(lines, k) : j <= n
<1>1. LinesOf(lines, k) \subseteq Nat
  BY DEF LinesOf
<1>2. last \in LinesOf(lines, k) /\ \A j \in LinesOf(lines, k) : j <= last
  OBVIOUS
<1>3. last = i
  <2>. HIDE DEF last
  <2>. QED BY <1>1, <1>2
<1>. QED BY <1>3 DEF LastValue

EntrySet == [key : EnvKeys, value : Readable, hidden : Readable, targets : Seq(STRING)]

\* A score tells first whether the value can be read, then the priority of the target.
LEMMA Scores ==
    ASSUME NEW e
    PROVE  /\ TargetPriority(ReadTarget(e.targets)) \in 0..3
           /\ Score(e) = (IF e.value # NoEnvValue THEN 100 ELSE 0) + TargetPriority(ReadTarget(e.targets))
           /\ Score(e) \in 0..103
<1>1. TargetPriority(ReadTarget(e.targets)) \in 0..3
  <2>. DEFINE t == ReadTarget(e.targets)
  <2>. HIDE DEF t
  <2>1. TargetPriority(t) \in 0..3
    BY DEF TargetPriority
  <2>. QED BY <2>1 DEF t
<1>. QED BY <1>1 DEF Score

\* The entry that is chosen for a key is one of its own that scores highest.
LEMMA BestScores ==
    ASSUME NEW found \in Seq(EntrySet), NEW k, EntriesOf(found, k) # {}
    PROVE  \E i \in EntriesOf(found, k) :
              BestByKey(found, k) = found[i] /\ \A j \in EntriesOf(found, k) : Score(found[j]) <= Score(found[i])
<1>. DEFINE T == {Score(found[i]) : i \in EntriesOf(found, k)}
            best == CHOOSE i \in HighestOf(found, k) : \A j \in HighestOf(found, k) : i <= j
<1>1. T \subseteq 0..103 /\ T # {}
  BY Scores
<1>2. PICK m \in T : \A s \in T : s <= m
  <2>. HIDE DEF T
  <2>. QED BY <1>1, HasGreatest
<1>3. HighestOf(found, k) # {}
  BY <1>2 DEF HighestOf
<1>4. HighestOf(found, k) \subseteq Nat
  BY DEF HighestOf, EntriesOf
<1>5. \E i \in HighestOf(found, k) : \A j \in HighestOf(found, k) : i <= j
  BY <1>3, <1>4, HasLeast
<1>6. best \in HighestOf(found, k)
  BY <1>5
<1>. HIDE DEF best
<1>7. BestByKey(found, k) = found[best]
  BY DEF BestByKey, best
<1>. QED BY <1>6, <1>7 DEF HighestOf

\* The rows of the page are the variables.
LEMMA VariablesListed ==
    ASSUME NEW found \in Seq(EntrySet)
    PROVE  /\ Range(Variables(found)) = VariablesOf(found)
           /\ VariablesOf(found) \subseteq Lines
           /\ Variables(found) \in Seq(Lines)
<1>. DEFINE S == VariablesOf(found)
            n == Cardinality(S)
            keys == {found[i].key : i \in DOMAIN found}
            f == [k \in keys |-> <<k, BestByKey(found, k).value>>]
            g == [i \in DOMAIN found |-> found[i].key]
<1>1. IsFiniteSet(S)
  <2>1. DOMAIN found = 1..Len(found) /\ Len(found) \in Nat
    OBVIOUS
  <2>2. IsFiniteSet(keys)
    <3>1. g \in Surjection(DOMAIN found, keys)
      BY DEF Surjection
    <3>. QED BY <2>1, <3>1, FS_Interval, FS_Surjection
  <2>3. S \subseteq Range(f)
    BY DEF VariablesOf, Range
  <2>4. f \in Surjection(keys, Range(f))
    BY DEF Surjection, Range
  <2>. HIDE DEF f, S, keys
  <2>. QED BY <2>2, <2>3, <2>4, FS_Surjection, FS_Subset
<1>2. S \subseteq Lines
  <2>1. SUFFICES ASSUME NEW k \in keys, BestByKey(found, k).value # NoEnvValue
                 PROVE  <<k, BestByKey(found, k).value>> \in Lines
    BY DEF VariablesOf
  <2>2. EntriesOf(found, k) # {}
    BY DEF EntriesOf
  <2>3. PICK i \in EntriesOf(found, k) : BestByKey(found, k) = found[i]
    BY <2>2, BestScores
  <2>4. found[i] \in EntrySet /\ found[i].key = k
    BY <2>3 DEF EntriesOf
  <2>. QED BY <2>1, <2>3, <2>4 DEF EntrySet, Readable, Lines
<1>3. n \in Nat /\ ExistsBijection(1..n, S)
  BY <1>1, FS_CardinalityType
<1>4. PICK h : h \in Bijection(1..n, S)
  BY <1>3 DEF ExistsBijection
<1>5. h \in [1..n -> S] /\ Range(h) = S
  BY <1>4 DEF Bijection, Injection, Surjection, Range
<1>. HIDE DEF n, S
<1>6. Variables(found) \in [1..n -> S] /\ Range(Variables(found)) = S
  <2>1. Variables(found) = CHOOSE rows \in [1..n -> S] : Range(rows) = S
    BY DEF Variables, n, S
  <2>. QED BY <1>5, <2>1
<1>7. Variables(found) \in Seq(Lines)
  BY <1>2, <1>3, <1>6
<1>. QED BY <1>2, <1>6, <1>7 DEF S

BulkSet == [at : {"none", "run", "ok", "failed", "read"}, from : {"none", "wizard", "tab"},
            next : Nat, lines : Seq(Lines), pending : SUBSET EnvKeys]
WizardSet == [at : {"fill", "create", "import", "left"}, rows : Seq(Lines), chosen : Seq(EntrySet),
              text : Texts, told : {"nothing", "ok", "partial"}]
ImportSet == [of : VercelProjects \cup {NoVercelProject}, list : Seq(EntrySet), asked : SUBSET Nat]

ImportTyped ==
    /\ secrets = [k \in EnvKeys |-> secrets[k]]
    /\ bulks \in [Bulks -> BulkSet]
    /\ wizard \in WizardSet
    /\ envImport \in ImportSet

\* What the page asks for
Asked == wizard.text \o wizard.rows

\* Once it is submitted, every key has one row, and that of an imported variable is among them.
RowsOfVariables == VariablesOf(wizard.chosen) \subseteq Range(wizard.rows)
RowsDiffer ==
    wizard.at # "fill" =>
        \A i, j \in DOMAIN wizard.rows : wizard.rows[i][1] = wizard.rows[j][1] => i = j

\* The page makes one bulk import, and has left when it has read the answer.
OneImport ==
    \A b \in Bulks : bulks[b].from = "wizard" =>
        /\ wizard.at = IF bulks[b].at = "read" THEN "left" ELSE "import"
        /\ bulks[b].at # "none"
        /\ \A c \in Bulks : bulks[c].from = "wizard" => c = b

\* The keys up to the next batch are written, but for those that are still to be.
GoesOn(bulk) ==
    /\ bulk.lines = Asked /\ bulk.pending \subseteq KeysOf(Asked)
    /\ bulk.at = "ok" => bulk.pending = {} /\ Cardinality(KeysOf(Asked)) <= bulk.next
    /\ \A k \in (KeysOf(Asked) \cap EnvKeys) \ (bulk.pending \cup since) :
          PlaceOfKey(Asked, k) <= bulk.next => secrets[k] = LastValue(Asked, k)

UnderWay(bulk) == bulk.from = "wizard" /\ bulk.at \in {"run", "ok"}
ImportGoesOn == \A b \in Bulks : UnderWay(bulks[b]) => GoesOn(bulks[b])

ImportDone ==
    wizard.told = "ok" =>
        /\ wizard.at = "left"
        /\ \A b \in Bulks : bulks[b].from = "wizard" => bulks[b].pending = {}
        /\ \A k \in (KeysOf(Asked) \cap EnvKeys) \ since : secrets[k] = LastValue(Asked, k)

ImportInv ==
    ImportTyped /\ RowsOfVariables /\ RowsDiffer /\ OneImport /\ ImportGoesOn /\ ImportDone

\* The last value of a key that a row has is the row's, wherever the text has it.
LEMMA RowReplaces ==
    ASSUME ImportTyped, RowsDiffer, wizard.at # "fill", NEW i \in DOMAIN wizard.rows
    PROVE  /\ wizard.rows[i][1] \in KeysOf(Asked)
           /\ LastValue(Asked, wizard.rows[i][1]) = wizard.rows[i][2]
<1>. DEFINE text == wizard.text
            rows == wizard.rows
            k == rows[i][1]
            n == Len(text) + i
            Values == Lines \cup {BadLine}
<1>1. text \in Seq(Values) /\ rows \in Seq(Values) /\ Asked = text \o rows
  <2>1. rows \in Seq(Lines)
    BY DEF ImportTyped, WizardSet
  <2>2. rows \in Seq(Values)
    <3>. HIDE DEF rows
    <3>. QED BY <2>1
  <2>. QED BY <2>2 DEF ImportTyped, WizardSet, Texts, Asked
<1>2. \A a, b \in DOMAIN rows : rows[a][1] = rows[b][1] => a = b
  BY DEF RowsDiffer
<1>. HIDE DEF text, rows, Values
<1>3. Asked \in Seq(Values) /\ Len(Asked) = Len(text) + Len(rows) /\ DOMAIN Asked = 1..(Len(text) + Len(rows))
  BY <1>1
<1>4. \A j \in DOMAIN Asked : j > Len(text) => Asked[j] = rows[j - Len(text)] /\ j - Len(text) \in DOMAIN rows
  BY <1>1, <1>3
<1>5. i \in 1..Len(rows) /\ n \in DOMAIN Asked /\ n > Len(text) /\ n - Len(text) = i
  <2>1. i \in 1..Len(rows)
    BY <1>1 DEF rows
  <2>. QED BY <1>1, <1>3, <2>1
<1>6. n \in LinesOf(Asked, k) /\ Asked[n] = rows[i]
  BY <1>4, <1>5 DEF LinesOf
<1>7. ASSUME NEW j \in LinesOf(Asked, k) PROVE j <= n
  <2>1. j \in DOMAIN Asked /\ Asked[j][1] = k
    BY DEF LinesOf
  <2>2. CASE j > Len(text)
    <3>1. j - Len(text) \in DOMAIN rows /\ rows[j - Len(text)][1] = rows[i][1]
      BY <1>4, <2>1, <2>2
    <3>2. j - Len(text) = i
      BY <1>2, <1>5, <3>1
    <3>. QED BY <1>1, <1>3, <1>5, <2>1, <3>2
  <2>3. CASE j <= Len(text)
    BY <1>1, <1>3, <1>5, <2>1, <2>3
  <2>. QED BY <1>1, <1>3, <2>1, <2>2, <2>3
<1>8. LastValue(Asked, k) = Asked[n][2]
  <2>. HIDE DEF n, k
  <2>. QED BY <1>3, <1>6, <1>7, LastIs
<1>9. k \in KeysOf(Asked)
  BY <1>3, <1>5, <1>6 DEF KeysOf, LinesOf
<1>. QED BY <1>6, <1>8, <1>9 DEF rows

\* What is written last for a key is what is meant for it.
LEMMA LastIsMeant ==
    ASSUME ImportTyped, RowsOfVariables, RowsDiffer, wizard.at # "fill",
           NEW k \in EnvKeys, Meant(k) # {}
    PROVE  k \in KeysOf(Asked) /\ LastValue(Asked, k) \in Meant(k)
<1>. DEFINE readable == {e \in Range(wizard.chosen) : e.key = k /\ e.value # NoEnvValue}
            priority(e) == TargetPriority(ReadTarget(e.targets))
            best == {e \in readable : \A other \in readable : priority(other) <= priority(e)}
            typed == {row \in Range(wizard.rows) : row[1] = k /\ readable = {}}
            lines == {i \in DOMAIN wizard.text : wizard.text[i][1] = k}
            last == {j \in lines : \A other \in lines : other <= j}
<1>0. Meant(k) = IF best # {} THEN {e.value : e \in best}
                 ELSE IF typed # {} THEN {row[2] : row \in typed} ELSE {wizard.text[i][2] : i \in last}
  BY DEF Meant
<1>1. /\ wizard.chosen \in Seq(EntrySet) /\ wizard.rows \in Seq(Lines)
      /\ wizard.text \in Seq(Lines \cup {BadLine})
  BY DEF ImportTyped, WizardSet, Texts
<1>2. ASSUME NEW i \in DOMAIN wizard.rows, wizard.rows[i][1] = k
      PROVE  k \in KeysOf(Asked) /\ LastValue(Asked, k) = wizard.rows[i][2]
  BY <1>2, RowReplaces
<1>3. CASE readable # {}
  <2>. DEFINE found == wizard.chosen
  <2>1. PICK e \in readable : TRUE
    BY <1>3
  <2>2. PICK a \in DOMAIN found : found[a] = e
    BY <2>1 DEF Range
  <2>3. a \in EntriesOf(found, k)
    BY <2>1, <2>2 DEF EntriesOf
  <2>4. PICK c \in EntriesOf(found, k) :
           BestByKey(found, k) = found[c] /\ \A j \in EntriesOf(found, k) : Score(found[j]) <= Score(found[c])
    BY <1>1, <2>3, BestScores
  <2>. DEFINE chosen == found[c]
  <2>5. chosen.value # NoEnvValue
    <3>1. Score(found[a]) >= 100
      BY <2>1, <2>2, Scores
    <3>2. Score(chosen) >= 100
      BY <2>3, <2>4, <3>1, Scores
    <3>. QED BY <3>2, Scores
  <2>6. chosen \in readable
    BY <1>1, <2>4, <2>5 DEF EntriesOf, Range
  <2>7. ASSUME NEW other \in readable PROVE priority(other) <= priority(chosen)
    <3>1. PICK j \in DOMAIN found : found[j] = other
      BY DEF Range
    <3>2. j \in EntriesOf(found, k)
      BY <3>1 DEF EntriesOf
    <3>3. Score(other) <= Score(chosen)
      BY <2>4, <3>1, <3>2
    <3>4. Score(other) = 100 + priority(other) /\ Score(chosen) = 100 + priority(chosen)
      BY <2>5, Scores
    <3>. QED BY <3>3, <3>4, Scores
  <2>8. chosen \in best
    BY <2>6, <2>7
  <2>9. <<k, chosen.value>> \in VariablesOf(found)
    <3>1. c \in DOMAIN found /\ found[c].key = k
      BY <2>4 DEF EntriesOf
    <3>. QED BY <2>4, <2>5, <3>1 DEF VariablesOf
  <2>10. PICK i \in DOMAIN wizard.rows : wizard.rows[i] = <<k, chosen.value>>
    BY <2>9 DEF RowsOfVariables, Range
  <2>. QED BY <1>0, <1>2, <2>8, <2>10
<1>4. CASE readable = {} /\ typed # {}
  <2>1. PICK i \in DOMAIN wizard.rows : wizard.rows[i][1] = k
    BY <1>4 DEF Range
  <2>2. wizard.rows[i] \in typed
    BY <1>4, <2>1 DEF Range
  <2>. QED BY <1>0, <1>2, <1>4, <2>1, <2>2
<1>5. CASE readable = {} /\ typed = {}
  <2>1. Meant(k) = {wizard.text[i][2] : i \in last}
    BY <1>0, <1>5
  <2>2. PICK i \in last : TRUE
    BY <2>1
  <2>3. \A j \in DOMAIN wizard.rows : wizard.rows[j][1] # k
    BY <1>5 DEF Range
  <2>. DEFINE text == wizard.text
              rows == wizard.rows
              Values == Lines \cup {BadLine}
  <2>4. text \in Seq(Values) /\ rows \in Seq(Values) /\ Asked = text \o rows
    <3>1. rows \in Seq(Values)
      <4>. HIDE DEF rows
      <4>. QED BY <1>1 DEF rows
    <3>. QED BY <1>1, <3>1 DEF Asked
  <2>5. i \in DOMAIN text /\ text[i][1] = k /\ \A j \in DOMAIN text : text[j][1] = k => j <= i
    BY <2>2
  <2>6. \A j \in DOMAIN rows : rows[j][1] # k
    BY <2>3
  <2>. HIDE DEF text, rows, Values
  <2>7. /\ Asked \in Seq(Values) /\ DOMAIN Asked = 1..(Len(text) + Len(rows))
        /\ \A j \in DOMAIN Asked : Asked[j] = IF j <= Len(text) THEN text[j] ELSE rows[j - Len(text)]
        /\ \A j \in DOMAIN Asked : j > Len(text) => j - Len(text) \in DOMAIN rows
        /\ DOMAIN text = 1..Len(text) /\ Len(text) \in Nat /\ Len(rows) \in Nat
    BY <2>4
  <2>8. i \in DOMAIN Asked /\ Asked[i] = text[i]
    BY <2>5, <2>7
  <2>9. i \in LinesOf(Asked, k) /\ \A j \in LinesOf(Asked, k) : j <= i
    BY <2>5, <2>6, <2>7, <2>8 DEF LinesOf
  <2>10. LastValue(Asked, k) = text[i][2]
    BY <2>7, <2>8, <2>9, LastIs
  <2>11. k \in KeysOf(Asked)
    BY <2>5, <2>8 DEF KeysOf
  <2>. QED BY <2>1, <2>10, <2>11 DEF text
<1>. QED BY <1>3, <1>4, <1>5

\* What the project's secrets and bulk imports may do beside the page: write a value that is the
\* import's own or is remembered to be another request's, and bring the page's import on.
LEMMA SecretsGoOn ==
    ASSUME ImportInv, UNCHANGED <<wizard, envImport>>,
           secrets' = [k \in EnvKeys |-> secrets'[k]], bulks' \in [Bulks -> BulkSet], since \subseteq since',
           \A k \in EnvKeys \ since' :
              \/ secrets'[k] = secrets[k]
              \/ wizard.told # "ok" /\ secrets'[k] = LastValue(Asked, k)
              \/ wizard.told # "ok" /\ \A b \in Bulks : ~UnderWay(bulks[b])',
           \A b \in Bulks : bulks'[b].from = "wizard" =>
              /\ bulks[b].from = "wizard" /\ bulks'[b].at # "none"
              /\ bulks'[b].at = "read" <=> bulks[b].at = "read"
              /\ wizard.told = "ok" => bulks'[b].pending \subseteq bulks[b].pending
              /\ bulks'[b].at \in {"run", "ok"} =>
                    \/ bulks'[b] = bulks[b]
                    \/ GoesOn(bulks[b])'
    PROVE  ImportInv'
<1>. USE DEF ImportInv
<1>0. Asked' = Asked /\ VariablesOf(wizard.chosen)' = VariablesOf(wizard.chosen)
  BY DEF Asked
<1>1. ImportTyped'
  BY DEF ImportTyped
<1>2. RowsOfVariables' /\ RowsDiffer'
  BY <1>0 DEF RowsOfVariables, RowsDiffer
<1>3. OneImport'
  BY DEF OneImport
<1>4. ImportGoesOn'
  <2>1. SUFFICES ASSUME NEW b \in Bulks, UnderWay(bulks[b])' PROVE GoesOn(bulks[b])'
    BY DEF ImportGoesOn, UnderWay
  <2>2. bulks'[b].from = "wizard" /\ bulks'[b].at \in {"run", "ok"}
    BY <2>1 DEF UnderWay
  <2>3. CASE bulks'[b] = bulks[b]
    <3>1. GoesOn(bulks[b])
      BY <2>2, <2>3 DEF ImportGoesOn, UnderWay
    <3>2. \A k \in EnvKeys \ since' : secrets'[k] = secrets[k] \/ secrets'[k] = LastValue(Asked, k)
      BY <2>1
    <3>. QED BY <1>0, <2>3, <3>1, <3>2 DEF GoesOn
  <2>. QED BY <2>2, <2>3
<1>5. ImportDone'
  BY <1>0 DEF ImportDone
<1>. QED BY <1>1, <1>2, <1>3, <1>4, <1>5

\* One bulk import is replaced.
LEMMA BulkReplaced ==
    ASSUME bulks \in [Bulks -> BulkSet], NEW b \in Bulks, NEW x \in BulkSet, bulks' = [bulks EXCEPT ![b] = x]
    PROVE  bulks' \in [Bulks -> BulkSet] /\ bulks'[b] = x /\ \A c \in Bulks \ {b} : bulks'[c] = bulks[c]
OBVIOUS

\* The same for a step of one bulk import that writes nothing.
LEMMA BulkGoesOn ==
    ASSUME ImportInv, UNCHANGED <<wizard, envImport, secrets, since>>,
           NEW b \in Bulks, NEW x \in BulkSet, bulks' = [bulks EXCEPT ![b] = x],
           x.from = "wizard" =>
              /\ bulks[b].from = "wizard" /\ x.at # "none"
              /\ x.at = "read" <=> bulks[b].at = "read"
              /\ wizard.told = "ok" => x.pending \subseteq bulks[b].pending
              /\ x.at \in {"run", "ok"} => GoesOn(x)
    PROVE  ImportInv'
<1>0. /\ bulks' \in [Bulks -> BulkSet] /\ bulks'[b] = x /\ \A c \in Bulks \ {b} : bulks'[c] = bulks[c]
      /\ secrets' = [k \in EnvKeys |-> secrets'[k]]
  BY BulkReplaced DEF ImportInv, ImportTyped
<1>1. ASSUME x.from = "wizard", x.at \in {"run", "ok"} PROVE GoesOn(bulks[b])'
  <2>1. Asked' = Asked
    BY DEF Asked
  <2>2. GoesOn(x)
    BY <1>1
  <2>. QED BY <1>0, <2>1, <2>2 DEF GoesOn
<1>2. \A c \in Bulks : bulks'[c].from = "wizard" =>
          /\ bulks[c].from = "wizard" /\ bulks'[c].at # "none"
          /\ bulks'[c].at = "read" <=> bulks[c].at = "read"
          /\ wizard.told = "ok" => bulks'[c].pending \subseteq bulks[c].pending
          /\ bulks'[c].at \in {"run", "ok"} => bulks'[c] = bulks[c] \/ GoesOn(bulks[c])'
  BY <1>0, <1>1 DEF ImportInv, OneImport
<1>. QED BY <1>0, <1>2, SecretsGoOn

\* The keys of lines are keys.
LEMMA KeysOfLines ==
    ASSUME NEW lines \in Seq(Lines)
    PROVE  KeysOf(lines) \subseteq EnvKeys
BY DEF KeysOf, Lines

\* Whatever the next batch has room for is not written yet, and is remembered to be.
LEMMA NextBatchStep ==
    ASSUME ImportInv, UNCHANGED <<wizard, envImport>>, NEW b \in Bulks, NextBatch(b)
    PROVE  ImportInv'
<1>. DEFINE y == bulks[b]
            x == [y EXCEPT !.pending = Batch(b), !.next = y.next + BatchSize]
<1>1. y \in BulkSet /\ y.at = "run" /\ y.pending = {}
  BY DEF NextBatch, ImportInv, ImportTyped
<1>2. Batch(b) \subseteq KeysOf(y.lines) /\ KeysOf(y.lines) \subseteq EnvKeys
  BY <1>1, KeysOfLines DEF Batch, BulkSet
<1>3. x \in BulkSet /\ x.pending = Batch(b) /\ x.next = y.next + BatchSize /\ x.at = "run"
      /\ x.from = y.from /\ x.lines = y.lines
  <2>1. y.next + BatchSize \in Nat /\ Batch(b) \in SUBSET EnvKeys
    BY <1>1, <1>2, SecretsAssumption DEF BulkSet
  <2>2. y \in BulkSet /\ y.at = "run"
    BY <1>1
  <2>. DEFINE keys == Batch(b)
              n == y.next + BatchSize
  <2>3. x = [y EXCEPT !.pending = keys, !.next = n]
    OBVIOUS
  <2>. HIDE DEF x, y, keys, n
  <2>4. x \in BulkSet /\ x.pending = keys /\ x.next = n /\ x.at = y.at /\ x.from = y.from /\ x.lines = y.lines
    <3>1. keys \in SUBSET EnvKeys /\ n \in Nat
      BY <2>1 DEF keys, n
    <3>. QED BY <2>2, <2>3, <3>1 DEF BulkSet
  <2>. QED BY <2>2, <2>4 DEF keys, n
<1>4. bulks' = [bulks EXCEPT ![b] = x]
  <2>1. bulks' = [bulks EXCEPT ![b].pending = Batch(b), ![b].next = @ + BatchSize]
    BY DEF NextBatch
  <2>2. bulks = [c \in Bulks |-> bulks[c]]
    BY DEF ImportInv, ImportTyped
  <2>3. bulks' = [c \in Bulks |-> IF c = b THEN bulks'[b] ELSE bulks[c]]
    BY <2>1, <2>2
  <2>4. bulks'[b] = x
    BY <1>1, <2>1, <2>2 DEF BulkSet
  <2>. QED BY <2>2, <2>3, <2>4
<1>5. ASSUME y.from = "wizard" PROVE GoesOn(x) /\ wizard.told # "ok"
  <2>1. GoesOn(y)
    BY <1>1, <1>5 DEF ImportInv, ImportGoesOn, UnderWay
  <2>2. wizard.at = "import"
    BY <1>1, <1>5 DEF ImportInv, OneImport
  <2>3. y.lines = Asked /\ Asked \in Seq(Lines) /\ y.next \in Nat
    BY <1>1, <2>1 DEF GoesOn, BulkSet
  <2>4. ASSUME NEW k \in (KeysOf(Asked) \cap EnvKeys) \ (x.pending \cup since), PlaceOfKey(Asked, k) <= x.next
        PROVE  secrets[k] = LastValue(Asked, k)
    <3>1. PlaceOfKey(Asked, k) \in Nat
      <4>1. Cardinality(KeysOf(Asked)) \in Nat
        BY <2>3, KeysAreFinite
      <4>2. PlaceOfKey(Asked, k) \in 1..Cardinality(KeysOf(Asked))
        BY <2>3, PlaceInKeys
      <4>. QED BY <4>1, <4>2
    <3>2. PlaceOfKey(Asked, k) \notin (y.next + 1)..(y.next + BatchSize)
      BY <1>3, <2>3, <2>4 DEF Batch
    <3>3. PlaceOfKey(Asked, k) <= y.next
      BY <1>3, <2>3, <2>4, <3>1, <3>2, SecretsAssumption
    <3>. QED BY <1>1, <2>1, <2>4, <3>3 DEF GoesOn
  <2>5. wizard.told # "ok"
    BY <2>2 DEF ImportInv, ImportDone
  <2>. QED BY <1>2, <1>3, <2>3, <2>4, <2>5 DEF GoesOn
<1>6. UNCHANGED <<secrets, since>>
  BY DEF NextBatch
<1>. HIDE DEF x
<1>. QED BY <1>1, <1>3, <1>4, <1>5, <1>6, BulkGoesOn

\* An import ends with nothing left to send.
LEMMA EndBulkStep ==
    ASSUME ImportInv, UNCHANGED <<wizard, envImport>>, NEW b \in Bulks, EndBulk(b)
    PROVE  ImportInv'
<1>. DEFINE y == bulks[b]
<1>1. y \in BulkSet /\ y.at = "run" /\ y.pending = {} /\ ~HasMore(b) /\ UNCHANGED <<secrets, since>>
  BY DEF EndBulk, ImportInv, ImportTyped
<1>2. PICK at \in {"ok", "failed"} : bulks' = [bulks EXCEPT ![b].at = at]
  BY DEF EndBulk
<1>. DEFINE x == [y EXCEPT !.at = at]
<1>3. /\ x \in BulkSet /\ x.pending = {} /\ x.next = y.next /\ x.at = at
      /\ x.from = y.from /\ x.lines = y.lines
  BY <1>1 DEF BulkSet
<1>4. bulks' = [bulks EXCEPT ![b] = x]
  BY <1>2 DEF ImportInv, ImportTyped
<1>5. ASSUME y.from = "wizard" PROVE GoesOn(x)
  <2>1. GoesOn(y)
    BY <1>1, <1>5 DEF ImportInv, ImportGoesOn, UnderWay
  <2>2. y.lines = Asked /\ Asked \in Seq(Lines) /\ y.next \in Nat
    BY <1>1, <2>1 DEF GoesOn, BulkSet
  <2>3. Cardinality(KeysOf(Asked)) <= y.next
    BY <1>1, <2>2, KeysAreFinite DEF HasMore
  <2>. QED BY <1>1, <1>3, <2>1, <2>2, <2>3 DEF GoesOn
<1>. HIDE DEF x
<1>. QED BY <1>1, <1>3, <1>4, <1>5, BulkGoesOn

LEMMA NoBulkIs == NoBulk \in BulkSet /\ NoBulk.from = "none" /\ NoBulk.at = "none" /\ NoBulk.pending = {}
BY DEF NoBulk, BulkSet

LEMMA ForgetBulkStep ==
    ASSUME ImportInv, UNCHANGED <<wizard, envImport>>, NEW b \in Bulks, ForgetBulk(b)
    PROVE  ImportInv'
<1>1. bulks' = [bulks EXCEPT ![b] = NoBulk] /\ UNCHANGED <<secrets, since>>
  BY DEF ForgetBulk
<1>. QED BY <1>1, NoBulkIs, BulkGoesOn

LEMMA ImportAnsweredStep ==
    ASSUME ImportInv, UNCHANGED <<wizard, envImport>>, NEW b \in Bulks, ImportAnswered(b)
    PROVE  ImportInv'
<1>. DEFINE x == [bulks[b] EXCEPT !.at = "read"]
<1>1. bulks' = [bulks EXCEPT ![b] = x] /\ UNCHANGED <<secrets, since>> /\ bulks[b].from = "tab"
  BY DEF ImportAnswered, ImportInv, ImportTyped
<1>2. x \in BulkSet /\ x.from = bulks[b].from
  BY DEF ImportInv, ImportTyped, BulkSet
<1>. HIDE DEF x
<1>. QED BY <1>1, <1>2, BulkGoesOn

LEMMA UpsertFailsStep ==
    ASSUME ImportInv, UNCHANGED <<wizard, envImport>>, NEW b \in Bulks, NEW k, UpsertFails(b, k)
    PROVE  ImportInv'
<1>. DEFINE y == bulks[b]
            at == IF y.at = "run" THEN "failed" ELSE y.at
            x == [y EXCEPT !.pending = y.pending \ {k}, !.at = at]
<1>1. y \in BulkSet /\ k \in y.pending /\ UNCHANGED <<secrets, since>> /\ bulks' = [bulks EXCEPT ![b] = x]
  BY DEF UpsertFails, ImportInv, ImportTyped
<1>2. x \in BulkSet /\ x.pending = y.pending \ {k} /\ x.at = at /\ x.from = y.from
  BY <1>1 DEF BulkSet
<1>3. y.from = "wizard" => y.at # "ok"
  BY <1>1 DEF ImportInv, ImportGoesOn, UnderWay, GoesOn
<1>4. y.from = "wizard" => y.at # "none"
  BY DEF ImportInv, OneImport
<1>5. at \notin {"run"} /\ (at = "ok" => y.at = "ok") /\ (at = "read" <=> y.at = "read") /\ (at = "none" => y.at = "none")
  BY <1>1 DEF BulkSet
<1>. HIDE DEF x, at
<1>. QED BY <1>1, <1>2, <1>3, <1>4, <1>5, BulkGoesOn

\* A value of the page's import is written before it can be answered ok; another's is remembered.
LEMMA UpsertStep ==
    ASSUME ImportInv, UNCHANGED <<wizard, envImport>>, NEW b \in Bulks, NEW k, UpsertOne(b, k)
    PROVE  ImportInv'
<1>. DEFINE y == bulks[b]
            x == [y EXCEPT !.pending = y.pending \ {k}]
            own == y.from = "wizard"
<1>1. y \in BulkSet /\ k \in y.pending /\ k \in EnvKeys /\ bulks' = [bulks EXCEPT ![b] = x]
      /\ secrets' = [secrets EXCEPT ![k] = LastValue(y.lines, k)]
      /\ since' = IF own THEN since ELSE since \cup {k}
  BY DEF UpsertOne, ImportInv, ImportTyped, BulkSet
<1>2. x \in BulkSet /\ x.pending = y.pending \ {k} /\ x.at = y.at /\ x.from = y.from /\ x.lines = y.lines
      /\ x.next = y.next
  BY <1>1 DEF BulkSet
<1>. HIDE DEF x
<1>3. /\ bulks' \in [Bulks -> BulkSet] /\ bulks'[b] = x /\ \A c \in Bulks \ {b} : bulks'[c] = bulks[c]
  BY <1>1, <1>2, BulkReplaced DEF ImportInv, ImportTyped
<1>4. /\ secrets' = [l \in EnvKeys |-> secrets'[l]] /\ secrets'[k] = LastValue(y.lines, k)
      /\ \A l \in EnvKeys \ {k} : secrets'[l] = secrets[l]
  BY <1>1 DEF ImportInv, ImportTyped
<1>5. own => wizard.told # "ok"
  BY <1>1 DEF ImportInv, ImportDone
<1>6. own => \A c \in Bulks : bulks[c].from = "wizard" => c = b
  BY DEF ImportInv, OneImport
<1>7. own /\ y.at = "run" => GoesOn(y)
  BY DEF ImportInv, ImportGoesOn, UnderWay
<1>8. own => y.at # "ok"
  BY <1>1 DEF ImportInv, ImportGoesOn, UnderWay, GoesOn
<1>9. \A l \in EnvKeys \ since' :
         \/ secrets'[l] = secrets[l]
         \/ wizard.told # "ok" /\ secrets'[l] = LastValue(Asked, l)
         \/ wizard.told # "ok" /\ \A c \in Bulks : ~UnderWay(bulks[c])'
  <2>1. CASE ~own
    BY <1>1, <1>4, <2>1
  <2>2. CASE own /\ y.at = "run"
    BY <1>4, <1>5, <1>7, <2>2 DEF GoesOn
  <2>3. CASE own /\ y.at # "run"
    BY <1>2, <1>3, <1>5, <1>6, <1>8, <2>3 DEF UnderWay
  <2>. QED BY <2>1, <2>2, <2>3
<1>10. own /\ y.at = "run" => GoesOn(bulks[b])'
  <2>. SUFFICES ASSUME own, y.at = "run" PROVE GoesOn(bulks[b])'
    OBVIOUS
  <2>1. GoesOn(y) /\ Asked' = Asked /\ since' = since
    BY <1>1, <1>7 DEF Asked
  <2>2. ASSUME NEW l \in (KeysOf(Asked) \cap EnvKeys) \ (x.pending \cup since), PlaceOfKey(Asked, l) <= x.next
        PROVE  secrets'[l] = LastValue(Asked, l)
    BY <1>2, <1>4, <2>1, <2>2 DEF GoesOn
  <2>. QED BY <1>2, <1>3, <2>1, <2>2 DEF GoesOn
<1>11. \A c \in Bulks : bulks'[c].from = "wizard" =>
          /\ bulks[c].from = "wizard" /\ bulks'[c].at # "none"
          /\ bulks'[c].at = "read" <=> bulks[c].at = "read"
          /\ wizard.told = "ok" => bulks'[c].pending \subseteq bulks[c].pending
          /\ bulks'[c].at \in {"run", "ok"} => bulks'[c] = bulks[c] \/ GoesOn(bulks[c])'
  <2>1. own => y.at # "none"
    BY DEF ImportInv, OneImport
  <2>. QED BY <1>2, <1>3, <1>8, <1>10, <2>1 DEF ImportInv, OneImport
<1>12. since \subseteq since'
  BY <1>1
<1>. QED BY <1>3, <1>4, <1>9, <1>11, <1>12, SecretsGoOn

\* Somebody else's write
LEMMA WriteStep ==
    ASSUME ImportInv, UNCHANGED <<wizard, envImport, bulks>>, NEW k, NEW v,
           secrets' = [secrets EXCEPT ![k] = v], since' = since \cup {k}
    PROVE  ImportInv'
<1>1. bulks' \in [Bulks -> BulkSet] /\ secrets' = [l \in EnvKeys |-> secrets'[l]]
      /\ \A l \in EnvKeys \ since' : secrets'[l] = secrets[l]
  BY DEF ImportInv, ImportTyped
<1>2. \A c \in Bulks : bulks'[c].from = "wizard" =>
          /\ bulks[c].from = "wizard" /\ bulks'[c].at # "none"
          /\ bulks'[c].at = "read" <=> bulks[c].at = "read"
          /\ wizard.told = "ok" => bulks'[c].pending \subseteq bulks[c].pending
          /\ bulks'[c].at \in {"run", "ok"} => bulks'[c] = bulks[c] \/ GoesOn(bulks[c])'
  BY DEF ImportInv, OneImport
<1>. QED BY <1>1, <1>2, SecretsGoOn

\* A bulk import begins: it has the lines of its text and its entries, if the text can be parsed.
LEMMA BulkStarts ==
    ASSUME bulks \in [Bulks -> BulkSet], NEW b \in Bulks, NEW from \in {"wizard", "tab"},
           NEW text \in Texts, NEW rows \in Seq(Lines), StartBulk(b, from, text, rows)
    PROVE  \E x \in BulkSet :
              /\ bulks' = [bulks EXCEPT ![b] = x] /\ bulks[b] = NoBulk
              /\ x.from = from /\ x.next = 0 /\ x.pending = {} /\ x.at \in {"run", "failed"}
              /\ x.at = "run" => x.lines = text \o rows
<1>. DEFINE refused == BadLine \in Range(text) \/ text \o rows = <<>>
            at == IF refused THEN "failed" ELSE "run"
            lines == IF refused THEN <<>> ELSE text \o rows
            x == [NoBulk EXCEPT !.at = at, !.from = from, !.lines = lines]
<1>1. lines \in Seq(Lines)
  <2>1. CASE refused
    BY <2>1
  <2>2. CASE ~refused
    <3>1. text \in Seq(Lines)
      <4>1. \A i \in DOMAIN text : text[i] # BadLine
        BY <2>2 DEF Range
      <4>. QED BY <4>1 DEF Texts
    <3>. QED BY <2>2, <3>1
  <2>. QED BY <2>1, <2>2
<1>2. at \in {"failed", "run"} /\ (at = "run" => lines = text \o rows)
  OBVIOUS
<1>3. bulks' = [bulks EXCEPT ![b] = x] /\ bulks[b] = NoBulk
  BY DEF StartBulk
<1>. HIDE DEF at, lines
<1>4. NoBulk \in BulkSet /\ NoBulk.next = 0 /\ NoBulk.pending = {}
  BY DEF NoBulk, BulkSet
<1>5. x \in BulkSet /\ x.from = from /\ x.next = 0 /\ x.pending = {} /\ x.at = at /\ x.lines = lines
  BY <1>1, <1>2, <1>4 DEF BulkSet
<1>. QED BY <1>2, <1>3, <1>5

\* An import of the tab is another request.
LEMMA TabStarts ==
    ASSUME ImportInv, UNCHANGED <<wizard, envImport>>, ImportText
    PROVE  ImportInv'
<1>. DEFINE rows == <<>>
<1>1. PICK b \in Bulks, text \in TabTexts : StartBulk(b, "tab", text, rows)
  BY DEF ImportText
<1>2. text \in Texts /\ rows \in Seq(Lines)
  BY SecretsAssumption
<1>. HIDE DEF rows
<1>3. PICK x \in BulkSet : bulks' = [bulks EXCEPT ![b] = x] /\ x.from = "tab"
  BY <1>1, <1>2, BulkStarts DEF ImportInv, ImportTyped
<1>. QED BY <1>3, BulkGoesOn DEF ImportText

\* Every step of the stored variables and of the tab keeps the page's import going.
LEMMA ImportSecretsStep ==
    ASSUME ImportInv, SecretsNext, UNCHANGED <<wizard, envImport>>
    PROVE  ImportInv'
<1>1. ASSUME UNCHANGED <<secrets, bulks, since>> PROVE ImportInv'
  <2>1. bulks' \in [Bulks -> BulkSet] /\ secrets' = [l \in EnvKeys |-> secrets'[l]]
    BY <1>1 DEF ImportInv, ImportTyped
  <2>2. \A c \in Bulks : bulks'[c].from = "wizard" =>
            /\ bulks[c].from = "wizard" /\ bulks'[c].at # "none"
            /\ bulks'[c].at = "read" <=> bulks[c].at = "read"
            /\ wizard.told = "ok" => bulks'[c].pending \subseteq bulks[c].pending
            /\ bulks'[c].at \in {"run", "ok"} => bulks'[c] = bulks[c] \/ GoesOn(bulks[c])'
    BY <1>1 DEF ImportInv, OneImport
  <2>. QED BY <1>1, <2>1, <2>2, SecretsGoOn
<1>2. ASSUME NEW k \in TouchedKeys, ElseWrites(k) PROVE ImportInv'
  BY <1>2, WriteStep DEF ElseWrites
<1>3. CASE ServeSave
  BY <1>3, WriteStep DEF ServeSave
<1>4. CASE ServeDelete
  BY <1>4, WriteStep DEF ServeDelete
<1>5. ASSUME NEW k \in TouchedKeys,
             RevealSecret(k) \/ HideSecret(k) \/ EditSecret(k) \/ DeleteSecret(k)
             \/ \E v \in EnvValues : SaveSecret(k, v)
      PROVE  ImportInv'
  BY <1>1, <1>5 DEF RevealSecret, HideSecret, EditSecret, DeleteSecret, SaveSecret
<1>6. CASE LoadSecrets \/ CancelEdit \/ ServeList \/ ServeReveal
  BY <1>1, <1>6 DEF LoadSecrets, CancelEdit, ServeList, ServeReveal
<1>7. CASE ListAnswered \/ ListFails \/ RevealAnswered \/ SaveAnswered \/ DeleteAnswered
  BY <1>1, <1>7 DEF ListAnswered, ListFails, RevealAnswered, SaveAnswered, DeleteAnswered
<1>8. ASSUME NEW type \in {"reveal", "save", "delete"}, CallFails(type) PROVE ImportInv'
  BY <1>1, <1>8 DEF CallFails
<1>. QED BY <1>2, <1>3, <1>4, <1>5, <1>6, <1>7, <1>8, TabStarts, NextBatchStep, EndBulkStep, ForgetBulkStep,
            ImportAnsweredStep, UpsertFailsStep, UpsertStep DEF SecretsNext

\* Before the page is submitted there is no import of its own, and it has told nothing.
LEMMA Filling ==
    ASSUME ImportInv, wizard.at \in {"fill", "create"}
    PROVE  wizard.told # "ok" /\ \A b \in Bulks : bulks[b].from # "wizard"
BY DEF ImportInv, ImportDone, OneImport

\* A step of the page before its import.
LEMMA PageStep ==
    ASSUME ImportInv, wizard.at \in {"fill", "create"}, UNCHANGED <<secrets, bulks, since>>,
           wizard' \in WizardSet, envImport' \in ImportSet, wizard'.told = wizard.told,
           RowsOfVariables', RowsDiffer'
    PROVE  ImportInv'
<1>1. ImportTyped'
  BY DEF ImportInv, ImportTyped
<1>2. OneImport' /\ ImportGoesOn' /\ ImportDone'
  BY Filling DEF OneImport, ImportGoesOn, UnderWay, ImportDone
<1>. QED BY <1>1, <1>2 DEF ImportInv

\* The page is as it was, while an import is on its way.
LEMMA AsIsStep ==
    ASSUME ImportInv, UNCHANGED <<secrets, bulks, since, wizard>>, envImport' \in ImportSet
    PROVE  ImportInv'
<1>1. Asked' = Asked /\ VariablesOf(wizard.chosen)' = VariablesOf(wizard.chosen)
  BY DEF Asked
<1>2. ImportTyped' /\ RowsOfVariables' /\ RowsDiffer' /\ OneImport'
  BY <1>1 DEF ImportInv, ImportTyped, RowsOfVariables, RowsDiffer, OneImport
<1>3. ImportGoesOn' /\ ImportDone'
  BY <1>1 DEF ImportInv, ImportGoesOn, UnderWay, GoesOn, HasMore, ImportDone
<1>. QED BY <1>2, <1>3 DEF ImportInv

LEMMA AskStep ==
    ASSUME ImportInv, NEW v \in VercelProjects, AskImport(v)
    PROVE  ImportInv'
<1>1. PICK found \in {EnvOf[v], <<>>} : envImport' =
          [of |-> v, list |-> found,
           asked |-> {i \in DOMAIN found : found[i].value = NoEnvValue /\ found[i].hidden # NoEnvValue}]
  BY DEF AskImport
<1>2. found \in Seq(EntrySet)
  <2>1. EnvOf[v] \in Seq(EntrySet)
    BY ImportAssumption, Zenon DEF EntrySet
  <2>. HIDE DEF EntrySet
  <2>2. <<>> \in Seq(EntrySet)
    OBVIOUS
  <2>. QED BY <1>1, <2>1, <2>2, Zenon
<1>3. {i \in DOMAIN found : found[i].value = NoEnvValue /\ found[i].hidden # NoEnvValue} \in SUBSET Nat
  BY <1>2
<1>4. envImport' \in ImportSet
  <2>. HIDE DEF EntrySet
  <2>. QED BY <1>1, <1>2, <1>3 DEF ImportSet
<1>. QED BY <1>4, AsIsStep DEF AskImport, secretVars

LEMMA ResolveStep ==
    ASSUME ImportInv, NEW i \in DOMAIN envImport.list, ResolveEntry(i)
    PROVE  ImportInv'
<1>. DEFINE found == envImport.list
            asked == envImport.asked \ {i}
<1>0. envImport \in ImportSet /\ found \in Seq(EntrySet) /\ found[i] \in EntrySet
  BY DEF ImportInv, ImportTyped, ImportSet
<1>1. PICK value \in {found[i].hidden, NoEnvValue} :
          envImport' = [envImport EXCEPT !.asked = @ \ {i}, !.list[i].value = value]
  BY DEF ResolveEntry
<1>. DEFINE entry == [found[i] EXCEPT !.value = value]
            longer == [found EXCEPT ![i] = entry]
<1>2. entry \in EntrySet
  BY <1>0, <1>1 DEF EntrySet, Readable
<1>3. longer \in Seq(EntrySet)
  <2>. HIDE DEF entry, EntrySet
  <2>. QED BY <1>0, <1>2
<1>4. envImport' = [of |-> envImport.of, list |-> longer, asked |-> asked]
  BY <1>0, <1>1 DEF ImportSet
<1>5. envImport' \in ImportSet
  <2>1. envImport.of \in VercelProjects \cup {NoVercelProject} /\ asked \in SUBSET Nat
    BY <1>0 DEF ImportSet
  <2>. HIDE DEF longer, asked
  <2>. QED BY <1>3, <1>4, <2>1 DEF ImportSet
<1>. QED BY <1>5, AsIsStep DEF ResolveEntry, secretVars

LEMMA NoImportIs == NoImport \in ImportSet
BY DEF NoImport, ImportSet

LEMMA ArriveStep ==
    ASSUME ImportInv, ImportArrives
    PROVE  ImportInv'
<1>. DEFINE found == envImport.list
            rows == Variables(found)
            text == <<>>
<1>0. wizard \in WizardSet /\ wizard.at = "fill" /\ found \in Seq(EntrySet) /\ envImport' \in ImportSet
  BY NoImportIs DEF ImportArrives, ImportInv, ImportTyped, ImportSet
<1>1. CASE rows = <<>>
  BY <1>0, <1>1, AsIsStep DEF ImportArrives, secretVars
<1>2. CASE rows # <<>>
  <2>1. wizard' = [wizard EXCEPT !.rows = rows, !.chosen = found, !.text = text]
    BY <1>2 DEF ImportArrives
  <2>2. Range(rows) = VariablesOf(found) /\ rows \in Seq(Lines) /\ text \in Texts
    BY <1>0, VariablesListed DEF Texts
  <2>. HIDE DEF rows, found, text
  <2>3. wizard' \in WizardSet /\ wizard'.rows = rows /\ wizard'.chosen = found /\ wizard'.told = wizard.told
        /\ wizard'.at = "fill"
    BY <1>0, <2>1, <2>2 DEF WizardSet
  <2>4. RowsOfVariables' /\ RowsDiffer'
    BY <2>2, <2>3 DEF RowsOfVariables, RowsDiffer
  <2>. QED BY <1>0, <2>3, <2>4, PageStep DEF ImportArrives, secretVars
<1>. QED BY <1>1, <1>2

LEMMA TypeStep ==
    ASSUME ImportInv, NEW row \in TypedRows, TypeRow(row)
    PROVE  ImportInv'
<1>. DEFINE rows == Append(wizard.rows, row)
<1>1. wizard \in WizardSet /\ wizard.at = "fill" /\ wizard' = [wizard EXCEPT !.rows = rows]
  BY DEF TypeRow, ImportInv, ImportTyped
<1>2. rows \in Seq(Lines) /\ Range(wizard.rows) \subseteq Range(rows)
  <2>1. wizard.rows \in Seq(Lines) /\ row \in Lines
    BY <1>1, ImportAssumption DEF WizardSet
  <2>. QED BY <2>1 DEF Range
<1>. HIDE DEF rows
<1>3. wizard' \in WizardSet /\ wizard'.rows = rows /\ wizard'.chosen = wizard.chosen
      /\ wizard'.told = wizard.told /\ wizard'.at = "fill"
  BY <1>1, <1>2 DEF WizardSet
<1>4. RowsOfVariables' /\ RowsDiffer'
  BY <1>2, <1>3 DEF RowsOfVariables, RowsDiffer, ImportInv
<1>5. envImport' \in ImportSet
  BY DEF TypeRow, ImportInv, ImportTyped
<1>. QED BY <1>1, <1>3, <1>4, <1>5, PageStep DEF TypeRow, secretVars

LEMMA PasteStep ==
    ASSUME ImportInv, NEW text \in WizardTexts, PasteText(text)
    PROVE  ImportInv'
<1>1. wizard \in WizardSet /\ wizard.at = "fill" /\ wizard' = [wizard EXCEPT !.text = text] /\ text \in Texts
  BY ImportAssumption DEF PasteText, ImportInv, ImportTyped
<1>2. wizard' \in WizardSet /\ wizard'.rows = wizard.rows /\ wizard'.chosen = wizard.chosen
      /\ wizard'.told = wizard.told /\ wizard'.at = "fill"
  BY <1>1 DEF WizardSet
<1>3. RowsOfVariables' /\ RowsDiffer'
  BY <1>2 DEF RowsOfVariables, RowsDiffer, ImportInv
<1>4. envImport' \in ImportSet
  BY DEF PasteText, ImportInv, ImportTyped
<1>. QED BY <1>1, <1>2, <1>3, <1>4, PageStep DEF PasteText, secretVars

\* Its rows stay: it is submitted, or the project is not created after all.
LEMMA SubmitStep ==
    ASSUME ImportInv, SubmitWizard \/ CreateFails
    PROVE  ImportInv'
<1>1. PICK at \in {"fill", "create"} : wizard' = [wizard EXCEPT !.at = at] /\ wizard.at \in {"fill", "create"}
  BY DEF SubmitWizard, CreateFails
<1>2. wizard' \in WizardSet /\ wizard'.rows = wizard.rows /\ wizard'.chosen = wizard.chosen
      /\ wizard'.told = wizard.told /\ wizard'.at = at
  BY <1>1 DEF ImportInv, ImportTyped, WizardSet
<1>3. RowsOfVariables'
  BY <1>2 DEF RowsOfVariables, ImportInv
<1>4. RowsDiffer'
  BY <1>2 DEF RowsDiffer, SubmitWizard, CreateFails, ImportInv, ImportTyped, WizardSet
<1>5. envImport' \in ImportSet
  BY DEF SubmitWizard, CreateFails, ImportInv, ImportTyped
<1>. QED BY <1>1, <1>2, <1>3, <1>4, <1>5, PageStep DEF SubmitWizard, CreateFails, secretVars

\* The project is created, and what the page asks for is sent, if it asks for anything.
LEMMA CreatedStep ==
    ASSUME ImportInv, ProjectCreated
    PROVE  ImportInv'
<1>0. /\ wizard \in WizardSet /\ wizard.at = "create" /\ UNCHANGED <<secrets, since, envImport>>
      /\ envImport' \in ImportSet /\ wizard.told # "ok" /\ \A c \in Bulks : bulks[c].from # "wizard"
  BY Filling DEF ProjectCreated, ImportInv, ImportTyped
<1>1. PICK at \in {"import", "left"} : wizard' = [wizard EXCEPT !.at = at]
  BY DEF ProjectCreated
<1>2. /\ wizard' \in WizardSet /\ wizard'.at = at /\ wizard'.rows = wizard.rows /\ wizard'.text = wizard.text
      /\ wizard'.chosen = wizard.chosen /\ wizard'.told = wizard.told
  BY <1>0, <1>1 DEF WizardSet
<1>3. Asked' = Asked
  BY <1>2 DEF Asked
<1>4. RowsOfVariables' /\ RowsDiffer'
  BY <1>0, <1>2 DEF ImportInv, RowsOfVariables, RowsDiffer
<1>5. CASE wizard.rows = <<>> /\ wizard.text = <<>>
  <2>1. UNCHANGED bulks
    BY <1>5 DEF ProjectCreated
  <2>2. ImportTyped'
    BY <1>0, <1>2, <2>1 DEF ImportInv, ImportTyped
  <2>3. OneImport' /\ ImportGoesOn' /\ ImportDone'
    BY <1>0, <1>2, <2>1 DEF OneImport, ImportGoesOn, UnderWay, ImportDone
  <2>. QED BY <1>4, <2>2, <2>3 DEF ImportInv
<1>6. CASE ~(wizard.rows = <<>> /\ wizard.text = <<>>)
  <2>0. at = "import"
    <3>1. wizard' = [wizard EXCEPT !.at = "import"]
      BY <1>6 DEF ProjectCreated
    <3>. QED BY <1>0, <1>2, <3>1 DEF WizardSet
  <2>. DEFINE text == wizard.text
              rows == wizard.rows
  <2>1. PICK b \in Bulks : StartBulk(b, "wizard", text, rows)
    BY <1>6 DEF ProjectCreated
  <2>2. bulks \in [Bulks -> BulkSet] /\ text \in Texts /\ rows \in Seq(Lines) /\ Asked = text \o rows
    BY <1>0 DEF ImportInv, ImportTyped, WizardSet, Asked
  <2>. HIDE DEF text, rows
  <2>3. PICK x \in BulkSet :
            /\ bulks' = [bulks EXCEPT ![b] = x]
            /\ x.from = "wizard" /\ x.next = 0 /\ x.pending = {} /\ x.at \in {"run", "failed"}
            /\ x.at = "run" => x.lines = text \o rows
    BY <2>1, <2>2, BulkStarts
  <2>4. bulks' \in [Bulks -> BulkSet] /\ bulks'[b] = x /\ \A c \in Bulks \ {b} : bulks'[c] = bulks[c]
    BY <2>2, <2>3, BulkReplaced
  <2>5. ImportTyped'
    BY <1>0, <1>2, <2>4 DEF ImportInv, ImportTyped
  <2>6. OneImport' /\ ImportDone'
    BY <1>0, <1>2, <2>0, <2>3, <2>4 DEF OneImport, ImportDone
  <2>7. ImportGoesOn'
    <3>1. SUFFICES ASSUME x.at = "run" PROVE GoesOn(x)'
      BY <1>0, <2>3, <2>4 DEF ImportGoesOn, UnderWay
    <3>2. x.lines = Asked /\ Asked \in Seq(Lines)
      BY <2>2, <2>3, <3>1 DEF BulkSet
    <3>3. ASSUME NEW k \in KeysOf(Asked) PROVE ~(PlaceOfKey(Asked, k) <= x.next)
      <4>1. Cardinality(KeysOf(Asked)) \in Nat
        BY <3>2, KeysAreFinite
      <4>2. PlaceOfKey(Asked, k) \in 1..Cardinality(KeysOf(Asked))
        BY <3>2, PlaceInKeys
      <4>. QED BY <2>3, <4>1, <4>2
    <3>. QED BY <1>3, <2>3, <3>1, <3>2, <3>3 DEF GoesOn
  <2>. QED BY <1>4, <2>5, <2>6, <2>7 DEF ImportInv
<1>. QED BY <1>5, <1>6

\* The answer is ok when the last batch is written: every key then has its last value.
LEMMA AnsweredStep ==
    ASSUME ImportInv, NEW b \in Bulks, SecretsAnswered(b)
    PROVE  ImportInv'
<1>. DEFINE y == bulks[b]
            told == IF y.at = "ok" THEN "ok" ELSE "partial"
            x == [y EXCEPT !.at = "read"]
<1>0. /\ wizard \in WizardSet /\ wizard.at = "import" /\ UNCHANGED <<secrets, since, envImport>>
      /\ envImport' \in ImportSet /\ y \in BulkSet /\ y.from = "wizard" /\ bulks \in [Bulks -> BulkSet]
      /\ \A c \in Bulks : bulks[c].from = "wizard" => c = b
  BY DEF SecretsAnswered, ImportInv, ImportTyped, OneImport
<1>1. wizard' = [wizard EXCEPT !.at = "left", !.told = told] /\ bulks' = [bulks EXCEPT ![b] = x]
  BY DEF SecretsAnswered, ImportInv, ImportTyped
<1>2. /\ wizard' \in WizardSet /\ wizard'.at = "left" /\ wizard'.rows = wizard.rows /\ wizard'.text = wizard.text
      /\ wizard'.chosen = wizard.chosen /\ wizard'.told = told
  BY <1>0, <1>1 DEF WizardSet
<1>3. x \in BulkSet /\ x.at = "read" /\ x.from = "wizard" /\ x.pending = y.pending
  BY <1>0 DEF BulkSet
<1>. HIDE DEF x
<1>4. bulks' \in [Bulks -> BulkSet] /\ bulks'[b] = x /\ \A c \in Bulks \ {b} : bulks'[c] = bulks[c]
  BY <1>0, <1>1, <1>3, BulkReplaced
<1>5. Asked' = Asked
  BY <1>2 DEF Asked
<1>6. RowsOfVariables' /\ RowsDiffer'
  BY <1>0, <1>2 DEF ImportInv, RowsOfVariables, RowsDiffer
<1>7. ImportTyped'
  BY <1>0, <1>2, <1>4 DEF ImportInv, ImportTyped
<1>8. OneImport' /\ ImportGoesOn'
  BY <1>0, <1>2, <1>3, <1>4 DEF OneImport, ImportGoesOn, UnderWay
<1>9. ImportDone'
  <2>1. SUFFICES ASSUME y.at = "ok" PROVE ImportDone'
    BY <1>2 DEF ImportDone
  <2>2. GoesOn(y)
    BY <1>0, <2>1 DEF ImportInv, ImportGoesOn, UnderWay
  <2>3. Asked \in Seq(Lines) /\ y.next \in Nat /\ y.pending = {} /\ Cardinality(KeysOf(Asked)) <= y.next
    BY <1>0, <2>1, <2>2 DEF GoesOn, BulkSet
  <2>4. ASSUME NEW k \in (KeysOf(Asked) \cap EnvKeys) \ since PROVE secrets[k] = LastValue(Asked, k)
    <3>1. Cardinality(KeysOf(Asked)) \in Nat
      BY <2>3, KeysAreFinite
    <3>2. PlaceOfKey(Asked, k) \in 1..Cardinality(KeysOf(Asked))
      BY <2>3, PlaceInKeys
    <3>3. PlaceOfKey(Asked, k) <= y.next
      BY <2>3, <3>1, <3>2
    <3>. QED BY <2>2, <2>3, <3>3 DEF GoesOn
  <2>. QED BY <1>0, <1>2, <1>3, <1>4, <1>5, <2>3, <2>4 DEF ImportDone
<1>. QED BY <1>6, <1>7, <1>8, <1>9 DEF ImportInv

LEMMA ImportStarts == ImportInit => ImportInv
<1>. SUFFICES ASSUME ImportInit PROVE ImportInv
  OBVIOUS
<1>1. /\ wizard = NewWizard /\ envImport = NoImport /\ bulks = [b \in Bulks |-> NoBulk]
      /\ secrets = [k \in EnvKeys |-> NoEnvValue]
  BY DEF ImportInit, SecretsInit, NoValues
<1>2. wizard \in WizardSet /\ wizard.rows = <<>> /\ wizard.chosen = <<>> /\ wizard.at = "fill" /\ wizard.told # "ok"
  <2>1. <<>> \in Seq(EntrySet) /\ <<>> \in Seq(Lines) /\ <<>> \in Texts
    <3>. DEFINE S == EntrySet
                T == Lines
                U == Lines \cup {BadLine}
    <3>. HIDE DEF S, T, U
    <3>1. <<>> \in Seq(S) /\ <<>> \in Seq(T) /\ <<>> \in Seq(U)
      OBVIOUS
    <3>. QED BY <3>1 DEF S, T, U, Texts
  <2>. QED BY <1>1, <2>1 DEF NewWizard, WizardSet
<1>3. \A b \in Bulks : bulks[b] = NoBulk
  BY <1>1
<1>4. ImportTyped
  BY <1>1, <1>2, NoImportIs, NoBulkIs DEF ImportTyped
<1>5. VariablesOf(wizard.chosen) = {}
  BY <1>2 DEF VariablesOf
<1>. QED BY <1>2, <1>3, <1>4, <1>5, NoBulkIs
         DEF ImportInv, RowsOfVariables, RowsDiffer, OneImport, ImportGoesOn, UnderWay, ImportDone

LEMMA ImportStep == ImportInv /\ [ImportNext]_importVars => ImportInv'
<1>. SUFFICES ASSUME ImportInv, [ImportNext]_importVars PROVE ImportInv'
  OBVIOUS
<1>1. CASE UNCHANGED importVars
  <2>1. UNCHANGED <<secrets, bulks, since, wizard, envImport>>
    BY <1>1 DEF importVars, secretVars
  <2>2. envImport' \in ImportSet
    BY <2>1 DEF ImportInv, ImportTyped
  <2>. QED BY <2>1, <2>2, AsIsStep
<1>2. CASE ImportFails
  BY <1>2, NoImportIs, AsIsStep DEF ImportFails, secretVars
<1>3. CASE \E v \in VercelProjects : AskImport(v)
  BY <1>3, AskStep
<1>4. CASE \E i \in DOMAIN envImport.list : ResolveEntry(i)
  BY <1>4, ResolveStep
<1>5. CASE \E row \in TypedRows : TypeRow(row)
  BY <1>5, TypeStep
<1>6. CASE \E text \in WizardTexts : PasteText(text)
  BY <1>6, PasteStep
<1>7. CASE \E b \in Bulks : SecretsAnswered(b)
  BY <1>7, AnsweredStep
<1>8. CASE SecretsNext /\ UNCHANGED <<wizard, envImport>>
  BY <1>8, ImportSecretsStep
<1>. QED BY <1>1, <1>2, <1>3, <1>4, <1>5, <1>6, <1>7, <1>8, ArriveStep, SubmitStep, CreatedStep DEF ImportNext

\* When the user has been told that the variables are set up, every variable of the page has the value
\* meant for it, unless another request has written it since: that of the row typed for it, of the entry
\* the import chose, or of its last line in the text, whatever the order in which the batches, their
\* upserts and the others' requests were served (onSubmit of projects/new/page.tsx, POST .../secrets/bulk).
THEOREM ImportsAreStored == ImportSpec => []ImportedEnvIsStored
<1>1. ImportInv => ImportedEnvIsStored
  <2>. SUFFICES ASSUME ImportInv, wizard.told = "ok",
                       NEW k \in EnvKeys, Meant(k) # {}, k \notin since
                PROVE  secrets[k] \in Meant(k)
    BY DEF ImportedEnvIsStored
  <2>1. wizard.at = "left" /\ \A l \in (KeysOf(Asked) \cap EnvKeys) \ since : secrets[l] = LastValue(Asked, l)
    BY DEF ImportInv, ImportDone
  <2>2. k \in KeysOf(Asked) /\ LastValue(Asked, k) \in Meant(k)
    BY <2>1, LastIsMeant DEF ImportInv
  <2>. QED BY <2>1, <2>2
<1>. QED BY <1>1, ImportStarts, ImportStep, PTL DEF ImportSpec

-----------------------------------------------------------------------------
(* ExtensionWorkspace *)

NoOrPerson == People \cup {NoPerson}
NoOrTeam == Teams \cup {NoTeam}
CallRecords == [at : {"send", "sent", "done"}, token : Nat]
TaskRecords ==
    [at : {"idle", "command", "pick", "forget", "begin", "token", "who", "lists", "stray"}, no : Nat,
     offered : NoOrPerson, chosen : NoOrTeam, calls : [Pair -> CallRecords]]

Waiting == {"who", "lists", "command", "stray"}

WorkspaceTyped ==
    workspace \in [signedIn : BOOLEAN, user : NoOrPerson, teams : NoOrPerson, selected : NoOrTeam,
                   projects : NoOrTeam, deployments : NoOrTeam, loading : BOOLEAN, error : BOOLEAN,
                   by : [who : 0..begun, lists : 0..begun]]
ExtensionTyped ==
    /\ holders \in Seq(People) /\ storedToken \in 0..Len(holders)
    /\ savedTeam \in NoOrTeam /\ begun \in Nat
    /\ tasks \in [Commands -> TaskRecords]
    /\ \A t \in Commands :
          /\ tasks[t].no <= begun
          /\ \A c \in Pair : tasks[t].calls[c].token <= Len(holders)
          /\ tasks[t].at = "pick" => tasks[t].offered \in People
          /\ tasks[t].at \notin Waiting => \A c \in Pair : tasks[t].calls[c].at = "done"

InRefresh(t) == tasks[t].at \in {"token", "who", "lists"}
Calling(t) == tasks[t].at \in {"who", "lists"}
Newest(t) == tasks[t].no = begun
\* A command that changed what the refreshes read has yet to begin its own.
Due == \E t \in Commands : tasks[t].at \in {"forget", "begin"}

\* An answer was given for a token.
AnswersHaveTokens ==
    \A t \in Commands, c \in Pair :
        Calling(t) /\ tasks[t].calls[c].at = "done" => tasks[t].calls[c].token # 0

\* Refreshes are told apart by their numbers, and have not written what comes after their step.
NumbersTell ==
    \A t \in Commands : InRefresh(t) =>
        /\ \A u \in Commands : InRefresh(u) /\ u # t => tasks[u].no # tasks[t].no
        /\ workspace.by.lists # tasks[t].no
        /\ tasks[t].at # "lists" => workspace.by.who # tasks[t].no

LoadingEnds == workspace.loading => \E t \in Commands : InRefresh(t)

\* The newest refresh has called with the stored token, unless that was changed and is due to be
\* seen, or was deleted; and it is signed in.
NewestCalls ==
    ~Due /\ storedToken # 0 =>
        \A t \in Commands : Calling(t) /\ Newest(t) =>
            /\ workspace.signedIn
            /\ \A c \in Pair : tasks[t].calls[c].token \in {0, storedToken}

\* What the newest refresh wrote last is so.
NewestKnows ==
    ~Due /\ storedToken # 0 /\ workspace.by.who = begun =>
        /\ workspace.signedIn
        /\ workspace.user = holders[storedToken] /\ workspace.teams = holders[storedToken]
        /\ workspace.selected # NoTeam => workspace.selected = savedTeam

\* The lists asked for are those of the organization selected, if the refresh was the last to select.
ListsOfSelected ==
    /\ \A t \in Commands : tasks[t].at = "lists" /\ workspace.by.who = tasks[t].no =>
           tasks[t].chosen = workspace.selected
    /\ workspace.by.who = workspace.by.lists =>
           workspace.projects = workspace.selected /\ workspace.deployments = workspace.selected

ExtensionInv ==
    /\ WorkspaceTyped /\ ExtensionTyped /\ AnswersHaveTokens /\ NumbersTell /\ LoadingEnds
    /\ NewestCalls /\ NewestKnows /\ ListsOfSelected

\* A step of a command replaces its own record.
LEMMA TaskReplaced ==
    ASSUME ExtensionTyped, NEW t \in Commands, NEW x \in TaskRecords, tasks' = [tasks EXCEPT ![t] = x]
    PROVE  /\ tasks' \in [Commands -> TaskRecords] /\ tasks'[t] = x
           /\ \A u \in Commands \ {t} : tasks'[u] = tasks[u]
BY DEF ExtensionTyped

LEMMA TeamsOfPeople ==
    ASSUME NEW p \in People
    PROVE  /\ \A i \in DOMAIN TeamsOf[p] : TeamsOf[p][i] \in Teams
           /\ TeamsOf[p] # <<>> => ChosenTeam(p) \in Teams
<1>1. TeamsOf[p] \in Seq(Teams)
  BY ExtensionAssumption
<1>2. \A i \in DOMAIN TeamsOf[p] : TeamsOf[p][i] \in Teams
  BY <1>1
<1>3. TeamsOf[p] # <<>> => 1 \in DOMAIN TeamsOf[p]
  BY <1>1
<1>. QED BY <1>2, <1>3 DEF ChosenTeam

\* The records that the steps write.
LEMMA TaskWritten ==
    ASSUME ExtensionTyped, NEW t \in Commands
    PROVE  /\ NoTask \in TaskRecords /\ tasks[t] \in TaskRecords
           /\ NoCalls \in [Pair -> CallRecords] /\ BothCalls \in [Pair -> CallRecords]
           /\ OneCall \in [Pair -> CallRecords]
           /\ \A c \in Pair : BothCalls[c] = ToMake /\ NoCalls[c] = NotMade /\ OneCall[c].token = 0
           /\ \A c \in Pair, call \in CallRecords :
                 LET made == [tasks[t].calls EXCEPT ![c] = call] IN
                 /\ made \in [Pair -> CallRecords] /\ made[c] = call
                 /\ \A d \in Pair \ {c} : made[d] = tasks[t].calls[d]
<1>1. /\ NoCalls \in [Pair -> CallRecords] /\ BothCalls \in [Pair -> CallRecords]
      /\ OneCall \in [Pair -> CallRecords]
  BY DEF NoCalls, BothCalls, OneCall, NotMade, ToMake, CallRecords, Pair
<1>2. NoTask \in TaskRecords /\ tasks[t] \in TaskRecords
  BY <1>1 DEF NoTask, TaskRecords, ExtensionTyped, NoOrPerson, NoOrTeam
<1>3. \A c \in Pair : BothCalls[c] = ToMake /\ NoCalls[c] = NotMade /\ OneCall[c].token = 0
  BY DEF NoCalls, BothCalls, OneCall, NotMade, ToMake, Pair
<1>4. tasks[t].calls \in [Pair -> CallRecords]
  BY <1>2 DEF TaskRecords
<1>. QED BY <1>1, <1>2, <1>3, <1>4

\* A step of a command that is not refreshing, before or after it: it does not touch the model, and if
\* it changes what refreshes read, the command is due to refresh.
Quiet(t, x) ==
    /\ x \in TaskRecords /\ tasks' = [tasks EXCEPT ![t] = x]
    /\ ~InRefresh(t) /\ x.at \notin {"token", "who", "lists"} /\ x.no <= begun
    /\ \A c \in Pair : x.calls[c].token <= Len(holders')
    /\ x.at = "pick" => x.offered \in People
    /\ x.at \notin Waiting => \A c \in Pair : x.calls[c].at = "done"
    /\ holders' \in Seq(People) /\ Len(holders) <= Len(holders')
    /\ storedToken' \in 0..Len(holders') /\ savedTeam' \in NoOrTeam
    /\ UNCHANGED <<workspace, begun>>
    /\ \/ x.at \in {"forget", "begin"}
       \/ /\ tasks[t].at \notin {"forget", "begin"}
          /\ UNCHANGED <<holders, savedTeam>> /\ storedToken' \in {0, storedToken}

LEMMA QuietStep ==
    ASSUME ExtensionInv, NEW t \in Commands, NEW x, Quiet(t, x)
    PROVE  ExtensionInv'
<1>. USE DEF ExtensionInv, Quiet
<1>1. /\ tasks' \in [Commands -> TaskRecords] /\ tasks'[t] = x
      /\ \A u \in Commands \ {t} : tasks'[u] = tasks[u]
  BY TaskReplaced
<1>2. \A u \in Commands : tasks'[u].at \in {"token", "who", "lists"} => u # t /\ tasks'[u] = tasks[u]
  BY <1>1
<1>3. Due' \/ (~Due /\ UNCHANGED <<holders, savedTeam>> /\ storedToken' \in {0, storedToken})
  BY <1>1 DEF Due
<1>4. WorkspaceTyped'
  BY DEF WorkspaceTyped
<1>5. ExtensionTyped'
  <2>1. \A u \in Commands : /\ tasks'[u].no <= begun
                            /\ \A c \in Pair : tasks'[u].calls[c].token <= Len(holders')
                            /\ tasks'[u].at = "pick" => tasks'[u].offered \in People
                            /\ tasks'[u].at \notin Waiting => \A c \in Pair : tasks'[u].calls[c].at = "done"
    <3>1. \A u \in Commands, c \in Pair : tasks[u].calls[c].token \in Nat /\ Len(holders) \in Nat
      BY DEF ExtensionTyped, TaskRecords, CallRecords
    <3>2. Len(holders') \in Nat
      OBVIOUS
    <3>. QED BY <1>1, <3>1, <3>2 DEF ExtensionTyped
  <2>. QED BY <1>1, <2>1 DEF ExtensionTyped
<1>6. AnswersHaveTokens'
  BY <1>1, <1>2 DEF AnswersHaveTokens, Calling
<1>7. NumbersTell'
  BY <1>2 DEF NumbersTell, InRefresh
<1>8. LoadingEnds'
  BY <1>1 DEF LoadingEnds, InRefresh
<1>9. NewestCalls'
  BY <1>2, <1>3 DEF NewestCalls, Calling, Newest
<1>10. NewestKnows'
  BY <1>3 DEF NewestKnows
<1>11. ListsOfSelected'
  BY <1>2 DEF ListsOfSelected
<1>. QED BY <1>4, <1>5, <1>6, <1>7, <1>8, <1>9, <1>10, <1>11

\* Commands until they refresh.
LEMMA CommandsAreQuiet ==
    ASSUME ExtensionInv, NEW t \in Commands,
           \/ \E p \in People : SignIn(t, p)
           \/ SignOut(t) \/ ForgetTeam(t) \/ OfferTeams(t) \/ PickTeam(t) \/ AskServer(t)
    PROVE  ExtensionInv'
<1>0. /\ ExtensionTyped /\ WorkspaceTyped /\ tasks \in [Commands -> TaskRecords]
      /\ tasks[t] \in TaskRecords /\ tasks[t].no <= begun /\ storedToken \in 0..Len(holders)
      /\ holders \in Seq(People) /\ savedTeam \in NoOrTeam
      /\ \A c \in Pair : tasks[t].calls[c].token <= Len(holders) /\ tasks[t].calls[c].token \in Nat
      /\ tasks[t].at \notin Waiting => \A c \in Pair : tasks[t].calls[c].at = "done"
  BY DEF ExtensionInv, ExtensionTyped, TaskRecords, CallRecords
<1>1. CASE \E p \in People : SignIn(t, p)
  <2>. PICK p \in People : SignIn(t, p)
    BY <1>1
  <2>. DEFINE x == [tasks[t] EXCEPT !.at = "begin"]
  <2>1. /\ x \in TaskRecords /\ x.at = "begin" /\ x.no = tasks[t].no /\ x.calls = tasks[t].calls
        /\ tasks' = [tasks EXCEPT ![t] = x] /\ ~InRefresh(t) /\ tasks[t].at \notin Waiting
    BY <1>0 DEF TaskRecords, SignIn, TaskGo, TaskFree, InRefresh, Waiting
  <2>2. /\ holders' \in Seq(People) /\ Len(holders') = Len(holders) + 1 /\ storedToken' \in 0..Len(holders')
        /\ Len(holders) \in Nat
    BY <1>0 DEF SignIn
  <2>3. \A c \in Pair : x.calls[c].token <= Len(holders')
    BY <1>0, <2>1, <2>2
  <2>4. UNCHANGED <<workspace, begun, savedTeam>>
    BY DEF SignIn
  <2>. HIDE DEF x
  <2>9. Quiet(t, x)
    BY <1>0, <2>1, <2>2, <2>3, <2>4 DEF Quiet, Waiting
  <2>. QED BY <2>9, QuietStep
<1>2. CASE SignOut(t)
  <2>. DEFINE x == [tasks[t] EXCEPT !.at = "forget"]
  <2>1. /\ x \in TaskRecords /\ x.at = "forget" /\ x.no = tasks[t].no /\ x.calls = tasks[t].calls
        /\ tasks' = [tasks EXCEPT ![t] = x] /\ ~InRefresh(t) /\ tasks[t].at \notin Waiting
    BY <1>0, <1>2 DEF TaskRecords, SignOut, TaskGo, TaskFree, InRefresh, Waiting
  <2>2. UNCHANGED <<workspace, begun, savedTeam, holders>> /\ storedToken' \in 0..Len(holders) /\ Len(holders) \in Nat
    BY <1>0, <1>2 DEF SignOut
  <2>. HIDE DEF x
  <2>9. Quiet(t, x)
    BY <1>0, <2>1, <2>2 DEF Quiet, Waiting
  <2>. QED BY <2>9, QuietStep
<1>3. CASE ForgetTeam(t)
  <2>. DEFINE x == [tasks[t] EXCEPT !.at = "begin"]
  <2>1. /\ x \in TaskRecords /\ x.at = "begin" /\ x.no = tasks[t].no /\ x.calls = tasks[t].calls
        /\ tasks' = [tasks EXCEPT ![t] = x] /\ ~InRefresh(t) /\ tasks[t].at \notin Waiting
    BY <1>0, <1>3 DEF TaskRecords, ForgetTeam, TaskGo, InRefresh, Waiting
  <2>2. UNCHANGED <<workspace, begun, storedToken, holders>> /\ savedTeam' \in NoOrTeam /\ Len(holders) \in Nat
    BY <1>0, <1>3 DEF ForgetTeam, NoOrTeam
  <2>. HIDE DEF x
  <2>9. Quiet(t, x)
    BY <1>0, <2>1, <2>2 DEF Quiet, Waiting
  <2>. QED BY <2>9, QuietStep
<1>4. CASE OfferTeams(t)
  <2>. DEFINE x == [tasks[t] EXCEPT !.at = "pick", !.offered = workspace.teams]
  <2>0. workspace.teams \in NoOrPerson /\ workspace.teams \in People
    BY <1>0, <1>4 DEF OfferTeams, WorkspaceTyped, NoOrPerson
  <2>1. /\ x \in TaskRecords /\ x.at = "pick" /\ x.no = tasks[t].no /\ x.calls = tasks[t].calls
        /\ x.offered \in People /\ tasks' = [tasks EXCEPT ![t] = x] /\ ~InRefresh(t)
        /\ tasks[t].at \notin Waiting
        /\ tasks[t].at \notin {"forget", "begin"}
    BY <1>0, <1>4, <2>0 DEF TaskRecords, OfferTeams, TaskFree, InRefresh, Waiting
  <2>2. UNCHANGED <<workspace, begun, storedToken, holders, savedTeam>> /\ Len(holders) \in Nat
    BY <1>0, <1>4 DEF OfferTeams
  <2>. HIDE DEF x
  <2>9. Quiet(t, x)
    BY <1>0, <2>1, <2>2 DEF Quiet, Waiting
  <2>. QED BY <2>9, QuietStep
<1>5. CASE PickTeam(t)
  <2>. DEFINE x == [tasks[t] EXCEPT !.at = "begin", !.offered = NoPerson]
  <2>1. /\ x \in TaskRecords /\ x.at = "begin" /\ x.no = tasks[t].no /\ x.calls = tasks[t].calls
        /\ tasks' = [tasks EXCEPT ![t] = x] /\ ~InRefresh(t) /\ tasks[t].at \notin Waiting
    BY <1>0, <1>5 DEF TaskRecords, PickTeam, InRefresh, NoOrPerson, Waiting
  <2>2. savedTeam' \in NoOrTeam
    <3>1. tasks[t].offered \in People
      BY <1>5 DEF PickTeam, ExtensionInv, ExtensionTyped
    <3>2. PICK i \in DOMAIN TeamsOf[tasks[t].offered] : savedTeam' = TeamsOf[tasks[t].offered][i]
      BY <1>5 DEF PickTeam
    <3>. QED BY <3>1, <3>2, TeamsOfPeople DEF NoOrTeam
  <2>3. UNCHANGED <<workspace, begun, storedToken, holders>> /\ Len(holders) \in Nat
    BY <1>0, <1>5 DEF PickTeam
  <2>. HIDE DEF x
  <2>9. Quiet(t, x)
    BY <1>0, <2>1, <2>2, <2>3 DEF Quiet, Waiting
  <2>. QED BY <2>9, QuietStep
<1>6. CASE AskServer(t)
  <2>. DEFINE x == [tasks[t] EXCEPT !.at = "command", !.calls = OneCall]
              y == [tasks[t] EXCEPT !.at = "begin"]
  <2>1. /\ x \in TaskRecords /\ x.at = "command" /\ x.no = tasks[t].no
        /\ \A c \in Pair : x.calls[c].token = 0
        /\ ~InRefresh(t) /\ tasks[t].at \notin {"forget", "begin"} /\ tasks[t].at \notin Waiting
    BY <1>0, <1>6, TaskWritten DEF TaskRecords, AskServer, TaskFree, InRefresh, Waiting
  <2>2. y \in TaskRecords /\ y.at = "begin" /\ y.no = tasks[t].no /\ y.calls = tasks[t].calls
    BY <1>0 DEF TaskRecords
  <2>3. UNCHANGED <<workspace, begun, storedToken, holders, savedTeam>> /\ Len(holders) \in Nat
    BY <1>0, <1>6 DEF AskServer
  <2>4. tasks' = [tasks EXCEPT ![t] = x] \/ tasks' = [tasks EXCEPT ![t] = y]
    BY <1>0, <1>6 DEF AskServer, TaskGo
  <2>. HIDE DEF x, y
  <2>5. CASE tasks' = [tasks EXCEPT ![t] = x]
    <3>1. Quiet(t, x)
      BY <1>0, <2>1, <2>3, <2>5 DEF Quiet, Waiting
    <3>. QED BY <3>1, QuietStep
  <2>6. CASE tasks' = [tasks EXCEPT ![t] = y]
    <3>1. Quiet(t, y)
      BY <1>0, <2>1, <2>2, <2>3, <2>6 DEF Quiet, Waiting
    <3>. QED BY <3>1, QuietStep
  <2>. QED BY <2>4, <2>5, <2>6
<1>. QED BY <1>1, <1>2, <1>3, <1>4, <1>5, <1>6

\* A refresh begins: it is the newest now, and has not written anything but that it loads.
LEMMA RefreshBegins ==
    ASSUME ExtensionInv, NEW t \in Commands, BeginRefresh(t)
    PROVE  ExtensionInv'
<1>. DEFINE x == [tasks[t] EXCEPT !.at = "token", !.no = begun + 1]
<1>0. /\ ExtensionTyped /\ WorkspaceTyped /\ begun \in Nat
      /\ tasks \in [Commands -> TaskRecords] /\ tasks[t] \in TaskRecords
      /\ begun' = begun + 1 /\ UNCHANGED <<storedToken, holders, savedTeam>>
      /\ tasks[t].at = "begin"
  BY DEF ExtensionInv, ExtensionTyped, BeginRefresh
<1>1. /\ x \in TaskRecords /\ x.at = "token" /\ x.no = begun' /\ x.calls = tasks[t].calls
      /\ tasks' = [tasks EXCEPT ![t] = x]
  <2>0. tasks[t] \in TaskRecords /\ begun + 1 \in Nat
    BY <1>0
  <2>1. /\ x \in TaskRecords /\ x.at = "token" /\ x.no = begun + 1 /\ x.calls = tasks[t].calls
    BY <2>0 DEF TaskRecords
  <2>2. tasks' = [tasks EXCEPT ![t] = x]
    BY <1>0 DEF BeginRefresh
  <2>. QED BY <1>0, <2>1, <2>2
<1>. HIDE DEF x
<1>2. /\ tasks' \in [Commands -> TaskRecords] /\ tasks'[t] = x
      /\ \A u \in Commands \ {t} : tasks'[u] = tasks[u]
  BY <1>0, <1>1, TaskReplaced
<1>3. /\ workspace' = [workspace EXCEPT !.loading = TRUE, !.error = FALSE]
      /\ workspace'.by = workspace.by /\ workspace.by.who \in 0..begun /\ workspace.by.lists \in 0..begun
      /\ workspace'.selected = workspace.selected /\ workspace'.projects = workspace.projects
      /\ workspace'.deployments = workspace.deployments
  <2>1. workspace' = [workspace EXCEPT !.loading = TRUE, !.error = FALSE]
    BY DEF BeginRefresh
  <2>2. workspace.by \in [who : 0..begun, lists : 0..begun]
    BY <1>0 DEF WorkspaceTyped
  <2>3. workspace.by.who \in 0..begun /\ workspace.by.lists \in 0..begun
    BY <2>2
  <2>4. /\ workspace'.by = workspace.by
        /\ workspace'.selected = workspace.selected /\ workspace'.projects = workspace.projects
        /\ workspace'.deployments = workspace.deployments
    BY <1>0, <2>1 DEF WorkspaceTyped
  <2>. QED BY <2>1, <2>3, <2>4
<1>4. WorkspaceTyped'
  <2>1. workspace.by \in [who : 0..begun', lists : 0..begun']
    BY <1>0 DEF WorkspaceTyped
  <2>. QED BY <1>0, <1>3, <2>1 DEF WorkspaceTyped
<1>5. ExtensionTyped'
  <2>1. \A u \in Commands : /\ tasks'[u].no <= begun'
                            /\ \A c \in Pair : tasks'[u].calls[c].token <= Len(holders')
                            /\ tasks'[u].at = "pick" => tasks'[u].offered \in People
                            /\ tasks'[u].at \notin Waiting => \A c \in Pair : tasks'[u].calls[c].at = "done"
    BY <1>0, <1>1, <1>2 DEF ExtensionTyped, TaskRecords, Waiting
  <2>. QED BY <1>0, <1>2, <2>1 DEF ExtensionTyped
<1>6. AnswersHaveTokens'
  BY <1>1, <1>2 DEF ExtensionInv, AnswersHaveTokens, Calling
<1>7. \A u \in Commands \ {t} : tasks'[u].no <= begun /\ tasks'[u].no \in Nat
  BY <1>0, <1>2 DEF ExtensionTyped, TaskRecords
<1>8. NumbersTell'
  BY <1>0, <1>1, <1>2, <1>3, <1>7 DEF ExtensionInv, NumbersTell, InRefresh
<1>9. LoadingEnds'
  BY <1>1, <1>2 DEF LoadingEnds, InRefresh
<1>10. NewestCalls' /\ NewestKnows'
  <2>1. \A u \in Commands : Calling(u)' => ~Newest(u)'
    BY <1>0, <1>1, <1>2, <1>7 DEF Calling, Newest
  <2>2. workspace'.by.who # begun'
    BY <1>0, <1>3
  <2>. QED BY <2>1, <2>2 DEF NewestCalls, NewestKnows
<1>11. ListsOfSelected'
  BY <1>1, <1>2, <1>3 DEF ExtensionInv, ListsOfSelected
<1>. QED BY <1>4, <1>5, <1>6, <1>8, <1>9, <1>10, <1>11 DEF ExtensionInv

\* What holds when a refresh, or a command, looks at its own record.
LEMMA AtWork ==
    ASSUME ExtensionInv, NEW t \in Commands
    PROVE  /\ tasks \in [Commands -> TaskRecords] /\ tasks[t] \in TaskRecords
           /\ tasks[t].no \in 0..begun /\ begun \in Nat /\ tasks[t].chosen \in NoOrTeam
           /\ tasks[t].calls \in [Pair -> CallRecords]
           /\ \A c \in Pair : tasks[t].calls[c].token \in 0..Len(holders) /\ tasks[t].calls[c].token \in Nat
           /\ holders \in Seq(People) /\ Len(holders) \in Nat /\ storedToken \in 0..Len(holders)
           /\ workspace.by \in [who : 0..begun, lists : 0..begun]
<1>1. /\ tasks \in [Commands -> TaskRecords] /\ tasks[t] \in TaskRecords
      /\ begun \in Nat /\ tasks[t].no <= begun /\ holders \in Seq(People) /\ storedToken \in 0..Len(holders)
      /\ \A c \in Pair : tasks[t].calls[c].token <= Len(holders)
  BY DEF ExtensionInv, ExtensionTyped
<1>2. /\ tasks[t].no \in Nat /\ tasks[t].chosen \in NoOrTeam /\ tasks[t].calls \in [Pair -> CallRecords]
      /\ \A c \in Pair : tasks[t].calls[c].token \in Nat
  BY <1>1 DEF TaskRecords, CallRecords
<1>3. workspace.by \in [who : 0..begun, lists : 0..begun]
  BY DEF ExtensionInv, WorkspaceTyped
<1>. QED BY <1>1, <1>2, <1>3

\* A refresh that found no token empties the model.
LEMMA ModelEmptied ==
    ASSUME ExtensionInv, NEW t \in Commands, TokenRead(t), storedToken = 0
    PROVE  ExtensionInv'
<1>1. /\ workspace' = SignedOut(t) /\ tasks' = [tasks EXCEPT ![t] = NoTask] /\ tasks[t].at = "token"
      /\ UNCHANGED <<storedToken, holders, savedTeam, begun>>
  BY DEF TokenRead
<1>2. /\ tasks' \in [Commands -> TaskRecords] /\ tasks'[t] = NoTask
      /\ \A u \in Commands \ {t} : tasks'[u] = tasks[u]
  BY <1>1, TaskWritten, TaskReplaced DEF ExtensionInv
<1>3. /\ NoTask.at = "idle" /\ NoTask.no = 0 /\ NoTask.calls = NoCalls
      /\ \A c \in Pair : NoCalls[c].at = "done" /\ NoCalls[c].token = 0
  BY DEF NoTask, NoCalls, NotMade
<1>4. WorkspaceTyped'
  <2>1. workspace.error \in BOOLEAN
    BY DEF ExtensionInv, WorkspaceTyped
  <2>. QED BY <1>1, <2>1, AtWork DEF WorkspaceTyped, SignedOut, NewModel, Wrote, NoOrPerson, NoOrTeam
<1>5. /\ workspace'.by = Wrote(t) /\ ~workspace'.loading
      /\ workspace'.selected = NoTeam /\ workspace'.projects = NoTeam /\ workspace'.deployments = NoTeam
  BY <1>1 DEF SignedOut, NewModel, Wrote
<1>6. ExtensionTyped'
  BY <1>1, <1>2, <1>3, AtWork DEF ExtensionInv, ExtensionTyped
<1>7. AnswersHaveTokens'
  BY <1>2, <1>3 DEF ExtensionInv, AnswersHaveTokens, Calling
<1>8. NumbersTell'
  BY <1>1, <1>2, <1>3, <1>5 DEF ExtensionInv, NumbersTell, InRefresh, Wrote
<1>9. LoadingEnds' /\ NewestCalls' /\ NewestKnows'
  BY <1>1, <1>5 DEF LoadingEnds, NewestCalls, NewestKnows
<1>10. ListsOfSelected'
  BY <1>1, <1>2, <1>3, <1>5 DEF ExtensionInv, ListsOfSelected, NumbersTell, InRefresh, Wrote
<1>. QED BY <1>4, <1>6, <1>7, <1>8, <1>9, <1>10 DEF ExtensionInv

\* A refresh that found a token goes on.
LEMMA RefreshGoesOn ==
    ASSUME ExtensionInv, NEW t \in Commands, TokenRead(t), storedToken # 0
    PROVE  ExtensionInv'
<1>. DEFINE x == [tasks[t] EXCEPT !.at = "who", !.calls = BothCalls]
<1>0. /\ ExtensionTyped /\ WorkspaceTyped /\ tasks[t].at = "token"
      /\ UNCHANGED <<storedToken, holders, savedTeam, begun>>
      /\ workspace' = [workspace EXCEPT !.signedIn = TRUE]
  BY DEF ExtensionInv, TokenRead
<1>1. /\ x \in TaskRecords /\ x.at = "who" /\ x.no = tasks[t].no /\ x.calls = BothCalls
      /\ x.offered = tasks[t].offered /\ tasks' = [tasks EXCEPT ![t] = x]
  <2>0. tasks \in [Commands -> TaskRecords] /\ tasks[t] \in TaskRecords /\ BothCalls \in [Pair -> CallRecords]
    BY AtWork, TaskWritten, <1>0
  <2>1. /\ x \in TaskRecords /\ x.at = "who" /\ x.no = tasks[t].no /\ x.calls = BothCalls
        /\ x.offered = tasks[t].offered
    BY <2>0 DEF TaskRecords
  <2>2. tasks' = [tasks EXCEPT ![t] = x]
    BY <2>0 DEF TokenRead
  <2>. QED BY <2>1, <2>2
<1>. HIDE DEF x
<1>2. /\ tasks' \in [Commands -> TaskRecords] /\ tasks'[t] = x
      /\ \A u \in Commands \ {t} : tasks'[u] = tasks[u]
  BY <1>0, <1>1, TaskReplaced
<1>3. \A c \in Pair : x.calls[c].at = "send" /\ x.calls[c].token = 0
  BY <1>0, <1>1, TaskWritten DEF ToMake
<1>4. /\ workspace'.signedIn /\ workspace'.by = workspace.by /\ workspace'.loading = workspace.loading
      /\ workspace'.user = workspace.user /\ workspace'.teams = workspace.teams
      /\ workspace'.selected = workspace.selected /\ workspace'.projects = workspace.projects
      /\ workspace'.deployments = workspace.deployments
  BY <1>0 DEF WorkspaceTyped
<1>5. WorkspaceTyped'
  BY <1>0 DEF WorkspaceTyped
<1>6. ExtensionTyped'
  BY <1>0, <1>1, <1>2, <1>3, AtWork DEF ExtensionTyped, Waiting
<1>7. AnswersHaveTokens'
  BY <1>2, <1>3 DEF ExtensionInv, AnswersHaveTokens, Calling
<1>8. NumbersTell'
  BY <1>0, <1>1, <1>2, <1>4 DEF ExtensionInv, NumbersTell, InRefresh
<1>9. LoadingEnds'
  BY <1>1, <1>2 DEF LoadingEnds, InRefresh
<1>10. Due => Due'
  BY <1>0, <1>1, <1>2 DEF Due
<1>11. NewestCalls'
  BY <1>0, <1>2, <1>3, <1>4, <1>10 DEF ExtensionInv, NewestCalls, Calling, Newest
<1>12. NewestKnows'
  BY <1>0, <1>4, <1>10 DEF ExtensionInv, NewestKnows
<1>13. ListsOfSelected'
  BY <1>1, <1>2, <1>4 DEF ExtensionInv, ListsOfSelected
<1>. QED BY <1>5, <1>6, <1>7, <1>8, <1>9, <1>11, <1>12, <1>13 DEF ExtensionInv

\* A call is sent with the stored token, or is answered and not waited for.
LEMMA CallReplaced ==
    ASSUME ExtensionInv, NEW t \in Commands, NEW c \in Pair, NEW call \in CallRecords,
           tasks[t].at \in Waiting, tasks' = [tasks EXCEPT ![t].calls[c] = call],
           UNCHANGED <<storedToken, holders, savedTeam, workspace, begun>>,
           call.token \in {storedToken, tasks[t].calls[c].token},
           call.at = "done" => call.token # 0
    PROVE  ExtensionInv'
<1>. DEFINE made == [tasks[t].calls EXCEPT ![c] = call]
            x == [tasks[t] EXCEPT !.calls = made]
<1>0. ExtensionTyped
  BY DEF ExtensionInv
<1>1. /\ made \in [Pair -> CallRecords] /\ made[c] = call
      /\ \A d \in Pair \ {c} : made[d] = tasks[t].calls[d]
  BY <1>0, TaskWritten
<1>. HIDE DEF made
<1>2. /\ x \in TaskRecords /\ x.at = tasks[t].at /\ x.no = tasks[t].no /\ x.calls = made
      /\ x.offered = tasks[t].offered /\ x.chosen = tasks[t].chosen
  BY <1>1, AtWork DEF TaskRecords
<1>3. tasks' = [tasks EXCEPT ![t] = x]
  BY AtWork DEF made
<1>. HIDE DEF x
<1>4. /\ tasks' \in [Commands -> TaskRecords] /\ tasks'[t] = x
      /\ \A u \in Commands \ {t} : tasks'[u] = tasks[u]
  BY <1>0, <1>2, <1>3, TaskReplaced
<1>5. \A d \in Pair : x.calls[d] = call \/ x.calls[d] = tasks[t].calls[d]
  BY <1>1, <1>2
<1>6. WorkspaceTyped'
  BY DEF ExtensionInv, WorkspaceTyped
<1>7. ExtensionTyped'
  <2>1. call.token <= Len(holders)
    BY AtWork
  <2>2. \A u \in Commands : /\ tasks'[u].no <= begun
                            /\ \A d \in Pair : tasks'[u].calls[d].token <= Len(holders)
                            /\ tasks'[u].at = "pick" => tasks'[u].offered \in People
                            /\ tasks'[u].at \notin Waiting => \A d \in Pair : tasks'[u].calls[d].at = "done"
    BY <1>0, <1>2, <1>4, <1>5, <2>1 DEF ExtensionTyped
  <2>. QED BY <1>0, <1>4, <2>2 DEF ExtensionTyped
<1>8. AnswersHaveTokens'
  BY <1>2, <1>4, <1>5 DEF ExtensionInv, AnswersHaveTokens, Calling
<1>9. NumbersTell' /\ LoadingEnds'
  BY <1>2, <1>4 DEF ExtensionInv, NumbersTell, LoadingEnds, InRefresh
<1>10. Due => Due'
  BY <1>2, <1>4 DEF Due
<1>11. NewestCalls'
  BY <1>2, <1>4, <1>5, <1>10 DEF ExtensionInv, NewestCalls, Calling, Newest
<1>12. NewestKnows' /\ ListsOfSelected'
  BY <1>2, <1>4, <1>10 DEF ExtensionInv, NewestKnows, ListsOfSelected
<1>. QED BY <1>6, <1>7, <1>8, <1>9, <1>11, <1>12 DEF ExtensionInv

LEMMA CallIsSent ==
    ASSUME ExtensionInv, NEW t \in Commands, NEW c \in Pair, SendCall(t, c)
    PROVE  ExtensionInv'
<1>. DEFINE call == [at |-> "sent", token |-> storedToken]
<1>1. call \in CallRecords
  BY AtWork DEF CallRecords
<1>2. tasks[t].at \in Waiting
  BY DEF ExtensionInv, ExtensionTyped, SendCall
<1>. QED BY <1>1, <1>2, CallReplaced DEF SendCall

\* A call that is answered has a token, and someone it was issued to.
LEMMA AnswerHasToken ==
    ASSUME ExtensionInv, NEW t \in Commands, NEW c \in Pair, CallAnswered(t, c)
    PROVE  /\ tasks[t].calls[c].token # 0 /\ tasks[t].at \in Waiting
           /\ Calling(t) /\ Last(t, c) =>
                 \A d \in Pair : tasks[t].calls[d].token # 0 /\ Holder(t, d) \in People
<1>1. tasks[t].calls[c].token # 0 /\ tasks[t].at \in Waiting
  BY DEF CallAnswered, Refused, Sent, ExtensionInv, ExtensionTyped
<1>2. ASSUME Calling(t), Last(t, c), NEW d \in Pair
      PROVE  tasks[t].calls[d].token # 0 /\ Holder(t, d) \in People
  <2>1. tasks[t].calls[Other(c)].token # 0
    BY <1>2 DEF ExtensionInv, AnswersHaveTokens, Last, Other, Pair
  <2>2. d = c \/ d = Other(c)
    BY DEF Pair, Other
  <2>3. tasks[t].calls[d].token # 0
    BY <1>1, <2>1, <2>2
  <2>. QED BY <2>3, AtWork DEF Holder
<1>. QED BY <1>1, <1>2

\* The last answer to a command, or a call that failed outside of a refresh.
LEMMA CommandEnds ==
    ASSUME ExtensionInv, NEW t \in Commands, tasks[t].at \in {"command", "stray"},
           NEW x \in {NoTask, [NoTask EXCEPT !.at = "begin"]}, tasks' = [tasks EXCEPT ![t] = x],
           UNCHANGED <<holders, savedTeam, workspace, begun>>, storedToken' \in {0, storedToken}
    PROVE  ExtensionInv'
<1>1. /\ x \in TaskRecords /\ x.at \in {"idle", "begin"} /\ x.no = 0 /\ x.calls = NoCalls
  BY TaskWritten DEF ExtensionInv, NoTask, TaskRecords
<1>2. \A c \in Pair : NoCalls[c].at = "done" /\ NoCalls[c].token = 0
  BY DEF NoCalls, NotMade
<1>3. savedTeam' \in NoOrTeam
  BY DEF ExtensionInv, ExtensionTyped
<1>4. Quiet(t, x)
  BY <1>1, <1>2, <1>3, AtWork DEF Quiet, InRefresh, Waiting
<1>. QED BY <1>4, QuietStep

\* Outside of refreshes, or when the other call is not answered yet
LEMMA AnswerNotWaitedFor ==
    ASSUME ExtensionInv, NEW t \in Commands, NEW c \in Pair, CallAnswered(t, c),
           ~Last(t, c) \/ tasks[t].at \in {"command", "stray"}
    PROVE  ExtensionInv'
<1>. DEFINE call == [tasks[t].calls[c] EXCEPT !.at = "done"]
<1>0. UNCHANGED <<storedToken, holders, begun>>
  BY DEF CallAnswered
<1>1. CASE tasks' = [tasks EXCEPT ![t].calls[c].at = "done"] /\ UNCHANGED <<workspace, savedTeam>>
  <2>1. tasks[t].calls[c] \in CallRecords
    BY AtWork
  <2>2. call \in CallRecords /\ call.token = tasks[t].calls[c].token
    BY <2>1 DEF CallRecords
  <2>3. tasks' = [tasks EXCEPT ![t].calls[c] = call]
    BY <1>1, AtWork
  <2>. HIDE DEF call
  <2>. QED BY <1>0, <1>1, <2>2, <2>3, AnswerHasToken, CallReplaced
<1>2. CASE /\ tasks[t].at \in {"command", "stray"} /\ UNCHANGED <<workspace, savedTeam>>
           /\ \E next \in {NoTask, [NoTask EXCEPT !.at = "begin"]} : tasks' = [tasks EXCEPT ![t] = next]
  BY <1>0, <1>2, CommandEnds
<1>. QED BY <1>1, <1>2 DEF CallAnswered

\* The account and its organizations are known, and there are none.
LEMMA WhoHasNoTeam ==
    ASSUME ExtensionInv, NEW t \in Commands, NEW c \in Pair, CallAnswered(t, c),
           Last(t, c), tasks[t].at = "who", WhoKnown(t), TeamsOf[Holder(t, "second")] = <<>>
    PROVE  ExtensionInv'
<1>. DEFINE first == Holder(t, "first")
            second == Holder(t, "second")
<1>0. /\ UNCHANGED <<storedToken, holders, begun, savedTeam>> /\ tasks' = [tasks EXCEPT ![t] = NoTask]
      /\ workspace' = [workspace EXCEPT !.user = first, !.teams = second, !.by = Wrote(t), !.loading = FALSE,
                                        !.selected = NoTeam, !.projects = NoTeam, !.deployments = NoTeam]
  BY DEF CallAnswered, WhoKnown, ExtensionInv, WorkspaceTyped
<1>1. /\ tasks' \in [Commands -> TaskRecords] /\ tasks'[t] = NoTask
      /\ \A u \in Commands \ {t} : tasks'[u] = tasks[u]
  BY <1>0, TaskWritten, TaskReplaced DEF ExtensionInv
<1>2. /\ NoTask.at = "idle" /\ NoTask.no = 0 /\ NoTask.calls = NoCalls
      /\ \A d \in Pair : NoCalls[d].at = "done" /\ NoCalls[d].token = 0
  BY DEF NoTask, NoCalls, NotMade
<1>3. /\ \A d \in Pair : tasks[t].calls[d].token # 0 /\ Holder(t, d) \in People
      /\ first \in People /\ second \in People
  BY AnswerHasToken DEF Calling, Pair
<1>4. /\ workspace'.by = Wrote(t) /\ ~workspace'.loading /\ workspace'.signedIn = workspace.signedIn
      /\ workspace'.user = first /\ workspace'.teams = second
      /\ workspace'.selected = NoTeam /\ workspace'.projects = NoTeam /\ workspace'.deployments = NoTeam
  BY <1>0 DEF ExtensionInv, WorkspaceTyped
<1>5. WorkspaceTyped'
  <2>. HIDE DEF first, second
  <2>1. Wrote(t) \in [who : 0..begun, lists : 0..begun] /\ first \in NoOrPerson /\ second \in NoOrPerson
        /\ NoTeam \in NoOrTeam
    BY <1>3, AtWork DEF Wrote, NoOrPerson, NoOrTeam
  <2>. QED BY <1>0, <2>1 DEF ExtensionInv, WorkspaceTyped
<1>6. ExtensionTyped'
  BY <1>0, <1>1, <1>2, AtWork DEF ExtensionInv, ExtensionTyped
<1>7. AnswersHaveTokens' /\ LoadingEnds'
  BY <1>1, <1>2, <1>4 DEF ExtensionInv, AnswersHaveTokens, LoadingEnds, Calling
<1>8. NumbersTell'
  BY <1>0, <1>1, <1>2, <1>4 DEF ExtensionInv, NumbersTell, InRefresh, Wrote
<1>9. Due => Due'
  BY <1>1 DEF Due
<1>10. NewestCalls'
  BY <1>0, <1>1, <1>2, <1>4, <1>9 DEF ExtensionInv, NewestCalls, Calling, Newest
<1>11. NewestKnows'
  <2>1. ASSUME ~Due, storedToken # 0, tasks[t].no = begun
        PROVE  workspace.signedIn /\ first = holders[storedToken] /\ second = holders[storedToken]
    <3>1. workspace.signedIn /\ \A d \in Pair : tasks[t].calls[d].token = storedToken
      BY <1>3, <2>1 DEF ExtensionInv, NewestCalls, Calling, Newest
    <3>. QED BY <3>1 DEF Holder, Pair
  <2>. HIDE DEF first, second
  <2>. QED BY <1>0, <1>4, <1>9, <2>1 DEF NewestKnows, Wrote
<1>12. ListsOfSelected'
  BY <1>0, <1>1, <1>2, <1>4 DEF ExtensionInv, ListsOfSelected, NumbersTell, InRefresh, Wrote
<1>. QED BY <1>5, <1>6, <1>7, <1>8, <1>10, <1>11, <1>12 DEF ExtensionInv

\* The account and its organizations are known, and one is selected.
LEMMA WhoHasTeams ==
    ASSUME ExtensionInv, NEW t \in Commands, NEW c \in Pair, CallAnswered(t, c),
           Last(t, c), tasks[t].at = "who", WhoKnown(t), TeamsOf[Holder(t, "second")] # <<>>
    PROVE  ExtensionInv'
<1>. DEFINE first == Holder(t, "first")
            second == Holder(t, "second")
            team == ChosenTeam(second)
            x == [tasks[t] EXCEPT !.at = "lists", !.chosen = team, !.calls = BothCalls]
            by == [workspace.by EXCEPT !.who = tasks[t].no]
<1>0. /\ UNCHANGED <<storedToken, holders, begun>> /\ savedTeam' = team
      /\ tasks \in [Commands -> TaskRecords] /\ tasks[t] \in TaskRecords
      /\ BothCalls \in [Pair -> CallRecords]
  BY AtWork, TaskWritten DEF CallAnswered, WhoKnown, ExtensionInv
<1>1. /\ \A d \in Pair : tasks[t].calls[d].token # 0 /\ Holder(t, d) \in People
      /\ first \in People /\ second \in People /\ team \in NoOrTeam
  BY AnswerHasToken, TeamsOfPeople DEF Calling, Pair, NoOrTeam
<1>2. /\ by \in [who : 0..begun, lists : 0..begun]
      /\ by.who = tasks[t].no /\ by.lists = workspace.by.lists
  BY AtWork
<1>3. workspace' = [workspace EXCEPT !.user = first, !.teams = second, !.by = by, !.selected = team]
  BY DEF WhoKnown, ExtensionInv, WorkspaceTyped
<1>4. tasks' = [tasks EXCEPT ![t] = x]
  BY <1>0 DEF WhoKnown
<1>. HIDE DEF first, second, team, by
<1>5. /\ x \in TaskRecords /\ x.at = "lists" /\ x.no = tasks[t].no /\ x.calls = BothCalls /\ x.chosen = team
  BY <1>0, <1>1 DEF TaskRecords
<1>. HIDE DEF x
<1>6. /\ tasks' \in [Commands -> TaskRecords] /\ tasks'[t] = x
      /\ \A u \in Commands \ {t} : tasks'[u] = tasks[u]
  BY <1>4, <1>5, TaskReplaced DEF ExtensionInv
<1>7. \A d \in Pair : x.calls[d].at = "send" /\ x.calls[d].token = 0
  BY <1>5, TaskWritten DEF ToMake, ExtensionInv
<1>8. /\ workspace'.by = by /\ workspace'.signedIn = workspace.signedIn
      /\ workspace'.user = first /\ workspace'.teams = second /\ workspace'.selected = team
      /\ workspace'.projects = workspace.projects /\ workspace'.deployments = workspace.deployments
  BY <1>3 DEF ExtensionInv, WorkspaceTyped
<1>9. WorkspaceTyped'
  BY <1>0, <1>1, <1>2, <1>3 DEF ExtensionInv, WorkspaceTyped, NoOrPerson
<1>10. ExtensionTyped'
  BY <1>0, <1>1, <1>5, <1>6, <1>7, AtWork DEF ExtensionInv, ExtensionTyped, Waiting
<1>11. AnswersHaveTokens' /\ LoadingEnds'
  BY <1>5, <1>6, <1>7 DEF ExtensionInv, AnswersHaveTokens, LoadingEnds, Calling, InRefresh
<1>12. NumbersTell'
  BY <1>2, <1>5, <1>6, <1>8 DEF ExtensionInv, NumbersTell, InRefresh
<1>13. Due => Due'
  BY <1>6 DEF Due
<1>14. NewestCalls'
  BY <1>0, <1>5, <1>6, <1>7, <1>8, <1>13 DEF ExtensionInv, NewestCalls, Calling, Newest
<1>15. NewestKnows'
  <2>1. ASSUME ~Due, storedToken # 0, tasks[t].no = begun
        PROVE  workspace.signedIn /\ first = holders[storedToken] /\ second = holders[storedToken]
    <3>1. workspace.signedIn /\ \A d \in Pair : tasks[t].calls[d].token = storedToken
      BY <1>1, <2>1 DEF ExtensionInv, NewestCalls, Calling, Newest
    <3>. QED BY <3>1 DEF Holder, Pair, first, second
  <2>. QED BY <1>0, <1>2, <1>8, <1>13, <2>1 DEF NewestKnows
<1>16. ListsOfSelected'
  BY <1>2, <1>5, <1>6, <1>8 DEF ExtensionInv, ListsOfSelected, NumbersTell, InRefresh
<1>. QED BY <1>9, <1>10, <1>11, <1>12, <1>14, <1>15, <1>16 DEF ExtensionInv

\* The lists are known, and the refresh ends.
LEMMA ListsAreKnown ==
    ASSUME ExtensionInv, NEW t \in Commands, NEW c \in Pair, CallAnswered(t, c),
           tasks[t].at = "lists", ListsKnown(t)
    PROVE  ExtensionInv'
<1>. DEFINE team == tasks[t].chosen
            by == [workspace.by EXCEPT !.lists = tasks[t].no]
<1>0. /\ UNCHANGED <<storedToken, holders, begun, savedTeam>> /\ tasks' = [tasks EXCEPT ![t] = NoTask]
      /\ team \in NoOrTeam
  BY AtWork DEF CallAnswered, ListsKnown
<1>1. /\ by \in [who : 0..begun, lists : 0..begun]
      /\ by.who = workspace.by.who /\ by.lists = tasks[t].no
  BY AtWork
<1>2. workspace' = [workspace EXCEPT !.projects = team, !.deployments = team, !.by = by, !.loading = FALSE]
  BY DEF ListsKnown
<1>. HIDE DEF team, by
<1>3. /\ tasks' \in [Commands -> TaskRecords] /\ tasks'[t] = NoTask
      /\ \A u \in Commands \ {t} : tasks'[u] = tasks[u]
  BY <1>0, TaskWritten, TaskReplaced DEF ExtensionInv
<1>4. /\ NoTask.at = "idle" /\ NoTask.no = 0 /\ NoTask.calls = NoCalls
      /\ \A d \in Pair : NoCalls[d].at = "done" /\ NoCalls[d].token = 0
  BY DEF NoTask, NoCalls, NotMade
<1>5. /\ workspace'.by = by /\ ~workspace'.loading /\ workspace'.signedIn = workspace.signedIn
      /\ workspace'.user = workspace.user /\ workspace'.teams = workspace.teams
      /\ workspace'.selected = workspace.selected
      /\ workspace'.projects = team /\ workspace'.deployments = team
  BY <1>2 DEF ExtensionInv, WorkspaceTyped
<1>6. WorkspaceTyped'
  BY <1>0, <1>1, <1>2 DEF ExtensionInv, WorkspaceTyped
<1>7. ExtensionTyped'
  BY <1>0, <1>3, <1>4, AtWork DEF ExtensionInv, ExtensionTyped
<1>8. AnswersHaveTokens' /\ LoadingEnds'
  BY <1>3, <1>4, <1>5 DEF ExtensionInv, AnswersHaveTokens, LoadingEnds, Calling
<1>9. NumbersTell'
  BY <1>1, <1>3, <1>4, <1>5 DEF ExtensionInv, NumbersTell, InRefresh
<1>10. Due => Due'
  BY <1>3 DEF Due
<1>11. NewestCalls'
  BY <1>0, <1>3, <1>4, <1>5, <1>10 DEF ExtensionInv, NewestCalls, Calling, Newest
<1>12. NewestKnows'
  BY <1>0, <1>1, <1>5, <1>10 DEF ExtensionInv, NewestKnows
<1>13. ListsOfSelected'
  BY <1>1, <1>3, <1>4, <1>5 DEF ExtensionInv, ListsOfSelected, team
<1>. QED BY <1>6, <1>7, <1>8, <1>9, <1>11, <1>12, <1>13 DEF ExtensionInv

\* A call fails: a refresh ends with it.
LEMMA RefreshFails ==
    ASSUME ExtensionInv, NEW t \in Commands, NEW c \in Pair, CallBreaks(t, c), tasks[t].at \in {"who", "lists"}
    PROVE  ExtensionInv'
<1>. DEFINE call == [tasks[t].calls[c] EXCEPT !.at = "done"]
            made == [tasks[t].calls EXCEPT ![c] = call]
            y == [tasks[t] EXCEPT !.at = "stray", !.calls = made]
            x == IF Last(t, c) THEN NoTask ELSE y
<1>0. /\ UNCHANGED <<holders, begun, savedTeam>> /\ storedToken' \in {0, storedToken}
      /\ workspace' = [workspace EXCEPT !.error = TRUE, !.loading = FALSE]
      /\ tasks[t].calls[c] \in CallRecords /\ tasks[t] \in TaskRecords /\ ExtensionTyped
  BY AtWork DEF CallBreaks, Failed, ExtensionInv
<1>1. call \in CallRecords /\ call.token = tasks[t].calls[c].token
  BY <1>0 DEF CallRecords
<1>2. /\ made \in [Pair -> CallRecords]
      /\ \A d \in Pair : made[d].token = tasks[t].calls[d].token
  <2>. HIDE DEF call
  <2>. QED BY <1>0, <1>1, TaskWritten
<1>3. tasks' = [tasks EXCEPT ![t] = x]
  BY AtWork DEF CallBreaks
<1>4. y \in TaskRecords /\ y.at = "stray" /\ y.no = tasks[t].no /\ y.calls = made
  <2>. HIDE DEF made
  <2>. QED BY <1>0, <1>2 DEF TaskRecords
<1>5. /\ NoTask.at = "idle" /\ NoTask.no = 0 /\ NoTask.calls = NoCalls
      /\ \A d \in Pair : NoCalls[d].at = "done" /\ NoCalls[d].token = 0
  BY DEF NoTask, NoCalls, NotMade
<1>. HIDE DEF y, made
<1>6. /\ x \in TaskRecords /\ x.at \in {"idle", "stray"} /\ x.no <= begun
      /\ \A d \in Pair : x.calls[d].token <= Len(holders)
      /\ x.at # "stray" => \A d \in Pair : x.calls[d].at = "done"
  BY <1>0, <1>2, <1>4, <1>5, TaskWritten, AtWork
<1>. HIDE DEF x
<1>7. /\ tasks' \in [Commands -> TaskRecords] /\ tasks'[t] = x
      /\ \A u \in Commands \ {t} : tasks'[u] = tasks[u]
  BY <1>0, <1>3, <1>6, TaskReplaced
<1>8. /\ ~workspace'.loading /\ workspace'.by = workspace.by /\ workspace'.signedIn = workspace.signedIn
      /\ workspace'.user = workspace.user /\ workspace'.teams = workspace.teams
      /\ workspace'.selected = workspace.selected
      /\ workspace'.projects = workspace.projects /\ workspace'.deployments = workspace.deployments
  BY <1>0 DEF ExtensionInv, WorkspaceTyped
<1>9. WorkspaceTyped'
  BY <1>0 DEF ExtensionInv, WorkspaceTyped
<1>10. ExtensionTyped'
  BY <1>0, <1>6, <1>7, AtWork DEF ExtensionTyped, Waiting
<1>11. AnswersHaveTokens' /\ LoadingEnds'
  BY <1>6, <1>7, <1>8 DEF ExtensionInv, AnswersHaveTokens, LoadingEnds, Calling
<1>12. NumbersTell'
  BY <1>6, <1>7, <1>8 DEF ExtensionInv, NumbersTell, InRefresh
<1>13. Due => Due'
  BY <1>7 DEF Due
<1>14. NewestCalls'
  BY <1>0, <1>6, <1>7, <1>8, <1>13 DEF ExtensionInv, NewestCalls, Calling, Newest
<1>15. NewestKnows'
  BY <1>0, <1>8, <1>13 DEF ExtensionInv, NewestKnows
<1>16. ListsOfSelected'
  BY <1>6, <1>7, <1>8 DEF ExtensionInv, ListsOfSelected
<1>. QED BY <1>9, <1>10, <1>11, <1>12, <1>14, <1>15, <1>16 DEF ExtensionInv

\* ... a command just ends.
LEMMA CommandFails ==
    ASSUME ExtensionInv, NEW t \in Commands, NEW c \in Pair, CallBreaks(t, c), tasks[t].at \in {"command", "stray"}
    PROVE  ExtensionInv'
<1>0. UNCHANGED <<holders, begun, savedTeam, workspace>> /\ storedToken' \in {0, storedToken}
  BY DEF CallBreaks, Failed
<1>1. CASE Last(t, c)
  <2>1. tasks' = [tasks EXCEPT ![t] = NoTask]
    BY <1>1 DEF CallBreaks
  <2>. QED BY <1>0, <2>1, CommandEnds
<1>2. CASE ~Last(t, c)
  <2>. DEFINE call == [tasks[t].calls[c] EXCEPT !.at = "done"]
              made == [tasks[t].calls EXCEPT ![c] = call]
              x == [tasks[t] EXCEPT !.at = "stray", !.calls = made]
  <2>1. tasks[t].calls[c] \in CallRecords /\ tasks[t] \in TaskRecords
    BY AtWork
  <2>2. call \in CallRecords /\ call.token = tasks[t].calls[c].token
    BY <2>1 DEF CallRecords
  <2>3. /\ made \in [Pair -> CallRecords] /\ \A d \in Pair : made[d].token = tasks[t].calls[d].token
    <3>. HIDE DEF call
    <3>. QED BY <2>2, TaskWritten DEF ExtensionInv
  <2>4. tasks' = [tasks EXCEPT ![t] = x]
    BY <1>2, AtWork DEF CallBreaks
  <2>. HIDE DEF made
  <2>5. x \in TaskRecords /\ x.at = "stray" /\ x.no = tasks[t].no /\ x.calls = made
    BY <2>1, <2>3 DEF TaskRecords
  <2>. HIDE DEF x
  <2>6. savedTeam' \in NoOrTeam
    BY <1>0 DEF ExtensionInv, ExtensionTyped
  <2>7. Quiet(t, x)
    BY <1>0, <2>3, <2>4, <2>5, <2>6, AtWork DEF Quiet, InRefresh, Waiting
  <2>. QED BY <2>7, QuietStep
<1>. QED BY <1>1, <1>2

\* Every step keeps the invariant.
LEMMA ExtensionStep ==
    ASSUME ExtensionInv, [ExtensionNext]_extensionVars
    PROVE  ExtensionInv'
<1>1. ASSUME UNCHANGED <<storedToken, holders, savedTeam, workspace, tasks, begun>>
      PROVE  ExtensionInv'
  BY <1>1 DEF ExtensionInv, WorkspaceTyped, ExtensionTyped, AnswersHaveTokens, NumbersTell, LoadingEnds,
              NewestCalls, NewestKnows, ListsOfSelected, InRefresh, Calling, Newest, Due
<1>2. ASSUME NEW t \in Commands, CommandStep(t)
      PROVE  ExtensionInv'
  <2>1. CASE \E p \in People : SignIn(t, p)
    BY <2>1, CommandsAreQuiet
  <2>2. CASE SignOut(t) \/ ForgetTeam(t) \/ OfferTeams(t) \/ PickTeam(t) \/ AskServer(t)
    BY <2>2, CommandsAreQuiet
  <2>3. CASE BeginRefresh(t)
    BY <2>3, RefreshBegins
  <2>4. CASE TokenRead(t)
    BY <2>4, ModelEmptied, RefreshGoesOn
  <2>5. ASSUME NEW c \in Pair, SendCall(t, c)
        PROVE  ExtensionInv'
    BY <2>5, CallIsSent
  <2>6. ASSUME NEW c \in Pair, CallAnswered(t, c)
        PROVE  ExtensionInv'
    <3>1. CASE ~Last(t, c) \/ tasks[t].at \in {"command", "stray"}
      BY <2>6, <3>1, AnswerNotWaitedFor
    <3>2. CASE Last(t, c) /\ tasks[t].at = "who"
      <4>1. WhoKnown(t)
        BY <2>6, <3>2 DEF CallAnswered
      <4>. QED BY <2>6, <3>2, <4>1, WhoHasNoTeam, WhoHasTeams
    <3>3. CASE Last(t, c) /\ tasks[t].at = "lists"
      <4>1. ListsKnown(t)
        BY <2>6, <3>3 DEF CallAnswered
      <4>. QED BY <2>6, <3>3, <4>1, ListsAreKnown
    <3>. QED BY <2>6, <3>1, <3>2, <3>3, AnswerHasToken DEF Waiting
  <2>7. ASSUME NEW c \in Pair, CallBreaks(t, c)
        PROVE  ExtensionInv'
    <3>1. tasks[t].at \in Waiting
      BY <2>7 DEF CallBreaks, Sent, ExtensionInv, ExtensionTyped
    <3>. QED BY <2>7, <3>1, RefreshFails, CommandFails DEF Waiting
  <2>. QED BY <1>2, <2>1, <2>2, <2>3, <2>4, <2>5, <2>6, <2>7 DEF CommandStep
<1>3. ASSUME NEW n, TokenRefused(n)
      PROVE  ExtensionInv'
  BY <1>1, <1>3 DEF TokenRefused
<1>4. CASE UNCHANGED extensionVars
  BY <1>1, <1>4 DEF extensionVars
<1>. QED BY <1>2, <1>3, <1>4 DEF ExtensionNext

LEMMA ExtensionStarts == ExtensionInit => ExtensionInv
<1>. SUFFICES ASSUME ExtensionInit
              PROVE  ExtensionInv
  OBVIOUS
<1>1. /\ holders \in Seq(People) /\ storedToken \in 0..Len(holders) /\ begun = 0
      /\ savedTeam = NoTeam /\ workspace = NewModel
  BY DEF ExtensionInit
<1>2. PICK t \in Commands :
        tasks = [u \in Commands |-> IF u = t THEN [NoTask EXCEPT !.at = "begin"] ELSE NoTask]
  BY DEF ExtensionInit
<1>3. /\ NoTask \in TaskRecords /\ [NoTask EXCEPT !.at = "begin"] \in TaskRecords
      /\ \A c \in Pair : NoCalls[c].at = "done" /\ NoCalls[c].token = 0
  BY DEF NoTask, NoCalls, NotMade, TaskRecords, CallRecords, NoOrPerson, NoOrTeam
<1>4. /\ tasks \in [Commands -> TaskRecords] /\ tasks[t].at = "begin"
      /\ \A u \in Commands : tasks[u].no = 0 /\ tasks[u].calls = NoCalls /\ tasks[u].at \in {"idle", "begin"}
  BY <1>2, <1>3 DEF NoTask
<1>5. WorkspaceTyped
  BY <1>1 DEF WorkspaceTyped, NewModel, NoOrPerson, NoOrTeam
<1>6. ExtensionTyped
  BY <1>1, <1>3, <1>4 DEF ExtensionTyped, NoOrTeam
<1>7. AnswersHaveTokens /\ NumbersTell /\ LoadingEnds
  BY <1>1, <1>4 DEF AnswersHaveTokens, NumbersTell, LoadingEnds, Calling, InRefresh, NewModel
<1>8. NewestCalls /\ NewestKnows
  BY <1>4 DEF NewestCalls, NewestKnows, Due
<1>9. ListsOfSelected
  BY <1>1, <1>4 DEF ListsOfSelected, NewModel
<1>. QED BY <1>5, <1>6, <1>7, <1>8, <1>9 DEF ExtensionInv

\* Between refreshes, the views of the editor that the last refresh wrote are of one piece: the
\* account of the stored token, the organization remembered, and that organization's projects and
\* deployments (extension.js:226).
THEOREM WorkspacesAreOne == ExtensionSpec => []WorkspaceIsOne
<1>1. ExtensionInv => WorkspaceIsOne
  <2>. SUFFICES ASSUME ExtensionInv, \A t \in Commands : ~Refreshing(t)
                PROVE  /\ ~workspace.loading
                       /\ workspace.by = [who |-> begun, lists |-> begun] /\ ~workspace.error =>
                             /\ ~workspace.signedIn => storedToken = 0
                             /\ workspace.signedIn /\ storedToken # 0 =>
                                   /\ workspace.user = holders[storedToken] /\ workspace.teams = workspace.user
                                   /\ Listed = [projects |-> workspace.selected, deployments |-> workspace.selected]
                                   /\ workspace.selected # NoTeam => workspace.selected = savedTeam
    BY DEF WorkspaceIsOne
  <2>1. ~workspace.loading /\ ~Due
    BY DEF ExtensionInv, LoadingEnds, InRefresh, Refreshing, Due, WorkspaceTyped
  <2>2. ASSUME workspace.by = [who |-> begun, lists |-> begun]
        PROVE  /\ workspace.projects = workspace.selected /\ workspace.deployments = workspace.selected
               /\ storedToken # 0 =>
                     /\ workspace.signedIn
                     /\ workspace.user = holders[storedToken] /\ workspace.teams = holders[storedToken]
                     /\ workspace.selected # NoTeam => workspace.selected = savedTeam
    BY <2>1, <2>2 DEF ExtensionInv, ListsOfSelected, NewestKnows
  <2>. QED BY <2>1, <2>2 DEF Listed
<1>. QED BY <1>1, ExtensionStarts, ExtensionStep, PTL DEF ExtensionSpec

=============================================================================
