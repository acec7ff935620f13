------------------------- MODULE Integrations_proofs -------------------------
(***************************************************************************)
(* For any numbers of users, GitHub accounts, projects, commits and         *)
(* deliveries: an account leads to one user, a push is deployed once.  For  *)
(* any numbers of Vercel accounts, connections and refreshes at once: no    *)
(* connection loses its token.  For all numbers of retries: a database      *)
(* recorded as ready is usable, and the nested loops of the request that    *)
(* provisions it come to an end.  For any requests, engines and builds: the *)
(* commit shown with a deployment is the one its image was built from, and  *)
(* a dev server is started only where nothing else can be.                  *)
(***************************************************************************)
EXTENDS GitHubIdentity, PushDeploys, VercelTokens, Databases, DeploymentSource,
        SequenceTheorems, WellFoundedInduction, TLAPS

-----------------------------------------------------------------------------
(* GitHubIdentity *)

Ops == {"none", "resolve", "subject", "email", "adopt", "signup", "link", "upsert"}

Callback == [op : Ops, github : GitHubs \cup {NoGitHub}, user : Users \cup {NoUser}, linked : BOOLEAN]

IdentityTyped ==
    /\ connection \in [Users -> GitHubs \cup {NoGitHub}]
    /\ subject \in [Users -> GitHubs \cup {NoGitHub}]
    /\ callbacks \in [Callbacks -> Callback]

\* The account is connected to the user, or about to be.
Supported(u) ==
    \/ connection[u] = subject[u]
    \/ \E c \in Callbacks : callbacks[c].op = "upsert" /\ callbacks[c].user = u
                            /\ callbacks[c].github = subject[u]

IdentityInv ==
    /\ IdentityTyped
    /\ \A u, v \in Users : u # v /\ connection[u] # NoGitHub => connection[u] # connection[v]
    /\ \A u \in Users : subject[u] \in loose \cup {NoGitHub} \/ Supported(u)

LEMMA IdentityInitInv == IdentityInit => IdentityInv
BY DEF IdentityInit, IdentityInv, IdentityTyped, Callback, Waiting, Ops

\* The callbacks that move without writing a row.
LEMMA QuietStep ==
    ASSUME IdentityInv, NEW c \in Callbacks, callbacks[c].op # "upsert",
           UNCHANGED <<connection, subject, loose>>,
           NEW r \in Callback,
           callbacks' = [callbacks EXCEPT ![c] = r]
    PROVE  IdentityInv'
<1>1. IdentityTyped'
  BY DEF IdentityInv, IdentityTyped, Callback
<1>2. \A u \in Users : Supported(u) => Supported(u)'
  BY DEF Supported, IdentityInv, IdentityTyped, Callback
<1> QED BY <1>1, <1>2 DEF IdentityInv

LEMMA WriteSubjectInv ==
    ASSUME IdentityInv, NEW c \in Callbacks, callbacks[c].op # "upsert", callbacks[c].user \in Users,
           WriteSubject(c, "upsert"), UNCHANGED <<connection, loose>>
    PROVE  IdentityInv'
<1>1. IdentityTyped'
  BY DEF WriteSubject, IdentityInv, IdentityTyped, Callback, Ops
<1>2. \A u \in Users : u # callbacks[c].user /\ Supported(u) => Supported(u)'
  BY DEF WriteSubject, Supported, IdentityInv, IdentityTyped, Callback
<1>3. Supported(callbacks[c].user)'
  BY DEF WriteSubject, Supported, IdentityInv, IdentityTyped, Callback
<1> QED BY <1>1, <1>2, <1>3 DEF WriteSubject, IdentityInv, IdentityTyped, Callback

LEMMA FinishInv ==
    ASSUME IdentityInv, NEW c \in Callbacks, FinishCallback(c), callbacks[c].user \in Users,
           callbacks[c].github \in GitHubs
    PROVE  IdentityInv'
<1> DEFINE w == callbacks[c].user
           g == callbacks[c].github
<1>1. IdentityTyped'
  BY DEF FinishCallback, Answered, Waiting, UpsertConnection, Unlink, IdentityInv, IdentityTyped, Callback, Ops
<1>2. \A u, v \in Users : u # v /\ connection'[u] # NoGitHub => connection'[u] # connection'[v]
  BY DEF FinishCallback, UpsertConnection, IdentityInv, IdentityTyped, Callback
<1>3. ASSUME NEW u \in Users PROVE subject'[u] \in loose' \cup {NoGitHub} \/ Supported(u)'
  <2>1. CASE subject[u] = NoGitHub
    BY <2>1 DEF FinishCallback, UpsertConnection, Unlink
  <2>2. CASE subject[u] \in loose
    BY <2>2 DEF FinishCallback, UpsertConnection, Unlink
  <2>3. CASE subject[u] # NoGitHub /\ connection[u] = subject[u]
    <3>1. CASE u = w
      BY <2>3, <3>1 DEF FinishCallback, UpsertConnection, Unlink, ConnectedTo, Dropped, Supported, IdentityInv, IdentityTyped, Callback
    <3>2. CASE u # w /\ connection[u] = g
      BY <2>3, <3>2 DEF FinishCallback, UpsertConnection, Unlink, ConnectedTo
    <3>3. CASE u # w /\ connection[u] # g
      BY <2>3, <3>3 DEF FinishCallback, UpsertConnection, Unlink, ConnectedTo, Supported
    <3> QED BY <3>1, <3>2, <3>3
  <2>4. ASSUME NEW b \in Callbacks, callbacks[b].op = "upsert", callbacks[b].user = u,
               callbacks[b].github = subject[u], subject[u] # NoGitHub
        PROVE  subject'[u] \in loose' \cup {NoGitHub} \/ Supported(u)'
    <3>1. subject'[u] \in {subject[u], NoGitHub}
      BY DEF FinishCallback, UpsertConnection, Unlink
    <3>2. CASE b = c
      BY <2>4, <3>1, <3>2 DEF FinishCallback, UpsertConnection, Supported
    <3>3. CASE b # c
      <4>1. callbacks'[b] = callbacks[b]
        BY <3>3 DEF FinishCallback, Answered, IdentityInv, IdentityTyped, Callback
      <4> QED BY <2>4, <3>1, <4>1 DEF Supported
    <3> QED BY <3>2, <3>3
  <2> QED BY <2>1, <2>2, <2>3, <2>4 DEF IdentityInv, Supported
<1> QED BY <1>1, <1>2, <1>3 DEF IdentityInv

\* A callback names an account, and from the time its user is found a user.
Bound ==
    \A c \in Callbacks :
        /\ callbacks[c].op # "none" => callbacks[c].github \in GitHubs
        /\ callbacks[c].op \in {"adopt", "signup", "link", "upsert"} => callbacks[c].user \in Users

LEMMA StartBound ==
    ASSUME IdentityInv, Bound, NEW c \in Callbacks, NEW g \in GitHubs, NEW u \in Users,
           StartLogin(c, g) \/ StartConnect(c, u, g)
    PROVE  IdentityInv' /\ Bound'
<1> DEFINE login == [Waiting EXCEPT !.op = "resolve", !.github = g]
           connect == [Waiting EXCEPT !.op = "upsert", !.github = g, !.user = u]
<1>1. /\ login \in Callback
      /\ connect \in Callback
  BY DEF Waiting, Ops, Callback
<1>2. callbacks[c].op = "none" /\ UNCHANGED <<connection, subject, loose>>
  BY DEF StartLogin, StartConnect, InCallback
<1>3. callbacks' = [callbacks EXCEPT ![c] = login] \/ callbacks' = [callbacks EXCEPT ![c] = connect]
  BY DEF StartLogin, StartConnect
<1>4. IdentityInv'
  BY <1>1, <1>2, <1>3, QuietStep
<1>5. Bound'
  <2>1. /\ login.op = "resolve" /\ login.github = g
        /\ connect.op = "upsert" /\ connect.github = g /\ connect.user = u
    BY DEF Waiting
  <2>2. CASE callbacks' = [callbacks EXCEPT ![c] = login]
    <3> HIDE DEF login, connect
    <3> QED BY <2>1, <2>2 DEF Bound, IdentityInv, IdentityTyped
  <2>3. CASE callbacks' = [callbacks EXCEPT ![c] = connect]
    <3> HIDE DEF login, connect
    <3> QED BY <2>1, <2>3 DEF Bound, IdentityInv, IdentityTyped
  <2> QED BY <1>3, <2>2, <2>3
<1> QED BY <1>4, <1>5

\* The callbacks that look for the user of an account.
LEMMA ResolveInv ==
    ASSUME IdentityInv, Bound, NEW c \in Callbacks,
           ResolveUser(c) \/ ResolveBySubject(c) \/ ResolveByEmail(c)
    PROVE  IdentityInv' /\ Bound'
<1> DEFINE r == callbacks'[c]
           g == callbacks[c].github
<1>1. callbacks[c].op \in {"resolve", "subject", "email"} /\ UNCHANGED <<connection, subject, loose>>
  BY DEF ResolveUser, ResolveBySubject, ResolveByEmail, InCallback
<1>2. g \in GitHubs /\ UserOfEmail[g] \in Users
  BY <1>1, GitHubAssumption DEF Bound
<1>3. \/ \E u \in Users, op \in {"link", "adopt", "signup"} : Found(c, u, op)
      \/ \E op \in {"subject", "email"} : callbacks' = [callbacks EXCEPT ![c].op = op]
      \/ Answered(c)
  BY <1>2 DEF ResolveUser, ResolveBySubject, ResolveByEmail, ConnectedTo
<1>4. /\ callbacks' = [callbacks EXCEPT ![c] = r]
      /\ r \in Callback
      /\ r.op # "none" => r.github \in GitHubs
      /\ r.op \in {"adopt", "signup", "link", "upsert"} => r.user \in Users
  <2>1. callbacks[c] \in Callback
    BY DEF IdentityInv, IdentityTyped, Callback
  <2>2. ASSUME NEW u \in Users, NEW op \in {"link", "adopt", "signup"}, Found(c, u, op)
        PROVE  callbacks' = [callbacks EXCEPT ![c] = r] /\ r \in Callback
               /\ r.op = op /\ r.user = u /\ r.github = g
    <3>1. DOMAIN callbacks = Callbacks /\ callbacks[c].github = g
      BY DEF IdentityInv, IdentityTyped
    <3>2. callbacks' = [callbacks EXCEPT ![c] = r]
      BY <2>2, <3>1 DEF Found, IdentityInv, IdentityTyped
    <3>3. r = [[[callbacks[c] EXCEPT !.op = op] EXCEPT !.user = u] EXCEPT !.linked = (subject[u] = g)]
      BY <2>2, <3>1 DEF Found
    <3>4. r.op = op /\ r.user = u /\ r.github = g /\ r.linked = (subject[u] = g)
      BY <2>1, <3>3 DEF Callback
    <3>5. r \in Callback
      BY <1>2, <2>1, <3>3 DEF Callback, Ops
    <3> QED BY <3>2, <3>4, <3>5
  <2>3. ASSUME NEW op \in {"subject", "email"}, callbacks' = [callbacks EXCEPT ![c].op = op]
        PROVE  /\ callbacks' = [callbacks EXCEPT ![c] = r] /\ r \in Callback
               /\ r.op = op /\ r.github = g
    <3>1. callbacks' = [callbacks EXCEPT ![c] = [callbacks[c] EXCEPT !.op = op]]
      BY <2>3 DEF IdentityInv, IdentityTyped
    <3>2. r = [callbacks[c] EXCEPT !.op = op]
      BY <3>1 DEF IdentityInv, IdentityTyped
    <3>3. [callbacks[c] EXCEPT !.op = op] \in Callback
      BY <2>1 DEF Callback, Ops
    <3>4. [callbacks[c] EXCEPT !.op = op].op = op /\ [callbacks[c] EXCEPT !.op = op].github = g
      BY <2>1 DEF Callback
    <3> QED BY <3>1, <3>2, <3>3, <3>4
  <2>4. ASSUME Answered(c) PROVE callbacks' = [callbacks EXCEPT ![c] = r] /\ r = Waiting
    <3>1. callbacks' = [callbacks EXCEPT ![c] = Waiting]
      BY <2>4 DEF Answered
    <3>2. DOMAIN callbacks = Callbacks
      BY DEF IdentityInv, IdentityTyped
    <3>3. r = Waiting
      BY <3>1, <3>2
    <3> QED BY <3>1, <3>3
  <2>5. CASE \E u \in Users, op \in {"link", "adopt", "signup"} : Found(c, u, op)
    BY <1>2, <2>2, <2>5
  <2>6. CASE \E op \in {"subject", "email"} : callbacks' = [callbacks EXCEPT ![c].op = op]
    BY <1>2, <2>3, <2>6
  <2>7. CASE Answered(c)
    <3>1. Waiting \in Callback /\ Waiting.op = "none"
      BY DEF Waiting, Ops, Callback
    <3> QED BY <2>4, <2>7, <3>1
  <2> QED BY <1>3, <2>5, <2>6, <2>7
<1>5. IdentityInv'
  BY <1>1, <1>4, QuietStep
<1>6. Bound'
  BY <1>4 DEF Bound, IdentityInv, IdentityTyped, Callback
<1> QED BY <1>5, <1>6

\* The callbacks that write the user's row, or find it written.
LEMMA WriteInv ==
    ASSUME IdentityInv, Bound, NEW c \in Callbacks, AdoptUser(c) \/ SignUp(c) \/ LinkUser(c)
    PROVE  IdentityInv' /\ Bound'
<1>1. callbacks[c].op \in {"adopt", "signup", "link"} /\ UNCHANGED <<connection, loose>>
  BY DEF AdoptUser, SignUp, LinkUser, InCallback
<1>2. callbacks[c].user \in Users /\ callbacks[c].github \in GitHubs
  BY <1>1 DEF Bound
<1>3. CASE WriteSubject(c, "upsert")
  <2>1. IdentityInv'
    BY <1>1, <1>2, <1>3, WriteSubjectInv
  <2>2. Bound'
    BY <1>2, <1>3 DEF Bound, WriteSubject, IdentityInv, IdentityTyped, Callback
  <2> QED BY <2>1, <2>2
<1>4. CASE callbacks' = [callbacks EXCEPT ![c].op = "upsert"] /\ UNCHANGED subject
  <2> DEFINE r == [callbacks[c] EXCEPT !.op = "upsert"]
  <2>1. r \in Callback
    BY DEF IdentityInv, IdentityTyped, Callback, Ops
  <2>2. callbacks' = [callbacks EXCEPT ![c] = r]
    BY <1>4 DEF IdentityInv, IdentityTyped, Callback
  <2>3. IdentityInv'
    BY <1>1, <1>4, <2>1, <2>2, QuietStep
  <2>4. Bound'
    BY <1>2, <1>4 DEF Bound, IdentityInv, IdentityTyped, Callback
  <2> QED BY <2>3, <2>4
<1>5. CASE Answered(c) /\ UNCHANGED subject
  <2>1. Waiting \in Callback
    BY DEF Waiting, Ops, Callback
  <2>2. IdentityInv'
    BY <1>1, <1>5, <2>1, QuietStep DEF Answered
  <2>3. Bound'
    BY <1>5 DEF Answered, Waiting, Bound, IdentityInv, IdentityTyped, Callback
  <2> QED BY <2>2, <2>3
<1> QED BY <1>3, <1>4, <1>5 DEF AdoptUser, SignUp, LinkUser

\* A callback that stops between its writes, and a connection that is deleted, leave the account loose.
LEMMA LooseInv ==
    ASSUME IdentityInv, Bound, (\E c \in Callbacks : CallbackFails(c)) \/ (\E u \in Users : Disconnect(u))
    PROVE  IdentityInv' /\ Bound'
<1>1. ASSUME NEW c \in Callbacks, CallbackFails(c) PROVE IdentityInv' /\ Bound'
  <2>1. IdentityTyped'
    BY <1>1 DEF CallbackFails, Answered, Waiting, IdentityInv, IdentityTyped, Callback, Ops
  <2>2. ASSUME NEW u \in Users, Supported(u)
        PROVE  subject[u] \in loose' \/ Supported(u)'
    BY <1>1, <2>2 DEF CallbackFails, Answered, Waiting, InCallback, Supported, IdentityInv, IdentityTyped, Callback
  <2>3. loose \subseteq loose' /\ UNCHANGED <<connection, subject>>
    BY <1>1 DEF CallbackFails
  <2>4. Bound'
    BY <1>1 DEF CallbackFails, Answered, Waiting, Bound, IdentityInv, IdentityTyped, Callback
  <2> QED BY <2>1, <2>2, <2>3, <2>4 DEF IdentityInv
<1>2. ASSUME NEW w \in Users, Disconnect(w) PROVE IdentityInv' /\ Bound'
  <2>1. IdentityTyped'
    BY <1>2 DEF Disconnect, IdentityInv, IdentityTyped, Callback
  <2>2. ASSUME NEW u \in Users, Supported(u)
        PROVE  subject[u] \in loose' \/ Supported(u)'
    BY <1>2, <2>2 DEF Disconnect, Supported, IdentityInv, IdentityTyped, Callback
  <2>3. loose \subseteq loose' /\ UNCHANGED <<subject, callbacks>>
    BY <1>2 DEF Disconnect
  <2>4. \A u, v \in Users : u # v /\ connection'[u] # NoGitHub => connection'[u] # connection'[v]
    BY <1>2, GitHubAssumption DEF Disconnect, IdentityInv, IdentityTyped, Callback
  <2> QED BY <2>1, <2>2, <2>3, <2>4 DEF IdentityInv, Bound
<1> QED BY <1>1, <1>2

LEMMA FinishBound ==
    ASSUME IdentityInv, Bound, NEW c \in Callbacks, FinishCallback(c)
    PROVE  IdentityInv' /\ Bound'
<1>1. callbacks[c].user \in Users /\ callbacks[c].github \in GitHubs
  BY DEF Bound, FinishCallback, InCallback
<1>2. IdentityInv'
  BY <1>1, FinishInv
<1>3. Bound'
  BY DEF FinishCallback, Answered, Waiting, Bound, IdentityInv, IdentityTyped, Callback
<1> QED BY <1>2, <1>3

\* Signing in with a GitHub account leads to one user (resolveUserForGitHubLogin and
\* upsertGitHubConnectionForUser), for any number of users, accounts and callbacks at once.
THEOREM SubjectsAreUnique == IdentitySpec => []OneUserPerSubject
<1>1. IdentityInit => IdentityInv /\ Bound
  BY IdentityInitInv DEF IdentityInit, Bound, Waiting
<1>2. IdentityInv /\ Bound /\ [IdentityNext]_identityVars => IdentityInv' /\ Bound'
  <2> SUFFICES ASSUME IdentityInv, Bound, [IdentityNext]_identityVars PROVE IdentityInv' /\ Bound'
    OBVIOUS
  <2>1. CASE UNCHANGED identityVars
    BY <2>1 DEF identityVars, IdentityInv, IdentityTyped, Supported, Bound
  <2>2. ASSUME NEW c \in Callbacks, NEW g \in GitHubs, StartLogin(c, g) PROVE IdentityInv' /\ Bound'
    <3>1. CASE Users = {}
      <4>1. IdentityTyped'
        BY <2>2 DEF StartLogin, InCallback, IdentityInv, IdentityTyped, Callback, Waiting, Ops
      <4> QED BY <2>2, <3>1, <4>1 DEF StartLogin, IdentityInv, IdentityTyped, Bound, Waiting
    <3>2. CASE \E u \in Users : TRUE
      BY <2>2, <3>2, StartBound
    <3> QED BY <3>1, <3>2
  <2>3. ASSUME NEW c \in Callbacks, NEW g \in GitHubs, NEW u \in Users, StartConnect(c, u, g)
        PROVE  IdentityInv' /\ Bound'
    BY <2>3, StartBound
  <2>4. ASSUME NEW c \in Callbacks, CallbackStep(c) PROVE IdentityInv' /\ Bound'
    <3>1. CASE ResolveUser(c) \/ ResolveBySubject(c) \/ ResolveByEmail(c)
      BY <3>1, ResolveInv
    <3>2. CASE AdoptUser(c) \/ SignUp(c) \/ LinkUser(c)
      BY <3>2, WriteInv
    <3>3. CASE FinishCallback(c)
      BY <3>3, FinishBound
    <3>4. CASE CallbackFails(c)
      BY <3>4, LooseInv
    <3> QED BY <2>4, <3>1, <3>2, <3>3, <3>4 DEF CallbackStep
  <2>5. ASSUME NEW u \in Users, Disconnect(u) PROVE IdentityInv' /\ Bound'
    BY <2>5, LooseInv
  <2> QED BY <2>1, <2>2, <2>3, <2>4, <2>5 DEF IdentityNext
<1>3. IdentityInv => OneUserPerSubject
  BY DEF IdentityInv, Supported, OneUserPerSubject, InCallback
<1> QED BY <1>1, <1>2, <1>3, PTL DEF IdentitySpec

-----------------------------------------------------------------------------
(* PushDeploys *)

Delivery == [commit : Commits \cup {NoCommit}, todo : SUBSET GitProjects, creating : SUBSET GitProjects]
Pushes == GitProjects \X Commits

PushTyped ==
    /\ deliveries \in [Deliveries -> Delivery]
    /\ deployed \in [Pushes -> {0, 1}]
    /\ keys \subseteq Pushes

\* A delivery that makes a deployment holds the key of its push, alone, before anything is deployed.
Holds(d, p) ==
    /\ deliveries[d].creating = {p}
    /\ deliveries[d].commit \in Commits
    /\ <<p, deliveries[d].commit>> \in keys
    /\ deployed[<<p, deliveries[d].commit>>] = 0

PushInv ==
    /\ PushTyped
    /\ \A d \in Deliveries : deliveries[d].todo # {} => deliveries[d].commit \in Commits
    /\ \A d \in Deliveries, p \in GitProjects : p \in deliveries[d].creating => Holds(d, p)
    /\ \A d, e \in Deliveries, p \in GitProjects :
          d # e /\ p \in deliveries[d].creating /\ p \in deliveries[e].creating
              => deliveries[d].commit # deliveries[e].commit
    /\ \A k \in Pushes : deployed[k] = 1 => k \in keys

\* A delivery that is put in another delivery's place without anything to create.
LEMMA IdleDelivery ==
    ASSUME PushInv, UNCHANGED <<keys, deployed>>, NEW d \in Deliveries, NEW r \in Delivery,
           r.creating = {}, r.todo # {} => r.commit \in Commits,
           deliveries' = [deliveries EXCEPT ![d] = r]
    PROVE  PushInv'
<1>1. PushTyped'
  BY DEF PushInv, PushTyped
<1>2. deliveries'[d] = r /\ \A e \in Deliveries \ {d} : deliveries'[e] = deliveries[e]
  BY DEF PushInv, PushTyped
<1>3. \A e \in Deliveries, p \in GitProjects : p \in deliveries'[e].creating => e # d /\ Holds(e, p)'
  BY <1>2 DEF PushInv, Holds
<1> QED BY <1>1, <1>2, <1>3 DEF PushInv

LEMMA ReserveInv ==
    ASSUME PushInv, NEW d \in Deliveries, NEW p \in GitProjects, NextProject(d, p)
    PROVE  PushInv'
<1> DEFINE c == deliveries[d].commit
           k == <<p, c>>
           r == [commit |-> c, todo |-> deliveries[d].todo \ {p}, creating |-> IF k \in keys THEN {} ELSE {p}]
<1>1. c \in Commits /\ k \in Pushes /\ deliveries[d] \in Delivery /\ p \in deliveries[d].todo
  BY DEF NextProject, PushInv, PushTyped, Pushes
<1>2. r \in Delivery
  BY <1>1 DEF Delivery
<1>3. deliveries' = [deliveries EXCEPT ![d] = r]
  <2>1. deliveries' = [[deliveries EXCEPT ![d].todo = @ \ {p}] EXCEPT ![d].creating = IF k \in keys THEN {} ELSE {p}]
    BY DEF NextProject, ReserveKey
  <2>2. DOMAIN deliveries = Deliveries
    BY DEF PushInv, PushTyped
  <2>3. [[deliveries[d] EXCEPT !.todo = @ \ {p}] EXCEPT !.creating = IF k \in keys THEN {} ELSE {p}] = r
    <3> DEFINE y == [deliveries[d] EXCEPT !.todo = @ \ {p}]
    <3>1. y \in Delivery /\ y.commit = c /\ y.todo = deliveries[d].todo \ {p}
      BY <1>1 DEF Delivery
    <3> HIDE DEF y
    <3>2. \A z : [y EXCEPT !.creating = z] = [commit |-> y.commit, todo |-> y.todo, creating |-> z]
      BY <3>1 DEF Delivery
    <3> QED BY <3>1, <3>2 DEF y
  <2> QED BY <2>1, <2>2, <2>3
<1>4. keys' = keys \cup {k} /\ UNCHANGED deployed
  BY DEF NextProject
<1>5. PushTyped'
  BY <1>1, <1>2, <1>3, <1>4 DEF PushInv, PushTyped
<1>6. deliveries'[d] = r /\ \A e \in Deliveries \ {d} : deliveries'[e] = deliveries[e]
  BY <1>3 DEF PushInv, PushTyped
<1>7. ASSUME NEW e \in Deliveries, NEW q \in GitProjects, q \in deliveries'[e].creating
      PROVE  Holds(e, q)'
  <2>1. CASE e = d
    <3>1. q = p /\ k \notin keys /\ r.creating = {p}
      BY <1>6, <1>7, <2>1
    <3>2. deployed[k] = 0
      BY <1>1, <3>1 DEF PushInv, PushTyped
    <3> QED BY <1>1, <1>4, <1>6, <2>1, <3>1, <3>2 DEF Holds
  <2>2. CASE e # d
    BY <1>4, <1>6, <1>7, <2>2 DEF PushInv, Holds
  <2> QED BY <2>1, <2>2
<1>8. ASSUME NEW e \in Deliveries, NEW f \in Deliveries, NEW q \in GitProjects, e # f,
             q \in deliveries'[e].creating, q \in deliveries'[f].creating
      PROVE  deliveries'[e].commit # deliveries'[f].commit
  <2>1. ASSUME NEW b \in Deliveries \ {d}, q \in deliveries'[b].creating, q \in r.creating
        PROVE  deliveries[b].commit # c
    <3>1. q = p /\ k \notin keys
      BY <2>1
    <3>2. Holds(b, q)
      BY <1>6, <2>1 DEF PushInv
    <3> QED BY <3>1, <3>2 DEF Holds
  <2>2. CASE e = d
    BY <1>6, <1>8, <2>1, <2>2
  <2>3. CASE f = d
    BY <1>6, <1>8, <2>1, <2>3
  <2>4. CASE e # d /\ f # d
    BY <1>6, <1>8, <2>4 DEF PushInv
  <2> QED BY <2>2, <2>3, <2>4
<1>9. \A e \in Deliveries : deliveries'[e].todo # {} => deliveries'[e].commit \in Commits
  BY <1>1, <1>6 DEF PushInv
<1>10. \A q \in Pushes : deployed'[q] = 1 => q \in keys'
  BY <1>4 DEF PushInv
<1> QED BY <1>5, <1>7, <1>8, <1>9, <1>10 DEF PushInv

LEMMA CreateInv ==
    ASSUME PushInv, NEW d \in Deliveries, NEW p \in GitProjects, CreateDeployment(d, p)
    PROVE  PushInv'
<1> DEFINE c == deliveries[d].commit
           k == <<p, c>>
<1>1. Holds(d, p) /\ deliveries[d] \in Delivery
  BY DEF CreateDeployment, PushInv, PushTyped
<1>2. k \in Pushes /\ k \in keys /\ deployed[k] = 0
  BY <1>1 DEF Holds, Pushes
<1>3. UNCHANGED keys /\ deployed' \in {deployed, [deployed EXCEPT ![k] = 1]}
  BY <1>2 DEF CreateDeployment
<1>4. /\ deliveries'[d].creating = {} /\ deliveries'[d].todo = deliveries[d].todo
      /\ deliveries'[d].commit = c
      /\ deliveries' \in [Deliveries -> Delivery]
      /\ \A e \in Deliveries \ {d} : deliveries'[e] = deliveries[e]
  BY <1>1 DEF CreateDeployment, PushInv, PushTyped, Delivery
<1>5. PushTyped'
  BY <1>2, <1>3, <1>4 DEF PushInv, PushTyped
<1>6. ASSUME NEW e \in Deliveries, NEW q \in GitProjects, q \in deliveries'[e].creating
      PROVE  Holds(e, q)'
  <2>1. e # d /\ Holds(e, q) /\ deliveries'[e] = deliveries[e]
    BY <1>4, <1>6 DEF PushInv
  <2>2. <<q, deliveries[e].commit>> # k
    BY <2>1, <1>1 DEF PushInv, Holds
  <2>3. <<q, deliveries[e].commit>> \in Pushes
    BY <2>1 DEF Holds, Pushes
  <2>4. deployed'[<<q, deliveries[e].commit>>] = 0
    BY <1>3, <2>1, <2>2, <2>3 DEF Holds, PushInv, PushTyped
  <2> QED BY <1>3, <2>1, <2>4 DEF Holds
<1>7. \A q \in Pushes : deployed'[q] = 1 => q \in keys'
  BY <1>2, <1>3 DEF PushInv, PushTyped
<1> QED BY <1>4, <1>5, <1>6, <1>7 DEF PushInv

LEMMA ExpireInv ==
    ASSUME PushInv, NEW k \in keys, KeyExpires(k)
    PROVE  PushInv'
<1>1. k \in Pushes /\ k = <<k[1], k[2]>>
  BY DEF PushInv, PushTyped, Pushes
<1>2. UNCHANGED deliveries /\ keys' = keys \ {k} /\ deployed' = [deployed EXCEPT ![k] = 0]
  BY DEF KeyExpires
<1>3. PushTyped'
  BY <1>1, <1>2 DEF PushInv, PushTyped
<1>4. ASSUME NEW d \in Deliveries, NEW p \in GitProjects, p \in deliveries[d].creating
      PROVE  Holds(d, p)'
  <2>1. Holds(d, p)
    BY <1>4 DEF PushInv
  <2>2. <<p, deliveries[d].commit>> # k
    BY <1>1, <2>1 DEF Holds, KeyExpires
  <2>3. <<p, deliveries[d].commit>> \in Pushes
    BY <2>1 DEF Holds, Pushes
  <2> QED BY <1>1, <1>2, <2>1, <2>2, <2>3 DEF Holds, PushInv, PushTyped
<1>5. \A q \in Pushes : deployed'[q] = 1 => q \in keys'
  BY <1>1, <1>2 DEF PushInv, PushTyped
<1> QED BY <1>2, <1>3, <1>4, <1>5 DEF PushInv

\* A push is deployed at most once while its key is remembered (github-routes.ts 580-615), for any
\* number of projects, commits and deliveries, and whatever the settings requests do.
THEOREM PushesDeployOnce == PushSpec => []PushDeploysOnce
<1>1. PushInit => PushInv
  BY DEF PushInit, NoDelivery, PushInv, PushTyped, Delivery, Pushes
<1>2. PushInv /\ [PushNext]_pushVars => PushInv'
  <2> SUFFICES ASSUME PushInv, [PushNext]_pushVars PROVE PushInv'
    OBVIOUS
  <2>1. CASE UNCHANGED <<deliveries, keys, deployed>>
    BY <2>1 DEF PushInv, PushTyped, Holds
  <2>2. ASSUME NEW d \in Deliveries, NEW r \in Repos, NEW c \in Commits, ReceivePush(d, r, c)
        PROVE  PushInv'
    <3>1. PICK todo \in SUBSET GitProjects :
              deliveries' = [deliveries EXCEPT ![d] = [commit |-> c, todo |-> todo, creating |-> {}]]
      BY <2>2 DEF ReceivePush
    <3>2. [commit |-> c, todo |-> todo, creating |-> {}] \in Delivery
      BY DEF Delivery
    <3> QED BY <2>2, <3>1, <3>2, IdleDelivery DEF ReceivePush
  <2>3. ASSUME NEW d \in Deliveries, EndDelivery(d) PROVE PushInv'
    <3>1. NoDelivery \in Delivery /\ NoDelivery.creating = {} /\ NoDelivery.todo = {}
      BY DEF NoDelivery, Delivery
    <3> QED BY <2>3, <3>1, IdleDelivery DEF EndDelivery
  <2>4. ASSUME NEW d \in Deliveries, NEW p \in GitProjects, NextProject(d, p) PROVE PushInv'
    BY <2>4, ReserveInv
  <2>5. ASSUME NEW d \in Deliveries, NEW p \in GitProjects, CreateDeployment(d, p) PROVE PushInv'
    BY <2>5, CreateInv
  <2>6. ASSUME NEW k \in keys, KeyExpires(k) PROVE PushInv'
    BY <2>6, ExpireInv
  <2>7. ASSUME NEW s \in SettingsRequests,
               \/ \E p \in GitProjects, repo \in Repos \cup {NoRepo}, named \in BOOLEAN,
                     auto \in {"keep", "on", "off"} : ReadSettings(s, p, repo, named, auto)
               \/ ListHooks(s) \/ CreateHook(s) \/ HookRefused(s) \/ UpdateSettings(s)
        PROVE  UNCHANGED <<deliveries, keys, deployed>>
    BY <2>7 DEF ReadSettings, ListHooks, CreateHook, HookRefused, UpdateSettings
  <2>8. ASSUME NEW r \in Repos, RemoveHooks(r) PROVE UNCHANGED <<deliveries, keys, deployed>>
    BY <2>8 DEF RemoveHooks
  <2>9. CASE UNCHANGED pushVars
    BY <2>1, <2>9 DEF pushVars
  <2> QED BY <2>1, <2>2, <2>3, <2>4, <2>5, <2>6, <2>7, <2>8, <2>9 DEF PushNext
<1>3. PushInv => PushDeploysOnce
  BY DEF PushInv, PushTyped, PushDeploysOnce, Pushes
<1> QED BY <1>1, <1>2, <1>3, PTL DEF PushSpec


-----------------------------------------------------------------------------
(* VercelTokens *)

\* The tokens Vercel has issued.
Token == Vercels \X (Nat \ {0})
IssuedBy(counts, t) == t \in Token /\ t[2] <= counts[t[1]]
IsIssued(t) == IssuedBy(issued, t)

Busy(q) == requests[q].at # "none"

VercelTyped ==
    /\ rows \in [Ids -> [user : VercelUsers \cup {NoVercelUser}, vercel : Vercels \cup {NoVercel},
                         token : Token \cup {NoToken}]]
    /\ issued \in [Vercels -> Nat]
    /\ rotation \in {"none", "keep", "revoke"}
    /\ requests \in [TokenRequests -> [at : {"none", "refresh", "write"}, row : Nat,
                                       vercel : Vercels \cup {NoVercel}, token : Token \cup {NoToken}]]

\* Every token was issued, and to one row: no other row has it, no request for
\* another row.
TokensApart ==
    /\ \A i \in Ids : rows[i].token # NoToken => IsIssued(rows[i].token)
    /\ \A i \in Ids : rows[i].user # NoVercelUser => rows[i].token # NoToken
    /\ \A q \in TokenRequests : Busy(q) => IsIssued(requests[q].token) /\ requests[q].row \in Ids
    /\ \A i, j \in Ids : i # j /\ rows[i].token # NoToken => rows[i].token # rows[j].token
    /\ \A q \in TokenRequests, i \in Ids :
          Busy(q) /\ requests[q].token = rows[i].token => requests[q].row = i
    /\ \A q, p \in TokenRequests :
          Busy(q) /\ Busy(p) /\ requests[q].token = requests[p].token
              => requests[q].row = requests[p].row

\* A token about to be written is one Vercel accepts; where the old token is
\* taken back at every refresh, nobody else has it yet.
NewTokensValid ==
    \A q \in TokenRequests :
        requests[q].at = "write" =>
            /\ requests[q].token \in valid
            /\ rotation = "revoke" =>
                  /\ \A i \in Ids : rows[i].token # requests[q].token
                  /\ \A p \in TokenRequests : p # q /\ Busy(p) => requests[p].token # requests[q].token

\* A request's token is of the account it read with the row.
RequestsFit ==
    \A q \in TokenRequests :
        Busy(q) => requests[q].token[1] = requests[q].vercel \/ requests[q].row \in spoilt

VercelInv == VercelTyped /\ TokensApart /\ NewTokensValid /\ RequestsFit /\ TokensFitAccount

LEMMA VercelInitInv == VercelInit => VercelInv
BY VercelAssumption
   DEF VercelInit, VercelInv, VercelTyped, TokensApart, NewTokensValid, RequestsFit,
       TokensFitAccount, NoRow, NoRequest, NoToken, Busy, Ids

\* Issuing counts.
LEMMA IssueCounts ==
    ASSUME VercelInv, NEW v \in Vercels, Issue(v)
    PROVE  issued' \in [Vercels -> Nat]
BY DEF Issue, VercelInv, VercelTyped

\* The token that is issued next is new.
LEMMA TokenIsNew ==
    ASSUME VercelInv, NEW v \in Vercels, Issue(v), NEW new, new = <<v, issued[v] + 1>>
    PROVE  /\ new \in Token /\ new # NoToken /\ IssuedBy(issued', new)
           /\ \A t : IsIssued(t) => IssuedBy(issued', t) /\ t # new
           /\ \A i \in Ids : rows[i].token # new
           /\ \A q \in TokenRequests : Busy(q) => requests[q].token # new
<1>. /\ issued \in [Vercels -> Nat] /\ NoVercel \notin Vercels
     /\ \A i \in Ids : rows[i].token # NoToken => IsIssued(rows[i].token)
     /\ \A q \in TokenRequests : Busy(q) => IsIssued(requests[q].token)
  BY VercelAssumption DEF VercelInv, VercelTyped, TokensApart
<1>1. new \in Token /\ new # NoToken
  BY DEF Token, NoToken
<1>2. issued'[v] = issued[v] + 1 /\ \A x \in Vercels : issued'[x] >= issued[x]
  BY DEF Issue
<1>3. IssuedBy(issued', new)
  BY <1>1, <1>2 DEF IsIssued, IssuedBy
<1>4. ASSUME NEW t, IsIssued(t) PROVE IssuedBy(issued', t) /\ t # new
  <2>1. t \in Token /\ t[1] \in Vercels /\ t[2] \in Nat /\ t[2] <= issued[t[1]]
    BY <1>4 DEF IsIssued, IssuedBy, Token
  <2>2. issued' \in [Vercels -> Nat]
    BY IssueCounts
  <2>3. t[2] <= issued'[t[1]]
    BY <1>2, <2>1, <2>2
  <2>4. t # new
    BY <2>1
  <2>. QED BY <2>1, <2>3, <2>4 DEF IsIssued, IssuedBy
<1>. QED BY <1>1, <1>3, <1>4

\* A request that ends takes nothing with it but a token not written.
LEMMA RequestEnds ==
    ASSUME VercelInv, NEW q \in TokenRequests, AnswerRequest(q),
           UNCHANGED <<rows, issued, valid, rotation>>,
           \/ requests[q].at # "write" /\ UNCHANGED spoilt
           \/ spoilt' = spoilt \cup {requests[q].row}
    PROVE  VercelInv'
<1>. DEFINE r == requests[q]
<1>1. VercelTyped'
  BY DEF AnswerRequest, NoRequest, NoToken, VercelInv, VercelTyped
<1>2. \A p \in TokenRequests :
         /\ p # q => requests'[p] = requests[p]
         /\ p = q => requests'[p].at = "none"
  BY DEF AnswerRequest, NoRequest, VercelInv, VercelTyped
<1>3. TokensApart'
  BY <1>2 DEF VercelInv, TokensApart, Busy, IsIssued, IssuedBy
<1>4. NewTokensValid'
  BY <1>2 DEF VercelInv, NewTokensValid, Busy
<1>5. RequestsFit'
  BY <1>2 DEF VercelInv, RequestsFit, Busy
<1>6. TokensFitAccount'
  BY <1>2 DEF VercelInv, TokensFitAccount
<1>. QED BY <1>1, <1>3, <1>4, <1>5, <1>6 DEF VercelInv

\* A request reads the row and the token a user has.
LEMMA ReadExpiringInv ==
    ASSUME VercelInv, NEW q \in TokenRequests, NEW u \in VercelUsers, ReadExpiring(q, u)
    PROVE  VercelInv'
<1>1. PICK i \in Linked(u) :
         requests' = [requests EXCEPT ![q] =
             [at |-> "refresh", row |-> i, vercel |-> rows[i].vercel, token |-> rows[i].token]]
  BY DEF ReadExpiring
<1>2. i \in Ids /\ i \in Nat /\ rows[i].user # NoVercelUser /\ rows[i].token # NoToken
  BY VercelAssumption DEF Linked, Ids, VercelInv, TokensApart
<1>3. UNCHANGED <<rows, issued, valid, rotation, spoilt>> /\ ~Busy(q)
  BY DEF ReadExpiring, NoRequest, Busy
<1>4. /\ requests'[q].at = "refresh" /\ requests'[q].row = i
      /\ requests'[q].vercel = rows[i].vercel /\ requests'[q].token = rows[i].token
      /\ \A p \in TokenRequests : p # q => requests'[p] = requests[p]
  BY <1>1 DEF VercelInv, VercelTyped
<1>5. VercelTyped'
  BY <1>1, <1>2, <1>3 DEF VercelInv, VercelTyped
<1>6. TokensApart'
  BY <1>2, <1>3, <1>4 DEF VercelInv, TokensApart, Busy, IsIssued, IssuedBy
<1>7. NewTokensValid'
  BY <1>2, <1>3, <1>4 DEF VercelInv, NewTokensValid, Busy
<1>8. RequestsFit'
  <2>1. i \in spoilt \/ rows[i].token[1] = rows[i].vercel
    BY <1>2 DEF VercelInv, TokensFitAccount
  <2>. QED BY <1>3, <1>4, <2>1 DEF VercelInv, RequestsFit, Busy
<1>9. TokensFitAccount'
  BY <1>3, <1>4 DEF VercelInv, TokensFitAccount, Busy
<1>. QED BY <1>5, <1>6, <1>7, <1>8, <1>9 DEF VercelInv

\* Vercel issues a new token to a request, or accepts the old one once more.
LEMMA RefreshInv ==
    ASSUME VercelInv, NEW q \in TokenRequests, Refresh(q)
    PROVE  VercelInv'
<1>. DEFINE r == requests[q]
            v == r.token[1]
            new == <<v, issued[v] + 1>>
<1>1. /\ r.at = "refresh" /\ Busy(q) /\ IsIssued(r.token) /\ r.row \in Ids
      /\ r.token \in valid /\ v \in Vercels
  BY DEF Refresh, Busy, VercelInv, TokensApart, IsIssued, IssuedBy, Token
<1>2. UNCHANGED <<rows, rotation, spoilt>>
  BY DEF Refresh
<1>3. CASE rotation = "none"
  <2>1. UNCHANGED <<issued, valid>>
    BY <1>3 DEF Refresh
  <2>2. requests' = [requests EXCEPT ![q].at = "write", ![q].token = r.token]
    BY <1>3 DEF Refresh, NextToken
  <2>3. /\ requests'[q].at = "write" /\ requests'[q].row = r.row
        /\ requests'[q].vercel = r.vercel /\ requests'[q].token = r.token
        /\ \A p \in TokenRequests : p # q => requests'[p] = requests[p]
    BY <2>2 DEF VercelInv, VercelTyped
  <2>4. VercelTyped'
    BY <1>2, <2>1, <2>2 DEF VercelInv, VercelTyped
  <2>5. TokensApart'
    BY <1>1, <1>2, <2>1, <2>3 DEF VercelInv, TokensApart, Busy, IsIssued, IssuedBy
  <2>6. NewTokensValid'
    BY <1>1, <1>2, <1>3, <2>1, <2>3 DEF VercelInv, NewTokensValid, Busy
  <2>7. RequestsFit'
    BY <1>1, <1>2, <2>3 DEF VercelInv, RequestsFit, Busy
  <2>8. TokensFitAccount'
    BY <1>1, <1>2, <2>1, <2>3 DEF VercelInv, TokensFitAccount
  <2>. QED BY <2>4, <2>5, <2>6, <2>7, <2>8 DEF VercelInv
<1>4. CASE rotation # "none"
  <2>1. /\ Issue(v)
        /\ valid' = (IF rotation = "keep" THEN valid ELSE valid \ {r.token}) \cup {new}
        /\ requests' = [requests EXCEPT ![q].at = "write", ![q].token = new]
    BY <1>4 DEF Refresh, NextToken
  <2>2. /\ new \in Token /\ new # NoToken /\ IssuedBy(issued', new)
        /\ \A t : IsIssued(t) => IssuedBy(issued', t) /\ t # new
        /\ \A i \in Ids : rows[i].token # new
        /\ \A p \in TokenRequests : Busy(p) => requests[p].token # new
    BY <1>1, <2>1, TokenIsNew
  <2>3. /\ requests'[q].at = "write" /\ requests'[q].row = r.row
        /\ requests'[q].vercel = r.vercel /\ requests'[q].token = new
        /\ \A p \in TokenRequests : p # q => requests'[p] = requests[p]
    BY <2>1 DEF VercelInv, VercelTyped
  <2>4. VercelTyped'
    <3>1. issued' \in [Vercels -> Nat]
      BY <1>1, <2>1, IssueCounts
    <3>2. new \in Token \cup {NoToken}
      BY <2>2
    <3>. HIDE DEF new
    <3>. QED BY <1>2, <2>1, <3>1, <3>2 DEF VercelInv, VercelTyped
  <2>. HIDE DEF new
  <2>5. TokensApart'
    <3>1. \A i \in Ids : rows'[i].token # NoToken => IssuedBy(issued', rows'[i].token)
      BY <1>2, <2>2 DEF VercelInv, TokensApart
    <3>2. \A p \in TokenRequests : Busy(p)' => IssuedBy(issued', requests'[p].token) /\ requests'[p].row \in Ids
      BY <1>1, <2>2, <2>3 DEF VercelInv, TokensApart, Busy
    <3>3. \A p \in TokenRequests, i \in Ids :
             Busy(p)' /\ requests'[p].token = rows'[i].token => requests'[p].row = i
      BY <1>2, <2>2, <2>3 DEF VercelInv, TokensApart, Busy
    <3>4. \A p, o \in TokenRequests :
             Busy(p)' /\ Busy(o)' /\ requests'[p].token = requests'[o].token
                 => requests'[p].row = requests'[o].row
      BY <1>1, <2>2, <2>3 DEF VercelInv, TokensApart, Busy
    <3>. QED BY <1>2, <3>1, <3>2, <3>3, <3>4 DEF VercelInv, TokensApart, Busy, IsIssued
  <2>6. NewTokensValid'
    <3>1. ASSUME NEW p \in TokenRequests, p # q, requests[p].at = "write"
          PROVE  requests[p].token \in valid'
      <4>1. requests[p].token \in valid
        BY <3>1 DEF VercelInv, NewTokensValid
      <4>2. rotation = "revoke" => requests[p].token # r.token
        BY <1>1, <3>1 DEF VercelInv, NewTokensValid
      <4>3. rotation \in {"keep", "revoke"}
        BY <1>4 DEF VercelInv, VercelTyped
      <4>. QED BY <2>1, <4>1, <4>2, <4>3
    <3>2. ASSUME NEW p \in TokenRequests, p # q, requests[p].at = "write", rotation = "revoke"
          PROVE  /\ \A i \in Ids : rows[i].token # requests[p].token
                 /\ \A o \in TokenRequests : o # p /\ Busy(o) => requests[o].token # requests[p].token
                 /\ new # requests[p].token
      BY <2>2, <3>2 DEF VercelInv, NewTokensValid, Busy
    <3>3. ASSUME NEW p \in TokenRequests, requests'[p].at = "write"
          PROVE  requests'[p].token \in valid'
      <4>1. CASE p = q
        BY <2>1, <2>3, <4>1
      <4>2. CASE p # q
        BY <2>3, <3>1, <3>3, <4>2
      <4>. QED BY <4>1, <4>2
    <3>4. ASSUME NEW p \in TokenRequests, requests'[p].at = "write", rotation = "revoke"
          PROVE  /\ \A i \in Ids : rows[i].token # requests'[p].token
                 /\ \A o \in TokenRequests :
                       o # p /\ requests'[o].at # "none" => requests'[o].token # requests'[p].token
      BY <2>2, <2>3, <3>2, <3>4 DEF Busy
    <3>. QED BY <1>2, <3>3, <3>4 DEF NewTokensValid, Busy
  <2>7. RequestsFit'
    <3>1. new[1] = v
      BY DEF new
    <3>. QED BY <1>1, <1>2, <2>3, <3>1 DEF VercelInv, RequestsFit, Busy
  <2>8. TokensFitAccount'
    <3>1. ASSUME NEW i \in Ids, rows[i].token \in valid, rows[i].token \notin valid'
          PROVE  i = r.row
      BY <1>1, <2>1, <3>1 DEF VercelInv, TokensApart
    <3>. QED BY <1>1, <1>2, <2>3, <3>1 DEF VercelInv, TokensFitAccount
  <2>. QED BY <2>4, <2>5, <2>6, <2>7, <2>8 DEF VercelInv
<1>. QED BY <1>3, <1>4

\* A request writes its token to the row it read, if the row is still there.
LEMMA WriteTokenInv ==
    ASSUME VercelInv, NEW q \in TokenRequests, WriteToken(q)
    PROVE  VercelInv'
<1>. DEFINE r == requests[q]
<1>1. /\ r.at = "write" /\ Busy(q) /\ r.row \in Ids /\ r.token \in valid
      /\ IsIssued(r.token) /\ r.token \in Token
      /\ r.token[1] = r.vercel \/ r.row \in spoilt
  BY DEF WriteToken, Busy, VercelInv, TokensApart, NewTokensValid, RequestsFit, IsIssued, IssuedBy
<1>2. UNCHANGED <<issued, valid, rotation>>
  BY DEF WriteToken
<1>3. /\ requests'[q].at = "none"
      /\ \A p \in TokenRequests : p # q => requests'[p] = requests[p]
      /\ requests' = [requests EXCEPT ![q] = NoRequest]
  BY DEF WriteToken, AnswerRequest, NoRequest, VercelInv, VercelTyped
<1>4. CASE rows[r.row].user = NoVercelUser
  <2>1. rows' = rows
    <3>1. \A i \in Ids : i \notin Written(q)
      BY <1>4 DEF Written
    <3>2. rows' = [i \in Ids |-> rows[i]]
      BY <3>1 DEF WriteToken
    <3>. QED BY <3>2 DEF VercelInv, VercelTyped
  <2>2. VercelTyped'
    BY <1>2, <1>3, <2>1 DEF NoRequest, NoToken, VercelInv, VercelTyped
  <2>3. TokensApart'
    BY <1>2, <1>3, <2>1 DEF VercelInv, TokensApart, Busy, IsIssued
  <2>4. NewTokensValid'
    BY <1>2, <1>3, <2>1 DEF VercelInv, NewTokensValid, Busy
  <2>5. RequestsFit'
    BY <1>2, <1>3, <2>1 DEF WriteToken, VercelInv, RequestsFit, Busy
  <2>6. TokensFitAccount'
    <3>1. spoilt \subseteq spoilt'
      BY DEF WriteToken
    <3>. QED BY <1>2, <1>3, <1>4, <2>1, <3>1 DEF VercelInv, TokensFitAccount
  <2>. QED BY <2>2, <2>3, <2>4, <2>5, <2>6 DEF VercelInv
<1>5. CASE rows[r.row].user # NoVercelUser
  <2>1. /\ rows'[r.row] = [rows[r.row] EXCEPT !.token = r.token]
        /\ \A i \in Ids : i # r.row => rows'[i] = rows[i]
        /\ rows' \in [Ids -> [user : VercelUsers \cup {NoVercelUser}, vercel : Vercels \cup {NoVercel},
                              token : Token \cup {NoToken}]]
    BY <1>1, <1>5 DEF WriteToken, Written, VercelInv, VercelTyped
  <2>2. /\ rows'[r.row].user = rows[r.row].user /\ rows'[r.row].vercel = rows[r.row].vercel
        /\ rows'[r.row].token = r.token
    BY <1>1, <2>1 DEF VercelInv, VercelTyped
  <2>3. r.token # NoToken
    BY <1>1, VercelAssumption DEF Token, NoToken
  <2>4. VercelTyped'
    BY <1>2, <1>3, <2>1 DEF NoRequest, NoToken, VercelInv, VercelTyped
  <2>5. TokensApart'
    <3>1. \A i \in Ids : i # r.row => rows[i].token # r.token
      BY <1>1 DEF VercelInv, TokensApart
    <3>2. \A p \in TokenRequests : Busy(p) /\ requests[p].token = r.token => requests[p].row = r.row
      BY <1>1 DEF VercelInv, TokensApart
    <3>3. \A i \in Ids : /\ rows'[i].token # NoToken => IsIssued(rows'[i].token)
                         /\ rows'[i].user # NoVercelUser => rows'[i].token # NoToken
      BY <1>1, <2>1, <2>2, <2>3 DEF VercelInv, TokensApart
    <3>4. \A i, j \in Ids : i # j /\ rows'[i].token # NoToken => rows'[i].token # rows'[j].token
      BY <1>1, <2>1, <2>2, <2>3, <3>1 DEF VercelInv, TokensApart
    <3>5. \A p \in TokenRequests, i \in Ids :
             p # q /\ Busy(p) /\ requests[p].token = rows'[i].token => requests[p].row = i
      BY <1>1, <2>1, <2>2, <3>2 DEF VercelInv, TokensApart
    <3>. QED BY <1>2, <1>3, <3>3, <3>4, <3>5 DEF VercelInv, TokensApart, Busy, IsIssued
  <2>6. NewTokensValid'
    BY <1>1, <1>2, <1>3, <2>1, <2>2 DEF VercelInv, NewTokensValid, Busy
  <2>7. RequestsFit'
    BY <1>2, <1>3 DEF WriteToken, VercelInv, RequestsFit, Busy
  <2>8. TokensFitAccount'
    <3>1. /\ spoilt \subseteq spoilt'
          /\ r.row \notin spoilt' => rows[r.row].vercel = r.vercel
      BY DEF WriteToken
    <3>2. ASSUME NEW i \in Ids, i # r.row, rows'[i].user # NoVercelUser, i \notin spoilt'
          PROVE  /\ rows'[i].token[1] = rows'[i].vercel
                 /\ \/ rows'[i].token \in valid'
                    \/ \E p \in TokenRequests : requests'[p].at = "write" /\ requests'[p].row = i
      BY <1>1, <1>2, <1>3, <2>1, <3>1, <3>2 DEF VercelInv, TokensFitAccount
    <3>3. r.row \notin spoilt' => rows'[r.row].token[1] = rows'[r.row].vercel
                                  /\ rows'[r.row].token \in valid'
      BY <1>1, <1>2, <2>2, <3>1
    <3>. QED BY <3>2, <3>3 DEF TokensFitAccount
  <2>. QED BY <2>4, <2>5, <2>6, <2>7, <2>8 DEF VercelInv
<1>. QED BY <1>4, <1>5

\* A row that is deleted keeps its account and token, and no user has it.
LEMMA DeleteInv ==
    ASSUME VercelInv, NEW u \in VercelUsers, Delete(u)
    PROVE  VercelInv'
<1>1. \A i \in Ids : /\ rows'[i].vercel = rows[i].vercel /\ rows'[i].token = rows[i].token
                     /\ rows'[i].user \in {rows[i].user, NoVercelUser}
  BY DEF Delete, VercelInv, VercelTyped
<1>2. UNCHANGED <<issued, valid, rotation, requests, spoilt>>
  BY DEF Delete
<1>3. VercelTyped'
  BY DEF Delete, VercelInv, VercelTyped
<1>4. TokensApart'
  BY <1>1, <1>2 DEF VercelInv, TokensApart, Busy, IsIssued
<1>5. NewTokensValid' /\ RequestsFit'
  BY <1>1, <1>2 DEF VercelInv, NewTokensValid, RequestsFit, Busy
<1>6. TokensFitAccount'
  BY <1>1, <1>2 DEF VercelInv, TokensFitAccount
<1>. QED BY <1>3, <1>4, <1>5, <1>6 DEF VercelInv

\* A row gets a new token with its account and user.
LEMMA ConnectInv ==
    ASSUME VercelInv, NEW u \in VercelUsers, NEW v \in Vercels, Connect(u, v)
    PROVE  VercelInv'
<1>. DEFINE t == <<v, issued[v] + 1>>
<1>1. PICK i \in Upserted(u, v) :
         rows' = [j \in Ids |-> IF j = i THEN [user |-> u, vercel |-> v, token |-> t]
                                ELSE IF rows[j].user = u THEN [rows[j] EXCEPT !.user = NoVercelUser]
                                ELSE rows[j]]
  BY DEF Connect
<1>2. /\ Issue(v) /\ valid' = valid \cup {t}
      /\ UNCHANGED <<rotation, requests, spoilt>>
  BY DEF Connect
<1>3. /\ t \in Token /\ t # NoToken /\ IssuedBy(issued', t) /\ t[1] = v
      /\ \A x : IsIssued(x) => IssuedBy(issued', x) /\ x # t
      /\ \A j \in Ids : rows[j].token # t
      /\ \A q \in TokenRequests : Busy(q) => requests[q].token # t
  BY <1>2, TokenIsNew
<1>4. i \in Ids
  BY DEF Upserted, Linked, Fresh
<1>5. issued' \in [Vercels -> Nat]
  BY <1>2, IssueCounts
<1>. HIDE DEF t
<1>6. /\ rows'[i].user = u /\ rows'[i].vercel = v /\ rows'[i].token = t
      /\ \A j \in Ids : j # i =>
            /\ rows'[j].vercel = rows[j].vercel /\ rows'[j].token = rows[j].token
            /\ rows'[j].user \in {rows[j].user, NoVercelUser}
  BY <1>1, <1>4 DEF VercelInv, VercelTyped
<1>7. VercelTyped'
  BY <1>1, <1>2, <1>3, <1>4, <1>5 DEF VercelInv, VercelTyped
<1>8. TokensApart'
  <2>1. \A j \in Ids : /\ rows'[j].token # NoToken => IssuedBy(issued', rows'[j].token)
                       /\ rows'[j].user # NoVercelUser => rows'[j].token # NoToken
    BY <1>3, <1>6 DEF VercelInv, TokensApart
  <2>2. \A q \in TokenRequests : Busy(q) => IssuedBy(issued', requests[q].token) /\ requests[q].row \in Ids
    BY <1>3 DEF VercelInv, TokensApart
  <2>3. \A j, k \in Ids : j # k /\ rows'[j].token # NoToken => rows'[j].token # rows'[k].token
    BY <1>3, <1>6 DEF VercelInv, TokensApart
  <2>4. \A q \in TokenRequests, j \in Ids :
           Busy(q) /\ requests[q].token = rows'[j].token => requests[q].row = j
    BY <1>3, <1>6 DEF VercelInv, TokensApart
  <2>. QED BY <1>2, <2>1, <2>2, <2>3, <2>4 DEF VercelInv, TokensApart, Busy, IsIssued
<1>9. NewTokensValid'
  <2>1. \A q \in TokenRequests : requests[q].at = "write" => Busy(q)
    BY DEF Busy
  <2>. QED BY <1>2, <1>3, <1>6, <2>1 DEF VercelInv, NewTokensValid, Busy
<1>10. RequestsFit'
  BY <1>2 DEF VercelInv, RequestsFit, Busy
<1>11. TokensFitAccount'
  BY <1>2, <1>3, <1>6 DEF VercelInv, TokensFitAccount
<1>. QED BY <1>7, <1>8, <1>9, <1>10, <1>11 DEF VercelInv

\* Every step keeps the tokens apart and valid.
LEMMA VercelNextInv == VercelInv /\ [VercelNext]_vercelVars => VercelInv'
<1>. SUFFICES ASSUME VercelInv, [VercelNext]_vercelVars PROVE VercelInv'
  OBVIOUS
<1>1. CASE UNCHANGED vercelVars
  BY <1>1 DEF vercelVars, VercelInv, VercelTyped, TokensApart, NewTokensValid, RequestsFit,
              TokensFitAccount, Busy, IsIssued
<1>2. ASSUME NEW u \in VercelUsers, Delete(u) PROVE VercelInv'
  BY <1>2, DeleteInv
<1>3. ASSUME NEW u \in VercelUsers, NEW v \in Vercels, Connect(u, v) PROVE VercelInv'
  BY <1>3, ConnectInv
<1>4. ASSUME NEW q \in TokenRequests, NEW u \in VercelUsers, ReadExpiring(q, u) PROVE VercelInv'
  BY <1>4, ReadExpiringInv
<1>5. ASSUME NEW q \in TokenRequests, Refresh(q) PROVE VercelInv'
  BY <1>5, RefreshInv
<1>6. ASSUME NEW q \in TokenRequests, RefreshRefused(q) \/ WriteLost(q) PROVE VercelInv'
  BY <1>6, RequestEnds DEF RefreshRefused, WriteLost
<1>7. ASSUME NEW q \in TokenRequests, WriteToken(q) PROVE VercelInv'
  BY <1>7, WriteTokenInv
<1>. QED BY <1>1, <1>2, <1>3, <1>4, <1>5, <1>6, <1>7 DEF VercelNext

\* A connection's refresh token is of the account its row names, and Vercel
\* accepts it or is about to be written over, unless the account changed under
\* a refresh or a refresh died before its write: for any numbers of users,
\* accounts, connections and requests, and whatever Vercel does with old tokens.
THEOREM TokensStayValid == VercelSpec => []TokensFitAccount
<1>1. VercelInit => VercelInv
  BY VercelInitInv
<1>2. VercelInv /\ [VercelNext]_vercelVars => VercelInv'
  BY VercelNextInv
<1>3. VercelInv => TokensFitAccount
  BY DEF VercelInv
<1>. QED BY <1>1, <1>2, <1>3, PTL DEF VercelSpec

-----------------------------------------------------------------------------
(* Databases *)

Ats == {"idle", "primary", "fallback", "poll", "quiet", "post", "look", "list", "relist", "uri",
        "commit", "done"}

\* The values of the variables; no counter passes its bound.
Typed ==
    /\ neon \in [role : {"absent", "made", "visible"}, database : BOOLEAN, password : Nat,
                 endpoint : BOOLEAN, background : Nat]
    /\ ops \in [Kinds -> {"none", "running", "finished", "failed"}]
    /\ request \in [at : Ats, custom : BOOLEAN, for : Mutations \cup {"project"},
                    does : Mutations \cup {"project"}, tries : 0..WaitRetries, polls : 0..WaitRetries,
                    looks : 0..RoleRetries, rounds : 0..RoleRetries, password : Nat,
                    misread : BOOLEAN]
    /\ database \in [status : {"none", "ready"}, password : Nat]

\* Which function and mutation a request can be at, at each step.
InOrder ==
    /\ request.does \in {request.for, "role"}
    /\ request.for = "project" =>
          request.does = "project" /\ request.at \in {"idle", "primary", "fallback", "poll", "quiet", "done"}
    /\ request.at \in {"idle", "primary", "fallback"} => request.for = "project"
    /\ request.at \in {"list", "relist", "uri", "commit"} => request.for = "endpoint" /\ request.does = "endpoint"
    /\ request.at = "look" => request.does = "role"
    /\ request.at = "quiet" /\ request.for # "project" => request.tries < WaitRetries

\* Who waits for an operation, and what the operations have left behind.
Waited ==
    /\ request.for = "project" => \A m \in Mutations : ops[m] = "none"
    /\ \A m \in Mutations : ops[m] = "running" =>
          request.at = "done" \/ (request.at = "poll" /\ request.does = m)
    /\ ops["endpoint"] = "failed" =>
          request.at = "done" \/ (request.at = "poll" /\ request.does = "endpoint")
    /\ ops["role"] \in {"running", "failed"} => neon.role = "absent"
    /\ ops["password"] # "none" => neon.role = "visible"
    /\ ops["database"] \in {"running", "failed"} => ~neon.database
    /\ \A m \in {"database", "password"} : ops[m] = "running" => neon.role = "visible"
    /\ ops["database"] = "finished" => neon.database
    /\ ops["password"] = "finished" => neon.password = request.password
    /\ neon.database => neon.role = "visible"

\* What each function may rely on when its predecessors have returned.
Done ==
    /\ request.at # "done" /\ request.for \in {"password", "endpoint"} => neon.database \/ request.misread
    /\ request.at # "done" /\ request.for = "endpoint" => ops["password"] = "finished"
    /\ request.at = "relist" => ops["endpoint"] = "finished"
    /\ request.at \in {"uri", "commit"} => neon.endpoint
    /\ request.at # "done" => database.status = "none"
    /\ ReadyIsUsable

Inv == Typed /\ InOrder /\ Waited /\ Done

-----------------------------------------------------------------------------
\* The counters start within their bounds.
LEMMA Zero == 0 \in 0..WaitRetries /\ 0 \in 0..RoleRetries
<1>1. WaitRetries \in Nat /\ RoleRetries \in Nat
  BY DatabaseAssumption
<1> QED BY <1>1

LEMMA InitInv == DatabasesInit => Inv
BY Zero
   DEF DatabasesInit, Inv, Typed, InOrder, Waited, Done, ReadyIsUsable, Ats, Kinds, Mutations

\* The steps of the provider.
LEMMA ProviderInv == ASSUME Inv, ProviderStep PROVE Inv'
<1> USE DEF Inv, Typed, InOrder, Waited, Done, ReadyIsUsable, Ats, Kinds, Mutations
<1>1. CASE RoleVisible
  BY <1>1 DEF RoleVisible
<1>2. CASE StartBackground
  BY <1>2 DEF StartBackground, Pending
<1>3. ASSUME NEW k \in Kinds, Finish(k) PROVE Inv'
  <2>1. CASE ops' = [ops EXCEPT ![k] = "failed"] /\ UNCHANGED neon
    BY <1>3, <2>1 DEF Finish
  <2>2. CASE ops' = [ops EXCEPT ![k] = "finished"] /\ Effect(k)
    <3>1. CASE k = "role"
      BY <1>3, <2>2, <3>1 DEF Finish, Effect
    <3>2. CASE k = "database"
      BY <1>3, <2>2, <3>2, ZenonT(60) DEF Finish, Effect
    <3>3. CASE k = "password"
      BY <1>3, <2>2, <3>3 DEF Finish, Effect
    <3>4. CASE k = "endpoint"
      <4>1. neon' = [neon EXCEPT !.endpoint = TRUE] /\ ops' = [ops EXCEPT !["endpoint"] = "finished"]
        BY <2>2, <3>4 DEF Effect
      <4>2. Typed' /\ InOrder' /\ Waited'
        <5>1. Typed'
          BY <1>3, <4>1 DEF Finish
        <5>2. InOrder'
          BY <1>3 DEF Finish
        <5>3. \A m \in Mutations \ {"endpoint"} : ops'[m] = ops[m]
          BY <4>1
        <5>4. Waited'
          BY <1>3, <3>4, <4>1, <5>3 DEF Finish
        <5> QED BY <5>1, <5>2, <5>4
      <4>3. database.status = "none"
        BY <1>3, <3>4 DEF Finish
      <4>4. Done'
        BY <1>3, <3>4, <4>1, <4>3 DEF Finish
      <4> QED BY <4>2, <4>4
    <3>5. CASE k \notin {"role", "database", "password", "endpoint"}
      BY <1>3, <2>2, <3>5 DEF Finish, Effect
    <3> QED BY <3>1, <3>2, <3>3, <3>4, <3>5
  <2> QED BY <1>3, <2>1, <2>2, SMTT(30) DEF Finish
<1> QED BY <1>1, <1>2, <1>3 DEF ProviderStep

\* A request that gives up.
LEMMA FailInv == ASSUME Inv, request.at # "done", Fail PROVE Inv'
BY DEF Fail, To, Inv, Typed, InOrder, Waited, Done, ReadyIsUsable, Ats, Kinds, Mutations

\* The next function starts, its predecessors being done or taken for done.
LEMMA BeginInv ==
    ASSUME Inv, UNCHANGED <<neon, ops, database>>,
           NEW m \in Mutations, NEW x \in BOOLEAN, request' = [Begun(m) EXCEPT !.misread = x],
           request.misread => x,
           request.at \notin {"done", "idle", "primary", "fallback"},
           m \in {"role", "database"} => request.for \in {"project", "role"},
           \A k \in Mutations : ops[k] # "running",
           ops["endpoint"] # "failed",
           m \in {"password", "endpoint"} => neon.database \/ x,
           m = "endpoint" => ops["password"] = "finished"
    PROVE  Inv'
<1> USE DEF Inv, Ats, Mutations
<1>1. Typed'
  <2>1. (IF m = "endpoint" THEN "list" ELSE "post") \in Ats
    OBVIOUS
  <2> QED BY <2>1, Zero, ZenonT(60) DEF Begun, Typed
<1>4. InOrder'
  BY DEF Begun, Typed, InOrder
<1>2. Waited'
  BY DEF Begun, Typed, InOrder, Waited, Kinds
<1>3. Done'
  BY DEF Begun, Typed, InOrder, Waited, Done, ReadyIsUsable, Kinds
<1> QED BY <1>1, <1>4, <1>2, <1>3

LEMMA BeginSame ==
    ASSUME Inv, NEW m \in Mutations
    PROVE  Begun(m) = [Begun(m) EXCEPT !.misread = request.misread]
BY DEF Begun, Inv, Typed

\* Steps that move the request within a function, no mutation being under way.
Settled ==
    /\ \A k \in Mutations : ops[k] # "running"
    /\ ops["endpoint"] # "failed"

\* With no mutation under way, a request that keeps its function may move to any step that relies on
\* nothing more than its function does.
LEMMA MovesInv ==
    ASSUME Inv, Settled, UNCHANGED <<neon, ops, database>>, request.at # "done",
           request'.for = request.for, request'.password = request.password,
           request.misread => request'.misread,
           request'.at \notin {"relist", "uri", "commit", "done"}
    PROVE  Waited' /\ Done'
<1>1. Waited'
  <2>1. request'.for = "project" => \A m \in Mutations : ops'[m] = "none"
    BY DEF Inv, Waited
  <2>2. \A m \in Mutations : ops'[m] # "running"
    BY DEF Settled
  <2>3. ops'["endpoint"] # "failed"
    BY DEF Settled
  <2>4. ops'["database"] \in {"running", "failed"} => ~neon'.database
    BY DEF Inv, Waited
  <2>5. /\ ops'["database"] = "finished" => neon'.database
        /\ ops'["password"] = "finished" => neon'.password = request'.password
        /\ neon'.database => neon'.role = "visible"
        /\ ops'["role"] \in {"running", "failed"} => neon'.role = "absent"
        /\ ops'["password"] # "none" => neon'.role = "visible"
    BY DEF Inv, Waited
  <2> QED BY <2>1, <2>2, <2>3, <2>4, <2>5 DEF Waited, Mutations
<1>2. Done'
  BY DEF Inv, Done, ReadyIsUsable
<1> QED BY <1>1, <1>2

LEMMA PollAgainInv ==
    ASSUME Inv, PollAgain, UNCHANGED <<neon, ops, database>>, request.at \in {"poll", "quiet"}
    PROVE  Inv'
<1> USE DEF PollAgain, Inv, Ats, Mutations
<1>1. Typed' /\ InOrder'
  BY DatabaseAssumption DEF Typed, InOrder
<1>2. Waited' /\ Done'
  BY DEF Typed, InOrder, Waited, Done, ReadyIsUsable, Kinds
<1> QED BY <1>1, <1>2

\* Away from a poll no mutation is under way.
LEMMA SettledOutsidePoll == Inv /\ request.at \notin {"poll", "done"} => Settled
BY DEF Inv, Waited, Settled, Mutations

LEMMA SettledAfterPoll ==
    Inv /\ request.at = "poll" /\ ops[request.does] = "finished" => Settled
BY DEF Inv, Waited, Settled, Mutations

LEMMA AskInv == ASSUME Inv, NEW custom \in BOOLEAN, Ask(custom) PROVE Inv'
BY ZenonT(60) DEF Ask, Inv, Typed, InOrder, Waited, Done, ReadyIsUsable, Ats, Kinds, Mutations

LEMMA CreateProjectInv == ASSUME Inv, CreateProject PROVE Inv'
<1> USE DEF CreateProject, To, Inv, Ats, Kinds, Mutations
<1>1. Typed' /\ InOrder'
  BY ZenonT(60) DEF Typed, InOrder
<1>2. Waited'
  BY DEF Typed, InOrder, Waited
<1>3. Done'
  BY DEF Typed, InOrder, Waited, Done, ReadyIsUsable
<1> QED BY <1>1, <1>2, <1>3

LEMMA ProjectRefusedInv == ASSUME Inv, ProjectRefused PROVE Inv'
<1>1. CASE request.at = "fallback" /\ Fail
  BY <1>1, FailInv
<1>2. CASE request.at = "primary" /\ To("fallback") /\ UNCHANGED <<neon, ops, database>>
  BY <1>2 DEF To, Inv, Typed, InOrder, Waited, Done, ReadyIsUsable, Ats, Kinds, Mutations
<1> QED BY <1>1, <1>2 DEF ProjectRefused

LEMMA MutationBusyInv == ASSUME Inv, MutationBusy PROVE Inv'
<1>1. CASE Fail
  BY <1>1, FailInv DEF MutationBusy
<1>2. CASE ~Fail
  <2>1. Settled
    BY SettledOutsidePoll DEF MutationBusy
  <2>2. Typed'
    BY <1>2, Zero, ZenonT(60) DEF MutationBusy, Inv, Typed, Ats, Mutations
  <2>4. InOrder'
    BY <1>2, Zero, ZenonT(60) DEF MutationBusy, Inv, Typed, InOrder, Ats, Mutations
  <2>3. Waited' /\ Done'
    <3>1. request' = [request EXCEPT !.at = "quiet", !.polls = 0] /\ UNCHANGED <<neon, ops, database>>
      BY <1>2 DEF MutationBusy
    <3>2. /\ request'.for = request.for /\ request'.password = request.password
          /\ request'.at = "quiet" /\ request.at # "done"
          /\ request'.misread = request.misread
      BY <3>1 DEF MutationBusy, Inv, Typed
    <3> QED BY <2>1, <3>1, <3>2, MovesInv
  <2> QED BY <2>2, <2>4, <2>3 DEF Inv
<1> QED BY <1>1, <1>2

LEMMA WaitIdleInv == ASSUME Inv, WaitIdle PROVE Inv'
<1>1. CASE PollAgain
  BY <1>1, PollAgainInv DEF WaitIdle
<1>2. CASE AfterQuiet /\ request.does = "project"
  <2>1. Settled /\ request.for = "project"
    BY <1>2, SettledOutsidePoll DEF WaitIdle, Inv, InOrder
  <2>2. PICK m \in {"role", "database"} : Begin(m)
    BY <1>2 DEF AfterQuiet
  <2>3. m \in Mutations /\ request.misread \in BOOLEAN
    BY DEF Inv, Typed, Mutations
  <2>4. request' = [Begun(m) EXCEPT !.misread = request.misread]
    BY <2>2, <2>3, BeginSame DEF Begin
  <2> QED BY <2>1, <2>3, <2>4, <1>2, BeginInv DEF WaitIdle, Settled, Mutations
<1>3. CASE AfterQuiet /\ request.does # "project"
  <2>1. Settled
    BY SettledOutsidePoll DEF WaitIdle
  <2>2. request.for # "project" /\ request.tries < WaitRetries
    BY <1>3 DEF WaitIdle, Inv, InOrder
  <2>3. Typed' /\ InOrder'
    <3>1. request.tries + 1 \in 0..WaitRetries
      BY <2>2, DatabaseAssumption DEF Inv, Typed
    <3>2. request' = [request EXCEPT !.at = "post", !.tries = request.tries + 1]
      BY <1>3 DEF AfterQuiet
    <3>3. Typed'
      BY <3>1, <3>2 DEF WaitIdle, Inv, Typed, Ats
    <3>4. InOrder'
      BY <2>2, <3>2 DEF Inv, Typed, InOrder, Mutations
    <3> QED BY <3>3, <3>4
  <2>4. Waited' /\ Done'
    <3>1. request' = [request EXCEPT !.at = "post", !.tries = request.tries + 1]
          /\ UNCHANGED <<neon, ops, database>>
      BY <1>3 DEF WaitIdle, AfterQuiet
    <3>2. /\ request'.for = request.for /\ request'.password = request.password
          /\ request'.at = "post" /\ request.at # "done"
          /\ request'.misread = request.misread
      BY <3>1 DEF WaitIdle, Inv, Typed
    <3> QED BY <2>1, <3>1, <3>2, MovesInv
  <2> QED BY <2>3, <2>4 DEF Inv
<1> QED BY <1>1, <1>2, <1>3 DEF WaitIdle

\* The nested ensureRoleOnBranch starts, or the request gives up.
LEMMA RoleMissingInv ==
    ASSUME Inv, RoleMissing, request.at \in {"post", "poll"}, Settled,
           request.does \in {"database", "password"}
    PROVE  Inv'
<1>1. CASE To("done")
  BY <1>1, FailInv DEF RoleMissing, Fail
<1>2. CASE EnsureRole /\ request.rounds < RoleRetries
  <2>1. request.rounds + 1 \in 0..RoleRetries
    BY <1>2, DatabaseAssumption DEF Inv, Typed
  <2>2. Typed'
    BY <1>2, <2>1, Zero DEF RoleMissing, EnsureRole, Inv, Typed, Ats, Mutations
  <2>3. InOrder'
    BY <1>2 DEF RoleMissing, EnsureRole, Inv, Typed, InOrder, Ats, Mutations
  <2>4. Waited' /\ Done'
    <3>1. /\ request'.for = request.for /\ request'.password = request.password
          /\ request'.at = "post" /\ request.at # "done"
          /\ request'.misread = request.misread
      BY <1>2 DEF EnsureRole, Inv, Typed
    <3> QED BY <3>1, MovesInv DEF RoleMissing
  <2> QED BY <2>2, <2>3, <2>4 DEF Inv
<1> QED BY <1>1, <1>2 DEF RoleMissing

\* The mutation under way has been carried out, need not be, or is taken for carried out.
LEMMA OnwardInv ==
    ASSUME Inv, NEW x \in BOOLEAN, request' = [Onward EXCEPT !.misread = x], request.misread => x,
           UNCHANGED <<neon, ops, database>>, request.at \in {"post", "poll"}, Settled,
           request.does = "database" => neon.database \/ x,
           request.does = "password" => ops["password"] = "finished",
           request.does = "endpoint" => ops["endpoint"] = "finished",
           request.does = "project" => request.at = "poll"
    PROVE  Inv'
<1>1. CASE request.does = "role"
  <2>1. request' = [request EXCEPT !.at = "look", !.looks = 0, !.misread = x]
    BY <1>1 DEF Onward
  <2>2. Typed'
    BY <2>1, Zero DEF Inv, Typed, Ats
  <2>3. InOrder'
    BY <1>1, <2>1 DEF Inv, Typed, InOrder, Mutations
  <2>4. Waited' /\ Done'
    <3>1. /\ request'.for = request.for /\ request'.password = request.password
          /\ request'.at = "look" /\ request.at # "done"
          /\ request'.misread = x
      BY <2>1 DEF Inv, Typed
    <3> QED BY <3>1, MovesInv
  <2> QED BY <2>2, <2>3, <2>4 DEF Inv
<1>2. CASE request.does = "database"
  BY <1>2, BeginInv DEF Onward, Settled, Mutations
<1>3. CASE request.does = "password"
  <2>1. neon.database \/ x
    BY <1>3 DEF Inv, InOrder, Done
  <2> QED BY <1>3, <2>1, BeginInv DEF Onward, Settled, Mutations
<1>4. CASE request.does = "endpoint"
  <2>1. request' = [request EXCEPT !.at = "relist", !.misread = x]
    BY <1>4 DEF Onward
  <2>2. Typed' /\ InOrder'
    BY <1>4, <2>1 DEF Inv, Typed, InOrder, Ats, Mutations
  <2>3. Waited' /\ Done'
    BY <1>4, <2>1 DEF Settled, Inv, Typed, InOrder, Waited, Done, ReadyIsUsable, Kinds, Mutations
  <2> QED BY <2>2, <2>3 DEF Inv
<1>5. CASE request.does = "project"
  <2>1. request.for = "project"
    BY <1>5 DEF Inv, InOrder
  <2>2. request' = [request EXCEPT !.at = "quiet", !.polls = 0, !.misread = x]
    BY <1>5 DEF Onward
  <2>3. Typed'
    BY <2>2, Zero DEF Inv, Typed, Ats
  <2>4. InOrder'
    BY <2>1, <2>2 DEF Inv, Typed, InOrder, Mutations
  <2>5. Waited' /\ Done'
    <3>1. /\ request'.for = request.for /\ request'.password = request.password
          /\ request'.at = "quiet" /\ request.at # "done"
          /\ request'.misread = x
      BY <2>2 DEF Inv, Typed
    <3> QED BY <3>1, MovesInv
  <2> QED BY <2>3, <2>4, <2>5 DEF Inv
<1> QED BY <1>1, <1>2, <1>3, <1>4, <1>5 DEF Inv, Typed, Mutations

LEMMA ProceedInv ==
    ASSUME Inv, Proceed, UNCHANGED <<neon, ops, database>>, request.at \in {"post", "poll"}, Settled,
           request.does = "database" => neon.database,
           request.does = "password" => ops["password"] = "finished",
           request.does = "endpoint" => ops["endpoint"] = "finished",
           request.does = "project" => request.at = "poll"
    PROVE  Inv'
<1>1. request.misread \in BOOLEAN
  BY DEF Inv, Typed
<1>2. Onward = [Onward EXCEPT !.misread = request.misread]
  BY DEF Onward, Begun, Inv, Typed
<1> QED BY <1>1, <1>2, OnwardInv DEF Proceed

LEMMA TakenInv ==
    ASSUME Inv, TakenForExisting, UNCHANGED <<neon, ops, database>>, request.at \in {"post", "poll"}, Settled
    PROVE  Inv'
<1> DEFINE x == request.misread \/ (request.does = "database" /\ ~neon.database)
<1>1. request.misread \in BOOLEAN /\ neon.database \in BOOLEAN
  BY DEF Inv, Typed
<1>2. Onward.misread = request.misread
  BY DEF Onward, Begun, Inv, Typed
<1>3. request' = [Onward EXCEPT !.misread = x]
  BY <1>2, Zenon DEF TakenForExisting
<1>4. x \in BOOLEAN /\ (request.misread => x) /\ (request.does = "database" => neon.database \/ x)
  BY <1>1
<1> HIDE DEF x
<1> QED BY <1>3, <1>4, OnwardInv DEF TakenForExisting

LEMMA PostInv == ASSUME Inv, Post PROVE Inv'
<1>1. request.for # "project" /\ request.does \in Mutations /\ Settled
  BY SettledOutsidePoll DEF Post, Inv, Typed, InOrder
<1>2. Typed'
  <2>1. ops' \in [Kinds -> {"none", "running", "finished", "failed"}]
    BY <1>1 DEF Post, Inv, Typed, Kinds
  <2>2. request.password + 1 \in Nat
    BY DEF Inv, Typed
  <2>3. \/ request' = [request EXCEPT !.at = "poll", !.polls = 0, !.password = request.password + 1]
        \/ request' = [request EXCEPT !.at = "poll", !.polls = 0, !.password = request.password]
    BY DEF Post
  <2>4. request' \in [at : Ats, custom : BOOLEAN, for : Mutations \cup {"project"},
                      does : Mutations \cup {"project"}, tries : 0..WaitRetries, polls : 0..WaitRetries,
                      looks : 0..RoleRetries, rounds : 0..RoleRetries, password : Nat,
                      misread : BOOLEAN]
    BY <2>2, <2>3, Zero, ZenonT(60) DEF Inv, Typed, Ats
  <2> QED BY <2>1, <2>4 DEF Post, Inv, Typed
<1>3. InOrder'
  BY <1>1 DEF Post, Inv, Typed, InOrder, Mutations
<1>4. Waited'
  BY <1>1 DEF Post, Present, Settled, Inv, Typed, InOrder, Waited, Kinds, Mutations
<1>5. Done'
  BY <1>1 DEF Post, Present, Settled, Inv, Typed, InOrder, Waited, Done, ReadyIsUsable, Kinds, Mutations
<1> QED BY <1>2, <1>3, <1>4, <1>5 DEF Inv

LEMMA AlreadyExistsInv == ASSUME Inv, AlreadyExists PROVE Inv'
BY SettledOutsidePoll, TakenInv DEF AlreadyExists

LEMMA PollInv == ASSUME Inv, Poll PROVE Inv'
<1>1. CASE PollAgain
  BY <1>1, PollAgainInv DEF Poll
<1>2. CASE Awaited /\ Proceed
  <2>1. Settled
    BY <1>2, SettledAfterPoll DEF Poll, Awaited
  <2>2. request.does = "database" => neon.database
    BY <1>2 DEF Awaited, Inv, Waited
  <2> QED BY <1>2, <2>1, <2>2, ProceedInv DEF Poll, Awaited
<1> QED BY <1>1, <1>2 DEF Poll

LEMMA PollFailedInv == ASSUME Inv, PollFailed PROVE Inv'
<1>1. CASE Fail
  BY <1>1, FailInv DEF PollFailed
<1>2. CASE request.does \in {"database", "password"} /\ RoleMissing
  <2>1. Settled
    BY <1>2 DEF PollFailed, Settled, Inv, Waited, Mutations
  <2> QED BY <1>2, <2>1, RoleMissingInv DEF PollFailed
<1>3. CASE TakenForExisting /\ UNCHANGED <<neon, ops, database>>
  <2>1. Settled
    BY <1>3 DEF PollFailed, TakenForExisting, Settled, Inv, Waited, Mutations
  <2> QED BY <1>3, <2>1, TakenInv DEF PollFailed
<1> QED BY <1>1, <1>2, <1>3 DEF PollFailed

LEMMA LookInv == ASSUME Inv, Look PROVE Inv'
<1>1. Settled
  BY SettledOutsidePoll DEF Look
<1>2. CASE request.for = "role" /\ Begin("database")
  <2>1. request.misread \in BOOLEAN /\ request' = [Begun("database") EXCEPT !.misread = request.misread]
    BY <1>2, BeginSame DEF Begin, Inv, Typed, Mutations
  <2> QED BY <1>1, <1>2, <2>1, BeginInv DEF Look, Settled, Mutations
<1>3. CASE /\ request.for # "role"
           /\ request' = [request EXCEPT !.at = "post", !.does = request.for, !.tries = 0]
  <2>1. request.for # "project"
    BY DEF Look, Inv, InOrder
  <2>2. Typed' /\ InOrder'
    BY <1>3, <2>1, Zero DEF Look, Inv, Typed, InOrder, Ats, Mutations
  <2>3. Waited' /\ Done'
    <3>1. /\ request'.for = request.for /\ request'.password = request.password
          /\ request'.at = "post" /\ request.at # "done"
          /\ request'.misread = request.misread
      BY <1>3 DEF Look, Inv, Typed
    <3> QED BY <1>1, <3>1, MovesInv DEF Look
  <2> QED BY <2>2, <2>3 DEF Inv
<1>4. CASE request.looks >= RoleRetries /\ request' = [request EXCEPT !.at = "done"]
  BY <1>4, FailInv DEF Look, Fail, To
<1>5. CASE ~(request.looks >= RoleRetries) /\ request' = [request EXCEPT !.looks = @ + 1]
  <2>1. request.looks + 1 \in 0..RoleRetries
    BY <1>5, DatabaseAssumption DEF Inv, Typed
  <2>2. Typed' /\ InOrder'
    BY <1>5, <2>1 DEF Look, Inv, Typed, InOrder, Ats, Mutations
  <2>3. Waited' /\ Done'
    <3>1. /\ request'.for = request.for /\ request'.password = request.password
          /\ request'.at = "look" /\ request.at # "done"
          /\ request'.misread = request.misread
      BY <1>5 DEF Look, Inv, Typed
    <3> QED BY <1>1, <3>1, MovesInv DEF Look
  <2> QED BY <2>2, <2>3 DEF Inv
<1> QED BY <1>2, <1>3, <1>4, <1>5 DEF Look

LEMMA ListEndpointsInv == ASSUME Inv, ListEndpoints PROVE Inv'
<1>1. Settled
  BY SettledOutsidePoll DEF ListEndpoints
<1> QED BY <1>1 DEF ListEndpoints, To, Settled, Inv, Typed, InOrder, Waited, Done, ReadyIsUsable, Ats, Kinds, Mutations

LEMMA ResolveUriInv == ASSUME Inv, ResolveUri PROVE Inv'
<1>1. neon.password = request.password /\ request.for = "endpoint"
  BY DEF ResolveUri, Inv, InOrder, Waited, Done
<1>2. request' = [request EXCEPT !.at = "commit"]
  BY <1>1, ZenonT(60) DEF ResolveUri, Inv, Typed
<1> QED BY <1>1, <1>2 DEF ResolveUri, Inv, Typed, InOrder, Waited, Done, ReadyIsUsable, Ats, Kinds, Mutations

LEMMA CreateRowInv == ASSUME Inv, CreateRow PROVE Inv'
<1>1. Settled
  BY SettledOutsidePoll DEF CreateRow
<1>2. /\ neon.database \/ request.misread
      /\ neon.role = "visible" /\ neon.endpoint
      /\ neon.password = request.password /\ ops["password"] = "finished"
      /\ ops["role"] # "failed" /\ request.for = "endpoint"
      /\ ops["database"] = "failed" => request.misread
  BY DEF CreateRow, Inv, InOrder, Waited, Done
<1>3. Typed' /\ InOrder' /\ Waited'
  BY <1>1, <1>2 DEF CreateRow, To, Settled, Inv, Typed, InOrder, Waited, Ats, Kinds, Mutations
<1>4. Done'
  BY <1>1, <1>2 DEF CreateRow, To, Settled, Inv, Typed, InOrder, Waited, Done, ReadyIsUsable, Kinds, Mutations
<1> QED BY <1>3, <1>4 DEF Inv

LEMMA RequestInv == ASSUME Inv, RequestStep PROVE Inv'
<1>1. CASE PostRoleMissing
  BY <1>1, RoleMissingInv, SettledOutsidePoll DEF PostRoleMissing
<1>2. CASE RequestFails
  BY <1>2, FailInv DEF RequestFails
<1> QED BY <1>1, <1>2, CreateProjectInv, ProjectRefusedInv, MutationBusyInv, WaitIdleInv, PostInv,
           AlreadyExistsInv, PollInv, PollFailedInv, LookInv, ListEndpointsInv, ResolveUriInv,
           CreateRowInv DEF RequestStep

\* Inv holds in every reachable state.
LEMMA StepInv == Inv /\ [DatabasesNext]_databaseVars => Inv'
<1> SUFFICES ASSUME Inv, [DatabasesNext]_databaseVars PROVE Inv'
  OBVIOUS
<1>1. CASE UNCHANGED databaseVars
  BY <1>1 DEF databaseVars, Inv, Typed, InOrder, Waited, Done, ReadyIsUsable
<1> QED BY <1>1, ProviderInv, RequestInv, AskInv DEF DatabasesNext

LEMMA Invariance == DatabasesSpec => []Inv
BY InitInv, StepInv, PTL DEF DatabasesSpec

\* A database recorded as ready can be used with the URL recorded with it, whatever the provider
\* refuses, delays or fails and however often the request tries again; it is missing itself only
\* when an error of its creation read as if it were there.
THEOREM ReadyDatabasesAreUsable == DatabasesSpec => []ReadyIsUsable
<1>1. Inv => ReadyIsUsable
  BY DEF Inv, Done
<1> QED BY <1>1, Invariance, PTL

-----------------------------------------------------------------------------
(* The loops end *)

Stage(f) == CASE f = "project" -> 5 [] f = "role" -> 4 [] f = "database" -> 3
              [] f = "password" -> 2 [] f = "endpoint" -> 1
Step(at) == CASE at = "idle" -> 8 [] at = "primary" -> 7 [] at = "fallback" -> 6 [] at = "list" -> 5
              [] at = "post" -> 4 [] at = "poll" -> 3 [] at \in {"relist", "quiet", "look"} -> 2
              [] at = "uri" -> 1 [] at = "commit" -> 0
Nested == IF request.does = request.for THEN 0 ELSE 1
Attempts == IF request.at = "look" THEN RoleRetries - request.looks ELSE WaitRetries - request.polls

\* The rank of a request that has not ended.
LEMMA Rank ==
    ASSUME Inv, request.at # "done"
    PROVE  Left = <<Stage(request.for), RoleRetries - request.rounds, Nested,
                    WaitRetries - request.tries, Step(request.at), Attempts>>
<1>1. request.for \in {"project", "role", "database", "password", "endpoint"} /\ request.at \in Ats
  BY DEF Inv, Typed, Mutations
<1>2. [project |-> 5, role |-> 4, database |-> 3, password |-> 2, endpoint |-> 1][request.for] = Stage(request.for)
  BY <1>1 DEF Stage
<1>3. [idle |-> 8, primary |-> 7, fallback |-> 6, list |-> 5, post |-> 4, poll |-> 3,
       relist |-> 2, quiet |-> 2, look |-> 2, uri |-> 1, commit |-> 0][request.at] = Step(request.at)
  BY <1>1 DEF Step, Ats
<1> QED BY <1>2, <1>3 DEF Left, Nested, Attempts

\* No component of a rank is negative.
NaturalRank == \A i \in 1..6 : Left[i] \in Nat
LEMMA RankIsNatural == Inv => NaturalRank
<1> SUFFICES ASSUME Inv PROVE NaturalRank
  OBVIOUS
<1> USE DEF NaturalRank
<1>1. CASE request.at = "done"
  BY <1>1 DEF Left
<1>2. CASE request.at # "done"
  <2>1. Stage(request.for) \in Nat /\ Step(request.at) \in Nat /\ Nested \in Nat
    BY <1>2 DEF Stage, Step, Nested, Inv, Typed, Mutations, Ats
  <2>2. /\ RoleRetries - request.rounds \in Nat /\ WaitRetries - request.tries \in Nat
        /\ Attempts \in Nat
    BY DatabaseAssumption DEF Attempts, Inv, Typed
  <2> QED BY <1>2, <2>1, <2>2, Rank
<1> QED BY <1>1, <1>2

\* Where two ranks differ first.
LEMMA BelowAt ==
    ASSUME NEW s, NEW t, NEW i \in 1..6, s[i] < t[i], \A j \in 1..6 : j < i => s[j] = t[j]
    PROVE  Below(s, t)
BY DEF Below

Ranked ==
    request.at # "done" =>
        Left = <<Stage(request.for), RoleRetries - request.rounds, Nested,
                 WaitRetries - request.tries, Step(request.at), Attempts>>

LEMMA RankHolds == Inv => Ranked
BY Rank DEF Ranked

\* The component that falls, those before it being what they were.
Falls ==
    \/ Stage(request.for)' < Stage(request.for)
    \/ /\ request'.for = request.for
       /\ \/ request'.rounds > request.rounds
          \/ /\ request'.rounds = request.rounds
             /\ \/ Nested' < Nested
                \/ /\ Nested' = Nested
                   /\ \/ request'.tries > request.tries
                      \/ /\ request'.tries = request.tries
                         /\ \/ Step(request.at)' < Step(request.at)
                            \/ Step(request.at)' = Step(request.at) /\ Attempts' < Attempts

LEMMA FallsBelow ==
    ASSUME Inv, Inv', request.at # "done", request'.at # "done", Falls
    PROVE  Below(Left', Left)
<1>1. Left = <<Stage(request.for), RoleRetries - request.rounds, Nested,
               WaitRetries - request.tries, Step(request.at), Attempts>>
  BY RankHolds DEF Ranked
<1>2. Ranked'
  BY RankHolds, PTL
<1>3. Left' = <<Stage(request.for)', RoleRetries - request'.rounds, Nested',
                WaitRetries - request'.tries, Step(request.at)', Attempts'>>
  BY <1>2 DEF Ranked
<1>4. /\ request.rounds \in Nat /\ request'.rounds \in Nat
      /\ request.tries \in Nat /\ request'.tries \in Nat
      /\ RoleRetries \in Nat /\ WaitRetries \in Nat
  BY DatabaseAssumption DEF Inv, Typed
<1> DEFINE t == Left
           s == Left'
<1>5. CASE Stage(request.for)' < Stage(request.for)
  <2>1. s[1] < t[1]
    BY <1>1, <1>3, <1>5
  <2> QED BY <2>1, BelowAt
<1>6. CASE request'.for = request.for /\ request'.rounds > request.rounds
  <2>1. s[1] = t[1] /\ s[2] < t[2]
    BY <1>1, <1>3, <1>4, <1>6
  <2> QED BY <2>1, BelowAt
<1>7. CASE /\ request'.for = request.for /\ request'.rounds = request.rounds /\ Nested' < Nested
  <2>1. s[1] = t[1] /\ s[2] = t[2] /\ s[3] < t[3]
    BY <1>1, <1>3, <1>7
  <2> QED BY <2>1, BelowAt
<1>8. CASE /\ request'.for = request.for /\ request'.rounds = request.rounds /\ Nested' = Nested
           /\ request'.tries > request.tries
  <2>1. s[1] = t[1] /\ s[2] = t[2] /\ s[3] = t[3] /\ s[4] < t[4]
    BY <1>1, <1>3, <1>4, <1>8
  <2> QED BY <2>1, BelowAt
<1>9. CASE /\ request'.for = request.for /\ request'.rounds = request.rounds /\ Nested' = Nested
           /\ request'.tries = request.tries /\ Step(request.at)' < Step(request.at)
  <2>1. s[1] = t[1] /\ s[2] = t[2] /\ s[3] = t[3] /\ s[4] = t[4] /\ s[5] < t[5]
    BY <1>1, <1>3, <1>9
  <2> QED BY <2>1, BelowAt
<1>10. CASE /\ request'.for = request.for /\ request'.rounds = request.rounds /\ Nested' = Nested
            /\ request'.tries = request.tries /\ Step(request.at)' = Step(request.at)
            /\ Attempts' < Attempts
  <2>1. s[1] = t[1] /\ s[2] = t[2] /\ s[3] = t[3] /\ s[4] = t[4] /\ s[5] = t[5] /\ s[6] < t[6]
    BY <1>1, <1>3, <1>10
  <2> QED BY <2>1, BelowAt
<1> QED BY <1>5, <1>6, <1>7, <1>8, <1>9, <1>10 DEF Falls

LEMMA EndsBelow ==
    ASSUME Inv, request.at # "done", request'.at = "done"
    PROVE  Below(Left', Left)
<1>1. Left'[1] = 0
  BY DEF Left
<1>2. Left[1] > 0
  BY Rank DEF Stage, Inv, Typed, Mutations
<1> QED BY <1>1, <1>2, BelowAt

LEMMA BeginFalls ==
    ASSUME Inv, NEW m \in Mutations, NEW x \in BOOLEAN,
           request' = [Begun(m) EXCEPT !.misread = x], Stage(m) < Stage(request.for)
    PROVE  Falls /\ request'.at # "done"
<1>1. request'.for = m /\ request'.at # "done"
  BY DEF Begun, Inv, Typed
<1>2. Stage(request.for)' = Stage(m)
  BY <1>1 DEF Stage
<1> QED BY <1>1, <1>2 DEF Falls

LEMMA BeginStepFalls ==
    ASSUME Inv, NEW m \in Mutations, Begin(m), Stage(m) < Stage(request.for)
    PROVE  Falls /\ request'.at # "done"
<1>1. request.misread \in BOOLEAN
  BY DEF Inv, Typed
<1> QED BY <1>1, BeginSame, BeginFalls DEF Begin

LEMMA PollAgainFalls ==
    ASSUME Inv, PollAgain, request.at \in {"poll", "quiet"}
    PROVE  Falls \/ request'.at = "done"
<1>1. SUFFICES ASSUME request.polls < WaitRetries, request' = [request EXCEPT !.polls = @ + 1]
               PROVE  Falls
  BY DatabaseAssumption DEF PollAgain, Inv, Typed
<1>2. /\ request'.for = request.for /\ request'.does = request.does /\ request'.at = request.at
      /\ request'.rounds = request.rounds /\ request'.tries = request.tries
      /\ request'.polls = request.polls + 1
  BY <1>1 DEF Inv, Typed
<1>3. Attempts' < Attempts
  BY <1>2, DatabaseAssumption DEF Attempts, Inv, Typed
<1>4. Nested' = Nested /\ Step(request.at)' = Step(request.at)
  BY <1>2 DEF Nested, Step
<1> QED BY <1>2, <1>3, <1>4 DEF Falls

\* A step on, within the function and the attempt.
LEMMA StepFalls ==
    ASSUME Inv, NEW at \in Ats \ {"done"}, Step(at) < Step(request.at),
           request'.at = at, request'.for = request.for, request'.does = request.does,
           request'.rounds = request.rounds, request'.tries = request.tries
    PROVE  Falls
<1>1. Nested' = Nested /\ Step(request.at)' = Step(at)
  BY DEF Nested, Step
<1> QED BY <1>1 DEF Falls

LEMMA RoleMissingFalls ==
    ASSUME Inv, RoleMissing PROVE Falls \/ request'.at = "done"
<1>1. CASE To("done")
  BY <1>1 DEF To, Inv, Typed
<1>2. CASE EnsureRole
  BY <1>2 DEF EnsureRole, Falls, Inv, Typed
<1> QED BY <1>1, <1>2 DEF RoleMissing

LEMMA OnwardFalls ==
    ASSUME Inv, NEW x \in BOOLEAN, request' = [Onward EXCEPT !.misread = x],
           request.at \in {"post", "poll"}, request.does = "endpoint" => request.at = "poll",
           request.does = "project" => request.at = "poll"
    PROVE  Falls
<1>1. CASE request.does = "role"
  <2>1. request' = [request EXCEPT !.at = "look", !.looks = 0, !.misread = x]
    BY <1>1 DEF Onward
  <2>2. Step("look") < Step(request.at)
    BY DEF Step
  <2> QED BY <2>1, <2>2, StepFalls DEF Inv, Typed, Ats
<1>2. CASE request.does = "database"
  <2>1. Stage("password") < Stage(request.for)
    BY <1>2 DEF Stage, Inv, InOrder
  <2> QED BY <1>2, <2>1, BeginFalls DEF Onward, Mutations
<1>3. CASE request.does = "password"
  <2>1. Stage("endpoint") < Stage(request.for)
    BY <1>3 DEF Stage, Inv, InOrder
  <2> QED BY <1>3, <2>1, BeginFalls DEF Onward, Mutations
<1>4. CASE request.does = "endpoint"
  <2>1. request' = [request EXCEPT !.at = "relist", !.misread = x]
    BY <1>4 DEF Onward
  <2>2. Step("relist") < Step(request.at)
    BY <1>4 DEF Step
  <2> QED BY <2>1, <2>2, StepFalls DEF Inv, Typed, Ats
<1>5. CASE request.does = "project"
  <2>1. request' = [request EXCEPT !.at = "quiet", !.polls = 0, !.misread = x]
    BY <1>5 DEF Onward
  <2>2. Step("quiet") < Step(request.at)
    BY <1>5 DEF Step
  <2> QED BY <2>1, <2>2, StepFalls DEF Inv, Typed, Ats
<1> QED BY <1>1, <1>2, <1>3, <1>4, <1>5 DEF Inv, Typed, Mutations

LEMMA ProceedFalls ==
    ASSUME Inv, Proceed \/ TakenForExisting, request.at \in {"post", "poll"},
           request.does = "endpoint" => request.at = "poll", request.does = "project" => request.at = "poll"
    PROVE  Falls
<1>1. request.misread \in BOOLEAN /\ neon.database \in BOOLEAN
  BY DEF Inv, Typed
<1>2. Onward.misread = request.misread
  BY DEF Onward, Begun, Inv, Typed
<1>3. CASE Proceed
  <2>1. Onward = [Onward EXCEPT !.misread = request.misread]
    BY DEF Onward, Begun, Inv, Typed
  <2> QED BY <1>1, <1>3, <2>1, OnwardFalls DEF Proceed
<1>4. CASE TakenForExisting
  <2> DEFINE x == request.misread \/ (request.does = "database" /\ ~neon.database)
  <2>1. request' = [Onward EXCEPT !.misread = x]
    BY <1>2, <1>4, Zenon DEF TakenForExisting
  <2>2. x \in BOOLEAN
    BY <1>1
  <2> HIDE DEF x
  <2> QED BY <2>1, <2>2, OnwardFalls
<1> QED BY <1>3, <1>4

LEMMA LookFalls == ASSUME Inv, Look PROVE Falls \/ request'.at = "done"
<1>1. CASE request.for = "role" /\ Begin("database")
  <2>1. Stage("database") < Stage(request.for)
    BY <1>1 DEF Stage
  <2> QED BY <1>1, <2>1, BeginStepFalls DEF Mutations
<1>2. CASE /\ request.for # "role"
           /\ request' = [request EXCEPT !.at = "post", !.does = request.for, !.tries = 0]
  <2>1. /\ request'.for = request.for /\ request'.rounds = request.rounds
        /\ request'.does = request.for /\ request.does = "role"
    BY <1>2 DEF Look, Inv, Typed, InOrder
  <2>2. Nested' < Nested
    BY <1>2, <2>1 DEF Nested
  <2> QED BY <2>1, <2>2 DEF Falls
<1>3. CASE request.looks >= RoleRetries /\ request' = [request EXCEPT !.at = "done"]
  BY <1>3 DEF Inv, Typed
<1>4. CASE ~(request.looks >= RoleRetries) /\ request' = [request EXCEPT !.looks = @ + 1]
  <2>1. /\ request'.for = request.for /\ request'.does = request.does /\ request'.at = "look"
        /\ request'.rounds = request.rounds /\ request'.tries = request.tries
        /\ request'.looks = request.looks + 1 /\ request.at = "look"
    BY <1>4 DEF Look, Inv, Typed
  <2>2. Attempts' < Attempts
    BY <2>1, DatabaseAssumption DEF Attempts, Inv, Typed
  <2>3. Nested' = Nested /\ Step(request.at)' = Step(request.at)
    BY <2>1 DEF Nested, Step
  <2> QED BY <2>1, <2>2, <2>3 DEF Falls
<1> QED BY <1>1, <1>2, <1>3, <1>4 DEF Look

LEMMA WaitIdleFalls == ASSUME Inv, WaitIdle PROVE Falls \/ request'.at = "done"
<1>1. CASE PollAgain
  BY <1>1, PollAgainFalls DEF WaitIdle
<1>2. CASE AfterQuiet /\ request.does = "project"
  <2>1. PICK m \in {"role", "database"} : Begin(m)
    BY <1>2 DEF AfterQuiet
  <2>2. Stage(m) < Stage(request.for)
    BY <1>2 DEF Stage, Inv, InOrder
  <2> QED BY <2>1, <2>2, BeginStepFalls DEF Mutations
<1>3. CASE AfterQuiet /\ request.does # "project"
  <2>1. request' = [request EXCEPT !.at = "post", !.tries = request.tries + 1]
    BY <1>3 DEF AfterQuiet
  <2>2. /\ request'.for = request.for /\ request'.does = request.does
        /\ request'.rounds = request.rounds /\ request'.tries > request.tries
    BY <2>1 DEF Inv, Typed
  <2>3. Nested' = Nested
    BY <2>2 DEF Nested
  <2> QED BY <2>2, <2>3 DEF Falls
<1> QED BY <1>1, <1>2, <1>3 DEF WaitIdle

LEMMA MutationBusyFalls == ASSUME Inv, MutationBusy PROVE Falls \/ request'.at = "done"
<1>1. CASE Fail
  BY <1>1 DEF Fail, To, Inv, Typed
<1>2. CASE request' = [request EXCEPT !.at = "quiet", !.polls = 0]
  <2>1. Step("quiet") < Step(request.at)
    BY DEF MutationBusy, Step
  <2> QED BY <1>2, <2>1, StepFalls DEF Inv, Typed, Ats
<1> QED BY <1>1, <1>2 DEF MutationBusy

\* Steps that only move on.
LEMMA MovesFall ==
    ASSUME Inv, CreateProject \/ ProjectRefused \/ Post \/ ListEndpoints \/ ResolveUri
    PROVE  Falls \/ request'.at = "done"
<1>1. CASE request'.at = "done"
  BY <1>1
<1>2. CASE request'.at # "done"
  <2>1. PICK at \in Ats \ {"done"} :
            /\ Step(at) < Step(request.at)
            /\ request'.at = at
    <3>1. CASE CreateProject
      <4>1. request'.at = "poll" /\ request.at \in {"primary", "fallback"}
        BY <3>1 DEF CreateProject, To, Inv, Typed
      <4> QED BY <4>1 DEF Step, Ats
    <3>2. CASE ProjectRefused
      BY <1>2, <3>2 DEF ProjectRefused, Fail, To, Step, Inv, Typed, Ats
    <3>3. CASE Post
      BY <3>3 DEF Post, Step, Inv, Typed, Ats
    <3>4. CASE ListEndpoints
      BY <3>4 DEF ListEndpoints, To, Step, Inv, Typed, Ats
    <3>5. CASE ResolveUri
      <4>1. request'.at = "commit" /\ request.at = "uri"
        BY <3>5 DEF ResolveUri, Inv, Typed
      <4> QED BY <4>1 DEF Step, Ats
    <3> QED BY <3>1, <3>2, <3>3, <3>4, <3>5
  <2>2. /\ request'.for = request.for /\ request'.does = request.does
        /\ request'.rounds = request.rounds /\ request'.tries = request.tries
    <3>1. CASE CreateProject
      BY <3>1 DEF CreateProject, To, Inv, Typed
    <3>2. CASE ProjectRefused
      BY <3>2 DEF ProjectRefused, Fail, To, Inv, Typed
    <3>3. CASE Post
      BY <3>3 DEF Post, Inv, Typed
    <3>4. CASE ListEndpoints
      BY <3>4 DEF ListEndpoints, To, Inv, Typed
    <3>5. CASE ResolveUri
      BY <3>5 DEF ResolveUri, Inv, Typed
    <3> QED BY <3>1, <3>2, <3>3, <3>4, <3>5
  <2> QED BY <2>1, <2>2, StepFalls
<1> QED BY <1>1, <1>2

LEMMA RequestFalls ==
    ASSUME Inv, RequestStep PROVE Falls \/ request'.at = "done"
<1>1. CASE AlreadyExists
  <2>1. request.does \notin {"endpoint", "project"}
    BY <1>1 DEF AlreadyExists, TakenForExisting
  <2> QED BY <1>1, <2>1, ProceedFalls DEF AlreadyExists
<1>2. CASE PostRoleMissing
  BY <1>2, RoleMissingFalls DEF PostRoleMissing
<1>3. CASE RequestFails \/ CreateRow
  BY <1>3 DEF RequestFails, CreateRow, Fail, To, Inv, Typed
<1>4. CASE Poll
  BY <1>4, PollAgainFalls, ProceedFalls DEF Poll
<1>5. CASE PollFailed
  <2>1. CASE Fail
    BY <2>1 DEF Fail, To, Inv, Typed
  <2>2. CASE RoleMissing
    BY <2>2, RoleMissingFalls
  <2>3. CASE TakenForExisting
    BY <1>5, <2>3, ProceedFalls DEF PollFailed, TakenForExisting
  <2> QED BY <1>5, <2>1, <2>2, <2>3 DEF PollFailed
<1> QED BY <1>1, <1>2, <1>3, <1>4, <1>5, MovesFall, MutationBusyFalls, WaitIdleFalls, LookFalls
        DEF RequestStep

\* A request's steps come to an end: each brings the rank down, which is of natural numbers.
THEOREM DatabaseRequestsEnd == DatabasesSpec => AttemptsRunOut
<1>1. Inv /\ Inv' /\ RequestStep => Below(Left', Left) /\ \A i \in 1..6 : Left[i]' >= 0
  <2> SUFFICES ASSUME Inv, Inv', RequestStep
               PROVE  Below(Left', Left) /\ \A i \in 1..6 : Left[i]' >= 0
    OBVIOUS
  <2>1. request.at # "done"
    BY DEF RequestStep, CreateProject, ProjectRefused, MutationBusy, WaitIdle, Post, AlreadyExists,
           PostRoleMissing, RequestFails, Poll, PollFailed, Look, ListEndpoints, ResolveUri, CreateRow
  <2>2. Below(Left', Left)
    BY <2>1, RequestFalls, FallsBelow, EndsBelow
  <2>3. NaturalRank'
    BY RankIsNatural, PTL
  <2> QED BY <2>2, <2>3 DEF NaturalRank
<1> QED BY <1>1, Invariance, PTL DEF DatabasesSpec, AttemptsRunOut

-----------------------------------------------------------------------------
(* DeploymentSource *)

NotCreated(d) == asks[d].at \in {"none", "token", "resolve", "again", "create"}
Building == {"build", "stages", "record"}
SomeSettings == Settings \cup {NoCommand}
SomeSource == Sources \cup {NoSource}
Commit == NoSha..MaxHead

AskType == [at : {"none", "token", "resolve", "again", "create", "mark", "done"},
            environment : {"production", "preview"}, sha : Commit, image : SomeSource,
            token : BOOLEAN, since : Commit, settings : SomeSettings, of : SomeSource]
RowType == [status : {"none", "queued", "working", "ready", "failed", "rolled_back"},
            environment : {"production", "preview"}, commit : Commit, image : SomeSource,
            ref : Commit, since : Commit]
ItemType == [of : Sources, sha : Commit, settings : SomeSettings]
JobType == [at : {"idle", "start", "run", "throw"} \cup Building, of : SomeSource, commit : Commit,
            image : SomeSource, settings : SomeSettings, cloned : Commit, strayed : BOOLEAN, tries : Nat]
ImageType == [commit : Commit, settings : SomeSettings, strayed : BOOLEAN]

SourceTyped ==
    /\ head \in 1..MaxHead /\ nonces \in Nat
    /\ asks \in [Sources -> AskType]
    /\ sourceRows \in [Sources -> RowType]
    /\ items \in Seq(ItemType)
    /\ builds \in [Engines -> JobType]
    /\ images \in [Sources -> ImageType]

\* Nothing is known of a deployment before its row is written.
Unknown ==
    \A d \in Sources : NotCreated(d) =>
        /\ sourceRows[d].image = NoSource /\ images[d] = NoImage
        /\ \A i \in DOMAIN items : items[i].of # d
        /\ \A w \in Engines : builds[w].of # d

\* A commit that is known of an image is the one it was built from, unless the build strayed, and
\* the image stays.
Fits(commit, image) ==
    commit # NoSha /\ image # NoSource =>
        (images[image].commit = commit \/ images[image].strayed) /\ sourceRows[image].image = image

CommitsFit ==
    \A d \in Sources :
        /\ d \notin claimed => Fits(asks[d].sha, asks[d].image) /\ Fits(sourceRows[d].commit, sourceRows[d].image)
        /\ sourceRows[d].ref # NoSha => sourceRows[d].ref = sourceRows[d].commit

\* One engine works on a deployment; until it has recorded the image, no other is known.
OneEngine ==
    \A w \in Engines :
        /\ builds[w].at = "idle" <=> builds[w].of = NoSource
        /\ builds[w].of # NoSource => \A v \in Engines \ {w} : builds[v].of # builds[w].of

JobFits(job, row) ==
    /\ job.at = "start" => job.image = row.image
    /\ job.at \in Building => row.image = NoSource
    /\ job.at \in {"start"} \cup Building /\ row.commit # NoSha => job.commit = row.commit
    /\ job.at \in {"start"} \cup Building /\ job.commit # NoSha => job.commit > row.since
    /\ job.at \in {"stages", "record"} => job.cloned > row.since
    /\ job.at \in {"stages", "record"} /\ job.commit # NoSha => job.cloned = job.commit \/ job.strayed
    /\ job.at = "record" => images[job.of].commit = job.cloned /\ images[job.of].strayed = job.strayed

JobsFit == \A w \in Engines : builds[w].of # NoSource => JobFits(builds[w], sourceRows[builds[w].of])

\* Commits are later than the one that had been replaced when the deployment was asked for.
Later(sha, since) == sha # NoSha => sha > since

LaterCommits ==
    /\ \A k \in DOMAIN sourceLayers : k[2] \in 0..nonces
    /\ \A d \in Sources :
        /\ sourceRows[d].since < head /\ asks[d].since < head
        /\ NotCreated(d) => Later(asks[d].sha, asks[d].since)
        /\ ~ NotCreated(d) => Later(sourceRows[d].commit, sourceRows[d].since)
        /\ images[d] # NoImage => images[d].commit > sourceRows[d].since
    /\ \A i \in DOMAIN items :
        /\ Later(items[i].sha, sourceRows[items[i].of].since)
        /\ items[i].sha # NoSha => items[i].sha = sourceRows[items[i].of].commit

SourceInv == SourceTyped /\ Unknown /\ CommitsFit /\ OneEngine /\ JobsFit /\ LaterCommits

LEMMA CommitsAre ==
    /\ 0 \in Commit /\ \A c \in 1..MaxHead : c \in Commit /\ c - 1 \in Commit
    /\ \A c \in Commit : c \in Nat /\ c <= MaxHead
BY SourceAssumption DEF Commit, NoSha

LEMMA SourceStart == SourceInit => SourceInv
<1>. SUFFICES ASSUME SourceInit PROVE SourceInv
  OBVIOUS
<1>. USE SourceAssumption, CommitsAre DEF SourceInit, NoSha, NoAsk, NoSourceRow, NoImage, NoBuild
<1>1. SourceTyped
  BY DEF SourceTyped, SomeSettings, SomeSource, Building, AskType, RowType, ItemType, JobType, ImageType
<1>2. Unknown
  BY DEF Unknown, NotCreated
<1>3. CommitsFit
  BY DEF CommitsFit, Fits
<1>4. OneEngine /\ JobsFit
  BY DEF OneEngine, JobsFit
<1>5. LaterCommits
  BY DEF LaterCommits, Later
<1>. QED BY <1>1, <1>2, <1>3, <1>4, <1>5 DEF SourceInv

LEMMA ItemsOf == ASSUME SourceTyped PROVE \A i \in DOMAIN items : items[i] \in ItemType /\ items[i].of \in Sources
<1>1. items \in Seq(ItemType)
  BY DEF SourceTyped
<1>2. \A i \in DOMAIN items : items[i] \in ItemType
  BY <1>1
<1>. QED BY <1>2 DEF ItemType

\* A request goes on: it names no commit, or a later one that is known to fit.
LEMMA Asking ==
    ASSUME SourceInv, NEW d \in Sources, NEW x \in AskType, NotCreated(d), x.at \in {"token", "resolve", "again", "create"},
           asks' = [asks EXCEPT ![d] = x], claimed' \in {claimed, claimed \cup {d}},
           d \notin claimed' => Fits(x.sha, x.image), x.since < head, Later(x.sha, x.since),
           UNCHANGED <<head, sourceRows, items, builds, sourceLayers, nonces, images>>
    PROVE  SourceInv'
<1>. USE SourceAssumption, CommitsAre DEF NoSha
<1>1. /\ asks'[d] = x /\ NotCreated(d)'
      /\ \A e \in Sources \ {d} : asks'[e] = asks[e] /\ (NotCreated(e)' <=> NotCreated(e))
  BY DEF SourceInv, SourceTyped, NotCreated
<1>2. SourceTyped'
  BY <1>1 DEF SourceInv, SourceTyped
<1>3. Unknown'
  BY <1>1 DEF SourceInv, Unknown
<1>4. CommitsFit'
  BY <1>1 DEF SourceInv, CommitsFit, Fits
<1>5. OneEngine' /\ JobsFit'
  BY DEF SourceInv, OneEngine, JobsFit, JobFits
<1>6. LaterCommits'
  <2>1. \A e \in Sources :
          /\ sourceRows'[e].since < head' /\ asks'[e].since < head'
          /\ NotCreated(e)' => Later(asks[e].sha, asks[e].since)'
          /\ ~ NotCreated(e)' => Later(sourceRows[e].commit, sourceRows[e].since)'
          /\ images'[e] # NoImage => images'[e].commit > sourceRows'[e].since
    BY <1>1 DEF SourceInv, LaterCommits, Later
  <2>. QED BY <2>1 DEF SourceInv, LaterCommits, Later
<1>. QED BY <1>2, <1>3, <1>4, <1>5, <1>6 DEF SourceInv

LEMMA Asked ==
    ASSUME SourceInv, NEW d \in Sources, NEW asked \in AskType, AskSource(d, asked), claimed' \in {claimed, claimed \cup {d}},
           d \notin claimed' => Fits(asked.sha, asked.image)
    PROVE  SourceInv'
<1>. DEFINE since == IF asked.sha = NoSha THEN head - 1 ELSE NoSha
            x == [asked EXCEPT !.at = "token", !.since = since]
<1>1. asks[d].at = "none" /\ asks' = [asks EXCEPT ![d] = x]
  BY DEF AskSource, NoAsk
<1>2. since \in Commit /\ since < head /\ Later(asked.sha, since)
  <2>1. head \in 1..MaxHead /\ asked.sha \in Commit
    BY DEF SourceInv, SourceTyped, AskType
  <2>2. MaxHead \in Nat /\ head \in Nat /\ 1 <= head /\ asked.sha \in Nat /\ head - 1 \in Commit /\ 0 \in Commit
    BY <2>1, SourceAssumption, CommitsAre
  <2>. QED BY <2>2 DEF Later, NoSha
<1>3. x \in AskType /\ x.at = "token" /\ x.sha = asked.sha /\ x.image = asked.image /\ x.since = since
  BY <1>2 DEF AskType
<1>4. x.since < head /\ Later(x.sha, x.since)
  BY <1>2, <1>3
<1>. HIDE DEF x, since
<1>. QED BY <1>1, <1>3, <1>4, Asking DEF NotCreated, AskSource

LEMMA Asks == ASSUME SourceInv, NEW d \in Sources, AskStep(d), ~ CreateSource(d), ~ MarkRolledBack(d) PROVE SourceInv'
<1>. USE SourceAssumption, CommitsAre DEF NoSha
<1>0. ASSUME NEW of \in Sources, NEW back \in BOOLEAN, AskReuse(d, of, back)  PROVE SourceInv'
  <2>. DEFINE asked == [NoAsk EXCEPT !.sha = sourceRows[of].commit, !.image = sourceRows[of].image,
                            !.of = IF back THEN of ELSE NoSource]
  <2>1. asked \in AskType /\ asked.sha = sourceRows[of].commit /\ asked.image = sourceRows[of].image
    BY DEF SourceInv, SourceTyped, RowType, AskType, NoAsk, SomeSettings, SomeSource
  <2>2. AskSource(d, asked) /\ claimed' = IF of \in claimed THEN claimed \cup {d} ELSE claimed
    BY <1>0 DEF AskReuse
  <2>3. of \notin claimed => Fits(asked.sha, asked.image)
    BY <2>1 DEF SourceInv, CommitsFit
  <2>. HIDE DEF asked
  <2>4. d \notin claimed' => Fits(asked.sha, asked.image)
    BY <2>2, <2>3
  <2>. QED BY <2>1, <2>2, <2>4, Asked
<1>1. ASSUME NEW environment \in {"production", "preview"}, NEW sha \in NoSha..MaxHead, NEW s \in Settings,
             AskDeploy(d, environment, sha, s)
      PROVE  SourceInv'
  <2>. DEFINE asked == [NoAsk EXCEPT !.environment = environment, !.sha = sha, !.settings = s]
  <2>0. sha \in Commit /\ NoAsk \in AskType /\ s \in SomeSettings
    BY DEF AskType, NoAsk, SomeSettings, SomeSource
  <2>1. asked \in AskType /\ asked.image = NoSource
    BY <2>0 DEF AskType, NoAsk
  <2>2. AskSource(d, asked) /\ claimed' = claimed
    BY <1>1 DEF AskDeploy
  <2>3. Fits(asked.sha, asked.image)
    BY <2>1 DEF Fits
  <2>. HIDE DEF asked
  <2>. QED BY <2>1, <2>2, <2>3, Asked
<1>2. ASSUME NEW of \in Sources, NEW sha \in NoSha..MaxHead, AskNamed(d, of, sha)  PROVE SourceInv'
  <2>. DEFINE asked == [NoAsk EXCEPT !.sha = sha, !.image = of]
  <2>0. sha \in Commit /\ NoAsk \in AskType /\ of \in SomeSource
    BY DEF AskType, NoAsk, SomeSettings, SomeSource
  <2>1. asked \in AskType /\ asked.sha = sha /\ asked.image = of
    BY <2>0 DEF AskType
  <2>2. AskSource(d, asked) /\ claimed' = IF sha # NoSha THEN claimed \cup {d} ELSE claimed
    BY <1>2 DEF AskNamed
  <2>3. d \notin claimed' => Fits(asked.sha, asked.image)
    BY <2>1, <2>2 DEF Fits
  <2>. HIDE DEF asked
  <2>. QED BY <2>1, <2>2, <2>3, Asked
<1>3. CASE ReadToken(d)
  <2>1. PICK token \in BOOLEAN : asks' = [asks EXCEPT ![d].at = "resolve", ![d].token = token]
    BY <1>3 DEF ReadToken
  <2>. DEFINE x == [asks[d] EXCEPT !.at = "resolve", !.token = token]
  <2>2. asks' = [asks EXCEPT ![d] = x]
    BY <2>1 DEF SourceInv, SourceTyped
  <2>3. x \in AskType /\ x.at = "resolve" /\ x.sha = asks[d].sha /\ x.image = asks[d].image /\ x.since = asks[d].since
    <3>1. asks[d] \in AskType
      BY DEF SourceInv, SourceTyped
    <3>. QED BY <3>1 DEF AskType
  <2>4. NotCreated(d)
    BY <1>3 DEF ReadToken, NotCreated
  <2>. HIDE DEF x
  <2>5. (d \notin claimed => Fits(x.sha, x.image)) /\ x.since < head /\ Later(x.sha, x.since)
    BY <2>3, <2>4 DEF SourceInv, CommitsFit, LaterCommits
  <2>. QED BY <1>3, <2>2, <2>3, <2>4, <2>5, Asking DEF ReadToken
<1>4. CASE ResolveCommit(d)
  <2>1. PICK at \in {"again", "create"}, sha \in {asks[d].sha, head, NoSha} :
           AskGo(d, at, sha) /\ (sha = asks[d].sha \/ asks[d].image = NoSource)
    BY <1>4 DEF ResolveCommit, Named
  <2>. DEFINE x == [asks[d] EXCEPT !.at = at, !.sha = sha]
  <2>2. asks' = [asks EXCEPT ![d] = x]
    BY <2>1 DEF SourceInv, SourceTyped, AskGo
  <2>0. sha \in Commit
    BY DEF SourceInv, SourceTyped, AskType
  <2>3. x \in AskType /\ x.at = at /\ x.sha = sha /\ x.image = asks[d].image /\ x.since = asks[d].since
    <3>1. asks[d] \in AskType
      BY DEF SourceInv, SourceTyped
    <3>. QED BY <2>0, <3>1 DEF AskType
  <2>4. NotCreated(d)
    BY <1>4 DEF ResolveCommit, NotCreated
  <2>. HIDE DEF x
  <2>5. d \notin claimed => Fits(x.sha, x.image)
    BY <2>1, <2>3 DEF SourceInv, CommitsFit, Fits
  <2>6. x.since < head /\ Later(x.sha, x.since)
    BY <2>3, <2>4 DEF SourceInv, SourceTyped, LaterCommits, Later
  <2>. QED BY <1>4, <2>2, <2>3, <2>4, <2>5, <2>6, Asking DEF ResolveCommit
<1>. QED BY <1>0, <1>1, <1>2, <1>3, <1>4 DEF AskStep, AskRollback, AskPromote, AskCanary

\* Nothing but the status of a row is written.
OnlyStatus ==
    /\ sourceRows' \in [Sources -> RowType]
    /\ \A d \in Sources :
          /\ sourceRows'[d].commit = sourceRows[d].commit /\ sourceRows'[d].image = sourceRows[d].image
          /\ sourceRows'[d].ref = sourceRows[d].ref /\ sourceRows'[d].since = sourceRows[d].since

LEMMA Marking ==
    ASSUME SourceTyped, NEW d \in Sources, NEW status \in {"working", "ready", "failed", "rolled_back"},
           sourceRows' = [sourceRows EXCEPT ![d].status = status]
    PROVE  OnlyStatus
BY DEF OnlyStatus, SourceTyped, RowType

\* An engine goes on with its deployment, or leaves it.
LEMMA Working ==
    ASSUME SourceInv, OnlyStatus \/ UNCHANGED sourceRows, NEW w \in Engines, NEW x \in JobType,
           builds' = [builds EXCEPT ![w] = x],
           \/ x = NoBuild
           \/ /\ x.of = builds[w].of /\ x.of # NoSource /\ x.at # "idle"
              /\ JobFits(x, sourceRows[x.of]),
           UNCHANGED <<head, asks, items, images, claimed>>,
           nonces' \in Nat, \A k \in DOMAIN sourceLayers' : k[2] \in 0..nonces'
    PROVE  SourceInv'
<1>. USE SourceAssumption, CommitsAre DEF NoSha
<1>0. OnlyStatus
  BY DEF OnlyStatus, SourceInv, SourceTyped
<1>1. builds'[w] = x /\ \A v \in Engines \ {w} : builds'[v] = builds[v]
  BY DEF SourceInv, SourceTyped
<1>2. NoBuild.of = NoSource /\ NoBuild.at = "idle"
  BY DEF NoBuild
<1>3. SourceTyped'
  BY <1>0 DEF SourceInv, SourceTyped, OnlyStatus
<1>4. Unknown'
  BY <1>0, <1>1, <1>2 DEF SourceInv, Unknown, NotCreated, OnlyStatus
<1>5. CommitsFit'
  BY <1>0 DEF SourceInv, SourceTyped, CommitsFit, Fits, OnlyStatus, AskType, RowType, SomeSource
<1>6. OneEngine'
  BY <1>1, <1>2 DEF SourceInv, OneEngine
<1>7. JobsFit'
  <2>. SUFFICES ASSUME NEW v \in Engines, builds'[v].of # NoSource
                PROVE  JobFits(builds[v], sourceRows[builds[v].of])'
    BY DEF JobsFit
  <2>1. JobFits(builds'[v], sourceRows[builds'[v].of]) /\ builds'[v].of \in Sources
    BY <1>1, <1>2, <1>3 DEF SourceInv, SourceTyped, JobsFit, JobType, SomeSource
  <2>. QED BY <2>1, <1>0 DEF JobFits, OnlyStatus
<1>8. LaterCommits'
  <2>1. \A i \in DOMAIN items : items[i].of \in Sources
    BY ItemsOf DEF SourceInv
  <2>. QED BY <1>0, <2>1 DEF SourceInv, LaterCommits, Later, NotCreated, OnlyStatus
<1>. QED BY <1>3, <1>4, <1>5, <1>6, <1>7, <1>8 DEF SourceInv

LEMMA Idles == NoBuild \in JobType /\ NoBuild.of = NoSource
BY CommitsAre DEF NoBuild, JobType, SomeSource, SomeSettings, NoSha

\* The steps of an engine that write neither a commit nor an image.
LEMMA EngineWorks ==
    ASSUME SourceInv, NEW w \in Engines,
           \/ StartBuild(w) \/ CloneSource(w) \/ BuildFails(w) \/ RunImage(w) \/ BuildThrows(w) \/ EngineDies(w)
    PROVE  SourceInv'
<1>. USE SourceAssumption, CommitsAre DEF NoSha
<1>0. /\ builds[w] \in JobType /\ (builds[w].at = "idle" <=> builds[w].of = NoSource)
      /\ builds[w].of # NoSource => builds[w].of \in Sources /\ JobFits(builds[w], sourceRows[builds[w].of])
  BY DEF SourceInv, SourceTyped, OneEngine, JobsFit, JobType, SomeSource
<1>1. ASSUME builds' = [builds EXCEPT ![w] = NoBuild],
             \/ UNCHANGED sourceRows
             \/ builds[w].of # NoSource /\ \E status \in {"ready", "failed"} : Mark(w, status),
             UNCHANGED <<head, asks, items, sourceLayers, nonces, images, claimed>>
      PROVE  SourceInv'
  <2>1. OnlyStatus \/ UNCHANGED sourceRows
    BY <1>0, <1>1, Marking DEF Mark, SourceInv
  <2>2. nonces' \in Nat /\ \A k \in DOMAIN sourceLayers' : k[2] \in 0..nonces'
    BY <1>1 DEF SourceInv, SourceTyped, LaterCommits
  <2>. QED BY <1>1, <2>1, <2>2, Idles, Working
<1>2. CASE StartBuild(w)
  <2>. DEFINE x == [builds[w] EXCEPT !.at = IF builds[w].image = NoSource THEN "build" ELSE "run"]
  <2>1. builds' = [builds EXCEPT ![w] = x]
    BY <1>2 DEF StartBuild, BuildGo, SourceInv, SourceTyped
  <2>2. x \in JobType /\ x.of = builds[w].of /\ x.of \in Sources /\ x.at \in {"build", "run"}
    BY <1>0, <1>2 DEF StartBuild, JobType, Building
  <2>3. JobFits(x, sourceRows[x.of])
    BY <1>0, <1>2 DEF StartBuild, JobFits, Building, JobType
  <2>4. OnlyStatus
    BY <1>0, <1>2, <2>2, Marking DEF StartBuild, Mark, SourceInv
  <2>5. nonces' \in Nat /\ \A k \in DOMAIN sourceLayers' : k[2] \in 0..nonces'
    BY <1>2 DEF StartBuild, SourceInv, SourceTyped, LaterCommits
  <2>. HIDE DEF x
  <2>. QED BY <1>2, <2>1, <2>2, <2>3, <2>4, <2>5, Working DEF StartBuild
<1>3. CASE CloneSource(w)
  <2>. DEFINE key == SourceKey(builds[w].commit, nonces + 1)
  <2>1. key[2] = nonces + 1 /\ nonces' = nonces + 1 /\ nonces \in Nat
    BY <1>3 DEF CloneSource, SourceKey, SourceInv, SourceTyped
  <2>2. key \notin DOMAIN sourceLayers
    BY <2>1 DEF SourceInv, LaterCommits
  <2>3. PICK fetched \in BOOLEAN :
           builds' = [builds EXCEPT ![w].at = "stages", ![w].cloned = CheckedOut(builds[w].commit, fetched).commit,
                                    ![w].strayed = CheckedOut(builds[w].commit, fetched).strayed]
    BY <1>3, <2>2 DEF CloneSource
  <2>. DEFINE source == CheckedOut(builds[w].commit, fetched)
              x == [builds[w] EXCEPT !.at = "stages", !.cloned = source.commit, !.strayed = source.strayed]
  <2>4. builds' = [builds EXCEPT ![w] = x]
    BY <2>3 DEF SourceInv, SourceTyped
  <2>5. builds[w].at = "build" /\ builds[w].of \in Sources /\ builds[w].commit \in Commit /\ head \in Commit
    BY <1>0, <1>3 DEF CloneSource, SourceInv, SourceTyped, JobType
  <2>6. /\ source.commit \in Commit /\ source.strayed \in BOOLEAN
        /\ source.commit = head \/ (source.commit = builds[w].commit /\ builds[w].commit # NoSha)
        /\ builds[w].commit # NoSha => source.commit = builds[w].commit \/ source.strayed
    BY <2>5 DEF CheckedOut
  <2>. HIDE DEF source
  <2>7. /\ x \in JobType /\ x.of = builds[w].of /\ x.at = "stages" /\ x.cloned = source.commit
        /\ x.strayed = source.strayed /\ x.commit = builds[w].commit
    BY <1>0, <2>6 DEF JobType, Building
  <2>8. JobFits(x, sourceRows[x.of])
    <3>1. source.commit > sourceRows[x.of].since
      BY <1>0, <2>5, <2>6, <2>7 DEF JobFits, Building, SourceInv, LaterCommits, SourceTyped, RowType
    <3>. QED BY <1>0, <2>5, <2>6, <2>7, <3>1 DEF JobFits, Building
  <2>9. nonces' \in Nat /\ \A k \in DOMAIN sourceLayers' : k[2] \in 0..nonces'
    <3>1. DOMAIN sourceLayers' = DOMAIN sourceLayers \cup {key}
      BY <1>3 DEF CloneSource
    <3>. HIDE DEF key
    <3>. QED BY <2>1, <3>1 DEF SourceInv, LaterCommits
  <2>. HIDE DEF x
  <2>. QED BY <1>3, <2>4, <2>5, <2>7, <2>8, <2>9, Working DEF CloneSource
<1>4. CASE BuildFails(w)
  <2>. DEFINE tries == builds[w].tries + 1
              again == [builds[w] EXCEPT !.at = "build", !.tries = tries]
              stop == [builds[w] EXCEPT !.at = "throw"]
  <2>1. PICK x \in {again, stop} : builds' = [builds EXCEPT ![w] = x]
    BY <1>4 DEF BuildFails, SourceInv, SourceTyped
  <2>2. builds[w].at \in {"build", "stages"} /\ builds[w].of \in Sources
    BY <1>0, <1>4 DEF BuildFails
  <2>c. tries \in Nat
    BY <1>0 DEF JobType
  <2>. HIDE DEF tries
  <2>a. /\ again \in JobType /\ again.of = builds[w].of /\ again.at = "build"
        /\ again.commit = builds[w].commit /\ again.image = builds[w].image
    BY <1>0, <2>c DEF JobType, Building
  <2>b. /\ stop \in JobType /\ stop.of = builds[w].of /\ stop.at = "throw"
        /\ stop.commit = builds[w].commit /\ stop.image = builds[w].image
    BY <1>0 DEF JobType, Building
  <2>. HIDE DEF again, stop
  <2>3. /\ x \in JobType /\ x.of = builds[w].of /\ x.at \in {"build", "throw"}
        /\ x.commit = builds[w].commit /\ x.image = builds[w].image
    BY <2>1, <2>a, <2>b
  <2>4. JobFits(x, sourceRows[x.of])
    BY <1>0, <2>2, <2>3 DEF JobFits, Building
  <2>5. nonces' \in Nat /\ \A k \in DOMAIN sourceLayers' : k[2] \in 0..nonces'
    BY <1>4 DEF BuildFails, SourceInv, SourceTyped, LaterCommits
  <2>. QED BY <1>4, <2>1, <2>2, <2>3, <2>4, <2>5, Working DEF BuildFails
<1>5. CASE RunImage(w)
  BY <1>0, <1>1, <1>5 DEF RunImage
<1>6. CASE BuildThrows(w)
  BY <1>0, <1>1, <1>6 DEF BuildThrows
<1>7. CASE EngineDies(w)
  BY <1>1, <1>7 DEF EngineDies
<1>. QED BY <1>2, <1>3, <1>4, <1>5, <1>6, <1>7

\* A tag moves to a new image only while nobody has the old one from a row.
LEMMA Builds == ASSUME SourceInv, NEW w \in Engines, DockerBuild(w)  PROVE SourceInv'
<1>. USE SourceAssumption, CommitsAre DEF NoSha
<1>0. PICK d \in Sources :
        /\ d = builds[w].of /\ builds[w] \in JobType /\ builds[w].at = "stages"
        /\ JobFits(builds[w], sourceRows[d]) /\ sourceRows[d].image = NoSource /\ ~ NotCreated(d)
  BY DEF SourceInv, SourceTyped, OneEngine, JobsFit, JobFits, JobType, SomeSource, Building, DockerBuild, Unknown
<1>1. PICK x \in JobType :
        /\ builds' = [builds EXCEPT ![w] = x]
        /\ x.of = d /\ x.at = "record" /\ x.cloned = builds[w].cloned /\ x.strayed = builds[w].strayed
        /\ x.commit = builds[w].commit \/ (builds[w].commit = NoSha /\ x.commit \in {x.cloned, NoSha})
  <2>1. PICK told \in {builds[w].cloned, NoSha} :
           builds' = [builds EXCEPT ![w].at = "record", ![w].commit = IF @ = NoSha THEN told ELSE @]
    BY DEF DockerBuild
  <2>. DEFINE commit == IF builds[w].commit = NoSha THEN told ELSE builds[w].commit
              x == [builds[w] EXCEPT !.at = "record", !.commit = commit]
  <2>2. builds' = [builds EXCEPT ![w] = x]
    BY <2>1 DEF SourceInv, SourceTyped
  <2>3. commit \in Commit /\ (commit = builds[w].commit \/ (builds[w].commit = NoSha /\ commit \in {builds[w].cloned, NoSha}))
    BY <1>0 DEF JobType
  <2>. HIDE DEF commit
  <2>4. /\ x \in JobType /\ x.of = d /\ x.at = "record" /\ x.cloned = builds[w].cloned
        /\ x.strayed = builds[w].strayed /\ x.commit = commit
    BY <2>3, <1>0 DEF JobType, Building
  <2>. QED BY <2>2, <2>3, <2>4
<1>2. PICK image \in ImageType :
        /\ images' = [images EXCEPT ![d] = image]
        /\ image.commit = builds[w].cloned /\ image.strayed = builds[w].strayed
        /\ UNCHANGED <<head, asks, sourceRows, items, sourceLayers, nonces, claimed>>
  <2>. DEFINE image == [commit |-> builds[w].cloned, settings |-> builds[w].settings,
                        strayed |-> builds[w].strayed]
  <2>1. image \in ImageType /\ image.commit = builds[w].cloned /\ image.strayed = builds[w].strayed
    BY <1>0 DEF JobType, ImageType
  <2>2. images' = [images EXCEPT ![d] = image]
    BY <1>0 DEF DockerBuild
  <2>. QED BY <2>1, <2>2 DEF DockerBuild
<1>3. builds'[w] = x /\ \A v \in Engines \ {w} : builds'[v] = builds[v] /\ builds[v].of # d
  BY <1>0, <1>1 DEF SourceInv, SourceTyped, OneEngine
<1>4. /\ images'[d].commit = builds[w].cloned /\ images'[d].strayed = builds[w].strayed
      /\ \A e \in Sources \ {d} : images'[e] = images[e]
  BY <1>0, <1>2 DEF SourceInv, SourceTyped
<1>5. SourceTyped'
  BY <1>0, <1>1, <1>2 DEF SourceInv, SourceTyped
<1>6. Unknown'
  BY <1>0, <1>1, <1>2, <1>3, <1>4 DEF SourceInv, Unknown, NotCreated
<1>7. CommitsFit'
  <2>1. \A e \in Sources : asks[e].image \in SomeSource /\ sourceRows[e].image \in SomeSource
    BY DEF SourceInv, SourceTyped, AskType, RowType
  <2>. QED BY <1>0, <1>2, <1>4, <2>1 DEF SourceInv, CommitsFit, Fits, SomeSource
<1>8. OneEngine'
  BY <1>0, <1>1, <1>3 DEF SourceInv, OneEngine
<1>9. JobsFit'
  <2>1. JobFits(x, sourceRows[d])'
    <3>1. /\ x.commit # NoSha => x.commit = builds[w].commit \/ x.commit = x.cloned
          /\ builds[w].commit # NoSha =>
                (builds[w].cloned = builds[w].commit \/ builds[w].strayed) /\ x.commit = builds[w].commit
          /\ builds[w].cloned > sourceRows[d].since
          /\ sourceRows[d].commit # NoSha => x.commit = sourceRows[d].commit
      BY <1>0, <1>1 DEF JobFits, Building
    <3>2. /\ images'[x.of].commit = x.cloned /\ images'[x.of].strayed = x.strayed /\ sourceRows'[d] = sourceRows[d]
      BY <1>1, <1>2, <1>4
    <3>. QED BY <1>0, <1>1, <3>1, <3>2 DEF JobFits, Building
  <2>2. ASSUME NEW v \in Engines \ {w}, builds[v].of # NoSource
        PROVE  JobFits(builds[v], sourceRows[builds[v].of])'
    <3>1. JobFits(builds[v], sourceRows[builds[v].of]) /\ builds[v].of \in Sources \ {d}
      BY <1>3, <2>2 DEF SourceInv, SourceTyped, JobsFit, JobType, SomeSource
    <3>. QED BY <1>2, <1>3, <1>4, <3>1 DEF JobFits
  <2>3. JobFits(builds[w], sourceRows[builds[w].of])'
    BY <1>1, <1>3, <2>1 DEF JobFits
  <2>. SUFFICES ASSUME NEW v \in Engines, builds'[v].of # NoSource
                PROVE  JobFits(builds[v], sourceRows[builds[v].of])'
    BY DEF JobsFit
  <2>. QED BY <1>3, <2>2, <2>3
<1>10. LaterCommits'
  <2>1. builds[w].cloned > sourceRows[d].since
    BY <1>0 DEF JobFits
  <2>. QED BY <1>2, <1>4, <2>1 DEF SourceInv, LaterCommits, Later, NotCreated
<1>. QED BY <1>5, <1>6, <1>7, <1>8, <1>9, <1>10 DEF SourceInv

\* The image and its commit are recorded in one update, by the only engine that knows them.
LEMMA Records == ASSUME SourceInv, NEW w \in Engines, RecordImage(w)  PROVE SourceInv'
<1>. USE SourceAssumption, CommitsAre DEF NoSha
<1>0. PICK d \in Sources :
        /\ d = builds[w].of /\ builds[w] \in JobType /\ builds[w].at = "record"
        /\ JobFits(builds[w], sourceRows[d]) /\ ~ NotCreated(d)
  BY DEF SourceInv, SourceTyped, OneEngine, JobsFit, JobType, SomeSource, RecordImage, Unknown
<1>1. PICK x \in JobType :
        builds' = [builds EXCEPT ![w] = x] /\ x.of = d /\ x.at = "run"
  <2>. DEFINE x == [builds[w] EXCEPT !.at = "run"]
  <2>1. builds' = [builds EXCEPT ![w] = x]
    BY DEF RecordImage, BuildGo, SourceInv, SourceTyped
  <2>2. x \in JobType /\ x.of = d /\ x.at = "run"
    BY <1>0 DEF JobType
  <2>. QED BY <2>1, <2>2
<1>2. PICK row \in RowType :
        /\ sourceRows' = [sourceRows EXCEPT ![d] = row]
        /\ row.image = d /\ row.ref = sourceRows[d].ref /\ row.since = sourceRows[d].since
        /\ row.commit = IF builds[w].commit # NoSha THEN builds[w].commit ELSE sourceRows[d].commit
  <2>. DEFINE commit == IF builds[w].commit # NoSha THEN builds[w].commit ELSE sourceRows[d].commit
              row == [sourceRows[d] EXCEPT !.image = d, !.commit = commit]
  <2>1. sourceRows' = [sourceRows EXCEPT ![d] = row]
    BY <1>0 DEF RecordImage, SourceInv, SourceTyped
  <2>2. commit \in Commit /\ sourceRows[d] \in RowType
    BY <1>0 DEF SourceInv, SourceTyped, RowType, JobType
  <2>. HIDE DEF commit
  <2>3. row \in RowType /\ row.image = d /\ row.ref = sourceRows[d].ref /\ row.since = sourceRows[d].since /\ row.commit = commit
    BY <2>2 DEF RowType, SomeSource
  <2>. QED BY <2>1, <2>3 DEF commit
<1>3. /\ builds'[w] = x /\ sourceRows'[d] = row
      /\ \A v \in Engines \ {w} : builds'[v] = builds[v] /\ builds[v].of # d
      /\ \A e \in Sources \ {d} : sourceRows'[e] = sourceRows[e]
  BY <1>0, <1>1, <1>2 DEF SourceInv, SourceTyped, OneEngine
<1>4. UNCHANGED <<head, asks, items, sourceLayers, nonces, images, claimed>>
  BY DEF RecordImage
<1>5. /\ row.commit # NoSha => images[d].commit = row.commit \/ images[d].strayed
      /\ sourceRows[d].commit # NoSha => row.commit = sourceRows[d].commit
      /\ Later(row.commit, row.since)
  BY <1>0, <1>2 DEF JobFits, Building, SourceInv, LaterCommits, Later
<1>6. SourceTyped'
  BY <1>1, <1>2, <1>4 DEF SourceInv, SourceTyped
<1>7. Unknown'
  BY <1>0, <1>1, <1>3, <1>4 DEF SourceInv, Unknown, NotCreated
<1>8. CommitsFit'
  <2>1. sourceRows'[d].ref # NoSha => sourceRows'[d].ref = sourceRows'[d].commit
    BY <1>2, <1>3, <1>5 DEF SourceInv, CommitsFit
  <2>2. Fits(sourceRows[d].commit, sourceRows[d].image)'
    BY <1>2, <1>3, <1>4, <1>5 DEF Fits
  <2>3. \A t \in Sources : sourceRows[t].image = t => sourceRows'[t].image = t
    BY <1>2, <1>3
  <2>4. ASSUME NEW e \in Sources, e \notin claimed
        PROVE  Fits(asks[e].sha, asks[e].image)' /\ (e # d => Fits(sourceRows[e].commit, sourceRows[e].image)')
    <3>1. asks[e].image \in SomeSource /\ sourceRows[e].image \in SomeSource
      BY DEF SourceInv, SourceTyped, AskType, RowType
    <3>2. Fits(asks[e].sha, asks[e].image) /\ Fits(sourceRows[e].commit, sourceRows[e].image)
      BY <2>4 DEF SourceInv, CommitsFit
    <3>. QED BY <1>3, <1>4, <2>3, <3>1, <3>2 DEF Fits, SomeSource
  <2>. QED BY <1>3, <1>4, <2>1, <2>2, <2>4 DEF SourceInv, CommitsFit
<1>9. OneEngine'
  BY <1>0, <1>1, <1>3 DEF SourceInv, OneEngine
<1>10. JobsFit'
  <2>. SUFFICES ASSUME NEW v \in Engines, builds'[v].of # NoSource
                PROVE  JobFits(builds[v], sourceRows[builds[v].of])'
    BY DEF JobsFit
  <2>1. CASE v = w
    BY <1>1, <1>3, <2>1 DEF JobFits, Building
  <2>2. CASE v # w
    <3>1. JobFits(builds[v], sourceRows[builds[v].of]) /\ builds[v].of \in Sources \ {d} /\ builds'[v] = builds[v]
      BY <1>3, <2>2 DEF SourceInv, SourceTyped, JobsFit, JobType, SomeSource
    <3>. QED BY <1>3, <1>4, <3>1 DEF JobFits
  <2>. QED BY <2>1, <2>2
<1>11. LaterCommits'
  <2>1. \A e \in Sources : sourceRows'[e].since = sourceRows[e].since
    BY <1>2, <1>3
  <2>2. \A e \in Sources : ~ NotCreated(e) => Later(sourceRows[e].commit, sourceRows[e].since)'
    BY <1>3, <1>5 DEF SourceInv, LaterCommits, Later
  <2>3. \A i \in DOMAIN items : items[i].sha # NoSha => items[i].sha = sourceRows'[items[i].of].commit
    BY <1>3, <1>5, ItemsOf DEF SourceInv, LaterCommits
  <2>. QED BY <1>4, <2>1, <2>2, <2>3, ItemsOf DEF SourceInv, LaterCommits, Later, NotCreated
<1>. QED BY <1>6, <1>7, <1>8, <1>9, <1>10, <1>11 DEF SourceInv

LEMMA Marks == ASSUME SourceInv, NEW d \in Sources, MarkRolledBack(d)  PROVE SourceInv'
<1>. USE SourceAssumption, CommitsAre DEF NoSha
<1>1. PICK x \in AskType :
        asks' = [asks EXCEPT ![d] = x] /\ x.at = "done" /\ x.sha = NoSha /\ x.since = NoSha
  <2>. DEFINE x == [NoAsk EXCEPT !.at = "done"]
  <2>1. x \in AskType /\ x.at = "done" /\ x.sha = NoSha /\ x.since = NoSha
    BY DEF NoAsk, AskType, SomeSource, SomeSettings
  <2>. QED BY <2>1 DEF MarkRolledBack, ShaAnswered
<1>2. asks'[d] = x /\ \A e \in Sources \ {d} : asks'[e] = asks[e]
  BY <1>1 DEF SourceInv, SourceTyped
<1>3. OnlyStatus /\ UNCHANGED <<head, items, builds, sourceLayers, nonces, images, claimed>>
  <2>1. CASE asks[d].of \in Sources
    BY <2>1, Marking DEF MarkRolledBack, SourceInv
  <2>2. CASE asks[d].of \notin Sources
    <3>1. sourceRows' = sourceRows
      BY <2>2 DEF MarkRolledBack, SourceInv, SourceTyped
    <3>. QED BY <3>1 DEF OnlyStatus, MarkRolledBack, SourceInv, SourceTyped
  <2>. QED BY <2>1, <2>2 DEF MarkRolledBack
<1>4. ~ NotCreated(d) /\ ~ NotCreated(d)' /\ \A e \in Sources : NotCreated(e)' <=> NotCreated(e)
  BY <1>1, <1>2 DEF MarkRolledBack, NotCreated
<1>5. SourceTyped'
  BY <1>1, <1>3 DEF SourceInv, SourceTyped, OnlyStatus
<1>6. Unknown'
  BY <1>3, <1>4 DEF SourceInv, Unknown, OnlyStatus
<1>7. CommitsFit'
  <2>1. \A e \in Sources : asks[e].image \in SomeSource /\ sourceRows[e].image \in SomeSource
    BY DEF SourceInv, SourceTyped, AskType, RowType
  <2>2. ASSUME NEW e \in Sources, e \notin claimed
        PROVE  Fits(asks[e].sha, asks[e].image)' /\ Fits(sourceRows[e].commit, sourceRows[e].image)'
    <3>1. Fits(asks[e].sha, asks[e].image) /\ Fits(sourceRows[e].commit, sourceRows[e].image)
      BY <2>2 DEF SourceInv, CommitsFit
    <3>2. Fits(sourceRows[e].commit, sourceRows[e].image)'
      BY <1>3, <2>1, <3>1 DEF Fits, OnlyStatus, SomeSource
    <3>3. Fits(asks[e].sha, asks[e].image)'
      BY <1>1, <1>2, <1>3, <2>1, <3>1 DEF Fits, OnlyStatus, SomeSource
    <3>. QED BY <3>2, <3>3
  <2>. QED BY <1>3, <2>2 DEF SourceInv, CommitsFit, OnlyStatus
<1>8. OneEngine'
  BY <1>3 DEF SourceInv, OneEngine
<1>9. JobsFit'
  <2>1. \A w \in Engines : builds[w].of # NoSource => builds[w].of \in Sources
    BY DEF SourceInv, SourceTyped, JobType, SomeSource
  <2>. QED BY <1>3, <2>1 DEF SourceInv, JobsFit, JobFits, OnlyStatus
<1>10. LaterCommits'
  <2>1. /\ \A e \in Sources : asks'[e].since < head /\ (NotCreated(e) => Later(asks[e].sha, asks[e].since)')
    BY <1>1, <1>2, <1>4 DEF SourceInv, SourceTyped, LaterCommits, Later
  <2>2. \A i \in DOMAIN items : items[i].of \in Sources
    BY ItemsOf DEF SourceInv
  <2>. QED BY <1>3, <1>4, <2>1, <2>2 DEF SourceInv, LaterCommits, Later, OnlyStatus
<1>. QED BY <1>5, <1>6, <1>7, <1>8, <1>9, <1>10 DEF SourceInv

LEMMA HeadMoves == ASSUME SourceInv, PushCommit  PROVE SourceInv'
<1>. USE SourceAssumption, CommitsAre DEF PushCommit
<1>1. SourceTyped'
  BY DEF SourceInv, SourceTyped
<1>2. Unknown' /\ CommitsFit' /\ OneEngine' /\ JobsFit'
  BY DEF SourceInv, Unknown, NotCreated, CommitsFit, Fits, OneEngine, JobsFit, JobFits
<1>3. LaterCommits'
  <2>1. \A d \in Sources : sourceRows[d].since \in Nat /\ asks[d].since \in Nat
    BY DEF SourceInv, SourceTyped, AskType, RowType
  <2>2. head \in Nat /\ head' = head + 1
    BY DEF SourceInv, SourceTyped
  <2>3. \A d \in Sources : sourceRows[d].since < head' /\ asks[d].since < head'
    BY <2>1, <2>2 DEF SourceInv, LaterCommits
  <2>. QED BY <2>3 DEF SourceInv, LaterCommits, Later, NotCreated
<1>. QED BY <1>1, <1>2, <1>3 DEF SourceInv

\* An item is taken by an engine to which its deployment is free, or dropped.
LEMMA Takes == ASSUME SourceInv, NEW w \in Engines, Take(w)  PROVE SourceInv'
<1>. USE SourceAssumption, CommitsAre DEF NoSha
<1>0. /\ items # <<>> /\ items \in Seq(ItemType) /\ items' = Tail(items)
      /\ UNCHANGED <<head, asks, sourceRows, sourceLayers, nonces, images, claimed>>
  BY DEF Take, SourceInv, SourceTyped
<1>1. items' \in Seq(ItemType) /\ \A i \in DOMAIN items' : i + 1 \in DOMAIN items /\ items'[i] = items[i + 1]
  BY <1>0
<1>2. PICK item \in ItemType : item = items[1] /\ 1 \in DOMAIN items /\ item.of \in Sources
  BY <1>0, ItemsOf DEF SourceInv
<1>3. ASSUME builds' = builds  PROVE SourceInv'
  <2>1. SourceTyped'
    BY <1>0, <1>1, <1>3 DEF SourceInv, SourceTyped
  <2>2. Unknown'
    BY <1>0, <1>1, <1>3 DEF SourceInv, Unknown, NotCreated
  <2>3. CommitsFit' /\ OneEngine' /\ JobsFit'
    BY <1>0, <1>3 DEF SourceInv, CommitsFit, Fits, OneEngine, JobsFit, JobFits
  <2>4. LaterCommits'
    BY <1>0, <1>1, <1>3 DEF SourceInv, LaterCommits, Later, NotCreated
  <2>. QED BY <2>1, <2>2, <2>3, <2>4 DEF SourceInv
<1>4. ASSUME \A v \in Engines : builds[v].of # item.of,
             builds' = [builds EXCEPT ![w] =
                          [at |-> "start", of |-> item.of, image |-> sourceRows[item.of].image, tries |-> 0,
                           cloned |-> NoSha, strayed |-> FALSE,
                           commit |-> IF item.sha # NoSha THEN item.sha ELSE sourceRows[item.of].commit,
                           settings |-> item.settings]]
      PROVE  SourceInv'
  <2>1. PICK x \in JobType :
          /\ builds' = [builds EXCEPT ![w] = x]
          /\ x.of = item.of /\ x.at = "start" /\ x.image = sourceRows[item.of].image
          /\ x.commit = IF item.sha # NoSha THEN item.sha ELSE sourceRows[item.of].commit
    <3>. DEFINE commit == IF item.sha # NoSha THEN item.sha ELSE sourceRows[item.of].commit
    <3>1. item.sha \in Commit /\ sourceRows[item.of].commit \in Commit /\ sourceRows[item.of].image \in SomeSource
          /\ item.settings \in SomeSettings /\ item.of \in SomeSource
      BY <1>2 DEF SourceInv, SourceTyped, RowType, ItemType, SomeSource
    <3>2. commit \in Commit
      BY <3>1
    <3>. HIDE DEF commit
    <3>3. [at |-> "start", of |-> item.of, image |-> sourceRows[item.of].image, tries |-> 0,
           cloned |-> NoSha, strayed |-> FALSE, commit |-> commit, settings |-> item.settings] \in JobType
      BY <3>1, <3>2 DEF JobType
    <3>. QED BY <1>4, <3>3 DEF commit
  <2>2. builds'[w] = x /\ \A v \in Engines \ {w} : builds'[v] = builds[v]
    BY <2>1 DEF SourceInv, SourceTyped
  <2>3. ~ NotCreated(item.of)
    BY <1>2 DEF SourceInv, Unknown
  <2>4. SourceTyped'
    BY <1>0, <1>1, <2>1 DEF SourceInv, SourceTyped
  <2>5. Unknown'
    BY <1>0, <1>1, <2>1, <2>2, <2>3 DEF SourceInv, Unknown, NotCreated
  <2>6. CommitsFit'
    BY <1>0 DEF SourceInv, CommitsFit, Fits
  <2>7. OneEngine'
    BY <1>2, <1>4, <2>1, <2>2 DEF SourceInv, OneEngine
  <2>8. JobsFit'
    <3>. SUFFICES ASSUME NEW v \in Engines, builds'[v].of # NoSource
                  PROVE  JobFits(builds[v], sourceRows[builds[v].of])'
      BY DEF JobsFit
    <3>1. CASE v = w
      <4>1. /\ x.commit # NoSha => x.commit > sourceRows[item.of].since
            /\ sourceRows[item.of].commit # NoSha => x.commit = sourceRows[item.of].commit
        BY <1>2, <2>1, <2>3 DEF SourceInv, LaterCommits, Later
      <4>. QED BY <1>0, <2>1, <2>2, <3>1, <4>1 DEF JobFits, Building
    <3>2. CASE v # w
      BY <1>0, <2>2, <3>2 DEF SourceInv, JobsFit, JobFits
    <3>. QED BY <3>1, <3>2
  <2>9. LaterCommits'
    BY <1>0, <1>1 DEF SourceInv, LaterCommits, Later, NotCreated
  <2>. QED BY <2>4, <2>5, <2>6, <2>7, <2>8, <2>9 DEF SourceInv
<1>. QED BY <1>2, <1>3, <1>4 DEF Take

\* The row is written before its items are pushed; what it holds is what was asked for.
LEMMA Creates == ASSUME SourceInv, NEW d \in Sources, CreateSource(d)  PROVE SourceInv'
<1>. USE SourceAssumption, CommitsAre DEF NoSha
<1>0. NotCreated(d) /\ asks[d] \in AskType /\ asks[d].since < head /\ Later(asks[d].sha, asks[d].since)
  BY DEF CreateSource, NotCreated, SourceInv, SourceTyped, LaterCommits
<1>1. PICK pushed \in 0..2 :
        /\ items' = items \o [i \in 1..pushed |-> Item(d)]
        /\ sourceRows' = [sourceRows EXCEPT ![d] =
              [status |-> IF pushed = 0 THEN "failed" ELSE "queued",
               environment |-> asks[d].environment, commit |-> asks[d].sha, image |-> asks[d].image,
               ref |-> DomainRef(asks[d]), since |-> asks[d].since]]
        /\ IF pushed > 0 /\ asks[d].of # NoSource THEN AskGo(d, "mark", NoSha) ELSE ShaAnswered(d)
  BY DEF CreateSource
<1>2. UNCHANGED <<head, builds, sourceLayers, nonces, images, claimed>>
  BY DEF CreateSource
<1>3. PICK x \in AskType :
        asks' = [asks EXCEPT ![d] = x] /\ x.at \in {"mark", "done"} /\ x.sha = NoSha /\ x.since \in {asks[d].since, NoSha}
  <2>1. CASE AskGo(d, "mark", NoSha)
    <3>. DEFINE x == [asks[d] EXCEPT !.at = "mark", !.sha = NoSha]
    <3>1. asks' = [asks EXCEPT ![d] = x]
      BY <2>1 DEF AskGo, SourceInv, SourceTyped
    <3>2. x \in AskType /\ x.at = "mark" /\ x.sha = NoSha /\ x.since = asks[d].since
      BY <1>0 DEF AskType
    <3>. QED BY <3>1, <3>2
  <2>2. CASE ShaAnswered(d)
    <3>. DEFINE x == [NoAsk EXCEPT !.at = "done"]
    <3>1. x \in AskType /\ x.at = "done" /\ x.sha = NoSha /\ x.since = NoSha
      BY DEF NoAsk, AskType, SomeSource, SomeSettings
    <3>. QED BY <2>2, <3>1 DEF ShaAnswered
  <2>. QED BY <1>1, <2>1, <2>2
<1>4. PICK row \in RowType :
        /\ sourceRows' = [sourceRows EXCEPT ![d] = row]
        /\ row.commit = asks[d].sha /\ row.image = asks[d].image /\ row.since = asks[d].since
        /\ row.ref # NoSha => row.ref = row.commit
  <2>1. DomainRef(asks[d]) \in Commit /\ (DomainRef(asks[d]) # NoSha => DomainRef(asks[d]) = asks[d].sha)
    BY <1>0 DEF DomainRef, AskType
  <2>. DEFINE status == IF pushed = 0 THEN "failed" ELSE "queued"
              ref == DomainRef(asks[d])
              row == [status |-> status, environment |-> asks[d].environment, commit |-> asks[d].sha,
                      image |-> asks[d].image, ref |-> ref, since |-> asks[d].since]
  <2>2. status \in {"failed", "queued"}
    OBVIOUS
  <2>3. sourceRows' = [sourceRows EXCEPT ![d] = row]
    BY <1>1
  <2>. HIDE DEF status, ref
  <2>4. row \in RowType
    BY <1>0, <2>1, <2>2 DEF AskType, RowType, ref
  <2>. QED BY <2>1, <2>3, <2>4 DEF ref
<1>5. PICK item \in ItemType : item = Item(d) /\ item.of = d /\ item.sha = asks[d].sha
  <2>1. asks[d].sha \in Commit /\ asks[d].settings \in SomeSettings
    BY <1>0 DEF AskType
  <2>2. Item(d) \in ItemType /\ Item(d).of = d /\ Item(d).sha = asks[d].sha
    BY <2>1 DEF Item, ItemType
  <2>. QED BY <2>2
<1>6. /\ items' \in Seq(ItemType)
      /\ \A i \in DOMAIN items' : items'[i] = item \/ (i \in DOMAIN items /\ items'[i] = items[i])
  <2>1. items \in Seq(ItemType) /\ [i \in 1..pushed |-> item] \in Seq(ItemType)
    BY DEF SourceInv, SourceTyped
  <2>. QED BY <1>1, <1>5, <2>1
<1>7. /\ asks'[d] = x /\ \A e \in Sources \ {d} : asks'[e] = asks[e]
      /\ sourceRows'[d] = row /\ \A e \in Sources \ {d} : sourceRows'[e] = sourceRows[e]
      /\ ~ NotCreated(d)' /\ \A e \in Sources \ {d} : NotCreated(e)' <=> NotCreated(e)
  BY <1>3, <1>4 DEF SourceInv, SourceTyped, NotCreated
<1>8. \A i \in DOMAIN items : items[i] \in ItemType /\ items[i].of \in Sources \ {d}
  BY <1>0, ItemsOf DEF SourceInv, Unknown
<1>9. \A w \in Engines : builds[w].of # d
  BY <1>0 DEF SourceInv, Unknown
<1>10. \A t \in Sources : sourceRows[t].image = t => sourceRows'[t].image = t
  BY <1>0, <1>7 DEF SourceInv, Unknown
<1>11. SourceTyped'
  BY <1>2, <1>3, <1>4, <1>6 DEF SourceInv, SourceTyped
<1>12. Unknown'
  <2>1. \A i \in DOMAIN items' : items'[i].of = d \/ (i \in DOMAIN items /\ items'[i] = items[i])
    BY <1>5, <1>6
  <2>. QED BY <1>2, <1>7, <2>1 DEF SourceInv, Unknown
<1>13. CommitsFit'
  <2>1. \A e \in Sources : asks[e].image \in SomeSource /\ sourceRows[e].image \in SomeSource
    BY DEF SourceInv, SourceTyped, AskType, RowType
  <2>2. ASSUME NEW e \in Sources, e \notin claimed
        PROVE  Fits(asks[e].sha, asks[e].image)' /\ Fits(sourceRows[e].commit, sourceRows[e].image)'
    <3>1. Fits(asks[e].sha, asks[e].image) /\ Fits(sourceRows[e].commit, sourceRows[e].image)
      BY <2>2 DEF SourceInv, CommitsFit
    <3>2. Fits(asks[e].sha, asks[e].image)'
      BY <1>2, <1>3, <1>7, <1>10, <2>1, <3>1 DEF Fits, SomeSource
    <3>3. Fits(sourceRows[e].commit, sourceRows[e].image)'
      BY <1>2, <1>4, <1>7, <1>10, <2>1, <3>1 DEF Fits, SomeSource
    <3>. QED BY <3>2, <3>3
  <2>. QED BY <1>2, <1>4, <1>7, <2>2 DEF SourceInv, CommitsFit
<1>14. OneEngine'
  BY <1>2 DEF SourceInv, OneEngine
<1>15. JobsFit'
  <2>1. \A w \in Engines : builds[w].of # NoSource => builds[w].of \in Sources \ {d}
    BY <1>9 DEF SourceInv, SourceTyped, JobType, SomeSource
  <2>. QED BY <1>2, <1>7, <2>1 DEF SourceInv, JobsFit, JobFits
<1>16. LaterCommits'
  <2>1. /\ row.since < head /\ x.since < head /\ Later(row.commit, row.since)
        /\ images[d] = NoImage
    BY <1>0, <1>3, <1>4 DEF SourceInv, SourceTyped, Unknown, Later
  <2>2. \A e \in Sources :
          /\ sourceRows'[e].since < head' /\ asks'[e].since < head'
          /\ NotCreated(e)' => Later(asks[e].sha, asks[e].since)'
          /\ ~ NotCreated(e)' => Later(sourceRows[e].commit, sourceRows[e].since)'
          /\ images'[e] # NoImage => images'[e].commit > sourceRows'[e].since
    BY <1>2, <1>7, <2>1 DEF SourceInv, LaterCommits, Later
  <2>3. \A i \in DOMAIN items' :
          /\ Later(items[i].sha, sourceRows[items[i].of].since)'
          /\ items'[i].sha # NoSha => items'[i].sha = sourceRows'[items'[i].of].commit
    BY <1>4, <1>5, <1>6, <1>7, <1>8, <2>1 DEF SourceInv, LaterCommits, Later
  <2>. QED BY <1>2, <2>2, <2>3 DEF SourceInv, LaterCommits
<1>. QED BY <1>11, <1>12, <1>13, <1>14, <1>15, <1>16 DEF SourceInv

LEMMA SourceStep == SourceInv /\ [SourceNext]_sourceVars => SourceInv'
<1>. SUFFICES ASSUME SourceInv, [SourceNext]_sourceVars  PROVE SourceInv'
  OBVIOUS
<1>1. CASE PushCommit
  BY <1>1, HeadMoves
<1>2. ASSUME NEW d \in Sources, AskStep(d)  PROVE SourceInv'
  BY <1>2, Asks, Creates, Marks
<1>3. ASSUME NEW w \in Engines, EngineStep(w)  PROVE SourceInv'
  BY <1>3, Takes, EngineWorks, Builds, Records DEF EngineStep
<1>4. CASE UNCHANGED sourceVars
  BY <1>4 DEF sourceVars, SourceInv, SourceTyped, Unknown, NotCreated, CommitsFit, Fits, OneEngine, JobsFit,
              JobFits, LaterCommits, Later
<1>. QED BY <1>1, <1>2, <1>3, <1>4 DEF SourceNext

\* The commit a deployment shows, and the one its preview's domain is made of, is that of its image,
\* for any number of requests, engines, repeated builds and reuses of images, unless the image is of
\* a build that could not fetch its commit and went on with the head
\* (deployment-request-service.ts:187, deployment-pipeline.ts:139, docker-adapter.ts:102).
THEOREM ImagesAreOfCommits == SourceSpec => []ImageIsOfCommit
<1>1. SourceInv => ImageIsOfCommit
  BY DEF SourceInv, CommitsFit, Fits, ImageIsOfCommit
<1>. QED BY <1>1, SourceStart, SourceStep, PTL DEF SourceSpec

\* A build that was given no commit is of one that was the head since the deployment was asked for,
\* whatever the builder had cached (docker-adapter.ts:703).
THEOREM SourcesAreCurrent == SourceSpec => []SourceIsCurrent
<1>1. SourceInv => SourceIsCurrent
  BY DEF SourceInv, LaterCommits, SourceIsCurrent
<1>. QED BY <1>1, SourceStart, SourceStep, PTL DEF SourceSpec

-----------------------------------------------------------------------------
(* The image of a deployment *)

\* The first choice that there is comes after none.
LEMMA FirstIs ==
    ASSUME NEW choices, NEW n \in Nat, DOMAIN choices = 1..n, NEW last \in 1..n, choices[last] # NoCommand
    PROVE  \E i \in 1..n : /\ choices[i] # NoCommand /\ FirstOf(choices) = choices[i]
                           /\ \A j \in 1..(i - 1) : choices[j] = NoCommand
<1>. DEFINE T == {i \in 1..n : choices[i] # NoCommand}
<1>1. IsWellFoundedOn(OpToRel(<, Nat), Nat)
  BY NatLessThanWellFounded
<1>2. T \subseteq Nat /\ T # {}
  OBVIOUS
<1>3. PICK i \in T : \A j \in T : ~ (<<j, i>> \in OpToRel(<, Nat))
  BY <1>1, <1>2, WFMin
<1>4. \A j \in T : ~ (j < i)
  BY <1>2, <1>3 DEF OpToRel
<1>5. \A j \in 1..(i - 1) : choices[j] = NoCommand
  BY <1>4
<1>. QED BY <1>5 DEF FirstOf

LEMMA NodeChoicesAre ==
    ASSUME NEW app, NEW s
    PROVE  \E n \in Nat : \E C :
              /\ C = NodeChoices(app, s) /\ DOMAIN C = 1..(n + 7) /\ DOMAIN EntryFiles = 1..n
              /\ C[1] = StartArgument(s) /\ C[5] = app.main
              /\ C[2] = If(Serves(Script(app, "start:prod")), Script(app, "start:prod"))
              /\ C[3] = If(Serves(Script(app, "start")), Script(app, "start"))
              /\ C[4] = If(Serves(Script(app, "serve")), Script(app, "serve"))
              /\ \A i \in 1..n : C[5 + i] = If(EntryFiles[i] \in Built(app, s.build), EntryFiles[i])
              /\ C[6 + n] = Script(app, "start") /\ C[7 + n] = "server.js"
<1>. DEFINE Start(name) == If(Serves(Script(app, name)), Script(app, name))
            file(i) == If(EntryFiles[i] \in Built(app, s.build), EntryFiles[i])
<1>0. PICK n \in Nat : n = Len(EntryFiles) /\ DOMAIN EntryFiles = 1..n
  BY ImageAssumption
<1>1. PICK front, files, back :
        /\ front = <<StartArgument(s), Start("start:prod"), Start("start"), Start("serve"), app.main>>
        /\ files = [i \in DOMAIN EntryFiles |-> file(i)]
        /\ back = <<Script(app, "start"), "server.js">>
  OBVIOUS
<1>2. PICK S : S = {front[1], front[2], front[3], front[4], front[5], back[1], back[2]} \cup {file(i) : i \in 1..n}
  OBVIOUS
<1>3. front \in Seq(S) /\ files \in Seq(S) /\ back \in Seq(S) /\ Len(front) = 5 /\ Len(files) = n /\ Len(back) = 2
  <2>1. front \in Seq(S) /\ Len(front) = 5 /\ back \in Seq(S) /\ Len(back) = 2
    BY <1>1, <1>2
  <2>2. files \in Seq(S) /\ Len(files) = n
    BY <1>0, <1>1, <1>2
  <2>. QED BY <2>1, <2>2
<1>4. PICK ab, C : ab = front \o files /\ C = ab \o back
  OBVIOUS
<1>5. C = NodeChoices(app, s)
  BY <1>1, <1>4 DEF NodeChoices
<1>6. /\ DOMAIN C = 1..(5 + n + 2)
      /\ \A i \in 1..5 : C[i] = front[i]
      /\ \A i \in 1..n : C[5 + i] = files[i]
      /\ \A i \in 1..2 : C[5 + n + i] = back[i]
  <2>1. ab \in Seq(S) /\ Len(ab) = 5 + n /\ \A i \in 1..(5 + n) : ab[i] = IF i <= 5 THEN front[i] ELSE files[i - 5]
    <3>1. Len(ab) = Len(front) + Len(files) /\ ab \in Seq(S)
          /\ \A i \in 1..(Len(front) + Len(files)) : ab[i] = IF i <= Len(front) THEN front[i] ELSE files[i - Len(front)]
      BY <1>3, <1>4, ConcatProperties
    <3>. QED BY <1>3, <3>1
  <2>2. C \in Seq(S) /\ Len(C) = 5 + n + 2 /\ \A i \in 1..(5 + n + 2) : C[i] = IF i <= 5 + n THEN ab[i] ELSE back[i - (5 + n)]
    <3>1. Len(C) = Len(ab) + Len(back) /\ C \in Seq(S)
          /\ \A i \in 1..(Len(ab) + Len(back)) : C[i] = IF i <= Len(ab) THEN ab[i] ELSE back[i - Len(ab)]
      BY <1>3, <1>4, <2>1, ConcatProperties
    <3>. QED BY <1>3, <2>1, <3>1
  <2>3. ASSUME NEW i \in 1..n  PROVE C[5 + i] = files[i]
    <3>1. 5 + i \in 1..(5 + n) /\ ~ (5 + i <= 5) /\ (5 + i) - 5 = i
      OBVIOUS
    <3>. QED BY <2>1, <2>2, <3>1
  <2>4. ASSUME NEW i \in 1..2  PROVE C[5 + n + i] = back[i]
    <3>1. 5 + n + i \in 1..(5 + n + 2) /\ ~ (5 + n + i <= 5 + n) /\ (5 + n + i) - (5 + n) = i
      OBVIOUS
    <3>. QED BY <2>2, <3>1
  <2>5. DOMAIN C = 1..(5 + n + 2)
    BY <2>2
  <2>6. \A i \in 1..5 : C[i] = front[i]
    BY <2>1, <2>2
  <2>. QED BY <2>3, <2>4, <2>5, <2>6
<1>7. DOMAIN C = 1..(n + 7)
  BY <1>6
<1>8. /\ C[1] = StartArgument(s) /\ C[5] = app.main
      /\ C[2] = Start("start:prod") /\ C[3] = Start("start") /\ C[4] = Start("serve")
  BY <1>1, <1>6
<1>9. \A i \in 1..n : C[5 + i] = file(i)
  BY <1>0, <1>1, <1>6
<1>10. C[6 + n] = Script(app, "start") /\ C[7 + n] = "server.js"
  <2>1. 5 + n + 1 = 6 + n /\ 5 + n + 2 = 7 + n
    OBVIOUS
  <2>. QED BY <1>1, <1>6, <2>1
<1>. QED BY <1>0, <1>5, <1>7, <1>8, <1>9, <1>10

\* What a web service starts, if it is a dev server to both, is all that could be started.
LEMMA StartsNoDevServer ==
    ASSUME NEW app, NEW s, s.service = "web_service", app.main \notin DevScripts,
           NodeEntry(app, s) \in DevCommands \cap DevScripts
    PROVE  OnlyDevStarts(app, s.build)
<1>0. PICK n \in Nat : \E C :
              /\ C = NodeChoices(app, s) /\ DOMAIN C = 1..(n + 7) /\ DOMAIN EntryFiles = 1..n
              /\ C[1] = StartArgument(s) /\ C[5] = app.main
              /\ C[2] = If(Serves(Script(app, "start:prod")), Script(app, "start:prod"))
              /\ C[3] = If(Serves(Script(app, "start")), Script(app, "start"))
              /\ C[4] = If(Serves(Script(app, "serve")), Script(app, "serve"))
              /\ \A i \in 1..n : C[5 + i] = If(EntryFiles[i] \in Built(app, s.build), EntryFiles[i])
              /\ C[6 + n] = Script(app, "start") /\ C[7 + n] = "server.js"
  BY NodeChoicesAre
<1>1. PICK C :
              /\ C = NodeChoices(app, s) /\ DOMAIN C = 1..(n + 7) /\ DOMAIN EntryFiles = 1..n
              /\ C[1] = StartArgument(s) /\ C[5] = app.main
              /\ C[2] = If(Serves(Script(app, "start:prod")), Script(app, "start:prod"))
              /\ C[3] = If(Serves(Script(app, "start")), Script(app, "start"))
              /\ C[4] = If(Serves(Script(app, "serve")), Script(app, "serve"))
              /\ \A i \in 1..n : C[5 + i] = If(EntryFiles[i] \in Built(app, s.build), EntryFiles[i])
              /\ C[6 + n] = Script(app, "start") /\ C[7 + n] = "server.js"
  BY <1>0
<1>2. PICK k \in 1..(n + 7) :
        C[k] # NoCommand /\ NodeEntry(app, s) = C[k] /\ \A j \in 1..(k - 1) : C[j] = NoCommand
  <2>1. n + 7 \in Nat /\ n + 7 \in 1..(n + 7) /\ C[n + 7] # NoCommand
    BY <1>1, ImageAssumption
  <2>. QED BY <1>1, <2>1, FirstIs DEF NodeEntry
<1>3. k # 1
  BY <1>1, <1>2 DEF StartArgument
<1>4. k \notin {2, 3, 4, 5}
  BY <1>1, <1>2 DEF Serves, If
<1>5. k \notin 6..(n + 5)
  <2>1. ASSUME k \in 6..(n + 5)  PROVE FALSE
    <3>1. k - 5 \in 1..n /\ 5 + (k - 5) = k
      BY <2>1
    <3>2. C[k] = EntryFiles[k - 5]
      BY <1>1, <1>2, <3>1 DEF If
    <3>. QED BY <1>1, <1>2, <3>1, <3>2, ImageAssumption
  <2>. QED BY <2>1
<1>6. k # n + 7
  BY <1>1, <1>2, ImageAssumption
<1>7. k = n + 6
  BY <1>3, <1>4, <1>5, <1>6
<1>8. \A j \in 1..(n + 5) : C[j] = NoCommand
  BY <1>2, <1>7
<1>9. app.main = NoCommand
  BY <1>1, <1>8
<1>10. \A name \in {"start:prod", "start", "serve"} : ~ Serves(Script(app, name))
  BY <1>1, <1>8 DEF If, Serves
<1>11. \A i \in 1..n : EntryFiles[i] \notin Built(app, s.build)
  <2>1. ASSUME NEW i \in 1..n, EntryFiles[i] \in Built(app, s.build)  PROVE FALSE
    <3>1. 5 + i \in 1..(n + 5) /\ C[5 + i] = EntryFiles[i]
      BY <1>1, <2>1 DEF If
    <3>2. EntryFiles[i] # NoCommand
      BY <1>1, ImageAssumption
    <3>. QED BY <1>8, <3>1, <3>2
  <2>. QED BY <2>1
<1>. QED BY <1>1, <1>9, <1>10, <1>11 DEF OnlyDevStarts

\* What both the adapter and the Dockerfile take for a dev server is started only if the repository
\* has nothing else to start, for every repository and every list of names (docker-adapter.ts:604).
THEOREM NoDevServerStarts == SourceSpec => []NoDevServer
<1>1. SourceInv => NoDevServer
  <2>. SUFFICES ASSUME SourceInv, NEW d \in Sources, images[d] # NoImage,
                       images[d].settings.service = "web_service",
                       Content(TreeOf[images[d].commit], images[d].settings).entry \in DevCommands \cap DevScripts
                PROVE  OnlyDevStarts(TreeOf[images[d].commit][Content(TreeOf[images[d].commit], images[d].settings).dir],
                                     images[d].settings.build)
    BY DEF NoDevServer
  <2>. DEFINE s == images[d].settings
              tree == TreeOf[images[d].commit]
              dir == NodeRoot(tree, s.root)
  <2>1. Content(tree, s) # NoContent
    BY ImageAssumption DEF NoContent
  <2>2. dir # NoDir /\ Content(tree, s).dir = dir /\ Content(tree, s).entry = NodeEntry(tree[dir], s)
    BY <2>1 DEF Content
  <2>3. dir \in DOMAIN tree
    <3>. DEFINE packages == {p \in DOMAIN tree : HasFile(tree, p, "package.json")}
    <3>1. packages \subseteq DOMAIN tree
      OBVIOUS
    <3>2. s.root \in packages => dir = s.root
      BY DEF NodeRoot
    <3>3. s.root \notin packages /\ "." \in packages => dir = "."
      BY DEF NodeRoot
    <3>4. s.root \notin packages /\ "." \notin packages => dir \in {CHOOSE p \in packages : TRUE, NoDir}
      BY DEF NodeRoot
    <3>5. s.root \notin packages /\ "." \notin packages => packages # {}
      BY <2>2 DEF NodeRoot
    <3>. HIDE DEF packages, dir
    <3>. QED BY <2>2, <3>1, <3>2, <3>3, <3>4, <3>5
  <2>4. images[d].commit \in DOMAIN TreeOf
    <3>1. images[d].commit \in Commit /\ sourceRows[d].since \in Commit /\ images[d].commit > sourceRows[d].since
      BY DEF SourceInv, SourceTyped, LaterCommits, RowType, ImageType
    <3>. QED BY <3>1, CommitsAre, SourceAssumption, TreeAssumption
  <2>5. tree[dir].main \notin DevScripts
    BY <2>3, <2>4, TreeAssumption
  <2>. HIDE DEF s, tree, dir
  <2>. QED BY <2>2, <2>5, StartsNoDevServer DEF s, tree
<1>. QED BY <1>1, SourceStart, SourceStep, PTL DEF SourceSpec

=============================================================================
