---------------------------- MODULE Traffic_proofs ----------------------------
(***************************************************************************)
(* For any number of projects, domains, requests and workers: a TLS file    *)
(* never lacks its certificate, no domain is active unproven, and settled   *)
(* routes are current.  For any number of deployments, until two releases  *)
(* cross: the site is served, traffic follows the project's records, and no *)
(* canary is out of reach.                                                  *)
(***************************************************************************)
EXTENDS CanaryRelease, EdgeRoutes, TLAPS

-----------------------------------------------------------------------------
(* CustomDomains *)

Statuses == {"none", "pending", "active", "failed"}
DomainCall ==
    [op : {"idle", "lookup", "update", "companion", "find", "create", "adopt", "sync"},
     domain : Domains \cup {NoDomain}, project : Projects \cup {NoProject},
     held : Domains \cup {NoDomain}, was : Statuses, proof : BOOLEAN]

DomainsTyped ==
    /\ rows \in [Domains -> [project : Projects \cup {NoProject}, status : Statuses]]
    /\ calls \in [Handlers -> DomainCall]
    /\ queued \in [Projects -> Nat]
    /\ live \in SUBSET Projects /\ behind \in SUBSET Projects
    /\ proven \in [Domains -> SUBSET Projects]
    /\ \A d \in Domains : Exists(d) => rows[d].project \in Projects

\* Whom a request serves, and which names it looks up.
Serves(x) ==
    /\ x.op # "idle" => x.project \in Projects
    /\ x.op \in {"lookup", "update", "companion", "find", "create", "adopt"} => x.domain \in Domains
    /\ x.op \in {"find", "create", "adopt"} => WwwOf[x.domain] \in Domains

\* A row that a request holds is there, and still of the request's project.
Holds(x) ==
    x.held # NoDomain =>
        /\ Exists(x.held) /\ rows[x.held].project = x.project
        /\ x.op \in {"lookup", "update", "adopt"}
        /\ x.held = IF x.op = "adopt" THEN WwwOf[x.domain] ELSE x.domain

\* A proof that a request has found is kept until the request is done with the row.
Proves(x) ==
    /\ x.op = "update" /\ x.proof /\ x.held # NoDomain => x.project \in proven[x.domain]
    /\ x.op \in {"find", "create", "adopt"} => x.project \in proven[WwwOf[x.domain]]

DomainsInv ==
    /\ DomainsTyped
    /\ \A h \in Handlers : Serves(calls[h]) /\ Holds(calls[h]) /\ Proves(calls[h])
    /\ ActiveWasProven

\* What a step on the domains does to the deployments: where no change waits for one, the active
\* domains are what they were.
Applies ==
    /\ UNCHANGED live
    /\ \A p \in Projects : p \notin behind' /\ queued'[p] = 0 =>
          p \notin behind /\ queued[p] = 0 /\ ActiveDomains(p)' = ActiveDomains(p)

LEMMA IdleFacts ==
    /\ Idle \in DomainCall /\ Idle.op = "idle" /\ Idle.held = NoDomain
    /\ Absent \in [project : Projects \cup {NoProject}, status : Statuses] /\ Absent.status = "none"
BY DEF Idle, Absent, DomainCall, Statuses

LEMMA CallFacts ==
    ASSUME NEW op \in {"lookup", "companion", "sync"}, NEW d \in Domains \cup {NoDomain},
           NEW p \in Projects, NEW held \in Domains \cup {NoDomain}
    PROVE  LET x == Call(op, d, p, held) IN
           /\ x \in DomainCall /\ x.op = op /\ x.domain = d /\ x.project = p /\ x.held = held
BY DEF Call, Idle, DomainCall, Statuses

LEMMA DomainsInitInv == DomainsInit => DomainsInv
<1> SUFFICES ASSUME DomainsInit PROVE DomainsInv
  OBVIOUS
<1>1. DomainsTyped
  BY IdleFacts DEF DomainsInit, DomainsTyped, Exists
<1>2. \A h \in Handlers : Serves(calls[h]) /\ Holds(calls[h]) /\ Proves(calls[h])
  BY IdleFacts DEF DomainsInit, Serves, Holds, Proves
<1>3. ActiveWasProven
  BY IdleFacts DEF DomainsInit, ActiveWasProven
<1> QED BY <1>1, <1>2, <1>3 DEF DomainsInv

\* One request goes on; no row is removed, and none becomes active unproven.
LEMMA RequestGoes ==
    ASSUME DomainsInv, DomainsTyped', NEW h \in Handlers, NEW x \in DomainCall, calls' = [calls EXCEPT ![h] = x],
           \A d \in Domains : Exists(d) => rows'[d] # Absent /\ rows'[d].project = rows[d].project,
           \A d \in Domains : proven[d] \subseteq proven'[d],
           \A d \in Domains : rows'[d].status = "active" => rows'[d] = rows[d] \/ rows'[d].project \in proven'[d],
           Serves(x), Holds(x)', Proves(x)'
    PROVE  DomainsInv'
<1>1. calls \in [Handlers -> DomainCall] /\ calls'[h] = x /\ \A g \in Handlers : g # h => calls'[g] = calls[g]
  BY DEF DomainsInv, DomainsTyped
<1>2. Serves(x)'
  BY DEF Serves
<1>3. ASSUME NEW g \in Handlers, g # h PROVE (Serves(calls[g]) /\ Holds(calls[g]) /\ Proves(calls[g]))'
  <2>1. Serves(calls[g]) /\ Holds(calls[g]) /\ Proves(calls[g]) /\ calls[g] \in DomainCall /\ calls'[g] = calls[g]
    BY <1>1, <1>3 DEF DomainsInv
  <2>2. Serves(calls[g])'
    BY <2>1 DEF Serves
  <2>3. Holds(calls[g])'
    BY <2>1 DEF Holds, Exists, DomainCall
  <2>4. Proves(calls[g])'
    BY <2>1 DEF Proves, Serves
  <2> QED BY <2>2, <2>3, <2>4
<1>4. ActiveWasProven'
  BY DEF DomainsInv, ActiveWasProven
<1>5. \A g \in Handlers : (Serves(calls[g]) /\ Holds(calls[g]) /\ Proves(calls[g]))'
  BY <1>1, <1>2, <1>3
<1> QED BY <1>4, <1>5 DEF DomainsInv

LEMMA AddDomainInv ==
    ASSUME DomainsInv, NEW d \in Domains, NEW p \in Projects, AddDomain(d, p)
    PROVE  DomainsInv' /\ Applies
<1>1. /\ ~Exists(d) /\ rows' = [rows EXCEPT ![d] = Row(p, "pending")]
      /\ UNCHANGED <<calls, queued, live, behind, proven>> /\ DomainsTyped
  BY DEF AddDomain, DomainsInv
<1>2. /\ Row(p, "pending") \in [project : Projects \cup {NoProject}, status : Statuses]
      /\ Row(p, "pending").project = p /\ Row(p, "pending").status = "pending"
  BY DEF Row, Statuses
<1>3. rows'[d] = Row(p, "pending") /\ \A e \in Domains : e # d => rows'[e] = rows[e]
  BY <1>1 DEF DomainsTyped
<1>4. DomainsTyped'
  BY <1>1, <1>2, <1>3 DEF DomainsTyped, Exists
<1>5. \A h \in Handlers : (Serves(calls[h]) /\ Holds(calls[h]) /\ Proves(calls[h]))'
  <2> SUFFICES ASSUME NEW h \in Handlers PROVE (Serves(calls[h]) /\ Holds(calls[h]) /\ Proves(calls[h]))'
    OBVIOUS
  <2>1. Serves(calls[h]) /\ Holds(calls[h]) /\ Proves(calls[h]) /\ calls[h] \in DomainCall
    BY <1>1 DEF DomainsInv, DomainsTyped
  <2>2. Holds(calls[h])'
    BY <1>1, <1>3, <2>1 DEF Holds, Exists, DomainCall
  <2> QED BY <1>1, <2>1, <2>2 DEF Serves, Proves
<1>6. ActiveWasProven'
  BY <1>1, <1>2, <1>3 DEF DomainsInv, ActiveWasProven
<1>7. \A q \in Projects : ActiveDomains(q)' = ActiveDomains(q)
  <2>1. \A q \in Projects : rows[d] # Row(q, "active") /\ rows'[d] # Row(q, "active")
    BY <1>1, <1>2, <1>3, DomainAssumption DEF Exists, Absent, Row
  <2> QED BY <1>3, <2>1 DEF ActiveDomains
<1> QED BY <1>1, <1>4, <1>5, <1>6, <1>7 DEF DomainsInv, Applies

LEMMA RemoveDomainInv ==
    ASSUME DomainsInv, NEW h \in Handlers, NEW d \in Domains, RemoveDomain(h, d)
    PROVE  DomainsInv' /\ Applies
<1> DEFINE x == Call("sync", NoDomain, rows[d].project, NoDomain)
           freed(g) == [calls[g] EXCEPT !.held = NoDomain]
<1>1. /\ DomainsTyped /\ calls[h].op = "idle" /\ Exists(d) /\ rows' = [rows EXCEPT ![d] = Absent]
      /\ calls' = [g \in Handlers |->
             IF g = h THEN x ELSE IF calls[g].held = d THEN freed(g) ELSE calls[g]]
      /\ behind' = behind \cup {rows[d].project}
      /\ proven' = [proven EXCEPT ![d] = {p \in @ : \E g \in Handlers : calls[g].project = p}]
      /\ UNCHANGED <<queued, live>>
  BY DEF RemoveDomain, DomainsInv, At
<1>2. rows[d].project \in Projects /\ \A g \in Handlers : calls[g] \in DomainCall
  BY <1>1 DEF DomainsTyped
<1>3. x \in DomainCall /\ x.op = "sync" /\ x.project = rows[d].project /\ x.held = NoDomain
  BY <1>2, CallFacts
<1> HIDE DEF x
<1>4. ASSUME NEW g \in Handlers, calls[g].held = d, g # h
      PROVE  /\ calls'[g] \in DomainCall /\ calls'[g].held = NoDomain
             /\ calls'[g].op = calls[g].op /\ calls'[g].domain = calls[g].domain
             /\ calls'[g].project = calls[g].project /\ calls'[g].proof = calls[g].proof
  <2>1. calls'[g] = freed(g)
    BY <1>1, <1>4
  <2> QED BY <1>2, <2>1 DEF DomainCall
<1>5. \A g \in Handlers : g # h /\ calls[g].held # d => calls'[g] = calls[g]
  BY <1>1
<1>6. calls'[h] = x
  BY <1>1
<1>7. rows'[d] = Absent /\ \A e \in Domains : e # d => rows'[e] = rows[e]
  BY <1>1 DEF DomainsTyped
<1>8. /\ proven' \in [Domains -> SUBSET Projects] /\ \A e \in Domains : e # d => proven'[e] = proven[e]
      /\ \A g \in Handlers : calls[g].project \in proven[d] => calls[g].project \in proven'[d]
  BY <1>1 DEF DomainsTyped
<1>9. calls' \in [Handlers -> DomainCall]
  BY <1>1, <1>2, <1>3, <1>4, <1>5
<1>10. DomainsTyped'
  BY <1>1, <1>2, <1>7, <1>8, <1>9, IdleFacts DEF DomainsTyped, Exists
<1>11. ASSUME NEW g \in Handlers PROVE (Serves(calls[g]) /\ Holds(calls[g]) /\ Proves(calls[g]))'
  <2>1. Serves(calls[g]) /\ Holds(calls[g]) /\ Proves(calls[g]) /\ calls[g] \in DomainCall
    BY <1>2 DEF DomainsInv
  <2>2. CASE g = h
    BY <1>2, <1>3, <1>6, <2>2 DEF Serves, Holds, Proves
  <2>3. CASE g # h
    <3>1. \A e \in Domains : calls[g].project \in proven[e] => calls[g].project \in proven'[e]
      BY <1>8
    <3>2. Serves(calls[g])'
      BY <1>4, <1>5, <2>1, <2>3 DEF Serves
    <3>3. Holds(calls[g])'
      BY <1>4, <1>5, <1>7, <2>1, <2>3 DEF Holds, Exists, DomainCall
    <3>4. Proves(calls[g])'
      BY <1>4, <1>5, <2>1, <2>3, <3>1 DEF Proves, Serves
    <3> QED BY <3>2, <3>3, <3>4
  <2> QED BY <2>2, <2>3
<1>12. ActiveWasProven'
  BY <1>7, <1>8, IdleFacts DEF DomainsInv, ActiveWasProven
<1>13. Applies
  <2>1. \A q \in Projects : rows'[d] # Row(q, "active")
    BY <1>7, DomainAssumption DEF Absent, Row
  <2>2. \A q \in Projects : q # rows[d].project => rows[d] # Row(q, "active")
    BY DEF Row
  <2>3. \A q \in Projects : q # rows[d].project => ActiveDomains(q)' = ActiveDomains(q)
    BY <1>7, <2>1, <2>2 DEF ActiveDomains
  <2> QED BY <1>1, <1>2, <2>3 DEF Applies
<1> QED BY <1>10, <1>11, <1>12, <1>13 DEF DomainsInv

\* A request goes on, and no row changes.
LEMMA RowsStay ==
    ASSUME DomainsInv, NEW h \in Handlers, NEW x \in DomainCall, calls' = [calls EXCEPT ![h] = x],
           UNCHANGED <<rows, live>>, proven' \in [Domains -> SUBSET Projects],
           queued' \in [Projects -> Nat], behind' \in SUBSET Projects,
           \A p \in Projects : p \notin behind' /\ queued'[p] = 0 => p \notin behind /\ queued[p] = 0,
           \A d \in Domains : proven[d] \subseteq proven'[d],
           Serves(x), Holds(x), Proves(x)'
    PROVE  DomainsInv' /\ Applies
<1>1. calls' \in [Handlers -> DomainCall]
  BY DEF DomainsInv, DomainsTyped
<1>2. DomainsTyped'
  BY <1>1 DEF DomainsInv, DomainsTyped, Exists
<1>3. Holds(x)'
  BY DEF Holds, Exists
<1>4. DomainsInv'
  BY <1>2, <1>3, RequestGoes DEF DomainsInv, DomainsTyped, Exists
<1>5. Applies
  BY DEF Applies, ActiveDomains
<1> QED BY <1>4, <1>5

LEMMA StartVerifyInv ==
    ASSUME DomainsInv, NEW h \in Handlers, NEW d \in Domains, StartVerify(h, d)
    PROVE  DomainsInv' /\ Applies
<1>1. Exists(d) /\ UNCHANGED <<rows, queued, live, behind, proven>> /\ DomainsTyped
  BY DEF StartVerify, DomainsInv
<1>2. rows[d].project \in Projects
  BY <1>1 DEF DomainsTyped
<1>3. CASE rows[d].status = "active"
  <2>1. PICK x \in DomainCall : /\ x.op = "sync" /\ x.project = rows[d].project /\ x.held = NoDomain
                               /\ calls' = [calls EXCEPT ![h] = x]
    <3> DEFINE y == Call("sync", NoDomain, rows[d].project, NoDomain)
    <3>1. y \in DomainCall /\ y.op = "sync" /\ y.project = rows[d].project /\ y.held = NoDomain /\ y.domain = NoDomain
      BY <1>2, CallFacts
    <3>2. calls' = [calls EXCEPT ![h] = y]
      BY <1>3 DEF StartVerify
    <3> HIDE DEF y
    <3> QED BY <3>1, <3>2
  <2>2. Serves(x) /\ Holds(x) /\ Proves(x)'
    BY <1>2, <2>1 DEF Serves, Holds, Proves
  <2> QED BY <1>1, <2>1, <2>2, RowsStay DEF DomainsTyped
<1>4. CASE rows[d].status # "active"
  <2>1. PICK x \in DomainCall : /\ x.op = "lookup" /\ x.project = rows[d].project /\ x.held = d /\ x.domain = d
                               /\ calls' = [calls EXCEPT ![h] = x]
    <3> DEFINE y == Call("lookup", d, rows[d].project, d)
    <3>1. y \in DomainCall /\ y.op = "lookup" /\ y.project = rows[d].project /\ y.held = d /\ y.domain = d
      BY <1>2, CallFacts
    <3>2. calls' = [calls EXCEPT ![h] = y]
      BY <1>4 DEF StartVerify
    <3> HIDE DEF y
    <3> QED BY <3>1, <3>2
  <2>2. Serves(x) /\ Holds(x) /\ Proves(x)'
    BY <1>1, <1>2, <2>1 DEF Serves, Holds, Proves
  <2> QED BY <1>1, <2>1, <2>2, RowsStay DEF DomainsTyped
<1> QED BY <1>3, <1>4

\* What a request has read of the row, and whether DNS has shown the proof.
Told(x, was, proof) == [x EXCEPT !.op = "update", !.was = was, !.proof = proof]

LEMMA ToldFacts ==
    ASSUME NEW x \in DomainCall, NEW was \in Statuses, NEW proof \in BOOLEAN
    PROVE  LET y == Told(x, was, proof) IN
           /\ y \in DomainCall /\ y.op = "update" /\ y.domain = x.domain /\ y.project = x.project
           /\ y.held = x.held /\ y.proof = proof
BY DEF Told, DomainCall

LEMMA LookupInv ==
    ASSUME DomainsInv, NEW h \in Handlers, NEW proof \in BOOLEAN, Lookup(h, proof)
    PROVE  DomainsInv' /\ Applies
<1> DEFINE d == calls[h].domain
           p == calls[h].project
<1>1. /\ DomainsTyped /\ calls[h].op = "lookup" /\ calls[h].held = d /\ calls[h] \in DomainCall
      /\ UNCHANGED <<rows, queued, live, behind>>
      /\ proven' = [proven EXCEPT ![d] = IF proof THEN @ \cup {p} ELSE @]
  BY DEF Lookup, At, DomainsInv, DomainsTyped
<1>2. Serves(calls[h]) /\ Holds(calls[h]) /\ d \in Domains /\ p \in Projects
  BY <1>1 DEF DomainsInv, Serves
<1>3. rows[d].status \in Statuses
  BY <1>1, <1>2 DEF DomainsTyped
<1>4. calls' = [calls EXCEPT ![h] = Told(calls[h], rows[d].status, proof)]
  BY <1>1 DEF Lookup, Told, DomainsTyped
<1>5. PICK x \in DomainCall : /\ x.op = "update" /\ x.domain = d /\ x.project = p /\ x.held = d /\ x.proof = proof
                             /\ calls' = [calls EXCEPT ![h] = x]
  BY <1>1, <1>3, <1>4, ToldFacts
<1>6. /\ proven' \in [Domains -> SUBSET Projects] /\ \A e \in Domains : proven[e] \subseteq proven'[e]
      /\ proof => p \in proven'[d]
  BY <1>1, <1>2 DEF DomainsTyped
<1>7. Serves(x) /\ Proves(x)'
  BY <1>2, <1>5, <1>6 DEF Serves, Proves
<1>8. Holds(x)
  BY <1>1, <1>2, <1>5 DEF Holds
<1> QED BY <1>1, <1>5, <1>6, <1>7, <1>8, RowsStay DEF DomainsTyped

\* A request ends, or goes on to the companion or to the deployment.
LEMMA RequestLeaves ==
    ASSUME DomainsInv, NEW h \in Handlers, calls[h].op # "idle",
           Done(h) \/ ToSync(h) \/ (ToCompanion(h) /\ calls[h].domain \in Domains)
    PROVE  \E x \in DomainCall :
               /\ calls' = [calls EXCEPT ![h] = x] /\ x.held = NoDomain /\ Serves(x)
               /\ x.op \in {"idle", "sync", "companion"}
<1>1. calls[h].project \in Projects /\ calls \in [Handlers -> DomainCall]
  BY DEF DomainsInv, DomainsTyped, Serves
<1>2. CASE Done(h)
  BY <1>2, IdleFacts DEF Done, Serves
<1>3. CASE ToSync(h)
  <2> DEFINE x == Call("sync", NoDomain, calls[h].project, NoDomain)
  <2>1. x \in DomainCall /\ x.op = "sync" /\ x.project = calls[h].project /\ x.held = NoDomain
    BY <1>1, CallFacts
  <2>2. calls' = [calls EXCEPT ![h] = x]
    BY <1>1, <1>3 DEF ToSync
  <2> HIDE DEF x
  <2> QED BY <1>1, <2>1, <2>2 DEF Serves
<1>4. CASE ToCompanion(h) /\ calls[h].domain \in Domains
  <2> DEFINE x == Call("companion", calls[h].domain, calls[h].project, NoDomain)
  <2>1. /\ x \in DomainCall /\ x.op = "companion" /\ x.project = calls[h].project /\ x.held = NoDomain
        /\ x.domain = calls[h].domain
    BY <1>1, <1>4, CallFacts
  <2>2. calls' = [calls EXCEPT ![h] = x]
    BY <1>1, <1>4 DEF ToCompanion
  <2> HIDE DEF x
  <2> QED BY <1>1, <1>4, <2>1, <2>2 DEF Serves
<1> QED BY <1>2, <1>3, <1>4

LEMMA UpdateInv == ASSUME DomainsInv, NEW h \in Handlers, Update(h) PROVE DomainsInv' /\ Applies
<1> DEFINE d == calls[h].domain
           p == calls[h].project
<1>1. /\ DomainsTyped /\ calls[h].op = "update" /\ calls[h].held = d /\ calls[h].proof
      /\ rows' = [rows EXCEPT ![d].status = "active"] /\ behind' = behind \cup {p}
      /\ ToCompanion(h) /\ UNCHANGED <<queued, live, proven>>
  BY DEF Update, At, DomainsInv
<1>2. /\ d \in Domains /\ p \in Projects /\ Exists(d) /\ rows[d].project = p /\ p \in proven[d]
  BY <1>1, DomainAssumption DEF DomainsInv, Serves, Holds, Proves
<1>3. PICK x \in DomainCall : calls' = [calls EXCEPT ![h] = x] /\ x.held = NoDomain /\ Serves(x)
                              /\ x.op \in {"idle", "sync", "companion"}
  BY <1>1, <1>2, RequestLeaves
<1>4. /\ rows'[d].project = p /\ rows'[d].status = "active"
      /\ rows'[d] \in [project : Projects \cup {NoProject}, status : Statuses]
      /\ \A e \in Domains : e # d => rows'[e] = rows[e]
  BY <1>1, <1>2 DEF DomainsTyped, Statuses
<1>5. rows'[d] # Absent
  BY <1>4, IdleFacts
<1>6. DomainsTyped'
  <2>1. rows' \in [Domains -> [project : Projects \cup {NoProject}, status : Statuses]]
    BY <1>1, <1>2, <1>4 DEF DomainsTyped
  <2>2. calls' \in [Handlers -> DomainCall]
    BY <1>1, <1>3 DEF DomainsTyped
  <2> QED BY <1>1, <1>2, <1>4, <2>1, <2>2 DEF DomainsTyped, Exists
<1>7. Holds(x)' /\ Proves(x)'
  BY <1>3 DEF Holds, Proves
<1>8. \A e \in Domains : Exists(e) => rows'[e] # Absent /\ rows'[e].project = rows[e].project
  BY <1>2, <1>4, <1>5 DEF Exists
<1>9. \A e \in Domains : proven[e] \subseteq proven'[e]
  BY <1>1
<1>10. \A e \in Domains : rows'[e].status = "active" => rows'[e] = rows[e] \/ rows'[e].project \in proven'[e]
  BY <1>1, <1>2, <1>4
<1>11. DomainsInv'
  BY <1>3, <1>6, <1>7, <1>8, <1>9, <1>10, RequestGoes
<1>12. Applies
  <2>1. \A q \in Projects : q # p => rows[d] # Row(q, "active") /\ rows'[d] # Row(q, "active")
    BY <1>2, <1>4 DEF Row
  <2>2. \A q \in Projects : q # p => ActiveDomains(q)' = ActiveDomains(q)
    BY <1>4, <2>1 DEF ActiveDomains
  <2> QED BY <1>1, <1>2, <2>2 DEF Applies
<1> QED BY <1>11, <1>12

LEMMA MarkUnprovenInv == ASSUME DomainsInv, NEW h \in Handlers, MarkUnproven(h) PROVE DomainsInv' /\ Applies
<1> DEFINE d == calls[h].domain
           p == calls[h].project
<1>1. /\ DomainsTyped /\ calls[h].op = "update" /\ calls[h].held = d /\ Done(h)
      /\ UNCHANGED <<queued, live, proven>>
  BY DEF MarkUnproven, At, DomainsInv
<1>2. /\ d \in Domains /\ p \in Projects /\ Exists(d) /\ rows[d].project = p
  BY <1>1, DomainAssumption DEF DomainsInv, Serves, Holds
<1>3. PICK x \in DomainCall : calls' = [calls EXCEPT ![h] = x] /\ x.held = NoDomain /\ Serves(x)
                              /\ x.op \in {"idle", "sync", "companion"}
  BY <1>1, RequestLeaves
<1>4. Holds(x) /\ Holds(x)' /\ Proves(x)'
  BY <1>3 DEF Holds, Proves
<1>5. CASE UNCHANGED <<rows, behind>>
  BY <1>1, <1>3, <1>4, <1>5, RowsStay DEF DomainsTyped
<1>6. CASE rows' = [rows EXCEPT ![d].status = "failed"] /\ behind' = behind \cup {p}
  <2>1. /\ rows'[d].project = p /\ rows'[d].status = "failed"
        /\ rows'[d] \in [project : Projects \cup {NoProject}, status : Statuses]
        /\ \A e \in Domains : e # d => rows'[e] = rows[e]
    BY <1>1, <1>2, <1>6 DEF DomainsTyped, Statuses
  <2>2. rows'[d] # Absent
    BY <2>1 DEF Absent
  <2>3. DomainsTyped'
    <3>1. rows' \in [Domains -> [project : Projects \cup {NoProject}, status : Statuses]]
      BY <1>1, <1>2, <1>6, <2>1 DEF DomainsTyped
    <3>2. calls' \in [Handlers -> DomainCall]
      BY <1>1, <1>3 DEF DomainsTyped
    <3> QED BY <1>1, <1>2, <1>6, <2>1, <3>1, <3>2 DEF DomainsTyped, Exists
  <2>4. \A e \in Domains : Exists(e) => rows'[e] # Absent /\ rows'[e].project = rows[e].project
    BY <1>2, <2>1, <2>2 DEF Exists
  <2>5. \A e \in Domains : proven[e] \subseteq proven'[e]
    BY <1>1
  <2>6. \A e \in Domains : rows'[e].status = "active" => rows'[e] = rows[e] \/ rows'[e].project \in proven'[e]
    BY <1>1, <1>2, <2>1
  <2>7. DomainsInv'
    BY <1>3, <1>4, <2>3, <2>4, <2>5, <2>6, RequestGoes
  <2>8. Applies
    <3>1. \A q \in Projects : q # p => rows[d] # Row(q, "active") /\ rows'[d] # Row(q, "active")
      BY <1>2, <2>1 DEF Row
    <3>2. \A q \in Projects : q # p => ActiveDomains(q)' = ActiveDomains(q)
      BY <2>1, <3>1 DEF ActiveDomains
    <3> QED BY <1>1, <1>2, <1>6, <3>2 DEF Applies
  <2> QED BY <2>7, <2>8
<1> QED BY <1>5, <1>6 DEF MarkUnproven

LEMMA LeavesInv ==
    ASSUME DomainsInv, NEW h \in Handlers, RowGone(h) \/ Sync(h) \/ SyncNotQueued(h)
    PROVE  DomainsInv' /\ Applies
<1>1. calls[h].op # "idle" /\ Done(h) /\ UNCHANGED <<rows, live, proven>> /\ DomainsTyped
  BY DEF RowGone, Sync, SyncNotQueued, At, DomainsInv
<1>2. PICK x \in DomainCall : calls' = [calls EXCEPT ![h] = x] /\ x.held = NoDomain /\ Serves(x)
                              /\ x.op \in {"idle", "sync", "companion"}
  BY <1>1, RequestLeaves
<1>3. Holds(x) /\ Proves(x)'
  BY <1>2 DEF Holds, Proves
<1>4. /\ queued' \in [Projects -> Nat] /\ behind' \in SUBSET Projects
      /\ \A p \in Projects : p \notin behind' /\ queued'[p] = 0 => p \notin behind /\ queued[p] = 0
  <2>1. CASE RowGone(h) \/ SyncNotQueued(h)
    BY <1>1, <2>1 DEF RowGone, SyncNotQueued, DomainsTyped
  <2>2. CASE Sync(h)
    <3>1. calls[h].project \in Projects
      BY <1>1 DEF DomainsInv, Serves
    <3>2. QueueChange(calls[h].project)
      BY <2>2 DEF Sync
    <3> QED BY <1>1, <3>1, <3>2 DEF QueueChange, DomainsTyped
  <2> QED BY <2>1, <2>2
<1> QED BY <1>1, <1>2, <1>3, <1>4, RowsStay DEF DomainsTyped

LEMMA LookupCompanionInv ==
    ASSUME DomainsInv, NEW h \in Handlers, NEW proof \in BOOLEAN, LookupCompanion(h, proof)
    PROVE  DomainsInv' /\ Applies
<1> DEFINE c == WwwOf[calls[h].domain]
           p == calls[h].project
<1>1. DomainsTyped /\ calls[h].op = "companion" /\ UNCHANGED <<rows, queued, live, behind>> /\ calls[h] \in DomainCall
  BY DEF LookupCompanion, At, DomainsInv, DomainsTyped
<1>2. Serves(calls[h]) /\ Holds(calls[h]) /\ calls[h].held = NoDomain /\ calls[h].domain \in Domains /\ p \in Projects
  BY <1>1 DEF DomainsInv, Serves, Holds
<1>3. CASE c # NoDomain /\ proof
  <2>1. Go(h, "find") /\ proven' = [proven EXCEPT ![c] = @ \cup {p}] /\ c \in Domains
    BY <1>2, <1>3, DomainAssumption DEF LookupCompanion
  <2>2. PICK x \in DomainCall : /\ calls' = [calls EXCEPT ![h] = x] /\ x.op = "find" /\ x.held = NoDomain
                                /\ x.domain = calls[h].domain /\ x.project = p
    <3>1. [calls[h] EXCEPT !.op = "find"] \in DomainCall
      BY <1>1 DEF DomainCall
    <3> QED BY <1>1, <1>2, <2>1, <3>1 DEF Go, DomainsTyped, DomainCall
  <2>3. proven' \in [Domains -> SUBSET Projects] /\ (\A e \in Domains : proven[e] \subseteq proven'[e]) /\ p \in proven'[c]
    BY <1>1, <1>2, <2>1 DEF DomainsTyped
  <2>4. Serves(x) /\ Holds(x) /\ Proves(x)'
    BY <1>2, <2>1, <2>2, <2>3 DEF Serves, Holds, Proves
  <2> QED BY <1>1, <2>2, <2>3, <2>4, RowsStay DEF DomainsTyped
<1>4. CASE ~(c # NoDomain /\ proof)
  <2>1. ToSync(h) /\ UNCHANGED proven
    BY <1>4 DEF LookupCompanion
  <2>2. PICK x \in DomainCall : calls' = [calls EXCEPT ![h] = x] /\ x.held = NoDomain /\ Serves(x)
                                /\ x.op \in {"idle", "sync", "companion"}
    BY <1>1, <1>2, <2>1, RequestLeaves
  <2>3. Holds(x) /\ Proves(x)'
    BY <2>2 DEF Holds, Proves
  <2> QED BY <1>1, <2>1, <2>2, <2>3, RowsStay DEF DomainsTyped
<1> QED BY <1>3, <1>4

LEMMA FindCompanionInv == ASSUME DomainsInv, NEW h \in Handlers, FindCompanion(h) PROVE DomainsInv' /\ Applies
<1> DEFINE c == WwwOf[calls[h].domain]
           p == calls[h].project
<1>1. /\ DomainsTyped /\ calls[h].op = "find" /\ UNCHANGED <<rows, queued, live, behind, proven>>
      /\ calls[h] \in DomainCall
  BY DEF FindCompanion, At, DomainsInv, DomainsTyped
<1>2. /\ Serves(calls[h]) /\ calls[h].held = NoDomain /\ calls[h].domain \in Domains /\ p \in Projects
      /\ c \in Domains /\ p \in proven[c]
  BY <1>1 DEF DomainsInv, Serves, Holds, Proves
<1>3. CASE ~Exists(c)
  <2>1. Go(h, "create")
    BY <1>3 DEF FindCompanion
  <2>2. PICK x \in DomainCall : /\ calls' = [calls EXCEPT ![h] = x] /\ x.op = "create" /\ x.held = NoDomain
                                /\ x.domain = calls[h].domain /\ x.project = p
    <3>1. [calls[h] EXCEPT !.op = "create"] \in DomainCall
      BY <1>1 DEF DomainCall
    <3> QED BY <1>1, <1>2, <2>1, <3>1 DEF Go, DomainsTyped, DomainCall
  <2>3. Serves(x) /\ Holds(x) /\ Proves(x)'
    BY <1>1, <1>2, <2>2 DEF Serves, Holds, Proves
  <2> QED BY <1>1, <2>2, <2>3, RowsStay DEF DomainsTyped
<1>4. CASE Exists(c) /\ rows[c].project = p
  <2>1. calls' = [calls EXCEPT ![h] = [[calls[h] EXCEPT !.op = "adopt"] EXCEPT !.held = c]]
    BY <1>1, <1>4 DEF FindCompanion, DomainsTyped
  <2>2. PICK x \in DomainCall : /\ calls' = [calls EXCEPT ![h] = x] /\ x.op = "adopt" /\ x.held = c
                                /\ x.domain = calls[h].domain /\ x.project = p
    <3>1. [calls[h] EXCEPT !.op = "adopt"] \in DomainCall
      BY <1>1 DEF DomainCall
    <3>2. [[calls[h] EXCEPT !.op = "adopt"] EXCEPT !.held = c] \in DomainCall
      BY <1>2, <3>1 DEF DomainCall
    <3> QED BY <1>1, <1>2, <2>1, <3>2 DEF DomainCall
  <2>3. Serves(x) /\ Holds(x) /\ Proves(x)'
    BY <1>1, <1>2, <1>4, <2>2 DEF Serves, Holds, Proves
  <2> QED BY <1>1, <2>2, <2>3, RowsStay DEF DomainsTyped
<1>5. CASE Exists(c) /\ rows[c].project # p
  <2>1. ToSync(h)
    BY <1>5 DEF FindCompanion
  <2>2. PICK x \in DomainCall : calls' = [calls EXCEPT ![h] = x] /\ x.held = NoDomain /\ Serves(x)
                                /\ x.op \in {"idle", "sync", "companion"}
    BY <1>1, <1>2, <2>1, RequestLeaves
  <2>3. Holds(x) /\ Proves(x)'
    BY <2>2 DEF Holds, Proves
  <2> QED BY <1>1, <2>2, <2>3, RowsStay DEF DomainsTyped
<1> QED BY <1>3, <1>4, <1>5

LEMMA ActivateCompanionInv ==
    ASSUME DomainsInv, NEW h \in Handlers, ActivateCompanion(h) PROVE DomainsInv' /\ Applies
<1> DEFINE d == WwwOf[calls[h].domain]
           p == calls[h].project
<1>1. /\ DomainsTyped /\ calls[h].op \in {"adopt", "create"} /\ UNCHANGED <<queued, live, proven>>
      /\ calls[h].op = "adopt" => calls[h].held = d
  BY DEF ActivateCompanion, At, DomainsInv
<1>2. /\ calls[h].domain \in Domains /\ d \in Domains /\ p \in Projects /\ p \in proven[d]
      /\ calls[h].op = "adopt" => Exists(d) /\ rows[d].project = p
  BY <1>1, DomainAssumption DEF DomainsInv, Serves, Holds, Proves
<1>3. Done(h) \/ ToSync(h)
  BY DEF ActivateCompanion
<1>4. PICK x \in DomainCall : calls' = [calls EXCEPT ![h] = x] /\ x.held = NoDomain /\ Serves(x)
                              /\ x.op \in {"idle", "sync", "companion"}
  BY <1>1, <1>2, <1>3, RequestLeaves
<1>5. Holds(x) /\ Holds(x)' /\ Proves(x)'
  BY <1>4 DEF Holds, Proves
<1>6. CASE UNCHANGED <<rows, behind>>
  BY <1>1, <1>4, <1>5, <1>6, RowsStay DEF DomainsTyped
<1>7. CASE /\ rows' = [rows EXCEPT ![d] = Row(p, "active")] /\ behind' = behind \cup {p}
           /\ Exists(d) => rows[d].project = p
  <2>1. /\ rows'[d].project = p /\ rows'[d].status = "active"
        /\ rows'[d] \in [project : Projects \cup {NoProject}, status : Statuses]
        /\ \A e \in Domains : e # d => rows'[e] = rows[e]
    BY <1>1, <1>2, <1>7 DEF DomainsTyped, Statuses, Row
  <2>2. rows'[d] # Absent
    BY <2>1, IdleFacts
  <2>3. DomainsTyped'
    <3>1. rows' \in [Domains -> [project : Projects \cup {NoProject}, status : Statuses]]
      BY <1>1, <1>2, <1>7, <2>1 DEF DomainsTyped
    <3>2. calls' \in [Handlers -> DomainCall]
      BY <1>1, <1>4 DEF DomainsTyped
    <3> QED BY <1>1, <1>2, <1>7, <2>1, <3>1, <3>2 DEF DomainsTyped, Exists
  <2>4. \A e \in Domains : Exists(e) => rows'[e] # Absent /\ rows'[e].project = rows[e].project
    BY <1>2, <1>7, <2>1, <2>2 DEF Exists
  <2>5. \A e \in Domains : proven[e] \subseteq proven'[e]
    BY <1>1
  <2>6. \A e \in Domains : rows'[e].status = "active" => rows'[e] = rows[e] \/ rows'[e].project \in proven'[e]
    BY <1>1, <1>2, <2>1
  <2>7. DomainsInv'
    BY <1>4, <1>5, <2>3, <2>4, <2>5, <2>6, RequestGoes
  <2>8. Applies
    <3>1. \A q \in Projects : q # p => rows[d] # Row(q, "active") /\ rows'[d] # Row(q, "active")
      BY <1>7, <2>1, DomainAssumption DEF Row, Exists, Absent
    <3>2. \A q \in Projects : q # p => ActiveDomains(q)' = ActiveDomains(q)
      BY <2>1, <3>1 DEF ActiveDomains
    <3> QED BY <1>1, <1>2, <1>7, <3>2 DEF Applies
  <2> QED BY <2>7, <2>8
<1>8. (At(h, "create") /\ Exists(d)) \/ (Exists(d) => rows[d].project = p)
  BY <1>1, <1>2 DEF At
<1> QED BY <1>6, <1>7, <1>8 DEF ActivateCompanion

\* What the requests and the lookups do.
LEMMA DomainStepsInv ==
    ASSUME DomainsInv, (\E d \in Domains : Domain(d)) \/ (\E h \in Handlers : DomainStep(h))
    PROVE  DomainsInv' /\ Applies
<1>1. ASSUME NEW d \in Domains, Domain(d) PROVE DomainsInv' /\ Applies
  BY <1>1, AddDomainInv, RemoveDomainInv, StartVerifyInv DEF Domain
<1>2. ASSUME NEW h \in Handlers, DomainStep(h) PROVE DomainsInv' /\ Applies
  BY <1>2, LookupInv, LookupCompanionInv, UpdateInv, MarkUnprovenInv, LeavesInv, FindCompanionInv, ActivateCompanionInv
     DEF DomainStep
<1> QED BY <1>1, <1>2

-----------------------------------------------------------------------------
(* EdgeRoutes *)

EdgeRoute(kinds, names) == [kind : kinds, aliases : SUBSET Domains, names : names]
Worker ==
    [at : {"rest", "http", "reloadHttp", "certify", "tls", "reloadTls", "probe"},
     project : Projects \cup {NoProject}, aliases : SUBSET Domains]

EdgeTyped ==
    /\ file \in [Projects -> EdgeRoute({"none", "http", "tls"}, {{}})]
    /\ loaded \in [Projects -> EdgeRoute({"none", "http", "tls"}, SUBSET Domains)]
    /\ cert \in [Projects -> (SUBSET Domains) \cup {NoCert}]
    /\ workers \in [Workers -> Worker]
    /\ raced \in SUBSET Projects
    /\ \A w \in Workers : workers[w].at # "rest" <=> Project(w) \in Projects

\* A certificate is there before anything that needs it.
CertifiedFirst ==
    /\ \A p \in Projects : file[p].kind = "tls" \/ loaded[p].kind = "tls" \/ p \in live => cert[p] # NoCert
    /\ \A w \in Workers : workers[w].at \in {"tls", "reloadTls", "probe"} => cert[Project(w)] # NoCert

Alone == \A v, w \in Workers : Project(v) = Project(w) /\ Project(v) \in Projects \ raced => v = w

\* File, certificate and served route of a project are those of its active domains.
TlsRoute(p) == file[p] = Route("tls", ActiveDomains(p)) /\ cert[p] = ActiveDomains(p)
Current(p) ==
    /\ TlsRoute(p)
    /\ loaded[p] = [kind |-> "tls", aliases |-> ActiveDomains(p), names |-> ActiveDomains(p)]

\* A worker carries the active domains, and has applied them as far as it is.
Brings(w, p) ==
    /\ workers[w].aliases = ActiveDomains(p)
    /\ workers[w].at \in {"tls", "reloadTls", "probe"} => cert[p] = ActiveDomains(p)
    /\ workers[w].at \in {"reloadTls", "probe"} => TlsRoute(p)
    /\ workers[w].at = "probe" => Current(p)

\* With no change waiting for a deployment, a project's only worker brings the active domains,
\* or its route is already the current one.
Applied(p) ==
    p \notin behind \cup raced /\ queued[p] = 0 =>
        /\ \A w \in Workers : Project(w) = p => Brings(w, p)
        /\ (\A w \in Workers : Project(w) # p) => Current(p)

EdgeInv == DomainsInv /\ EdgeTyped /\ CertifiedFirst /\ Alone /\ \A p \in Projects : Applied(p)

LEMMA RoutesApart ==
    /\ NoRoute \in EdgeRoute({"none", "http", "tls"}, {{}}) /\ NoRoute.kind = "none"
    /\ NoRoute \in EdgeRoute({"none", "http", "tls"}, SUBSET Domains)
    /\ Resting \in Worker /\ Resting.at = "rest" /\ Resting.project = NoProject /\ NoProject \notin Projects
BY DomainAssumption DEF NoRoute, EdgeRoute, Resting, Worker

LEMMA EdgeInitInv == EdgeInit => EdgeInv
<1> SUFFICES ASSUME EdgeInit PROVE EdgeInv
  OBVIOUS
<1>1. DomainsInv
  BY DomainsInitInv DEF EdgeInit
<1>2. EdgeTyped
  <2>1. /\ file = [p \in Projects |-> NoRoute] /\ loaded = [p \in Projects |-> NoRoute]
        /\ cert = [p \in Projects |-> NoCert] /\ workers = [w \in Workers |-> Resting] /\ raced = {}
    BY DEF EdgeInit
  <2>2. file \in [Projects -> EdgeRoute({"none", "http", "tls"}, {{}})]
    BY <2>1, RoutesApart
  <2>3. loaded \in [Projects -> EdgeRoute({"none", "http", "tls"}, SUBSET Domains)]
    BY <2>1, RoutesApart
  <2>4. workers \in [Workers -> Worker] /\ \A w \in Workers : workers[w].at # "rest" <=> Project(w) \in Projects
    BY <2>1, RoutesApart DEF Project
  <2>5. cert \in [Projects -> (SUBSET Domains) \cup {NoCert}] /\ raced \in SUBSET Projects
    BY <2>1
  <2> QED BY <2>2, <2>3, <2>4, <2>5 DEF EdgeTyped
<1>3. CertifiedFirst /\ Alone
  BY RoutesApart DEF EdgeInit, DomainsInit, CertifiedFirst, Alone, Project
<1>4. \A p \in Projects : Applied(p)
  BY DEF EdgeInit, DomainsInit, Applied
<1> QED BY <1>1, <1>2, <1>3, <1>4 DEF EdgeInv

\* The requests for domains and their lookups.
LEMMA EdgeDomainInv ==
    ASSUME EdgeInv, DomainsInv', Applies, UNCHANGED edgeVars
    PROVE  EdgeInv'
<1>1. UNCHANGED <<file, loaded, cert, workers, raced, live>>
  BY DEF edgeVars, Applies
<1>2. EdgeTyped' /\ CertifiedFirst' /\ Alone'
  BY <1>1 DEF EdgeInv, EdgeTyped, CertifiedFirst, Alone, Project
<1>3. ASSUME NEW p \in Projects, p \notin behind' \cup raced', queued'[p] = 0
      PROVE  /\ \A w \in Workers : Project(w)' = p => Brings(w, p)'
             /\ (\A w \in Workers : Project(w)' # p) => Current(p)'
  <2>1. p \notin behind \cup raced /\ queued[p] = 0 /\ ActiveDomains(p)' = ActiveDomains(p)
    BY <1>1, <1>3 DEF Applies
  <2>2. Applied(p) /\ \A w \in Workers : Project(w)' = Project(w)
    BY <1>1 DEF EdgeInv, Project
  <2>3. (Current(p) => Current(p)') /\ (TlsRoute(p) => TlsRoute(p)')
    BY <1>1, <2>1 DEF Current, TlsRoute, Route
  <2>4. \A w \in Workers : Brings(w, p) => Brings(w, p)'
    BY <1>1, <2>1, <2>3 DEF Brings
  <2> QED BY <2>1, <2>2, <2>3, <2>4 DEF Applied
<1> QED BY <1>2, <1>3 DEF EdgeInv, Applied

\* The workers leave the rows and the requests alone.
LEMMA RowsAreKept ==
    ASSUME DomainsInv, UNCHANGED <<rows, calls, proven>>,
           queued' \in [Projects -> Nat], live' \in SUBSET Projects, behind' \in SUBSET Projects
    PROVE  DomainsInv' /\ \A p \in Projects : ActiveDomains(p)' = ActiveDomains(p)
<1>1. DomainsTyped' /\ ActiveWasProven'
  BY DEF DomainsInv, DomainsTyped, ActiveWasProven, Exists
<1>2. \A h \in Handlers : (Serves(calls[h]) /\ Holds(calls[h]) /\ Proves(calls[h]))'
  BY DEF DomainsInv, Serves, Holds, Proves, Exists
<1> QED BY <1>1, <1>2 DEF DomainsInv, ActiveDomains

LEMMA RequestDeploymentInv == ASSUME EdgeInv, NEW p \in Projects, RequestDeployment(p) PROVE EdgeInv'
<1>1. /\ queued' = [queued EXCEPT ![p] = @ + 1] /\ behind' = behind \ {p}
      /\ UNCHANGED <<rows, calls, live, proven>>
      /\ UNCHANGED <<file, loaded, cert, workers, raced>>
  BY DEF RequestDeployment, QueueChange, edgeVars
<1>2. DomainsInv /\ DomainsTyped
  BY DEF EdgeInv, DomainsInv
<1>3. /\ queued' \in [Projects -> Nat] /\ queued'[p] # 0 /\ live' \in SUBSET Projects /\ behind' \in SUBSET Projects
      /\ \A q \in Projects : q # p => queued'[q] = queued[q]
  BY <1>1, <1>2 DEF DomainsTyped
<1>4. DomainsInv' /\ \A q \in Projects : ActiveDomains(q)' = ActiveDomains(q)
  BY <1>1, <1>2, <1>3, RowsAreKept
<1>5. EdgeTyped' /\ CertifiedFirst' /\ Alone'
  BY <1>1 DEF EdgeInv, EdgeTyped, CertifiedFirst, Alone, Project
<1>6. ASSUME NEW q \in Projects PROVE Applied(q)'
  <2>1. (Current(q) => Current(q)') /\ (TlsRoute(q) => TlsRoute(q)')
    BY <1>1, <1>4 DEF Current, TlsRoute, Route
  <2>2. \A w \in Workers : (Brings(w, q) => Brings(w, q)') /\ Project(w)' = Project(w)
    BY <1>1, <1>4, <2>1 DEF Brings, Project
  <2>3. Applied(q)
    BY DEF EdgeInv
  <2> QED BY <1>1, <1>3, <2>1, <2>2, <2>3 DEF Applied
<1> QED BY <1>4, <1>5, <1>6 DEF EdgeInv

-----------------------------------------------------------------------------
(* The workers *)

\* A worker takes a project on, with the domains that are active now.
LEMMA TakeOnInv ==
    ASSUME EdgeInv, NEW w \in Workers, NEW p \in Projects, NEW at \in {"http", "tls"}, TakeOn(w, p, at),
           queued' \in [Projects -> Nat], \A q \in Projects : q # p => queued'[q] = queued[q],
           at = "tls" => p \in live /\ queued' = queued
    PROVE  EdgeInv'
<1> DEFINE y == [at |-> at, project |-> p, aliases |-> ActiveDomains(p)]
<1>1. /\ workers[w].at = "rest" /\ workers' = [workers EXCEPT ![w] = y]
      /\ raced' = IF \E v \in Workers : Project(v) = p THEN raced \cup {p} ELSE raced
      /\ UNCHANGED <<rows, calls, live, behind, proven>>
      /\ UNCHANGED <<file, loaded, cert>>
      /\ DomainsInv /\ DomainsTyped /\ EdgeTyped
  BY DEF TakeOn, WorkerAt, EdgeInv, DomainsInv
<1>2. DomainsInv' /\ \A q \in Projects : ActiveDomains(q)' = ActiveDomains(q)
  <2>1. live' \in SUBSET Projects /\ behind' \in SUBSET Projects
    BY <1>1 DEF DomainsTyped
  <2> QED BY <1>1, <2>1, RowsAreKept
<1>3. y \in Worker /\ y.at = at /\ y.project = p /\ y.aliases = ActiveDomains(p)
  BY DEF Worker, ActiveDomains
<1> HIDE DEF y
<1>4. /\ workers'[w] = y /\ \A v \in Workers : v # w => workers'[v] = workers[v]
      /\ Project(w) \notin Projects
      /\ workers' \in [Workers -> Worker]
  BY <1>1, <1>3 DEF EdgeTyped
<1>5. EdgeTyped'
  <2>1. \A v \in Workers : (workers[v].at # "rest" <=> Project(v) \in Projects)'
    BY <1>1, <1>3, <1>4 DEF EdgeTyped, Project
  <2>2. raced' \in SUBSET Projects
    BY <1>1 DEF EdgeTyped
  <2> QED BY <1>1, <1>4, <2>1, <2>2 DEF EdgeTyped
<1>6. CertifiedFirst'
  BY <1>1, <1>3, <1>4 DEF EdgeInv, CertifiedFirst, Project
<1>7. Alone'
  <2> SUFFICES ASSUME NEW u \in Workers, NEW v \in Workers, Project(u)' = Project(v)',
                      Project(u)' \in Projects \ raced', u # v
               PROVE  FALSE
    BY DEF Alone
  <2>1. CASE u # w /\ v # w
    BY <1>1, <1>4, <2>1 DEF EdgeInv, Alone, Project
  <2>2. CASE u = w \/ v = w
    BY <1>1, <1>3, <1>4, <2>2 DEF Project
  <2> QED BY <2>1, <2>2
<1>8. ASSUME NEW q \in Projects PROVE Applied(q)'
  <2>1. (Current(q) => Current(q)') /\ (TlsRoute(q) => TlsRoute(q)') /\ Applied(q)
    BY <1>1, <1>2 DEF Current, TlsRoute, Route, EdgeInv
  <2>2. \A v \in Workers : v # w => (Brings(v, q) => Brings(v, q)') /\ Project(v)' = Project(v)
    BY <1>1, <1>2, <1>4, <2>1 DEF Brings, Project
  <2>3. Project(w)' = p
    BY <1>3, <1>4 DEF Project
  <2>4. CASE q # p
    BY <1>1, <1>4, <2>1, <2>2, <2>3, <2>4 DEF Applied
  <2>5. CASE q = p
    <3> SUFFICES ASSUME p \notin behind' \cup raced', queued'[p] = 0
                 PROVE  \A v \in Workers : Project(v)' = p => Brings(v, p)'
      BY <2>3, <2>5 DEF Applied
    <3>1. (\A v \in Workers : Project(v) # p) /\ p \notin raced
      BY <1>1
    <3>2. \A v \in Workers : Project(v)' = p => v = w
      BY <2>2, <3>1
    <3>3. at = "tls" => Current(p)
      BY <1>1, <2>1, <2>5, <3>1 DEF Applied
    <3>4. at = "tls" => cert'[p] = ActiveDomains(p)'
      BY <2>1, <2>5, <3>3 DEF Current, TlsRoute
    <3>5. workers'[w].aliases = ActiveDomains(p)' /\ workers'[w].at = at
      BY <1>2, <1>3, <1>4
    <3>6. Brings(w, p)'
      BY <3>4, <3>5 DEF Brings
    <3> QED BY <3>2, <3>6
  <2> QED BY <2>4, <2>5
<1> QED BY <1>2, <1>5, <1>6, <1>7, <1>8 DEF EdgeInv
LEMMA MoveFacts ==
    ASSUME EdgeTyped, NEW w \in Workers, workers[w].at # "rest",
           NEW at \in {"http", "reloadHttp", "certify", "tls", "reloadTls", "probe"}, Move(w, at)
    PROVE  /\ workers' \in [Workers -> Worker]
           /\ workers'[w].at = at /\ workers'[w].aliases = workers[w].aliases
           /\ \A v \in Workers : v # w => workers'[v] = workers[v]
           /\ \A v \in Workers : Project(v)' = Project(v)
           /\ \A v \in Workers : (workers[v].at # "rest" <=> Project(v) \in Projects)'
<1>1. workers' = [workers EXCEPT ![w] = [workers[w] EXCEPT !.at = at]] /\ workers[w] \in Worker
  BY DEF Move, EdgeTyped
<1>2. /\ [workers[w] EXCEPT !.at = at] \in Worker
      /\ [workers[w] EXCEPT !.at = at].at = at
      /\ [workers[w] EXCEPT !.at = at].aliases = workers[w].aliases
      /\ [workers[w] EXCEPT !.at = at].project = workers[w].project
  BY <1>1 DEF Worker
<1>3. workers' \in [Workers -> Worker] /\ workers'[w] = [workers[w] EXCEPT !.at = at]
      /\ \A v \in Workers : v # w => workers'[v] = workers[v]
  BY <1>1, <1>2 DEF EdgeTyped
<1>4. \A v \in Workers : Project(v)' = Project(v)
  BY <1>2, <1>3 DEF Project
<1> QED BY <1>2, <1>3, <1>4 DEF EdgeTyped

LEMMA LeaveFacts ==
    ASSUME EdgeTyped, NEW w \in Workers, Leave(w)
    PROVE  /\ workers' \in [Workers -> Worker]
           /\ workers'[w].at = "rest" /\ Project(w)' = NoProject
           /\ \A v \in Workers : v # w => workers'[v] = workers[v] /\ Project(v)' = Project(v)
           /\ \A v \in Workers : (workers[v].at # "rest" <=> Project(v) \in Projects)'
<1>1. workers' = [workers EXCEPT ![w] = Resting] /\ workers \in [Workers -> Worker]
  BY DEF Leave, EdgeTyped
<1>2. workers' \in [Workers -> Worker] /\ workers'[w] = Resting
      /\ \A v \in Workers : v # w => workers'[v] = workers[v]
  BY <1>1, RoutesApart
<1> QED BY <1>2, RoutesApart DEF EdgeTyped, Project

\* A worker's step on its project: the other projects' files, certificates and applied routes
\* stay, and its own is carried on, or applied when it leaves, if no other worker interferes.
LEMMA WorkerStep ==
    ASSUME EdgeInv, NEW w \in Workers, NEW p \in Projects, Project(w) = p,
           raced' = raced, queued' = queued, \A q \in Projects : q # p => (q \in behind' <=> q \in behind),
           behind \subseteq behind',
           \A q \in Projects : ActiveDomains(q)' = ActiveDomains(q),
           \A v \in Workers : v # w => workers'[v] = workers[v],
           \A q \in Projects : q # p => file'[q] = file[q] /\ cert'[q] = cert[q] /\ (Current(q) => Current(q)'),
           \/ Project(w)' = p /\ (Brings(w, p) => Brings(w, p)')
           \/ Project(w)' = NoProject /\ (p \in behind' \/ (Brings(w, p) => Current(p)'))
    PROVE  Alone' /\ \A q \in Projects : Applied(q)'
<1>1. \A v \in Workers : v # w => Project(v)' = Project(v)
  BY DEF Project
<1>2. Project(w)' \in Projects => Project(w)' = p
  BY RoutesApart
<1>3. Alone'
  <2> SUFFICES ASSUME NEW u \in Workers, NEW v \in Workers, Project(u)' = Project(v)',
                      Project(u)' \in Projects \ raced', u # v
               PROVE  FALSE
    BY DEF Alone
  <2>1. Project(u) = Project(u)' /\ Project(v) = Project(v)'
    BY <1>1, <1>2
  <2> QED BY <2>1 DEF EdgeInv, Alone
<1>4. ASSUME NEW q \in Projects, q # p PROVE Applied(q)'
  <2>1. Applied(q) /\ (TlsRoute(q) => TlsRoute(q)') /\ (Current(q) => Current(q)')
    BY <1>4 DEF EdgeInv, TlsRoute, Route
  <2>2. \A v \in Workers : v # w => (Brings(v, q) => Brings(v, q)')
    BY <1>4, <2>1 DEF Brings
  <2>3. Project(w) # q /\ Project(w)' # q
    BY <1>2, <1>4
  <2> QED BY <1>1, <1>4, <2>1, <2>2, <2>3 DEF Applied
<1>5. Applied(p)'
  <2> SUFFICES ASSUME p \notin behind' \cup raced', queued'[p] = 0
               PROVE  /\ \A v \in Workers : Project(v)' = p => Brings(v, p)'
                      /\ (\A v \in Workers : Project(v)' # p) => Current(p)'
    BY DEF Applied
  <2>1. Applied(p) /\ Brings(w, p)
    BY DEF EdgeInv, Applied
  <2>2. \A v \in Workers : v # w => Project(v)' # p
    BY <1>1 DEF EdgeInv, Alone
  <2>3. CASE Project(w)' = p
    BY <2>1, <2>2, <2>3, RoutesApart
  <2>4. CASE Project(w)' = NoProject
    BY <2>1, <2>2, <2>4, RoutesApart
  <2> QED BY <2>3, <2>4
<1> QED BY <1>3, <1>4, <1>5

\* Whose project a worker works on, and what the other variables keep.
LEMMA AtWork ==
    ASSUME EdgeInv, NEW w \in Workers, workers[w].at # "rest"
    PROVE  Project(w) \in Projects /\ DomainsInv /\ DomainsTyped /\ EdgeTyped /\ workers[w].aliases \in SUBSET Domains
BY DEF EdgeInv, EdgeTyped, DomainsInv, Worker

LEMMA RouteFacts ==
    ASSUME NEW kind \in {"http", "tls"}, NEW aliases \in SUBSET Domains
    PROVE  /\ Route(kind, aliases) \in EdgeRoute({"none", "http", "tls"}, {{}})
           /\ Route(kind, aliases).kind = kind
BY DEF Route, EdgeRoute

LEMMA WriteFileInv ==
    ASSUME EdgeInv, NEW w \in Workers, ConfigureProjectProxy(w) \/ ConfigureProjectProxyWithTls(w)
    PROVE  EdgeInv'
<1>1. PICK kind \in {"http", "tls"}, next \in {"reloadHttp", "reloadTls"} :
          WriteFile(w, kind, next) /\ (kind = "tls" <=> next = "reloadTls")
  BY DEF ConfigureProjectProxy, ConfigureProjectProxyWithTls
<1>2. PICK p \in Projects, written \in EdgeRoute({"none", "http", "tls"}, {{}}) :
          /\ Project(w) = p /\ written = Route(kind, workers[w].aliases) /\ written.kind = kind
          /\ file' = [file EXCEPT ![p] = written]
  BY <1>1, AtWork, RouteFacts DEF WriteFile, WorkerAt
<1>3. /\ workers[w].at = kind /\ UNCHANGED <<rows, calls, queued, live, behind, proven>>
      /\ UNCHANGED <<loaded, cert, raced>> /\ Move(w, next)
      /\ DomainsInv /\ DomainsTyped /\ EdgeTyped
  BY <1>1, AtWork DEF WriteFile, WorkerAt, domainVars
<1>4. /\ workers' \in [Workers -> Worker]
      /\ workers'[w].at = next /\ workers'[w].aliases = workers[w].aliases
      /\ \A v \in Workers : v # w => workers'[v] = workers[v]
      /\ \A v \in Workers : Project(v)' = Project(v)
      /\ \A v \in Workers : (workers[v].at # "rest" <=> Project(v) \in Projects)'
  BY <1>3, MoveFacts
<1>5. DomainsInv' /\ \A q \in Projects : ActiveDomains(q)' = ActiveDomains(q)
  BY <1>3, RowsAreKept DEF DomainsTyped
<1>6. file'[p] = written /\ \A q \in Projects : q # p => file'[q] = file[q]
  BY <1>2, <1>3 DEF EdgeTyped
<1>7. EdgeTyped'
  <2>1. file' \in [Projects -> EdgeRoute({"none", "http", "tls"}, {{}})]
    BY <1>2, <1>3 DEF EdgeTyped
  <2> QED BY <1>3, <1>4, <2>1 DEF EdgeTyped
<1>8. CertifiedFirst'
  <2>1. kind = "tls" => cert[p] # NoCert
    BY <1>2, <1>3 DEF EdgeInv, CertifiedFirst
  <2>2. \A q \in Projects : (file[q].kind = "tls" \/ loaded[q].kind = "tls" \/ q \in live => cert[q] # NoCert)'
    BY <1>2, <1>3, <1>6, <2>1 DEF EdgeInv, CertifiedFirst
  <2>3. \A v \in Workers : (workers[v].at \in {"tls", "reloadTls", "probe"} => cert[Project(v)] # NoCert)'
    BY <1>1, <1>2, <1>3, <1>4, <2>1 DEF EdgeInv, CertifiedFirst
  <2> QED BY <2>2, <2>3 DEF CertifiedFirst
<1>9. Brings(w, p) => Brings(w, p)'
  <2> SUFFICES ASSUME Brings(w, p) PROVE Brings(w, p)'
    OBVIOUS
  <2>1. workers'[w].aliases = ActiveDomains(p)'
    BY <1>4, <1>5 DEF Brings
  <2>2. CASE kind = "http"
    BY <1>1, <1>4, <2>1, <2>2 DEF Brings
  <2>3. CASE kind = "tls"
    <3>1. cert'[p] = ActiveDomains(p)'
      BY <1>3, <1>5, <2>3 DEF Brings
    <3>2. TlsRoute(p)'
      BY <1>2, <1>4, <1>6, <2>1, <2>3, <3>1 DEF TlsRoute, Route
    <3> QED BY <1>1, <1>4, <2>1, <2>3, <3>1, <3>2 DEF Brings
  <2> QED BY <2>2, <2>3
<1>10. \A q \in Projects : q # p => (Current(q) => Current(q)')
  BY <1>3, <1>5, <1>6 DEF Current, TlsRoute, Route
<1>11. Alone' /\ \A q \in Projects : Applied(q)'
  BY <1>2, <1>3, <1>4, <1>5, <1>6, <1>9, <1>10, WorkerStep
<1> QED BY <1>5, <1>7, <1>8, <1>11 DEF EdgeInv

LEMMA EnsureCertificateInv == ASSUME EdgeInv, NEW w \in Workers, EnsureCertificate(w) PROVE EdgeInv'
<1>1. PICK p \in Projects, names \in SUBSET Domains :
          Project(w) = p /\ names = workers[w].aliases /\ cert' = [cert EXCEPT ![p] = names]
  BY AtWork DEF EnsureCertificate, WorkerAt
<1>2. /\ workers[w].at = "certify" /\ UNCHANGED <<rows, calls, queued, live, behind, proven>>
      /\ UNCHANGED <<file, loaded, raced>> /\ Move(w, "tls")
      /\ DomainsInv /\ DomainsTyped /\ EdgeTyped
  BY AtWork DEF EnsureCertificate, WorkerAt, domainVars
<1>3. /\ workers' \in [Workers -> Worker]
      /\ workers'[w].at = "tls" /\ workers'[w].aliases = workers[w].aliases
      /\ \A v \in Workers : v # w => workers'[v] = workers[v]
      /\ \A v \in Workers : Project(v)' = Project(v)
      /\ \A v \in Workers : (workers[v].at # "rest" <=> Project(v) \in Projects)'
  BY <1>2, MoveFacts
<1>4. DomainsInv' /\ \A q \in Projects : ActiveDomains(q)' = ActiveDomains(q)
  BY <1>2, RowsAreKept DEF DomainsTyped
<1>5. cert'[p] = names /\ names # NoCert /\ \A q \in Projects : q # p => cert'[q] = cert[q]
  BY <1>1, <1>2, NoCertAssumption DEF EdgeTyped
<1>6. EdgeTyped'
  <2>1. cert' \in [Projects -> (SUBSET Domains) \cup {NoCert}]
    BY <1>1, <1>2 DEF EdgeTyped
  <2> QED BY <1>2, <1>3, <2>1 DEF EdgeTyped
<1>7. CertifiedFirst'
  <2>1. \A q \in Projects : (file[q].kind = "tls" \/ loaded[q].kind = "tls" \/ q \in live => cert[q] # NoCert)'
    BY <1>2, <1>5 DEF EdgeInv, CertifiedFirst
  <2>2. ASSUME NEW v \in Workers, workers'[v].at \in {"tls", "reloadTls", "probe"} PROVE cert'[Project(v)'] # NoCert
    <3>1. Project(v)' \in Projects /\ Project(v)' = Project(v)
      BY <1>3, <2>2
    <3>2. CASE Project(v) = p
      BY <1>5, <3>1, <3>2
    <3>3. CASE Project(v) # p
      <4>1. workers'[v] = workers[v]
        BY <1>1, <1>3, <3>3
      <4> QED BY <1>5, <2>2, <3>1, <3>3, <4>1 DEF EdgeInv, CertifiedFirst
    <3> QED BY <3>2, <3>3
  <2> QED BY <2>1, <2>2 DEF CertifiedFirst
<1>8. Brings(w, p) => Brings(w, p)'
  BY <1>1, <1>3, <1>4, <1>5 DEF Brings
<1>9. \A q \in Projects : q # p => (Current(q) => Current(q)')
  BY <1>2, <1>4, <1>5 DEF Current, TlsRoute, Route
<1>10. Alone' /\ \A q \in Projects : Applied(q)'
  BY <1>1, <1>2, <1>3, <1>4, <1>5, <1>8, <1>9, WorkerStep
<1> QED BY <1>4, <1>6, <1>7, <1>10 DEF EdgeInv

\* nginx -t has seen a certificate for each TLS file, and the reload serves what the files name.
LEMMA ReloadInv == ASSUME EdgeInv, NEW w \in Workers, Reload(w) PROVE EdgeInv'
<1> DEFINE next == IF WorkerAt(w, "reloadHttp") THEN "certify" ELSE "probe"
<1>1. /\ workers[w].at \in {"reloadHttp", "reloadTls"} /\ CertificatesExist
      /\ loaded' = [p \in Projects |->
            IF file[p].kind = "tls" THEN [file[p] EXCEPT !.names = cert[p]] ELSE file[p]]
      /\ UNCHANGED <<rows, calls, queued, live, behind, proven>> /\ Move(w, next)
      /\ UNCHANGED <<file, cert, raced>>
  BY DEF Reload, Valid, domainVars
<1>2. PICK p \in Projects : Project(w) = p
  BY <1>1, AtWork
<1>3. DomainsInv /\ DomainsTyped /\ EdgeTyped
  BY <1>1, AtWork
<1>4. /\ workers' \in [Workers -> Worker]
      /\ workers'[w].at = next /\ workers'[w].aliases = workers[w].aliases
      /\ \A v \in Workers : v # w => workers'[v] = workers[v]
      /\ \A v \in Workers : Project(v)' = Project(v)
      /\ \A v \in Workers : (workers[v].at # "rest" <=> Project(v) \in Projects)'
  BY <1>1, <1>3, MoveFacts
<1>5. DomainsInv' /\ \A q \in Projects : ActiveDomains(q)' = ActiveDomains(q)
  BY <1>1, <1>3, RowsAreKept DEF DomainsTyped
<1>6. ASSUME NEW q \in Projects
      PROVE  /\ loaded'[q] \in EdgeRoute({"none", "http", "tls"}, SUBSET Domains)
             /\ loaded'[q].kind = file[q].kind
             /\ file[q].kind = "tls" => cert[q] # NoCert
             /\ TlsRoute(q) => Current(q)'
  <2>1. file[q] \in EdgeRoute({"none", "http", "tls"}, {{}}) /\ cert[q] \in (SUBSET Domains) \cup {NoCert}
    BY <1>3 DEF EdgeTyped
  <2>2. file[q].kind = "tls" => cert[q] # NoCert
    BY <1>1 DEF CertificatesExist
  <2>3. CASE file[q].kind = "tls"
    <3>1. loaded'[q] = [file[q] EXCEPT !.names = cert[q]] /\ cert[q] \in SUBSET Domains
      BY <1>1, <2>1, <2>2, <2>3
    <3>2. loaded'[q] \in EdgeRoute({"none", "http", "tls"}, SUBSET Domains) /\ loaded'[q].kind = "tls"
      BY <2>1, <2>3, <3>1 DEF EdgeRoute
    <3>3. TlsRoute(q) => Current(q)'
      <4> SUFFICES ASSUME TlsRoute(q) PROVE Current(q)'
        OBVIOUS
      <4>1. TlsRoute(q)'
        BY <1>1, <1>5 DEF TlsRoute, Route
      <4>2. loaded'[q] = [kind |-> "tls", aliases |-> ActiveDomains(q), names |-> ActiveDomains(q)]
        BY <3>1 DEF TlsRoute, Route
      <4> QED BY <1>5, <4>1, <4>2 DEF Current
    <3> QED BY <2>2, <2>3, <3>2, <3>3
  <2>4. CASE file[q].kind # "tls"
    <3>1. loaded'[q] = file[q]
      BY <1>1, <2>4
    <3>2. loaded'[q] \in EdgeRoute({"none", "http", "tls"}, SUBSET Domains)
      BY <2>1, <3>1 DEF EdgeRoute
    <3>3. ~TlsRoute(q)
      BY <2>4 DEF TlsRoute, Route
    <3> QED BY <2>2, <3>1, <3>2, <3>3
  <2> QED BY <2>3, <2>4
<1>7. EdgeTyped'
  <2>1. loaded' \in [Projects -> EdgeRoute({"none", "http", "tls"}, SUBSET Domains)]
    BY <1>1, <1>6
  <2> QED BY <1>1, <1>3, <1>4, <2>1 DEF EdgeTyped
<1>8. CertifiedFirst'
  <2>1. \A q \in Projects : (file[q].kind = "tls" \/ loaded[q].kind = "tls" \/ q \in live => cert[q] # NoCert)'
    BY <1>1, <1>6 DEF EdgeInv, CertifiedFirst
  <2>2. workers'[w].at = "probe" => workers[w].at = "reloadTls"
    BY <1>1, <1>4 DEF WorkerAt
  <2>3. \A v \in Workers : (workers[v].at \in {"tls", "reloadTls", "probe"} => cert[Project(v)] # NoCert)'
    BY <1>1, <1>4, <2>2 DEF EdgeInv, CertifiedFirst
  <2> QED BY <2>1, <2>3 DEF CertifiedFirst
<1>9. \A q \in Projects : Current(q) => Current(q)'
  BY <1>6 DEF Current
<1>10. Brings(w, p) => Brings(w, p)'
  <2> SUFFICES ASSUME Brings(w, p) PROVE Brings(w, p)'
    OBVIOUS
  <2>1. workers'[w].aliases = ActiveDomains(p)'
    BY <1>4, <1>5 DEF Brings
  <2>2. CASE workers[w].at = "reloadHttp"
    BY <1>4, <2>1, <2>2 DEF Brings, WorkerAt
  <2>3. CASE workers[w].at = "reloadTls"
    <3>1. Current(p)' /\ TlsRoute(p)' /\ cert'[p] = ActiveDomains(p)'
      BY <1>6, <2>3 DEF Brings, Current, TlsRoute
    <3> QED BY <2>1, <3>1 DEF Brings
  <2> QED BY <1>1, <2>2, <2>3
<1>11. Alone' /\ \A q \in Projects : Applied(q)'
  BY <1>1, <1>2, <1>4, <1>5, <1>9, <1>10, WorkerStep
<1> QED BY <1>5, <1>7, <1>8, <1>11 DEF EdgeInv

LEMMA ReloadRefusedInv == ASSUME EdgeInv, NEW w \in Workers, ReloadRefused(w) PROVE EdgeInv'
<1> DEFINE next == IF WorkerAt(w, "reloadHttp") THEN "http" ELSE "tls"
<1>1. /\ workers[w].at \in {"reloadHttp", "reloadTls"}
      /\ UNCHANGED <<rows, calls, queued, live, behind, proven>> /\ Move(w, next)
      /\ UNCHANGED <<file, loaded, cert, raced>>
  BY DEF ReloadRefused, domainVars
<1>2. PICK p \in Projects : Project(w) = p
  BY <1>1, AtWork
<1>3. DomainsInv /\ DomainsTyped /\ EdgeTyped
  BY <1>1, AtWork
<1>4. /\ workers' \in [Workers -> Worker]
      /\ workers'[w].at = next /\ workers'[w].aliases = workers[w].aliases
      /\ \A v \in Workers : v # w => workers'[v] = workers[v]
      /\ \A v \in Workers : Project(v)' = Project(v)
      /\ \A v \in Workers : (workers[v].at # "rest" <=> Project(v) \in Projects)'
  BY <1>1, <1>3, MoveFacts
<1>5. DomainsInv' /\ \A q \in Projects : ActiveDomains(q)' = ActiveDomains(q)
  BY <1>1, <1>3, RowsAreKept DEF DomainsTyped
<1>6. EdgeTyped'
  BY <1>1, <1>3, <1>4 DEF EdgeTyped
<1>7. next = "tls" => workers[w].at = "reloadTls"
  BY <1>1 DEF WorkerAt
<1>8. CertifiedFirst'
  <2>1. \A q \in Projects : (file[q].kind = "tls" \/ loaded[q].kind = "tls" \/ q \in live => cert[q] # NoCert)'
    BY <1>1 DEF EdgeInv, CertifiedFirst
  <2>2. \A v \in Workers : (workers[v].at \in {"tls", "reloadTls", "probe"} => cert[Project(v)] # NoCert)'
    BY <1>1, <1>4, <1>7 DEF EdgeInv, CertifiedFirst
  <2> QED BY <2>1, <2>2 DEF CertifiedFirst
<1>9. \A q \in Projects : Current(q) => Current(q)'
  BY <1>1, <1>5 DEF Current, TlsRoute, Route
<1>10. Brings(w, p) => Brings(w, p)'
  BY <1>1, <1>4, <1>5, <1>7 DEF Brings
<1>11. Alone' /\ \A q \in Projects : Applied(q)'
  BY <1>1, <1>2, <1>4, <1>5, <1>9, <1>10, WorkerStep
<1> QED BY <1>5, <1>6, <1>8, <1>11 DEF EdgeInv

\* The worker is done with its project: ready, or given up.
LEMMA WorkerLeavesInv == ASSUME EdgeInv, NEW w \in Workers, RouteReady(w) \/ WorkerFails(w) PROVE EdgeInv'
<1>1. /\ workers[w].at # "rest" /\ Leave(w) /\ UNCHANGED <<rows, calls, queued, proven>>
      /\ UNCHANGED <<file, loaded, cert, raced>>
  BY DEF RouteReady, WorkerFails, WorkerAt
<1>2. PICK p \in Projects : Project(w) = p
  BY <1>1, AtWork
<1>3. DomainsInv /\ DomainsTyped /\ EdgeTyped
  BY <1>1, AtWork
<1>4. /\ workers' \in [Workers -> Worker]
      /\ workers'[w].at = "rest" /\ Project(w)' = NoProject
      /\ \A v \in Workers : v # w => workers'[v] = workers[v] /\ Project(v)' = Project(v)
      /\ \A v \in Workers : (workers[v].at # "rest" <=> Project(v) \in Projects)'
  BY <1>1, <1>3, LeaveFacts
<1>5. \/ workers[w].at = "probe" /\ live' = live \cup {p} /\ behind' = behind
      \/ live' = live /\ behind' = behind \cup {p}
  BY <1>2 DEF RouteReady, WorkerFails, WorkerAt
<1>6. DomainsInv' /\ \A q \in Projects : ActiveDomains(q)' = ActiveDomains(q)
  <2>1. live' \in SUBSET Projects /\ behind' \in SUBSET Projects /\ queued' \in [Projects -> Nat]
    BY <1>1, <1>3, <1>5 DEF DomainsTyped
  <2> QED BY <1>1, <1>3, <2>1, RowsAreKept
<1>7. EdgeTyped'
  BY <1>1, <1>3, <1>4 DEF EdgeTyped
<1>8. CertifiedFirst'
  <2>1. \A q \in Projects : (file[q].kind = "tls" \/ loaded[q].kind = "tls" \/ q \in live => cert[q] # NoCert)'
    BY <1>1, <1>2, <1>5 DEF EdgeInv, CertifiedFirst
  <2>2. \A v \in Workers : (workers[v].at \in {"tls", "reloadTls", "probe"} => cert[Project(v)] # NoCert)'
    BY <1>1, <1>4 DEF EdgeInv, CertifiedFirst
  <2> QED BY <2>1, <2>2 DEF CertifiedFirst
<1>9. \A q \in Projects : Current(q) => Current(q)'
  BY <1>1, <1>6 DEF Current, TlsRoute, Route
<1>10. p \in behind' \/ (Brings(w, p) => Current(p)')
  BY <1>5, <1>9 DEF Brings
<1>11. Alone' /\ \A q \in Projects : Applied(q)'
  BY <1>1, <1>2, <1>4, <1>5, <1>6, <1>9, <1>10, WorkerStep
<1> QED BY <1>6, <1>7, <1>8, <1>11 DEF EdgeInv

LEMMA WorkInv == ASSUME EdgeInv, NEW w \in Workers, Work(w) PROVE EdgeInv'
<1>1. ASSUME NEW p \in Projects, LoadDeployment(w, p) PROVE EdgeInv'
  <2>1. queued \in [Projects -> Nat] /\ queued[p] > 0 /\ queued' = [queued EXCEPT ![p] = @ - 1] /\ TakeOn(w, p, "http")
    BY <1>1 DEF LoadDeployment, EdgeInv, DomainsInv, DomainsTyped
  <2>2. queued' \in [Projects -> Nat] /\ \A q \in Projects : q # p => queued'[q] = queued[q]
    BY <2>1
  <2> QED BY <2>1, <2>2, TakeOnInv
<1>2. ASSUME NEW p \in Projects, LoadCanary(w, p) PROVE EdgeInv'
  <2>1. p \in live /\ queued' = queued /\ queued' \in [Projects -> Nat] /\ TakeOn(w, p, "tls")
    BY <1>2 DEF LoadCanary, EdgeInv, DomainsInv, DomainsTyped
  <2> QED BY <2>1, TakeOnInv
<1> QED
  BY <1>1, <1>2, WriteFileInv, EnsureCertificateInv, ReloadInv, ReloadRefusedInv, WorkerLeavesInv DEF Work

LEMMA EdgeNextInv == EdgeInv /\ [EdgeNext]_edgeAllVars => EdgeInv'
<1> SUFFICES ASSUME EdgeInv, [EdgeNext]_edgeAllVars PROVE EdgeInv'
  OBVIOUS
<1>1. ASSUME UNCHANGED edgeVars, (\E d \in Domains : Domain(d)) \/ (\E h \in Handlers : DomainStep(h)) PROVE EdgeInv'
  <2>1. DomainsInv' /\ Applies
    BY <1>1, DomainStepsInv DEF EdgeInv
  <2> QED BY <1>1, <2>1, EdgeDomainInv
<1>2. ASSUME UNCHANGED edgeAllVars PROVE EdgeInv'
  <2>1. /\ UNCHANGED <<rows, calls, queued, live, behind, proven>> /\ UNCHANGED edgeVars
        /\ DomainsInv /\ DomainsTyped
    BY <1>2 DEF edgeAllVars, domainVars, EdgeInv, DomainsInv
  <2>2. DomainsInv' /\ \A p \in Projects : ActiveDomains(p)' = ActiveDomains(p)
    BY <2>1, RowsAreKept DEF DomainsTyped
  <2>3. Applies
    BY <2>1, <2>2 DEF Applies
  <2> QED BY <2>1, <2>2, <2>3, EdgeDomainInv
<1> QED BY <1>1, <1>2, RequestDeploymentInv, WorkInv DEF EdgeNext

\* nginx -t of one project never trips over the missing certificate of another: whatever fails
\* or dies, a TLS file is only there after its certificate (pipeline: HTTP file, certbot, TLS file).
THEOREM TlsFilesAreCertified == EdgeSpec => []TlsFilesHaveCertificates
<1>1. EdgeInv => TlsFilesHaveCertificates
  BY DEF EdgeInv, CertifiedFirst, TlsFilesHaveCertificates, CertificatesExist
<1> QED BY <1>1, EdgeInitInv, EdgeNextInv, PTL DEF EdgeSpec

\* A domain that is active was proven by a DNS record naming its very project, although rows are
\* deleted, added by others and adopted while lookups wait (verify, tryActivateWwwCompanion).
THEOREM ActiveDomainsAreProven == EdgeSpec => []ActiveWasProven
<1>1. EdgeInv => ActiveWasProven
  BY DEF EdgeInv, DomainsInv
<1> QED BY <1>1, EdgeInitInv, EdgeNextInv, PTL DEF EdgeSpec

\* Once the deployment queued after the last change of its domains is done, a project's route is
\* that of exactly its active domains, with a certificate that names them (sync, pipeline).
THEOREM SettledRoutes == EdgeSpec => []SettledRoutesAreCurrent
<1>1. EdgeInv => SettledRoutesAreCurrent
  BY DEF EdgeInv, Applied, Current, SettledRoutesAreCurrent, Settled
<1> QED BY <1>1, EdgeInitInv, EdgeNextInv, PTL DEF EdgeSpec
-----------------------------------------------------------------------------
(* CanaryRelease *)

Waiting == {"idle", "run", "route", "catch"}
Switched == {"verify", "createRow", "previous", "markReady", "project", "stop", "stopped"}

\* What the status and the flag of a deployment say, at every step of the pipeline.
Stages ==
    /\ active # None => stage[active] = "ready"
    /\ canary # None => stage[canary] = "ready" /\ isCanary[canary] /\ active # None /\ canary # active
    /\ pipeline.pc # "idle" =>
          stage[Job] = IF pipeline.pc \in {"project", "stop", "stopped"} THEN "ready" ELSE "queued"
    /\ \A d \in Deployments : isCanary[d] /\ stage[d] = "ready" => canary = d \/ (pipeline.pc = "project" /\ Job = d)
    /\ \A d \in Deployments : InFlight(d) => (isCanary[d] <=> baseline[d] # None)
    /\ \A d \in Deployments : stage[d] = "failed" => docker[d] # "running"

\* Whoever waits in the queue is queued, once, and not yet at work.
QueueInv ==
    /\ \A i \in 1 .. Len(deploys) : stage[deploys[i]] = "queued" /\ deploys[i] # Job
    /\ \A i, j \in 1 .. Len(deploys) : deploys[i] = deploys[j] => i = j

\* The consumer is at work for the canary and the stable deployment that the project names.
ConsumerInv ==
    /\ consumer.pc # "idle" => Act \in Action /\ canary = Act.canary /\ consumer.stable = active
    /\ consumer.pc \in {"stop", "commit"} => Act.type # "set_percent"

\* Without a canary, the route serves the active deployment, and nothing else that runs but the job.
KeptRoute ==
    /\ active = None => upstreams = {}
    /\ active # None => active \in upstreams
    /\ \A d \in upstreams : docker[d] = "running" => d \in {active, Job}

\* With one, it serves one of the two.
SharedRoute == upstreams \subseteq {active, canary} /\ \E d \in upstreams : docker[d] = "running"

\* A deployment that has failed, or is about to, had the route.
LostRoute ==
    \E d \in upstreams :
        upstreams = {d} /\ (stage[d] = "failed" \/ (pipeline.pc = "catch" /\ d = Job /\ docker[d] = "running"))

Routed == LostRoute \/ IF canary = None THEN KeptRoute ELSE SharedRoute

\* The route is moved before the project is, and a container is stopped after both.
PipelineRoutes ==
    /\ pipeline.pc \in Waiting => Routed
    /\ canary = None /\ active # None => docker[active] = "running"
    /\ pipeline.pc = "route" => docker[Job] = "running"
    /\ pipeline.pc \in Switched =>
          docker[Job] = "running" /\ upstreams = IF JobIsCanary THEN {active, Job} ELSE {Job}
    /\ pipeline.pc \in {"stop", "stopped"} => active = Job /\ pipeline.previous \in Deployments /\ ~JobIsCanary
    /\ pipeline.pc \in {"markReady", "project", "stop", "stopped"} => pipeline.previous # Job
    /\ pipeline.pc \notin {"idle", "stop", "stopped"} => Job # active

\* Where traffic moves to runs, from the route to the records.
ConsumerRoutes ==
    consumer.pc \in {"verify", "stop", "commit"} =>
        /\ docker[Target] = "running" /\ Target \in upstreams
        /\ Act.type # "set_percent" => upstreams = {Target}

ReleaseTyped ==
    /\ TypeOK
    /\ pipeline.pc = "idle" <=> pipeline.job = None

ReleaseInv ==
    ReleaseTyped /\ ~Crossing /\ Stages /\ QueueInv /\ ConsumerInv /\ PipelineRoutes /\ ConsumerRoutes

LEMMA ReleaseInitInv == Init => ReleaseInv
<1> SUFFICES ASSUME Init PROVE ReleaseInv
  OBVIOUS
<1>1. ReleaseTyped
  BY DEF Init, ReleaseTyped, TypeOK, MaybeDeployment
<1>2. QueueInv /\ ConsumerInv /\ ~Crossing
  BY DEF Init, QueueInv, ConsumerInv, Act, Crossing, Releasing
<1>3. Stages
  BY TrafficAssumption DEF Init, Stages, InFlight
<1>4. PipelineRoutes /\ ConsumerRoutes
  BY DEF Init, PipelineRoutes, ConsumerRoutes, Routed, KeptRoute, Switched
<1> QED BY <1>1, <1>2, <1>3, <1>4 DEF ReleaseInv

\* What an ongoing release may rely on: the worker,
PipelineStates ==
    [pc : {"idle", "run", "route", "verify", "createRow", "previous", "markReady", "project", "stop", "stopped", "catch"},
     job : MaybeDeployment, previous : MaybeDeployment]

LEMMA AtJob ==
    ASSUME ReleaseInv, pipeline.pc # "idle"
    PROVE  /\ Job \in Deployments /\ InFlight(Job) /\ stage[Job] \in {"queued", "ready"}
           /\ pipeline \in PipelineStates /\ active \in MaybeDeployment /\ canary \in MaybeDeployment
           /\ Releasing => consumer.pc = "idle"
           /\ Releasing /\ JobIsCanary => baseline[Job] = active /\ active \in Deployments /\ canary = None
           /\ ReleaseTyped /\ Stages /\ QueueInv /\ ConsumerInv /\ PipelineRoutes /\ ConsumerRoutes
<1>1. ReleaseTyped /\ Stages /\ QueueInv /\ ConsumerInv /\ PipelineRoutes /\ ConsumerRoutes /\ ~Crossing
  BY DEF ReleaseInv
<1>2. pipeline \in PipelineStates /\ active \in MaybeDeployment /\ canary \in MaybeDeployment
  BY <1>1 DEF ReleaseTyped, TypeOK, PipelineStates
<1>3. Job \in Deployments /\ InFlight(Job)
  BY <1>1, <1>2 DEF ReleaseTyped, PipelineStates, Job, MaybeDeployment, InFlight
<1>4. stage[Job] \in {"queued", "ready"}
  BY <1>1 DEF Stages
<1>5. Releasing => consumer.pc = "idle" /\ (JobIsCanary => baseline[Job] = active /\ canary = None)
  BY <1>1 DEF Crossing
<1>6. baseline[Job] \in MaybeDeployment
  BY <1>1, <1>3 DEF ReleaseTyped, TypeOK
<1> QED BY <1>1, <1>2, <1>3, <1>4, <1>5, <1>6 DEF JobIsCanary, MaybeDeployment

\* and the consumer.
ConsumerStates ==
    [pc : {"idle", "assert", "route", "verify", "stop", "commit"}, action : Action \cup {NoAction}, stable : MaybeDeployment]

LEMMA AtAction ==
    ASSUME ReleaseInv, consumer.pc # "idle"
    PROVE  /\ Act \in Action /\ consumer \in ConsumerStates
           /\ canary = Act.canary /\ canary \in Deployments /\ consumer.stable = active /\ active \in Deployments
           /\ active # canary /\ canary # None /\ pipeline.pc \in {"idle", "run", "catch"}
           /\ Job \notin {active, canary} /\ ~InFlight(canary)
           /\ Target \in {active, canary} /\ Loser \in {active, canary} /\ Target # Loser
           /\ ReleaseTyped /\ Stages /\ QueueInv /\ ConsumerInv /\ PipelineRoutes /\ ConsumerRoutes
<1>1. ReleaseTyped /\ Stages /\ QueueInv /\ ConsumerInv /\ PipelineRoutes /\ ConsumerRoutes /\ ~Crossing
  BY DEF ReleaseInv
<1>2. /\ Act \in Action /\ consumer \in ConsumerStates /\ canary = Act.canary /\ consumer.stable = active
      /\ active \in MaybeDeployment
  BY <1>1 DEF ConsumerInv, ReleaseTyped, TypeOK, ConsumerStates
<1>3. canary \in Deployments /\ canary # None
  BY <1>2, TrafficAssumption DEF Action
<1>4. active \in Deployments /\ active # canary /\ stage[active] = "ready" /\ stage[canary] = "ready"
  BY <1>1, <1>2, <1>3 DEF Stages, MaybeDeployment
<1>5. pipeline.pc \in {"idle", "run", "catch"}
  BY <1>1 DEF Crossing, Releasing
<1>6. Job \notin {active, canary}
  <2>1. CASE pipeline.pc = "idle"
    BY <1>1, <1>3, <1>4, <2>1, TrafficAssumption DEF ReleaseTyped, Job
  <2>2. CASE pipeline.pc # "idle"
    BY <1>1, <1>4, <1>5, <2>2 DEF Stages
  <2> QED BY <2>1, <2>2
<1>7. ~InFlight(canary)
  BY <1>4, <1>6 DEF InFlight, Job
<1>8. Target \in {active, canary} /\ Loser \in {active, canary} /\ Target # Loser
  BY <1>2, <1>4 DEF Target, Loser
<1> QED BY <1>1, <1>2, <1>3, <1>4, <1>5, <1>6, <1>7, <1>8

\* A deployment is asked for, whatever is under way.
LEMMA EnqueueInv ==
    ASSUME ReleaseInv, NEW d \in Deployments, NEW stable \in MaybeDeployment, Enqueue(d, stable), ~Crossing'
    PROVE  ReleaseInv'
<1>1. /\ ReleaseTyped /\ Stages /\ QueueInv /\ ConsumerInv /\ PipelineRoutes /\ ConsumerRoutes
      /\ stage[d] = "none" /\ stage' = [stage EXCEPT ![d] = "queued"]
      /\ isCanary' = [isCanary EXCEPT ![d] = stable # None] /\ baseline' = [baseline EXCEPT ![d] = stable]
      /\ deploys' = Append(deploys, d)
      /\ UNCHANGED <<row, docker, upstreams, wakeOf, active, canary, actions, pipeline, consumer>>
  BY DEF ReleaseInv, Enqueue, machine, route, project
<1>2. active \in MaybeDeployment /\ canary \in MaybeDeployment
  BY <1>1 DEF ReleaseTyped, TypeOK
<1>3. ReleaseTyped'
  BY <1>1 DEF ReleaseTyped, TypeOK, MaybeDeployment
<1>4. Job # d
  BY <1>1, TrafficAssumption DEF ReleaseTyped, TypeOK, MaybeDeployment, Stages, Job
<1>5. /\ \A e \in Deployments : e # d => stage'[e] = stage[e] /\ isCanary'[e] = isCanary[e] /\ baseline'[e] = baseline[e]
      /\ stage'[d] = "queued" /\ baseline'[d] = stable /\ (isCanary'[d] <=> stable # None)
  BY <1>1 DEF ReleaseTyped, TypeOK
<1>6. Stages'
  <2>1. active # None => stage'[active] = "ready"
    BY <1>1, <1>2, <1>5 DEF MaybeDeployment, Stages
  <2>2. canary # None => stage'[canary] = "ready" /\ isCanary'[canary] /\ active # None /\ canary # active
    BY <1>1, <1>2, <1>5 DEF MaybeDeployment, Stages
  <2>3. pipeline.pc # "idle" => stage'[Job] = stage[Job]
    BY <1>1, <1>4, <1>5 DEF ReleaseTyped, TypeOK, MaybeDeployment, Job
  <2>4. \A e \in Deployments : isCanary'[e] /\ stage'[e] = "ready" => canary = e \/ (pipeline.pc = "project" /\ Job = e)
    BY <1>1, <1>5 DEF Stages
  <2>5. \A e \in Deployments : InFlight(e)' => (isCanary'[e] <=> baseline'[e] # None)
    BY <1>1, <1>5 DEF Stages, InFlight
  <2>6. \A e \in Deployments : stage'[e] = "failed" => docker'[e] # "running"
    BY <1>1, <1>5 DEF Stages
  <2> QED BY <1>1, <2>1, <2>2, <2>3, <2>4, <2>5, <2>6 DEF Stages, Job
<1>7. QueueInv'
  BY <1>1, <1>4 DEF ReleaseTyped, TypeOK, QueueInv, Job
<1>8. ConsumerInv' /\ ConsumerRoutes'
  BY <1>1 DEF ConsumerInv, ConsumerRoutes, Act, Target
<1>9. PipelineRoutes'
  <2>1. LostRoute => LostRoute'
    BY <1>1, <1>5 DEF ReleaseTyped, TypeOK, LostRoute, Job
  <2>2. Routed => Routed'
    BY <1>1, <2>1 DEF Routed, KeptRoute, SharedRoute, Job
  <2>3. pipeline.pc # "idle" => (JobIsCanary' <=> JobIsCanary)
    BY <1>1, <1>4, <1>5 DEF ReleaseTyped, TypeOK, MaybeDeployment, Job, JobIsCanary
  <2> QED BY <1>1, <2>2, <2>3 DEF PipelineRoutes, Job, Switched
<1> QED BY <1>3, <1>6, <1>7, <1>8, <1>9 DEF ReleaseInv

\* A promote, an abort or a weight is asked for.
LEMMA EnqueueActionInv ==
    ASSUME ReleaseInv, NEW type \in {"set_percent", "promote", "abort"}, NEW c \in Deployments,
           NEW stable \in {None, active}, EnqueueAction(type, c, stable), ~Crossing'
    PROVE  ReleaseInv'
<1>1. /\ ReleaseTyped /\ Stages /\ QueueInv /\ ConsumerInv /\ PipelineRoutes /\ ConsumerRoutes
      /\ actions' = Append(actions, [type |-> type, canary |-> c, stable |-> stable])
      /\ UNCHANGED <<stage, isCanary, row, baseline, docker, upstreams, wakeOf, active, canary, deploys, pipeline, consumer>>
  BY DEF ReleaseInv, EnqueueAction, records, machine, route, project
<1>2. [type |-> type, canary |-> c, stable |-> stable] \in Action
  BY <1>1 DEF ReleaseTyped, TypeOK, Action, MaybeDeployment
<1>3. ReleaseTyped'
  BY <1>1, <1>2 DEF ReleaseTyped, TypeOK
<1>4. Stages' /\ QueueInv' /\ ConsumerInv' /\ ConsumerRoutes'
  BY <1>1 DEF Stages, QueueInv, ConsumerInv, ConsumerRoutes, InFlight, Job, Act, Target
<1>5. PipelineRoutes'
  BY <1>1 DEF PipelineRoutes, Routed, LostRoute, KeptRoute, SharedRoute, Job, JobIsCanary
<1> QED BY <1>3, <1>4, <1>5 DEF ReleaseInv

LEMMA RequestsInv == ASSUME ReleaseInv, Request, ~Crossing' PROVE ReleaseInv'
<1>1. active \in MaybeDeployment /\ None \in MaybeDeployment
  BY DEF ReleaseInv, ReleaseTyped, TypeOK, MaybeDeployment
<1>2. ASSUME NEW d \in Deployments, Deploy(d) PROVE ReleaseInv'
  BY <1>1, <1>2, EnqueueInv DEF Deploy
<1>3. ASSUME NEW d \in Deployments, StartCanary(d) PROVE ReleaseInv'
  BY <1>1, <1>3, EnqueueInv DEF StartCanary
<1>4. ASSUME NEW d \in Deployments, RequestPercent(d) \/ RequestPromote(d) \/ RequestAbort(d) PROVE ReleaseInv'
  BY <1>4, EnqueueActionInv DEF RequestPercent, RequestPromote, RequestAbort
<1> QED BY <1>2, <1>3, <1>4 DEF Request

-----------------------------------------------------------------------------
(* The deploy worker *)

LEMMA GotoFacts ==
    ASSUME pipeline \in PipelineStates, Goto("route") \/ Goto("verify") \/ Goto("catch") \/ Goto("createRow")
              \/ Goto("previous") \/ Goto("project") \/ Goto("stop") \/ Goto("stopped")
    PROVE  pipeline' \in PipelineStates /\ pipeline'.job = pipeline.job /\ pipeline'.previous = pipeline.previous
BY DEF Goto, PipelineStates

\* A step of the worker that leaves the records of the releases as they are.
LEMMA JobGoesOn ==
    ASSUME ReleaseInv, ~Crossing', pipeline.pc # "idle", pipeline'.pc # "idle",
           pipeline' \in PipelineStates, pipeline'.job = pipeline.job,
           pipeline.pc \in {"project", "stop", "stopped"} <=> pipeline'.pc \in {"project", "stop", "stopped"},
           pipeline.pc = "project" <=> pipeline'.pc = "project",
           UNCHANGED <<stage, isCanary, baseline, active, canary, deploys, actions, consumer>>, wakeOf' \in MaybeDeployment,
           row' \in [Deployments -> {"none", "running", "stopped", "crashed"}],
           docker' \in [Deployments -> {"none", "running", "exited"}],
           \A d \in Deployments : docker'[d] = "running" => docker[d] = "running" \/ d = Job,
           consumer.pc = "idle" \/ (upstreams' = upstreams /\ \A d \in Deployments \ {Job} : docker'[d] = docker[d]),
           upstreams' \subseteq Deployments, PipelineRoutes'
    PROVE  ReleaseInv'
<1>1. UNCHANGED <<stage, isCanary, baseline, active, canary, deploys, actions, consumer>> /\ Job' = Job
  BY DEF Job
<1>2. ReleaseTyped'
  <2>1. pipeline.job # None
    BY AtJob DEF ReleaseTyped, Job
  <2> QED BY <1>1, <2>1, AtJob DEF ReleaseTyped, TypeOK, PipelineStates
<1>3. Stages'
  <2>1. \A d \in Deployments : stage'[d] = "failed" => docker'[d] # "running"
    BY <1>1, AtJob DEF Stages
  <2> QED BY <1>1, <2>1, AtJob DEF Stages, InFlight, Job
<1>4. QueueInv' /\ ConsumerInv'
  BY <1>1, AtJob DEF QueueInv, ConsumerInv, InFlight, Job, Act
<1>5. ConsumerRoutes'
  <2>1. CASE consumer.pc = "idle"
    BY <1>1, <2>1 DEF ConsumerRoutes
  <2>2. CASE consumer.pc # "idle"
    <3>1. Target \in Deployments \ {Job} /\ ConsumerRoutes
      BY <2>2, AtAction
    <3> QED BY <1>1, <2>2, <3>1 DEF ConsumerRoutes, Target, Act
  <2> QED BY <2>1, <2>2
<1> QED BY <1>2, <1>3, <1>4, <1>5 DEF ReleaseInv

LEMMA RunContainerInv == ASSUME ReleaseInv, RunContainer, ~Crossing' PROVE ReleaseInv'
<1>1. /\ pipeline.pc = "run" /\ (Goto("route") \/ Goto("catch"))
      /\ docker' = [docker EXCEPT ![Job] = "running"] \/ (docker' = docker /\ Goto("catch"))
      /\ UNCHANGED <<stage, isCanary, row, baseline, upstreams, wakeOf, active, canary, deploys, actions, consumer>>
  BY DEF RunContainer, records, route, project, queues
<1>2. /\ Job \in Deployments /\ pipeline \in PipelineStates /\ PipelineRoutes /\ ReleaseTyped
      /\ active \in MaybeDeployment /\ canary \in MaybeDeployment /\ Stages /\ upstreams \subseteq Deployments
  BY <1>1, AtJob DEF ReleaseTyped, TypeOK
<1>3. pipeline' \in PipelineStates /\ pipeline'.job = pipeline.job /\ pipeline'.pc \in {"route", "catch"} /\ Job' = Job
  BY <1>1, <1>2, GotoFacts DEF Goto, PipelineStates, Job
<1>4. /\ \A e \in Deployments : e # Job => docker'[e] = docker[e]
      /\ pipeline'.pc = "route" => docker'[Job] = "running"
      /\ docker' \in [Deployments -> {"none", "running", "exited"}]
      /\ \A e \in Deployments : docker[e] = "running" => docker'[e] = "running"
  BY <1>1, <1>2, <1>3 DEF ReleaseTyped, TypeOK, Goto, PipelineStates
<1>5. Routed /\ Job # active /\ stage[Job] = "queued"
  BY <1>1, <1>2 DEF PipelineRoutes, Waiting, Stages
<1>6. Routed'
  <2>1. LostRoute => LostRoute'
    BY <1>1, <1>3 DEF LostRoute
  <2>2. KeptRoute => KeptRoute'
    BY <1>1, <1>2, <1>3, <1>4 DEF KeptRoute
  <2>3. SharedRoute => SharedRoute'
    BY <1>1, <1>2, <1>4 DEF SharedRoute
  <2> QED BY <1>1, <1>5, <2>1, <2>2, <2>3 DEF Routed
<1>7. PipelineRoutes'
  <2>1. canary = None /\ active # None => docker'[active] = "running"
    BY <1>2, <1>4 DEF PipelineRoutes, MaybeDeployment
  <2> QED BY <1>1, <1>3, <1>4, <1>5, <1>6, <2>1 DEF PipelineRoutes, Switched
<1>8. row' \in [Deployments -> {"none", "running", "stopped", "crashed"}] /\ wakeOf' \in MaybeDeployment
  BY <1>1, <1>2 DEF ReleaseTyped, TypeOK
<1> QED BY <1>1, <1>2, <1>3, <1>4, <1>7, <1>8, JobGoesOn

\* The worker is alone with the route.
LEMMA WorkerAlone == ASSUME ReleaseInv, Releasing PROVE consumer.pc = "idle" /\ pipeline.pc # "idle"
BY DEF ReleaseInv, Releasing, Crossing

LEMMA ConfigureRouteInv == ASSUME ReleaseInv, ConfigureRoute, ~Crossing' PROVE ReleaseInv'
<1>1. /\ pipeline.pc = "route" /\ Goto("verify") /\ Releasing /\ consumer.pc = "idle"
      /\ upstreams' = IF JobIsCanary THEN {baseline[Job], Job} ELSE {Job}
      /\ wakeOf' = Job
      /\ UNCHANGED <<stage, isCanary, row, baseline, docker, active, canary, deploys, actions, consumer>>
  BY WorkerAlone DEF ConfigureRoute, records, project, queues, Releasing
<1>2. /\ Job \in Deployments /\ pipeline \in PipelineStates /\ PipelineRoutes /\ ReleaseTyped
      /\ JobIsCanary => baseline[Job] = active /\ active \in Deployments /\ canary = None
  BY <1>1, AtJob
<1>3. pipeline' \in PipelineStates /\ pipeline'.job = pipeline.job /\ pipeline'.pc = "verify" /\ Job' = Job
  BY <1>1, <1>2, GotoFacts DEF Goto, PipelineStates, Job
<1>4. Job # active /\ docker[Job] = "running"
  BY <1>1, <1>2 DEF PipelineRoutes
<1>5. PipelineRoutes'
  BY <1>1, <1>2, <1>3, <1>4 DEF PipelineRoutes, Waiting, Switched, JobIsCanary
<1>6. /\ row' \in [Deployments -> {"none", "running", "stopped", "crashed"}] /\ upstreams' \subseteq Deployments
      /\ docker' \in [Deployments -> {"none", "running", "exited"}] /\ wakeOf' \in MaybeDeployment
  BY <1>1, <1>2 DEF ReleaseTyped, TypeOK, MaybeDeployment
<1> QED BY <1>1, <1>3, <1>5, <1>6, JobGoesOn

\* A plain deployment that fails here leaves the route to itself.
LEMMA VerifyRouteInv == ASSUME ReleaseInv, VerifyRoute, ~Crossing' PROVE ReleaseInv'
<1>1. /\ pipeline.pc = "verify" /\ (Goto("createRow") \/ Goto("catch")) /\ Releasing /\ consumer.pc = "idle"
      /\ UNCHANGED <<stage, isCanary, row, baseline, docker, upstreams, wakeOf, active, canary, deploys, actions, consumer>>
  BY WorkerAlone DEF VerifyRoute, records, machine, route, project, queues, Releasing
<1>2. /\ Job \in Deployments /\ pipeline \in PipelineStates /\ PipelineRoutes /\ ReleaseTyped
      /\ JobIsCanary => baseline[Job] = active /\ active \in Deployments /\ canary = None
  BY <1>1, AtJob
<1>3. /\ pipeline' \in PipelineStates /\ pipeline'.job = pipeline.job /\ pipeline'.pc \in {"createRow", "catch"}
      /\ Job' = Job /\ (JobIsCanary' <=> JobIsCanary)
  BY <1>1, <1>2, GotoFacts DEF Goto, PipelineStates, Job, JobIsCanary
<1>4. /\ Job # active /\ docker[Job] = "running" /\ upstreams = IF JobIsCanary THEN {active, Job} ELSE {Job}
  BY <1>1, <1>2 DEF PipelineRoutes, Switched
<1>5. pipeline'.pc = "catch" => Routed'
  <2>1. CASE JobIsCanary
    BY <1>1, <1>2, <1>3, <1>4, <2>1, TrafficAssumption DEF Routed, KeptRoute
  <2>2. CASE ~JobIsCanary
    BY <1>1, <1>2, <1>3, <1>4, <2>2 DEF Routed, LostRoute
  <2> QED BY <2>1, <2>2
<1>6. PipelineRoutes'
  BY <1>1, <1>2, <1>3, <1>4, <1>5 DEF PipelineRoutes, Waiting, Switched
<1>7. /\ row' \in [Deployments -> {"none", "running", "stopped", "crashed"}] /\ upstreams' \subseteq Deployments
      /\ docker' \in [Deployments -> {"none", "running", "exited"}] /\ wakeOf' \in MaybeDeployment
  BY <1>1, <1>2 DEF ReleaseTyped, TypeOK
<1> QED BY <1>1, <1>3, <1>6, <1>7, JobGoesOn

LEMMA CreateRowInv == ASSUME ReleaseInv, CreateRow, ~Crossing' PROVE ReleaseInv'
<1>1. /\ pipeline.pc = "createRow" /\ Goto("previous") /\ row' = [row EXCEPT ![Job] = "running"]
      /\ Releasing /\ consumer.pc = "idle"
      /\ UNCHANGED <<stage, isCanary, baseline, docker, upstreams, wakeOf, active, canary, deploys, actions, consumer>>
  BY WorkerAlone DEF CreateRow, machine, route, project, queues, Releasing
<1>2. Job \in Deployments /\ pipeline \in PipelineStates /\ PipelineRoutes /\ ReleaseTyped
  BY <1>1, AtJob
<1>3. pipeline' \in PipelineStates /\ pipeline'.job = pipeline.job /\ pipeline'.pc = "previous" /\ Job' = Job
  BY <1>1, <1>2, GotoFacts DEF Goto, PipelineStates, Job
<1>4. PipelineRoutes'
  BY <1>1, <1>2, <1>3 DEF PipelineRoutes, Waiting, Switched, JobIsCanary
<1>5. /\ row' \in [Deployments -> {"none", "running", "stopped", "crashed"}] /\ upstreams' \subseteq Deployments
      /\ docker' \in [Deployments -> {"none", "running", "exited"}] /\ wakeOf' \in MaybeDeployment
  BY <1>1, <1>2 DEF ReleaseTyped, TypeOK
<1> QED BY <1>1, <1>3, <1>4, <1>5, JobGoesOn

LEMMA FindPreviousInv == ASSUME ReleaseInv, FindPrevious, ~Crossing' PROVE ReleaseInv'
<1>1. PICK p \in MaybeDeployment : p # Job /\ pipeline' = [pipeline EXCEPT !.pc = "markReady", !.previous = p]
  BY AtJob, TrafficAssumption DEF FindPrevious, MaybeDeployment
<1>2. /\ pipeline.pc = "previous" /\ Releasing /\ consumer.pc = "idle"
      /\ UNCHANGED <<stage, isCanary, row, baseline, docker, upstreams, wakeOf, active, canary, deploys, actions, consumer>>
  BY WorkerAlone DEF FindPrevious, records, machine, route, project, queues, Releasing
<1>3. Job \in Deployments /\ pipeline \in PipelineStates /\ PipelineRoutes /\ ReleaseTyped
  BY <1>2, AtJob
<1>4. /\ pipeline' \in PipelineStates /\ pipeline'.job = pipeline.job /\ pipeline'.pc = "markReady"
      /\ pipeline'.previous = p /\ Job' = Job
  <2>1. pipeline' = [[pipeline EXCEPT !.pc = "markReady"] EXCEPT !.previous = p]
    BY <1>1
  <2>2. LET z == [pipeline EXCEPT !.pc = "markReady"] IN
        z \in PipelineStates /\ z.pc = "markReady" /\ z.job = pipeline.job
    BY <1>3 DEF PipelineStates
  <2>3. PICK z \in PipelineStates :
            pipeline' = [z EXCEPT !.previous = p] /\ z.pc = "markReady" /\ z.job = pipeline.job
    BY <2>1, <2>2
  <2>4. LET y == [z EXCEPT !.previous = p] IN
        y \in PipelineStates /\ y.pc = z.pc /\ y.job = z.job /\ y.previous = p
    BY <2>3 DEF PipelineStates
  <2> QED BY <2>3, <2>4 DEF Job
<1>5. PipelineRoutes'
  BY <1>1, <1>2, <1>3, <1>4 DEF PipelineRoutes, Waiting, Switched, JobIsCanary
<1>6. /\ row' \in [Deployments -> {"none", "running", "stopped", "crashed"}] /\ upstreams' \subseteq Deployments
      /\ docker' \in [Deployments -> {"none", "running", "exited"}] /\ wakeOf' \in MaybeDeployment
  BY <1>2, <1>3 DEF ReleaseTyped, TypeOK
<1> QED BY <1>2, <1>4, <1>5, <1>6, JobGoesOn

\* What is stopped may be the canary; the route has left it.
LEMMA StopPreviousInv == ASSUME ReleaseInv, StopPrevious, ~Crossing' PROVE ReleaseInv'
<1>1. /\ pipeline.pc = "stop" /\ Goto("stopped") /\ docker' = [docker EXCEPT ![pipeline.previous] = "exited"]
      /\ Releasing /\ consumer.pc = "idle"
      /\ UNCHANGED <<stage, isCanary, row, baseline, upstreams, wakeOf, active, canary, deploys, actions, consumer>>
  BY WorkerAlone DEF StopPrevious, records, route, project, queues, Releasing
<1>2. Job \in Deployments /\ pipeline \in PipelineStates /\ PipelineRoutes /\ ReleaseTyped
  BY <1>1, AtJob
<1>3. /\ pipeline' \in PipelineStates /\ pipeline'.job = pipeline.job /\ pipeline'.previous = pipeline.previous
      /\ pipeline'.pc = "stopped" /\ Job' = Job
  BY <1>1, <1>2, GotoFacts DEF Goto, PipelineStates, Job
<1>4. /\ docker' \in [Deployments -> {"none", "running", "exited"}]
      /\ \A e \in Deployments : e # pipeline.previous => docker'[e] = docker[e]
      /\ \A e \in Deployments : docker'[e] = "running" => docker[e] = "running"
  BY <1>1, <1>2 DEF ReleaseTyped, TypeOK
<1>5. docker[Job] = "running" /\ upstreams = {Job} /\ active = Job /\ pipeline.previous \in Deployments
      /\ pipeline.previous # Job /\ ~JobIsCanary
  BY <1>1, <1>2 DEF PipelineRoutes, Switched
<1>6. PipelineRoutes'
  BY <1>1, <1>2, <1>3, <1>4, <1>5 DEF PipelineRoutes, Waiting, Switched, JobIsCanary
<1>7. /\ row' \in [Deployments -> {"none", "running", "stopped", "crashed"}] /\ upstreams' \subseteq Deployments
      /\ wakeOf' \in MaybeDeployment
  BY <1>1, <1>2 DEF ReleaseTyped, TypeOK
<1> QED BY <1>1, <1>3, <1>4, <1>6, <1>7, JobGoesOn

LEMMA TakeJobInv == ASSUME ReleaseInv, TakeJob, ~Crossing' PROVE ReleaseInv'
<1>1. /\ pipeline.pc = "idle" /\ deploys # <<>> /\ deploys' = Tail(deploys)
      /\ pipeline' = [pc |-> "run", job |-> Head(deploys), previous |-> None]
      /\ UNCHANGED <<stage, isCanary, row, baseline, docker, upstreams, wakeOf, active, canary, actions, consumer>>
      /\ ReleaseTyped /\ Stages /\ QueueInv /\ ConsumerInv /\ PipelineRoutes /\ ConsumerRoutes
  BY DEF TakeJob, records, machine, route, project, ReleaseInv
<1>2. PICK d \in Deployments : d = Head(deploys) /\ d = deploys[1] /\ Len(deploys) \in Nat \ {0}
  BY <1>1 DEF ReleaseTyped, TypeOK
<1>3. /\ Job = None /\ Job' = d /\ pipeline'.pc = "run" /\ stage[d] = "queued" /\ d # None
      /\ active \in MaybeDeployment /\ canary \in MaybeDeployment
  BY <1>1, <1>2, TrafficAssumption DEF ReleaseTyped, TypeOK, QueueInv, Job
<1>4. ReleaseTyped'
  <2>1. deploys' \in Seq(Deployments)
    BY <1>1 DEF ReleaseTyped, TypeOK
  <2>2. pipeline' \in PipelineStates /\ pipeline'.pc # "idle" /\ pipeline'.job # None
    BY <1>1, <1>2, <1>3 DEF PipelineStates, MaybeDeployment
  <2> QED BY <1>1, <2>1, <2>2 DEF ReleaseTyped, TypeOK, PipelineStates
<1>5. \A e \in Deployments : InFlight(e)' <=> InFlight(e)
  BY <1>1, <1>3, TrafficAssumption DEF InFlight, Job
<1>6. Stages'
  BY <1>1, <1>3, <1>5 DEF Stages, Job
<1>7. QueueInv'
  <2>1. Len(deploys') = Len(deploys) - 1 /\ \A i \in 1 .. Len(deploys') : deploys'[i] = deploys[i + 1]
    BY <1>1 DEF ReleaseTyped, TypeOK
  <2> QED BY <1>1, <1>2, <1>3, <2>1 DEF QueueInv
<1>8. ConsumerInv' /\ ConsumerRoutes'
  BY <1>1 DEF ConsumerInv, ConsumerRoutes, Act, Target
<1>9. PipelineRoutes'
  <2>1. Routed /\ upstreams \subseteq Deployments
    BY <1>1 DEF PipelineRoutes, Waiting, ReleaseTyped, TypeOK
  <2>2. LostRoute => LostRoute'
    BY <1>1 DEF LostRoute
  <2>3. KeptRoute => KeptRoute'
    BY <1>1, <1>3, <2>1, TrafficAssumption DEF KeptRoute
  <2>4. Routed'
    BY <1>1, <2>1, <2>2, <2>3 DEF Routed, SharedRoute
  <2>5. active # d
    BY <1>1, <1>3 DEF Stages
  <2> QED BY <1>1, <1>3, <2>4, <2>5 DEF PipelineRoutes, Switched
<1> QED BY <1>4, <1>6, <1>7, <1>8, <1>9 DEF ReleaseInv

LEMMA MarkReadyInv == ASSUME ReleaseInv, MarkReady, ~Crossing' PROVE ReleaseInv'
<1>1. /\ pipeline.pc = "markReady" /\ Goto("project") /\ stage' = [stage EXCEPT ![Job] = "ready"]
      /\ isCanary' = [isCanary EXCEPT ![Job] = @ \/ JobIsCanary] /\ Releasing /\ consumer.pc = "idle"
      /\ UNCHANGED <<row, baseline, docker, upstreams, wakeOf, active, canary, deploys, actions, consumer>>
  BY WorkerAlone DEF MarkReady, machine, route, project, queues, Releasing
<1>2. /\ Job \in Deployments /\ pipeline \in PipelineStates
      /\ ReleaseTyped /\ Stages /\ QueueInv /\ ConsumerInv /\ PipelineRoutes /\ ConsumerRoutes
      /\ active \in MaybeDeployment /\ canary \in MaybeDeployment /\ stage[Job] = "queued"
  BY <1>1, AtJob DEF Stages
<1>3. /\ pipeline' \in PipelineStates /\ pipeline'.job = pipeline.job /\ pipeline'.previous = pipeline.previous
      /\ pipeline'.pc = "project" /\ Job' = Job
  BY <1>1, <1>2, GotoFacts DEF Goto, PipelineStates, Job
<1>4. /\ stage'[Job] = "ready" /\ \A e \in Deployments : e # Job => stage'[e] = stage[e] /\ isCanary'[e] = isCanary[e]
      /\ stage' \in [Deployments -> {"none", "queued", "ready", "failed", "rolled_back"}]
  BY <1>1, <1>2 DEF ReleaseTyped, TypeOK
<1>5. isCanary'[Job] = isCanary[Job] /\ isCanary' \in [Deployments -> BOOLEAN]
  <2>1. isCanary[Job] <=> JobIsCanary
    BY <1>2 DEF Stages, InFlight, Job, JobIsCanary
  <2>2. isCanary'[Job] = (isCanary[Job] \/ JobIsCanary) /\ isCanary' \in [Deployments -> BOOLEAN] /\ isCanary[Job] \in BOOLEAN
    BY <1>1, <1>2 DEF ReleaseTyped, TypeOK, JobIsCanary
  <2>3. CASE JobIsCanary
    BY <2>1, <2>2, <2>3
  <2>4. CASE ~JobIsCanary
    BY <2>1, <2>2, <2>4
  <2> QED BY <2>2, <2>3, <2>4
<1>6. ReleaseTyped'
  <2>1. pipeline'.pc # "idle" /\ pipeline'.job # None
    BY <1>1, <1>2, <1>3 DEF ReleaseTyped
  <2> QED BY <1>1, <1>2, <1>3, <1>4, <1>5, <2>1 DEF ReleaseTyped, TypeOK, PipelineStates
<1>7. \A e \in Deployments : InFlight(e)' <=> InFlight(e)
  BY <1>3, <1>4 DEF InFlight, Job
<1>8. Job # active
  BY <1>1, <1>2 DEF PipelineRoutes
<1>9. Stages'
  <2>1. active # None => stage'[active] = "ready"
    BY <1>2, <1>4, <1>8 DEF Stages, MaybeDeployment
  <2>2. canary # None => stage'[canary] = "ready" /\ isCanary'[canary] /\ active # None /\ canary # active
    BY <1>2, <1>4, <1>5 DEF Stages, MaybeDeployment
  <2>3. \A e \in Deployments : isCanary'[e] /\ stage'[e] = "ready" => canary = e \/ Job = e
    BY <1>1, <1>2, <1>4 DEF Stages
  <2>4. \A e \in Deployments : InFlight(e)' => (isCanary'[e] <=> baseline'[e] # None)
    BY <1>1, <1>2, <1>4, <1>5, <1>7 DEF Stages
  <2>5. \A e \in Deployments : stage'[e] = "failed" => docker'[e] # "running"
    BY <1>1, <1>2, <1>4 DEF Stages
  <2> QED BY <1>1, <1>2, <1>3, <1>4, <2>1, <2>2, <2>3, <2>4, <2>5 DEF Stages
<1>10. QueueInv'
  BY <1>1, <1>2, <1>3, <1>4 DEF QueueInv, ReleaseTyped, TypeOK
<1>11. ConsumerInv' /\ ConsumerRoutes'
  BY <1>1, <1>2 DEF ConsumerInv, ConsumerRoutes
<1>12. PipelineRoutes'
  BY <1>1, <1>2, <1>3 DEF PipelineRoutes, Waiting, Switched, JobIsCanary
<1> QED BY <1>6, <1>9, <1>10, <1>11, <1>12 DEF ReleaseInv

LEMMA IdleTyped ==
    ASSUME PipelineIdle
    PROVE  pipeline' \in PipelineStates /\ pipeline'.pc = "idle" /\ pipeline'.job = None /\ Job' = None
BY DEF PipelineIdle, PipelineStates, MaybeDeployment, Job

\* The worker is idle again: what is left is that the route is right, and that the job's flag is.
LEMMA JobEnds ==
    ASSUME ReleaseInv, ~Crossing', pipeline.pc # "idle", PipelineIdle, ReleaseTyped',
           UNCHANGED <<isCanary, baseline, upstreams, canary, deploys, actions, consumer>>,
           \A e \in Deployments : e # Job => stage'[e] = stage[e] /\ docker'[e] = docker[e],
           stage'[Job] \in {"ready", "failed"}, stage'[Job] = "ready" => stage[Job] = "ready" /\ ~JobIsCanary,
           stage'[Job] = "failed" => docker'[Job] # "running",
           active' = active \/ (~JobIsCanary /\ active' = Job), active' # None => stage'[active'] = "ready",
           Routed', canary = None /\ active' # None => docker'[active'] = "running"
    PROVE  ReleaseInv'
<1>1. /\ Job \in Deployments /\ InFlight(Job) /\ active \in MaybeDeployment /\ canary \in MaybeDeployment
      /\ ReleaseTyped /\ Stages /\ QueueInv /\ ConsumerInv /\ PipelineRoutes /\ ConsumerRoutes
  BY AtJob
<1>2. Job' = None /\ pipeline'.pc = "idle"
  BY IdleTyped
<1>3. \A e \in Deployments : InFlight(e)' => InFlight(e) /\ e # Job
  BY <1>2, TrafficAssumption DEF InFlight, Job, PipelineIdle
<1>4. isCanary[Job] <=> JobIsCanary
  BY <1>1 DEF Stages, JobIsCanary
<1>5. Stages'
  <2>1. canary # None => stage'[canary] = "ready" /\ isCanary[canary] /\ active' # None /\ canary # active'
    <3>1. ASSUME canary # None, canary = Job PROVE FALSE
      <4>1. stage[Job] = "ready" /\ JobIsCanary /\ pipeline.pc \in {"project", "stop", "stopped"}
        BY <1>1, <1>4, <3>1 DEF Stages
      <4>2. Releasing
        BY <4>1 DEF Releasing
      <4> QED BY <3>1, <4>1, <4>2, AtJob
    <3> QED BY <1>1, <3>1, TrafficAssumption DEF Stages, MaybeDeployment
  <2>2. \A e \in Deployments : isCanary[e] /\ stage'[e] = "ready" => canary = e
    BY <1>1, <1>4 DEF Stages
  <2>3. \A e \in Deployments : InFlight(e)' => (isCanary'[e] <=> baseline'[e] # None)
    BY <1>1, <1>3 DEF Stages
  <2>4. \A e \in Deployments : stage'[e] = "failed" => docker'[e] # "running"
    BY <1>1 DEF Stages
  <2> QED BY <1>1, <1>2, <2>1, <2>2, <2>3, <2>4 DEF Stages
<1>6. QueueInv'
  BY <1>1, <1>2, TrafficAssumption DEF QueueInv, ReleaseTyped, TypeOK
<1>7. ConsumerInv'
  <2>1. CASE consumer.pc = "idle"
    BY <1>1, <2>1 DEF ConsumerInv
  <2>2. CASE consumer.pc # "idle"
    <3>1. consumer.stable = active'
      BY <2>2 DEF Crossing
    <3> QED BY <1>1, <3>1 DEF ConsumerInv, Act
  <2> QED BY <2>1, <2>2
<1>8. ConsumerRoutes'
  <2>1. CASE consumer.pc = "idle"
    BY <2>1 DEF ConsumerRoutes
  <2>2. CASE consumer.pc # "idle"
    <3>1. Target \in Deployments /\ Target # Job
      BY <2>2, AtAction
    <3> QED BY <1>1, <3>1 DEF ConsumerRoutes, Target, Act
  <2> QED BY <2>1, <2>2
<1>9. PipelineRoutes'
  BY <1>2 DEF PipelineRoutes, Switched
<1> QED BY <1>5, <1>6, <1>7, <1>8, <1>9 DEF ReleaseInv

LEMMA MarkPreviousStoppedInv == ASSUME ReleaseInv, MarkPreviousStopped, ~Crossing' PROVE ReleaseInv'
<1>1. /\ pipeline.pc = "stopped" /\ PipelineIdle /\ row' = [row EXCEPT ![pipeline.previous] = "stopped"]
      /\ UNCHANGED <<stage, isCanary, baseline, docker, upstreams, wakeOf, active, canary, deploys, actions, consumer>>
  BY DEF MarkPreviousStopped, machine, route, project, queues
<1>2. /\ Job \in Deployments /\ ReleaseTyped /\ Stages /\ PipelineRoutes
  BY <1>1, AtJob
<1>3. docker[Job] = "running" /\ upstreams = {Job} /\ active = Job /\ ~JobIsCanary /\ stage[Job] = "ready"
  BY <1>1, <1>2 DEF PipelineRoutes, Switched, Stages
<1>4. ReleaseTyped'
  BY <1>1, <1>2, IdleTyped DEF ReleaseTyped, TypeOK, PipelineStates
<1>5. Routed'
  BY <1>1, <1>2, <1>3, TrafficAssumption DEF Routed, KeptRoute, SharedRoute
<1> QED BY <1>1, <1>2, <1>3, <1>4, <1>5, JobEnds

LEMMA CatchFailureInv == ASSUME ReleaseInv, CatchFailure, ~Crossing' PROVE ReleaseInv'
<1>1. /\ pipeline.pc = "catch" /\ PipelineIdle /\ stage' = [stage EXCEPT ![Job] = "failed"]
      /\ docker' = [docker EXCEPT ![Job] = IF @ = "running" THEN "exited" ELSE @]
      /\ UNCHANGED <<isCanary, row, baseline, upstreams, wakeOf, active, canary, deploys, actions, consumer>>
  BY DEF CatchFailure, route, project, queues
<1>2. /\ Job \in Deployments /\ ReleaseTyped /\ Stages /\ PipelineRoutes /\ active \in MaybeDeployment
      /\ canary \in MaybeDeployment /\ upstreams \subseteq Deployments /\ stage[Job] = "queued"
  BY <1>1, AtJob DEF ReleaseTyped, TypeOK, Stages
<1>3. /\ stage'[Job] = "failed" /\ \A e \in Deployments : e # Job => stage'[e] = stage[e] /\ docker'[e] = docker[e]
      /\ docker'[Job] # "running"
      /\ stage' \in [Deployments -> {"none", "queued", "ready", "failed", "rolled_back"}]
      /\ docker' \in [Deployments -> {"none", "running", "exited"}]
  BY <1>1, <1>2 DEF ReleaseTyped, TypeOK
<1>4. ReleaseTyped'
  BY <1>1, <1>2, <1>3, IdleTyped DEF ReleaseTyped, TypeOK, PipelineStates
<1>5. Routed /\ Job # active /\ (canary # None => Job # canary)
  BY <1>1, <1>2 DEF PipelineRoutes, Waiting, Stages
<1>6. Routed'
  <2>1. LostRoute => LostRoute'
    BY <1>1, <1>2, <1>3 DEF LostRoute
  <2>2. KeptRoute => KeptRoute'
    BY <1>1, <1>2, <1>3 DEF KeptRoute
  <2>3. canary # None /\ SharedRoute => SharedRoute'
    BY <1>1, <1>2, <1>3, <1>5 DEF SharedRoute
  <2> QED BY <1>1, <1>5, <2>1, <2>2, <2>3 DEF Routed
<1>7. active # None => stage'[active] = "ready" /\ docker'[active] = docker[active]
  BY <1>2, <1>3, <1>5 DEF Stages, MaybeDeployment
<1>8. canary = None /\ active' # None => docker'[active'] = "running"
  BY <1>1, <1>2, <1>7 DEF PipelineRoutes
<1> QED BY <1>1, <1>2, <1>3, <1>4, <1>6, <1>7, <1>8, JobEnds

LEMMA SetProjectInv == ASSUME ReleaseInv, SetProject, ~Crossing' PROVE ReleaseInv'
<1>1. /\ pipeline.pc = "project" /\ Releasing /\ consumer.pc = "idle"
      /\ UNCHANGED <<stage, isCanary, row, baseline, docker, upstreams, wakeOf, deploys, actions, consumer>>
  BY WorkerAlone DEF SetProject, records, machine, route, queues, Releasing
<1>2. /\ Job \in Deployments /\ pipeline \in PipelineStates /\ InFlight(Job) /\ canary \in MaybeDeployment
      /\ ReleaseTyped /\ Stages /\ QueueInv /\ ConsumerInv /\ PipelineRoutes /\ ConsumerRoutes
  BY <1>1, AtJob
<1>3. docker[Job] = "running" /\ stage[Job] = "ready" /\ Job # active /\ pipeline.previous # Job
  BY <1>1, <1>2 DEF PipelineRoutes, Switched, Stages
<1>4. CASE JobIsCanary
  <2>1. canary' = Job /\ active' = active /\ PipelineIdle
    BY <1>4 DEF SetProject
  <2>2. active \in Deployments /\ canary = None /\ upstreams = {active, Job} /\ isCanary[Job]
    BY <1>1, <1>2, <1>4, AtJob DEF PipelineRoutes, Switched, Stages, JobIsCanary
  <2>3. \A e \in Deployments : InFlight(e)' => InFlight(e)
    BY <1>1, <2>1, IdleTyped, TrafficAssumption DEF InFlight
  <2>4. ReleaseTyped'
    BY <1>1, <1>2, <2>1, IdleTyped DEF ReleaseTyped, TypeOK, PipelineStates, MaybeDeployment
  <2>5. Stages'
    BY <1>1, <1>2, <1>3, <2>1, <2>2, <2>3, IdleTyped, TrafficAssumption DEF Stages
  <2>6. QueueInv'
    BY <1>1, <1>2, <2>1, IdleTyped, TrafficAssumption DEF QueueInv, ReleaseTyped, TypeOK
  <2>7. ConsumerInv' /\ ConsumerRoutes'
    BY <1>1, <1>2 DEF ConsumerInv, ConsumerRoutes
  <2>8. PipelineRoutes'
    BY <1>1, <1>2, <1>3, <2>1, <2>2, IdleTyped, TrafficAssumption DEF PipelineRoutes, Routed, SharedRoute, Switched
  <2> QED BY <2>4, <2>5, <2>6, <2>7, <2>8 DEF ReleaseInv
<1>5. CASE ~JobIsCanary
  <2>1. active' = Job /\ canary' = canary /\ upstreams = {Job}
    BY <1>1, <1>2, <1>5 DEF SetProject, PipelineRoutes, Switched
  <2>2. CASE PipelineIdle
    <3>1. ReleaseTyped'
      BY <1>1, <1>2, <2>1, <2>2, IdleTyped DEF ReleaseTyped, TypeOK, PipelineStates, MaybeDeployment
    <3>2. Routed'
      BY <1>1, <1>2, <1>3, <2>1, TrafficAssumption DEF Routed, KeptRoute, SharedRoute
    <3> QED BY <1>1, <1>2, <1>3, <1>5, <2>1, <2>2, <3>1, <3>2, JobEnds
  <2>3. CASE pipeline.previous # None /\ Goto("stop")
    <3>1. /\ pipeline' \in PipelineStates /\ pipeline'.job = pipeline.job /\ pipeline'.previous = pipeline.previous
          /\ pipeline'.pc = "stop" /\ Job' = Job
      BY <1>2, <2>3, GotoFacts DEF Goto, PipelineStates, Job
    <3>2. ReleaseTyped'
      <4>1. pipeline'.pc # "idle" /\ pipeline'.job # None
        BY <1>1, <1>2, <3>1 DEF ReleaseTyped
      <4> QED BY <1>1, <1>2, <2>1, <3>1, <4>1 DEF ReleaseTyped, TypeOK, PipelineStates, MaybeDeployment
    <3>3. \A e \in Deployments : InFlight(e)' <=> InFlight(e)
      BY <1>1, <3>1 DEF InFlight
    <3>4. Stages'
      <4>1. ~isCanary[Job]
        BY <1>2, <1>5 DEF Stages, JobIsCanary
      <4>2. canary # None => canary # Job
        BY <1>2, <4>1 DEF Stages
      <4> QED BY <1>1, <1>2, <1>3, <2>1, <3>1, <3>3, <4>1, <4>2, TrafficAssumption DEF Stages
    <3>5. QueueInv' /\ ConsumerInv' /\ ConsumerRoutes'
      BY <1>1, <1>2, <2>1, <3>1 DEF QueueInv, ConsumerInv, ConsumerRoutes
    <3>6. PipelineRoutes'
      BY <1>1, <1>2, <1>3, <1>5, <2>1, <2>3, <3>1 DEF PipelineRoutes, Waiting, Switched, JobIsCanary, PipelineStates, MaybeDeployment
    <3> QED BY <3>2, <3>4, <3>5, <3>6 DEF ReleaseInv
  <2> QED BY <2>2, <2>3, <1>5 DEF SetProject
<1> QED BY <1>4, <1>5

LEMMA PipelineStepInv == ASSUME ReleaseInv, PipelineStep, ~Crossing' PROVE ReleaseInv'
BY TakeJobInv, RunContainerInv, ConfigureRouteInv, VerifyRouteInv, CreateRowInv, FindPreviousInv, MarkReadyInv,
   SetProjectInv, StopPreviousInv, MarkPreviousStoppedInv, CatchFailureInv DEF PipelineStep

-----------------------------------------------------------------------------
(* The canary consumer *)

LEMMA ProceedFacts ==
    ASSUME consumer \in ConsumerStates, NEW pc \in {"route", "verify", "stop", "commit"}, Proceed(pc)
    PROVE  /\ consumer' \in ConsumerStates /\ consumer'.pc = pc /\ consumer'.action = consumer.action
           /\ consumer'.stable = consumer.stable /\ Act' = Act /\ Target' = Target
BY DEF Proceed, ConsumerStates, Act, Target

LEMMA RestsTyped == ASSUME ConsumerIdle PROVE consumer' \in ConsumerStates /\ consumer'.pc = "idle"
BY DEF ConsumerIdle, ConsumerStates, MaybeDeployment

\* A step of the consumer that leaves the records of the project as they are.
LEMMA ActionGoesOn ==
    ASSUME ReleaseInv, ~Crossing', UNCHANGED <<stage, isCanary, row, baseline, active, canary, deploys, pipeline>>,
           actions' = actions \/ (actions # <<>> /\ actions' = Tail(actions)), consumer' \in ConsumerStates,
           docker' \in [Deployments -> {"none", "running", "exited"}], upstreams' \subseteq Deployments,
           wakeOf' \in MaybeDeployment,
           \/ UNCHANGED <<docker, upstreams>>
           \/ consumer.pc # "idle" /\ SharedRoute' /\ \A e \in Deployments : docker'[e] = "running" => docker[e] = "running",
           consumer'.pc # "idle" => Act' \in Action /\ canary = Act'.canary,
           consumer'.pc \in {"stop", "commit"} => Act'.type # "set_percent",
           ConsumerRoutes'
    PROVE  ReleaseInv'
<1>1. ReleaseTyped /\ Stages /\ QueueInv /\ ConsumerInv /\ PipelineRoutes /\ ConsumerRoutes
  BY DEF ReleaseInv
<1>2. Job' = Job /\ \A e \in Deployments : InFlight(e)' <=> InFlight(e)
  BY DEF Job, InFlight
<1>3. actions' \in Seq(Action)
  <2>1. actions \in Seq(Action)
    BY <1>1 DEF ReleaseTyped, TypeOK
  <2>2. actions # <<>> => Tail(actions) \in Seq(Action)
    BY ONLY <2>1
  <2> QED BY <2>1, <2>2
<1>4. ReleaseTyped'
  BY <1>1, <1>3 DEF ReleaseTyped, TypeOK, ConsumerStates
<1>5. Stages' /\ QueueInv'
  <2>1. \A e \in Deployments : stage[e] = "failed" => docker'[e] # "running"
    BY <1>1 DEF Stages
  <2> QED BY <1>1, <1>2, <2>1 DEF Stages, QueueInv
<1>6. ConsumerInv'
  BY DEF ConsumerInv, Crossing
<1>7. PipelineRoutes'
  <2>1. CASE UNCHANGED <<docker, upstreams>>
    BY <1>1, <1>2, <2>1 DEF PipelineRoutes, Routed, LostRoute, KeptRoute, SharedRoute, JobIsCanary
  <2>2. CASE consumer.pc # "idle" /\ SharedRoute'
    <3>1. canary # None /\ pipeline.pc \in {"idle", "run", "catch"}
      BY <2>2, AtAction
    <3> QED BY <1>1, <1>2, <2>2, <3>1 DEF PipelineRoutes, Routed, Switched
  <2> QED BY <2>1, <2>2
<1> QED BY <1>4, <1>5, <1>6, <1>7 DEF ReleaseInv

\* An action that names a stable deployment of before is one that crosses another release.
LEMMA TakeActionInv == ASSUME ReleaseInv, TakeAction, ~Crossing' PROVE ReleaseInv'
<1>1. /\ consumer.pc = "idle" /\ actions # <<>> /\ actions' = Tail(actions)
      /\ UNCHANGED <<stage, isCanary, row, baseline, docker, upstreams, wakeOf, active, canary, deploys, pipeline>>
  BY DEF TakeAction, records, machine, route, project
<1>2. /\ ReleaseTyped /\ actions \in Seq(Action) /\ active \in MaybeDeployment
      /\ docker' \in [Deployments -> {"none", "running", "exited"}] /\ upstreams' \subseteq Deployments
      /\ wakeOf' \in MaybeDeployment
  BY <1>1 DEF ReleaseInv, ReleaseTyped, TypeOK
<1>3. PICK a \in Action : a = Head(actions)
  BY <1>1, <1>2
<1>4. CASE ConsumerIdle
  <2>1. consumer' \in ConsumerStates /\ consumer'.pc = "idle"
    BY <1>4, RestsTyped
  <2>2. ConsumerRoutes'
    BY <2>1 DEF ConsumerRoutes
  <2> QED BY <1>1, <1>2, <2>1, <2>2, ActionGoesOn
<1>5. ASSUME NEW s \in MaybeDeployment, CanaryAccepts(a),
             consumer' = [pc |-> "assert", action |-> a, stable |-> s]
      PROVE  ReleaseInv'
  <2>1. canary = a.canary
    BY <1>5 DEF CanaryAccepts, IsActiveCanary
  <2>2. consumer' \in ConsumerStates /\ consumer'.pc = "assert" /\ Act' = a
    BY <1>5 DEF ConsumerStates, Act
  <2>3. ConsumerRoutes'
    BY <2>2 DEF ConsumerRoutes
  <2> QED BY <1>1, <1>2, <2>1, <2>2, <2>3, ActionGoesOn
<1>6. (IF a.stable # None THEN a.stable ELSE active) \in MaybeDeployment
  BY <1>2, <1>3 DEF Action
<1> QED BY <1>3, <1>4, <1>5, <1>6 DEF TakeAction

\* The steps of the consumer that move nothing: an assertion, a check of the route, an error.
LEMMA CheckInv == ASSUME ReleaseInv, AssertStable \/ VerifyApplied \/ CommitThrows, ~Crossing' PROVE ReleaseInv'
<1>1. /\ consumer.pc \in {"assert", "verify", "commit"}
      /\ UNCHANGED <<stage, isCanary, row, baseline, docker, upstreams, wakeOf, active, canary, deploys, pipeline, actions>>
  BY DEF AssertStable, VerifyApplied, CommitThrows, records, machine, route, project, queues
<1>2. consumer \in ConsumerStates /\ ReleaseTyped /\ ConsumerRoutes /\ Act \in Action /\ canary = Act.canary
  BY <1>1, AtAction
<1>3. \/ ConsumerIdle \/ (consumer.pc = "assert" /\ Proceed("route"))
      \/ (consumer.pc = "verify" /\ Act.type # "set_percent" /\ Proceed("stop"))
  BY DEF AssertStable, VerifyApplied, CommitThrows
<1>4. \/ consumer'.pc \in {"idle", "route"}
      \/ consumer.pc = "verify" /\ Act.type # "set_percent" /\ consumer'.pc = "stop"
  BY <1>2, <1>3, RestsTyped, ProceedFacts
<1>5. consumer' \in ConsumerStates /\ (consumer'.pc # "idle" => Act' = Act /\ Target' = Target)
  BY <1>2, <1>3, RestsTyped, ProceedFacts
<1>6. ConsumerRoutes'
  BY <1>1, <1>2, <1>4, <1>5 DEF ConsumerRoutes
<1>7. /\ docker' \in [Deployments -> {"none", "running", "exited"}] /\ upstreams' \subseteq Deployments
      /\ wakeOf' \in MaybeDeployment
  BY <1>1, <1>2 DEF ReleaseTyped, TypeOK
<1> QED BY <1>1, <1>2, <1>4, <1>5, <1>6, <1>7, ActionGoesOn

LEMMA ApplyRouteInv == ASSUME ReleaseInv, ApplyRoute, ~Crossing' PROVE ReleaseInv'
<1>1. /\ consumer.pc = "route"
      /\ UNCHANGED <<stage, isCanary, row, baseline, docker, active, canary, deploys, pipeline, actions>>
  BY DEF ApplyRoute, records, project, queues
<1>2. /\ consumer \in ConsumerStates /\ ReleaseTyped /\ ConsumerRoutes /\ Act \in Action /\ canary = Act.canary
      /\ consumer.stable = active /\ canary \in Deployments /\ active \in Deployments /\ Target \in {active, canary}
  BY <1>1, AtAction
<1>3. docker' \in [Deployments -> {"none", "running", "exited"}]
  BY <1>1, <1>2 DEF ReleaseTyped, TypeOK
<1>4. CASE /\ Reachable(Target) /\ wakeOf' = Target /\ Proceed("verify")
           /\ upstreams' = IF Act.type = "set_percent" THEN {consumer.stable, Target} ELSE {Target}
  <2>1. consumer' \in ConsumerStates /\ consumer'.pc = "verify" /\ Act' = Act /\ Target' = Target
    BY <1>2, <1>4, ProceedFacts
  <2>2. docker'[Target] = "running" /\ Target \in upstreams' /\ upstreams' \subseteq {active, canary}
    BY <1>1, <1>2, <1>4 DEF Reachable
  <2>3. ConsumerRoutes' /\ SharedRoute'
    BY <1>1, <1>4, <2>1, <2>2 DEF ConsumerRoutes, SharedRoute
  <2>4. upstreams' \subseteq Deployments /\ wakeOf' \in MaybeDeployment
    BY <1>2, <1>4, <2>2 DEF MaybeDeployment
  <2> QED BY <1>1, <1>2, <1>3, <2>1, <2>3, <2>4, ActionGoesOn
<1>5. CASE UNCHANGED route /\ ConsumerIdle
  <2>1. consumer' \in ConsumerStates /\ consumer'.pc = "idle" /\ UNCHANGED <<upstreams, wakeOf>>
    BY <1>5, RestsTyped DEF route
  <2>2. ConsumerRoutes'
    BY <2>1 DEF ConsumerRoutes
  <2>3. upstreams' \subseteq Deployments /\ wakeOf' \in MaybeDeployment
    BY <1>2, <2>1 DEF ReleaseTyped, TypeOK
  <2> QED BY <1>1, <1>3, <2>1, <2>2, <2>3, ActionGoesOn
<1> QED BY <1>4, <1>5 DEF ApplyRoute

LEMMA StopLoserInv == ASSUME ReleaseInv, StopLoser, ~Crossing' PROVE ReleaseInv'
<1>1. /\ consumer.pc = "stop" /\ Proceed("commit")
      /\ docker' = [docker EXCEPT ![Loser] = "exited"] \/ docker' = docker
      /\ UNCHANGED <<stage, isCanary, row, baseline, upstreams, wakeOf, active, canary, deploys, pipeline, actions>>
  BY DEF StopLoser, records, route, project, queues
<1>2. /\ consumer \in ConsumerStates /\ ReleaseTyped /\ ConsumerInv /\ ConsumerRoutes /\ Act \in Action
      /\ canary = Act.canary /\ canary \in Deployments /\ active \in Deployments
      /\ Target \in {active, canary} /\ Loser \in {active, canary} /\ Target # Loser
  BY <1>1, AtAction
<1>3. consumer' \in ConsumerStates /\ consumer'.pc = "commit" /\ Act' = Act /\ Target' = Target
  BY <1>1, <1>2, ProceedFacts
<1>4. /\ docker' \in [Deployments -> {"none", "running", "exited"}] /\ docker'[Target] = docker[Target]
      /\ \A e \in Deployments : docker'[e] = "running" => docker[e] = "running"
  BY <1>1, <1>2 DEF ReleaseTyped, TypeOK
<1>5. Act.type # "set_percent" /\ docker[Target] = "running" /\ upstreams = {Target}
  BY <1>1, <1>2 DEF ConsumerInv, ConsumerRoutes
<1>6. ConsumerRoutes' /\ SharedRoute'
  BY <1>1, <1>2, <1>3, <1>4, <1>5 DEF ConsumerRoutes, SharedRoute
<1>7. upstreams' \subseteq Deployments /\ wakeOf' \in MaybeDeployment
  BY <1>1, <1>2 DEF ReleaseTyped, TypeOK
<1> QED BY <1>1, <1>2, <1>3, <1>4, <1>5, <1>6, <1>7, ActionGoesOn

\* The records follow the route: whom traffic has moved to is active, and there is no canary.
LEMMA CommitInv == ASSUME ReleaseInv, Commit, ~Crossing' PROVE ReleaseInv'
<1>1. /\ consumer.pc = "commit" /\ ConsumerIdle /\ canary' = None
      /\ row' = [row EXCEPT ![Loser] = "stopped"]
      /\ UNCHANGED <<baseline, docker, upstreams, wakeOf, deploys, pipeline, actions>>
  BY DEF Commit, Cleared, machine, route, queues
<1>2. /\ Act \in Action /\ canary = Act.canary /\ canary \in Deployments /\ consumer.stable = active
      /\ active \in Deployments /\ active # canary /\ canary # None /\ pipeline.pc \in {"idle", "run", "catch"}
      /\ Target \in {active, canary} /\ Loser \in {active, canary} /\ Target # Loser
      /\ ReleaseTyped /\ Stages /\ QueueInv /\ ConsumerInv /\ PipelineRoutes /\ ConsumerRoutes
      /\ Job \notin {active, canary} /\ ~InFlight(canary)
  BY <1>1, AtAction
<1>4. docker[Target] = "running" /\ upstreams = {Target} /\ stage[canary] = "ready" /\ stage[active] = "ready"
  BY <1>1, <1>2, TrafficAssumption DEF ConsumerInv, ConsumerRoutes, Stages
<1>5. \/ /\ Act.type = "promote" /\ active' = canary /\ Target = canary /\ stage' = stage
         /\ isCanary' = [isCanary EXCEPT ![canary] = FALSE]
      \/ /\ Act.type # "promote" /\ active' = active /\ Target = active /\ isCanary' = isCanary
         /\ stage' = [stage EXCEPT ![canary] = "rolled_back"]
  BY <1>1, <1>2 DEF Commit, PromoteRecords, AbortRecords, Target, ConsumerInv, Action
<1>6. /\ active' = Target /\ stage'[active'] = "ready" /\ active' \in Deployments
      /\ stage' \in [Deployments -> {"none", "queued", "ready", "failed", "rolled_back"}]
      /\ isCanary' \in [Deployments -> BOOLEAN]
      /\ \A e \in Deployments : e # canary => stage'[e] = stage[e] /\ isCanary'[e] = isCanary[e]
      /\ ~(isCanary'[canary] /\ stage'[canary] = "ready") /\ stage'[canary] \in {"ready", "rolled_back"}
  <2>1. CASE /\ Act.type = "promote" /\ active' = canary /\ Target = canary /\ stage' = stage
             /\ isCanary' = [isCanary EXCEPT ![canary] = FALSE]
    <3>1. isCanary' \in [Deployments -> BOOLEAN] /\ ~isCanary'[canary]
      BY <1>2, <2>1 DEF ReleaseTyped, TypeOK
    <3>2. \A e \in Deployments : e # canary => isCanary'[e] = isCanary[e]
      BY <1>2, <2>1 DEF ReleaseTyped, TypeOK
    <3>3. stage' \in [Deployments -> {"none", "queued", "ready", "failed", "rolled_back"}]
      BY <1>2, <2>1 DEF ReleaseTyped, TypeOK
    <3> QED BY <1>2, <1>4, <2>1, <3>1, <3>2, <3>3
  <2>2. CASE /\ Act.type # "promote" /\ active' = active /\ Target = active /\ isCanary' = isCanary
             /\ stage' = [stage EXCEPT ![canary] = "rolled_back"]
    <3>1. /\ stage' \in [Deployments -> {"none", "queued", "ready", "failed", "rolled_back"}]
          /\ stage'[canary] = "rolled_back" /\ \A e \in Deployments : e # canary => stage'[e] = stage[e]
      BY <1>2, <2>2 DEF ReleaseTyped, TypeOK
    <3>2. isCanary' \in [Deployments -> BOOLEAN]
      BY <1>2, <2>2 DEF ReleaseTyped, TypeOK
    <3> QED BY <1>2, <1>4, <2>2, <3>1, <3>2
  <2> QED BY <1>5, <2>1, <2>2
<1>7. ReleaseTyped'
  <2>1. row' \in [Deployments -> {"none", "running", "stopped", "crashed"}]
    BY <1>1, <1>2 DEF ReleaseTyped, TypeOK
  <2> QED BY <1>1, <1>2, <1>6, <2>1, RestsTyped DEF ReleaseTyped, TypeOK, ConsumerStates, MaybeDeployment
<1>8. \A e \in Deployments : InFlight(e)' => InFlight(e) /\ e # canary
  BY <1>1, <1>2, <1>6 DEF InFlight, Job
<1>9. Job' = Job /\ (pipeline.pc # "idle" => Job \in Deployments /\ stage'[Job] = stage[Job] /\ Job # active')
  BY <1>1, <1>2, <1>6, AtJob DEF Job
<1>10. Stages'
  <2>1. \A e \in Deployments : ~(isCanary'[e] /\ stage'[e] = "ready")
    BY <1>2, <1>6 DEF Stages
  <2>2. \A e \in Deployments : stage'[e] = "failed" => docker'[e] # "running"
    BY <1>1, <1>2, <1>6 DEF Stages
  <2>3. \A e \in Deployments : InFlight(e)' => (isCanary'[e] <=> baseline'[e] # None)
    BY <1>1, <1>2, <1>6, <1>8 DEF Stages
  <2> QED BY <1>1, <1>2, <1>6, <1>9, <2>1, <2>2, <2>3 DEF Stages
<1>11. QueueInv'
  <2>1. \A i \in 1 .. Len(deploys) : deploys[i] # canary /\ deploys[i] \in Deployments
    BY <1>2, <1>4 DEF QueueInv, ReleaseTyped, TypeOK
  <2> QED BY <1>1, <1>2, <1>6, <1>9, <2>1 DEF QueueInv
<1>12. ConsumerInv' /\ ConsumerRoutes'
  BY <1>1, RestsTyped DEF ConsumerInv, ConsumerRoutes
<1>13. PipelineRoutes'
  <2>1. Routed'
    BY <1>1, <1>4, <1>6, TrafficAssumption DEF Routed, KeptRoute
  <2> QED BY <1>1, <1>2, <1>4, <1>6, <1>9, <2>1 DEF PipelineRoutes, Switched
<1> QED BY <1>7, <1>10, <1>11, <1>12, <1>13 DEF ReleaseInv

\* Until two releases have crossed.
Uncrossed == crossed \/ ReleaseInv

LEMMA ReleaseNextInv == Uncrossed /\ [ReleaseNext]_releaseVars => Uncrossed'
<1> SUFFICES ASSUME Uncrossed, [ReleaseNext]_releaseVars, ~crossed' PROVE ReleaseInv'
  BY DEF Uncrossed
<1>1. CASE ReleaseNext
  <2>1. ReleaseInv /\ ~Crossing' /\ Next
    BY <1>1 DEF ReleaseNext, Uncrossed
  <2>2. CASE ConsumerStep
    BY <2>1, <2>2, TakeActionInv, CheckInv, ApplyRouteInv, StopLoserInv, CommitInv DEF ConsumerStep
  <2> QED BY <2>1, <2>2, RequestsInv, PipelineStepInv DEF Next
<1>2. CASE UNCHANGED releaseVars
  <2>1. ReleaseInv /\ UNCHANGED vars
    BY <1>2 DEF releaseVars, Uncrossed
  <2>2. ReleaseTyped' /\ QueueInv' /\ ConsumerInv'
    BY <2>1 DEF vars, ReleaseInv, ReleaseTyped, TypeOK, QueueInv, ConsumerInv, Job, Act
  <2>3. Stages' /\ ~Crossing'
    BY <2>1 DEF vars, ReleaseInv, Stages, InFlight, Job, Crossing, Releasing, JobIsCanary
  <2>4. PipelineRoutes' /\ ConsumerRoutes'
    BY <2>1 DEF vars, ReleaseInv, PipelineRoutes, ConsumerRoutes, Routed, LostRoute, KeptRoute, SharedRoute, Job,
                JobIsCanary, Target, Act
  <2> QED BY <2>2, <2>3, <2>4 DEF ReleaseInv
<1> QED BY <1>1, <1>2

LEMMA Releases == Spec => []Uncrossed
BY ReleaseInitInv, ReleaseNextInv, PTL DEF Spec, Uncrossed

\* Whatever users ask for and whichever await fails, and for any number of deployments: some
\* container behind the route runs, as long as no worker has been at work on what another one has
\* changed and the route is not that of a failed deployment.  An action may stop at any point and
\* leave its rest undone (canary-release-service.ts, deployment-pipeline.ts).
THEOREM SiteStaysServed == Spec => []SiteServed
<1>1. Uncrossed => SiteServed
  <2> SUFFICES ASSUME ReleaseInv, upstreams # {}, ~Abandoned PROVE \E d \in upstreams : docker[d] = "running"
    BY DEF SiteServed, Serving, Uncrossed
  <2>1. PipelineRoutes /\ ReleaseTyped /\ pipeline \in PipelineStates
    BY DEF ReleaseInv, ReleaseTyped, TypeOK, PipelineStates
  <2>2. CASE pipeline.pc \in Waiting
    <3>1. Routed
      BY <2>1, <2>2 DEF PipelineRoutes
    <3>2. CASE LostRoute
      BY <3>2 DEF LostRoute, Abandoned
    <3>3. CASE canary = None /\ KeptRoute
      BY <2>1, <3>3 DEF PipelineRoutes, KeptRoute
    <3>4. CASE canary # None /\ SharedRoute
      BY <3>4 DEF SharedRoute
    <3> QED BY <3>1, <3>2, <3>3, <3>4 DEF Routed
  <2>3. CASE pipeline.pc \in Switched
    BY <2>1, <2>3 DEF PipelineRoutes
  <2> QED BY <2>1, <2>2, <2>3 DEF PipelineStates, Waiting, Switched
<1> QED BY <1>1, Releases, PTL

\* And whenever worker and consumer rest, traffic reaches what the project's records say, also after
\* a promote or an abort that broke off between the route and the records.
THEOREM TrafficIsTheProjects == Spec => []TrafficFollowsProject
<1>1. Uncrossed => TrafficFollowsProject
  <2> SUFFICES ASSUME ReleaseInv, Quiet
               PROVE  /\ Serving \subseteq {active, canary}
                      /\ (canary = None /\ upstreams # {} /\ ~Abandoned) => Serving = {active}
    BY DEF TrafficFollowsProject, Uncrossed
  <2>1. PipelineRoutes /\ Stages /\ Job = None /\ pipeline.pc = "idle" /\ upstreams \subseteq Deployments
    BY DEF ReleaseInv, ReleaseTyped, TypeOK, Quiet, Job
  <2>2. Routed
    BY <2>1 DEF PipelineRoutes, Waiting
  <2>3. CASE LostRoute
    BY <2>1, <2>3 DEF LostRoute, Abandoned, Serving, Stages
  <2>4. CASE canary = None /\ KeptRoute
    BY <2>1, <2>4, TrafficAssumption DEF KeptRoute, Serving, PipelineRoutes
  <2>5. CASE canary # None /\ SharedRoute
    BY <2>5 DEF SharedRoute, Serving
  <2> QED BY <2>2, <2>3, <2>4, <2>5 DEF Routed
<1> QED BY <1>1, Releases, PTL

\* And a deployment that is ready and flagged a canary is the one the project points to, so that no
\* canary is left behind that can be neither promoted nor aborted.
THEOREM CanariesStayReachable == Spec => []CanaryReachable
<1>1. Uncrossed => CanaryReachable
  BY TrafficAssumption DEF ReleaseInv, Stages, CanaryReachable, Quiet, Uncrossed
<1> QED BY <1>1, Releases, PTL
=============================================================================
