------------------------------ MODULE EdgeRoutes ------------------------------
(***************************************************************************)
(* One Nginx host for all projects: a configuration file and a certificate  *)
(* for each project, a test and a reload that read every file, and workers  *)
(* that write them.  A deployment serves HTTP first, gets a certificate for *)
(* the names it read, and serves TLS; a change of a canary's traffic        *)
(* rewrites the TLS file alone.                                             *)
(***************************************************************************)
EXTENDS CustomDomains

CONSTANTS Workers, NoCert

VARIABLES
    file,       \* the file of each project in NGINX_SITES_PATH
    loaded,     \* the routes Nginx serves
    cert,       \* the custom domains each project's certificate names
    twins,      \* two projects' names are cut to the same upstream name
    workers,    \* what each worker of the engine is at
    raced       \* ghost: projects on which two workers were at once

\* A certificate that is not there is no set of names.
ASSUME NoCertAssumption == \A names \in SUBSET Domains : names # NoCert

edgeVars == <<file, loaded, cert, twins, workers, raced>>
edgeAllVars == <<domainVars, edgeVars>>

NoRoute == [kind |-> "none", aliases |-> {}, names |-> {}]
Route(kind, aliases) == [kind |-> kind, aliases |-> aliases, names |-> {}]
Resting == [at |-> "rest", project |-> NoProject, aliases |-> {}]

Project(w) == workers[w].project
WorkerAt(w, at) == workers[w].at = at
Move(w, at) == workers' = [workers EXCEPT ![w].at = at]
Leave(w) == workers' = [workers EXCEPT ![w] = Resting]

EdgeInit ==
    /\ DomainsInit
    /\ file = [p \in Projects |-> NoRoute]
    /\ loaded = [p \in Projects |-> NoRoute]
    /\ cert = [p \in Projects |-> NoCert]
    /\ twins \in BOOLEAN
    /\ workers = [w \in Workers |-> Resting]
    /\ raced = {}

\* nginx -t reads every file: an upstream defined twice and a missing certificate are errors.
CertificatesExist == \A p \in Projects : file[p].kind = "tls" => cert[p] # NoCert
Valid ==
    /\ CertificatesExist
    /\ twins => Cardinality({p \in Projects : file[p] # NoRoute}) < 2

-----------------------------------------------------------------------------
(* A deployment *)

\* A deployment asked for by a member, a push or a rollback.
RequestDeployment(p) ==
    /\ QueueChange(p)
    /\ UNCHANGED <<rows, calls, live, proven, edgeVars>>

\* The worker reads the active domains once, before the build.
TakeOn(w, p, at) ==
    /\ WorkerAt(w, "rest")
    /\ workers' = [workers EXCEPT ![w] =
         [at |-> at, project |-> p, aliases |-> ActiveDomains(p)]]
    /\ raced' = IF \E v \in Workers : Project(v) = p THEN raced \cup {p} ELSE raced
    /\ UNCHANGED <<rows, calls, live, behind, proven, file, loaded, cert, twins>>

LoadDeployment(w, p) ==
    /\ queued[p] > 0
    /\ queued' = [queued EXCEPT ![p] = @ - 1]
    /\ TakeOn(w, p, "http")

\* promote, abort or a new weight of a canary of a live project.
LoadCanary(w, p) ==
    /\ p \in live
    /\ TakeOn(w, p, "tls")
    /\ UNCHANGED queued

WriteFile(w, kind, next) ==
    /\ WorkerAt(w, kind)
    /\ file' = [file EXCEPT ![Project(w)] = Route(kind, workers[w].aliases)]
    /\ Move(w, next)
    /\ UNCHANGED <<domainVars, loaded, cert, twins, raced>>

ConfigureProjectProxy(w) == WriteFile(w, "http", "reloadHttp")
ConfigureProjectProxyWithTls(w) == WriteFile(w, "tls", "reloadTls")

\* A bug to be caught: the TLS file is written before the certificate is there.
ReloadMutant(w) ==
    /\ workers[w].at \in {"reloadHttp", "reloadTls"}
    /\ Valid
    /\ loaded' = [p \in Projects |->
         IF file[p].kind = "tls" THEN [file[p] EXCEPT !.names = cert[p]] ELSE file[p]]
    /\ Move(w, IF WorkerAt(w, "reloadHttp") THEN "tls" ELSE "probe")
    /\ UNCHANGED <<domainVars, file, cert, twins, raced>>

\* nginx -t and the reload; Nginx reads the certificates of the routes it serves.
Reload(w) ==
    /\ workers[w].at \in {"reloadHttp", "reloadTls"}
    /\ Valid
    /\ loaded' = [p \in Projects |->
         IF file[p].kind = "tls" THEN [file[p] EXCEPT !.names = cert[p]] ELSE file[p]]
    /\ Move(w, IF WorkerAt(w, "reloadHttp") THEN "certify" ELSE "probe")
    /\ UNCHANGED <<domainVars, file, cert, twins, raced>>

\* withRetry writes the file and tests again.
ReloadRefused(w) ==
    /\ workers[w].at \in {"reloadHttp", "reloadTls"}
    /\ ~Valid
    /\ Move(w, IF WorkerAt(w, "reloadHttp") THEN "http" ELSE "tls")
    /\ UNCHANGED <<domainVars, file, loaded, cert, twins, raced>>

\* A bug to be caught: the certificate is asked for the project's own name alone.
EnsureCertificateMutant(w) ==
    /\ WorkerAt(w, "certify")
    /\ cert' = [cert EXCEPT ![Project(w)] = {}]
    /\ Move(w, "tls")
    /\ UNCHANGED <<domainVars, file, loaded, twins, raced>>

EnsureCertificate(w) ==
    /\ WorkerAt(w, "certify")
    /\ cert' = [cert EXCEPT ![Project(w)] = workers[w].aliases]
    /\ Move(w, "tls")
    /\ UNCHANGED <<domainVars, file, loaded, twins, raced>>

\* waitForRouteReady over HTTPS; the deployment is then the active one.
RouteReady(w) ==
    /\ WorkerAt(w, "probe")
    /\ loaded[Project(w)].kind = "tls"
    /\ live' = live \cup {Project(w)}
    /\ Leave(w)
    /\ UNCHANGED <<rows, calls, queued, behind, proven>>
    /\ UNCHANGED <<file, loaded, cert, twins, raced>>

\* A call fails for good, or the engine dies: what was written stays.
WorkerFails(w) ==
    /\ workers[w].at # "rest"
    /\ Leave(w)
    /\ behind' = behind \cup {Project(w)}
    /\ UNCHANGED <<rows, calls, queued, live, proven>>
    /\ UNCHANGED <<file, loaded, cert, twins, raced>>

-----------------------------------------------------------------------------
Domain(d) ==
    \/ \E p \in Projects : AddDomain(d, p)
    \/ \E h \in Handlers : RemoveDomain(h, d) \/ StartVerify(h, d)

Work(w) ==
    \/ \E p \in Projects : LoadDeployment(w, p) \/ LoadCanary(w, p)
    \/ ConfigureProjectProxy(w) \/ ConfigureProjectProxyWithTls(w)
    \/ Reload(w) \/ ReloadRefused(w) \/ EnsureCertificate(w) \/ RouteReady(w) \/ WorkerFails(w)

EdgeNext ==
    \/ (\E d \in Domains : Domain(d)) /\ UNCHANGED edgeVars
    \/ (\E h \in Handlers : DomainStep(h)) /\ UNCHANGED edgeVars
    \/ \E p \in Projects : RequestDeployment(p)
    \/ \E w \in Workers : Work(w)

EdgeSpec == EdgeInit /\ [][EdgeNext]_edgeAllVars

-----------------------------------------------------------------------------
(* Properties *)

\* What nginx -t of one project trips over is never a certificate another project's
\* deployment still waits for, or lost when it died: a TLS file is only there after its
\* certificate (pipeline: HTTP file, certbot, TLS file).
TlsFilesHaveCertificates == CertificatesExist

\* An active row was proven by a DNS record that names its very project, although rows
\* are deleted, added by other projects and adopted while lookups wait (verify).
ActiveWasProven ==
    \A d \in Domains : rows[d].status = "active" => rows[d].project \in proven[d]

\* Once a project's deployments are done, and one was queued since its domains last
\* changed, Nginx serves exactly the domains that are active, over TLS and with a
\* certificate that names them (verify and delete: sync; pipeline: load, certify, route).
Settled(p) ==
    /\ p \in live \ behind
    /\ queued[p] = 0
    /\ p \notin raced
    /\ \A w \in Workers : Project(w) # p
SettledRoutesAreCurrent ==
    \A p \in Projects : Settled(p) =>
        loaded[p] = [kind |-> "tls", aliases |-> ActiveDomains(p), names |-> ActiveDomains(p)]
=============================================================================
