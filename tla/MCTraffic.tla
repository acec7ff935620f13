----------------------------- MODULE MCTraffic -----------------------------
(***************************************************************************)
(* What stands behind a public name, in three instances of which an initial *)
(* state chooses one: the commits and images of two deployments             *)
(* (DeploymentSource), the gradual releases of a project (CanaryRelease,    *)
(* four deployments) and the domains, files and certificates of two         *)
(* projects on one Nginx (EdgeRoutes: a domain and its www. form, two       *)
(* requests, two workers).  The requests and workers of the one are named   *)
(* as deployments of the others, for the sake of a smaller symmetry.        *)
(***************************************************************************)
EXTENDS CanaryRelease, EdgeRoutes, DeploymentSource, TLC

CONSTANTS p1, p2, n1, n2, d1, d2, d3, d4

VARIABLE moving     \* the instance that moves

Www == (n1 :> n2) @@ (n2 :> n1)

\* A repository that starts a dev server and has something else to start, once it is built; and one
\* with its packages elsewhere, where there is only a dev server, and a site that can be built.
App(files, scripts, makes) == [files |-> files, scripts |-> scripts, main |-> NoCommand, makes |-> makes]
Commits ==
    <<"." :> App({"package.json"}, ("start" :> "nodemon") @@ ("build" :> "tsc"), {"dist/main.js"}),
      ("." :> App({"main.py"}, <<>>, {}))
      @@ ("web" :> App({"package.json"}, ("start:prod" :> "nodemon") @@ ("build" :> "vite dev"), {"dist"}))>>
Set(service, root, build, start) ==
    [service |-> service, root |-> root, build |-> build, start |-> start, output |-> NoDir]
TwoSettings == {Set("web_service", ".", NoCommand, "nodemon"),
                Set("static_site", "web", "vite build", NoCommand)}
Entries == <<"dist/main.js", "server.js">>
Outputs == <<"build", "dist">>

Sym == Permutations({d1, d2}) \cup Permutations({d3, d4}) \cup Permutations({p1, p2})

\* What an initial state leaves open is settled in the instance that does not move.
TrafficInit ==
    /\ moving \in {"sources", "releases", "routes"}
    /\ SourceInit /\ Init
    /\ EdgeInit /\ (moving # "routes" => ~twins)

TrafficNext ==
    /\ \/ moving = "sources" /\ SourceNext
       \/ moving # "sources" /\ UNCHANGED sourceVars
    /\ \/ moving = "releases" /\ ReleaseNext
       \/ moving # "releases" /\ UNCHANGED releaseVars
    /\ \/ moving = "routes" /\ EdgeNext
       \/ moving # "routes" /\ UNCHANGED edgeAllVars
    /\ UNCHANGED moving

TrafficSpec == TrafficInit /\ [][TrafficNext]_<<sourceVars, releaseVars, edgeAllVars, moving>>

\* Two requests meet while no worker is at work, two workers while there are no domains; two
\* projects with one upstream name have no domains.
Busy(h) == calls[h] # Idle
Working(w) == workers[w] # Resting
Meeting == \A h \in Handlers : Busy(h)
Looking == \E h \in Handlers : Busy(h)
Racing == \A w \in Workers : Working(w)
Touched(p) == queued[p] > 0 \/ file[p] # NoRoute \/ p \in live
\* what a failed worker leaves behind is not looked at beside requests
Whole(p) == /\ file[p] = [loaded[p] EXCEPT !.names = {}]
            /\ cert[p] = IF loaded[p].kind = "tls" THEN loaded[p].names ELSE NoCert
NoDomainsYet ==
    /\ ~Looking
    /\ \A d \in Domains : ~Exists(d) /\ proven[d] = {}
    /\ \A p \in Projects : file[p].aliases = {} /\ loaded[p].aliases = {} /\ cert[p] \in {NoCert, {}}
    /\ \A w \in Workers : workers[w].aliases = {}
Apart ==
    /\ Meeting => behind = Projects /\ ~\E p \in Projects : Touched(p)
    /\ Racing \/ raced # {} \/ twins \/ Cardinality({p \in Projects : Touched(p)}) > 1 => NoDomainsYet
    /\ (\E w \in Workers : Working(w)) /\ Looking => ~Exists(n2)
    /\ Looking \/ Exists(n2) => \A p \in Projects : Whole(p) \/ \E w \in Workers : Project(w) = p
    /\ \A p, q \in Projects : p # q /\ Touched(p) => \A d \in Domains : rows[d].project # q

\* What comes after two releases have crossed is not looked at.
Uncrossed == ~crossed

\* A bound: a build is only repeated while no other deployment is asked for or queued.
LoneRetries ==
    (\E w \in Engines : builds[w].tries > 0) =>
        items = <<>> /\ \A d \in Sources : asks[d].at \in {"none", "done"}

=============================================================================
