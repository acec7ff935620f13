-------------------------- MODULE DeploymentSource --------------------------
(***************************************************************************)
(* Which commit a deployment of one project is built from, and which image  *)
(* it runs: a request names a commit, or has that of the branch's head      *)
(* looked up at GitHub, or leaves it to the build; a rollback, a promotion  *)
(* and a canary take the image another deployment has.  And what docker     *)
(* build makes of a repository, which is a function from its directories to *)
(* their files and scripts: installation and the build itself only succeed  *)
(* or fail.  Capacity, keys and the switch are those of DeployRequest and   *)
(* DeployEngine.                                                            *)
(***************************************************************************)
EXTENDS Naturals, Sequences

CONSTANTS
    Sources,            \* deployments, with the requests that make them
    Engines,            \* workers
    Settings,           \* service, directories and commands of a request or, at that time, of the project
    TreeOf,             \* the repository at each commit
    BuildRetries,       \* withRetry around the build: 2
    MaxHead,            \* bound: commits of the branch
    MaxBuilds,          \* bound: builds
    NoSource,
    DevCommands,        \* DEV_CMD_PATTERNS: start commands the adapter takes for a dev server
    AmbiguousCommands,  \* AMBIGUOUS_START_CMD_PATTERNS: npm start in its forms
    DevScripts,         \* is_dev_cmd: scripts the web service's Dockerfile takes for one
    DevBuilds,          \* HAS_BUILD: build scripts the Dockerfile takes for one
    EntryFiles,         \* files that are started if nothing else is found, first one first
    OutputDirs,         \* directories a static site may be built into, first one first
    NoCommand, NoDir

NoSha == 0              \* commits are numbered as they are pushed

VARIABLES
    head,           \* the head of the branch
    asks,           \* requests: what they do next and have resolved
    sourceRows,     \* deployment: status, environment, commitSha, imageTag, the commit the domain
                    \*   names; ghost since: the last commit that had been replaced as the head when
                    \*   it was asked for, if no commit was named
    items,          \* the deployment queue
    builds,         \* the workers
    sourceLayers,   \* the builder's cache: what the source stage checked out for each key
    nonces,         \* builds so far
    images,         \* the image under each deployment's tag; strayed: it was built without the commit
                    \*   that was asked for
    claimed         \* ghost: deployments whose commit and image are together as a user named them

sourceVars == <<head, asks, sourceRows, items, builds, sourceLayers, nonces, images, claimed>>

ASSUME SourceAssumption ==
    /\ NoSource \notin Sources
    /\ BuildRetries \in Nat /\ MaxHead \in Nat \ {0} /\ MaxBuilds \in Nat

\* A file that can be named is not one of the commands.
ASSUME ImageAssumption ==
    /\ EntryFiles \in Seq({EntryFiles[i] : i \in DOMAIN EntryFiles})
    /\ \A i \in DOMAIN EntryFiles : EntryFiles[i] \notin DevScripts \cup {NoCommand}
    /\ "server.js" \notin DevScripts \cup {NoCommand} /\ NoCommand \notin DevCommands

ASSUME TreeAssumption ==
    /\ DOMAIN TreeOf = 1..MaxHead
    /\ \A commit \in DOMAIN TreeOf : \A dir \in DOMAIN TreeOf[commit] :
          TreeOf[commit][dir].main \notin DevScripts

-----------------------------------------------------------------------------
(* The image: which directory is the application, whether its build script *)
(* is run, and what the container will start                               *)

Markers == {"requirements.txt", "pyproject.toml", "Pipfile", "setup.py",
            "manage.py", "app.py", "main.py", "wsgi.py", "asgi.py"}

HasFile(tree, d, f) == d \in DOMAIN tree /\ f \in tree[d].files

\* The requested directory, or the repository's root, or the only directory with a package.json.
NodeRoot(tree, asked) ==
    LET packages == {d \in DOMAIN tree : HasFile(tree, d, "package.json")} IN
    CASE asked \in packages -> asked
      [] asked \notin packages /\ "." \in packages -> "."
      [] {asked, "."} \cap packages = {} ->
           IF \E d \in packages : packages = {d} THEN CHOOSE d \in packages : TRUE ELSE NoDir

\* A Python application needs no marker where it was asked for, only a directory.
PythonRoot(tree, asked) ==
    LET Marked(d) == \E f \in Markers : HasFile(tree, d, f) IN
    CASE asked = "." \/ Marked(asked) -> asked
      [] asked # "." /\ ~Marked(asked) /\ Marked(".") -> "."
      [] asked # "." /\ ~Marked(asked) /\ ~Marked(".") ->
           IF asked \in DOMAIN tree THEN asked ELSE NoDir

Script(app, name) == IF name \in DOMAIN app.scripts THEN app.scripts[name] ELSE NoCommand

\* The first of a sequence of choices that there is; the last one always is.
FirstOf(choices) ==
    choices[CHOOSE i \in DOMAIN choices :
                choices[i] # NoCommand /\ \A j \in 1..(i - 1) : choices[j] = NoCommand]
If(can, choice) == IF can THEN choice ELSE NoCommand

\* npm run build, unless the settings say otherwise or the script starts a dev server.
BuildCommand(app, build) ==
    LET script == Script(app, "build") IN
    CASE build # NoCommand -> build
      [] build = NoCommand /\ script \notin DevBuilds -> script
      [] build = NoCommand /\ script \in DevBuilds -> NoCommand

\* What the directory holds when the build has run.
Built(app, build) ==
    IF BuildCommand(app, build) = NoCommand THEN app.files ELSE app.files \cup app.makes

\* The start command that is passed on: not one of a dev server, nor one that only names a script.
StartArgument(s) ==
    IF s.service = "static_site" \/ s.start \in DevCommands \cup AmbiguousCommands
    THEN NoCommand ELSE s.start

Serves(command) == command # NoCommand /\ command \notin DevScripts

\* Nothing but a dev server's script can be started.
OnlyDevStarts(app, build) ==
    /\ \A name \in {"start:prod", "start", "serve"} : ~Serves(Script(app, name))
    /\ app.main = NoCommand
    /\ \A i \in DOMAIN EntryFiles : EntryFiles[i] \notin Built(app, build)

\* explicit > package.json scripts > main field > common entries.  The branches for a directory
\* without a package.json are never reached: NodeRoot finds none.
NodeChoices(app, s) ==
    LET Start(name) == If(Serves(Script(app, name)), Script(app, name)) IN
    <<StartArgument(s), Start("start:prod"), Start("start"), Start("serve"), app.main>>
    \o [i \in DOMAIN EntryFiles |-> If(EntryFiles[i] \in Built(app, s.build), EntryFiles[i])]
    \o <<Script(app, "start"), "server.js">>
NodeEntry(app, s) == FirstOf(NodeChoices(app, s))

\* The servers are installed in the image if they can be; a framework is told by the file's text.
PythonEntry(app, s) ==
    LET Module(name, file) == If(file \in app.files, name) IN
    FirstOf(<<StartArgument(s), Module("django", "manage.py"), Module("app", "app.py"), Module("main", "main.py"),
              Module("wsgi", "wsgi.py"), Module("asgi", "asgi.py"), "main or app">>)

\* The build fails if the directory to serve is not there, found or not.
StaticOutput(app, s) ==
    LET built == Built(app, s.build)
        found == FirstOf([i \in DOMAIN OutputDirs |-> If(OutputDirs[i] \in built, OutputDirs[i])] \o <<"build">>)
        asked == IF s.output # NoDir THEN s.output ELSE found
    IN IF asked \in built THEN asked ELSE NoDir

\* The application's directory, and what the image starts or serves.
NoContent == [dir |-> NoDir, entry |-> NoCommand]
Content(tree, s) ==
    LET dir == IF s.service = "python" THEN PythonRoot(tree, s.root) ELSE NodeRoot(tree, s.root)
        entry == CASE s.service = "python" -> PythonEntry(tree[dir], s)
                   [] s.service = "static_site" -> StaticOutput(tree[dir], s)
                   [] s.service = "web_service" -> NodeEntry(tree[dir], s)
    IN IF dir = NoDir \/ (s.service = "static_site" /\ entry = NoDir) THEN NoContent
       ELSE [dir |-> dir, entry |-> entry]

-----------------------------------------------------------------------------
(* Deployments, requests and workers *)

NoAsk == [at |-> "none", environment |-> "production", sha |-> NoSha, image |-> NoSource,
          token |-> FALSE, since |-> NoSha, settings |-> NoCommand, of |-> NoSource]
NoSourceRow == [status |-> "none", environment |-> "production", commit |-> NoSha, image |-> NoSource,
          ref |-> NoSha, since |-> NoSha]
NoImage == [commit |-> NoSha, settings |-> NoCommand, strayed |-> FALSE]
NoBuild == [at |-> "idle", of |-> NoSource, commit |-> NoSha, image |-> NoSource, settings |-> NoCommand,
         cloned |-> NoSha, strayed |-> FALSE, tries |-> 0]

Unfinished == {"queued", "working"}

SourceInit ==
    /\ head = 1
    /\ asks = [d \in Sources |-> NoAsk]
    /\ sourceRows = [d \in Sources |-> NoSourceRow]
    /\ items = <<>>
    /\ builds = [w \in Engines |-> NoBuild]
    /\ sourceLayers = <<>> /\ nonces = 0
    /\ images = [d \in Sources |-> NoImage]
    /\ claimed = {}

-----------------------------------------------------------------------------
(* The repository *)

PushCommit ==
    /\ head < MaxHead
    /\ head' = head + 1
    /\ UNCHANGED <<asks, sourceRows, items, builds, sourceLayers, nonces, images, claimed>>

-----------------------------------------------------------------------------
(* DeploymentRequestService.create and the routes that call it.  What it   *)
(* refuses at once (a repository host that is private, a command of the    *)
(* blocked kinds, a domain that is reserved or none, a canary preview)     *)
(* leaves no trace.                                                        *)

AskSource(d, asked) ==
    /\ asks[d] = NoAsk
    /\ asks' = [asks EXCEPT ![d] =
                   [asked EXCEPT !.at = "token", !.since = IF asked.sha = NoSha THEN head - 1 ELSE NoSha]]
    /\ UNCHANGED <<head, sourceRows, items, builds, sourceLayers, nonces, images>>

\* POST /deployments, and pushes; a request may bring settings of its own.
AskDeploy(d, environment, sha, s) ==
    /\ sha \in NoSha..head
    /\ AskSource(d, [NoAsk EXCEPT !.environment = environment, !.sha = sha, !.settings = s])
    /\ UNCHANGED claimed

\* A new production deployment of the commit and the image of another deployment
AskReuse(d, of, rollsBack) ==
    /\ AskSource(d, [NoAsk EXCEPT !.sha = sourceRows[of].commit, !.image = sourceRows[of].image,
                            !.of = IF rollsBack THEN of ELSE NoSource])
    /\ claimed' = IF of \in claimed THEN claimed \cup {d} ELSE claimed

\* POST /deployments/:deploymentId/rollback
AskRollback(d, of) ==
    /\ sourceRows[of].image # NoSource /\ sourceRows[of].environment = "production"
    /\ AskReuse(d, of, TRUE)

\* POST /deployments/:deploymentId/promote
AskPromote(d, of) ==
    /\ sourceRows[of].environment = "preview" /\ sourceRows[of].status = "ready"
    /\ AskReuse(d, of, FALSE)

\* POST /deployments/:deploymentId/canary: of a preview that is ready, or of any deployment that is
\* ready or was rolled back,
AskCanary(d, of) ==
    /\ sourceRows[of].status \in {"ready", "rolled_back"}
    /\ AskReuse(d, of, FALSE)

\* or of an image, and perhaps a commit, that the user names.
AskNamed(d, of, sha) ==
    /\ images[of] # NoImage /\ sha \in NoSha..head
    /\ AskSource(d, [NoAsk EXCEPT !.sha = sha, !.image = of])
    /\ claimed' = IF sha # NoSha THEN claimed \cup {d} ELSE claimed

AskGo(d, at, sha) == asks' = [asks EXCEPT ![d].at = at, ![d].sha = sha]
ShaAnswered(d) == asks' = [asks EXCEPT ![d] = [NoAsk EXCEPT !.at = "done"]]

\* resolveGitHubAccessToken: the actor's, or else that of the user who created the project, if the
\* repository is at GitHub and one of them is connected to it
ReadToken(d) ==
    /\ asks[d].at = "token"
    /\ \E token \in BOOLEAN : asks' = [asks EXCEPT ![d].at = "resolve", ![d].token = token]
    /\ UNCHANGED <<head, sourceRows, items, builds, sourceLayers, nonces, images, claimed>>

NamedMutant(ask) == ask.sha # NoSha
\* An image whose commit nobody knows is not given that of the branch's head.
Named(ask) == ask.sha # NoSha \/ ask.image # NoSource

\* resolveLatestGitHubCommitSha: with the token, after a failure without it, or not at all
ResolveCommit(d) ==
    LET ask == asks[d] IN
    /\ ask.at \in {"resolve", "again"}
    /\ \/ Named(ask) /\ AskGo(d, "create", ask.sha)
       \/ ~Named(ask) /\ AskGo(d, "create", head)
       \/ /\ ~Named(ask)
          /\ AskGo(d, IF ask.token /\ ask.at = "resolve" THEN "again" ELSE "create", NoSha)
    /\ UNCHANGED <<head, sourceRows, items, builds, sourceLayers, nonces, images, claimed>>

\* A preview's domain is made of its commit if that is known, and of its branch if not.  Those of
\* production, and those a request brings, name no commit.
DomainRef(ask) == IF ask.environment = "preview" THEN ask.sha ELSE NoSha

Item(d) == [of |-> d, sha |-> asks[d].sha, settings |-> asks[d].settings]

\* The row and the item, which the Redis client may push twice, or not at all.
CreateSource(d) ==
    /\ asks[d].at = "create"
    /\ \E pushed \in 0..2 :
          /\ items' = items \o [i \in 1..pushed |-> Item(d)]
          /\ sourceRows' = [sourceRows EXCEPT ![d] =
                [status |-> IF pushed = 0 THEN "failed" ELSE "queued",
                 environment |-> asks[d].environment, commit |-> asks[d].sha, image |-> asks[d].image,
                 ref |-> DomainRef(asks[d]), since |-> asks[d].since]]
          /\ IF pushed > 0 /\ asks[d].of # NoSource THEN AskGo(d, "mark", NoSha) ELSE ShaAnswered(d)
    /\ UNCHANGED <<head, builds, sourceLayers, nonces, images, claimed>>

\* What was rolled back to is marked, whatever has become of it.
MarkRolledBack(d) ==
    /\ asks[d].at = "mark"
    /\ sourceRows' = [sourceRows EXCEPT ![asks[d].of].status = "rolled_back"]
    /\ ShaAnswered(d)
    /\ UNCHANGED <<head, items, builds, sourceLayers, nonces, images, claimed>>

-----------------------------------------------------------------------------
(* DeploymentPipeline.execute, under the lock of the deployment *)

BuildGo(w, at) == builds' = [builds EXCEPT ![w].at = at]
StatusOf(w) == sourceRows[builds[w].of].status
Mark(w, status) == sourceRows' = [sourceRows EXCEPT ![builds[w].of].status = status]

\* An item is dropped if another worker has the lock or the deployment is no longer in progress.
Take(w) ==
    LET item == items[1]
        row == sourceRows[item.of]
    IN
    /\ builds[w] = NoBuild /\ items # <<>>
    /\ items' = Tail(items)
    /\ builds' = IF row.status \in Unfinished /\ \A v \in Engines : builds[v].of # item.of
                 THEN [builds EXCEPT ![w] =
                          [at |-> "start", of |-> item.of, image |-> row.image, tries |-> 0, cloned |-> NoSha, strayed |-> FALSE,
                           commit |-> IF item.sha # NoSha THEN item.sha ELSE row.commit,
                           settings |-> item.settings]]
                 ELSE builds
    /\ UNCHANGED <<head, asks, sourceRows, sourceLayers, nonces, images, claimed>>

\* assertDeploymentCanContinue, and whether there is anything to build
StartBuild(w) ==
    /\ builds[w].at = "start" /\ StatusOf(w) \in Unfinished
    /\ Mark(w, "working")
    /\ BuildGo(w, IF builds[w].image = NoSource THEN "build" ELSE "run")
    /\ UNCHANGED <<head, asks, items, sourceLayers, nonces, images, claimed>>

SourceKeyMutant(commit, nonce) == <<commit, 0>>
\* What the layer of the source stage depends on: GIT_SHA and SOURCE_REFRESH_NONCE.
SourceKey(commit, nonce) == <<commit, nonce>>

\* The script clones the branch and goes to the commit asked for.  If that cannot be fetched (it
\* is abbreviated, or gone, or of another repository than the one the request names), the script
\* goes on with the head it has cloned: the failure is on the left of &&.
CheckedOut(commit, fetched) ==
    IF commit # NoSha /\ fetched THEN [commit |-> commit, strayed |-> FALSE]
    ELSE [commit |-> head, strayed |-> commit # NoSha]

\* docker build runs for some time: its source stage, or its layer from the cache, and the rest
CloneSource(w) ==
    LET key == SourceKey(builds[w].commit, nonces + 1) IN
    /\ builds[w].at = "build" /\ nonces < MaxBuilds
    /\ nonces' = nonces + 1
    /\ \E fetched \in BOOLEAN :
          LET source == IF key \in DOMAIN sourceLayers THEN sourceLayers[key]
                        ELSE CheckedOut(builds[w].commit, fetched)
          IN /\ sourceLayers' = [k \in DOMAIN sourceLayers \cup {key} |->
                                   IF k = key THEN source ELSE sourceLayers[k]]
             /\ builds' = [builds EXCEPT ![w].at = "stages", ![w].cloned = source.commit,
                                         ![w].strayed = source.strayed]
    /\ UNCHANGED <<head, asks, sourceRows, items, images, claimed>>

\* The tag is moved to the new image.  The commit of a build that was not given one is read from
\* its log, if it can be.
DockerBuild(w) ==
    LET job == builds[w] IN
    /\ job.at = "stages"
    /\ Content(TreeOf[job.cloned], job.settings) # NoContent
    /\ images' = [images EXCEPT ![job.of] = [commit |-> job.cloned, settings |-> job.settings,
                                               strayed |-> job.strayed]]
    /\ \E told \in {job.cloned, NoSha} :
          builds' = [builds EXCEPT ![w].at = "record", ![w].commit = IF @ = NoSha THEN told ELSE @]
    /\ UNCHANGED <<head, asks, sourceRows, items, sourceLayers, nonces, claimed>>

BuildFails(w) ==
    /\ builds[w].at \in {"build", "stages"}
    /\ builds' = IF builds[w].tries < BuildRetries
                 THEN [builds EXCEPT ![w].at = "build", ![w].tries = @ + 1]
                 ELSE [builds EXCEPT ![w].at = "throw"]
    /\ UNCHANGED <<head, asks, sourceRows, items, sourceLayers, nonces, images, claimed>>

RecordImage(w) ==
    LET job == builds[w] IN
    /\ job.at = "record"
    /\ sourceRows' = [sourceRows EXCEPT ![job.of].image = job.of,
                          ![job.of].commit = IF job.commit # NoSha THEN job.commit ELSE @]
    /\ BuildGo(w, "run")
    /\ UNCHANGED <<head, asks, items, sourceLayers, nonces, images, claimed>>

\* The container of the image is started, checked and routed to.
RunImage(w) ==
    /\ builds[w].at = "run" /\ StatusOf(w) \in Unfinished
    /\ Mark(w, "ready")
    /\ builds' = [builds EXCEPT ![w] = NoBuild]
    /\ UNCHANGED <<head, asks, items, sourceLayers, nonces, images, claimed>>

\* The catch block: what was asserted does not hold, or a call threw.
BuildThrows(w) ==
    /\ builds[w].at \in {"start", "record", "run", "throw"}
    /\ Mark(w, "failed")
    /\ builds' = [builds EXCEPT ![w] = NoBuild]
    /\ UNCHANGED <<head, asks, items, sourceLayers, nonces, images, claimed>>

EngineDies(w) ==
    /\ builds[w] # NoBuild
    /\ builds' = [builds EXCEPT ![w] = NoBuild]
    /\ UNCHANGED <<head, asks, sourceRows, items, sourceLayers, nonces, images, claimed>>

-----------------------------------------------------------------------------

AskStep(d) ==
    \/ \E environment \in {"production", "preview"}, sha \in NoSha..MaxHead, s \in Settings :
          AskDeploy(d, environment, sha, s)
    \/ \E of \in Sources : AskRollback(d, of) \/ AskPromote(d, of) \/ AskCanary(d, of)
    \/ \E of \in Sources, sha \in NoSha..MaxHead : AskNamed(d, of, sha)
    \/ ReadToken(d) \/ ResolveCommit(d) \/ CreateSource(d) \/ MarkRolledBack(d)

EngineStep(w) ==
    \/ Take(w) \/ StartBuild(w) \/ CloneSource(w) \/ DockerBuild(w) \/ BuildFails(w)
    \/ RecordImage(w) \/ RunImage(w) \/ BuildThrows(w) \/ EngineDies(w)

SourceNext ==
    \/ PushCommit
    \/ \E d \in Sources : AskStep(d)
    \/ \E w \in Engines : EngineStep(w)

SourceSpec == SourceInit /\ [][SourceNext]_sourceVars

-----------------------------------------------------------------------------
(* Properties *)

\* The commit that is shown with a deployment, and the one its preview's domain is made of, are
\* those its image was built from, whichever deployment the image was built for, whatever has been
\* pushed since, and however often a build was repeated: deployment-request-service.ts:190 does not
\* look up a commit for an image it is given, and deployment-pipeline.ts:139 records both at once.
\* Not so for an image whose build could not fetch the commit: it is of the head, and the row says
\* otherwise (docker-adapter.ts:102).
ImageIsOfCommit ==
    \A d \in Sources \ claimed :
        LET row == sourceRows[d] IN
        row.image # NoSource /\ ~images[row.image].strayed =>
            /\ row.commit # NoSha => images[row.image].commit = row.commit
            /\ row.ref # NoSha => images[row.image].commit = row.ref

\* A deployment that names no commit is not built from one that was already replaced when it was
\* asked for, whatever layers earlier builds left in the cache: docker-adapter.ts:703.
SourceIsCurrent ==
    \A d \in Sources : images[d] # NoImage => images[d].commit > sourceRows[d].since

\* A container never starts what both the adapter and the Dockerfile take for a dev server, unless
\* the repository has nothing else to start: docker-adapter.ts:604.
NoDevServer ==
    \A d \in {e \in Sources : images[e] # NoImage} :
        LET s == images[d].settings
            tree == TreeOf[images[d].commit]
            content == Content(tree, s)
        IN s.service = "web_service" /\ content.entry \in DevCommands \cap DevScripts
           => OnlyDevStarts(tree[content.dir], s.build)

=============================================================================
