------------------------------ MODULE MCPages -------------------------------
(***************************************************************************)
(* The life of one deployment, and what the pages of the dashboard and the  *)
(* editor extension know of the server: an initial state chooses the part   *)
(* that moves, the others stay as they start.                               *)
(***************************************************************************)
EXTENDS MCDeploymentLifecycle, DeploymentWatch, ProjectImport,
        ExtensionWorkspace

VARIABLE moving     \* the part that moves

pagesVars == <<vars, watchVars, importVars, extensionVars, moving>>

\* An older value for development; a value that is read by its id, if it can be; a project whose
\* only other variable can be read nowhere.
Entry(k, value, hidden, targets) == [key |-> k, value |-> value, hidden |-> hidden, targets |-> targets]
Environments ==
    [site |-> <<Entry("A", "old", NoEnvValue, <<"development">>),
                Entry("A", NoEnvValue, "new", <<"production", "preview">>),
                Entry("B", "old", NoEnvValue, <<"preview">>)>>,
     api  |-> <<Entry("C", "new", NoEnvValue, <<"preview">>),
                Entry("C", "old", NoEnvValue, <<>>),
                Entry("A", NoEnvValue, NoEnvValue, <<"production">>)>>]
WizardLines == {<<<<"B", "old">>, <<"C", "old">>, <<"B", "new">>>>, <<BadLine>>}
TabLines == {<<<<"A", "old">>>>}
TypedVariables == {<<"A", "new">>}

\* A user of the editor has two organizations, another has none.
TeamsOfPeople == ("a" :> <<"x", "y">>) @@ ("b" :> <<>>)

PagesInit ==
    /\ moving \in {"deployment", "watch", "import", "extension"}
    /\ Init /\ WatchInit /\ ImportInit
    /\ ExtensionInit
    /\ moving # "extension" => holders = <<>> /\ tasks[CHOOSE t \in Commands : TRUE].at = "begin"

PagesNext ==
    /\ \/ moving = "deployment" /\ Next
       \/ moving # "deployment" /\ UNCHANGED vars
    /\ \/ moving = "watch" /\ WatchNext
       \/ moving # "watch" /\ UNCHANGED watchVars
    /\ \/ moving = "import" /\ ImportNext
       \/ moving # "import" /\ UNCHANGED importVars
    /\ \/ moving = "extension" /\ ExtensionNext
       \/ moving # "extension" /\ UNCHANGED extensionVars
    /\ UNCHANGED moving

PagesSpec == PagesInit /\ [][PagesNext]_pagesVars

\* A bound: the list is loaded twice at once; when the end of a deployment may have been missed, only
\* once, and the end is not missed for a second reason.
OneGap == Cardinality(gaps) < 2 /\ Cardinality(loads) <= (IF gaps = {} THEN 2 ELSE 1)

\* A bound: a token that the editor replaces has not been refused.
OneRefusal == refusedTokens # {} => Len(holders) = 1

\* A bound: the tab has two requests on their way, one beside a bulk import, and only saves while a
\* page with variables has imported them.
FewCalls ==
    LET under == {c \in DOMAIN calls : calls[c] # NoCall} IN
    /\ Cardinality(under) <= IF bulks = [b \in Bulks |-> NoBulk] THEN 2 ELSE 1
    /\ wizard.rows \o wizard.text # <<>> => under \subseteq {"save"}

=============================================================================
