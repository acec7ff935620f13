---------------------------- MODULE ProjectImport ----------------------------
(***************************************************************************)
(* The page that creates a project, projects/new/page.tsx: it may take its  *)
(* fields from a project at Vercel, whose environment variables             *)
(* integrations/vercel-routes.ts reads and chooses among, and after the     *)
(* project is created it imports the variables with one bulk request.       *)
(***************************************************************************)
EXTENDS ProjectSecrets

CONSTANTS
    VercelProjects,     \* projects at Vercel
    EnvOf,              \* a project's environment, in the order of the answer: entries with their value,
                        \*   or with one that is hidden and can be read by the entry's id
    TypedRows,          \* rows <<key, value>> that are typed into the page
    WizardTexts,        \* what is pasted into it: sequences of lines
    NoVercelProject

Readable == EnvValues \cup {NoEnvValue}

ASSUME ImportAssumption ==
    /\ \A v \in VercelProjects :
          EnvOf[v] \in Seq([key : EnvKeys, value : Readable, hidden : Readable, targets : Seq(STRING)])
    /\ TypedRows \subseteq Lines /\ WizardTexts \subseteq Texts

VARIABLES
    wizard,     \* the page: its state, the rows of variables, the text, and what the user is told;
                \*   ghost chosen: the entries of the import that the rows were taken from
    envImport   \* the import on its way: the entries, with the values that could be read so far

importVars == <<secretVars, wizard, envImport>>

NewWizard == [at |-> "fill", rows |-> <<>>, chosen |-> <<>>, text |-> <<>>, told |-> "nothing"]
NoImport == [of |-> NoVercelProject, list |-> <<>>, asked |-> {}]

ImportInit ==
    /\ SecretsInit
    /\ wizard = NewWizard
    /\ envImport = NoImport

-----------------------------------------------------------------------------
(* POST /integrations/vercel/import-project *)

\* readTarget: the first of the targets an entry lists
ReadTarget(targets) == IF targets = <<>> THEN "none" ELSE Head(targets)

TargetPriority(target) ==
    CASE target = "production" -> 3
      [] target = "preview" -> 2
      [] target = "development" -> 1
      [] OTHER -> 0

Score(entry) == (IF entry.value # NoEnvValue THEN 100 ELSE 0) + TargetPriority(ReadTarget(entry.targets))

\* The entry of a key: the first of those that score highest, whatever comes after it.
EntriesOf(list, k) == {i \in DOMAIN list : list[i].key = k}
HighestOf(list, k) ==
    {i \in EntriesOf(list, k) : \A j \in EntriesOf(list, k) : Score(list[j]) <= Score(list[i])}
BestByKey(list, k) == list[CHOOSE i \in HighestOf(list, k) : \A j \in HighestOf(list, k) : i <= j]

\* The variables that are returned, and so the rows of the page, are those with a value.
VariablesOf(list) ==
    LET keys == {list[i].key : i \in DOMAIN list} IN
    {<<k, BestByKey(list, k).value>> : k \in {key \in keys : BestByKey(list, key).value # NoEnvValue}}
Variables(list) ==
    CHOOSE rows \in [1..Cardinality(VariablesOf(list)) -> VariablesOf(list)] : Range(rows) = VariablesOf(list)

\* importFromVercel, up to the list of entries; a refused token or project leaves the page as it is.
AskImport(v) ==
    /\ wizard.at = "fill" /\ envImport = NoImport
    /\ \E list \in {EnvOf[v], <<>>} :       \* a failed list of variables is a warning
           envImport' = [of |-> v, list |-> list,
                       asked |-> {i \in DOMAIN list : list[i].value = NoEnvValue /\ list[i].hidden # NoEnvValue}]
    /\ UNCHANGED <<secretVars, wizard>>

\* resolveVercelEnvValueById: entries that came without their value are read one by one.
ResolveEntry(i) ==
    /\ i \in envImport.asked
    /\ \E value \in {envImport.list[i].hidden, NoEnvValue} :
           envImport' = [envImport EXCEPT !.asked = @ \ {i}, !.list[i].value = value]
    /\ UNCHANGED <<secretVars, wizard>>

\* The rows, those of an earlier import among them, stay when this one has brought none.
ImportArrives ==
    /\ envImport # NoImport /\ envImport.asked = {} /\ wizard.at = "fill"
    /\ wizard' = IF Variables(envImport.list) = <<>> THEN wizard
                 ELSE [wizard EXCEPT !.rows = Variables(envImport.list), !.chosen = envImport.list, !.text = <<>>]
    /\ envImport' = NoImport
    /\ UNCHANGED secretVars

ImportFails ==
    /\ envImport # NoImport
    /\ envImport' = NoImport
    /\ UNCHANGED <<secretVars, wizard>>

-----------------------------------------------------------------------------
(* The page *)

TypeRow(row) ==
    /\ wizard.at = "fill" /\ row \notin Range(wizard.rows)
    /\ wizard' = [wizard EXCEPT !.rows = Append(@, row)]
    /\ UNCHANGED <<secretVars, envImport>>

PasteText(text) ==
    /\ wizard.at = "fill" /\ wizard.text = <<>>
    /\ wizard' = [wizard EXCEPT !.text = text]
    /\ UNCHANGED <<secretVars, envImport>>

\* onSubmit: keys must differ; the text is not looked at.  (A bound: no import is on its way; the
\* variables that are sent are those of this moment.)
SubmitWizard ==
    /\ wizard.at = "fill" /\ envImport = NoImport
    /\ \A i, j \in DOMAIN wizard.rows : wizard.rows[i][1] = wizard.rows[j][1] => i = j
    /\ wizard' = [wizard EXCEPT !.at = "create"]
    /\ UNCHANGED <<secretVars, envImport>>

\* POST /projects is answered; with nothing to import the page is left at once.
ProjectCreated ==
    /\ wizard.at = "create"
    /\ IF wizard.rows = <<>> /\ wizard.text = <<>>
       THEN wizard' = [wizard EXCEPT !.at = "left"] /\ UNCHANGED bulks
       ELSE /\ wizard' = [wizard EXCEPT !.at = "import"]
            /\ \E b \in Bulks : StartBulk(b, "wizard", wizard.text, wizard.rows)
    /\ UNCHANGED <<secrets, listed, revealed, draft, calls, outdated, since, envImport>>

CreateFails ==
    /\ wizard.at = "create"
    /\ wizard' = [wizard EXCEPT !.at = "fill"]
    /\ UNCHANGED <<secretVars, envImport>>

\* secretSetup=ok, or partial for whatever goes wrong
SecretsAnswered(b) ==
    /\ wizard.at = "import" /\ bulks[b].from = "wizard" /\ bulks[b].at \in {"ok", "failed"}
    /\ wizard' = [wizard EXCEPT !.at = "left", !.told = IF bulks[b].at = "ok" THEN "ok" ELSE "partial"]
    /\ bulks' = [bulks EXCEPT ![b].at = "read"]
    /\ UNCHANGED <<secrets, listed, revealed, draft, calls, outdated, since, envImport>>

\* The project's page is there once the project is.
OnTab == wizard.at \in {"import", "left"}

-----------------------------------------------------------------------------
ImportNext ==
    \/ \E v \in VercelProjects : AskImport(v)
    \/ \E i \in DOMAIN envImport.list : ResolveEntry(i)
    \/ ImportArrives \/ ImportFails
    \/ \E row \in TypedRows : TypeRow(row)
    \/ \E text \in WizardTexts : PasteText(text)
    \/ SubmitWizard \/ ProjectCreated \/ CreateFails
    \/ \E b \in Bulks : SecretsAnswered(b)
    \/ OnTab /\ SecretsNext /\ UNCHANGED <<wizard, envImport>>

ImportSpec == ImportInit /\ [][ImportNext]_importVars

\* The values that a new project's variable may have: that of a row typed for it, or of the entries
\* of the imported project that can be read and have the first target of the highest priority; else
\* that of its last line in the text.
Meant(k) ==
    LET readable == {e \in Range(wizard.chosen) : e.key = k /\ e.value # NoEnvValue}
        priority(e) == TargetPriority(ReadTarget(e.targets))
        best == {e \in readable : \A other \in readable : priority(other) <= priority(e)}
        typed == {row \in Range(wizard.rows) : row[1] = k /\ readable = {}}
        lines == {i \in DOMAIN wizard.text : wizard.text[i][1] = k}
    IN  IF best # {} THEN {e.value : e \in best}
        ELSE IF typed # {} THEN {row[2] : row \in typed}
        ELSE {wizard.text[i][2] : i \in {j \in lines : \A other \in lines : other <= j}}

\* When the user has been told that the variables are set up, every variable of the page has the
\* value meant for it, unless another request has written it since the project was created.
\* (onSubmit goes on with secretSetup=ok; the route answers when the last batch is written.)
ImportedEnvIsStored ==
    wizard.told = "ok" =>
        \A k \in EnvKeys : Meant(k) # {} /\ k \notin since => secrets[k] \in Meant(k)

=============================================================================
