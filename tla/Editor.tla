------------------------------- MODULE Editor -------------------------------
(***************************************************************************)
(* Code Studio: editor/page.tsx keeps a tab per open file and saves what is *)
(* typed two seconds after the last key, through the routes of              *)
(* files/routes.ts, which read and write the files of the development       *)
(* container; the agent's changes are applied to the files and to the tabs. *)
(* The calls of a page overlap, are served and answered in any order, and   *)
(* fail.  A second tab of the same file, which a double click can make, is  *)
(* left out: the page shows the first.                                      *)
(***************************************************************************)
EXTENDS Naturals, Sequences

CONSTANTS
    Files,          \* paths
    Typed,          \* what may be typed, or proposed by the agent
    Special,        \* a text with a dollar, a backquote or a backslash
    EditorCalls,    \* calls of the page under way at once, numbered
    Proposals,      \* the agent's changes: sequences of [file, does, text]
    MaxGestures,    \* bound: what the user does
    NoFile, NoText

\* What the agent proposes for a file of the project.
Change == [file : Files, does : {"write", "delete"}, text : Typed \cup {""}]

ASSUME EditorAssumption == NoFile \notin Files /\ Proposals \subseteq Seq(Change)

VARIABLES
    disk,       \* the file in the container's volume, NoText if there is none
    fileList,     \* files
    tabs,       \* tabs: the text and the dirty mark of every open file
    activeTab,
    saveTimer,  \* saveTimer: the save it will start
    fileCalls,  \* the page's calls on their way
    agent,      \* the agent panel: its proposal, and applyAgentChanges under way
    gestures,   \* bound: what the user has done
    why         \* ghost: why the tab of a file may be wrong, "none" when it should not

editorVars == <<disk, fileList, tabs, activeTab, saveTimer, fileCalls, agent, gestures, why>>

NoTab == [text |-> NoText, dirty |-> FALSE]
NoTimer == [file |-> NoFile, text |-> NoText]
NoFileCall == [does |-> "nothing", file |-> NoFile, text |-> NoText, at |-> "none", names |-> {}, open |-> FALSE]
NoAgent == [at |-> "none", left |-> <<>>, written |-> {}, tabs |-> <<>>, active |-> NoFile, known |-> {}]

\* POST .../files escapes what single quotes already protect, and so writes a special text altered.
Created(text) == IF text = Special THEN "altered" ELSE text

EditorInit ==
    /\ disk \in [Files -> {"", NoText}] /\ fileList = {f \in Files : disk[f] # NoText}
    /\ tabs = [f \in Files |-> NoTab] /\ activeTab = NoFile /\ saveTimer = NoTimer
    /\ fileCalls = [c \in EditorCalls |-> NoFileCall]
    /\ agent = NoAgent
    /\ gestures = 0
    /\ why = [f \in Files |-> "none"]

IsOpen(f) == tabs[f] # NoTab
On(f) == {c \in EditorCalls : fileCalls[c].file = f}
Applying == agent.at = "applying"

Gesture == gestures < MaxGestures /\ gestures' = gestures + 1
Calls(c, call) ==
    /\ fileCalls[c] = NoFileCall /\ \A b \in EditorCalls : b < c => fileCalls[b] # NoFileCall
    /\ fileCalls' = [fileCalls EXCEPT ![c] = call]
NewCall(does, f, text) == [NoFileCall EXCEPT !.does = does, !.file = f, !.text = text, !.at = "asked"]
Returns(c) == fileCalls' = [fileCalls EXCEPT ![c] = NoFileCall]
ServedCall(c) == [fileCalls[c] EXCEPT !.at = "served"]

-----------------------------------------------------------------------------
(* The page *)

\* openFile; once nothing else is under way, the tab begins with what the file holds.
ClickFile(c, f) ==
    /\ f \in fileList /\ Gesture
    /\ IF IsOpen(f)
       THEN activeTab' = f /\ UNCHANGED <<fileCalls, why>>
       ELSE /\ Calls(c, NewCall("read", f, NoText))
            /\ why' = IF On(f) = {} /\ ~Applying THEN [why EXCEPT ![f] = "none"] ELSE why
            /\ UNCHANGED activeTab
    /\ UNCHANGED <<disk, fileList, tabs, saveTimer, agent>>

SelectTab(f) ==
    /\ IsOpen(f) /\ activeTab # f /\ Gesture
    /\ activeTab' = f
    /\ UNCHANGED <<disk, fileList, tabs, saveTimer, fileCalls, agent, why>>

\* The one timer of the page is set anew, whatever file it was set for.
Type(text) ==
    /\ activeTab # NoFile /\ IsOpen(activeTab) /\ tabs[activeTab].text # text /\ Gesture
    /\ tabs' = [tabs EXCEPT ![activeTab] = [text |-> text, dirty |-> TRUE]]
    /\ saveTimer' = [file |-> activeTab, text |-> text]
    /\ UNCHANGED <<disk, fileList, activeTab, fileCalls, agent, why>>

\* Two saves of a file at once may be written and answered in any order.
Saves(c, f, text) ==
    /\ Calls(c, NewCall("save", f, text))
    /\ why' = IF On(f) # {} THEN [why EXCEPT ![f] = "overlap"] ELSE why

TimerFires(c) ==
    /\ saveTimer # NoTimer
    /\ Saves(c, saveTimer.file, saveTimer.text)
    /\ saveTimer' = NoTimer
    /\ UNCHANGED <<disk, fileList, tabs, activeTab, agent, gestures>>

\* The Save button; the timer goes on.
HandleManualSave(c) ==
    /\ activeTab # NoFile /\ IsOpen(activeTab) /\ tabs[activeTab].dirty /\ Gesture
    /\ Saves(c, activeTab, tabs[activeTab].text)
    /\ UNCHANGED <<disk, fileList, tabs, activeTab, saveTimer, agent>>

\* closeTab; the timer of a closed tab goes on.
Closed(f) ==
    /\ tabs' = [tabs EXCEPT ![f] = NoTab]
    /\ LET next == {g \in Files \ {f} : IsOpen(g)} IN
       activeTab' \in IF activeTab # f THEN {activeTab} ELSE IF next = {} THEN {NoFile} ELSE next

CloseTab(f) ==
    /\ IsOpen(f) /\ Gesture
    /\ Closed(f)
    /\ UNCHANGED <<disk, fileList, saveTimer, fileCalls, agent, why>>

HandleDeleteFile(c, f) ==
    /\ f \in fileList /\ Gesture
    /\ Calls(c, NewCall("delete", f, NoText))
    /\ UNCHANGED <<disk, fileList, tabs, activeTab, saveTimer, agent, why>>

\* The answer will be handled with the tabs of this moment.
HandleNewFile(c, f) ==
    /\ Gesture
    /\ Calls(c, [NewCall("create", f, "") EXCEPT !.open = IsOpen(f)])
    /\ UNCHANGED <<disk, fileList, tabs, activeTab, saveTimer, agent, why>>

RefreshFiles(c) ==
    /\ Gesture
    /\ Calls(c, NewCall("list", NoFile, NoText))
    /\ UNCHANGED <<disk, fileList, tabs, activeTab, saveTimer, agent, why>>

-----------------------------------------------------------------------------
(* The routes *)

Overlaps(c) == On(fileCalls[c].file) # {c} \/ Applying

ServeRead(c) ==
    /\ fileCalls[c].does = "read" /\ fileCalls[c].at = "asked" /\ disk[fileCalls[c].file] # NoText
    /\ fileCalls' = [fileCalls EXCEPT ![c] = [ServedCall(c) EXCEPT !.text = disk[fileCalls[c].file]]]
    /\ UNCHANGED <<disk, why>>

ServeFileSave(c) ==
    /\ fileCalls[c].does = "save" /\ fileCalls[c].at = "asked"
    /\ disk' = [disk EXCEPT ![fileCalls[c].file] = fileCalls[c].text]
    /\ fileCalls' = [fileCalls EXCEPT ![c] = ServedCall(c)]
    /\ why' = [why EXCEPT ![fileCalls[c].file] = IF Overlaps(c) THEN "overlap" ELSE "none"]

\* A new file of an existing name empties the file; its tab, if there is one, stays as it is.
ServeCreate(c) ==
    /\ fileCalls[c].does = "create" /\ fileCalls[c].at = "asked"
    /\ disk' = [disk EXCEPT ![fileCalls[c].file] = Created(fileCalls[c].text)]
    /\ fileCalls' = [fileCalls EXCEPT ![c] = ServedCall(c)]
    /\ why' = [why EXCEPT ![fileCalls[c].file] =
           IF Overlaps(c) THEN "overlap" ELSE IF IsOpen(fileCalls[c].file) THEN "emptied" ELSE @]

ServeFileDelete(c) ==
    /\ fileCalls[c].does = "delete" /\ fileCalls[c].at = "asked"
    /\ disk' = [disk EXCEPT ![fileCalls[c].file] = NoText]
    /\ fileCalls' = [fileCalls EXCEPT ![c] = ServedCall(c)]
    /\ why' = IF Overlaps(c) THEN [why EXCEPT ![fileCalls[c].file] = "overlap"] ELSE why

ServeFiles(c) ==
    /\ fileCalls[c].does \in {"list", "newList"} /\ fileCalls[c].at = "asked"
    /\ fileCalls' = [fileCalls EXCEPT ![c] = [ServedCall(c) EXCEPT !.names = {f \in Files : disk[f] # NoText}]]
    /\ UNCHANGED <<disk, why>>

Serve(c) ==
    /\ ServeRead(c) \/ ServeFileSave(c) \/ ServeCreate(c) \/ ServeFileDelete(c) \/ ServeFiles(c)
    /\ UNCHANGED <<fileList, tabs, activeTab, saveTimer, agent, gestures>>

\* The terminal, the agent's own tools or another page write or remove the file.
ElseWritesFile(f, text) ==
    /\ disk[f] # text /\ Gesture
    /\ disk' = [disk EXCEPT ![f] = text]
    /\ why' = IF IsOpen(f) \/ On(f) # {} \/ Applying THEN [why EXCEPT ![f] = "elsewhere"] ELSE why
    /\ UNCHANGED <<fileList, tabs, activeTab, saveTimer, fileCalls, agent>>

-----------------------------------------------------------------------------
(* The answers *)

ReadArrives(c) ==
    LET f == fileCalls[c].file IN
    /\ fileCalls[c].does = "read" /\ fileCalls[c].at = "served"
    /\ tabs' = IF IsOpen(f) THEN tabs ELSE [tabs EXCEPT ![f] = [text |-> fileCalls[c].text, dirty |-> FALSE]]
    /\ activeTab' = f
    /\ Returns(c)
    /\ UNCHANGED <<fileList, saveTimer>>

\* saveFile, leaving what was typed since
SaveArrivesMutant(c) ==
    LET f == fileCalls[c].file IN
    /\ fileCalls[c].does = "save" /\ fileCalls[c].at = "served"
    /\ tabs' = IF IsOpen(f) THEN [tabs EXCEPT ![f].dirty = FALSE] ELSE tabs
    /\ Returns(c)
    /\ UNCHANGED <<fileList, activeTab, saveTimer>>

\* What was typed since the save was asked is replaced by what was saved; the timer may still save it.
SaveArrives(c) ==
    LET f == fileCalls[c].file IN
    /\ fileCalls[c].does = "save" /\ fileCalls[c].at = "served"
    /\ tabs' = IF IsOpen(f) THEN [tabs EXCEPT ![f] = [text |-> fileCalls[c].text, dirty |-> FALSE]] ELSE tabs
    /\ Returns(c)
    /\ UNCHANGED <<fileList, activeTab, saveTimer>>

CreateArrives(c) ==
    /\ fileCalls[c].does = "create" /\ fileCalls[c].at = "served"
    /\ fileCalls' = [fileCalls EXCEPT ![c] = [@ EXCEPT !.does = "newList", !.at = "asked"]]
    /\ UNCHANGED <<fileList, tabs, activeTab, saveTimer>>

\* openFile of the new file, asked of the tabs there were when its name was typed
OpenNew(c, files) ==
    LET f == fileCalls[c].file IN
    /\ fileList' = files
    /\ IF fileCalls[c].open
       THEN activeTab' = f /\ Returns(c)
       ELSE fileCalls' = [fileCalls EXCEPT ![c] = NewCall("read", f, NoText)] /\ UNCHANGED activeTab
    /\ UNCHANGED <<tabs, saveTimer>>

NewListArrives(c) ==
    /\ fileCalls[c].does = "newList"
    /\ \/ fileCalls[c].at = "served" /\ OpenNew(c, fileCalls[c].names)
       \/ OpenNew(c, fileList)

DeleteArrives(c) ==
    /\ fileCalls[c].does = "delete" /\ fileCalls[c].at = "served"
    /\ Closed(fileCalls[c].file)
    /\ fileCalls' = [fileCalls EXCEPT ![c] = NewCall("list", NoFile, NoText)]
    /\ UNCHANGED <<fileList, saveTimer>>

ListArrives(c) ==
    /\ fileCalls[c].does = "list" /\ fileCalls[c].at = "served"
    /\ fileList' = fileCalls[c].names
    /\ Returns(c)
    /\ UNCHANGED <<tabs, activeTab, saveTimer>>

Arrive(c) ==
    /\ \/ ReadArrives(c) \/ SaveArrives(c) \/ CreateArrives(c) \/ NewListArrives(c)
       \/ DeleteArrives(c) \/ ListArrives(c)
    /\ UNCHANGED <<disk, agent, gestures, why>>

\* A call is refused, or its answer is lost after it was served: the tab of a file that is gone stays,
\* or the text that was typed while another save was under way is in the file and in no tab.
FileCallFails(c) ==
    /\ fileCalls[c] # NoFileCall /\ fileCalls[c].does # "newList"
    /\ why' = IF fileCalls[c].does \in {"delete", "save"} /\ fileCalls[c].at = "served"
              THEN [why EXCEPT ![fileCalls[c].file] = "lost"] ELSE why
    /\ Returns(c)
    /\ UNCHANGED <<disk, fileList, tabs, activeTab, saveTimer, agent, gestures>>

-----------------------------------------------------------------------------
(* The agent *)

\* submitPrompt and the route: the answer is made from the tabs and files of the time it was asked.
AskAgent ==
    /\ agent.at = "none" /\ Gesture
    /\ \E changes \in Proposals : agent' = [NoAgent EXCEPT !.at = "proposed", !.left = changes]
    /\ UNCHANGED <<disk, fileList, tabs, activeTab, saveTimer, fileCalls, why>>

\* applyAgentChanges works on a copy of the tabs.
HandleApply ==
    /\ agent.at = "proposed"
    /\ agent' = [agent EXCEPT !.at = "applying", !.tabs = tabs, !.active = activeTab, !.known = fileList]
    /\ UNCHANGED <<disk, fileList, tabs, activeTab, saveTimer, fileCalls, gestures, why>>

\* One change after another: the file, then the copy of its tab.
ApplyChange ==
    /\ Applying /\ agent.left # <<>>
    /\ LET change == Head(agent.left)
           f == change.file
           exact == f \in agent.known
       IN
       /\ disk' = [disk EXCEPT ![f] =
              IF change.does = "delete" THEN NoText ELSE IF exact THEN change.text ELSE Created(change.text)]
       /\ agent' = [
              at |-> "applying",
              left |-> Tail(agent.left),
              written |-> agent.written \cup {f},
              known |-> IF change.does = "delete" THEN agent.known \ {f} ELSE agent.known \cup {f},
              tabs |-> [agent.tabs EXCEPT ![f] =
                  IF change.does = "delete" THEN NoTab ELSE [text |-> change.text, dirty |-> FALSE]],
              active |-> IF change.does # "delete" THEN f ELSE IF agent.active = f THEN NoFile ELSE agent.active]
       /\ why' = [why EXCEPT ![f] =
              IF On(f) # {} THEN "overlap"
              ELSE IF change.does # "delete" /\ ~exact /\ change.text = Special THEN "altered" ELSE "none"]
    /\ UNCHANGED <<fileList, tabs, activeTab, saveTimer, fileCalls, gestures>>

\* The tabs become the copy, whatever was opened, typed or saved since.
EndApply(c) ==
    /\ Applying /\ agent.left = <<>>
    /\ tabs' = agent.tabs
    /\ activeTab' = agent.active
    /\ Calls(c, NewCall("list", NoFile, NoText))
    /\ agent' = NoAgent
    /\ why' = [f \in Files |->
           IF f \notin agent.written /\ agent.tabs[f] # tabs[f] THEN "overlap" ELSE why[f]]
    /\ UNCHANGED <<disk, fileList, saveTimer, gestures>>

\* A change fails: those before it are in the files and in no tab.
ApplyFails ==
    /\ Applying /\ agent.left # <<>>
    /\ agent' = NoAgent
    /\ why' = [f \in Files |-> IF f \in agent.written THEN "partial" ELSE why[f]]
    /\ UNCHANGED <<disk, fileList, tabs, activeTab, saveTimer, fileCalls, gestures>>

-----------------------------------------------------------------------------
EditorNext ==
    \/ \E c \in EditorCalls :
           \/ \E f \in Files : ClickFile(c, f) \/ HandleDeleteFile(c, f) \/ HandleNewFile(c, f)
           \/ TimerFires(c) \/ HandleManualSave(c) \/ RefreshFiles(c)
           \/ Serve(c) \/ Arrive(c) \/ FileCallFails(c) \/ EndApply(c)
    \/ \E f \in Files : SelectTab(f) \/ CloseTab(f) \/ \E text \in Typed \cup {NoText} : ElseWritesFile(f, text)
    \/ \E text \in Typed : Type(text)
    \/ AskAgent \/ HandleApply \/ ApplyChange \/ ApplyFails

EditorSpec == EditorInit /\ [][EditorNext]_editorVars

-----------------------------------------------------------------------------
\* A tab without the dirty mark shows what the file holds, once no call on the file is under way and
\* the agent's changes are not being applied, unless calls on the file overlapped, the file was
\* written elsewhere, or one of the named gaps was met.
CleanTabIsSaved ==
    \A f \in Files :
        IsOpen(f) /\ ~tabs[f].dirty /\ On(f) = {} /\ ~Applying /\ why[f] = "none"
        => tabs[f].text = disk[f]

=============================================================================
