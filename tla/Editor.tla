---- MODULE Editor ----
(***************************************************************************)
(* The editor pane of the REPL application (src/repl/components/           *)
(* Editor.tsx): tabs, the one text view they share, and the callbacks that *)
(* finish saving, opening and running a file.                              *)
(*                                                                         *)
(* Handlers see the state of the last rendering: the list of tabs, the     *)
(* active one and functions memoised over them.  What they set takes      *)
(* effect at the next rendering: at once for an event of the user, and     *)
(* some time later for a callback or a message from R; an event of the     *)
(* user that comes first is handled with the old state, and rendered with  *)
(* what was waiting.  A tab is a JavaScript object, changed in place or    *)
(* replaced by another.                                                    *)
(***************************************************************************)
EXTENDS Integers, Sequences, FiniteSets, SequencesExt, FiniteSetsExt

CONSTANTS
    File,            \* files
    FirstTabs,       \* files open at first: Untitled1.R, or those of a shared link
    DataFile,        \* a data frame R shows in a tab
    MaxObjects,      \* bound on the tab objects in use
    MaxEdits,        \* bound on the edits
    MaxFileRequests, \* bound on the files saved, opened, run or shown, and on Ctrl-C
    MaxStray         \* bound on the files with a stray tab

ASSUME EditorAssumption ==
    /\ FirstTabs \in Seq(File) /\ FirstTabs # <<>> /\ DataFile \notin File
    /\ \A i, j \in DOMAIN FirstTabs : FirstTabs[i] = FirstTabs[j] => i = j
    /\ MaxObjects \in Nat /\ Len(FirstTabs) <= MaxObjects
    /\ MaxEdits \in Nat /\ MaxFileRequests \in Nat /\ MaxStray \in Nat

VARIABLES
    object,      \* tab objects
    tabs,        \* `files': the objects of the tabs rendered
    active,      \* `activeFileIdx', from 1
    view,        \* the text in the editor view
    next,        \* what setFiles() and setActiveFileIdx() have made of them since
    rendering,   \* whether a rendering is due, and when
    saver,       \* the tab and the index saveFile() was memoised with
    opener,      \* the tab the files interface was registered with
    inbox,       \* requests and lines on their way to the R worker
    callbacks,   \* answers on their way back
    disk,        \* text of each file
    leftRead,    \* the main thread holds a read that R has left
    script,      \* the run whose code is in the file that is sourced
    executed,    \* history: runs R has started, with the run whose code it was
    unrun,       \* history: runs whose write failed, or that Ctrl-C has dropped
    ran,         \* history: number of runs asked for
    overtook,    \* history: runs, and those asked for before they were written
    latest,      \* history: the last text of each file in the editor
    edits,       \* history: number of edits
    requested,   \* history: number of file requests
    amid,        \* history: a tab was chosen or closed while others awaited their rendering
    strayText,   \* history: files whose tab was given a text meant for another
    strayClean   \* history: files whose mark was set or lost by a callback

tabVars == <<object, tabs, active, view, next, rendering, saver, opener>>
runVars == <<script, executed, unrun, ran, overtook>>
workerVars == <<inbox, callbacks, disk, leftRead>>
countVars == <<latest, edits, requested>>
strayVars == <<amid, strayText, strayClean>>
editorVars == <<tabVars, workerVars, runVars, countVars, strayVars>>

Text(p, n) == [of |-> p, edit |-> n]
Tab(p, text, dirty) == [path |-> p, text |-> text, dirty |-> dirty]
IsText(o) == o # 0 /\ object[o].path # DataFile

FirstText == Text(FirstTabs[1], 0)
Nothing == Tab(DataFile, FirstText, FALSE)     \* no object
EditorInit ==
    /\ object = [i \in 1 .. MaxObjects |->
                   IF i \in DOMAIN FirstTabs THEN Tab(FirstTabs[i], Text(FirstTabs[i], 0), TRUE)
                   ELSE Nothing]
    /\ tabs = [i \in DOMAIN FirstTabs |-> i] /\ active = 1 /\ view = FirstText
    /\ next = [tabs |-> tabs, active |-> 1, listed |-> FALSE] /\ rendering = "none"
    /\ saver = [object |-> 1, index |-> 1] /\ opener = 1
    /\ inbox = <<>> /\ callbacks = <<>>
    /\ disk = [p \in File |-> Text(p, 0)]
    /\ leftRead = FALSE
    /\ script = 0 /\ executed = <<>> /\ unrun = {} /\ ran = 0 /\ overtook = {}
    /\ latest = [p \in File |-> Text(p, 0)]
    /\ edits = 0 /\ requested = 0
    /\ amid = FALSE /\ strayText = {} /\ strayClean = {}

-----------------------------------------------------------------------------
(* Rendering.                                                              *)

(* setFiles() and setActiveFileIdx().  The view does not change between a  *)
(* setFileDirty() and the rendering, that calls the function it gave.      *)
Queue(n) == next' = n /\ rendering' = "later"
QueueUrgent(n) == next' = n /\ rendering' = "now"
Show(list, i) == [tabs |-> list, active |-> i, listed |-> TRUE]

Active == IF active \in DOMAIN tabs THEN tabs[active] ELSE 0

(* Objects nothing refers to are used again. *)
HeldBy(r) == IF r.op = "open" THEN {r.active} \cup ToSet(r.tabs) ELSE {}
Held == UNION ({HeldBy(r) : r \in ToSet(inbox)} \cup {HeldBy(c.request) : c \in ToSet(callbacks)})
Free == DOMAIN object \ ({saver.object, opener} \cup ToSet(tabs) \cup ToSet(next.tabs) \cup Held)
NewObject == CHOOSE o \in Free : TRUE

(* Broken variant: the tab is marked and its text is left as it was.       *)
MarkOnly(tab, dirty, text) == [tab EXCEPT !.dirty = dirty]
Marked(tab, dirty, text) == [tab EXCEPT !.dirty = dirty, !.text = text]

(* setFileDirty() puts the text of the view in the tab of its index, in a  *)
(* new object.                                                             *)
Marks(index, dirty, text) ==
    IF index \in DOMAIN next.tabs /\ IsText(next.tabs[index])
    THEN /\ Free # {}
         /\ object' = [object EXCEPT ![NewObject] = Marked(object[next.tabs[index]], dirty, text)]
         /\ next' = [next EXCEPT !.tabs[index] = NewObject, !.listed = TRUE]
    ELSE object' = object /\ next' = [next EXCEPT !.listed = TRUE]

(* syncActiveFileState(), for the tab o. *)
Synced(objects, o) ==
    IF o # 0 /\ objects[o].path # DataFile THEN [objects EXCEPT ![o].text = view] ELSE objects

(* A rendering and its effects: the view's text is stored in the tab that  *)
(* was active, then replaced by that of the active one; saveFile() is made *)
(* again when the active tab is another object, and the files interface is *)
(* registered again when the list of tabs is another.                      *)
Render ==
    /\ rendering # "none"
    /\ tabs' = next.tabs /\ active' = next.active
    /\ LET changed == next.listed \/ Active' # Active
           objects == IF changed THEN Synced(object, Active) ELSE object
       IN  /\ view' = IF changed /\ Active' # 0 /\ object[Active'].path # DataFile
                      THEN objects[Active'].text ELSE view
           /\ saver' = IF Active' # saver.object THEN [object |-> Active', index |-> next.active]
                       ELSE saver
           /\ opener' = IF next.listed THEN Active' ELSE opener
           /\ object' = [o \in DOMAIN object |->
                           IF o \in ToSet(next.tabs) \cup {saver'.object, opener'} \cup Held
                           THEN objects[o] ELSE Nothing]
    /\ next' = [next EXCEPT !.listed = FALSE] /\ rendering' = "none"
    /\ UNCHANGED <<workerVars, runVars, countVars, strayVars>>

-----------------------------------------------------------------------------
(* What a change of the tabs puts at risk: recorded, and never undone.     *)

PathsOf(objects) == {object[o].path : o \in {o \in objects : IsText(o)}}
Due(i) == PathsOf(IF i \in DOMAIN next.tabs THEN {next.tabs[i]} ELSE {})
NotShown(paths) == {p \in paths : Active = 0 \/ object[Active].path # p}

(* Tabs that come back when list replaces the tabs due to be rendered.     *)
BroughtBack(list) == PathsOf(ToSet(list) \ ToSet(next.tabs))

Strays(text, clean) ==
    strayText' = strayText \cup text /\ strayClean' = strayClean \cup clean

(* The tabs of the last rendering are not those of the next one.           *)
Moving == next.active # active \/ Len(next.tabs) # Len(tabs)

-----------------------------------------------------------------------------
(* The user.                                                               *)

(* An effect of a rendering fails when there is no active tab among some:  *)
(* React then removes the application.                                     *)
Alive == tabs = <<>> \/ active \in DOMAIN tabs
Rendered == rendering = "none"
Few == Cardinality(strayText \cup strayClean) <= MaxStray     \* the run ends when there are more
UserActs == Alive /\ rendering # "now" /\ Few

(* The listener of the view's changes marks the active tab, or the one     *)
(* that has its index meanwhile.                                           *)
Edit ==
    /\ UserActs /\ IsText(Active) /\ edits < MaxEdits
    /\ view' = Text(view.of, edits + 1)
    /\ latest' = [latest EXCEPT ![object[Active].path] = view']
    /\ edits' = edits + 1
    /\ Marks(active, TRUE, view') /\ rendering' = "now"
    /\ LET p == object[Active].path
           missed == IF Due(active) = {p} THEN {} ELSE Due(active) \cup {p}
       IN  Strays(missed, missed) /\ UNCHANGED amid
    /\ UNCHANGED <<tabs, active, saver, opener, workerVars, runVars, requested>>

SwitchTab(i) ==
    /\ UserActs /\ i \in DOMAIN tabs
    /\ QueueUrgent([next EXCEPT !.active = i])
    /\ amid' = (amid \/ Moving)
    /\ UNCHANGED <<object, tabs, active, view, saver, opener, workerVars, runVars, countVars,
                   strayText, strayClean>>

(* Broken variant: closing the active tab leaves the index where it is.    *)
StaysActive(i) == i < active
MovesActive(i) == i <= active

(* closeFile(): edits of the tab are lost.  The index is left as it is, or *)
(* as it was last set, when a tab to the right is closed.                  *)
CloseTab(i) ==
    /\ UserActs /\ i \in DOMAIN tabs
    /\ QueueUrgent(Show(RemoveAt(tabs, i),
                        IF ~ MovesActive(i) THEN next.active
                        ELSE IF active = 1 THEN 1 ELSE active - 1))
    /\ LET p == object[tabs[i]].path
       IN  latest' = IF p = DataFile THEN latest ELSE [latest EXCEPT ![p] = disk[p]]
    /\ amid' = (amid \/ Moving)
    /\ Strays(BroughtBack(RemoveAt(tabs, i)), BroughtBack(RemoveAt(tabs, i)))
    /\ UNCHANGED <<object, tabs, active, view, saver, opener, workerVars, runVars, edits, requested>>

Request(r) ==
    /\ requested < MaxFileRequests
    /\ requested' = requested + 1
    /\ inbox' = Append(inbox, r)
    /\ UNCHANGED <<callbacks, disk, leftRead, edits>>

(* saveFile(). *)
Save ==
    /\ UserActs /\ IsText(saver.object) /\ Active # 0
    /\ object' = Synced(object, saver.object)
    /\ Request([op |-> "save", path |-> object[saver.object].path, text |-> view,
                index |-> saver.index])
    /\ UNCHANGED <<tabs, active, view, next, rendering, saver, opener, runVars, latest, strayVars>>

(* Runs whose code is being written. *)
Writing ==
    {r.run : r \in {r \in ToSet(inbox) \cup {c.request : c \in ToSet(callbacks)} : r.op = "script"}}

(* runFile() and runSelectedCode(). *)
Run ==
    /\ UserActs /\ IsText(Active)
    /\ object' = Synced(object, Active)
    /\ Request([op |-> "script", run |-> ran + 1, text |-> view])
    /\ ran' = ran + 1
    /\ overtook' = overtook \cup (Writing \X {ran + 1})
    /\ UNCHANGED <<tabs, active, view, next, rendering, saver, opener, script, executed, unrun,
                   latest, strayVars>>

(* openFilesInEditor(), of one file: its tab if there is one, and its text *)
(* otherwise, with the tabs and the active tab as they were registered.    *)
Open(p) ==
    /\ UserActs
    /\ \/ \E i \in DOMAIN tabs :
            /\ object[tabs[i]].path = p /\ \A j \in 1 .. i - 1 : object[tabs[j]].path # p
            /\ QueueUrgent(Show(tabs, i))
            /\ Strays(BroughtBack(tabs), BroughtBack(tabs))
            /\ UNCHANGED <<object, workerVars, countVars>>
       \/ /\ \A i \in DOMAIN tabs : object[tabs[i]].path # p
          /\ Request([op |-> "open", path |-> p, tabs |-> tabs, active |-> opener])
          /\ UNCHANGED <<object, next, rendering, latest, strayText, strayClean>>
    /\ UNCHANGED <<tabs, active, view, saver, opener, runVars, amid>>

(* Runs that end with requests nobody takes. *)
RunsOf(items) == {r.run : r \in {r \in items : r.op \in {"script", "source"}}}

(* Ctrl-C in the terminal: requests and lines R has not taken are dropped. *)
(* The read of R that the interrupt ends may take one more.                *)
Interrupt(registered) ==
    /\ UserActs /\ requested < MaxFileRequests /\ requested' = requested + 1
    /\ inbox' = <<>> /\ unrun' = unrun \cup RunsOf(ToSet(inbox))
    /\ leftRead' = registered
    /\ UNCHANGED <<tabVars, callbacks, disk, script, executed, ran, overtook, latest, edits, strayVars>>

LeftReadTakes ==
    /\ leftRead /\ inbox # <<>>
    /\ leftRead' = FALSE
    /\ inbox' = Tail(inbox) /\ unrun' = unrun \cup RunsOf({Head(inbox)})
    /\ UNCHANGED <<tabVars, callbacks, disk, script, executed, ran, overtook, countVars, strayVars>>

-----------------------------------------------------------------------------
(* The R worker, and what comes back from it.                              *)

(* Files may not be read or written: nothing is opened, no line is sent.   *)
(* source() runs the code that is in the file.                             *)
Serve(fails) ==
    /\ inbox # <<>> /\ ~ leftRead
    /\ inbox' = Tail(inbox)
    /\ LET r == Head(inbox)
       IN  /\ fails => r.op # "source"
           /\ disk' = IF r.op = "save" /\ ~ fails THEN [disk EXCEPT ![r.path] = r.text] ELSE disk
           /\ script' = IF r.op = "script" /\ ~ fails THEN r.run ELSE script
           /\ executed' = IF r.op = "source" THEN Append(executed, [run |-> r.run, code |-> script])
                          ELSE executed
           /\ unrun' = IF r.op = "script" /\ fails THEN unrun \cup {r.run} ELSE unrun
           /\ callbacks' = IF r.op = "source" \/ (fails /\ r.op # "save") THEN callbacks
                           ELSE Append(callbacks, [request |-> r, failed |-> fails,
                                                   text |-> IF r.op = "open" THEN disk[r.path]
                                                            ELSE view])
    /\ UNCHANGED <<tabVars, leftRead, ran, overtook, countVars, strayVars>>

Returned(op) ==
    /\ rendering # "now" /\ Few /\ callbacks # <<>> /\ Head(callbacks).request.op = op
    /\ callbacks' = Tail(callbacks) /\ UNCHANGED <<disk, leftRead>>
Back == Head(callbacks)

(* Broken variant: a tab is clean when its file could not be written.      *)
CleanAnyway(failed) == FALSE
DirtyAfter(failed) == failed

(* The tab that has the index of the save gets the view's text and mark.   *)
Saved ==
    /\ Alive /\ Returned("save")
    /\ Marks(Back.request.index, DirtyAfter(Back.failed), view) /\ rendering' = "later"
    /\ LET marked == Due(Back.request.index)
       IN  Strays(NotShown(marked),
                  NotShown(marked) \cup {p \in marked : \/ p # Back.request.path
                                                        \/ view # Back.request.text})
    /\ UNCHANGED <<tabs, active, view, saver, opener, inbox, runVars, countVars, amid>>

(* Broken variant: the line is written if the text is still in the view.   *)
LineIfShown(request) ==
    IF view = request.text THEN <<[op |-> "source", run |-> request.run]>> ELSE <<>>
LineFor(request) == <<[op |-> "source", run |-> request.run]>>

(* The line that runs the script is written to the console. *)
Scripted ==
    /\ Returned("script")
    /\ inbox' = inbox \o LineFor(Back.request)
    /\ UNCHANGED <<tabVars, runVars, countVars, strayVars>>

(* Without the application the others are not heard. *)
Unheard ==
    /\ ~ Alive /\ (Returned("save") \/ Returned("open"))
    /\ UNCHANGED <<tabVars, inbox, runVars, countVars, strayVars>>

AddTab(list, tab, o) ==
    /\ Free # {}
    /\ object' = [Synced(object, o) EXCEPT ![NewObject] = tab]
    /\ Queue(Show(Append(list, NewObject), Len(list) + 1))

Opened ==
    /\ Alive /\ Returned("open")
    /\ LET r == Back.request
           old == Back.text # disk[r.path]
                  \/ \E q \in ToSet(inbox) : q.op = "save" /\ q.path = r.path
           risked == BroughtBack(r.tabs) \cup NotShown(PathsOf({r.active}))
                     \cup ({r.path} \cap PathsOf(ToSet(tabs) \cup ToSet(next.tabs)))
       IN  /\ AddTab(r.tabs, Tab(r.path, Back.text, FALSE), r.active)
           /\ latest' = [latest EXCEPT ![r.path] = Back.text]
           /\ Strays(risked, IF old THEN risked \cup {r.path} ELSE risked)
    /\ UNCHANGED <<tabs, active, view, saver, opener, inbox, runVars, edits, requested, amid>>

(* openDataInEditor(), when R shows a data frame. *)
ShowData ==
    /\ UserActs
    /\ requested < MaxFileRequests /\ requested' = requested + 1
    /\ \/ \E i \in DOMAIN tabs :
            /\ object[tabs[i]].path = DataFile
            /\ Queue([next EXCEPT !.active = i])
            /\ amid' = (amid \/ Moving)
            /\ UNCHANGED <<object, strayText, strayClean>>
       \/ /\ \A i \in DOMAIN tabs : object[tabs[i]].path # DataFile
          /\ AddTab(tabs, Tab(DataFile, view, FALSE), opener)
          /\ LET risked == BroughtBack(tabs) \cup NotShown(PathsOf({opener}))
             IN  Strays(risked, risked)
          /\ UNCHANGED amid
    /\ UNCHANGED <<tabs, active, view, saver, opener, workerVars, runVars, latest, edits>>

EditorNext ==
    \/ Render \/ Edit \/ Save \/ Run \/ Saved \/ Scripted \/ Unheard \/ Opened \/ ShowData
    \/ \E i \in DOMAIN tabs : SwitchTab(i) \/ CloseTab(i)
    \/ \E p \in File : Open(p)
    \/ \E b \in BOOLEAN : Serve(b) \/ Interrupt(b)
    \/ LeftReadTakes

EditorSpec == EditorInit /\ [][EditorNext]_editorVars

-----------------------------------------------------------------------------
(* The tabs are objects there are, and the active one is one of them: the  *)
(* effect that shows it does not throw, unless a tab was closed or chosen  *)
(* in a list that was about to change.                                     *)
EditorTypeOK ==
    /\ object \in [1 .. MaxObjects -> [path : File \cup {DataFile}, dirty : BOOLEAN,
                                       text : [of : File, edit : 0 .. MaxEdits]]]
    /\ ToSet(tabs) \subseteq DOMAIN object
    /\ tabs # <<>> /\ ~ amid => active \in DOMAIN tabs
    /\ saver.object \in 0 .. MaxObjects /\ opener \in 0 .. MaxObjects
    /\ edits \in 0 .. MaxEdits /\ requested \in 0 .. MaxFileRequests

TextTabs == {i \in DOMAIN tabs : IsText(tabs[i])}
TextOf(i) == IF i = active THEN view ELSE object[tabs[i]].text
PathOf(i) == object[tabs[i]].path

(* Every tab has the last text its user gave it or that was read for it,   *)
(* whatever tabs were opened, closed and switched, and whatever failed or  *)
(* was interrupted.  Excused are the files whose own tab met one of these: *)
(* a save that ended with another tab at the index saveFile() remembered,  *)
(* which a tab closed to the left of it is enough for; the view stored for *)
(* a tab it no longer shows; an old list of tabs put back, or the file     *)
(* opened twice; an edit while another tab was about to take its index.    *)
TabKeepsText ==
    Alive /\ Rendered => \A i \in TextTabs : PathOf(i) \in strayText \/ TextOf(i) = latest[PathOf(i)]

(* A tab that is not marked as changed has the text of its file, also      *)
(* after saves that failed or that Ctrl-C has dropped.  Excused are the    *)
(* files above, those whose text was edited or whose tab was at another    *)
(* index when a save ended, and those read before a save was done.         *)
CleanTabIsSaved ==
    Alive /\ Rendered =>
        \A i \in TextTabs : \/ PathOf(i) \in strayClean \/ object[tabs[i]].dirty
                            \/ TextOf(i) = disk[PathOf(i)]

(* Code is run in the order it was asked to, each run once, and it is the  *)
(* code of that run, or of one that was asked for while the first was      *)
(* being written.  Every run asked for is under way, has been run, or was  *)
(* dropped by Ctrl-C or a write that failed.                               *)
RunsAsAsked ==
    /\ \A i, j \in DOMAIN executed : i < j => executed[i].run < executed[j].run
    /\ \A e \in ToSet(executed) : e.code = e.run \/ <<e.run, e.code>> \in overtook
    /\ Writing \cup RunsOf(ToSet(inbox)) \cup unrun \cup {e.run : e \in ToSet(executed)} = 1 .. ran

(* What the code says of the effect that renders a tab: it updates the     *)
(* editor's state for the active file.                                     *)
ViewShowsActiveFile == Rendered /\ IsText(Active) => view.of = object[Active].path
====
