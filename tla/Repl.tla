---- MODULE Repl ----
(***************************************************************************)
(* The REPL application around the editor (src/repl/App.tsx): the loop     *)
(* that reads R's output, the terminal, the tree of files                  *)
(* (components/Files.tsx) and the plots (components/Plot.tsx).             *)
(*                                                                         *)
(* Requests and lines for R's console go to the worker in one queue; R     *)
(* takes them one by one, a line with its output and the next prompt.      *)
(* Answers are handled as they come; output waits until the loop reads it, *)
(* and the loop stops while it opens a file for R's pager.  Ctrl-C in the  *)
(* terminal interrupts R and drops the queue (SharedChannel.Interrupt).    *)
(***************************************************************************)
EXTENDS Integers, Sequences

CONSTANTS
    ReplFile,   \* files
    MaxActs     \* bound on what the user does

ASSUME ReplAssumption == MaxActs \in Nat

VARIABLES
    toR,          \* requests and lines for the worker
    fromR,        \* answers and output on their way back
    outputs,      \* output the loop has not read
    loop,         \* the output loop: "reads", "opens", "unlinks" or "ended"
    onDisk,       \* files there are
    tree,         \* treeData: files shown
    paged,        \* files the pager has opened in the editor
    terminal,     \* the terminal reads a line
    plots,        \* canvasElements: number of plots
    selected,     \* selectedCanvas, 0 for none, as rendered
    selectNext,   \* the value of setSelectedCanvas() not yet rendered
    lastPlot,     \* the last plot when the buttons were rendered
    interrupted,  \* an interrupt is on its way to R
    deadRead,     \* the main thread holds a read that R has left
    lost,         \* history: what a reset or a dead read took, and nothing made up for
    acts          \* history: what the user has done

interruptVars == <<interrupted, deadRead, lost>>
replFileVars == <<onDisk, tree, paged>>
plotVars == <<plots, selected, selectNext, lastPlot>>
replVars == <<toR, fromR, outputs, loop, replFileVars, terminal, plotVars,
              interruptVars, acts>>

NoSelect == -1

ReplInit ==
    /\ toR = <<>> /\ fromR = <<[op |-> "prompt"]>> /\ outputs = <<>> /\ loop = "reads"
    /\ onDisk = {} /\ tree = {} /\ paged = {} /\ terminal = FALSE
    /\ plots = 0 /\ selected = 0 /\ selectNext = NoSelect /\ lastPlot = 0
    /\ interrupted = FALSE /\ deadRead = FALSE /\ lost = {} /\ acts = 0

-----------------------------------------------------------------------------
(* The R worker.                                                           *)

Lookup == [op |-> "lookup"]
FileRequest(op, f, by) == [op |-> op, file |-> f, by |-> by]
ReplRequest(r) == toR' = Append(toR, r)

(* Lines that make a file, show one in the pager, make two plots, add to   *)
(* the last one.                                                           *)
ReplLine ==
    [op : {"line"}, does : {"plots", "draws"}]
    \cup [op : {"line"}, does : {"create", "page", "pageAndDelete"}, file : ReplFile]

LineOutput(l) ==
    CASE l.does = "plots" -> <<[op |-> "newPage"], [op |-> "newPage"]>>
      [] l.does = "draws" -> <<[op |-> "image"]>>
      [] l.does \in {"page", "pageAndDelete"} ->
           <<[op |-> "pager", file |-> l.file, delete |-> l.does = "pageAndDelete"]>>
      [] l.does = "create" -> <<>>

(* A read that R has left takes the next item before R does. *)
RTakes ==
    /\ toR # <<>> /\ ~ deadRead /\ toR' = Tail(toR)
    /\ UNCHANGED <<outputs, loop, tree, paged, terminal, plotVars, deadRead, acts>>
Replies(a) == fromR' = fromR \o a
Prompts(out) == Replies(out \o <<[op |-> "prompt"]>>) /\ lost' = lost \ {"line"}

RunLine ==
    /\ RTakes /\ Head(toR).op = "line"
    /\ LET l == Head(toR)
       IN  /\ Prompts(LineOutput(l))
           /\ onDisk' = IF l.does \in {"plots", "draws"} THEN onDisk ELSE onDisk \cup {l.file}
    /\ UNCHANGED interrupted

(* R takes an interrupt at its prompt or in a line, and prompts again.     *)
CutLine ==
    /\ interrupted /\ RTakes /\ Head(toR).op = "line"
    /\ LET l == Head(toR)
       IN  \E n \in 0 .. Len(LineOutput(l)), made \in BOOLEAN :
               /\ Prompts(SubSeq(LineOutput(l), 1, n))
               /\ onDisk' = IF (made \/ n > 0) /\ l.does \notin {"plots", "draws"}
                            THEN onDisk \cup {l.file} ELSE onDisk
    /\ interrupted' = FALSE

(* The read of the prompt may be registered on the main thread when the    *)
(* queue has been reset already: nobody takes its answer.                  *)
RInterrupted(registered) ==
    /\ interrupted /\ interrupted' = FALSE
    /\ Prompts(<<>>)
    /\ deadRead' = (deadRead \/ registered)
    /\ UNCHANGED <<toR, outputs, loop, replFileVars, terminal, plotVars, acts>>

(* What is missing when a request or a line is not taken: the answer the   *)
(* output loop awaits, a prompt, the tree.                                 *)
LostAs(r) ==
    CASE r.op \in {"line", "lookup"} -> r.op
      [] r.op \in {"read", "write", "unlink"} -> IF r.by = "user" THEN "file" ELSE "pager"

DeadReadTakes ==
    /\ deadRead /\ deadRead' = FALSE
    /\ toR # <<>> /\ toR' = Tail(toR)
    /\ lost' = lost \cup {LostAs(Head(toR))}
    /\ UNCHANGED <<fromR, outputs, loop, replFileVars, terminal, plotVars, interrupted, acts>>

RunLookup ==
    /\ RTakes /\ Head(toR).op = "lookup"
    /\ Replies(<<[op |-> "lookup", files |-> onDisk]>>)
    /\ lost' = lost \ {"lookup"}
    /\ UNCHANGED <<onDisk, interrupted>>

(* readFile(), writeFile() and unlink(); those of a missing file fail. *)
RunFileRequest ==
    /\ RTakes /\ Head(toR).op \in {"read", "write", "unlink"}
    /\ LET r == Head(toR)
       IN  /\ Replies(<<[op |-> r.op, file |-> r.file, by |-> r.by,
                        good |-> r.op = "write" \/ r.file \in onDisk]>>)
           /\ onDisk' = CASE r.op = "read" -> onDisk
                          [] r.op = "write" -> onDisk \cup {r.file}
                          [] r.op = "unlink" -> onDisk \ {r.file}
    /\ UNCHANGED <<interrupted, lost>>

-----------------------------------------------------------------------------
(* Answers.                                                                *)

(* Broken variant: the loop does not wait for the pager's file.            *)
NoAwait(state) == "reads"
Awaits(state) == state

Arrives(op) ==
    /\ fromR # <<>> /\ Head(fromR).op = op /\ fromR' = Tail(fromR)
    /\ UNCHANGED <<onDisk, terminal, plotVars, interruptVars, acts>>
Arrived == Head(fromR)

(* refreshFilesystem() *)
TreeArrives ==
    /\ Arrives("lookup") /\ tree' = Arrived.files
    /\ UNCHANGED <<toR, outputs, loop, paged>>

(* The end of handlePagerMessage(). *)
PagerOpened(f, delete) ==
    IF delete THEN ReplRequest(FileRequest("unlink", f, "pager")) /\ loop' = Awaits("unlinks")
    ELSE loop' = "reads" /\ UNCHANGED toR

ReadArrives ==
    /\ Arrives("read")
    /\ IF Arrived.good
       THEN /\ paged' = paged \cup {Arrived.file}
            /\ PagerOpened(Arrived.file, Arrived.by = "pagerDelete")
       ELSE loop' = "ended" /\ UNCHANGED <<paged, toR>>
    /\ UNCHANGED <<outputs, tree>>

UnlinkArrives ==
    /\ Arrives("unlink")
    /\ IF Arrived.by = "pager"
       THEN loop' = (IF Arrived.good THEN "reads" ELSE "ended") /\ UNCHANGED toR
       ELSE /\ IF Arrived.good THEN ReplRequest(Lookup) ELSE UNCHANGED toR
            /\ UNCHANGED loop
    /\ UNCHANGED <<outputs, tree, paged>>

(* The tree is looked up again when a file was written. *)
WriteArrives ==
    /\ Arrives("write") /\ ReplRequest(Lookup)
    /\ UNCHANGED <<outputs, loop, tree, paged>>

OutputArrives ==
    /\ \E op \in {"prompt", "pager", "newPage", "image"} : Arrives(op)
    /\ outputs' = Append(outputs, Arrived)
    /\ UNCHANGED <<toR, loop, tree, paged>>

-----------------------------------------------------------------------------
(* The output loop.                                                        *)

LoopReads(op) ==
    /\ loop = "reads" /\ outputs # <<>> /\ Head(outputs).op = op /\ outputs' = Tail(outputs)
    /\ UNCHANGED <<fromR, onDisk, tree, paged, selected, lastPlot, interruptVars, acts>>

(* The terminal reads; a read it had not finished is forgotten. *)
LoopPrompt ==
    /\ LoopReads("prompt") /\ ReplRequest(Lookup) /\ terminal' = TRUE
    /\ UNCHANGED <<loop, plots, selectNext>>

(* handlePagerMessage() *)
LoopPager ==
    /\ LoopReads("pager")
    /\ LET m == Head(outputs)
       IN  IF m.file \in paged THEN PagerOpened(m.file, m.delete)
           ELSE /\ ReplRequest(FileRequest("read", m.file,
                                           IF m.delete THEN "pagerDelete" ELSE "pager"))
                /\ loop' = Awaits("opens")
    /\ UNCHANGED <<terminal, plots, selectNext>>

(* newPlot() *)
LoopNewPage ==
    /\ LoopReads("newPage")
    /\ plots' = plots + 1 /\ selectNext' = plots'
    /\ UNCHANGED <<toR, loop, terminal>>

(* drawImage(): on the plot that was last started. *)
LoopImage ==
    /\ LoopReads("image") /\ UNCHANGED <<toR, loop, terminal, plots, selectNext>>

-----------------------------------------------------------------------------
(* The user.                                                               *)

Acts ==
    /\ acts < MaxActs /\ acts' = acts + 1
    /\ UNCHANGED <<fromR, outputs, loop, replFileVars>>
Asks == Acts /\ UNCHANGED interruptVars

(* A line typed in the terminal, or one the editor runs. *)
UserRuns(l, typed) ==
    /\ Asks
    /\ typed => terminal
    /\ terminal' = (terminal /\ ~ typed)
    /\ ReplRequest(l) /\ UNCHANGED plotVars

(* Files are made, uploaded, saved and deleted at any time. *)
UserWrites(f) == Asks /\ ReplRequest(FileRequest("write", f, "user")) /\ UNCHANGED <<terminal, plotVars>>
UserDeletes(f) ==
    /\ Asks /\ f \in tree
    /\ ReplRequest(FileRequest("unlink", f, "user")) /\ UNCHANGED <<terminal, plotVars>>

(* Ctrl-C: what R has not taken is dropped; a line it is running stays.    *)
UserInterrupts(running) ==
    /\ Acts
    /\ running => toR # <<>> /\ Head(toR).op = "line" /\ ~ deadRead
    /\ LET kept == IF running THEN <<Head(toR)>> ELSE <<>>
       IN  /\ toR' = kept
           /\ lost' = lost \cup {LostAs(toR[i]) : i \in DOMAIN toR \ DOMAIN kept}
    /\ interrupted' = TRUE /\ deadRead' = FALSE
    /\ UNCHANGED <<terminal, plotVars>>

PlotsRender ==
    /\ selectNext # NoSelect
    /\ selected' = selectNext /\ selectNext' = NoSelect /\ lastPlot' = plots
    /\ UNCHANGED <<toR, fromR, outputs, loop, replFileVars, terminal, plots, interruptVars, acts>>

(* A click is rendered before anything else. *)
Click(n) ==
    /\ Asks /\ selected' = n /\ selectNext' = NoSelect /\ lastPlot' = plots'
    /\ UNCHANGED <<toR, terminal>>

NextPlot == selected # 0 /\ selected # lastPlot /\ UNCHANGED plots /\ Click(selected + 1)
PrevPlot == selected > 1 /\ UNCHANGED plots /\ Click(selected - 1)

(* Broken variant: the plots go and the selection stays.                   *)
KeepSelection == selected
NoSelection == 0

(* clearPlots(): R goes on drawing on the last plot, which is not shown. *)
ClearPlots == selected # 0 /\ plots' = 0 /\ Click(NoSelection)

ReplNext ==
    \/ RunLine \/ CutLine \/ RunLookup \/ RunFileRequest \/ DeadReadTakes
    \/ \E b \in BOOLEAN : RInterrupted(b) \/ UserInterrupts(b)
    \/ TreeArrives \/ ReadArrives \/ UnlinkArrives \/ WriteArrives \/ OutputArrives
    \/ LoopPrompt \/ LoopPager \/ LoopNewPage \/ LoopImage
    \/ PlotsRender \/ NextPlot \/ PrevPlot \/ ClearPlots
    \/ \E l \in ReplLine, typed \in BOOLEAN : UserRuns(l, typed)
    \/ \E f \in ReplFile : UserWrites(f) \/ UserDeletes(f)

ReplSpec == ReplInit /\ [][ReplNext]_replVars

-----------------------------------------------------------------------------
(* When nothing is on its way and the output loop has nothing it can read  *)
(* or has not failed, it reads, the terminal reads, and the tree shows the *)
(* files there are, those that R, the user and the pager have made and     *)
(* deleted included.  A loop that awaits the pager's file without an       *)
(* answer under way, a terminal without a prompt and an old tree are left  *)
(* behind only when the request or the line itself was lost to Ctrl-C.     *)
ReplSettles ==
    toR = <<>> /\ fromR = <<>> /\ loop # "ended" =>
        \/ loop # "reads" /\ "pager" \in lost
        \/ loop = "reads" /\ outputs # <<>>
        \/ /\ loop = "reads"
           /\ terminal \/ "line" \in lost
           /\ tree = onDisk \/ "lookup" \in lost

(* The plot selected, rendered or to be rendered, is one there is, also    *)
(* when plots are cleared and new ones come before the last selection was  *)
(* rendered: a rendering that selects a missing one fails.                 *)
SelectedPlotExists == selected <= plots /\ selectNext <= plots
====
