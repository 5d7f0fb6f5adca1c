---- MODULE ReplProofs ----
(***************************************************************************)
(* The REPL application, for any files and however much its user does: the *)
(* plot selected is one there is, whatever is drawn, cleared and clicked;  *)
(* the loop, the terminal and the tree of files come to rest together; the *)
(* editor's code is run in the order it was asked to; and its tabs keep    *)
(* their texts, and are those of their files unless marked.                *)
(***************************************************************************)
EXTENDS Repl, Editor, SequenceTheorems, TLAPS

(* The buttons were rendered when the last plot there was, was a plot: one *)
(* after the selected one exists unless that is the last rendered.         *)
PlotsInv ==
    /\ plots \in Nat /\ lastPlot \in Nat /\ selected \in Nat
    /\ selectNext \in Nat \cup {NoSelect}
    /\ selected <= lastPlot /\ lastPlot <= plots
    /\ selectNext <= plots

LEMMA PlotsInitial == ReplInit => PlotsInv
  BY DEF ReplInit, PlotsInv, NoSelect

(* Only the loop's new plots, renderings and clicks touch the plots. *)
LEMMA PlotsStep == PlotsInv /\ [ReplNext]_replVars => PlotsInv'
<1> SUFFICES ASSUME PlotsInv, [ReplNext]_replVars PROVE PlotsInv'
  OBVIOUS
<1> USE DEF PlotsInv, NoSelect
<1>1. CASE LoopNewPage
  BY <1>1 DEF LoopNewPage, LoopReads
<1>2. CASE PlotsRender
  BY <1>2 DEF PlotsRender
<1>3. CASE NextPlot
  BY <1>3 DEF NextPlot, Click
<1>4. CASE PrevPlot
  BY <1>4 DEF PrevPlot, Click
<1>5. CASE ClearPlots
  BY <1>5 DEF ClearPlots, Click, NoSelection
<1>6. CASE UNCHANGED plotVars
  BY <1>6 DEF plotVars
<1>7. ASSUME \/ RunLine \/ CutLine \/ RunLookup \/ RunFileRequest \/ DeadReadTakes
             \/ \E b \in BOOLEAN : RInterrupted(b) \/ UserInterrupts(b)
      PROVE UNCHANGED plotVars
  BY <1>7 DEF RunLine, CutLine, RunLookup, RunFileRequest, DeadReadTakes, RTakes, RInterrupted,
              UserInterrupts
<1>8. ASSUME TreeArrives \/ ReadArrives \/ UnlinkArrives \/ WriteArrives \/ OutputArrives
      PROVE UNCHANGED plotVars
  BY <1>8 DEF TreeArrives, ReadArrives, UnlinkArrives, WriteArrives, OutputArrives, Arrives
<1>9. ASSUME LoopPrompt \/ LoopPager \/ LoopImage PROVE UNCHANGED plotVars
  BY <1>9 DEF LoopPrompt, LoopPager, LoopImage, LoopReads, plotVars
<1>10. ASSUME \/ \E l \in ReplLine, typed \in BOOLEAN : UserRuns(l, typed)
              \/ \E f \in ReplFile : UserWrites(f) \/ UserDeletes(f)
       PROVE UNCHANGED plotVars
  BY <1>10 DEF UserRuns, UserWrites, UserDeletes
<1>11. CASE UNCHANGED replVars
  BY <1>6, <1>11 DEF replVars
<1> QED BY <1>1, <1>2, <1>3, <1>4, <1>5, <1>6, <1>7, <1>8, <1>9, <1>10, <1>11 DEF ReplNext

(* No rendering selects a plot that is not there. *)
THEOREM SelectionIsAPlot == ReplSpec => []SelectedPlotExists
<1>1. PlotsInv => SelectedPlotExists
  BY DEF PlotsInv, SelectedPlotExists, NoSelect
<1> QED BY <1>1, PlotsInitial, PlotsStep, PTL DEF ReplSpec


-----------------------------------------------------------------------------
(* What goes to R, what comes back, and what the loop has not read.        *)

Question ==
    {Lookup} \cup ReplLine
    \cup [op : {"write", "unlink"}, file : ReplFile, by : {"user"}]
    \cup [op : {"unlink"}, file : ReplFile, by : {"pager"}]
    \cup [op : {"read"}, file : ReplFile, by : {"pager", "pagerDelete"}]
Output ==
    [op : {"prompt", "newPage", "image"}] \cup [op : {"pager"}, file : ReplFile, delete : BOOLEAN]
Answer ==
    Output \cup [op : {"lookup"}, files : SUBSET ReplFile]
    \cup [op : {"write", "unlink"}, file : ReplFile, by : {"user"}, good : BOOLEAN]
    \cup [op : {"unlink"}, file : ReplFile, by : {"pager"}, good : BOOLEAN]
    \cup [op : {"read"}, file : ReplFile, by : {"pager", "pagerDelete"}, good : BOOLEAN]

ReplTypes ==
    /\ toR \in Seq(Question) /\ fromR \in Seq(Answer) /\ outputs \in Seq(Output)
    /\ loop \in {"reads", "opens", "unlinks", "ended"} /\ onDisk \subseteq ReplFile

(* A request of the pager, or its answer, and what the loop does for it.   *)
OfPager(m) == m.op \in {"read", "unlink"} /\ m.by # "user"
Awaiting(m) == IF m.op = "read" THEN "opens" ELSE "unlinks"

PagerIn(s) == \E i \in 1 .. Len(s) : OfPager(s[i])
OnePager(s, state) ==
    \A i \in 1 .. Len(s) : OfPager(s[i]) =>
      state = Awaiting(s[i]) /\ \A j \in 1 .. Len(s) : OfPager(s[j]) => i = j

(* One request of the pager is under way while the loop waits, unless it   *)
(* was lost, else none.                                                    *)
PagerWaits ==
    /\ OnePager(toR, loop) /\ OnePager(fromR, loop)
    /\ ~ (PagerIn(toR) /\ PagerIn(fromR))
    /\ loop \in {"opens", "unlinks"} => PagerIn(toR) \/ PagerIn(fromR) \/ "pager" \in lost

(* A prompt comes after what the pager shows.                              *)
PromptIn(s) == \E i \in 1 .. Len(s) : s[i].op = "prompt"
PromptAfterPager(s, later) ==
    \A i \in 1 .. Len(s) : s[i].op = "pager" =>
      PromptIn(later) \/ \E j \in i + 1 .. Len(s) : s[j].op = "prompt"
PromptFollows ==
    /\ PromptAfterPager(fromR, <<>>) /\ PromptAfterPager(outputs, fromR)
    /\ loop \in {"opens", "unlinks"} => PromptIn(fromR) \/ PromptIn(outputs)

LineIn(s) == \E i \in 1 .. Len(s) : s[i].op = "line"
TerminalFollows ==
    terminal = TRUE \/ PromptIn(fromR) \/ PromptIn(outputs) \/ LineIn(toR) \/ "line" \in lost

(* The tree is what is present on disk, the last answer under way tells it, *)
(* or something under way ends in a lookup, or that was lost.              *)
LooksUp(s) == \E i \in 1 .. Len(s) : s[i].op = "lookup"
Changed(m) == m.op = "write" \/ (m.op = "unlink" /\ m.by = "user" /\ m.good)
ChangeIn(s) == \E i \in 1 .. Len(s) : Changed(s[i])
LookupFollows ==
    LooksUp(toR) \/ PromptIn(fromR) \/ PromptIn(outputs) \/ ChangeIn(fromR) \/ "lookup" \in lost
Tells(s, shown, present) ==
    \/ shown = present /\ \A i \in 1 .. Len(s) : s[i].op # "lookup"
    \/ \E i \in 1 .. Len(s) :
         /\ s[i].op = "lookup" /\ s[i].files = present
         /\ \A j \in i + 1 .. Len(s) : s[j].op # "lookup"

SettlesInv ==
    /\ ReplTypes /\ PagerWaits /\ PromptFollows /\ TerminalFollows
    /\ LookupFollows \/ Tells(fromR, tree, onDisk)

-----------------------------------------------------------------------------
(* What a step does to a queue: an element put at its end, or taken from   *)
(* its front, or the output of a line put at its end.                      *)

Adds(s, t, m) ==
    /\ Len(s) \in Nat /\ Len(s) + 1 \in 1 .. Len(t) /\ t[Len(s) + 1] = m
    /\ \A i \in 1 .. Len(s) : i \in 1 .. Len(t) /\ t[i] = s[i]
    /\ \A i \in 1 .. Len(t) : \/ i \in 1 .. Len(s) /\ t[i] = s[i]
                              \/ i = Len(s) + 1 /\ t[i] = m
Drops(s, t) ==
    /\ Len(s) \in Nat /\ 1 \in 1 .. Len(s) /\ Len(t) = Len(s) - 1
    /\ \A i \in 1 .. Len(t) : i + 1 \in 1 .. Len(s) /\ t[i] = s[i + 1]
    /\ \A i \in 1 .. Len(s) : i = 1 \/ (i - 1 \in 1 .. Len(t) /\ t[i - 1] = s[i])
Prints(s, t) ==
    /\ Len(s) \in Nat /\ Len(t) \in Nat /\ Len(t) >= Len(s) + 1 /\ t[Len(t)] = [op |-> "prompt"]
    /\ \A i \in 1 .. Len(s) : i \in 1 .. Len(t) /\ t[i] = s[i]
    /\ \A i \in 1 .. Len(t) : (i \in 1 .. Len(s) /\ t[i] = s[i]) \/ t[i] \in Output

LEMMA AppendAdds ==
    ASSUME NEW S, NEW s \in Seq(S), NEW m \in S
    PROVE  Append(s, m) \in Seq(S) /\ Adds(s, Append(s, m), m)
<1> DEFINE t == Append(s, m)
<1>1. t \in Seq(S) /\ Len(s) \in Nat /\ Len(t) = Len(s) + 1 /\ t[Len(s) + 1] = m
      /\ \A i \in 1 .. Len(s) : t[i] = s[i]
  OBVIOUS
<1> HIDE DEF t
<1>2. /\ Len(s) + 1 \in 1 .. Len(t)
      /\ \A i \in 1 .. Len(s) : i \in 1 .. Len(t)
      /\ \A i \in 1 .. Len(t) : i \in 1 .. Len(s) \/ i = Len(s) + 1
  BY <1>1
<1> QED BY <1>1, <1>2 DEF Adds, t

LEMMA TailDrops ==
    ASSUME NEW S, NEW s \in Seq(S), s # <<>>
    PROVE  Tail(s) \in Seq(S) /\ Drops(s, Tail(s)) /\ Head(s) = s[1] /\ Head(s) \in S
<1> DEFINE t == Tail(s)
<1>1. t \in Seq(S) /\ Len(s) \in Nat /\ Len(s) >= 1 /\ Len(t) = Len(s) - 1
      /\ \A i \in 1 .. Len(t) : t[i] = s[i + 1]
  OBVIOUS
<1>2. Head(s) = s[1] /\ Head(s) \in S
  OBVIOUS
<1> HIDE DEF t
<1>3. 1 \in 1 .. Len(s) /\ \A i \in 1 .. Len(t) : i + 1 \in 1 .. Len(s)
  BY <1>1
<1>4. ASSUME NEW i \in 1 .. Len(s), i # 1
      PROVE  i - 1 \in 1 .. Len(t) /\ t[i - 1] = s[i]
  <2>1. i - 1 \in 1 .. Len(t) /\ (i - 1) + 1 = i
    BY <1>1, <1>4
  <2> QED BY <1>1, <2>1
<1> QED BY <1>1, <1>2, <1>3, <1>4 DEF Drops, t

LEMMA LineOutputs == ASSUME NEW l \in ReplLine PROVE LineOutput(l) \in Seq(Output)
<1> DEFINE o == LineOutput(l)
<1>1. /\ [op |-> "newPage"] \in Output /\ [op |-> "image"] \in Output
      /\ \A f \in ReplFile, b \in BOOLEAN : [op |-> "pager", file |-> f, delete |-> b] \in Output
  BY DEF Output
<1>2. CASE l.does = "plots"
  BY <1>1, <1>2 DEF LineOutput
<1>3. CASE l.does = "draws"
  BY <1>1, <1>3 DEF LineOutput
<1>4. CASE l.does \in {"page", "pageAndDelete"}
  <2>1. l.file \in ReplFile
    BY <1>4 DEF ReplLine
  <2>2. o = <<[op |-> "pager", file |-> l.file, delete |-> l.does = "pageAndDelete"]>>
    BY <1>4 DEF LineOutput
  <2>3. (l.does = "pageAndDelete") \in BOOLEAN
    OBVIOUS
  <2>4. [op |-> "pager", file |-> l.file, delete |-> l.does = "pageAndDelete"] \in Output
    BY <1>1, <2>1, <2>3
  <2> HIDE DEF o
  <2>5. o \in Seq(Output)
    BY <2>2, <2>4
  <2> QED BY <2>5 DEF o
<1>5. CASE l.does = "create"
  BY <1>5 DEF LineOutput
<1>6. l.does \in {"plots", "draws", "create", "page", "pageAndDelete"}
  BY DEF ReplLine
<1> QED BY <1>2, <1>3, <1>4, <1>5, <1>6

LEMMA LinePrints ==
    ASSUME NEW s \in Seq(Answer), NEW o \in Seq(Output)
    PROVE  LET t == s \o (o \o <<[op |-> "prompt"]>>)
           IN  t \in Seq(Answer) /\ Prints(s, t)
<1> DEFINE e == [op |-> "prompt"]
           a == o \o <<e>>
           t == s \o a
<1>1. e \in Output
  BY DEF Output
<1> HIDE DEF e
<1>3. <<e>> \in Seq(Output) /\ Len(<<e>>) = 1 /\ <<e>>[1] = e
  BY <1>1
<1>4. /\ a \in Seq(Output) /\ Len(o) \in Nat /\ Len(a) = Len(o) + 1 /\ a[Len(o) + 1] = e
  BY <1>3
<1> HIDE DEF a
<1>5. a \in Seq(Answer) /\ \A k \in 1 .. Len(a) : a[k] \in Output
  <2>1. Output \subseteq Answer
    BY DEF Answer
  <2> QED BY <1>4, <2>1
<1>6. /\ t \in Seq(Answer) /\ Len(s) \in Nat /\ Len(a) \in Nat /\ Len(t) = Len(s) + Len(a)
      /\ \A i \in 1 .. Len(s) : t[i] = s[i]
      /\ \A k \in 1 .. Len(a) : t[Len(s) + k] = a[k]
  BY <1>5
<1> HIDE DEF t
<1>7. Len(t) >= Len(s) + 1 /\ Len(t) \in Nat /\ t[Len(t)] = e
  <2>1. Len(a) \in 1 .. Len(a) /\ a[Len(a)] = e
    BY <1>4
  <2> QED BY <1>4, <1>6, <2>1
<1>8. ASSUME NEW i \in 1 .. Len(t) PROVE (i \in 1 .. Len(s) /\ t[i] = s[i]) \/ t[i] \in Output
  <2>1. CASE i \in 1 .. Len(s)
    BY <1>6, <2>1
  <2>2. CASE i \notin 1 .. Len(s)
    <3>1. i - Len(s) \in 1 .. Len(a) /\ Len(s) + (i - Len(s)) = i
      BY <1>6, <2>2
    <3> QED BY <1>5, <1>6, <3>1
  <2> QED BY <2>1, <2>2
<1>9. \A i \in 1 .. Len(s) : i \in 1 .. Len(t) /\ t[i] = s[i]
  BY <1>6
<1> QED BY <1>6, <1>7, <1>8, <1>9 DEF Prints, e, a, t

(* What that does to what is said of a queue.                              *)

LEMMA PagerQueue ==
    ASSUME NEW s, NEW t, NEW m, NEW state, OnePager(s, state)
    PROVE  /\ Adds(s, t, m) /\ ~ OfPager(m) => OnePager(t, state) /\ (PagerIn(t) <=> PagerIn(s))
           /\ Adds(s, t, m) /\ OfPager(m) /\ ~ PagerIn(s) =>
                OnePager(t, Awaiting(m)) /\ PagerIn(t)
           /\ Drops(s, t) /\ ~ OfPager(s[1]) => OnePager(t, state) /\ (PagerIn(t) <=> PagerIn(s))
           /\ Drops(s, t) /\ OfPager(s[1]) => ~ PagerIn(t) /\ PagerIn(s) /\ state = Awaiting(s[1])
           /\ Prints(s, t) => OnePager(t, state) /\ (PagerIn(t) <=> PagerIn(s))
<1>1. ASSUME Adds(s, t, m), ~ OfPager(m) PROVE OnePager(t, state) /\ (PagerIn(t) <=> PagerIn(s))
  <2>1. \A i \in 1 .. Len(t) : OfPager(t[i]) => i \in 1 .. Len(s) /\ t[i] = s[i]
    BY <1>1 DEF Adds
  <2>2. \A i \in 1 .. Len(s) : i \in 1 .. Len(t) /\ t[i] = s[i]
    BY <1>1 DEF Adds
  <2> QED BY <2>1, <2>2 DEF OnePager, PagerIn
<1>2. ASSUME Adds(s, t, m), OfPager(m), ~ PagerIn(s) PROVE OnePager(t, Awaiting(m)) /\ PagerIn(t)
  <2>1. \A i \in 1 .. Len(t) : OfPager(t[i]) => i = Len(s) + 1 /\ t[i] = m
    BY <1>2 DEF Adds, PagerIn
  <2>2. Len(s) + 1 \in 1 .. Len(t) /\ t[Len(s) + 1] = m
    BY <1>2 DEF Adds
  <2> QED BY <1>2, <2>1, <2>2 DEF OnePager, PagerIn
<1>3. ASSUME Drops(s, t) PROVE \A i \in 1 .. Len(t) : i + 1 \in 1 .. Len(s) /\ t[i] = s[i + 1] /\ i + 1 # 1
  <2>1. \A i \in 1 .. Len(t) : i + 1 # 1
    BY <1>3 DEF Drops
  <2> QED BY <1>3, <2>1 DEF Drops
<1>4. ASSUME Drops(s, t), ~ OfPager(s[1]) PROVE OnePager(t, state) /\ (PagerIn(t) <=> PagerIn(s))
  <2>1. \A i, j \in 1 .. Len(t) : i + 1 = j + 1 => i = j
    OBVIOUS
  <2>2. \A i \in 1 .. Len(s) : OfPager(s[i]) => i - 1 \in 1 .. Len(t) /\ t[i - 1] = s[i]
    BY <1>4 DEF Drops
  <2>3. OnePager(t, state)
    BY <1>3, <1>4, <2>1 DEF OnePager
  <2>4. PagerIn(t) <=> PagerIn(s)
    BY <1>3, <1>4, <2>2 DEF PagerIn
  <2> QED BY <2>3, <2>4
<1>5. ASSUME Drops(s, t), OfPager(s[1]) PROVE ~ PagerIn(t) /\ PagerIn(s) /\ state = Awaiting(s[1])
  <2>1. 1 \in 1 .. Len(s)
    BY <1>5 DEF Drops
  <2>2. \A i \in 1 .. Len(s) : OfPager(s[i]) => i = 1
    BY <1>5, <2>1 DEF OnePager
  <2>3. ~ PagerIn(t)
    BY <1>3, <1>5, <2>2 DEF PagerIn
  <2> QED BY <1>5, <2>1, <2>3 DEF PagerIn, OnePager
<1>6. ASSUME Prints(s, t) PROVE OnePager(t, state) /\ (PagerIn(t) <=> PagerIn(s))
  <2>0. \A x \in Output : ~ OfPager(x)
    BY DEF Output, OfPager
  <2>1. \A i \in 1 .. Len(t) : OfPager(t[i]) => i \in 1 .. Len(s) /\ t[i] = s[i]
    BY <1>6, <2>0 DEF Prints
  <2>2. \A i \in 1 .. Len(s) : i \in 1 .. Len(t) /\ t[i] = s[i]
    BY <1>6 DEF Prints
  <2> QED BY <2>1, <2>2 DEF OnePager, PagerIn
<1> QED BY <1>1, <1>2, <1>4, <1>5, <1>6

LEMMA PromptQueue ==
    ASSUME NEW s, NEW t, NEW m
    PROVE  /\ Adds(s, t, m) => (PromptIn(t) <=> PromptIn(s) \/ m.op = "prompt")
           /\ Drops(s, t) /\ s[1].op # "prompt" => (PromptIn(t) <=> PromptIn(s))
           /\ Prints(s, t) => PromptIn(t)
<1>1. ASSUME Adds(s, t, m) PROVE PromptIn(t) <=> PromptIn(s) \/ m.op = "prompt"
  BY <1>1 DEF Adds, PromptIn
<1>2. ASSUME Drops(s, t), s[1].op # "prompt" PROVE PromptIn(t) <=> PromptIn(s)
  <2>1. \A i \in 1 .. Len(s) : s[i].op = "prompt" => i - 1 \in 1 .. Len(t) /\ t[i - 1] = s[i]
    BY <1>2 DEF Drops
  <2>2. \A i \in 1 .. Len(t) : i + 1 \in 1 .. Len(s) /\ t[i] = s[i + 1]
    BY <1>2 DEF Drops
  <2> QED BY <2>1, <2>2 DEF PromptIn
<1>3. ASSUME Prints(s, t) PROVE PromptIn(t)
  <2>1. Len(t) \in 1 .. Len(t) /\ t[Len(t)].op = "prompt"
    BY <1>3 DEF Prints
  <2> QED BY <2>1 DEF PromptIn
<1> QED BY <1>1, <1>2, <1>3


LEMMA NoPromptInNone == ~ PromptIn(<<>>)
BY DEF PromptIn

LEMMA FollowQueue ==
    ASSUME NEW s, NEW t, NEW m, NEW later, NEW after, PromptAfterPager(s, later)
    PROVE  /\ Adds(s, t, m) /\ m.op # "pager" /\ (PromptIn(later) => PromptIn(after) \/ m.op = "prompt") =>
                PromptAfterPager(t, after)
           /\ Adds(s, t, m) /\ PromptIn(after) => PromptAfterPager(t, after)
           /\ Drops(s, t) /\ (PromptIn(later) => PromptIn(after)) => PromptAfterPager(t, after)
           /\ Drops(s, t) /\ s[1].op = "pager" => PromptIn(later) \/ PromptIn(t)
           /\ Prints(s, t) => PromptAfterPager(t, after)
           /\ (PromptIn(later) => PromptIn(after)) => PromptAfterPager(s, after)
<1>1. ASSUME Adds(s, t, m), m.op # "pager", PromptIn(later) => PromptIn(after) \/ m.op = "prompt"
      PROVE  PromptAfterPager(t, after)
  <2> SUFFICES ASSUME NEW i \in 1 .. Len(t), t[i].op = "pager", ~ PromptIn(after)
               PROVE  \E j \in i + 1 .. Len(t) : t[j].op = "prompt"
    BY DEF PromptAfterPager
  <2>1. i \in 1 .. Len(s) /\ s[i].op = "pager" /\ Len(s) \in Nat
    BY <1>1 DEF Adds
  <2>2. CASE m.op = "prompt"
    <3>1. Len(s) + 1 \in i + 1 .. Len(t) /\ t[Len(s) + 1].op = "prompt"
      BY <1>1, <2>1, <2>2 DEF Adds
    <3> QED BY <3>1
  <2>3. CASE \E j \in i + 1 .. Len(s) : s[j].op = "prompt"
    <3>1. PICK j \in i + 1 .. Len(s) : s[j].op = "prompt"
      BY <2>3
    <3>2. j \in 1 .. Len(s)
      BY <2>1
    <3>3. j \in 1 .. Len(t) /\ t[j] = s[j]
      BY <1>1, <3>2 DEF Adds
    <3>4. j \in i + 1 .. Len(t)
      BY <3>3
    <3> QED BY <3>1, <3>3, <3>4
  <2> QED BY <1>1, <2>1, <2>2, <2>3 DEF PromptAfterPager
<1>2. ASSUME Drops(s, t), PromptIn(later) => PromptIn(after) PROVE PromptAfterPager(t, after)
  <2> SUFFICES ASSUME NEW i \in 1 .. Len(t), t[i].op = "pager", ~ PromptIn(after)
               PROVE  \E j \in i + 1 .. Len(t) : t[j].op = "prompt"
    BY DEF PromptAfterPager
  <2>1. i + 1 \in 1 .. Len(s) /\ s[i + 1].op = "pager" /\ Len(s) \in Nat
    BY <1>2 DEF Drops
  <2>2. PICK j \in (i + 1) + 1 .. Len(s) : s[j].op = "prompt"
    BY <1>2, <2>1 DEF PromptAfterPager
  <2>3. j \in 1 .. Len(s) /\ j # 1
    BY <2>1
  <2>4. j - 1 \in 1 .. Len(t) /\ t[j - 1] = s[j]
    BY <1>2, <2>3 DEF Drops
  <2>5. j - 1 \in i + 1 .. Len(t)
    BY <2>4
  <2> QED BY <2>2, <2>4, <2>5
<1>3. ASSUME Drops(s, t), s[1].op = "pager" PROVE PromptIn(later) \/ PromptIn(t)
  <2> SUFFICES ASSUME ~ PromptIn(later) PROVE PromptIn(t)
    OBVIOUS
  <2>1. 1 \in 1 .. Len(s) /\ Len(s) \in Nat
    BY <1>3 DEF Drops
  <2>2. PICK j \in 1 + 1 .. Len(s) : s[j].op = "prompt"
    BY <1>3, <2>1 DEF PromptAfterPager
  <2>3. j \in 1 .. Len(s) /\ j # 1
    BY <2>1
  <2>4. j - 1 \in 1 .. Len(t) /\ t[j - 1] = s[j]
    BY <1>3, <2>3 DEF Drops
  <2> QED BY <2>2, <2>4 DEF PromptIn
<1>4. ASSUME Prints(s, t) PROVE PromptAfterPager(t, after)
  <2> SUFFICES ASSUME NEW i \in 1 .. Len(t), t[i].op = "pager"
               PROVE  \E j \in i + 1 .. Len(t) : t[j].op = "prompt"
    BY DEF PromptAfterPager
  <2>1. Len(t) \in Nat /\ t[Len(t)].op = "prompt"
    BY <1>4 DEF Prints
  <2>2. i # Len(t)
    BY <2>1
  <2>3. Len(t) \in i + 1 .. Len(t)
    BY <2>1, <2>2
  <2> QED BY <2>1, <2>3
<1>5. ASSUME PromptIn(later) => PromptIn(after) PROVE PromptAfterPager(s, after)
  BY <1>5 DEF PromptAfterPager
<1>6. ASSUME Adds(s, t, m), PromptIn(after) PROVE PromptAfterPager(t, after)
  BY <1>6 DEF PromptAfterPager
<1> QED BY <1>1, <1>2, <1>3, <1>4, <1>5, <1>6

LEMMA LookQueue ==
    ASSUME NEW s, NEW t, NEW m
    PROVE  /\ Adds(s, t, m) => /\ LineIn(s) \/ m.op = "line" => LineIn(t)
                               /\ LooksUp(s) \/ m.op = "lookup" => LooksUp(t)
                               /\ ChangeIn(s) \/ Changed(m) => ChangeIn(t)
           /\ Drops(s, t) => /\ LineIn(s) /\ s[1].op # "line" => LineIn(t)
                             /\ LooksUp(s) /\ s[1].op # "lookup" => LooksUp(t)
                             /\ ChangeIn(s) /\ ~ Changed(s[1]) => ChangeIn(t)
<1>1. ASSUME Adds(s, t, m)
      PROVE  /\ LineIn(s) \/ m.op = "line" => LineIn(t)
             /\ LooksUp(s) \/ m.op = "lookup" => LooksUp(t)
             /\ ChangeIn(s) \/ Changed(m) => ChangeIn(t)
  <2>1. /\ \A i \in 1 .. Len(s) : i \in 1 .. Len(t) /\ t[i] = s[i]
        /\ \E i \in 1 .. Len(t) : t[i] = m
    BY <1>1 DEF Adds
  <2>2. LineIn(s) \/ m.op = "line" => LineIn(t)
    BY <2>1 DEF LineIn
  <2>3. LooksUp(s) \/ m.op = "lookup" => LooksUp(t)
    BY <2>1 DEF LooksUp
  <2>4. ChangeIn(s) \/ Changed(m) => ChangeIn(t)
    BY <2>1 DEF ChangeIn
  <2> QED BY <2>2, <2>3, <2>4
<1>2. ASSUME Drops(s, t)
      PROVE  /\ LineIn(s) /\ s[1].op # "line" => LineIn(t)
             /\ LooksUp(s) /\ s[1].op # "lookup" => LooksUp(t)
             /\ ChangeIn(s) /\ ~ Changed(s[1]) => ChangeIn(t)
  <2>1. \A i \in 1 .. Len(s) : i = 1 \/ \E k \in 1 .. Len(t) : t[k] = s[i]
    BY <1>2 DEF Drops
  <2>2. LineIn(s) /\ s[1].op # "line" => LineIn(t)
    BY <2>1 DEF LineIn
  <2>3. LooksUp(s) /\ s[1].op # "lookup" => LooksUp(t)
    BY <2>1 DEF LooksUp
  <2>4. ChangeIn(s) /\ ~ Changed(s[1]) => ChangeIn(t)
    BY <2>1 DEF ChangeIn
  <2> QED BY <2>2, <2>3, <2>4
<1> QED BY <1>1, <1>2

LEMMA ShowsQueue ==
    ASSUME NEW s, NEW t, NEW m, NEW shown, NEW present
    PROVE  /\ Adds(s, t, m) /\ m.op # "lookup" /\ Tells(s, shown, present) => Tells(t, shown, present)
           /\ Adds(s, t, m) /\ m.op = "lookup" /\ m.files = present => Tells(t, shown, present)
           /\ Drops(s, t) /\ s[1].op # "lookup" /\ Tells(s, shown, present) => Tells(t, shown, present)
           /\ Drops(s, t) /\ s[1].op = "lookup" /\ Tells(s, shown, present) => Tells(t, s[1].files, present)
<1>1. ASSUME Adds(s, t, m), m.op # "lookup", Tells(s, shown, present) PROVE Tells(t, shown, present)
  <2>0. \A i \in 1 .. Len(t) : t[i].op = "lookup" => i \in 1 .. Len(s) /\ t[i] = s[i]
    BY <1>1 DEF Adds
  <2>1. CASE shown = present /\ \A i \in 1 .. Len(s) : s[i].op # "lookup"
    BY <2>0, <2>1 DEF Tells
  <2>2. ASSUME NEW i \in 1 .. Len(s), s[i].op = "lookup", s[i].files = present,
               \A j \in i + 1 .. Len(s) : s[j].op # "lookup"
        PROVE  Tells(t, shown, present)
    <3>1. i \in 1 .. Len(t) /\ t[i] = s[i]
      BY <1>1 DEF Adds
    <3>2. ASSUME NEW j \in i + 1 .. Len(t), t[j].op = "lookup" PROVE FALSE
      <4>1. j \in 1 .. Len(t)
        BY <3>1
      <4>2. j \in 1 .. Len(s) /\ t[j] = s[j]
        BY <2>0, <3>2, <4>1
      <4>3. j \in i + 1 .. Len(s)
        BY <4>2
      <4> QED BY <2>2, <3>2, <4>2, <4>3
    <3> QED BY <2>2, <3>1, <3>2 DEF Tells
  <2> QED BY <1>1, <2>1, <2>2 DEF Tells
<1>2. ASSUME Adds(s, t, m), m.op = "lookup", m.files = present PROVE Tells(t, shown, present)
  <2>1. Len(s) + 1 \in 1 .. Len(t) /\ t[Len(s) + 1] = m /\ Len(s) \in Nat
    BY <1>2 DEF Adds
  <2>2. ASSUME NEW j \in (Len(s) + 1) + 1 .. Len(t) PROVE FALSE
    <3>1. j \in 1 .. Len(t)
      BY <2>1
    <3> QED BY <1>2, <2>1, <3>1 DEF Adds
  <2> QED BY <1>2, <2>1, <2>2 DEF Tells
<1>3. ASSUME Drops(s, t), Tells(s, shown, present)
      PROVE  /\ s[1].op # "lookup" => Tells(t, shown, present)
             /\ s[1].op = "lookup" => Tells(t, s[1].files, present)
  <2>1. /\ \A k \in 1 .. Len(t) : k + 1 \in 1 .. Len(s) /\ t[k] = s[k + 1]
        /\ 1 \in 1 .. Len(s) /\ Len(s) \in Nat /\ Len(t) = Len(s) - 1
    BY <1>3 DEF Drops
  <2>2. CASE shown = present /\ \A i \in 1 .. Len(s) : s[i].op # "lookup"
    BY <2>1, <2>2 DEF Tells
  <2>3. ASSUME NEW i \in 1 .. Len(s), s[i].op = "lookup", s[i].files = present,
               \A j \in i + 1 .. Len(s) : s[j].op # "lookup"
        PROVE  /\ s[1].op # "lookup" => Tells(t, shown, present)
               /\ s[1].op = "lookup" => Tells(t, s[1].files, present)
    <3>1. CASE i = 1
      <4>1. \A k \in 1 .. Len(t) : k + 1 \in i + 1 .. Len(s)
        BY <2>1, <3>1
      <4>2. \A k \in 1 .. Len(t) : t[k].op # "lookup"
        BY <2>1, <2>3, <4>1
      <4> QED BY <2>3, <3>1, <4>2 DEF Tells
    <3>2. CASE i # 1
      <4>1. i - 1 \in 1 .. Len(t) /\ t[i - 1] = s[i]
        BY <1>3, <3>2 DEF Drops
      <4>2. ASSUME NEW k \in (i - 1) + 1 .. Len(t) PROVE t[k].op # "lookup"
        <5>1. k \in 1 .. Len(t) /\ k + 1 \in i + 1 .. Len(s)
          BY <2>1, <4>1
        <5> QED BY <2>1, <2>3, <5>1
      <4>3. /\ i - 1 \in 1 .. Len(t) /\ t[i - 1].op = "lookup" /\ t[i - 1].files = present
            /\ \A k \in (i - 1) + 1 .. Len(t) : t[k].op # "lookup"
        BY <2>3, <4>1, <4>2
      <4>4. \A x : Tells(t, x, present)
        BY <4>3 DEF Tells
      <4> QED BY <4>4
    <3> QED BY <3>1, <3>2
  <2> QED BY <1>3, <2>2, <2>3 DEF Tells
<1> QED BY <1>1, <1>2, <1>3


-----------------------------------------------------------------------------
(* What the actions do to the queues.                                      *)

LEMMA Kinds ==
    /\ \A m \in Question :
         /\ m.op \in {"line", "lookup", "read", "write", "unlink"}
         /\ m.op = "read" => OfPager(m)
         /\ m.op \in {"line", "lookup", "write"} => ~ OfPager(m)
         /\ m.op \in {"read", "write", "unlink"} => m.file \in ReplFile
         /\ m.op = "unlink" => (OfPager(m) <=> m.by = "pager") /\ (~ OfPager(m) <=> m.by = "user")
    /\ \A m \in Answer :
         /\ m.op \in {"prompt", "newPage", "image", "pager", "lookup", "read", "write", "unlink"}
         /\ m.op = "read" => OfPager(m) /\ m.by \in {"pager", "pagerDelete"}
         /\ m.op \notin {"read", "unlink"} => ~ OfPager(m)
         /\ m.op \in {"read", "write", "unlink"} => m.file \in ReplFile
         /\ m.op = "unlink" => (OfPager(m) <=> m.by = "pager") /\ (~ OfPager(m) <=> m.by = "user")
         /\ m.op = "lookup" => m.files \subseteq ReplFile
         /\ m.op \in {"prompt", "newPage", "image", "pager"} => m \in Output
    /\ \A m \in Output :
         /\ m.op \in {"prompt", "newPage", "image", "pager"} /\ m \in Answer
         /\ m.op = "pager" => m.file \in ReplFile /\ m.delete \in BOOLEAN
<1>1. ASSUME NEW m \in Question
      PROVE  /\ m.op \in {"line", "lookup", "read", "write", "unlink"}
             /\ m.op = "read" => OfPager(m)
             /\ m.op \in {"line", "lookup", "write"} => ~ OfPager(m)
             /\ m.op \in {"read", "write", "unlink"} => m.file \in ReplFile
             /\ m.op = "unlink" => (OfPager(m) <=> m.by = "pager") /\ (~ OfPager(m) <=> m.by = "user")
  <2>1. CASE m = Lookup \/ m \in ReplLine
    BY <2>1 DEF Lookup, ReplLine, OfPager
  <2>2. CASE m \in [op : {"write", "unlink"}, file : ReplFile, by : {"user"}]
    BY <2>2 DEF OfPager
  <2>3. CASE m \in [op : {"unlink"}, file : ReplFile, by : {"pager"}]
    BY <2>3 DEF OfPager
  <2>4. CASE m \in [op : {"read"}, file : ReplFile, by : {"pager", "pagerDelete"}]
    BY <2>4 DEF OfPager
  <2> QED BY <2>1, <2>2, <2>3, <2>4 DEF Question
<1>2. ASSUME NEW m \in Output
      PROVE  /\ m.op \in {"prompt", "newPage", "image", "pager"} /\ m \in Answer
             /\ m.op = "pager" => m.file \in ReplFile /\ m.delete \in BOOLEAN
  BY DEF Output, Answer
<1>3. ASSUME NEW m \in Answer
      PROVE  /\ m.op \in {"prompt", "newPage", "image", "pager", "lookup", "read", "write", "unlink"}
             /\ m.op = "read" => OfPager(m) /\ m.by \in {"pager", "pagerDelete"}
             /\ m.op \notin {"read", "unlink"} => ~ OfPager(m)
             /\ m.op \in {"read", "write", "unlink"} => m.file \in ReplFile
             /\ m.op = "unlink" => (OfPager(m) <=> m.by = "pager") /\ (~ OfPager(m) <=> m.by = "user")
             /\ m.op = "lookup" => m.files \subseteq ReplFile
             /\ m.op \in {"prompt", "newPage", "image", "pager"} => m \in Output
  <2>1. CASE m \in Output
    BY <1>2, <2>1 DEF OfPager
  <2>2. CASE m \in [op : {"lookup"}, files : SUBSET ReplFile]
    BY <2>2 DEF OfPager
  <2>3. CASE m \in [op : {"write", "unlink"}, file : ReplFile, by : {"user"}, good : BOOLEAN]
    BY <2>3 DEF OfPager
  <2>4. CASE m \in [op : {"unlink"}, file : ReplFile, by : {"pager"}, good : BOOLEAN]
    BY <2>4 DEF OfPager
  <2>5. CASE m \in [op : {"read"}, file : ReplFile, by : {"pager", "pagerDelete"}, good : BOOLEAN]
    BY <2>5 DEF OfPager
  <2> QED BY <2>1, <2>2, <2>3, <2>4, <2>5 DEF Answer
<1> QED BY <1>1, <1>2, <1>3

LEMMA Requests ==
    ASSUME ReplTypes, NEW r \in Question, ReplRequest(r)
    PROVE  Adds(toR, toR', r) /\ toR' \in Seq(Question)
<1>1. toR \in Seq(Question)
  BY DEF ReplTypes
<1> QED BY <1>1, AppendAdds DEF ReplRequest

LEMMA Answers ==
    ASSUME ReplTypes, NEW x \in Answer, Replies(<<x>>)
    PROVE  Adds(fromR, fromR', x) /\ fromR' \in Seq(Answer)
<1>1. fromR \in Seq(Answer)
  BY DEF ReplTypes
<1>2. fromR \o <<x>> = Append(fromR, x)
  BY <1>1
<1> QED BY <1>1, <1>2, AppendAdds DEF Replies

LEMMA Runs ==
    ASSUME ReplTypes, RTakes
    PROVE  /\ Drops(toR, toR') /\ toR' \in Seq(Question) /\ Head(toR) = toR[1] /\ toR[1] \in Question
           /\ UNCHANGED <<outputs, loop, tree, terminal>>
<1>1. toR \in Seq(Question) /\ toR # <<>> /\ toR' = Tail(toR)
  BY DEF ReplTypes, RTakes
<1>2. Tail(toR) \in Seq(Question) /\ Drops(toR, Tail(toR)) /\ Head(toR) = toR[1] /\ toR[1] \in Question
  BY <1>1, TailDrops
<1> QED BY <1>1, <1>2 DEF RTakes

LEMMA Arrivals ==
    ASSUME ReplTypes, NEW op, Arrives(op)
    PROVE  /\ Drops(fromR, fromR') /\ fromR' \in Seq(Answer) /\ Arrived = fromR[1] /\ fromR[1] \in Answer
           /\ fromR[1].op = op
           /\ UNCHANGED <<onDisk, terminal, lost>>
<1>1. fromR \in Seq(Answer) /\ fromR # <<>> /\ fromR' = Tail(fromR)
  BY DEF ReplTypes, Arrives
<1>2. /\ Tail(fromR) \in Seq(Answer) /\ Drops(fromR, Tail(fromR)) /\ Head(fromR) = fromR[1]
      /\ fromR[1] \in Answer
  BY <1>1, TailDrops
<1> QED BY <1>1, <1>2 DEF Arrives, Arrived, interruptVars

LEMMA Readings ==
    ASSUME ReplTypes, NEW op, LoopReads(op)
    PROVE  /\ Drops(outputs, outputs') /\ outputs' \in Seq(Output) /\ Head(outputs) = outputs[1]
           /\ outputs[1] \in Output /\ outputs[1].op = op /\ loop = "reads"
           /\ UNCHANGED <<fromR, onDisk, tree, lost>>
<1>1. outputs \in Seq(Output) /\ outputs # <<>> /\ outputs' = Tail(outputs)
  BY DEF ReplTypes, LoopReads
<1>2. /\ Tail(outputs) \in Seq(Output) /\ Drops(outputs, Tail(outputs)) /\ Head(outputs) = outputs[1]
      /\ outputs[1] \in Output
  BY <1>1, TailDrops
<1> QED BY <1>1, <1>2 DEF LoopReads, interruptVars

LEMMA NonePager == ASSUME NEW s, NEW state, ~ PagerIn(s) PROVE OnePager(s, state)
BY DEF OnePager, PagerIn

(* While the loop does not wait, no request of the pager is under way.     *)
LEMMA NoneWaits ==
    ASSUME PagerWaits, loop \notin {"opens", "unlinks"} PROVE ~ PagerIn(toR) /\ ~ PagerIn(fromR)
BY DEF PagerWaits, OnePager, PagerIn, Awaiting


(* A line, done or cut off by an interrupt, and an interrupt at the prompt, *)
(* end with a prompt.                                                      *)
LEMMA SettlesPrints ==
    ASSUME SettlesInv, NEW o \in Seq(Output), Prompts(o), onDisk' \subseteq ReplFile,
           toR' \in Seq(Question), OnePager(toR', loop), PagerIn(toR') <=> PagerIn(toR),
           UNCHANGED <<outputs, loop, tree, terminal>>
    PROVE  SettlesInv'
<1>0. ReplTypes /\ PagerWaits /\ PromptFollows
  BY DEF SettlesInv
<1>1. Prints(fromR, fromR') /\ fromR' \in Seq(Answer) /\ lost' = lost \ {"line"}
  <2>1. fromR \in Seq(Answer)
    BY <1>0 DEF ReplTypes
  <2>2. fromR' = fromR \o (o \o <<[op |-> "prompt"]>>) /\ lost' = lost \ {"line"}
    BY DEF Prompts, Replies
  <2> QED BY <2>1, <2>2, LinePrints
<1>2. ReplTypes'
  BY <1>0, <1>1 DEF ReplTypes
<1>3. PagerWaits'
  <2>1. OnePager(fromR', loop) /\ (PagerIn(fromR') <=> PagerIn(fromR))
    BY <1>0, <1>1, PagerQueue DEF PagerWaits
  <2> QED BY <1>0, <1>1, <2>1 DEF PagerWaits
<1>4. PromptIn(fromR')
  BY <1>1, PromptQueue
<1>5. PromptFollows'
  <2>1. PromptAfterPager(fromR', <<>>) /\ PromptAfterPager(outputs, fromR')
    BY <1>0, <1>1, <1>4, FollowQueue DEF PromptFollows
  <2> QED BY <1>4, <2>1 DEF PromptFollows
<1> QED BY <1>2, <1>3, <1>4, <1>5 DEF SettlesInv, TerminalFollows, LookupFollows

LEMMA SettlesLine == ASSUME SettlesInv, RunLine \/ CutLine PROVE SettlesInv'
<1>0. ReplTypes /\ PagerWaits
  BY DEF SettlesInv
<1>1. /\ Drops(toR, toR') /\ toR' \in Seq(Question) /\ Head(toR) = toR[1] /\ toR[1] \in Question
      /\ UNCHANGED <<outputs, loop, tree, terminal>> /\ toR[1].op = "line"
  BY <1>0, Runs DEF RunLine, CutLine
<1>2. PICK l : l = toR[1]
  OBVIOUS
<1>3. l \in ReplLine
  BY <1>1, <1>2 DEF Question, Lookup
<1>4. LineOutput(l) \in Seq(Output)
  BY <1>3, LineOutputs
<1>5. PICK o \in Seq(Output) : Prompts(o)
  <2>1. CASE RunLine
    BY <1>1, <1>2, <1>4, <2>1 DEF RunLine
  <2>2. CASE CutLine
    <3>1. PICK n \in 0 .. Len(LineOutput(l)) : Prompts(SubSeq(LineOutput(l), 1, n))
      BY <1>1, <1>2, <2>2 DEF CutLine
    <3>2. SubSeq(LineOutput(l), 1, n) \in Seq(Output)
      BY <1>4, <3>1
    <3> QED BY <3>1, <3>2
  <2> QED BY <2>1, <2>2
<1>6. onDisk' \subseteq ReplFile
  <2>1. l.does \in {"plots", "draws"} \/ l.file \in ReplFile
    BY <1>3 DEF ReplLine
  <2>2. onDisk' = onDisk \/ (l.does \notin {"plots", "draws"} /\ onDisk' = onDisk \cup {l.file})
    BY <1>1, <1>2 DEF RunLine, CutLine
  <2> QED BY <1>0, <2>1, <2>2 DEF ReplTypes
<1>7. OnePager(toR', loop) /\ (PagerIn(toR') <=> PagerIn(toR))
  <2>1. ~ OfPager(toR[1])
    BY <1>1, Kinds
  <2> QED BY <1>0, <1>1, <2>1, PagerQueue DEF PagerWaits
<1> QED BY <1>1, <1>5, <1>6, <1>7, SettlesPrints

LEMMA SettlesInterrupted == ASSUME SettlesInv, NEW b \in BOOLEAN, RInterrupted(b) PROVE SettlesInv'
<1>1. ReplTypes /\ PagerWaits
  BY DEF SettlesInv
<1>2. <<>> \in Seq(Output) /\ Prompts(<<>>) /\ UNCHANGED <<toR, outputs, loop, onDisk, tree, terminal>>
  BY DEF RInterrupted, replFileVars
<1>3. /\ onDisk' \subseteq ReplFile /\ toR' \in Seq(Question)
      /\ OnePager(toR', loop) /\ (PagerIn(toR') <=> PagerIn(toR))
  BY <1>1, <1>2 DEF ReplTypes, PagerWaits
<1> QED BY <1>2, <1>3, SettlesPrints

(* What is not taken by R is recorded: a queue t kept of s.                *)
Keeps(s, t) ==
    /\ t \in Seq(Question)
    /\ OnePager(t, loop) /\ (PagerIn(t) => PagerIn(s))
    /\ PagerIn(s) => PagerIn(t) \/ "pager" \in lost'
    /\ LineIn(s) => LineIn(t) \/ "line" \in lost'
    /\ LooksUp(s) => LooksUp(t) \/ "lookup" \in lost'

LEMMA SettlesLoses ==
    ASSUME SettlesInv, Keeps(toR, toR'), lost \subseteq lost',
           UNCHANGED <<fromR, outputs, loop, onDisk, tree, terminal>>
    PROVE  SettlesInv'
<1>0. ReplTypes /\ PagerWaits /\ PromptFollows /\ TerminalFollows
  BY DEF SettlesInv
<1>1. ReplTypes' /\ PromptFollows'
  BY <1>0 DEF ReplTypes, PromptFollows, Keeps
<1>2. PagerWaits'
  BY <1>0 DEF PagerWaits, Keeps
<1>3. TerminalFollows'
  BY <1>0 DEF TerminalFollows, Keeps
<1>4. LookupFollows' \/ Tells(fromR', tree', onDisk')
  BY DEF SettlesInv, LookupFollows, Keeps
<1> QED BY <1>1, <1>2, <1>3, <1>4 DEF SettlesInv

LEMMA Losses ==
    ASSUME NEW m \in Question
    PROVE  /\ OfPager(m) => LostAs(m) = "pager"
           /\ m.op \in {"line", "lookup"} => LostAs(m) = m.op
<1>1. OfPager(m) => LostAs(m) = "pager"
  BY DEF OfPager, LostAs
<1>2. m.op \in {"line", "lookup"} => LostAs(m) = m.op
  BY DEF LostAs
<1> QED BY <1>1, <1>2

LEMMA SettlesDeadRead == ASSUME SettlesInv, DeadReadTakes PROVE SettlesInv'
<1>0. ReplTypes /\ PagerWaits
  BY DEF SettlesInv
<1>1. toR \in Seq(Question) /\ toR # <<>> /\ toR' = Tail(toR)
  BY <1>0 DEF ReplTypes, DeadReadTakes
<1>2. toR' \in Seq(Question) /\ Drops(toR, toR') /\ Head(toR) = toR[1] /\ toR[1] \in Question
  BY <1>1, TailDrops
<1>3. PICK m : m = toR[1]
  OBVIOUS
<1>4. m \in Question /\ lost' = lost \cup {LostAs(m)}
  BY <1>2, <1>3 DEF DeadReadTakes
<1>5. OnePager(toR', loop) /\ (PagerIn(toR') => PagerIn(toR)) /\ (PagerIn(toR) => PagerIn(toR') \/ OfPager(m))
  <2>1. OnePager(toR, loop)
    BY <1>0 DEF PagerWaits
  <2>2. CASE OfPager(m)
    <3>1. ~ PagerIn(toR') /\ PagerIn(toR)
      BY <1>2, <1>3, <2>1, <2>2, PagerQueue
    <3> QED BY <2>2, <3>1, NonePager
  <2>3. CASE ~ OfPager(m)
    BY <1>2, <1>3, <2>1, <2>3, PagerQueue
  <2> QED BY <2>2, <2>3
<1>6. (LineIn(toR) => LineIn(toR') \/ m.op = "line") /\ (LooksUp(toR) => LooksUp(toR') \/ m.op = "lookup")
  BY <1>2, <1>3, LookQueue
<1>7. Keeps(toR, toR')
  BY <1>2, <1>4, <1>5, <1>6, Losses DEF Keeps
<1> QED BY <1>4, <1>7, SettlesLoses DEF DeadReadTakes, replFileVars

LEMMA SettlesInterrupts == ASSUME SettlesInv, NEW b \in BOOLEAN, UserInterrupts(b) PROVE SettlesInv'
<1>0. ReplTypes /\ PagerWaits
  BY DEF SettlesInv
<1>1. toR \in Seq(Question) /\ DOMAIN toR = 1 .. Len(toR) /\ \A i \in 1 .. Len(toR) : toR[i] \in Question
  BY <1>0 DEF ReplTypes
<1>2. PICK kept : /\ kept = IF b THEN <<Head(toR)>> ELSE <<>>
                  /\ toR' = kept
                  /\ lost' = lost \cup {LostAs(toR[i]) : i \in DOMAIN toR \ DOMAIN kept}
  BY DEF UserInterrupts
<1>3. /\ kept \in Seq(Question) /\ Len(kept) \in {0, 1} /\ DOMAIN kept = 1 .. Len(kept)
      /\ \A i \in 1 .. Len(kept) : i \in 1 .. Len(toR) /\ kept[i] = toR[i] /\ toR[i].op = "line"
  <2>1. CASE b
    <3>1. toR # <<>> /\ Head(toR).op = "line"
      BY <2>1 DEF UserInterrupts
    <3>2. Head(toR) = toR[1] /\ 1 \in 1 .. Len(toR)
      BY <1>1, <3>1
    <3>3. kept = <<toR[1]>>
      BY <1>2, <2>1, <3>2
    <3> QED BY <1>1, <3>1, <3>2, <3>3
  <2>2. CASE ~ b
    BY <1>2, <2>2
  <2> QED BY <2>1, <2>2
<1>4. \A i \in 1 .. Len(toR) : (i \in 1 .. Len(kept) /\ kept[i] = toR[i]) \/ LostAs(toR[i]) \in lost'
  BY <1>1, <1>2, <1>3
<1>5. \A i \in 1 .. Len(kept) : ~ OfPager(kept[i])
  BY <1>1, <1>3, Kinds
<1>6. OnePager(kept, loop) /\ ~ PagerIn(kept)
  BY <1>5 DEF OnePager, PagerIn
<1>7. PagerIn(toR) => "pager" \in lost'
  BY <1>1, <1>4, <1>5, Losses DEF PagerIn
<1>8. LineIn(toR) => LineIn(kept) \/ "line" \in lost'
  BY <1>1, <1>4, Losses DEF LineIn
<1>9. LooksUp(toR) => LooksUp(kept) \/ "lookup" \in lost'
  BY <1>1, <1>4, Losses DEF LooksUp
<1>10. Keeps(toR, toR')
  BY <1>2, <1>3, <1>6, <1>7, <1>8, <1>9 DEF Keeps
<1>11. UNCHANGED <<fromR, outputs, loop, onDisk, tree, terminal>>
  BY DEF UserInterrupts, Acts, replFileVars
<1> QED BY <1>2, <1>10, <1>11, SettlesLoses

LEMMA SettlesRunLookup == ASSUME SettlesInv, RunLookup PROVE SettlesInv'
<1>0. ReplTypes /\ PagerWaits /\ PromptFollows /\ TerminalFollows
  BY DEF SettlesInv
<1>1. /\ Drops(toR, toR') /\ toR' \in Seq(Question) /\ toR[1] \in Question
      /\ UNCHANGED <<outputs, loop, tree, terminal, onDisk>> /\ toR[1].op = "lookup"
      /\ lost' = lost \ {"lookup"}
  BY <1>0, Runs DEF RunLookup
<1>2. PICK x : x = [op |-> "lookup", files |-> onDisk]
  OBVIOUS
<1>3. x \in Answer /\ x.op = "lookup" /\ x.files = onDisk
  BY <1>0, <1>2 DEF Answer, ReplTypes
<1>4. Adds(fromR, fromR', x) /\ fromR' \in Seq(Answer)
  BY <1>0, <1>2, <1>3, Answers DEF RunLookup
<1>5. ReplTypes'
  BY <1>0, <1>1, <1>4 DEF ReplTypes
<1>6. PagerWaits'
  <2>1. ~ OfPager(toR[1]) /\ ~ OfPager(x)
    BY <1>1, <1>3, Kinds
  <2>2. OnePager(toR', loop) /\ (PagerIn(toR') <=> PagerIn(toR))
    BY <1>0, <1>1, <2>1, PagerQueue DEF PagerWaits
  <2>3. OnePager(fromR', loop) /\ (PagerIn(fromR') <=> PagerIn(fromR))
    BY <1>0, <1>4, <2>1, PagerQueue DEF PagerWaits
  <2> QED BY <1>0, <1>1, <2>2, <2>3 DEF PagerWaits
<1>7. PromptIn(fromR') <=> PromptIn(fromR)
  BY <1>3, <1>4, PromptQueue
<1>8. PromptFollows'
  <2>1. PromptAfterPager(fromR', <<>>)
    BY <1>0, <1>3, <1>4, FollowQueue DEF PromptFollows
  <2>2. PromptAfterPager(outputs, fromR')
    BY <1>0, <1>7, FollowQueue DEF PromptFollows
  <2> QED BY <1>0, <1>1, <1>7, <2>1, <2>2 DEF PromptFollows
<1>9. TerminalFollows'
  <2>1. LineIn(toR) => LineIn(toR')
    BY <1>1, LookQueue
  <2> QED BY <1>0, <1>1, <1>7, <2>1 DEF TerminalFollows
<1>10. Tells(fromR', tree', onDisk')
  BY <1>1, <1>3, <1>4, ShowsQueue
<1> QED BY <1>5, <1>6, <1>8, <1>9, <1>10 DEF SettlesInv

LEMMA SettlesRunFileRequest == ASSUME SettlesInv, RunFileRequest PROVE SettlesInv'
<1>0. ReplTypes /\ PagerWaits /\ PromptFollows /\ TerminalFollows
  BY DEF SettlesInv
<1>1. /\ Drops(toR, toR') /\ toR' \in Seq(Question) /\ Head(toR) = toR[1] /\ toR[1] \in Question
      /\ UNCHANGED <<outputs, loop, tree, terminal, lost>> /\ toR[1].op \in {"read", "write", "unlink"}
  BY <1>0, Runs DEF RunFileRequest
<1>2. PICK r : r = toR[1]
  OBVIOUS
<1>3. PICK x : x = [op |-> r.op, file |-> r.file, by |-> r.by,
                    good |-> r.op = "write" \/ r.file \in onDisk]
  OBVIOUS
<1>4. x \in Answer
  <2>1. (r.op = "write" \/ r.file \in onDisk) \in BOOLEAN
    OBVIOUS
  <2>2. r.file \in ReplFile
    BY <1>1, <1>2, Kinds
  <2>3. \/ r.op \in {"write", "unlink"} /\ r.by = "user"
        \/ r.op = "unlink" /\ r.by = "pager"
        \/ r.op = "read" /\ r.by \in {"pager", "pagerDelete"}
    BY <1>1, <1>2 DEF Question, Lookup, ReplLine
  <2> QED BY <1>3, <2>1, <2>2, <2>3 DEF Answer
<1>5. /\ x.op = r.op /\ x.by = r.by /\ (x.good <=> r.op = "write" \/ r.file \in onDisk)
      /\ (OfPager(x) <=> OfPager(r)) /\ Awaiting(x) = Awaiting(r) /\ x.op \in {"read", "write", "unlink"}
  <2>1. /\ x.op = r.op /\ x.by = r.by /\ (x.good <=> r.op = "write" \/ r.file \in onDisk)
        /\ x.op \in {"read", "write", "unlink"}
    BY <1>1, <1>2, <1>3
  <2> QED BY <2>1 DEF OfPager, Awaiting
<1>6. Adds(fromR, fromR', x) /\ fromR' \in Seq(Answer)
  BY <1>0, <1>1, <1>2, <1>3, <1>4, Answers DEF RunFileRequest
<1>7. onDisk' = CASE r.op = "read" -> onDisk
                  [] r.op = "write" -> onDisk \cup {r.file}
                  [] r.op = "unlink" -> onDisk \ {r.file}
  BY <1>1, <1>2 DEF RunFileRequest
<1>8. ReplTypes'
  <2>1. r.file \in ReplFile /\ onDisk \subseteq ReplFile /\ r.op \in {"read", "write", "unlink"}
    BY <1>0, <1>1, <1>2, Kinds DEF ReplTypes
  <2>2. onDisk' \subseteq ReplFile
    BY <1>7, <2>1
  <2> QED BY <1>0, <1>1, <1>6, <2>2 DEF ReplTypes
<1>9. PagerWaits'
  <2>1. CASE OfPager(r)
    <3>1. ~ PagerIn(toR') /\ PagerIn(toR) /\ loop = Awaiting(r)
      BY <1>0, <1>1, <1>2, <2>1, PagerQueue DEF PagerWaits
    <3>2. ~ PagerIn(fromR) /\ OnePager(fromR, loop)
      BY <1>0, <3>1 DEF PagerWaits
    <3>3. OnePager(fromR', Awaiting(x)) /\ PagerIn(fromR')
      BY <1>5, <1>6, <2>1, <3>2, PagerQueue
    <3>4. OnePager(toR', loop)
      BY <3>1, NonePager
    <3> QED BY <1>1, <1>5, <3>1, <3>3, <3>4 DEF PagerWaits
  <2>2. CASE ~ OfPager(r)
    <3>1. OnePager(toR', loop) /\ (PagerIn(toR') <=> PagerIn(toR))
      BY <1>0, <1>1, <1>2, <2>2, PagerQueue DEF PagerWaits
    <3>2. OnePager(fromR', loop) /\ (PagerIn(fromR') <=> PagerIn(fromR))
      BY <1>0, <1>5, <1>6, <2>2, PagerQueue DEF PagerWaits
    <3> QED BY <1>0, <1>1, <3>1, <3>2 DEF PagerWaits
  <2> QED BY <2>1, <2>2
<1>10. PromptIn(fromR') <=> PromptIn(fromR)
  BY <1>5, <1>6, PromptQueue
<1>11. PromptFollows'
  <2>1. PromptAfterPager(fromR', <<>>)
    BY <1>0, <1>5, <1>6, FollowQueue DEF PromptFollows
  <2>2. PromptAfterPager(outputs, fromR')
    BY <1>0, <1>10, FollowQueue DEF PromptFollows
  <2> QED BY <1>0, <1>1, <1>10, <2>1, <2>2 DEF PromptFollows
<1>12. TerminalFollows'
  <2>1. LineIn(toR) => LineIn(toR')
    BY <1>1, LookQueue
  <2> QED BY <1>0, <1>1, <1>10, <2>1 DEF TerminalFollows
<1>13. LookupFollows' \/ Tells(fromR', tree', onDisk')
  <2>1. CASE OfPager(r) /\ r.op = "unlink"
    <3>1. loop = "unlinks"
      BY <1>0, <1>1, <1>2, <2>1, PagerQueue DEF PagerWaits, Awaiting
    <3>2. PromptIn(fromR') \/ PromptIn(outputs)
      BY <1>0, <1>10, <3>1 DEF PromptFollows
    <3> QED BY <1>1, <3>2 DEF LookupFollows
  <2>2. CASE r.op = "write" \/ (r.op = "unlink" /\ r.by = "user" /\ r.file \in onDisk)
    <3>1. Changed(x)
      BY <1>5, <2>2 DEF Changed
    <3>2. ChangeIn(fromR')
      BY <1>6, <3>1, LookQueue
    <3> QED BY <3>2 DEF LookupFollows
  <2>3. CASE r.op = "read" \/ (r.op = "unlink" /\ r.file \notin onDisk)
    <3>1. onDisk' = onDisk
      BY <1>7, <2>3
    <3>2. LooksUp(toR) => LooksUp(toR')
      BY <1>1, <1>2, <2>3, LookQueue
    <3>3. ChangeIn(fromR) => ChangeIn(fromR')
      BY <1>6, LookQueue
    <3>4. Tells(fromR, tree, onDisk) => Tells(fromR', tree, onDisk)
      BY <1>5, <1>6, ShowsQueue
    <3> QED BY <1>1, <1>10, <3>1, <3>2, <3>3, <3>4 DEF SettlesInv, LookupFollows
  <2>4. r.op = "unlink" => OfPager(r) \/ r.by = "user"
    BY <1>1, <1>2, Kinds
  <2> QED BY <1>1, <1>2, <2>1, <2>2, <2>3, <2>4
<1> QED BY <1>8, <1>9, <1>11, <1>12, <1>13 DEF SettlesInv


LEMMA SettlesTree == ASSUME SettlesInv, TreeArrives PROVE SettlesInv'
<1>0. ReplTypes /\ PagerWaits /\ PromptFollows /\ TerminalFollows
  BY DEF SettlesInv
<1>1. /\ Drops(fromR, fromR') /\ fromR' \in Seq(Answer) /\ Arrived = fromR[1] /\ fromR[1] \in Answer
      /\ fromR[1].op = "lookup" /\ UNCHANGED <<onDisk, terminal, lost>>
  BY <1>0, Arrivals DEF TreeArrives
<1>2. UNCHANGED <<toR, outputs, loop>> /\ tree' = fromR[1].files
  BY <1>1 DEF TreeArrives
<1>3. ~ OfPager(fromR[1]) /\ ~ Changed(fromR[1])
  BY <1>1, Kinds DEF Changed
<1>4. ReplTypes'
  BY <1>0, <1>1, <1>2 DEF ReplTypes
<1>5. PagerWaits'
  <2>1. OnePager(fromR', loop) /\ (PagerIn(fromR') <=> PagerIn(fromR))
    BY <1>0, <1>1, <1>3, PagerQueue DEF PagerWaits
  <2> QED BY <1>0, <1>1, <1>2, <2>1 DEF PagerWaits
<1>6. PromptIn(fromR') <=> PromptIn(fromR)
  BY <1>1, PromptQueue
<1>7. PromptFollows'
  <2>1. PromptAfterPager(fromR', <<>>)
    BY <1>0, <1>1, FollowQueue DEF PromptFollows
  <2>2. PromptAfterPager(outputs, fromR')
    BY <1>0, <1>6, FollowQueue DEF PromptFollows
  <2> QED BY <1>0, <1>2, <1>6, <2>1, <2>2 DEF PromptFollows
<1>8. TerminalFollows'
  BY <1>0, <1>1, <1>2, <1>6 DEF TerminalFollows
<1>9. LookupFollows' \/ Tells(fromR', tree', onDisk')
  <2>1. ChangeIn(fromR) => ChangeIn(fromR')
    BY <1>1, <1>3, LookQueue
  <2>2. Tells(fromR, tree, onDisk) => Tells(fromR', fromR[1].files, onDisk)
    BY <1>1, ShowsQueue
  <2> QED BY <1>1, <1>2, <1>6, <2>1, <2>2 DEF SettlesInv, LookupFollows
<1> QED BY <1>4, <1>5, <1>7, <1>8, <1>9 DEF SettlesInv

LEMMA SettlesWrite == ASSUME SettlesInv, WriteArrives PROVE SettlesInv'
<1>0. ReplTypes /\ PagerWaits /\ PromptFollows /\ TerminalFollows
  BY DEF SettlesInv
<1>1. /\ Drops(fromR, fromR') /\ fromR' \in Seq(Answer) /\ fromR[1] \in Answer
      /\ fromR[1].op = "write" /\ UNCHANGED <<onDisk, terminal, lost>>
  BY <1>0, Arrivals DEF WriteArrives
<1>2. UNCHANGED <<tree, outputs, loop>>
  BY DEF WriteArrives
<1>3. Lookup \in Question /\ Lookup.op = "lookup"
  BY DEF Question, Lookup
<1>4. Adds(toR, toR', Lookup) /\ toR' \in Seq(Question)
  BY <1>0, <1>3, Requests DEF WriteArrives
<1>5. ReplTypes'
  BY <1>0, <1>1, <1>2, <1>4 DEF ReplTypes
<1>6. PagerWaits'
  <2>1. ~ OfPager(fromR[1]) /\ ~ OfPager(Lookup)
    BY <1>1, <1>3, Kinds
  <2>2. OnePager(fromR', loop) /\ (PagerIn(fromR') <=> PagerIn(fromR))
    BY <1>0, <1>1, <2>1, PagerQueue DEF PagerWaits
  <2>3. OnePager(toR', loop) /\ (PagerIn(toR') <=> PagerIn(toR))
    BY <1>0, <1>4, <2>1, PagerQueue DEF PagerWaits
  <2> QED BY <1>0, <1>1, <1>2, <2>2, <2>3 DEF PagerWaits
<1>7. PromptIn(fromR') <=> PromptIn(fromR)
  BY <1>1, PromptQueue
<1>8. PromptFollows'
  <2>1. PromptAfterPager(fromR', <<>>)
    BY <1>0, <1>1, FollowQueue DEF PromptFollows
  <2>2. PromptAfterPager(outputs, fromR')
    BY <1>0, <1>7, FollowQueue DEF PromptFollows
  <2> QED BY <1>0, <1>2, <1>7, <2>1, <2>2 DEF PromptFollows
<1>9. (LineIn(toR) => LineIn(toR')) /\ LooksUp(toR')
  BY <1>3, <1>4, LookQueue
<1>10. TerminalFollows'
  BY <1>0, <1>1, <1>2, <1>7, <1>9 DEF TerminalFollows
<1> QED BY <1>5, <1>6, <1>8, <1>9, <1>10 DEF SettlesInv, LookupFollows

LEMMA SettlesOutput == ASSUME SettlesInv, OutputArrives PROVE SettlesInv'
<1>0. ReplTypes /\ PagerWaits /\ PromptFollows /\ TerminalFollows
  BY DEF SettlesInv
<1>1. PICK op \in {"prompt", "pager", "newPage", "image"} : Arrives(op)
  BY DEF OutputArrives
<1>2. PICK m : m = fromR[1]
  OBVIOUS
<1>3. /\ Drops(fromR, fromR') /\ fromR' \in Seq(Answer) /\ Arrived = m /\ m \in Answer
      /\ m.op = op /\ UNCHANGED <<onDisk, terminal, lost>>
  BY <1>0, <1>1, <1>2, Arrivals
<1>4. UNCHANGED <<toR, tree, loop>> /\ outputs' = Append(outputs, m)
  BY <1>3 DEF OutputArrives
<1>5. m \in Output /\ ~ OfPager(m) /\ ~ Changed(m) /\ m.op # "lookup"
  BY <1>3, Kinds DEF Changed
<1>6. Adds(outputs, outputs', m) /\ outputs' \in Seq(Output)
  <2>1. outputs \in Seq(Output)
    BY <1>0 DEF ReplTypes
  <2> QED BY <1>4, <1>5, <2>1, AppendAdds
<1>7. ReplTypes'
  BY <1>0, <1>3, <1>4, <1>6 DEF ReplTypes
<1>8. PagerWaits'
  <2>1. OnePager(fromR', loop) /\ (PagerIn(fromR') <=> PagerIn(fromR))
    BY <1>0, <1>2, <1>3, <1>5, PagerQueue DEF PagerWaits
  <2> QED BY <1>0, <1>3, <1>4, <2>1 DEF PagerWaits
<1>9. /\ PromptIn(outputs') <=> PromptIn(outputs) \/ m.op = "prompt"
      /\ m.op # "prompt" => (PromptIn(fromR') <=> PromptIn(fromR))
  <2>1. PromptIn(outputs') <=> PromptIn(outputs) \/ m.op = "prompt"
    BY <1>6, PromptQueue
  <2>2. m.op # "prompt" => (PromptIn(fromR') <=> PromptIn(fromR))
    BY <1>2, <1>3, PromptQueue
  <2> QED BY <2>1, <2>2
<1>10. PromptIn(fromR) \/ PromptIn(outputs) => PromptIn(fromR') \/ PromptIn(outputs')
  BY <1>9
<1>11. PromptFollows'
  <2>1. PromptAfterPager(fromR', <<>>)
    BY <1>0, <1>3, FollowQueue DEF PromptFollows
  <2>2. PromptAfterPager(outputs', fromR')
    <3>1. CASE m.op = "pager"
      <4>1. PromptIn(<<>>) \/ PromptIn(fromR')
        BY <1>0, <1>2, <1>3, <3>1, FollowQueue DEF PromptFollows
      <4>2. PromptIn(fromR')
        BY <4>1, NoPromptInNone
      <4> QED BY <1>0, <1>6, <4>2, FollowQueue DEF PromptFollows
    <3>2. CASE m.op # "pager"
      <4>1. PromptIn(fromR) => PromptIn(fromR') \/ m.op = "prompt"
        BY <1>9
      <4>2. PromptAfterPager(outputs, fromR)
        BY <1>0 DEF PromptFollows
      <4> QED BY <1>6, <3>2, <4>1, <4>2, FollowQueue
    <3> QED BY <3>1, <3>2
  <2> QED BY <1>0, <1>4, <1>10, <2>1, <2>2 DEF PromptFollows
<1>12. TerminalFollows'
  BY <1>0, <1>3, <1>4, <1>10 DEF TerminalFollows
<1>13. LookupFollows' \/ Tells(fromR', tree', onDisk')
  <2>1. ChangeIn(fromR) => ChangeIn(fromR')
    BY <1>2, <1>3, <1>5, LookQueue
  <2>2. Tells(fromR, tree, onDisk) => Tells(fromR', tree, onDisk)
    BY <1>2, <1>3, <1>5, ShowsQueue
  <2> QED BY <1>3, <1>4, <1>10, <2>1, <2>2 DEF SettlesInv, LookupFollows
<1> QED BY <1>7, <1>8, <1>11, <1>12, <1>13 DEF SettlesInv

(* The pager asks for what it needs next, or the loop reads on.            *)
LEMMA PagerGoesOn ==
    ASSUME ReplTypes, NEW f \in ReplFile, NEW delete, PagerOpened(f, delete), ~ PagerIn(toR)
    PROVE  /\ toR' \in Seq(Question) /\ OnePager(toR', loop') /\ loop' \in {"reads", "unlinks"}
           /\ loop' = "unlinks" => PagerIn(toR')
           /\ loop' = "reads" => ~ PagerIn(toR')
           /\ LineIn(toR) => LineIn(toR')
           /\ LooksUp(toR) => LooksUp(toR')
<1>1. CASE delete
  <2> DEFINE r == FileRequest("unlink", f, "pager")
  <2>1. r \in Question /\ OfPager(r) /\ Awaiting(r) = "unlinks"
    BY DEF Question, FileRequest, OfPager, Awaiting
  <2>2. ReplRequest(r) /\ loop' = "unlinks"
    BY <1>1 DEF PagerOpened, Awaits
  <2> HIDE DEF r
  <2>3. Adds(toR, toR', r) /\ toR' \in Seq(Question)
    BY <2>1, <2>2, Requests
  <2>4. OnePager(toR, loop)
    BY NonePager
  <2>5. OnePager(toR', "unlinks") /\ PagerIn(toR')
    BY <2>1, <2>3, <2>4, PagerQueue
  <2>6. (LineIn(toR) => LineIn(toR')) /\ (LooksUp(toR) => LooksUp(toR'))
    BY <2>3, LookQueue
  <2> QED BY <2>2, <2>3, <2>5, <2>6
<1>2. CASE ~ delete
  <2>1. loop' = "reads" /\ toR' = toR
    BY <1>2 DEF PagerOpened
  <2>2. OnePager(toR, "reads") /\ toR \in Seq(Question)
    BY NonePager DEF ReplTypes
  <2> QED BY <2>1, <2>2
<1> QED BY <1>1, <1>2

LEMMA SettlesRead == ASSUME SettlesInv, ReadArrives PROVE SettlesInv'
<1>0. ReplTypes /\ PagerWaits /\ PromptFollows /\ TerminalFollows
  BY DEF SettlesInv
<1>1. PICK m : m = fromR[1]
  OBVIOUS
<1>2. /\ Drops(fromR, fromR') /\ fromR' \in Seq(Answer) /\ Arrived = m /\ m \in Answer
      /\ m.op = "read" /\ UNCHANGED <<onDisk, terminal, lost>>
  BY <1>0, <1>1, Arrivals DEF ReadArrives
<1>3. OfPager(m) /\ m.file \in ReplFile /\ ~ Changed(m)
  BY <1>2, Kinds DEF Changed
<1>4. ~ PagerIn(fromR') /\ PagerIn(fromR) /\ loop = "opens"
  BY <1>0, <1>1, <1>2, <1>3, PagerQueue DEF PagerWaits, Awaiting
<1>5. ~ PagerIn(toR) /\ toR \in Seq(Question) /\ \A state : OnePager(toR, state) /\ OnePager(fromR', state)
  BY <1>0, <1>4, NonePager DEF PagerWaits, ReplTypes
<1>6. UNCHANGED <<tree, outputs>>
  BY DEF ReadArrives
<1>7. /\ toR' \in Seq(Question) /\ OnePager(toR', loop') /\ loop' \in {"reads", "unlinks", "ended"}
      /\ loop' = "unlinks" => PagerIn(toR')
      /\ LineIn(toR) => LineIn(toR')
      /\ LooksUp(toR) => LooksUp(toR')
  <2>1. CASE m.good
    <3>1. PagerOpened(m.file, m.by = "pagerDelete")
      BY <1>2, <2>1 DEF ReadArrives
    <3> QED BY <1>0, <1>3, <1>5, <3>1, PagerGoesOn
  <2>2. CASE ~ m.good
    <3>1. loop' = "ended" /\ toR' = toR
      BY <1>2, <2>2 DEF ReadArrives
    <3> QED BY <1>5, <3>1
  <2> QED BY <2>1, <2>2
<1>8. ReplTypes'
  BY <1>0, <1>2, <1>6, <1>7 DEF ReplTypes
<1>9. PagerWaits'
  BY <1>4, <1>5, <1>7 DEF PagerWaits
<1>10. PromptIn(fromR') <=> PromptIn(fromR)
  BY <1>1, <1>2, PromptQueue
<1>11. PromptFollows'
  <2>1. PromptAfterPager(fromR', <<>>)
    BY <1>0, <1>2, FollowQueue DEF PromptFollows
  <2>2. PromptAfterPager(outputs, fromR')
    BY <1>0, <1>10, FollowQueue DEF PromptFollows
  <2> QED BY <1>0, <1>4, <1>6, <1>10, <2>1, <2>2 DEF PromptFollows
<1>12. TerminalFollows'
  BY <1>0, <1>2, <1>6, <1>7, <1>10 DEF TerminalFollows
<1>13. LookupFollows' \/ Tells(fromR', tree', onDisk')
  <2>1. ChangeIn(fromR) => ChangeIn(fromR')
    BY <1>1, <1>2, <1>3, LookQueue
  <2>2. Tells(fromR, tree, onDisk) => Tells(fromR', tree, onDisk)
    BY <1>1, <1>2, ShowsQueue
  <2> QED BY <1>2, <1>6, <1>7, <1>10, <2>1, <2>2 DEF SettlesInv, LookupFollows
<1> QED BY <1>8, <1>9, <1>11, <1>12, <1>13 DEF SettlesInv


LEMMA SettlesUnlink == ASSUME SettlesInv, UnlinkArrives PROVE SettlesInv'
<1>0. ReplTypes /\ PagerWaits /\ PromptFollows /\ TerminalFollows
  BY DEF SettlesInv
<1>1. PICK m : m = fromR[1]
  OBVIOUS
<1>2. /\ Drops(fromR, fromR') /\ fromR' \in Seq(Answer) /\ Arrived = m /\ m \in Answer
      /\ m.op = "unlink" /\ UNCHANGED <<onDisk, terminal, lost>>
  BY <1>0, <1>1, Arrivals DEF UnlinkArrives
<1>3. UNCHANGED <<tree, outputs>>
  BY DEF UnlinkArrives
<1>4. (OfPager(m) <=> m.by = "pager") /\ (~ OfPager(m) <=> m.by = "user")
  BY <1>2, Kinds
<1>5. PromptIn(fromR') <=> PromptIn(fromR)
  BY <1>1, <1>2, PromptQueue
<1>6. PromptAfterPager(fromR', <<>>) /\ PromptAfterPager(outputs, fromR')
  <2>1. PromptAfterPager(fromR', <<>>)
    BY <1>0, <1>2, FollowQueue DEF PromptFollows
  <2>2. PromptAfterPager(outputs, fromR')
    BY <1>0, <1>5, FollowQueue DEF PromptFollows
  <2> QED BY <2>1, <2>2
<1>7. Tells(fromR, tree, onDisk) => Tells(fromR', tree, onDisk)
  BY <1>1, <1>2, ShowsQueue
<1>8. CASE m.by = "pager"
  <2>1. toR' = toR /\ loop' \in {"reads", "ended"}
    BY <1>2, <1>8 DEF UnlinkArrives
  <2>2. OfPager(m) /\ ~ Changed(m)
    BY <1>4, <1>8, <1>2 DEF Changed
  <2>3. ~ PagerIn(fromR') /\ PagerIn(fromR)
    BY <1>0, <1>1, <1>2, <2>2, PagerQueue DEF PagerWaits
  <2>4. ~ PagerIn(toR)
    BY <1>0, <2>3 DEF PagerWaits
  <2>5. OnePager(toR, loop') /\ OnePager(fromR', loop')
    BY <2>3, <2>4, NonePager
  <2>6. PagerWaits'
    BY <2>1, <2>3, <2>4, <2>5 DEF PagerWaits
  <2>7. PromptFollows'
    BY <1>3, <1>6, <2>1 DEF PromptFollows
  <2>8. ChangeIn(fromR) => ChangeIn(fromR')
    BY <1>1, <1>2, <2>2, LookQueue
  <2>9. LookupFollows' \/ Tells(fromR', tree', onDisk')
    BY <1>2, <1>3, <1>5, <1>7, <2>1, <2>8 DEF SettlesInv, LookupFollows
  <2>10. ReplTypes' /\ TerminalFollows'
    BY <1>0, <1>2, <1>3, <1>5, <2>1 DEF ReplTypes, TerminalFollows
  <2> QED BY <2>6, <2>7, <2>9, <2>10 DEF SettlesInv
<1>9. CASE m.by # "pager"
  <2>1. loop' = loop /\ ~ OfPager(m)
    BY <1>2, <1>4, <1>9 DEF UnlinkArrives
  <2>2. OnePager(fromR', loop) /\ (PagerIn(fromR') <=> PagerIn(fromR))
    BY <1>0, <1>1, <1>2, <2>1, PagerQueue DEF PagerWaits
  <2>3. /\ toR' \in Seq(Question) /\ OnePager(toR', loop) /\ (PagerIn(toR') <=> PagerIn(toR))
        /\ LineIn(toR) => LineIn(toR')
        /\ LooksUp(toR) \/ m.good => LooksUp(toR')
    <3>1. CASE m.good
      <4>1. ReplRequest(Lookup)
        BY <1>2, <1>9, <3>1 DEF UnlinkArrives
      <4>2. Lookup \in Question /\ Lookup.op = "lookup"
        BY DEF Question, Lookup
      <4>3. Adds(toR, toR', Lookup) /\ toR' \in Seq(Question)
        BY <1>0, <4>1, <4>2, Requests
      <4>4. ~ OfPager(Lookup)
        BY <4>2, Kinds
      <4>5. OnePager(toR', loop) /\ (PagerIn(toR') <=> PagerIn(toR))
        BY <1>0, <4>3, <4>4, PagerQueue DEF PagerWaits
      <4>6. (LineIn(toR) => LineIn(toR')) /\ LooksUp(toR')
        BY <4>2, <4>3, LookQueue
      <4> QED BY <4>3, <4>5, <4>6
    <3>2. CASE ~ m.good
      <4>1. toR' = toR
        BY <1>2, <1>9, <3>2 DEF UnlinkArrives
      <4> QED BY <1>0, <3>2, <4>1 DEF ReplTypes, PagerWaits
    <3> QED BY <3>1, <3>2
  <2>4. PagerWaits'
    BY <1>0, <1>2, <2>1, <2>2, <2>3 DEF PagerWaits
  <2>5. PromptFollows'
    BY <1>0, <1>3, <1>5, <1>6, <2>1 DEF PromptFollows
  <2>6. ~ m.good => (ChangeIn(fromR) => ChangeIn(fromR'))
    <3> HAVE ~ m.good
    <3>1. ~ Changed(m)
      BY <1>2 DEF Changed
    <3> QED BY <1>1, <1>2, <3>1, LookQueue
  <2>7. LookupFollows' \/ Tells(fromR', tree', onDisk')
    BY <1>2, <1>3, <1>5, <1>7, <2>3, <2>6 DEF SettlesInv, LookupFollows
  <2>8. ReplTypes' /\ TerminalFollows'
    BY <1>0, <1>2, <1>3, <1>5, <2>1, <2>3 DEF ReplTypes, TerminalFollows
  <2> QED BY <2>4, <2>5, <2>7, <2>8 DEF SettlesInv
<1> QED BY <1>8, <1>9

LEMMA SettlesPrompt == ASSUME SettlesInv, LoopPrompt PROVE SettlesInv'
<1>0. ReplTypes /\ PagerWaits /\ PromptFollows
  BY DEF SettlesInv
<1>1. /\ Drops(outputs, outputs') /\ outputs' \in Seq(Output) /\ outputs[1].op = "prompt"
      /\ loop = "reads" /\ UNCHANGED <<fromR, onDisk, tree, loop, lost>> /\ terminal' = TRUE
  BY <1>0, Readings DEF LoopPrompt
<1>2. Lookup \in Question /\ Lookup.op = "lookup"
  BY DEF Question, Lookup
<1>3. Adds(toR, toR', Lookup) /\ toR' \in Seq(Question)
  BY <1>0, <1>2, Requests DEF LoopPrompt
<1>4. ReplTypes'
  BY <1>0, <1>1, <1>3 DEF ReplTypes
<1>5. PagerWaits'
  <2>1. ~ OfPager(Lookup)
    BY <1>2, Kinds
  <2>2. OnePager(toR', loop) /\ (PagerIn(toR') <=> PagerIn(toR))
    BY <1>0, <1>3, <2>1, PagerQueue DEF PagerWaits
  <2> QED BY <1>0, <1>1, <2>2 DEF PagerWaits
<1>6. PromptFollows'
  <2>1. PromptAfterPager(outputs', fromR)
    BY <1>0, <1>1, FollowQueue DEF PromptFollows
  <2> QED BY <1>0, <1>1, <2>1 DEF PromptFollows
<1>7. LooksUp(toR')
  BY <1>2, <1>3, LookQueue
<1> QED BY <1>1, <1>4, <1>5, <1>6, <1>7 DEF SettlesInv, TerminalFollows, LookupFollows

LEMMA SettlesPager == ASSUME SettlesInv, LoopPager PROVE SettlesInv'
<1>0. ReplTypes /\ PagerWaits /\ PromptFollows /\ TerminalFollows
  BY DEF SettlesInv
<1>1. PICK m : m = outputs[1]
  OBVIOUS
<1>2. /\ Drops(outputs, outputs') /\ outputs' \in Seq(Output) /\ Head(outputs) = m /\ m \in Output
      /\ m.op = "pager" /\ loop = "reads" /\ UNCHANGED <<fromR, onDisk, tree, terminal, lost>>
  BY <1>0, <1>1, Readings DEF LoopPager
<1>3. m.file \in ReplFile
  BY <1>2, Kinds
<1>4. ~ PagerIn(toR) /\ ~ PagerIn(fromR)
  BY <1>0, <1>2, NoneWaits
<1>5. /\ toR' \in Seq(Question) /\ OnePager(toR', loop') /\ loop' \in {"reads", "opens", "unlinks"}
      /\ loop' \in {"opens", "unlinks"} => PagerIn(toR')
      /\ LineIn(toR) => LineIn(toR')
      /\ LooksUp(toR) => LooksUp(toR')
  <2>1. CASE m.file \in paged
    <3>1. PagerOpened(m.file, m.delete)
      BY <1>2, <2>1 DEF LoopPager
    <3>2. /\ toR' \in Seq(Question) /\ OnePager(toR', loop') /\ loop' \in {"reads", "unlinks"}
          /\ loop' = "unlinks" => PagerIn(toR')
          /\ LineIn(toR) => LineIn(toR')
          /\ LooksUp(toR) => LooksUp(toR')
      BY <1>0, <1>3, <1>4, <3>1, PagerGoesOn
    <3> QED BY <3>2
  <2>2. CASE m.file \notin paged
    <3> DEFINE r == FileRequest("read", m.file, IF m.delete THEN "pagerDelete" ELSE "pager")
    <3>1. ReplRequest(r) /\ loop' = "opens"
      BY <1>2, <2>2 DEF LoopPager, Awaits
    <3>2. r \in Question /\ OfPager(r) /\ Awaiting(r) = "opens"
      BY <1>3 DEF Question, FileRequest, OfPager, Awaiting
    <3> HIDE DEF r
    <3>3. Adds(toR, toR', r) /\ toR' \in Seq(Question)
      BY <1>0, <3>1, <3>2, Requests
    <3>4. OnePager(toR, loop)
      BY <1>0 DEF PagerWaits
    <3>5. OnePager(toR', "opens") /\ PagerIn(toR')
      BY <1>4, <3>2, <3>3, <3>4, PagerQueue
    <3>6. (LineIn(toR) => LineIn(toR')) /\ (LooksUp(toR) => LooksUp(toR'))
      BY <3>3, LookQueue
    <3> QED BY <3>1, <3>3, <3>5, <3>6
  <2> QED BY <2>1, <2>2
<1>6. ReplTypes'
  BY <1>0, <1>2, <1>5 DEF ReplTypes
<1>7. PagerWaits'
  BY <1>2, <1>4, <1>5, NonePager DEF PagerWaits
<1>8. PromptIn(outputs') <=> PromptIn(outputs)
  BY <1>1, <1>2, PromptQueue
<1>9. PromptFollows'
  <2>1. PromptAfterPager(outputs, fromR)
    BY <1>0 DEF PromptFollows
  <2>2. PromptAfterPager(outputs', fromR)
    BY <1>2, <2>1, FollowQueue
  <2>3. PromptIn(fromR) \/ PromptIn(outputs')
    BY <1>1, <1>2, <2>1, FollowQueue
  <2> QED BY <1>0, <1>2, <2>2, <2>3 DEF PromptFollows
<1>10. TerminalFollows'
  BY <1>0, <1>2, <1>5, <1>8 DEF TerminalFollows
<1>11. LookupFollows' \/ Tells(fromR', tree', onDisk')
  BY <1>2, <1>5, <1>8 DEF SettlesInv, LookupFollows
<1> QED BY <1>6, <1>7, <1>9, <1>10, <1>11 DEF SettlesInv

LEMMA SettlesPlot == ASSUME SettlesInv, LoopNewPage \/ LoopImage PROVE SettlesInv'
<1>0. ReplTypes /\ PagerWaits /\ PromptFollows /\ TerminalFollows
  BY DEF SettlesInv
<1>1. PICK op \in {"newPage", "image"} : LoopReads(op)
  BY DEF LoopNewPage, LoopImage
<1>2. /\ Drops(outputs, outputs') /\ outputs' \in Seq(Output) /\ outputs[1].op = op
      /\ UNCHANGED <<fromR, onDisk, tree, lost>>
  BY <1>0, <1>1, Readings
<1>3. UNCHANGED <<toR, loop, terminal>>
  BY DEF LoopNewPage, LoopImage
<1>4. PromptIn(outputs') <=> PromptIn(outputs)
  BY <1>2, PromptQueue
<1>5. PromptAfterPager(outputs', fromR)
  BY <1>0, <1>2, FollowQueue DEF PromptFollows
<1>6. ReplTypes' /\ PagerWaits' /\ PromptFollows' /\ TerminalFollows'
  <2>1. ReplTypes'
    BY <1>0, <1>2, <1>3 DEF ReplTypes
  <2>2. PagerWaits'
    BY <1>0, <1>2, <1>3 DEF PagerWaits
  <2>3. PromptFollows' /\ TerminalFollows'
    BY <1>0, <1>2, <1>3, <1>4, <1>5 DEF PromptFollows, TerminalFollows
  <2> QED BY <2>1, <2>2, <2>3
<1>7. LookupFollows' \/ Tells(fromR', tree', onDisk')
  BY <1>2, <1>3, <1>4 DEF SettlesInv, LookupFollows
<1> QED BY <1>6, <1>7 DEF SettlesInv

(* What the user asks for: a line typed brings the prompt back.            *)
LEMMA SettlesUser ==
    ASSUME SettlesInv,
           \/ \E l \in ReplLine, typed \in BOOLEAN : UserRuns(l, typed)
           \/ \E f \in ReplFile : UserWrites(f) \/ UserDeletes(f)
    PROVE  SettlesInv'
<1>0. ReplTypes /\ PagerWaits /\ PromptFollows /\ TerminalFollows
  BY DEF SettlesInv
<1>1. UNCHANGED <<fromR, outputs, loop, onDisk, tree, lost>>
  BY DEF UserRuns, UserWrites, UserDeletes, Asks, Acts, replFileVars, interruptVars
<1>2. PICK r \in Question : /\ ReplRequest(r) /\ ~ OfPager(r)
                            /\ UNCHANGED terminal \/ r.op = "line"
  <2>1. CASE \E l \in ReplLine, typed \in BOOLEAN : UserRuns(l, typed)
    <3>1. PICK l \in ReplLine, typed \in BOOLEAN : UserRuns(l, typed)
      BY <2>1
    <3>2. l \in Question /\ l.op = "line"
      BY DEF Question, ReplLine
    <3> QED BY <3>1, <3>2, Kinds DEF UserRuns
  <2>2. ASSUME NEW f \in ReplFile, UserWrites(f) \/ UserDeletes(f)
        PROVE  \E r \in Question : ReplRequest(r) /\ ~ OfPager(r) /\ UNCHANGED terminal
    <3>1. PICK op \in {"write", "unlink"} : ReplRequest(FileRequest(op, f, "user")) /\ UNCHANGED terminal
      BY <2>2 DEF UserWrites, UserDeletes
    <3>2. FileRequest(op, f, "user") \in Question /\ ~ OfPager(FileRequest(op, f, "user"))
      BY DEF Question, FileRequest, OfPager
    <3> QED BY <3>1, <3>2
  <2> QED BY <2>1, <2>2
<1>3. Adds(toR, toR', r) /\ toR' \in Seq(Question)
  BY <1>0, <1>2, Requests
<1>4. OnePager(toR', loop) /\ (PagerIn(toR') <=> PagerIn(toR))
  BY <1>0, <1>2, <1>3, PagerQueue DEF PagerWaits
<1>5. (LineIn(toR) \/ r.op = "line" => LineIn(toR')) /\ (LooksUp(toR) => LooksUp(toR'))
  BY <1>3, LookQueue
<1>6. ReplTypes' /\ PagerWaits' /\ PromptFollows' /\ TerminalFollows'
  <2>1. ReplTypes'
    BY <1>0, <1>1, <1>3 DEF ReplTypes
  <2>2. PagerWaits'
    BY <1>0, <1>1, <1>4 DEF PagerWaits
  <2>3. PromptFollows' /\ TerminalFollows'
    BY <1>0, <1>1, <1>2, <1>5 DEF PromptFollows, TerminalFollows
  <2> QED BY <2>1, <2>2, <2>3
<1>7. LookupFollows' \/ Tells(fromR', tree', onDisk')
  BY <1>1, <1>5 DEF SettlesInv, LookupFollows
<1> QED BY <1>6, <1>7 DEF SettlesInv

LEMMA SettlesInit == ASSUME ReplInit PROVE SettlesInv
<1>1. fromR[1] = [op |-> "prompt"] /\ fromR \in Seq(Answer) /\ 1 \in 1 .. Len(fromR) /\ Len(fromR) = 1
  <2>1. [op |-> "prompt"] \in Answer
    BY DEF Answer, Output
  <2> QED BY <2>1 DEF ReplInit
<1>2. /\ toR = <<>> /\ outputs = <<>> /\ Len(toR) = 0 /\ Len(outputs) = 0 /\ 1 .. 0 = {}
      /\ loop = "reads" /\ onDisk = {}
  BY DEF ReplInit
<1>3. ReplTypes
  <2>1. <<>> \in Seq(Question) /\ <<>> \in Seq(Output)
    OBVIOUS
  <2> QED BY <1>1, <1>2, <2>1 DEF ReplTypes
<1>4. PromptIn(fromR)
  BY <1>1 DEF PromptIn
<1>5. \A i \in 1 .. Len(fromR) : fromR[i].op = "prompt"
  BY <1>1
<1>6. PagerWaits
  BY <1>2, <1>5 DEF PagerWaits, OnePager, PagerIn, OfPager
<1>7. PromptFollows
  BY <1>2, <1>5 DEF PromptFollows, PromptAfterPager
<1> QED BY <1>3, <1>4, <1>6, <1>7 DEF SettlesInv, TerminalFollows, LookupFollows

LEMMA SettlesStep == ASSUME SettlesInv, [ReplNext]_replVars PROVE SettlesInv'
<1>1. CASE RunLine \/ CutLine \/ RunLookup \/ RunFileRequest
  BY <1>1, SettlesLine, SettlesRunLookup, SettlesRunFileRequest
<1>6. CASE DeadReadTakes \/ \E b \in BOOLEAN : RInterrupted(b) \/ UserInterrupts(b)
  BY <1>6, SettlesDeadRead, SettlesInterrupted, SettlesInterrupts
<1>2. CASE TreeArrives \/ ReadArrives \/ UnlinkArrives \/ WriteArrives \/ OutputArrives
  BY <1>2, SettlesTree, SettlesRead, SettlesUnlink, SettlesWrite, SettlesOutput
<1>3. CASE LoopPrompt \/ LoopPager \/ LoopNewPage \/ LoopImage
  BY <1>3, SettlesPrompt, SettlesPager, SettlesPlot
<1>4. CASE \/ \E l \in ReplLine, typed \in BOOLEAN : UserRuns(l, typed)
           \/ \E f \in ReplFile : UserWrites(f) \/ UserDeletes(f)
  BY <1>4, SettlesUser
<1>5. CASE PlotsRender \/ NextPlot \/ PrevPlot \/ ClearPlots \/ UNCHANGED replVars
  <2>1. UNCHANGED <<toR, fromR, outputs, loop, onDisk, tree, terminal, lost>>
    BY <1>5 DEF PlotsRender, NextPlot, PrevPlot, ClearPlots, Click, Asks, Acts, replVars,
                replFileVars, interruptVars
  <2>2. ReplTypes' /\ PagerWaits' /\ PromptFollows'
    BY <2>1 DEF SettlesInv, ReplTypes, PagerWaits, PromptFollows
  <2>3. TerminalFollows' /\ (LookupFollows' \/ Tells(fromR', tree', onDisk'))
    BY <2>1 DEF SettlesInv, TerminalFollows, LookupFollows
  <2> QED BY <2>2, <2>3 DEF SettlesInv
<1> QED BY <1>1, <1>2, <1>3, <1>4, <1>5, <1>6 DEF ReplNext

(* For any files and however much the user does, interrupts included: once *)
(* nothing is on its way and the loop has no output and has not failed, it *)
(* reads, the terminal reads, and the tree shows the files there are,      *)
(* unless the very request or line that would have seen to it was lost to  *)
(* Ctrl-C.                                                                 *)
THEOREM ReplComesToRest == ReplSpec => []ReplSettles
<1>1. SettlesInv => ReplSettles
  <2> SUFFICES ASSUME SettlesInv, toR = <<>>, fromR = <<>>, loop # "ended",
                      ~ (loop = "reads" /\ outputs # <<>>), ~ (loop # "reads" /\ "pager" \in lost)
               PROVE  /\ loop = "reads"
                      /\ terminal \/ "line" \in lost
                      /\ tree = onDisk \/ "lookup" \in lost
    BY DEF ReplSettles
  <2>1. Len(toR) = 0 /\ Len(fromR) = 0 /\ 1 .. 0 = {}
    OBVIOUS
  <2>2. loop = "reads"
    BY <2>1 DEF SettlesInv, ReplTypes, PagerWaits, PagerIn
  <2>3. Len(outputs) = 0
    BY <2>2
  <2>4. terminal \/ "line" \in lost
    BY <2>1, <2>3 DEF SettlesInv, TerminalFollows, PromptIn, LineIn
  <2>5. tree = onDisk \/ "lookup" \in lost
    BY <2>1, <2>3 DEF SettlesInv, LookupFollows, Tells, PromptIn, LooksUp, ChangeIn
  <2> QED BY <2>2, <2>4, <2>5
<1> QED BY <1>1, SettlesInit, SettlesStep, PTL DEF ReplSpec

-----------------------------------------------------------------------------
(* The editor: code is run as it was asked to.                             *)

Sequential(s) == s \in Seq(ToSet(s))
Asked(s) == [i \in 1 .. Len(s) |-> s[i].request]

(* Scripts to be written wait in inbox, then their answers in callbacks,   *)
(* then their lines in inbox: in each the runs are in order, and those of  *)
(* a later stage come first.  A script asked for while another waited has  *)
(* overtaken it.                                                           *)
Over(ov, r, n) == r < n /\ <<r, n>> \in ov
In(s, op, r) == \E i \in 1 .. Len(s) : s[i].op = op /\ s[i].run = r
Scripts(s, ov) ==
    \A i, j \in 1 .. Len(s) : i < j /\ s[i].op = "script" /\ s[j].op = "script" =>
      Over(ov, s[i].run, s[j].run)
Sources(s) ==
    \A i, j \in 1 .. Len(s) : i < j /\ s[i].op = "source" /\ s[j].op = "source" =>
      s[i].run < s[j].run
Mixed(s, ov) ==
    \A i, j \in 1 .. Len(s) : s[i].op = "source" /\ s[j].op = "script" =>
      s[i].run < s[j].run /\ (j < i => Over(ov, s[i].run, s[j].run))
InOrder(s, ov) == Scripts(s, ov) /\ Sources(s) /\ Mixed(s, ov)

Done(r) == \E k \in 1 .. Len(executed) : executed[k].run = r
Written(r) == In(Asked(callbacks), "script", r)
Told(r) == script = r \/ Over(overtook, r, script)

RunsTyped ==
    /\ Sequential(inbox) /\ Sequential(callbacks) /\ Sequential(executed) /\ ran \in Nat
RunsStages ==
    /\ InOrder(inbox, overtook) /\ Scripts(Asked(callbacks), overtook)
    /\ \A r, n : Written(r) /\ In(inbox, "script", n) => Over(overtook, r, n)
    /\ \A r, n : In(inbox, "source", r) /\ Written(n) => r < n
    /\ \A r, n : Done(r) /\ (In(inbox, "source", n) \/ Written(n) \/ In(inbox, "script", n)) => r < n
    /\ \A r : In(inbox, "source", r) \/ Written(r) => Told(r)
RunsDone ==
    /\ \A i, j \in 1 .. Len(executed) : i < j => executed[i].run < executed[j].run
    /\ \A i \in 1 .. Len(executed) :
         executed[i].code = executed[i].run \/ <<executed[i].run, executed[i].code>> \in overtook
RunsKept ==
    \A r : r \in 1 .. ran <=> \/ In(inbox, "script", r) \/ Written(r) \/ In(inbox, "source", r)
                              \/ r \in unrun \/ Done(r)
RunsInv == RunsTyped /\ RunsStages /\ RunsDone /\ RunsKept

LEMMA SeqIsSequential == ASSUME NEW S, NEW s \in Seq(S) PROVE Sequential(s)
<1>1. Len(s) \in Nat /\ DOMAIN s = 1 .. Len(s) /\ s = [i \in 1 .. Len(s) |-> s[i]]
  OBVIOUS
<1>2. s \in [1 .. Len(s) -> ToSet(s)]
  BY <1>1 DEF ToSet
<1> QED BY <1>1, <1>2 DEF Sequential

LEMMA SequentialAdds ==
    ASSUME NEW s, Sequential(s), NEW m
    PROVE  Sequential(Append(s, m)) /\ Adds(s, Append(s, m), m) /\ s \o <<m>> = Append(s, m)
<1> DEFINE S == ToSet(s) \cup {m}
<1>1. s \in Seq(ToSet(s)) /\ ToSet(s) \subseteq S /\ m \in S
  BY DEF Sequential
<1> HIDE DEF S
<1>2. s \in Seq(S)
  BY <1>1
<1>3. Append(s, m) \in Seq(S) /\ Adds(s, Append(s, m), m)
  BY <1>1, <1>2, AppendAdds
<1>4. s \o <<m>> = Append(s, m)
  BY <1>1, <1>2
<1> QED BY <1>3, <1>4, SeqIsSequential

LEMMA SequentialDrops ==
    ASSUME NEW s, Sequential(s), s # <<>>
    PROVE  Sequential(Tail(s)) /\ Drops(s, Tail(s)) /\ Head(s) = s[1]
<1>1. s \in Seq(ToSet(s))
  BY DEF Sequential
<1> QED BY <1>1, TailDrops, SeqIsSequential


LEMMA AskedQueue ==
    ASSUME NEW s, NEW t, NEW m
    PROVE  /\ Adds(s, t, m) => Adds(Asked(s), Asked(t), m.request)
           /\ Drops(s, t) => Drops(Asked(s), Asked(t)) /\ Asked(s)[1] = s[1].request
<1>1. Adds(s, t, m) => Len(s) \in Nat /\ Len(t) \in Nat
  <2>1. Adds(s, t, m) => Len(s) \in Nat /\ Len(t) = Len(s) + 1
    BY DEF Adds
  <2> QED BY <2>1
<1>2. Drops(s, t) => Len(s) \in Nat /\ Len(t) \in Nat
  BY DEF Drops
<1>3. \A v : Len(v) \in Nat => /\ Len(Asked(v)) = Len(v)
                               /\ \A i \in 1 .. Len(v) : Asked(v)[i] = v[i].request
  BY DEF Asked
<1>4. ASSUME Adds(s, t, m) PROVE Adds(Asked(s), Asked(t), m.request)
  BY <1>1, <1>3, <1>4 DEF Adds
<1>5. ASSUME Drops(s, t) PROVE Drops(Asked(s), Asked(t)) /\ Asked(s)[1] = s[1].request
  <2>1. /\ Len(Asked(s)) = Len(s) /\ \A i \in 1 .. Len(s) : Asked(s)[i] = s[i].request
        /\ Len(Asked(t)) = Len(t) /\ \A i \in 1 .. Len(t) : Asked(t)[i] = t[i].request
    BY <1>2, <1>3, <1>5
  <2>2. \A i \in 1 .. Len(t) : i + 1 \in 1 .. Len(s) /\ Asked(t)[i] = Asked(s)[i + 1]
    <3> TAKE i \in 1 .. Len(t)
    <3>1. i + 1 \in 1 .. Len(s) /\ t[i] = s[i + 1]
      BY <1>5 DEF Drops
    <3>2. Asked(t)[i] = t[i].request /\ Asked(s)[i + 1] = s[i + 1].request
      BY <2>1, <3>1
    <3> QED BY <3>1, <3>2
  <2>3. \A i \in 1 .. Len(s) : i = 1 \/ (i - 1 \in 1 .. Len(t) /\ Asked(t)[i - 1] = Asked(s)[i])
    <3> SUFFICES ASSUME NEW i \in 1 .. Len(s), i # 1
                 PROVE  i - 1 \in 1 .. Len(t) /\ Asked(t)[i - 1] = Asked(s)[i]
      OBVIOUS
    <3>1. i - 1 \in 1 .. Len(t) /\ t[i - 1] = s[i]
      BY <1>5 DEF Drops
    <3>2. Asked(t)[i - 1] = t[i - 1].request /\ Asked(s)[i] = s[i].request
      BY <2>1, <3>1
    <3> QED BY <3>1, <3>2
  <2>4. Len(s) \in Nat /\ 1 \in 1 .. Len(s) /\ Len(t) = Len(s) - 1
    BY <1>5 DEF Drops
  <2> QED BY <2>1, <2>2, <2>3, <2>4 DEF Drops
<1> QED BY <1>4, <1>5


LEMMA InQueue ==
    ASSUME NEW s, NEW t, NEW m, NEW op, NEW r
    PROVE  /\ Adds(s, t, m) => (In(t, op, r) <=> In(s, op, r) \/ (m.op = op /\ m.run = r))
           /\ Drops(s, t) => (In(s, op, r) <=> In(t, op, r) \/ (s[1].op = op /\ s[1].run = r))
<1>1. ASSUME Adds(s, t, m) PROVE In(t, op, r) <=> In(s, op, r) \/ (m.op = op /\ m.run = r)
  BY <1>1 DEF Adds, In
<1>2. ASSUME Drops(s, t) PROVE In(s, op, r) <=> In(t, op, r) \/ (s[1].op = op /\ s[1].run = r)
  BY <1>2 DEF Drops, In
<1> QED BY <1>1, <1>2

(* What is taken from the front comes before the rest.                     *)
LEMMA FrontQueue ==
    ASSUME NEW s, NEW t, NEW ov, Drops(s, t)
    PROVE  /\ Scripts(s, ov) => Scripts(t, ov)
           /\ Scripts(s, ov) /\ s[1].op = "script" => \A n : In(t, "script", n) => Over(ov, s[1].run, n)
           /\ InOrder(s, ov) => InOrder(t, ov)
           /\ InOrder(s, ov) /\ s[1].op = "source" =>
                \A n : In(t, "source", n) \/ In(t, "script", n) => s[1].run < n
           /\ InOrder(s, ov) /\ s[1].op = "script" =>
                \A r : In(t, "source", r) => r < s[1].run /\ Over(ov, r, s[1].run)
<1>1. /\ \A i \in 1 .. Len(t) : i + 1 \in 1 .. Len(s) /\ t[i] = s[i + 1] /\ 1 < i + 1
      /\ 1 \in 1 .. Len(s) /\ \A i, j \in 1 .. Len(t) : i < j => i + 1 < j + 1
  <2>1. \A i \in 1 .. Len(t) : 1 < i + 1
    OBVIOUS
  <2>2. \A i, j \in 1 .. Len(t) : i < j => i + 1 < j + 1
    OBVIOUS
  <2> QED BY <2>1, <2>2 DEF Drops
<1>2. ASSUME Scripts(s, ov) PROVE Scripts(t, ov)
  BY <1>1, <1>2 DEF Scripts
<1>3. ASSUME Sources(s) PROVE Sources(t)
  BY <1>1, <1>3 DEF Sources
<1>4. ASSUME Mixed(s, ov) PROVE Mixed(t, ov)
  <2> SUFFICES ASSUME NEW i \in 1 .. Len(t), NEW j \in 1 .. Len(t),
                      t[i].op = "source", t[j].op = "script"
               PROVE  t[i].run < t[j].run /\ (j < i => Over(ov, t[i].run, t[j].run))
    BY DEF Mixed
  <2>1. s[i + 1].run < s[j + 1].run /\ (j + 1 < i + 1 => Over(ov, s[i + 1].run, s[j + 1].run))
    BY <1>1, <1>4 DEF Mixed
  <2> QED BY <1>1, <2>1
<1>5. ASSUME Scripts(s, ov), s[1].op = "script", NEW n, In(t, "script", n) PROVE Over(ov, s[1].run, n)
  BY <1>1, <1>5 DEF Scripts, In
<1>6. ASSUME InOrder(s, ov), s[1].op = "source", NEW n, In(t, "source", n) \/ In(t, "script", n)
      PROVE  s[1].run < n
  <2>1. CASE In(t, "source", n)
    BY <1>1, <1>6, <2>1 DEF InOrder, Sources, In
  <2>2. CASE In(t, "script", n)
    BY <1>1, <1>6, <2>2 DEF InOrder, Mixed, In
  <2> QED BY <1>6, <2>1, <2>2
<1>7. ASSUME InOrder(s, ov), s[1].op = "script", NEW r, In(t, "source", r)
      PROVE  r < s[1].run /\ Over(ov, r, s[1].run)
  BY <1>1, <1>7 DEF InOrder, Mixed, In
<1> QED BY <1>2, <1>3, <1>4, <1>5, <1>6, <1>7 DEF InOrder

(* What is put at the end comes after the rest.                            *)
LEMMA EndQueue ==
    ASSUME NEW s, NEW t, NEW m, NEW ov, Adds(s, t, m)
    PROVE  /\ Scripts(s, ov) /\ (m.op = "script" => \A r : In(s, "script", r) => Over(ov, r, m.run)) =>
                Scripts(t, ov)
           /\ InOrder(s, ov) /\ m.op \notin {"script", "source"} => InOrder(t, ov)
           /\ InOrder(s, ov) /\ m.op = "script" /\ (\A r : In(s, "script", r) => Over(ov, r, m.run))
              /\ (\A r : In(s, "source", r) => r < m.run) => InOrder(t, ov)
           /\ InOrder(s, ov) /\ m.op = "source" /\ (\A r : In(s, "source", r) => r < m.run)
              /\ (\A n : In(s, "script", n) => Over(ov, m.run, n)) => InOrder(t, ov)
<1>1. /\ \A i \in 1 .. Len(t) : (i \in 1 .. Len(s) /\ t[i] = s[i]) \/ (i = Len(s) + 1 /\ t[i] = m)
      /\ Len(s) \in Nat
  BY DEF Adds
<1>2. \A i, j \in 1 .. Len(t) : i < j =>
        i \in 1 .. Len(s) /\ t[i] = s[i] /\ ((j \in 1 .. Len(s) /\ t[j] = s[j]) \/ t[j] = m)
  <2> TAKE i, j \in 1 .. Len(t)
  <2> HAVE i < j
  <2>1. i # Len(s) + 1
    BY <1>1
  <2> QED BY <1>1, <2>1
<1>3. ASSUME Scripts(s, ov), m.op = "script" => \A r : In(s, "script", r) => Over(ov, r, m.run)
      PROVE  Scripts(t, ov)
  <2> SUFFICES ASSUME NEW i \in 1 .. Len(t), NEW j \in 1 .. Len(t), i < j,
                      t[i].op = "script", t[j].op = "script"
               PROVE  Over(ov, t[i].run, t[j].run)
    BY DEF Scripts
  <2>1. i \in 1 .. Len(s) /\ t[i] = s[i] /\ ((j \in 1 .. Len(s) /\ t[j] = s[j]) \/ t[j] = m)
    BY <1>2
  <2>2. In(s, "script", t[i].run)
    BY <2>1 DEF In
  <2> QED BY <1>3, <2>1, <2>2 DEF Scripts
<1>4. ASSUME Sources(s), m.op = "source" => \A r : In(s, "source", r) => r < m.run
      PROVE  Sources(t)
  <2> SUFFICES ASSUME NEW i \in 1 .. Len(t), NEW j \in 1 .. Len(t), i < j,
                      t[i].op = "source", t[j].op = "source"
               PROVE  t[i].run < t[j].run
    BY DEF Sources
  <2>1. i \in 1 .. Len(s) /\ t[i] = s[i] /\ ((j \in 1 .. Len(s) /\ t[j] = s[j]) \/ t[j] = m)
    BY <1>2
  <2>2. In(s, "source", t[i].run)
    BY <2>1 DEF In
  <2> QED BY <1>4, <2>1, <2>2 DEF Sources
<1>5. ASSUME Mixed(s, ov), m.op = "script" => \A r : In(s, "source", r) => r < m.run,
             m.op = "source" => \A n : In(s, "script", n) => Over(ov, m.run, n)
      PROVE  Mixed(t, ov)
  <2> SUFFICES ASSUME NEW i \in 1 .. Len(t), NEW j \in 1 .. Len(t),
                      t[i].op = "source", t[j].op = "script"
               PROVE  t[i].run < t[j].run /\ (j < i => Over(ov, t[i].run, t[j].run))
    BY DEF Mixed
  <2>1. i # j
    BY <1>1
  <2>2. CASE i < j
    <3>1. i \in 1 .. Len(s) /\ t[i] = s[i] /\ ((j \in 1 .. Len(s) /\ t[j] = s[j]) \/ t[j] = m)
      BY <1>2, <2>2
    <3>2. In(s, "source", t[i].run) /\ ~ (j < i)
      BY <2>2, <3>1 DEF In
    <3> QED BY <1>5, <3>1, <3>2 DEF Mixed
  <2>3. CASE j < i
    <3>1. j \in 1 .. Len(s) /\ t[j] = s[j] /\ ((i \in 1 .. Len(s) /\ t[i] = s[i]) \/ t[i] = m)
      BY <1>2, <2>3
    <3>2. In(s, "script", t[j].run)
      BY <3>1 DEF In
    <3> QED BY <1>5, <3>1, <3>2 DEF Mixed, Over
  <2> QED BY <2>1, <2>2, <2>3
<1> QED BY <1>3, <1>4, <1>5 DEF InOrder

LEMMA MoreOvertook ==
    ASSUME NEW s, NEW ov, NEW more, ov \subseteq more
    PROVE  /\ Scripts(s, ov) => Scripts(s, more)
           /\ InOrder(s, ov) => InOrder(s, more)
           /\ \A r, n : Over(ov, r, n) => Over(more, r, n)
BY DEF InOrder, Scripts, Mixed, Over

(* Every action of the editor.                                             *)
LEMMA RunsRun == ASSUME RunsInv, Run PROVE RunsInv'
<1>1. PICK r : r = [op |-> "script", run |-> ran + 1, text |-> view]
  OBVIOUS
<1>2. /\ inbox' = Append(inbox, r) /\ ran' = ran + 1 /\ overtook' = overtook \cup (Writing \X {ran + 1})
      /\ UNCHANGED <<callbacks, executed, script, unrun>>
  BY <1>1 DEF Run, Request
<1>3. r.op = "script" /\ r.run = ran + 1
  BY <1>1
<1>4. RunsTyped' /\ Adds(inbox, inbox', r)
  BY <1>2, SequentialAdds DEF RunsInv, RunsTyped
<1>5. \A x : (In(inbox, "script", x) \/ Written(x) => x \in Writing)
  <2>1. DOMAIN inbox = 1 .. Len(inbox) /\ DOMAIN callbacks = 1 .. Len(callbacks) /\ Len(callbacks) \in Nat
    BY DEF RunsInv, RunsTyped, Sequential
  <2>2. ASSUME NEW x, In(inbox, "script", x) PROVE x \in Writing
    <3>1. PICK i \in DOMAIN inbox : inbox[i].op = "script" /\ inbox[i].run = x
      BY <2>1, <2>2 DEF In
    <3>2. inbox[i] \in ToSet(inbox)
      BY <3>1 DEF ToSet
    <3> QED BY <3>1, <3>2 DEF Writing
  <2>3. ASSUME NEW x, Written(x) PROVE x \in Writing
    <3>1. PICK i \in 1 .. Len(Asked(callbacks)) :
                 Asked(callbacks)[i].op = "script" /\ Asked(callbacks)[i].run = x
      BY <2>3 DEF Written, In
    <3>2. Len(Asked(callbacks)) = Len(callbacks)
      BY <2>1 DEF Asked
    <3>3. i \in DOMAIN callbacks /\ callbacks[i].request.op = "script" /\ callbacks[i].request.run = x
      BY <2>1, <3>1, <3>2 DEF Asked
    <3>4. callbacks[i].request \in {c.request : c \in ToSet(callbacks)}
      BY <3>3 DEF ToSet
    <3> QED BY <3>3, <3>4 DEF Writing
  <2> QED BY <2>2, <2>3
<1>6. \A x : In(inbox, "script", x) \/ In(inbox, "source", x) \/ Written(x) \/ Done(x) => x < ran + 1
  <2>1. \A x : In(inbox, "script", x) \/ In(inbox, "source", x) \/ Written(x) \/ Done(x) => x \in 1 .. ran
    BY DEF RunsInv, RunsKept
  <2> QED BY <2>1 DEF RunsInv, RunsTyped
<1>7. \A x : In(inbox, "script", x) \/ Written(x) => Over(overtook', x, ran + 1)
  BY <1>2, <1>5, <1>6 DEF Over
<1>8. InOrder(inbox', overtook') /\ Scripts(Asked(callbacks'), overtook')
  <2>1. InOrder(inbox, overtook') /\ Scripts(Asked(callbacks), overtook')
    BY <1>2, MoreOvertook DEF RunsInv, RunsStages
  <2>2. InOrder(inbox', overtook')
    BY <1>3, <1>4, <1>6, <1>7, <2>1, EndQueue
  <2> QED BY <1>2, <2>1, <2>2
<1>9. \A op, x : In(inbox', op, x) <=> In(inbox, op, x) \/ (op = "script" /\ x = ran + 1)
  BY <1>3, <1>4, InQueue
<1>10. \A x : (Written(x)' <=> Written(x)) /\ (Done(x)' <=> Done(x)) /\ (Told(x) => Told(x)')
  BY <1>2 DEF Written, Done, Asked, Told, Over
<1>11. RunsStages'
  <2>1. ASSUME NEW x, NEW n, Written(x)', In(inbox, "script", n)' PROVE Over(overtook, x, n)'
    BY <1>2, <1>7, <1>9, <1>10, <2>1, MoreOvertook DEF RunsInv, RunsStages
  <2>2. ASSUME NEW x, NEW n, In(inbox, "source", x)', Written(n)' PROVE x < n
    BY <1>9, <1>10, <2>2 DEF RunsInv, RunsStages
  <2>3. ASSUME NEW x, NEW n, Done(x)', In(inbox, "source", n)' \/ Written(n)' \/ In(inbox, "script", n)'
        PROVE  x < n
    BY <1>6, <1>9, <1>10, <2>3 DEF RunsInv, RunsStages
  <2>4. ASSUME NEW x, In(inbox, "source", x)' \/ Written(x)' PROVE Told(x)'
    BY <1>9, <1>10, <2>4 DEF RunsInv, RunsStages
  <2> QED BY <1>8, <2>1, <2>2, <2>3, <2>4 DEF RunsStages
<1>12. RunsDone'
  BY <1>2 DEF RunsInv, RunsDone
<1>13. RunsKept'
  <2>1. \A x : x \in 1 .. ran' <=> x \in 1 .. ran \/ x = ran + 1
    BY <1>2 DEF RunsInv, RunsTyped
  <2> QED BY <1>2, <1>9, <1>10, <2>1 DEF RunsInv, RunsKept
<1> QED BY <1>4, <1>11, <1>12, <1>13 DEF RunsInv

(* A step that loses no run and brings none further.                       *)
LEMMA RunsStay ==
    ASSUME RunsInv, Sequential(inbox)', Sequential(callbacks)', UNCHANGED runVars,
           InOrder(inbox', overtook), Scripts(Asked(callbacks'), overtook),
           \A op \in {"script", "source"} : \A x : In(inbox', op, x) <=> In(inbox, op, x),
           \A x : In(Asked(callbacks'), "script", x) <=> In(Asked(callbacks), "script", x)
    PROVE  RunsInv'
<1>1. /\ \A x : (In(inbox, "script", x)' <=> In(inbox, "script", x))
                /\ (In(inbox, "source", x)' <=> In(inbox, "source", x))
                /\ (Written(x)' <=> Written(x)) /\ (Done(x)' <=> Done(x)) /\ (Told(x)' <=> Told(x))
      /\ UNCHANGED <<ran, executed, unrun, overtook, script>>
  BY DEF Written, Done, Told, runVars
<1>2. RunsStages'
  <2>1. \A x, n : Over(overtook, x, n)' <=> Over(overtook, x, n)
    BY <1>1
  <2> QED BY <1>1, <2>1 DEF RunsInv, RunsStages
<1>3. RunsTyped' /\ RunsDone' /\ RunsKept'
  <2>1. RunsTyped' /\ RunsDone'
    BY <1>1 DEF RunsInv, RunsTyped, RunsDone
  <2>2. RunsKept'
    BY <1>1 DEF RunsInv, RunsKept
  <2> QED BY <2>1, <2>2
<1> QED BY <1>2, <1>3 DEF RunsInv

LEMMA RunsUnchanged == ASSUME RunsInv, UNCHANGED <<inbox, callbacks, runVars>> PROVE RunsInv'
<1>1. inbox' = inbox /\ callbacks' = callbacks
  OBVIOUS
<1>2. Sequential(inbox)' /\ Sequential(callbacks)'
  BY <1>1 DEF RunsInv, RunsTyped
<1>3. InOrder(inbox', overtook) /\ Scripts(Asked(callbacks'), overtook)
  BY <1>1 DEF RunsInv, RunsStages
<1> QED BY <1>1, <1>2, <1>3, RunsStay

LEMMA RunsRequest ==
    ASSUME RunsInv, NEW r, r.op \notin {"script", "source"}, inbox' = Append(inbox, r),
           UNCHANGED <<callbacks, runVars>>
    PROVE  RunsInv'
<1>1. Sequential(inbox') /\ Adds(inbox, inbox', r)
  BY SequentialAdds DEF RunsInv, RunsTyped
<1>2. \A op \in {"script", "source"} : \A x : In(inbox', op, x) <=> In(inbox, op, x)
  BY <1>1, InQueue
<1>3. InOrder(inbox', overtook)
  BY <1>1, EndQueue DEF RunsInv, RunsStages
<1>4. Sequential(callbacks)' /\ Scripts(Asked(callbacks'), overtook)
  BY DEF RunsInv, RunsTyped, RunsStages
<1> QED BY <1>1, <1>2, <1>3, <1>4, RunsStay

LEMMA RunsSave == ASSUME RunsInv, Save PROVE RunsInv'
<1>1. PICK r : r = [op |-> "save", path |-> object[saver.object].path, text |-> view,
                    index |-> saver.index]
  OBVIOUS
<1>2. inbox' = Append(inbox, r) /\ UNCHANGED <<callbacks, runVars>>
  BY <1>1 DEF Save, Request
<1>3. r.op \notin {"script", "source"}
  BY <1>1
<1> QED BY <1>2, <1>3, RunsRequest

LEMMA RunsOpen == ASSUME RunsInv, NEW p, Open(p) PROVE RunsInv'
<1>1. PICK r : r = [op |-> "open", path |-> p, tabs |-> tabs, active |-> opener]
  OBVIOUS
<1>2. UNCHANGED <<callbacks, runVars>> /\ (inbox' = Append(inbox, r) \/ UNCHANGED inbox)
  BY <1>1 DEF Open, Request, workerVars
<1>3. r.op \notin {"script", "source"}
  BY <1>1
<1> QED BY <1>2, <1>3, RunsRequest, RunsUnchanged

(* An answer that writes no line.                                          *)
LEMMA RunsReturned ==
    ASSUME RunsInv, NEW op, Returned(op), op # "script", UNCHANGED <<inbox, runVars>>
    PROVE  RunsInv'
<1>1. callbacks # <<>> /\ callbacks' = Tail(callbacks) /\ Head(callbacks).request.op # "script"
  BY DEF Returned
<1>2. Sequential(callbacks') /\ Drops(callbacks, callbacks') /\ Head(callbacks) = callbacks[1]
  BY <1>1, SequentialDrops DEF RunsInv, RunsTyped
<1>3. Drops(Asked(callbacks), Asked(callbacks')) /\ Asked(callbacks)[1].op # "script"
  BY <1>1, <1>2, AskedQueue
<1>4. \A x : In(Asked(callbacks'), "script", x) <=> In(Asked(callbacks), "script", x)
  BY <1>3, InQueue
<1>5. Scripts(Asked(callbacks'), overtook)
  BY <1>3, FrontQueue DEF RunsInv, RunsStages
<1>6. Sequential(inbox)' /\ InOrder(inbox', overtook)
  BY DEF RunsInv, RunsTyped, RunsStages
<1> QED BY <1>2, <1>4, <1>5, <1>6, RunsStay

(* Runs that are not brought further are in unrun.                         *)
LEMMA RunsDropped ==
    ASSUME RunsInv, Sequential(inbox)', Sequential(callbacks)',
           UNCHANGED <<script, executed, ran, overtook>>, unrun \subseteq unrun',
           InOrder(inbox', overtook), Scripts(Asked(callbacks'), overtook),
           \A op \in {"script", "source"} : \A x : In(inbox', op, x) => In(inbox, op, x),
           \A op \in {"script", "source"} : \A x : In(inbox, op, x) => In(inbox', op, x) \/ x \in unrun',
           \A x \in unrun' \ unrun : In(inbox, "script", x) \/ In(inbox, "source", x),
           \A x : In(Asked(callbacks'), "script", x) <=> In(Asked(callbacks), "script", x)
    PROVE  RunsInv'
<1>1. \A x : /\ In(inbox, "script", x)' => In(inbox, "script", x)
             /\ In(inbox, "source", x)' => In(inbox, "source", x)
             /\ In(inbox, "script", x) => In(inbox, "script", x)' \/ x \in unrun'
             /\ In(inbox, "source", x) => In(inbox, "source", x)' \/ x \in unrun'
             /\ (Written(x)' <=> Written(x)) /\ (Done(x)' <=> Done(x)) /\ (Told(x)' <=> Told(x))
  BY DEF Written, Done, Told
<1>0. ran' = ran /\ overtook' = overtook
  OBVIOUS
<1>2. RunsStages'
  <2>1. ASSUME NEW x, NEW n, Written(x)', In(inbox', "script", n) PROVE Over(overtook', x, n)
    BY <1>0, <1>1, <2>1 DEF RunsInv, RunsStages
  <2>2. ASSUME NEW x, NEW n, In(inbox', "source", x), Written(n)' PROVE x < n
    BY <1>1, <2>2 DEF RunsInv, RunsStages
  <2>3. ASSUME NEW x, NEW n, Done(x)', In(inbox', "source", n) \/ Written(n)' \/ In(inbox', "script", n)
        PROVE  x < n
    BY <1>1, <2>3 DEF RunsInv, RunsStages
  <2>4. ASSUME NEW x, In(inbox', "source", x) \/ Written(x)' PROVE Told(x)'
    BY <1>1, <2>4 DEF RunsInv, RunsStages
  <2> QED BY <1>0, <2>1, <2>2, <2>3, <2>4 DEF RunsStages
<1>3. RunsTyped' /\ RunsDone'
  BY DEF RunsInv, RunsTyped, RunsDone
<1>4. RunsKept'
  <2>1. ASSUME NEW x \in unrun' PROVE x \in 1 .. ran
    BY <2>1 DEF RunsInv, RunsKept
  <2>2. ASSUME NEW x \in 1 .. ran
        PROVE  In(inbox', "script", x) \/ Written(x)' \/ In(inbox', "source", x) \/ x \in unrun' \/ Done(x)'
    BY <1>1, <2>2 DEF RunsInv, RunsKept
  <2>3. ASSUME NEW x, In(inbox', "script", x) \/ Written(x)' \/ In(inbox', "source", x) \/ Done(x)'
        PROVE  x \in 1 .. ran
    BY <1>1, <2>3 DEF RunsInv, RunsKept
  <2> QED BY <1>0, <2>1, <2>2, <2>3 DEF RunsKept
<1> QED BY <1>2, <1>3, <1>4 DEF RunsInv

LEMMA RunsOfInbox ==
    ASSUME RunsTyped
    PROVE  /\ \A x : x \in RunsOf(ToSet(inbox)) <=> In(inbox, "script", x) \/ In(inbox, "source", x)
           /\ \A m, x : x \in RunsOf({m}) <=> m.op \in {"script", "source"} /\ x = m.run
<1>1. DOMAIN inbox = 1 .. Len(inbox)
  BY DEF RunsTyped, Sequential
<1>2. \A x : x \in RunsOf(ToSet(inbox)) <=> In(inbox, "script", x) \/ In(inbox, "source", x)
  BY <1>1 DEF RunsOf, ToSet, In
<1>3. \A m, x : x \in RunsOf({m}) <=> m.op \in {"script", "source"} /\ x = m.run
  BY DEF RunsOf
<1> QED BY <1>2, <1>3

LEMMA RunsInterrupt == ASSUME RunsInv, NEW registered, Interrupt(registered) PROVE RunsInv'
<1>1. /\ inbox' = <<>> /\ unrun' = unrun \cup RunsOf(ToSet(inbox))
      /\ UNCHANGED <<callbacks, script, executed, ran, overtook>>
  BY DEF Interrupt
<1>2. Sequential(inbox') /\ InOrder(inbox', overtook) /\ \A op, x : ~ In(inbox', op, x)
  <2>1. Len(inbox') = 0 /\ 1 .. 0 = {}
    BY <1>1
  <2>2. Sequential(inbox')
    BY <1>1 DEF Sequential
  <2> QED BY <2>1, <2>2 DEF InOrder, Scripts, Sources, Mixed, In
<1>3. \A x : x \in RunsOf(ToSet(inbox)) <=> In(inbox, "script", x) \/ In(inbox, "source", x)
  BY RunsOfInbox DEF RunsInv
<1>4. Sequential(callbacks)' /\ Scripts(Asked(callbacks'), overtook)
  BY <1>1 DEF RunsInv, RunsTyped, RunsStages
<1> QED BY <1>1, <1>2, <1>3, <1>4, RunsDropped

LEMMA RunsLeftRead == ASSUME RunsInv, LeftReadTakes PROVE RunsInv'
<1>1. /\ inbox # <<>> /\ inbox' = Tail(inbox) /\ unrun' = unrun \cup RunsOf({Head(inbox)})
      /\ UNCHANGED <<callbacks, script, executed, ran, overtook>>
  BY DEF LeftReadTakes
<1>2. Sequential(inbox') /\ Drops(inbox, inbox') /\ Head(inbox) = inbox[1]
  BY <1>1, SequentialDrops DEF RunsInv, RunsTyped
<1>3. InOrder(inbox', overtook)
  BY <1>2, FrontQueue DEF RunsInv, RunsStages
<1>4. \A op, x : In(inbox, op, x) <=> In(inbox', op, x) \/ (inbox[1].op = op /\ inbox[1].run = x)
  BY <1>2, InQueue
<1>5. \A x : x \in RunsOf({inbox[1]}) <=> inbox[1].op \in {"script", "source"} /\ x = inbox[1].run
  BY RunsOfInbox DEF RunsInv
<1>6. Sequential(callbacks)' /\ Scripts(Asked(callbacks'), overtook)
  BY <1>1 DEF RunsInv, RunsTyped, RunsStages
<1>7. /\ \A op \in {"script", "source"} : \A x : In(inbox', op, x) => In(inbox, op, x)
      /\ \A op \in {"script", "source"} : \A x : In(inbox, op, x) => In(inbox', op, x) \/ x \in unrun'
      /\ \A x \in unrun' \ unrun : In(inbox, "script", x) \/ In(inbox, "source", x)
  <2>1. \A op \in {"script", "source"} : \A x : In(inbox, op, x) => In(inbox', op, x) \/ x \in unrun'
    BY <1>1, <1>2, <1>4, <1>5
  <2>2. \A x \in unrun' \ unrun : In(inbox, "script", x) \/ In(inbox, "source", x)
    BY <1>1, <1>2, <1>4, <1>5
  <2> QED BY <1>4, <2>1, <2>2
<1>8. unrun \subseteq unrun'
  BY <1>1
<1>9. \A x : In(Asked(callbacks'), "script", x) <=> In(Asked(callbacks), "script", x)
  BY <1>1
<1> QED BY <1>1, <1>2, <1>3, <1>6, <1>7, <1>8, <1>9, RunsDropped

(* The R worker serves the first request.                                  *)
LEMMA RunsServe == ASSUME RunsInv, NEW fails \in BOOLEAN, Serve(fails) PROVE RunsInv'
<1>1. PICK c : c = [request |-> Head(inbox), failed |-> fails,
                    text |-> IF Head(inbox).op = "open" THEN disk[Head(inbox).path] ELSE view]
  OBVIOUS
<1>2. PICK m : m = inbox[1]
  OBVIOUS
<1>3. inbox # <<>> /\ inbox' = Tail(inbox)
  BY DEF Serve
<1>4. Sequential(inbox') /\ Drops(inbox, inbox') /\ Head(inbox) = m
  BY <1>2, <1>3, SequentialDrops DEF RunsInv, RunsTyped
<1>5. /\ ran' = ran /\ overtook' = overtook /\ (fails => m.op # "source")
      /\ script' = IF m.op = "script" /\ ~ fails THEN m.run ELSE script
      /\ executed' = IF m.op = "source" THEN Append(executed, [run |-> m.run, code |-> script])
                     ELSE executed
      /\ unrun' = IF m.op = "script" /\ fails THEN unrun \cup {m.run} ELSE unrun
      /\ callbacks' = IF m.op = "source" \/ (fails /\ m.op # "save") THEN callbacks
                      ELSE Append(callbacks, c)
  BY <1>1, <1>4 DEF Serve
<1>6. Sequential(callbacks') /\ (callbacks' = callbacks \/ Adds(Asked(callbacks), Asked(callbacks'), m))
  <2>1. c.request = m
    BY <1>1, <1>4
  <2>2. /\ Sequential(callbacks) /\ Sequential(Append(callbacks, c))
        /\ Adds(callbacks, Append(callbacks, c), c)
    BY SequentialAdds DEF RunsInv, RunsTyped
  <2>3. Adds(Asked(callbacks), Asked(Append(callbacks, c)), m)
    BY <2>1, <2>2, AskedQueue
  <2> QED BY <1>5, <2>2, <2>3
<1>7. \A op, x : In(inbox, op, x) <=> In(inbox', op, x) \/ (m.op = op /\ m.run = x)
  BY <1>2, <1>4, InQueue
<1>8. InOrder(inbox, overtook) /\ InOrder(inbox', overtook) /\ Scripts(Asked(callbacks), overtook)
  BY <1>4, FrontQueue DEF RunsInv, RunsStages
<1>9. CASE m.op = "script" /\ ~ fails
  <2>1. Adds(Asked(callbacks), Asked(callbacks'), m)
    <3>1. c.request = m /\ callbacks' = Append(callbacks, c)
      BY <1>1, <1>4, <1>5, <1>9
    <3>2. Sequential(callbacks) /\ Adds(callbacks, Append(callbacks, c), c)
      BY SequentialAdds DEF RunsInv, RunsTyped
    <3> QED BY <3>1, <3>2, AskedQueue
  <2>2. \A x : Written(x)' <=> Written(x) \/ x = m.run
    BY <1>9, <2>1, InQueue DEF Written
  <2>3. \A x : In(inbox, "source", x) <=> In(inbox', "source", x)
    BY <1>7, <1>9
  <2>4. In(inbox, "script", m.run)
    BY <1>7, <1>9
  <2>5. \A x : Written(x) => Over(overtook, x, m.run)
    BY <2>4 DEF RunsInv, RunsStages
  <2>6. /\ \A n : In(inbox', "script", n) => Over(overtook, m.run, n)
        /\ \A x : In(inbox', "source", x) => x < m.run /\ Over(overtook, x, m.run)
    BY <1>2, <1>4, <1>8, <1>9, FrontQueue DEF InOrder
  <2>7. Scripts(Asked(callbacks'), overtook)
    BY <1>8, <2>1, <2>5, EndQueue DEF Written
  <2>8. script' = m.run /\ UNCHANGED <<executed, unrun, ran, overtook>>
    BY <1>5, <1>9
  <2>9. \A x : Done(x)' <=> Done(x)
    BY <2>8 DEF Done
  <2>10. RunsStages'
    <3>1. ASSUME NEW x, NEW n, Written(x)', In(inbox', "script", n) PROVE Over(overtook, x, n)
      BY <1>7, <2>2, <2>6, <3>1 DEF RunsInv, RunsStages
    <3>2. ASSUME NEW x, NEW n, In(inbox', "source", x), Written(n)' PROVE x < n
      BY <2>2, <2>3, <2>6, <3>2 DEF RunsInv, RunsStages
    <3>3. ASSUME NEW x, NEW n, Done(x)', In(inbox', "source", n) \/ Written(n)' \/ In(inbox', "script", n)
          PROVE  x < n
      BY <1>7, <2>2, <2>3, <2>4, <2>9, <3>3 DEF RunsInv, RunsStages
    <3>4. ASSUME NEW x, In(inbox', "source", x) \/ Written(x)' PROVE Told(x)'
      BY <2>2, <2>5, <2>6, <2>8, <3>4 DEF Told
    <3> QED BY <1>8, <2>7, <2>8, <3>1, <3>2, <3>3, <3>4 DEF RunsStages
  <2>11. RunsTyped' /\ RunsDone'
    BY <1>4, <1>6, <2>8 DEF RunsInv, RunsTyped, RunsDone
  <2>12. RunsKept'
    BY <1>7, <1>9, <2>2, <2>8, <2>9 DEF RunsInv, RunsKept
  <2> QED BY <2>10, <2>11, <2>12 DEF RunsInv
<1>10. CASE m.op = "source"
  <2>1. callbacks' = callbacks /\ script' = script /\ unrun' = unrun
        /\ executed' = Append(executed, [run |-> m.run, code |-> script])
    BY <1>5, <1>10
  <2>2. PICK e : e = [run |-> m.run, code |-> script]
    OBVIOUS
  <2>3. e.run = m.run /\ e.code = script /\ Sequential(executed') /\ Adds(executed, executed', e)
    <3>1. Sequential(executed)
      BY DEF RunsInv, RunsTyped
    <3> QED BY <2>1, <2>2, <3>1, SequentialAdds
  <2>4. \A x : Done(x)' <=> Done(x) \/ x = m.run
    BY <2>3 DEF Done, Adds
  <2>5. In(inbox, "source", m.run) /\ Told(m.run)
    BY <1>7, <1>10 DEF RunsInv, RunsStages
  <2>6. \A n : In(inbox', "source", n) \/ In(inbox', "script", n) => m.run < n
    BY <1>2, <1>4, <1>8, <1>10, FrontQueue
  <2>7. \A n : Written(n) => m.run < n
    BY <2>5 DEF RunsInv, RunsStages
  <2>8. \A x : (Written(x)' <=> Written(x)) /\ (Told(x)' <=> Told(x))
    BY <1>5, <2>1 DEF Written, Told
  <2>9. RunsStages'
    <3>1. ASSUME NEW x, NEW n, Written(x)', In(inbox', "script", n) PROVE Over(overtook, x, n)
      BY <1>7, <2>8, <3>1 DEF RunsInv, RunsStages
    <3>2. ASSUME NEW x, NEW n, In(inbox', "source", x), Written(n)' PROVE x < n
      BY <1>7, <2>8, <3>2 DEF RunsInv, RunsStages
    <3>3. ASSUME NEW x, NEW n, Done(x)', In(inbox', "source", n) \/ Written(n)' \/ In(inbox', "script", n)
          PROVE  x < n
      BY <1>7, <2>4, <2>6, <2>7, <2>8, <3>3 DEF RunsInv, RunsStages
    <3>4. ASSUME NEW x, In(inbox', "source", x) \/ Written(x)' PROVE Told(x)'
      BY <1>7, <2>8, <3>4 DEF RunsInv, RunsStages
    <3> QED BY <1>5, <1>8, <2>1, <3>1, <3>2, <3>3, <3>4 DEF RunsStages
  <2>10. RunsDone'
    <3>1. \A x : Done(x) => x < m.run
      BY <2>5 DEF RunsInv, RunsStages
    <3>2. ASSUME NEW i \in 1 .. Len(executed'), NEW j \in 1 .. Len(executed'), i < j
          PROVE  executed'[i].run < executed'[j].run
      <4>1. Len(executed) \in Nat
        BY <2>3 DEF Adds
      <4>2. i \in 1 .. Len(executed) /\ executed'[i] = executed[i]
        BY <2>3, <3>2, <4>1 DEF Adds
      <4>3. CASE j \in 1 .. Len(executed) /\ executed'[j] = executed[j]
        BY <3>2, <4>2, <4>3 DEF RunsInv, RunsDone
      <4>4. CASE executed'[j] = e
        BY <2>3, <3>1, <4>2, <4>4 DEF Done
      <4> QED BY <2>3, <4>3, <4>4 DEF Adds
    <3>3. ASSUME NEW i \in 1 .. Len(executed')
          PROVE  executed'[i].code = executed'[i].run
                 \/ <<executed'[i].run, executed'[i].code>> \in overtook
      <4>1. CASE i \in 1 .. Len(executed) /\ executed'[i] = executed[i]
        BY <4>1 DEF RunsInv, RunsDone
      <4>2. CASE executed'[i] = e
        BY <2>3, <2>5, <4>2 DEF Told, Over
      <4> QED BY <2>3, <4>1, <4>2 DEF Adds
    <3> QED BY <1>5, <3>2, <3>3 DEF RunsDone
  <2>11. RunsTyped'
    BY <1>4, <1>5, <1>6, <2>3 DEF RunsInv, RunsTyped
  <2>12. RunsKept'
    BY <1>5, <1>7, <1>10, <2>1, <2>4, <2>8 DEF RunsInv, RunsKept
  <2> QED BY <2>9, <2>10, <2>11, <2>12 DEF RunsInv
<1>11. CASE (m.op = "script" /\ fails) \/ m.op \notin {"script", "source"}
  <2>1. UNCHANGED <<script, executed, ran, overtook>>
    BY <1>5, <1>11
  <2>2. \A x : In(Asked(callbacks'), "script", x) <=> In(Asked(callbacks), "script", x)
    <3>1. callbacks' = callbacks \/ m.op # "script"
      BY <1>5, <1>11
    <3> QED BY <1>6, <3>1, InQueue
  <2>3. Scripts(Asked(callbacks'), overtook)
    <3>1. callbacks' = callbacks \/ m.op # "script"
      BY <1>5, <1>11
    <3> QED BY <1>6, <1>8, <3>1, EndQueue
  <2>4. unrun \subseteq unrun' /\ \A x \in unrun' \ unrun : m.op = "script" /\ x = m.run
    BY <1>5
  <2>5. \A op \in {"script", "source"} : \A x : In(inbox, op, x) => In(inbox', op, x) \/ x \in unrun'
    BY <1>5, <1>7, <1>11
  <2>6. \A op \in {"script", "source"} : \A x : In(inbox', op, x) => In(inbox, op, x)
    BY <1>7
  <2>7. \A x \in unrun' \ unrun : In(inbox, "script", x) \/ In(inbox, "source", x)
    BY <1>7, <2>4
  <2> QED BY <1>4, <1>6, <1>8, <2>1, <2>2, <2>3, <2>4, <2>5, <2>6, <2>7, RunsDropped
<1> QED BY <1>5, <1>9, <1>10, <1>11

(* The line of a script follows its answer.                                *)
LEMMA RunsScripted == ASSUME RunsInv, Scripted PROVE RunsInv'
<1>1. PICK y : y = Head(callbacks).request.run
  OBVIOUS
<1>2. PICK r : r = [op |-> "source", run |-> y]
  OBVIOUS
<1>3. /\ callbacks # <<>> /\ callbacks' = Tail(callbacks) /\ Head(callbacks).request.op = "script"
      /\ inbox' = inbox \o <<r>> /\ UNCHANGED <<script, executed, unrun, ran, overtook>>
  BY <1>1, <1>2 DEF Scripted, Returned, LineFor, Back, runVars
<1>4. /\ Sequential(inbox') /\ Sequential(callbacks') /\ Adds(inbox, inbox', r)
      /\ Drops(callbacks, callbacks') /\ Head(callbacks) = callbacks[1]
  BY <1>3, SequentialAdds, SequentialDrops DEF RunsInv, RunsTyped
<1>5. /\ Drops(Asked(callbacks), Asked(callbacks'))
      /\ Asked(callbacks)[1].op = "script" /\ Asked(callbacks)[1].run = y
  BY <1>1, <1>3, <1>4, AskedQueue
<1>6. r.op = "source" /\ r.run = y
  BY <1>2
<1>7. \A op, x : In(inbox', op, x) <=> In(inbox, op, x) \/ (op = "source" /\ x = y)
  BY <1>4, <1>6, InQueue
<1>8. \A x : Written(x) <=> Written(x)' \/ x = y
  BY <1>5, InQueue DEF Written
<1>9. Scripts(Asked(callbacks'), overtook) /\ \A n : Written(n)' => Over(overtook, y, n)
  BY <1>5, FrontQueue DEF RunsInv, RunsStages, Written
<1>10. /\ \A n : In(inbox, "script", n) => Over(overtook, y, n)
       /\ \A x : In(inbox, "source", x) => x < y
       /\ Told(y)
  BY <1>8 DEF RunsInv, RunsStages
<1>11. InOrder(inbox', overtook)
  BY <1>4, <1>6, <1>10, EndQueue DEF RunsInv, RunsStages
<1>12. \A x : (Done(x)' <=> Done(x)) /\ (Told(x)' <=> Told(x))
  BY <1>3 DEF Done, Told
<1>13. RunsStages'
  <2>1. ASSUME NEW x, NEW n, Written(x)', In(inbox', "script", n) PROVE Over(overtook, x, n)
    BY <1>7, <1>8, <2>1 DEF RunsInv, RunsStages
  <2>2. ASSUME NEW x, NEW n, In(inbox', "source", x), Written(n)' PROVE x < n
    BY <1>7, <1>8, <1>9, <2>2 DEF RunsInv, RunsStages, Over
  <2>3. ASSUME NEW x, NEW n, Done(x)', In(inbox', "source", n) \/ Written(n)' \/ In(inbox', "script", n)
        PROVE  x < n
    BY <1>7, <1>8, <1>12, <2>3 DEF RunsInv, RunsStages
  <2>4. ASSUME NEW x, In(inbox', "source", x) \/ Written(x)' PROVE Told(x)'
    BY <1>7, <1>8, <1>10, <1>12, <2>4 DEF RunsInv, RunsStages
  <2> QED BY <1>3, <1>9, <1>11, <2>1, <2>2, <2>3, <2>4 DEF RunsStages
<1>14. RunsTyped' /\ RunsDone'
  BY <1>3, <1>4 DEF RunsInv, RunsTyped, RunsDone
<1>15. RunsKept'
  BY <1>3, <1>7, <1>8, <1>12 DEF RunsInv, RunsKept
<1> QED BY <1>13, <1>14, <1>15 DEF RunsInv

LEMMA RunsInit == ASSUME EditorInit PROVE RunsInv
<1>1. inbox = <<>> /\ callbacks = <<>> /\ executed = <<>> /\ ran = 0 /\ unrun = {}
  BY DEF EditorInit
<1>2. Sequential(<<>>) /\ Len(<<>>) = 0 /\ Len(Asked(<<>>)) = 0 /\ 1 .. 0 = {}
  BY DEF Sequential, Asked
<1>3. RunsTyped /\ RunsDone
  BY <1>1, <1>2 DEF RunsTyped, RunsDone
<1>4. InOrder(inbox, overtook) /\ Scripts(Asked(callbacks), overtook)
  BY <1>1, <1>2 DEF InOrder, Scripts, Sources, Mixed
<1>5. \A x : /\ ~ In(inbox, "script", x) /\ ~ In(inbox, "source", x) /\ ~ Written(x) /\ ~ Done(x)
             /\ x \notin 1 .. ran
  BY <1>1, <1>2 DEF In, Written, Done
<1> QED BY <1>1, <1>3, <1>4, <1>5 DEF RunsInv, RunsStages, RunsKept

LEMMA RunsStep == ASSUME RunsInv, [EditorNext]_editorVars PROVE RunsInv'
<1>1. CASE Render \/ Edit
  BY <1>1, RunsUnchanged DEF Render, Edit, workerVars
<1>2. CASE Save \/ Run \/ Scripted \/ LeftReadTakes
  BY <1>2, RunsSave, RunsRun, RunsScripted, RunsLeftRead
<1>3. CASE Saved \/ Opened \/ Unheard
  <2>1. PICK op \in {"save", "open"} : Returned(op) /\ UNCHANGED <<inbox, runVars>>
    BY <1>3 DEF Saved, Opened, Unheard
  <2> QED BY <2>1, RunsReturned
<1>4. CASE ShowData
  BY <1>4, RunsUnchanged DEF ShowData, workerVars
<1>5. CASE \E i \in DOMAIN tabs : SwitchTab(i) \/ CloseTab(i)
  BY <1>5, RunsUnchanged DEF SwitchTab, CloseTab, workerVars
<1>6. CASE \E p \in File : Open(p)
  BY <1>6, RunsOpen
<1>7. CASE \E b \in BOOLEAN : Serve(b) \/ Interrupt(b)
  BY <1>7, RunsServe, RunsInterrupt
<1>8. CASE UNCHANGED editorVars
  BY <1>8, RunsUnchanged DEF editorVars, workerVars
<1> QED BY <1>1, <1>2, <1>3, <1>4, <1>5, <1>6, <1>7, <1>8 DEF EditorNext

(* Code is run in the order it was asked to, each run once, and a run has  *)
(* its own code or that of one asked for while it was being written, for   *)
(* any files and tabs, and whatever is edited, closed, interrupted or      *)
(* fails meanwhile: runFile() and runSelectedCode() share one script file, *)
(* that the line written to the console when it is saved has R run.        *)
THEOREM CodeRunsAsAsked == EditorSpec => []RunsAsAsked
<1>1. ASSUME RunsInv PROVE RunsAsAsked
  <2>1. /\ DOMAIN executed = 1 .. Len(executed) /\ DOMAIN inbox = 1 .. Len(inbox)
        /\ DOMAIN callbacks = 1 .. Len(callbacks) /\ Len(callbacks) \in Nat
    BY <1>1 DEF RunsInv, RunsTyped, Sequential
  <2>2. \A e \in ToSet(executed) : e.code = e.run \/ <<e.run, e.code>> \in overtook
    BY <1>1, <2>1 DEF RunsInv, RunsDone, ToSet
  <2>3. \A x : x \in {e.run : e \in ToSet(executed)} <=> Done(x)
    BY <2>1 DEF Done, ToSet
  <2>4. \A x : x \in Writing <=> In(inbox, "script", x) \/ Written(x)
    <3>1. Len(Asked(callbacks)) = Len(callbacks)
          /\ \A i \in 1 .. Len(callbacks) : Asked(callbacks)[i] = callbacks[i].request
      BY <2>1 DEF Asked
    <3>2. \A x : Written(x) <=> \E c \in ToSet(callbacks) : c.request.op = "script" /\ c.request.run = x
      BY <2>1, <3>1 DEF Written, In, ToSet
    <3>3. \A x : In(inbox, "script", x) <=> \E r \in ToSet(inbox) : r.op = "script" /\ r.run = x
      BY <2>1 DEF In, ToSet
    <3> QED BY <3>2, <3>3 DEF Writing
  <2>5. \A x : x \in RunsOf(ToSet(inbox)) <=> In(inbox, "script", x) \/ In(inbox, "source", x)
    BY <1>1, RunsOfInbox DEF RunsInv
  <2>6. Writing \cup RunsOf(ToSet(inbox)) \cup unrun \cup {e.run : e \in ToSet(executed)} = 1 .. ran
    BY <1>1, <2>3, <2>4, <2>5 DEF RunsInv, RunsKept
  <2> QED BY <1>1, <2>1, <2>2, <2>6 DEF RunsAsAsked, RunsInv, RunsDone
<1> QED BY <1>1, RunsInit, RunsStep, PTL DEF EditorSpec

-----------------------------------------------------------------------------
(* The editor: what its tabs hold.                                         *)

Obj == 1 .. MaxObjects
AText == [of : File, edit : 0 .. MaxEdits]
ATab == [path : File \cup {DataFile}, dirty : BOOLEAN, text : AText]
ToSave == [op : {"save"}, path : File, text : AText, index : Nat]
ToScript == [op : {"script"}, run : Nat, text : AText]
ToOpen == [op : {"open"}, path : File, tabs : Seq(Obj), active : 0 .. MaxObjects]
ToSource == [op : {"source"}, run : Nat]
Sent == ToSave \cup ToScript \cup ToOpen \cup ToSource
Reply == [request : Sent, failed : BOOLEAN, text : AText]

(* The active tab is one there is, of the tabs rendered and of those to be *)
(* rendered, unless one was chosen or closed while they were not the same. *)
(* saveFile() is that of the active tab.                                   *)
TabsInv ==
    /\ object \in [Obj -> ATab]
    /\ tabs \in Seq(Obj) /\ active \in Nat /\ amid \in BOOLEAN
    /\ tabs # <<>> /\ ~ amid => active \in 1 .. Len(tabs)
    /\ next \in [tabs : Seq(Obj), active : Nat, listed : BOOLEAN]
    /\ next.tabs # <<>> /\ ~ amid => next.active \in 1 .. Len(next.tabs)
    /\ rendering \in {"none", "later", "now"}
    /\ Rendered => next = [tabs |-> tabs, active |-> active, listed |-> FALSE]
    /\ saver \in [object : 0 .. MaxObjects, index : Nat] /\ saver.object = Active
    /\ opener \in 0 .. MaxObjects
    /\ inbox \in Seq(Sent) /\ callbacks \in Seq(Reply)
    /\ disk \in [File -> AText] /\ latest \in [File -> AText]
    /\ view \in AText /\ script \in Nat /\ ran \in Nat
    /\ edits \in 0 .. MaxEdits /\ requested \in 0 .. MaxFileRequests

LEMMA Words ==
    /\ \A t \in AText : t.of \in File /\ t.edit \in 0 .. MaxEdits
    /\ \A s, t \in AText : s.of = t.of /\ s.edit = t.edit => s = t
    /\ \A p \in File, n \in 0 .. MaxEdits : Text(p, n) \in AText /\ Text(p, n).of = p /\ Text(p, n).edit = n
    /\ \A a \in ATab : a.path \in File \cup {DataFile} /\ a.dirty \in BOOLEAN /\ a.text \in AText
    /\ \A p \in File \cup {DataFile}, t \in AText, d \in BOOLEAN :
         Tab(p, t, d) \in ATab /\ Tab(p, t, d).path = p /\ Tab(p, t, d).text = t /\ Tab(p, t, d).dirty = d
  BY DEF AText, ATab, Text, Tab

LEMMA TabParts ==
    ASSUME NEW p \in File \cup {DataFile}, NEW t \in AText, NEW d \in BOOLEAN
    PROVE  /\ Tab(p, t, d) \in ATab /\ Tab(p, t, d).path = p /\ Tab(p, t, d).text = t
           /\ Tab(p, t, d).dirty = d
  BY DEF ATab, Tab

LEMMA SameText ==
    ASSUME NEW s \in AText, NEW t \in AText, s.of = t.of, s.edit <= t.edit, t.edit <= s.edit
    PROVE  s = t
<1>1. s.edit \in Nat /\ t.edit \in Nat
  BY EditorAssumption DEF AText
<1>2. s.edit = t.edit
  BY <1>1
<1> QED BY <1>2 DEF AText

LEMMA SentKinds ==
    ASSUME NEW r \in Sent
    PROVE  /\ r.op = "save" => r.path \in File /\ r.text \in AText /\ r.index \in Nat
           /\ r.op = "script" => r.text \in AText /\ r.run \in Nat
           /\ r.op = "source" => r.run \in Nat
           /\ r.op = "open" => r.path \in File /\ r.tabs \in Seq(Obj) /\ r.active \in 0 .. MaxObjects
  BY DEF Sent, ToSave, ToScript, ToOpen, ToSource

LEMMA Firsts ==
    /\ FirstTabs \in Seq(File) /\ 1 \in DOMAIN FirstTabs /\ FirstText \in AText /\ Nothing \in ATab
<1>1. FirstTabs \in Seq(File) /\ 1 \in DOMAIN FirstTabs /\ FirstTabs[1] \in File /\ 0 \in 0 .. MaxEdits
  BY EditorAssumption
<1> QED BY <1>1, Words DEF FirstText, Nothing

(* The tabs but one.                                                       *)
LEMMA Removal ==
    ASSUME NEW S, NEW s \in Seq(S), NEW i \in 1 .. Len(s)
    PROVE  /\ RemoveAt(s, i) \in Seq(S) /\ Len(RemoveAt(s, i)) = Len(s) - 1
           /\ \A j \in 1 .. Len(s) - 1 : RemoveAt(s, i)[j] = IF j < i THEN s[j] ELSE s[j + 1]
<1>1. PICK a, b : a = SubSeq(s, 1, i - 1) /\ b = SubSeq(s, i + 1, Len(s))
  OBVIOUS
<1>2. /\ Len(s) \in Nat /\ i \in Nat /\ i >= 1 /\ i <= Len(s)
  OBVIOUS
<1>3. a \in Seq(S) /\ Len(a) = i - 1 /\ \A j \in 1 .. i - 1 : a[j] = s[j]
  BY <1>1, <1>2, SubSeqProperties
<1>4. b \in Seq(S) /\ Len(b) = Len(s) - i /\ \A j \in 1 .. Len(s) - i : b[j] = s[i + j]
  BY <1>1, <1>2, SubSeqProperties
<1>5. PICK r : r = a \o b /\ r = RemoveAt(s, i)
  BY <1>1 DEF RemoveAt
<1>6. /\ r \in Seq(S) /\ Len(r) = Len(s) - 1
      /\ \A j \in 1 .. Len(s) - 1 : r[j] = IF j <= i - 1 THEN a[j] ELSE b[j - (i - 1)]
  <2>0. /\ a \o b \in Seq(S) /\ Len(a \o b) = Len(a) + Len(b)
        /\ \A j \in 1 .. Len(a) + Len(b) : (a \o b)[j] = IF j <= Len(a) THEN a[j] ELSE b[j - Len(a)]
    BY <1>3, <1>4, ConcatProperties, Zenon
  <2>1. r \in Seq(S) /\ Len(r) = Len(a) + Len(b)
    BY <1>5, <2>0
  <2>2. \A j \in 1 .. Len(a) + Len(b) : r[j] = IF j <= Len(a) THEN a[j] ELSE b[j - Len(a)]
    BY <1>5, <2>0, Zenon
  <2> QED BY <1>2, <1>3, <1>4, <2>1, <2>2
<1>7. ASSUME NEW j \in 1 .. Len(s) - 1 PROVE r[j] = IF j < i THEN s[j] ELSE s[j + 1]
  <2>1. CASE j < i
    <3>1. j \in 1 .. i - 1 /\ j <= i - 1
      BY <1>2, <2>1
    <3> QED BY <1>3, <1>6, <2>1, <3>1
  <2>2. CASE j >= i
    <3>1. j - (i - 1) \in 1 .. Len(s) - i /\ i + (j - (i - 1)) = j + 1 /\ ~ (j < i) /\ ~ (j <= i - 1)
      BY <1>2, <2>2
    <3> QED BY <1>4, <1>6, <3>1
  <2> QED BY <1>2, <2>1, <2>2
<1> QED BY <1>5, <1>6, <1>7

(* Free objects are no tab's, and no request's or answer's.                *)
LEMMA FreeObjects ==
    ASSUME TabsInv
    PROVE  /\ Free \subseteq Obj /\ Active \in 0 .. MaxObjects /\ Active \notin Free
           /\ \A i \in 1 .. Len(tabs) : tabs[i] \in Obj /\ tabs[i] \notin Free
           /\ \A i \in 1 .. Len(next.tabs) : next.tabs[i] \in Obj /\ next.tabs[i] \notin Free
           /\ Held \cap Free = {}
           /\ Free # {} => NewObject \in Free
<1>1. /\ tabs \in Seq(Obj) /\ next.tabs \in Seq(Obj) /\ object \in [Obj -> ATab] /\ active \in Nat
      /\ \A i \in 1 .. Len(tabs) : tabs[i] \in Obj /\ tabs[i] \in ToSet(tabs)
      /\ \A i \in 1 .. Len(next.tabs) : next.tabs[i] \in Obj /\ next.tabs[i] \in ToSet(next.tabs)
  BY DEF TabsInv, ToSet
<1>2. Active \in 0 .. MaxObjects /\ (Active = 0 \/ Active \in ToSet(tabs))
  BY <1>1, EditorAssumption DEF Active, Obj, ToSet
<1>3. 0 \notin Obj /\ Free \subseteq Obj
  BY <1>1 DEF Obj, Free
<1> QED BY <1>1, <1>2, <1>3 DEF Free, NewObject

(* The text of the view is stored in a tab's object.                       *)
LEMMA SyncedTabs ==
    ASSUME NEW f \in [Obj -> ATab], NEW o \in 0 .. MaxObjects, view \in AText
    PROVE  /\ Synced(f, o) \in [Obj -> ATab]
           /\ \A x \in Obj :
                /\ Synced(f, o)[x].path = f[x].path /\ Synced(f, o)[x].dirty = f[x].dirty
                /\ Synced(f, o)[x].text = IF x = o /\ f[x].path # DataFile THEN view ELSE f[x].text
<1>1. \A x \in Obj : f[x] \in ATab
  OBVIOUS
<1>2. CASE o # 0 /\ f[o].path # DataFile
  <2>1. o \in Obj
    BY <1>2 DEF Obj
  <2>2. PICK a : a = f[o] /\ a \in ATab
    BY <2>1
  <2>3. PICK b : b = [a EXCEPT !.text = view]
    OBVIOUS
  <2>4. b \in ATab /\ b.path = a.path /\ b.dirty = a.dirty /\ b.text = view
    BY <2>2, <2>3 DEF ATab
  <2>5. Synced(f, o) = [f EXCEPT ![o] = b]
    BY <1>2, <2>2, <2>3 DEF Synced
  <2> QED BY <1>1, <1>2, <2>1, <2>2, <2>4, <2>5
<1>3. CASE ~ (o # 0 /\ f[o].path # DataFile)
  <2>1. Synced(f, o) = f
    BY <1>3 DEF Synced
  <2>2. \A x \in Obj : x # 0
    BY DEF Obj
  <2> QED BY <1>3, <2>1, <2>2
<1> QED BY <1>2, <1>3

(* A tab's object is replaced by a marked one.                             *)
Nexts == [tabs : Seq(Obj), active : Nat, listed : BOOLEAN]
LEMMA MarksTab ==
    ASSUME TabsInv, NEW index \in Nat, NEW d \in BOOLEAN, NEW t \in AText, Marks(index, d, t)
    PROVE  /\ object' \in [Obj -> ATab] /\ next' \in Nexts
           /\ next'.active = next.active /\ Len(next'.tabs) = Len(next.tabs)
           /\ \A x \in Obj : x \notin Free => object'[x] = object[x]
           /\ \A j \in 1 .. Len(next.tabs) :
                j # index \/ ~ IsText(next.tabs[j]) => next'.tabs[j] = next.tabs[j]
           /\ index \in 1 .. Len(next.tabs) /\ IsText(next.tabs[index]) =>
                /\ next'.tabs[index] \in Free
                /\ object'[next'.tabs[index]] = Tab(object[next.tabs[index]].path, t, d)
<1>1. object \in [Obj -> ATab] /\ next \in Nexts /\ DOMAIN next.tabs = 1 .. Len(next.tabs)
  BY DEF TabsInv, Nexts
<1>2. CASE index \in DOMAIN next.tabs /\ IsText(next.tabs[index])
  <2>1. PICK o, a, b : /\ o = NewObject /\ a = object[next.tabs[index]] /\ b = Marked(a, d, t)
                       /\ object' = [object EXCEPT ![o] = b]
                       /\ next' = [next EXCEPT !.tabs[index] = o, !.listed = TRUE]
    BY <1>2 DEF Marks
  <2>2. Free # {}
    BY <1>2 DEF Marks
  <2>3. o \in Free /\ o \in Obj
    BY <2>1, <2>2, FreeObjects
  <2>4. a \in ATab
    BY <1>1, <1>2, <2>1, FreeObjects
  <2>5. b \in ATab /\ b = Tab(a.path, t, d)
    BY <2>1, <2>4 DEF ATab, Marked, Tab
  <2>6. PICK q : q = [next.tabs EXCEPT ![index] = o]
    OBVIOUS
  <2>7. q \in Seq(Obj) /\ Len(q) = Len(next.tabs) /\ q[index] = o
        /\ \A j \in 1 .. Len(next.tabs) : j # index => q[j] = next.tabs[j]
    BY <1>1, <1>2, <2>3, <2>6 DEF Nexts
  <2>8. next' \in Nexts /\ next'.tabs = q /\ next'.active = next.active
    BY <1>1, <2>1, <2>6, <2>7 DEF Nexts
  <2>9. object' \in [Obj -> ATab] /\ object'[o] = b /\ \A x \in Obj : x # o => object'[x] = object[x]
    BY <1>1, <2>1, <2>3, <2>5
  <2> QED BY <1>1, <1>2, <2>1, <2>3, <2>5, <2>7, <2>8, <2>9
<1>3. CASE ~ (index \in DOMAIN next.tabs /\ IsText(next.tabs[index]))
  <2>1. object' = object /\ next' = [next EXCEPT !.listed = TRUE]
    BY <1>3 DEF Marks
  <2>2. next' \in Nexts /\ next'.tabs = next.tabs /\ next'.active = next.active
    BY <1>1, <2>1 DEF Nexts
  <2> QED BY <1>1, <1>3, <2>1, <2>2
<1> QED BY <1>2, <1>3

(* A tab is added to a list, and the view's text is stored in another.     *)
LEMMA AddsTab ==
    ASSUME TabsInv, NEW list \in Seq(Obj), NEW tab \in ATab, NEW o \in 0 .. MaxObjects,
           AddTab(list, tab, o)
    PROVE  /\ object' \in [Obj -> ATab] /\ next' \in Nexts /\ rendering' = "later"
           /\ next'.active = Len(list) + 1 /\ Len(next'.tabs) = Len(list) + 1
           /\ \A j \in 1 .. Len(list) : next'.tabs[j] = list[j]
           /\ next'.tabs[Len(list) + 1] \in Free /\ object'[next'.tabs[Len(list) + 1]] = tab
           /\ \A x \in Obj : x \notin Free =>
                /\ object'[x].path = object[x].path /\ object'[x].dirty = object[x].dirty
                /\ object'[x].text = IF x = o /\ object[x].path # DataFile THEN view ELSE object[x].text
<1>1. object \in [Obj -> ATab] /\ view \in AText
  BY DEF TabsInv
<1>2. PICK n, f : /\ n = NewObject /\ f = Synced(object, o) /\ object' = [f EXCEPT ![n] = tab]
                  /\ next' = Show(Append(list, n), Len(list) + 1) /\ rendering' = "later"
                  /\ Free # {}
  BY DEF AddTab, Queue
<1>3. n \in Free /\ n \in Obj
  BY <1>2, FreeObjects
<1>4. /\ f \in [Obj -> ATab]
      /\ \A x \in Obj :
           /\ f[x].path = object[x].path /\ f[x].dirty = object[x].dirty
           /\ f[x].text = IF x = o /\ object[x].path # DataFile THEN view ELSE object[x].text
  BY <1>1, <1>2, SyncedTabs
<1>5. object' \in [Obj -> ATab] /\ object'[n] = tab /\ \A x \in Obj : x # n => object'[x] = f[x]
  BY <1>2, <1>3, <1>4
<1>6. PICK q : q = Append(list, n)
  OBVIOUS
<1>7. /\ q \in Seq(Obj) /\ Len(q) = Len(list) + 1 /\ Len(list) \in Nat /\ q[Len(list) + 1] = n
      /\ \A j \in 1 .. Len(list) : q[j] = list[j]
  BY <1>3, <1>6
<1>8. next' \in Nexts /\ next'.tabs = q /\ next'.active = Len(list) + 1
  BY <1>2, <1>6, <1>7 DEF Show, Nexts
<1> QED BY <1>2, <1>3, <1>4, <1>5, <1>7, <1>8

(* Every step keeps the types.                                             *)
LEMMA TabsRender == ASSUME TabsInv, Render PROVE TabsInv'
<1>1. /\ tabs' = next.tabs /\ active' = next.active
      /\ next' = [next EXCEPT !.listed = FALSE] /\ rendering' = "none"
      /\ UNCHANGED <<workerVars, runVars, countVars, strayVars>>
  BY DEF Render
<1>2. next \in Nexts /\ object \in [Obj -> ATab] /\ view \in AText
  BY DEF TabsInv, Nexts
<1>3. /\ tabs' \in Seq(Obj) /\ active' \in Nat /\ (tabs' # <<>> /\ ~ amid' => active' \in 1 .. Len(tabs'))
      /\ next' = [tabs |-> tabs', active |-> active', listed |-> FALSE] /\ next' \in Nexts
  BY <1>1, <1>2 DEF TabsInv, Nexts, strayVars
<1>4. Active' \in 0 .. MaxObjects /\ (Active' # 0 => Active' \in Obj)
  BY <1>3, EditorAssumption DEF Active, Obj
<1>5. PICK f : /\ f = IF next.listed \/ Active' # Active THEN Synced(object, Active) ELSE object
               /\ view' = view \/ (Active' # 0 /\ view' = f[Active'].text)
               /\ object' = [o \in DOMAIN object |->
                              IF o \in ToSet(next.tabs) \cup {saver'.object, opener'} \cup Held
                              THEN f[o] ELSE Nothing]
  <2>1. PICK f : f = IF next.listed \/ Active' # Active THEN Synced(object, Active) ELSE object
    OBVIOUS
  <2> QED BY <2>1 DEF Render
<1>6. Active \in 0 .. MaxObjects
  BY FreeObjects
<1>7. f \in [Obj -> ATab]
  BY <1>2, <1>5, <1>6, SyncedTabs
<1>8. object' \in [Obj -> ATab]
  BY <1>2, <1>5, <1>7, Firsts
<1>9. view' \in AText
  <2>1. Active' # 0 => f[Active'] \in ATab
    BY <1>4, <1>7
  <2> QED BY <1>2, <1>5, <2>1, Words
<1>10. /\ saver' = (IF Active' # saver.object THEN [object |-> Active', index |-> next.active] ELSE saver)
       /\ opener' = (IF next.listed THEN Active' ELSE opener)
  BY DEF Render
<1>11. saver' \in [object : 0 .. MaxObjects, index : Nat] /\ saver'.object = Active'
       /\ opener' \in 0 .. MaxObjects
  BY <1>2, <1>4, <1>10 DEF TabsInv, Nexts
<1>12. Rendered'
  BY <1>1 DEF Rendered
<1>13. UNCHANGED <<inbox, callbacks, disk, latest, script, ran, edits, requested, amid>>
  BY <1>1 DEF workerVars, runVars, countVars, strayVars
<1> QED BY <1>1, <1>3, <1>8, <1>9, <1>11, <1>12, <1>13 DEF TabsInv, Nexts

(* The parts a step of the user, of R or of a callback changes are typed.  *)
LEMMA TabsOthers ==
    ASSUME TabsInv, UNCHANGED <<tabs, active, saver, opener>>,
           object' \in [Obj -> ATab], next' \in Nexts,
           amid' \in BOOLEAN, amid => amid',
           next'.tabs # <<>> /\ ~ amid' => next'.active \in 1 .. Len(next'.tabs),
           rendering' \in {"later", "now"} \/ UNCHANGED <<next, rendering>>,
           inbox' \in Seq(Sent), callbacks' \in Seq(Reply),
           disk' \in [File -> AText], latest' \in [File -> AText], view' \in AText, script' \in Nat,
           ran' \in Nat, edits' \in 0 .. MaxEdits, requested' \in 0 .. MaxFileRequests
    PROVE  TabsInv'
<1>1. Active' = Active
  BY DEF Active
<1>2. Rendered' => next' = [tabs |-> tabs', active |-> active', listed |-> FALSE]
  BY DEF TabsInv, Rendered
<1>3. rendering' \in {"none", "later", "now"}
  BY DEF TabsInv
<1> QED BY <1>1, <1>2, <1>3 DEF TabsInv, Nexts

LEMMA TabsEdit == ASSUME TabsInv, Edit PROVE TabsInv'
<1>1. PICK t : t = Text(view.of, edits + 1) /\ view' = t /\ Marks(active, TRUE, t)
  BY DEF Edit
<1>2. /\ IsText(Active) /\ edits < MaxEdits
      /\ latest' = [latest EXCEPT ![object[Active].path] = view'] /\ edits' = edits + 1
      /\ rendering' = "now"
      /\ UNCHANGED <<tabs, active, saver, opener, workerVars, runVars, requested, amid>>
  BY DEF Edit, UserActs
<1>3. edits \in Nat /\ MaxEdits \in Nat /\ view.of \in File /\ edits + 1 \in 0 .. MaxEdits
  <2>1. view \in AText /\ edits \in 0 .. MaxEdits
    BY DEF TabsInv
  <2> QED BY <1>2, <2>1, Words, EditorAssumption
<1>4. t \in AText
  BY <1>1, <1>3, Words
<1>5. object[Active].path \in File
  <2>1. Active \in Obj
    BY <1>2, FreeObjects DEF IsText, Obj
  <2>2. object[Active] \in ATab
    BY <2>1 DEF TabsInv
  <2> QED BY <1>2, <2>2, Words DEF IsText
<1>6. latest' \in [File -> AText]
  BY <1>1, <1>2, <1>4, <1>5 DEF TabsInv
<1>7. active \in Nat /\ TRUE \in BOOLEAN
  BY DEF TabsInv
<1>8. /\ object' \in [Obj -> ATab] /\ next' \in Nexts
      /\ next'.active = next.active /\ Len(next'.tabs) = Len(next.tabs)
  BY <1>1, <1>4, <1>7, MarksTab
<1>9. next'.tabs # <<>> /\ ~ amid' => next'.active \in 1 .. Len(next'.tabs)
  BY <1>2, <1>8 DEF TabsInv, Nexts
<1> QED BY <1>1, <1>2, <1>3, <1>4, <1>6, <1>8, <1>9, TabsOthers DEF TabsInv, workerVars, runVars

(* While the tabs to be rendered are as many as those that are, and the    *)
(* active one has the same index, each of them has an index there.         *)
LEMMA NotMoving ==
    ASSUME TabsInv, UserActs, ~ Moving, ~ amid, NEW i \in DOMAIN tabs
    PROVE  /\ i \in 1 .. Len(tabs) /\ active \in 1 .. Len(tabs) /\ Len(tabs) \in Nat
           /\ next.active = active /\ Len(next.tabs) = Len(tabs)
<1>1. tabs \in Seq(Obj) /\ i \in 1 .. Len(tabs) /\ tabs # <<>>
  BY DEF TabsInv
<1> QED BY <1>1 DEF TabsInv, Moving

LEMMA TabsSwitch == ASSUME TabsInv, NEW i \in DOMAIN tabs, SwitchTab(i) PROVE TabsInv'
<1>1. /\ next' = [next EXCEPT !.active = i] /\ rendering' = "now" /\ UserActs
      /\ amid' = (amid \/ Moving)
      /\ UNCHANGED <<object, tabs, active, view, saver, opener, workerVars, runVars, countVars>>
  BY DEF SwitchTab, QueueUrgent
<1>2. next \in Nexts /\ tabs \in Seq(Obj) /\ i \in 1 .. Len(tabs) /\ i \in Nat /\ amid \in BOOLEAN
  BY DEF TabsInv, Nexts
<1>3. next' \in Nexts /\ next'.tabs = next.tabs /\ next'.active = i
  BY <1>1, <1>2 DEF Nexts
<1>4. amid' \in BOOLEAN /\ (amid => amid')
  BY <1>1, <1>2 DEF Moving
<1>5. next'.tabs # <<>> /\ ~ amid' => next'.active \in 1 .. Len(next'.tabs)
  BY <1>1, <1>2, <1>3, NotMoving
<1> QED BY <1>1, <1>3, <1>4, <1>5, TabsOthers DEF TabsInv, workerVars, runVars, countVars

LEMMA TabsClose == ASSUME TabsInv, NEW i \in DOMAIN tabs, CloseTab(i) PROVE TabsInv'
<1>1. /\ next' = Show(RemoveAt(tabs, i), IF ~ MovesActive(i) THEN next.active
                                         ELSE IF active = 1 THEN 1 ELSE active - 1)
      /\ rendering' = "now" /\ UserActs /\ amid' = (amid \/ Moving)
      /\ LET p == object[tabs[i]].path
         IN  latest' = IF p = DataFile THEN latest ELSE [latest EXCEPT ![p] = disk[p]]
      /\ UNCHANGED <<object, tabs, active, view, saver, opener, workerVars, runVars, edits, requested>>
  BY DEF CloseTab, QueueUrgent
<1>2. /\ tabs \in Seq(Obj) /\ i \in 1 .. Len(tabs) /\ Len(tabs) \in Nat /\ tabs # <<>>
      /\ active \in Nat /\ next \in Nexts /\ amid \in BOOLEAN
  BY DEF TabsInv, Nexts
<1>3. PICK q : q = RemoveAt(tabs, i) /\ q \in Seq(Obj) /\ Len(q) = Len(tabs) - 1
  BY <1>2, Removal
<1>4. PICK n : n = (IF ~ MovesActive(i) THEN next.active ELSE IF active = 1 THEN 1 ELSE active - 1)
  OBVIOUS
<1>5. amid' \in BOOLEAN /\ (amid => amid')
  BY <1>1, <1>2 DEF Moving
<1>6. active \in 1 .. Len(tabs)
  BY <1>1, <1>2 DEF UserActs, Alive
<1>7. n \in Nat
  BY <1>2, <1>4, <1>6 DEF Nexts
<1>8. ASSUME q # <<>>, ~ amid' PROVE n \in 1 .. Len(q)
  <2>1. ~ amid /\ ~ Moving
    BY <1>1, <1>2, <1>8 DEF Moving
  <2>2. next.active = active
    BY <1>1, <2>1 DEF Moving
  <2>3. Len(q) >= 1
    BY <1>3, <1>8
  <2>4. CASE active < i
    <3>1. n = active
      BY <1>2, <1>4, <2>2, <2>4 DEF MovesActive
    <3> QED BY <1>2, <1>3, <1>6, <2>4, <3>1
  <2>5. CASE active >= i
    <3>1. n = IF active = 1 THEN 1 ELSE active - 1
      BY <1>2, <1>4, <2>5 DEF MovesActive
    <3> QED BY <1>2, <1>3, <1>6, <2>3, <2>5, <3>1
  <2> QED BY <1>2, <2>4, <2>5
<1>9. next' \in Nexts /\ next'.tabs = q /\ next'.active = n
  BY <1>1, <1>3, <1>4, <1>7 DEF Show, Nexts
<1>10. latest' \in [File -> AText]
  <2>1. PICK p : p = object[tabs[i]].path /\ p \in File \cup {DataFile}
    <3>1. tabs[i] \in Obj
      BY <1>2
    <3>2. object[tabs[i]] \in ATab
      BY <3>1 DEF TabsInv
    <3> QED BY <3>2, Words
  <2> QED BY <1>1, <2>1 DEF TabsInv
<1>11. next'.tabs # <<>> /\ ~ amid' => next'.active \in 1 .. Len(next'.tabs)
  BY <1>8, <1>9
<1> QED BY <1>1, <1>5, <1>9, <1>10, <1>11, TabsOthers DEF TabsInv, workerVars, runVars

LEMMA TabsAsk ==
    ASSUME TabsInv, NEW r \in Sent, Request(r), object' \in [Obj -> ATab],
           script' \in Nat, ran' \in Nat,
           UNCHANGED <<tabs, active, view, next, rendering, saver, opener, latest, strayVars>>
    PROVE  TabsInv'
<1>1. /\ inbox' = Append(inbox, r) /\ requested < MaxFileRequests /\ requested' = requested + 1
      /\ UNCHANGED <<callbacks, disk, edits>>
  BY DEF Request
<1>2. inbox' \in Seq(Sent)
  BY <1>1 DEF TabsInv
<1>3. requested' \in 0 .. MaxFileRequests
  BY <1>1, EditorAssumption DEF TabsInv
<1> QED BY <1>1, <1>2, <1>3, TabsOthers DEF TabsInv, Nexts, strayVars

LEMMA ActiveText ==
    ASSUME TabsInv, IsText(Active)
    PROVE  Active \in Obj /\ object[Active] \in ATab /\ object[Active].path \in File
<1>1. Active \in Obj
  BY FreeObjects DEF IsText, Obj
<1>2. object[Active] \in ATab
  BY <1>1 DEF TabsInv
<1> QED BY <1>1, <1>2, Words DEF IsText

LEMMA TabsSave == ASSUME TabsInv, Save PROVE TabsInv'
<1>1. PICK r : r = [op |-> "save", path |-> object[saver.object].path, text |-> view,
                    index |-> saver.index]
  OBVIOUS
<1>2. /\ Request(r) /\ object' = Synced(object, Active) /\ IsText(Active) /\ saver.object = Active
      /\ script' = script /\ ran' = ran
      /\ UNCHANGED <<tabs, active, view, next, rendering, saver, opener, latest, strayVars>>
  BY <1>1 DEF Save, TabsInv, runVars
<1>3. r \in Sent
  BY <1>1, <1>2, ActiveText DEF Sent, ToSave, TabsInv
<1>4. object' \in [Obj -> ATab]
  BY <1>2, FreeObjects, SyncedTabs DEF TabsInv
<1> QED BY <1>2, <1>3, <1>4, TabsAsk DEF TabsInv

LEMMA TabsRun == ASSUME TabsInv, Run PROVE TabsInv'
<1>1. PICK r : r = [op |-> "script", run |-> ran + 1, text |-> view]
  OBVIOUS
<1>2. /\ Request(r) /\ object' = Synced(object, Active)
      /\ script' = script /\ ran' = ran + 1
      /\ UNCHANGED <<tabs, active, view, next, rendering, saver, opener, latest, strayVars>>
  BY <1>1 DEF Run
<1>3. r \in Sent
  BY <1>1 DEF Sent, ToScript, TabsInv
<1>4. object' \in [Obj -> ATab]
  BY <1>2, FreeObjects, SyncedTabs DEF TabsInv
<1> QED BY <1>2, <1>3, <1>4, TabsAsk DEF TabsInv

LEMMA TabsOpen == ASSUME TabsInv, NEW p \in File, Open(p) PROVE TabsInv'
<1>1. UNCHANGED <<tabs, active, view, saver, opener, runVars, amid>>
  BY DEF Open
<1>2. CASE \E i \in DOMAIN tabs : /\ QueueUrgent(Show(tabs, i))
                                  /\ UNCHANGED <<object, workerVars, countVars>>
  <2>1. PICK i \in DOMAIN tabs : next' = Show(tabs, i) /\ rendering' = "now"
                                 /\ UNCHANGED <<object, workerVars, countVars>>
    BY <1>2 DEF QueueUrgent
  <2>2. tabs \in Seq(Obj)
    BY DEF TabsInv
  <2>3. i \in 1 .. Len(tabs) /\ i \in Nat
    BY <2>2
  <2>4. next' \in Nexts /\ next'.tabs = tabs /\ next'.active = i
    BY <2>1, <2>2, <2>3 DEF Show, Nexts
  <2>5. next'.tabs # <<>> /\ ~ amid' => next'.active \in 1 .. Len(next'.tabs)
    BY <2>3, <2>4
  <2> QED BY <1>1, <2>1, <2>4, <2>5, TabsOthers DEF TabsInv, workerVars, runVars, countVars
<1>3. CASE /\ Request([op |-> "open", path |-> p, tabs |-> tabs, active |-> opener])
           /\ UNCHANGED <<object, next, rendering, latest, strayText, strayClean>>
  <2>1. PICK r : r = [op |-> "open", path |-> p, tabs |-> tabs, active |-> opener]
    OBVIOUS
  <2>2. r \in Sent
    BY <2>1 DEF Sent, ToOpen, TabsInv
  <2>3. Request(r) /\ object' \in [Obj -> ATab]
    BY <1>3, <2>1 DEF TabsInv
  <2>4. script' \in Nat /\ ran' \in Nat /\ UNCHANGED <<latest, strayVars>>
    BY <1>1, <1>3 DEF TabsInv, runVars, strayVars
  <2> QED BY <1>1, <1>3, <2>2, <2>3, <2>4, TabsAsk
<1>4. \/ \E i \in DOMAIN tabs : /\ QueueUrgent(Show(tabs, i))
                                /\ UNCHANGED <<object, workerVars, countVars>>
      \/ /\ Request([op |-> "open", path |-> p, tabs |-> tabs, active |-> opener])
         /\ UNCHANGED <<object, next, rendering, latest, strayText, strayClean>>
  BY DEF Open
<1> QED BY <1>2, <1>3, <1>4

(* Ctrl-C. *)
LEMMA TabsInterrupt == ASSUME TabsInv, NEW b \in BOOLEAN, Interrupt(b) PROVE TabsInv'
<1>1. /\ inbox' = <<>> /\ requested < MaxFileRequests /\ requested' = requested + 1
      /\ UNCHANGED <<tabVars, callbacks, disk, script, ran, latest, edits, strayVars>>
  BY DEF Interrupt
<1>2. requested' \in 0 .. MaxFileRequests
  BY <1>1, EditorAssumption DEF TabsInv
<1>3. inbox' \in Seq(Sent)
  BY <1>1
<1> QED BY <1>1, <1>2, <1>3, TabsOthers DEF TabsInv, Nexts, tabVars, strayVars

LEMMA TabsLeftRead == ASSUME TabsInv, LeftReadTakes PROVE TabsInv'
<1>1. /\ inbox # <<>> /\ inbox' = Tail(inbox)
      /\ UNCHANGED <<tabVars, callbacks, disk, script, ran, countVars, strayVars>>
  BY DEF LeftReadTakes
<1>2. inbox' \in Seq(Sent)
  BY <1>1 DEF TabsInv
<1> QED BY <1>1, <1>2, TabsOthers DEF TabsInv, Nexts, tabVars, countVars, strayVars

(* The R worker and what comes back.                                       *)
LEMMA Served ==
    ASSUME TabsInv, NEW fails \in BOOLEAN, Serve(fails)
    PROVE  \E r \in Sent, c \in Reply :
             /\ inbox # <<>> /\ r = inbox[1] /\ inbox' = Tail(inbox)
             /\ c.request = r /\ c.failed = fails /\ (r.op = "open" => c.text = disk[r.path])
             /\ disk' = IF r.op = "save" /\ ~ fails THEN [disk EXCEPT ![r.path] = r.text] ELSE disk
             /\ script' = IF r.op = "script" /\ ~ fails THEN r.run ELSE script
             /\ callbacks' = IF r.op = "source" \/ (fails /\ r.op # "save") THEN callbacks
                             ELSE Append(callbacks, c)
             /\ UNCHANGED <<tabVars, ran, countVars, strayVars>>
<1>1. inbox # <<>> /\ inbox \in Seq(Sent)
  BY DEF Serve, TabsInv
<1>2. PICK r \in Sent : r = inbox[1] /\ r = Head(inbox)
  BY <1>1
<1>3. PICK t : t = (IF r.op = "open" THEN disk[r.path] ELSE view) /\ t \in AText
  BY <1>2, SentKinds DEF TabsInv
<1>4. PICK c : c = [request |-> r, failed |-> fails, text |-> t]
  OBVIOUS
<1>5. c \in Reply /\ c.request = r /\ c.failed = fails /\ (r.op = "open" => c.text = disk[r.path])
  BY <1>2, <1>3, <1>4 DEF Reply
<1>6. /\ inbox' = Tail(inbox)
      /\ disk' = IF r.op = "save" /\ ~ fails THEN [disk EXCEPT ![r.path] = r.text] ELSE disk
      /\ script' = IF r.op = "script" /\ ~ fails THEN r.run ELSE script
      /\ callbacks' = IF r.op = "source" \/ (fails /\ r.op # "save") THEN callbacks
                      ELSE Append(callbacks, c)
      /\ UNCHANGED <<tabVars, ran, countVars, strayVars>>
  BY <1>2, <1>3, <1>4, Zenon DEF Serve
<1> QED BY <1>1, <1>2, <1>5, <1>6

LEMMA TabsServe == ASSUME TabsInv, NEW fails \in BOOLEAN, Serve(fails) PROVE TabsInv'
<1>1. PICK r \in Sent, c \in Reply :
             /\ inbox # <<>> /\ r = inbox[1] /\ inbox' = Tail(inbox)
             /\ disk' = IF r.op = "save" /\ ~ fails THEN [disk EXCEPT ![r.path] = r.text] ELSE disk
             /\ script' = IF r.op = "script" /\ ~ fails THEN r.run ELSE script
             /\ callbacks' = IF r.op = "source" \/ (fails /\ r.op # "save") THEN callbacks
                             ELSE Append(callbacks, c)
             /\ UNCHANGED <<tabVars, ran, countVars, strayVars>>
  BY Served
<1>2. disk' \in [File -> AText] /\ script' \in Nat
  BY <1>1, SentKinds DEF TabsInv
<1>3. inbox' \in Seq(Sent)
  BY <1>1 DEF TabsInv
<1>4. callbacks' \in Seq(Reply)
  BY <1>1 DEF TabsInv
<1> QED BY <1>1, <1>2, <1>3, <1>4, TabsOthers DEF TabsInv, Nexts, tabVars, countVars, strayVars

LEMMA Answered ==
    ASSUME TabsInv, NEW op, Returned(op)
    PROVE  /\ callbacks # <<>> /\ Back = callbacks[1] /\ Back \in Reply /\ Back.request \in Sent
           /\ Back.request.op = op /\ Back.text \in AText /\ Back.failed \in BOOLEAN
           /\ callbacks' = Tail(callbacks) /\ callbacks' \in Seq(Reply) /\ rendering # "now"
<1>1. callbacks # <<>> /\ callbacks \in Seq(Reply) /\ callbacks' = Tail(callbacks)
      /\ Head(callbacks).request.op = op /\ rendering # "now"
  BY DEF Returned, TabsInv
<1>2. Back = callbacks[1] /\ Back \in Reply /\ callbacks' \in Seq(Reply)
  BY <1>1 DEF Back
<1> QED BY <1>1, <1>2 DEF Back, Reply

LEMMA TabsSaved == ASSUME TabsInv, Saved PROVE TabsInv'
<1>1. /\ Returned("save") /\ Marks(Back.request.index, DirtyAfter(Back.failed), view)
      /\ rendering' = "later"
      /\ UNCHANGED <<tabs, active, view, saver, opener, inbox, disk, script, ran, countVars, amid>>
  BY DEF Saved, Returned, runVars
<1>2. Back.request.index \in Nat /\ DirtyAfter(Back.failed) \in BOOLEAN
  BY <1>1, Answered, SentKinds DEF DirtyAfter
<1>3. /\ object' \in [Obj -> ATab] /\ next' \in Nexts
      /\ next'.active = next.active /\ Len(next'.tabs) = Len(next.tabs)
  BY <1>1, <1>2, MarksTab DEF TabsInv
<1>4. next'.tabs # <<>> /\ ~ amid' => next'.active \in 1 .. Len(next'.tabs)
  BY <1>1, <1>3 DEF TabsInv, Nexts
<1>5. callbacks' \in Seq(Reply)
  BY <1>1, Answered
<1> QED BY <1>1, <1>3, <1>4, <1>5, TabsOthers DEF TabsInv, countVars

LEMMA TabsScripted == ASSUME TabsInv, Scripted PROVE TabsInv'
<1>1. PICK r : r = [op |-> "source", run |-> Back.request.run]
  OBVIOUS
<1>2. Returned("script") /\ inbox' = inbox \o <<r>>
      /\ UNCHANGED <<tabVars, disk, runVars, countVars, strayVars>>
  BY <1>1 DEF Scripted, Returned, LineFor
<1>3. inbox' \in Seq(Sent)
  <2>1. Back.request.run \in Nat
    BY <1>2, Answered, SentKinds
  <2>2. r \in Sent
    BY <1>1, <2>1 DEF Sent, ToSource
  <2> QED BY <1>2, <2>2 DEF TabsInv
<1>4. callbacks' \in Seq(Reply)
  BY <1>2, Answered
<1> QED BY <1>2, <1>3, <1>4, TabsOthers DEF TabsInv, Nexts, tabVars, runVars, countVars, strayVars

LEMMA TabsUnheard == ASSUME TabsInv, Unheard PROVE TabsInv'
<1>1. /\ \E op \in {"save", "open"} : Returned(op)
      /\ UNCHANGED <<tabVars, inbox, disk, runVars, countVars, strayVars>>
  BY DEF Unheard, Returned
<1>2. callbacks' \in Seq(Reply)
  BY <1>1, Answered
<1> QED BY <1>1, <1>2, TabsOthers DEF TabsInv, Nexts, tabVars, runVars, countVars, strayVars

LEMMA TabsAdded ==
    ASSUME TabsInv, NEW list \in Seq(Obj), next' \in Nexts,
           next'.active = Len(list) + 1, Len(next'.tabs) = Len(list) + 1
    PROVE  next'.tabs # <<>> /\ ~ amid' => next'.active \in 1 .. Len(next'.tabs)
<1>1. Len(list) \in Nat
  OBVIOUS
<1> QED BY <1>1

LEMMA TabsOpened == ASSUME TabsInv, Opened PROVE TabsInv'
<1>1. PICK r, b : r = Back.request /\ b = Tab(r.path, Back.text, FALSE)
  OBVIOUS
<1>2. /\ Returned("open") /\ AddTab(r.tabs, b, r.active) /\ latest' = [latest EXCEPT ![r.path] = Back.text]
      /\ UNCHANGED <<tabs, active, view, saver, opener, inbox, disk, script, ran, edits,
                     requested, amid>>
  BY <1>1 DEF Opened, Returned, runVars
<1>3. r.path \in File /\ r.tabs \in Seq(Obj) /\ r.active \in 0 .. MaxObjects /\ Back.text \in AText
  BY <1>1, <1>2, Answered, SentKinds
<1>4. b \in ATab /\ latest' \in [File -> AText]
  BY <1>1, <1>2, <1>3, Words DEF TabsInv
<1>5. /\ object' \in [Obj -> ATab] /\ next' \in Nexts /\ rendering' = "later"
      /\ next'.active = Len(r.tabs) + 1 /\ Len(next'.tabs) = Len(r.tabs) + 1
  BY <1>2, <1>3, <1>4, AddsTab
<1>6. next'.tabs # <<>> /\ ~ amid' => next'.active \in 1 .. Len(next'.tabs)
  BY <1>3, <1>5, TabsAdded
<1>7. callbacks' \in Seq(Reply)
  BY <1>2, Answered
<1> QED BY <1>2, <1>4, <1>5, <1>6, <1>7, TabsOthers DEF TabsInv

LEMMA TabsData == ASSUME TabsInv, ShowData PROVE TabsInv'
<1>1. PICK b : b = Tab(DataFile, view, FALSE)
  OBVIOUS
<1>2. /\ requested < MaxFileRequests /\ requested' = requested + 1 /\ UserActs
      /\ UNCHANGED <<tabs, active, view, saver, opener, workerVars, runVars, latest, edits>>
  BY DEF ShowData
<1>3. requested' \in 0 .. MaxFileRequests
  BY <1>2, EditorAssumption DEF TabsInv
<1>4. CASE \E i \in DOMAIN tabs : /\ Queue([next EXCEPT !.active = i])
                                  /\ amid' = (amid \/ Moving) /\ object' = object
  <2>1. PICK i \in DOMAIN tabs : /\ next' = [next EXCEPT !.active = i] /\ rendering' = "later"
                                 /\ amid' = (amid \/ Moving) /\ object' = object
    BY <1>4 DEF Queue
  <2>2. next \in Nexts /\ tabs \in Seq(Obj) /\ i \in 1 .. Len(tabs) /\ i \in Nat /\ amid \in BOOLEAN
    BY DEF TabsInv, Nexts
  <2>3. next' \in Nexts /\ next'.tabs = next.tabs /\ next'.active = i
    BY <2>1, <2>2 DEF Nexts
  <2>4. amid' \in BOOLEAN /\ (amid => amid')
    BY <2>1, <2>2 DEF Moving
  <2>5. next'.tabs # <<>> /\ ~ amid' => next'.active \in 1 .. Len(next'.tabs)
    BY <1>2, <2>1, <2>2, <2>3, NotMoving
  <2> QED BY <1>2, <1>3, <2>1, <2>3, <2>4, <2>5, TabsOthers DEF TabsInv, workerVars, runVars
<1>5. CASE AddTab(tabs, b, opener) /\ amid' = amid
  <2>1. b \in ATab /\ tabs \in Seq(Obj) /\ opener \in 0 .. MaxObjects
    BY <1>1, Words DEF TabsInv
  <2>2. /\ object' \in [Obj -> ATab] /\ next' \in Nexts /\ rendering' = "later"
        /\ next'.active = Len(tabs) + 1 /\ Len(next'.tabs) = Len(tabs) + 1
    BY <1>5, <2>1, AddsTab
  <2>3. next'.tabs # <<>> /\ ~ amid' => next'.active \in 1 .. Len(next'.tabs)
    BY <2>1, <2>2, TabsAdded
  <2> QED BY <1>2, <1>3, <1>5, <2>2, <2>3, TabsOthers DEF TabsInv, workerVars, runVars
<1>6. \/ \E i \in DOMAIN tabs : /\ Queue([next EXCEPT !.active = i])
                                /\ amid' = (amid \/ Moving) /\ object' = object
      \/ AddTab(tabs, b, opener) /\ amid' = amid
  BY <1>1 DEF ShowData
<1> QED BY <1>4, <1>5, <1>6

LEMMA TabsInit == ASSUME EditorInit PROVE TabsInv
<1>1. \A i \in DOMAIN FirstTabs : FirstTabs[i] \in File /\ i \in Obj /\ i \in Nat
  BY EditorAssumption DEF Obj
<1>2. DOMAIN FirstTabs = 1 .. Len(FirstTabs) /\ Len(FirstTabs) \in Nat /\ 1 \in DOMAIN FirstTabs
  BY EditorAssumption
<1>3. object \in [Obj -> ATab]
  <2>1. 0 \in 0 .. MaxEdits
    BY EditorAssumption
  <2>2. \A i \in DOMAIN FirstTabs : Tab(FirstTabs[i], Text(FirstTabs[i], 0), TRUE) \in ATab
    BY <1>1, <2>1, Words
  <2> QED BY <2>2, Firsts DEF EditorInit, Obj
<1>4. tabs \in Seq(Obj) /\ Len(tabs) = Len(FirstTabs) /\ active = 1
  <2>1. tabs = [i \in 1 .. Len(FirstTabs) |-> i] /\ tabs \in [1 .. Len(FirstTabs) -> Obj]
    BY <1>1, <1>2 DEF EditorInit
  <2> QED BY <1>2, <2>1 DEF EditorInit
<1>5. tabs[1] = 1 /\ 1 \in DOMAIN tabs /\ Active = 1
  BY <1>2 DEF EditorInit, Active
<1>6. next = [tabs |-> tabs, active |-> 1, listed |-> FALSE] /\ rendering = "none"
  BY DEF EditorInit
<1>7. saver = [object |-> 1, index |-> 1] /\ opener = 1 /\ 1 \in 0 .. MaxObjects
  BY <1>1, <1>2 DEF EditorInit, Obj
<1>8. \A p \in File : Text(p, 0) \in AText
  BY EditorAssumption, Words
<1>9. disk \in [File -> AText] /\ latest \in [File -> AText] /\ view \in AText
      /\ script = 0 /\ ran = 0 /\ amid = FALSE
  BY <1>8, Firsts DEF EditorInit
<1>10. inbox = <<>> /\ callbacks = <<>> /\ edits = 0 /\ requested = 0
  BY DEF EditorInit
<1>11. 0 \in 0 .. MaxEdits /\ 0 \in 0 .. MaxFileRequests
  BY EditorAssumption
<1>12. active \in 1 .. Len(tabs)
  BY <1>2, <1>4
<1>13. Rendered => next = [tabs |-> tabs, active |-> active, listed |-> FALSE]
  BY <1>4, <1>6
<1>14. next \in [tabs : Seq(Obj), active : Nat, listed : BOOLEAN] /\ next.tabs = tabs /\ next.active = active
  BY <1>4, <1>6
<1>15. saver \in [object : 0 .. MaxObjects, index : Nat] /\ saver.object = Active /\ opener \in 0 .. MaxObjects
  BY <1>5, <1>7
<1>16. /\ inbox \in Seq(Sent) /\ callbacks \in Seq(Reply) /\ edits \in 0 .. MaxEdits
       /\ requested \in 0 .. MaxFileRequests
  BY <1>10, <1>11
<1>17. active \in Nat /\ amid \in BOOLEAN /\ rendering \in {"none", "later", "now"}
  BY <1>4, <1>6, <1>9
<1> QED BY <1>3, <1>4, <1>9, <1>12, <1>13, <1>14, <1>15, <1>16, <1>17 DEF TabsInv

LEMMA TabsStep == ASSUME TabsInv, [EditorNext]_editorVars PROVE TabsInv'
<1>1. CASE UNCHANGED editorVars
  <2>1. Active' = Active /\ (Rendered' <=> Rendered)
    BY <1>1 DEF editorVars, tabVars, Active, Rendered
  <2> QED BY <1>1, <2>1 DEF TabsInv, editorVars, tabVars, workerVars, runVars, countVars, strayVars
<1>2. CASE \E i \in DOMAIN tabs : SwitchTab(i) \/ CloseTab(i)
  BY <1>2, TabsSwitch, TabsClose
<1>3. CASE \E p \in File : Open(p)
  BY <1>3, TabsOpen
<1>4. CASE \E b \in BOOLEAN : Serve(b) \/ Interrupt(b)
  BY <1>4, TabsServe, TabsInterrupt
<1> QED BY <1>1, <1>2, <1>3, <1>4, TabsRender, TabsEdit, TabsSave, TabsRun, TabsSaved, TabsScripted,
           TabsUnheard, TabsOpened, TabsData, TabsLeftRead DEF EditorNext

(* The tabs are objects there are, and the active tab is one of them, also *)
(* when callbacks have set the list and the index and events of the user   *)
(* come before the rendering, unless one of these chose or closed a tab in *)
(* a list about to change.                                                 *)
THEOREM TabsStayTyped == EditorSpec => []EditorTypeOK
<1>1. TabsInv => EditorTypeOK
  <2> SUFFICES ASSUME TabsInv PROVE EditorTypeOK
    OBVIOUS
  <2>1. object \in [1 .. MaxObjects -> [path : File \cup {DataFile}, dirty : BOOLEAN,
                                        text : [of : File, edit : 0 .. MaxEdits]]]
    BY DEF TabsInv, Obj, ATab, AText
  <2>2. DOMAIN object = Obj /\ tabs \in Seq(Obj)
    BY DEF TabsInv
  <2>3. ToSet(tabs) \subseteq DOMAIN object
    BY <2>2 DEF ToSet
  <2> QED BY <2>1, <2>2, <2>3 DEF EditorTypeOK, TabsInv
<1> QED BY <1>1, TabsInit, TabsStep, PTL DEF EditorSpec

-----------------------------------------------------------------------------
(* The editor: its tabs keep their texts.                                  *)

OneOf(objects, list, p) ==
    \A i, j \in 1 .. Len(list) : objects[list[i]].path = p /\ objects[list[j]].path = p => i = j
Awaited == ToSet(inbox) \cup {c.request : c \in ToSet(callbacks)}
Shows(p) == Active # 0 /\ object[Active].path = p
Content(o) == IF o = Active THEN view ELSE object[o].text

(* A file has at most one tab, in the list rendered, in the one to be      *)
(* rendered and in those that files being opened are added to; the tab to  *)
(* be rendered has its text, and so has the view when it shows the file.   *)
TextAt(p) ==
    /\ OneOf(object, tabs, p) /\ OneOf(object, next.tabs, p)
    /\ \A r \in Awaited : r.op = "open" => OneOf(object, r.tabs, p)
    /\ \A i \in 1 .. Len(next.tabs) :
         object[next.tabs[i]].path = p => Content(next.tabs[i]) = latest[p]
    /\ rendering # "now" /\ Shows(p) => view = latest[p]
TextInv == \A p \in File : p \notin strayText => TextAt(p)

LEMMA SamePaths ==
    ASSUME NEW f, NEW g, NEW list, NEW p,
           \A i \in 1 .. Len(list) : g[list[i]].path = f[list[i]].path, OneOf(f, list, p)
    PROVE  OneOf(g, list, p)
  BY DEF OneOf

LEMMA RemovedOne ==
    ASSUME NEW f, NEW list \in Seq(Obj), NEW k \in 1 .. Len(list), NEW p, OneOf(f, list, p)
    PROVE  /\ OneOf(f, RemoveAt(list, k), p)
           /\ f[list[k]].path = p =>
                \A i \in 1 .. Len(RemoveAt(list, k)) : f[RemoveAt(list, k)[i]].path # p
<1>1. PICK q : q = RemoveAt(list, k)
  OBVIOUS
<1>2. /\ Len(q) = Len(list) - 1 /\ Len(list) \in Nat
      /\ \A j \in 1 .. Len(list) - 1 : q[j] = IF j < k THEN list[j] ELSE list[j + 1]
  <2>1. PICK S : S = Obj
    OBVIOUS
  <2>2. list \in Seq(S) /\ k \in 1 .. Len(list)
    BY <2>1
  <2>3. /\ Len(RemoveAt(list, k)) = Len(list) - 1
        /\ \A j \in 1 .. Len(list) - 1 : RemoveAt(list, k)[j] = IF j < k THEN list[j] ELSE list[j + 1]
    BY ONLY <2>2, Removal
  <2>4. Len(list) \in Nat
    OBVIOUS
  <2> QED BY ONLY <1>1, <2>3, <2>4
<1>3. \A j \in 1 .. Len(q) : \E i \in 1 .. Len(list) :
        i # k /\ q[j] = list[i] /\ i = IF j < k THEN j ELSE j + 1
  <2> TAKE j \in 1 .. Len(q)
  <2>1. CASE j < k
    BY <1>2, <2>1
  <2>2. CASE ~ (j < k)
    <3>1. j + 1 \in 1 .. Len(list) /\ j + 1 # k /\ q[j] = list[j + 1]
      BY <1>2, <2>2
    <3> QED BY <2>2, <3>1
  <2> QED BY <2>1, <2>2
<1>4. OneOf(f, q, p)
  <2> SUFFICES ASSUME NEW i \in 1 .. Len(q), NEW j \in 1 .. Len(q), f[q[i]].path = p, f[q[j]].path = p
               PROVE  i = j
    BY DEF OneOf
  <2>1. PICK a \in 1 .. Len(list) : q[i] = list[a] /\ a = IF i < k THEN i ELSE i + 1
    BY <1>3
  <2>2. PICK b \in 1 .. Len(list) : q[j] = list[b] /\ b = IF j < k THEN j ELSE j + 1
    BY <1>3
  <2>3. a = b
    BY <2>1, <2>2 DEF OneOf
  <2> QED BY <1>2, <2>1, <2>2, <2>3
<1>5. f[list[k]].path = p => \A i \in 1 .. Len(q) : f[q[i]].path # p
  BY <1>3 DEF OneOf
<1> QED BY <1>1, <1>4, <1>5

(* Requests that are opening a file hold the tabs they saw.                *)
LEMMA AwaitedOpen ==
    ASSUME TabsInv, NEW r \in Awaited, r.op = "open"
    PROVE  /\ r \in Sent /\ r.path \in File /\ r.tabs \in Seq(Obj) /\ r.active \in 0 .. MaxObjects
           /\ \A i \in 1 .. Len(r.tabs) : r.tabs[i] \in Obj /\ r.tabs[i] \in Held /\ r.tabs[i] \notin Free
<1>1. inbox \in Seq(Sent) /\ callbacks \in Seq(Reply)
  BY DEF TabsInv
<1>2. r \in ToSet(inbox) \/ \E c \in ToSet(callbacks) : r = c.request
  BY DEF Awaited
<1>3. r \in Sent
  <2>1. CASE r \in ToSet(inbox)
    BY <1>1, <2>1 DEF ToSet
  <2>2. CASE \E c \in ToSet(callbacks) : r = c.request
    <3>1. PICK c \in ToSet(callbacks) : r = c.request
      BY <2>2
    <3>2. c \in Reply
      BY <1>1, <3>1 DEF ToSet
    <3> QED BY <3>1, <3>2 DEF Reply
  <2> QED BY <1>2, <2>1, <2>2
<1>4. r.path \in File /\ r.tabs \in Seq(Obj) /\ r.active \in 0 .. MaxObjects
  BY <1>3, SentKinds
<1>5. HeldBy(r) \subseteq Held
  BY <1>2 DEF Held
<1>6. \A i \in 1 .. Len(r.tabs) : r.tabs[i] \in Obj /\ r.tabs[i] \in HeldBy(r)
  BY <1>4 DEF HeldBy, ToSet
<1> QED BY <1>3, <1>4, <1>5, <1>6, FreeObjects

LEMMA AwaitedAsks ==
    ASSUME TabsInv, NEW r \in Sent, inbox' = Append(inbox, r), callbacks' = callbacks
    PROVE  Awaited' = Awaited \cup {r}
<1>1. inbox \in Seq(Sent)
  BY DEF TabsInv
<1>2. Adds(inbox, inbox', r)
  BY <1>1, AppendAdds
<1>3. ToSet(inbox') = ToSet(inbox) \cup {r}
  <2>1. DOMAIN inbox = 1 .. Len(inbox) /\ DOMAIN inbox' = 1 .. Len(inbox')
    BY <1>1
  <2> QED BY <1>2, <2>1 DEF Adds, ToSet
<1> QED BY <1>3 DEF Awaited

LEMMA TailSet == ASSUME NEW S, NEW s \in Seq(S), s # <<>> PROVE ToSet(Tail(s)) \subseteq ToSet(s)
<1>1. Tail(s) \in Seq(S) /\ Drops(s, Tail(s))
  BY TailDrops
<1>2. DOMAIN s = 1 .. Len(s) /\ DOMAIN Tail(s) = 1 .. Len(Tail(s))
  BY <1>1
<1> QED BY <1>1, <1>2 DEF Drops, ToSet

LEMMA AwaitedBack ==
    ASSUME TabsInv, NEW op, Returned(op), inbox' = inbox
    PROVE  Awaited' \subseteq Awaited /\ Back.request \in Awaited
<1>1. callbacks # <<>> /\ callbacks \in Seq(Reply) /\ callbacks' = Tail(callbacks) /\ Back = callbacks[1]
  BY Answered DEF TabsInv
<1>2. ToSet(callbacks') \subseteq ToSet(callbacks)
  BY <1>1, TailSet
<1>3. Back \in ToSet(callbacks)
  BY <1>1 DEF ToSet
<1> QED BY <1>2, <1>3 DEF Awaited

(* The parts the steps that render nothing leave alone.                    *)
LEMMA TextStays ==
    ASSUME TabsInv, NEW p \in File, TextAt(p), UNCHANGED <<tabs, active>>,
           \A x \in Obj : x \notin Free => object'[x].path = object[x].path,
           \A r \in Awaited' : r \in Awaited \/ (r.op = "open" => r.tabs = tabs),
           OneOf(object', next'.tabs, p),
           \A i \in 1 .. Len(next'.tabs) : object'[next'.tabs[i]].path = p =>
             (IF next'.tabs[i] = Active THEN view' ELSE object'[next'.tabs[i]].text) = latest'[p],
           rendering' # "now" /\ Shows(p) => view' = latest'[p]
    PROVE  TextAt(p)'
<1>1. Active' = Active
  BY DEF Active
<1>2. OneOf(object', tabs, p)
  <2>1. \A i \in 1 .. Len(tabs) : object'[tabs[i]].path = object[tabs[i]].path
    BY FreeObjects
  <2> QED BY <2>1, SamePaths DEF TextAt
<1>3. ASSUME NEW r \in Awaited', r.op = "open" PROVE OneOf(object', r.tabs, p)
  <2>1. CASE r \in Awaited
    <3>1. \A i \in 1 .. Len(r.tabs) : object'[r.tabs[i]].path = object[r.tabs[i]].path
      BY <1>3, <2>1, AwaitedOpen
    <3>2. OneOf(object, r.tabs, p)
      BY <1>3, <2>1 DEF TextAt
    <3> QED BY <3>1, <3>2, SamePaths
  <2>2. CASE r.tabs = tabs
    BY <1>2, <2>2
  <2> QED BY <1>3, <2>1, <2>2
<1>4. Shows(p)' => Shows(p)
  <2> SUFFICES ASSUME Active # 0, object'[Active].path = p PROVE object[Active].path = p
    BY <1>1 DEF Shows
  <2>1. Active \in Obj /\ Active \notin Free
    BY FreeObjects DEF Obj
  <2> QED BY <2>1
<1> QED BY <1>1, <1>2, <1>3, <1>4 DEF TextAt, Content

LEMMA TextSame ==
    ASSUME TabsInv, NEW p \in File, TextAt(p),
           UNCHANGED <<object, tabs, active, view, next, rendering, latest>>,
           \A r \in Awaited' : r \in Awaited \/ (r.op = "open" => r.tabs = tabs)
    PROVE  TextAt(p)'
<1>1. OneOf(object', next'.tabs, p)
  BY DEF TextAt
<1>2. \A i \in 1 .. Len(next'.tabs) : object'[next'.tabs[i]].path = p =>
        (IF next'.tabs[i] = Active THEN view' ELSE object'[next'.tabs[i]].text) = latest'[p]
  BY DEF TextAt, Content
<1>3. rendering' # "now" /\ Shows(p) => view' = latest'[p]
  BY DEF TextAt
<1> QED BY <1>1, <1>2, <1>3, TextStays

(* The view's text is stored in the tab it shows.                          *)
LEMMA TextStored ==
    ASSUME TabsInv, NEW p \in File, TextAt(p), object' = Synced(object, Active),
           UNCHANGED <<tabs, active, view, next, rendering, latest>>,
           \A r \in Awaited' : r \in Awaited \/ (r.op = "open" => r.tabs = tabs)
    PROVE  TextAt(p)'
<1>1. object \in [Obj -> ATab] /\ Active \in 0 .. MaxObjects /\ view \in AText
      /\ \A i \in 1 .. Len(next.tabs) : next.tabs[i] \in Obj
  BY FreeObjects DEF TabsInv
<1>2. \A x \in Obj :
        /\ object'[x].path = object[x].path
        /\ object'[x].text = IF x = Active /\ object[x].path # DataFile THEN view ELSE object[x].text
  BY <1>1, SyncedTabs
<1>3. OneOf(object', next'.tabs, p)
  <2>1. \A i \in 1 .. Len(next.tabs) : object'[next.tabs[i]].path = object[next.tabs[i]].path
    BY <1>1, <1>2
  <2> QED BY <2>1, SamePaths DEF TextAt
<1>4. \A i \in 1 .. Len(next'.tabs) : object'[next'.tabs[i]].path = p =>
        (IF next'.tabs[i] = Active THEN view' ELSE object'[next'.tabs[i]].text) = latest'[p]
  BY <1>1, <1>2 DEF TextAt, Content
<1>5. rendering' # "now" /\ Shows(p) => view' = latest'[p]
  BY DEF TextAt
<1> QED BY <1>2, <1>3, <1>4, <1>5, TextStays

LEMMA TextSave == ASSUME TabsInv, Save, NEW p \in File, TextAt(p) PROVE TextAt(p)'
<1>1. PICK r : r = [op |-> "save", path |-> object[saver.object].path, text |-> view,
                    index |-> saver.index]
  OBVIOUS
<1>2. /\ Request(r) /\ object' = Synced(object, Active) /\ IsText(Active) /\ saver.object = Active
      /\ UNCHANGED <<tabs, active, view, next, rendering, saver, opener, latest>>
  BY <1>1 DEF Save, TabsInv
<1>3. r \in Sent
  BY <1>1, <1>2, ActiveText DEF Sent, ToSave, TabsInv
<1>4. Awaited' = Awaited \cup {r}
  BY <1>2, <1>3, AwaitedAsks DEF Request
<1>5. r.op # "open"
  BY <1>1
<1> QED BY <1>2, <1>4, <1>5, TextStored

LEMMA TextRun == ASSUME TabsInv, Run, NEW p \in File, TextAt(p) PROVE TextAt(p)'
<1>1. PICK r : r = [op |-> "script", run |-> ran + 1, text |-> view]
  OBVIOUS
<1>2. /\ Request(r) /\ object' = Synced(object, Active)
      /\ UNCHANGED <<tabs, active, view, next, rendering, saver, opener, latest>>
  BY <1>1 DEF Run
<1>3. r \in Sent
  BY <1>1 DEF Sent, ToScript, TabsInv
<1>4. Awaited' = Awaited \cup {r}
  BY <1>2, <1>3, AwaitedAsks DEF Request
<1>5. r.op # "open"
  BY <1>1
<1> QED BY <1>2, <1>4, <1>5, TextStored

LEMMA AwaitedServe ==
    ASSUME TabsInv, NEW fails \in BOOLEAN, Serve(fails) PROVE Awaited' \subseteq Awaited
<1>1. PICK r \in Sent, c \in Reply :
             /\ inbox # <<>> /\ r = inbox[1] /\ inbox' = Tail(inbox) /\ c.request = r
             /\ callbacks' = IF r.op = "source" \/ (fails /\ r.op # "save") THEN callbacks
                             ELSE Append(callbacks, c)
  BY Served
<1>2. inbox \in Seq(Sent) /\ callbacks \in Seq(Reply)
  BY DEF TabsInv
<1>3. ToSet(inbox') \subseteq ToSet(inbox) /\ r \in ToSet(inbox)
  <2>1. 1 \in DOMAIN inbox
    BY <1>1, <1>2
  <2> QED BY <1>1, <1>2, <2>1, TailSet DEF ToSet
<1>4. ToSet(Append(callbacks, c)) = ToSet(callbacks) \cup {c}
  <2>1. Adds(callbacks, Append(callbacks, c), c) /\ Append(callbacks, c) \in Seq(Reply)
    BY <1>2, AppendAdds
  <2>2. DOMAIN callbacks = 1 .. Len(callbacks)
        /\ DOMAIN Append(callbacks, c) = 1 .. Len(Append(callbacks, c))
    BY <1>2, <2>1
  <2> QED BY <2>1, <2>2 DEF Adds, ToSet
<1>5. \A a \in ToSet(callbacks') : a \in ToSet(callbacks) \/ a = c
  BY <1>1, <1>4
<1> QED BY <1>1, <1>3, <1>5 DEF Awaited

LEMMA TextServe ==
    ASSUME TabsInv, NEW fails \in BOOLEAN, Serve(fails), NEW p \in File, TextAt(p) PROVE TextAt(p)'
<1>1. UNCHANGED <<tabVars, countVars>>
  BY DEF Serve
<1>2. UNCHANGED <<object, tabs, active, view, next, rendering, latest>>
  BY <1>1 DEF tabVars, countVars
<1> QED BY <1>2, AwaitedServe, TextSame

LEMMA TextInterrupt ==
    ASSUME TabsInv, (\E b \in BOOLEAN : Interrupt(b)) \/ LeftReadTakes, NEW p \in File, TextAt(p)
    PROVE  TextAt(p)'
<1>1. UNCHANGED <<object, tabs, active, view, next, rendering, latest, callbacks>>
      /\ (inbox' = <<>> \/ (inbox # <<>> /\ inbox' = Tail(inbox)))
  BY DEF Interrupt, LeftReadTakes, tabVars, countVars
<1>2. ToSet(inbox') \subseteq ToSet(inbox)
  <2>1. CASE inbox' = <<>>
    BY <2>1 DEF ToSet
  <2>2. CASE inbox # <<>> /\ inbox' = Tail(inbox)
    BY <2>2, TailSet DEF TabsInv
  <2> QED BY <1>1, <2>1, <2>2
<1>3. Awaited' \subseteq Awaited
  BY <1>1, <1>2 DEF Awaited
<1> QED BY <1>1, <1>3, TextSame

LEMMA TextUnheard == ASSUME TabsInv, Unheard, NEW p \in File, TextAt(p) PROVE TextAt(p)'
<1>1. UNCHANGED <<object, tabs, active, view, next, rendering, latest, inbox>>
      /\ \E op \in {"save", "open"} : Returned(op)
  BY DEF Unheard, tabVars, countVars
<1>2. Awaited' \subseteq Awaited
  BY <1>1, AwaitedBack
<1> QED BY <1>1, <1>2, TextSame

LEMMA TextScripted == ASSUME TabsInv, Scripted, NEW p \in File, TextAt(p) PROVE TextAt(p)'
<1>1. PICK r : r = [op |-> "source", run |-> Back.request.run]
  OBVIOUS
<1>2. Returned("script") /\ inbox' = inbox \o <<r>>
      /\ UNCHANGED <<object, tabs, active, view, next, rendering, latest>>
  BY <1>1 DEF Scripted, LineFor, tabVars, countVars
<1>3. inbox \in Seq(Sent) /\ callbacks \in Seq(Reply) /\ r \in Sent
  <2>1. Back.request.run \in Nat
    BY <1>2, Answered, SentKinds
  <2> QED BY <1>1, <2>1 DEF Sent, ToSource, TabsInv
<1>4. inbox' = Append(inbox, r)
  BY <1>2, <1>3
<1>5. ToSet(inbox') = ToSet(inbox) \cup {r}
  <2>1. Adds(inbox, inbox', r) /\ inbox' \in Seq(Sent)
    BY <1>3, <1>4, AppendAdds
  <2>2. DOMAIN inbox = 1 .. Len(inbox) /\ DOMAIN inbox' = 1 .. Len(inbox')
    BY <1>3, <2>1
  <2> QED BY <2>1, <2>2 DEF Adds, ToSet
<1>6. ToSet(callbacks') \subseteq ToSet(callbacks)
  <2>1. callbacks # <<>> /\ callbacks' = Tail(callbacks)
    BY <1>2, Answered
  <2> QED BY <1>3, <2>1, TailSet
<1>7. \A q \in Awaited' : q \in Awaited \/ q = r
  BY <1>5, <1>6 DEF Awaited
<1>8. r.op # "open"
  BY <1>1
<1> QED BY <1>2, <1>7, <1>8, TextSame

LEMMA TextSwitch ==
    ASSUME TabsInv, NEW k \in DOMAIN tabs, SwitchTab(k), NEW p \in File, TextAt(p) PROVE TextAt(p)'
<1>1. /\ next' = [next EXCEPT !.active = k] /\ rendering' = "now"
      /\ UNCHANGED <<object, tabs, active, view, inbox, callbacks, latest>>
  BY DEF SwitchTab, QueueUrgent, workerVars, countVars
<1>2. next'.tabs = next.tabs
  BY <1>1 DEF TabsInv
<1>3. Awaited' = Awaited
  BY <1>1 DEF Awaited
<1>4. OneOf(object', next'.tabs, p)
  BY <1>1, <1>2 DEF TextAt
<1>5. \A i \in 1 .. Len(next'.tabs) : object'[next'.tabs[i]].path = p =>
        (IF next'.tabs[i] = Active THEN view' ELSE object'[next'.tabs[i]].text) = latest'[p]
  BY <1>1, <1>2 DEF TextAt, Content
<1> QED BY <1>1, <1>3, <1>4, <1>5, TextStays

(* The tabs of a list that puts none of the file back have its text.       *)
LEMMA ListText ==
    ASSUME TabsInv, NEW p \in File, TextAt(p), NEW list \in Seq(Obj), p \notin BroughtBack(list),
           NEW i \in 1 .. Len(list), object[list[i]].path = p
    PROVE  Content(list[i]) = latest[p] /\ \E j \in 1 .. Len(next.tabs) : list[i] = next.tabs[j]
<1>1. list[i] \in Obj /\ list[i] # 0 /\ list[i] \in ToSet(list) /\ p # DataFile
  BY EditorAssumption DEF Obj, ToSet
<1>2. IsText(list[i])
  BY <1>1 DEF IsText
<1>3. list[i] \in ToSet(next.tabs)
  BY <1>1, <1>2 DEF BroughtBack, PathsOf
<1>4. \E j \in 1 .. Len(next.tabs) : list[i] = next.tabs[j]
  <2>1. next.tabs \in Seq(Obj)
    BY DEF TabsInv
  <2> QED BY <1>3, <2>1 DEF ToSet
<1> QED BY <1>4 DEF TextAt

LEMMA TextClose ==
    ASSUME TabsInv, NEW k \in DOMAIN tabs, CloseTab(k), NEW p \in File, p \notin strayText', TextAt(p)
    PROVE  TextAt(p)'
<1>1. PICK q : q = RemoveAt(tabs, k)
  OBVIOUS
<1>2. /\ next'.tabs = q /\ rendering' = "now" /\ p \notin BroughtBack(q)
      /\ latest' = (IF object[tabs[k]].path = DataFile THEN latest
                    ELSE [latest EXCEPT ![object[tabs[k]].path] = disk[object[tabs[k]].path]])
      /\ UNCHANGED <<object, tabs, active, view, inbox, callbacks>>
  BY <1>1 DEF CloseTab, QueueUrgent, Show, Strays, workerVars
<1>3. tabs \in Seq(Obj) /\ k \in 1 .. Len(tabs) /\ q \in Seq(Obj) /\ latest \in [File -> AText]
  <2>1. tabs \in Seq(Obj) /\ latest \in [File -> AText]
    BY DEF TabsInv
  <2>2. k \in 1 .. Len(tabs)
    BY <2>1
  <2>3. q \in Seq(Obj)
    BY <1>1, <2>1, <2>2, Removal
  <2> QED BY <2>1, <2>2, <2>3
<1>4. /\ OneOf(object, q, p)
      /\ object[tabs[k]].path = p => \A i \in 1 .. Len(q) : object[q[i]].path # p
  BY <1>1, <1>3, RemovedOne DEF TextAt
<1>5. object[tabs[k]].path # p => latest'[p] = latest[p]
  BY <1>2, <1>3
<1>6. ASSUME NEW i \in 1 .. Len(q), object[q[i]].path = p
      PROVE  (IF q[i] = Active THEN view ELSE object[q[i]].text) = latest'[p]
  <2>1. Content(q[i]) = latest[p]
    BY <1>2, <1>3, <1>6, ListText
  <2> QED BY <1>4, <1>5, <1>6, <2>1 DEF Content
<1>7. Awaited' = Awaited
  BY <1>2 DEF Awaited
<1>8. OneOf(object', next'.tabs, p)
  BY <1>2, <1>4
<1>9. \A i \in 1 .. Len(next'.tabs) : object'[next'.tabs[i]].path = p =>
        (IF next'.tabs[i] = Active THEN view' ELSE object'[next'.tabs[i]].text) = latest'[p]
  BY <1>2, <1>6
<1> QED BY <1>2, <1>7, <1>8, <1>9, TextStays

LEMMA TextOpen ==
    ASSUME TabsInv, NEW f \in File, Open(f), NEW p \in File, p \notin strayText', TextAt(p)
    PROVE  TextAt(p)'
<1>1. UNCHANGED <<tabs, active, view, saver, opener>>
  BY DEF Open
<1>2. CASE \E i \in DOMAIN tabs : /\ QueueUrgent(Show(tabs, i))
                                  /\ Strays(BroughtBack(tabs), BroughtBack(tabs))
                                  /\ UNCHANGED <<object, workerVars, countVars>>
  <2>1. /\ next'.tabs = tabs /\ rendering' = "now" /\ p \notin BroughtBack(tabs)
        /\ UNCHANGED <<object, inbox, callbacks, latest>>
    BY <1>2 DEF QueueUrgent, Show, Strays, workerVars, countVars
  <2>2. tabs \in Seq(Obj)
    BY DEF TabsInv
  <2>3. \A i \in 1 .. Len(tabs) : object[tabs[i]].path = p => Content(tabs[i]) = latest[p]
    BY <2>1, <2>2, ListText
  <2>4. OneOf(object', next'.tabs, p)
    BY <2>1 DEF TextAt
  <2>5. \A i \in 1 .. Len(next'.tabs) : object'[next'.tabs[i]].path = p =>
          (IF next'.tabs[i] = Active THEN view' ELSE object'[next'.tabs[i]].text) = latest'[p]
    BY <1>1, <2>1, <2>3 DEF Content
  <2>6. Awaited' = Awaited
    BY <2>1 DEF Awaited
  <2> QED BY <1>1, <2>1, <2>4, <2>5, <2>6, TextStays
<1>3. CASE /\ Request([op |-> "open", path |-> f, tabs |-> tabs, active |-> opener])
           /\ UNCHANGED <<object, next, rendering, latest>>
  <2>1. PICK r : r = [op |-> "open", path |-> f, tabs |-> tabs, active |-> opener]
    OBVIOUS
  <2>2. r \in Sent
    BY <2>1 DEF Sent, ToOpen, TabsInv
  <2>3. Awaited' = Awaited \cup {r}
    BY <1>3, <2>1, <2>2, AwaitedAsks DEF Request
  <2>4. r.tabs = tabs
    BY <2>1
  <2> QED BY <1>1, <1>3, <2>3, <2>4, TextSame
<1>4. \/ \E i \in DOMAIN tabs : /\ QueueUrgent(Show(tabs, i))
                                /\ Strays(BroughtBack(tabs), BroughtBack(tabs))
                                /\ UNCHANGED <<object, workerVars, countVars>>
      \/ /\ Request([op |-> "open", path |-> f, tabs |-> tabs, active |-> opener])
         /\ UNCHANGED <<object, next, rendering, latest>>
  BY DEF Open
<1> QED BY <1>2, <1>3, <1>4

LEMMA TextRender == ASSUME TabsInv, Render, NEW p \in File, TextAt(p) PROVE TextAt(p)'
<1>1. /\ tabs' = next.tabs /\ active' = next.active /\ rendering' = "none"
      /\ next' = [next EXCEPT !.listed = FALSE] /\ UNCHANGED <<inbox, callbacks, latest>>
  BY DEF Render, workerVars, countVars
<1>2. next \in Nexts /\ object \in [Obj -> ATab] /\ view \in AText /\ p # DataFile
      /\ next.tabs \in Seq(Obj)
  BY EditorAssumption DEF TabsInv, Nexts
<1>3. next'.tabs = next.tabs
  BY <1>1, <1>2 DEF Nexts
<1>4. PICK changed \in BOOLEAN : changed <=> next.listed \/ Active' # Active
  <2>1. (next.listed \/ Active' # Active) \in BOOLEAN
    BY <1>2 DEF Nexts
  <2> QED BY <2>1
<1>5. PICK f : /\ f = IF changed THEN Synced(object, Active) ELSE object
               /\ view' = IF changed /\ Active' # 0 /\ object[Active'].path # DataFile
                          THEN f[Active'].text ELSE view
               /\ object' = [o \in DOMAIN object |->
                              IF o \in ToSet(next.tabs) \cup {saver'.object, opener'} \cup Held
                              THEN f[o] ELSE Nothing]
  <2>1. PICK c : c = (next.listed \/ Active' # Active)
    OBVIOUS
  <2>2. PICK f : f = IF c THEN Synced(object, Active) ELSE object
    OBVIOUS
  <2>3. /\ view' = IF c /\ Active' # 0 /\ object[Active'].path # DataFile THEN f[Active'].text ELSE view
        /\ object' = [o \in DOMAIN object |->
                        IF o \in ToSet(next.tabs) \cup {saver'.object, opener'} \cup Held
                        THEN f[o] ELSE Nothing]
    BY <2>1, <2>2, Zenon DEF Render
  <2>4. c <=> changed
    BY <1>4, <2>1
  <2> QED BY <2>2, <2>3, <2>4
<1>6. Active \in 0 .. MaxObjects
  BY FreeObjects
<1>7. \A x \in Obj : /\ f[x].path = object[x].path
                     /\ f[x].text = IF changed /\ x = Active /\ object[x].path # DataFile
                                    THEN view ELSE object[x].text
  <2>1. CASE changed
    BY <1>2, <1>5, <1>6, <2>1, SyncedTabs
  <2>2. CASE ~ changed
    BY <1>5, <2>2
  <2> QED BY <2>1, <2>2
<1>8. \A x \in Obj : x \in ToSet(next.tabs) \cup Held => object'[x] = f[x]
  BY <1>2, <1>5
<1>9. \A i \in 1 .. Len(next.tabs) : next.tabs[i] \in Obj /\ next.tabs[i] # 0 /\ object'[next.tabs[i]] = f[next.tabs[i]]
  <2>1. \A i \in 1 .. Len(next.tabs) : next.tabs[i] \in Obj /\ next.tabs[i] \in ToSet(next.tabs)
    BY <1>2 DEF ToSet
  <2> QED BY <1>8, <2>1 DEF Obj
<1>10. OneOf(object', next.tabs, p)
  <2>1. \A i \in 1 .. Len(next.tabs) : object'[next.tabs[i]].path = object[next.tabs[i]].path
    BY <1>7, <1>9
  <2> QED BY <2>1, SamePaths DEF TextAt
<1>11. ASSUME NEW r \in Awaited, r.op = "open" PROVE OneOf(object', r.tabs, p)
  <2>1. \A i \in 1 .. Len(r.tabs) : object'[r.tabs[i]].path = object[r.tabs[i]].path
    BY <1>7, <1>8, <1>11, AwaitedOpen
  <2> QED BY <1>11, <2>1, SamePaths DEF TextAt
<1>12. ASSUME NEW i \in 1 .. Len(next.tabs), object'[next.tabs[i]].path = p
       PROVE  (IF next.tabs[i] = Active' THEN view' ELSE object'[next.tabs[i]].text) = latest[p]
  <2>1. PICK o : o = next.tabs[i] /\ o \in Obj /\ o # 0 /\ object'[o] = f[o]
    BY <1>9
  <2>2. object[o].path = p
    BY <1>7, <1>12, <2>1
  <2>3. (IF o = Active THEN view ELSE object[o].text) = latest[p]
    BY <2>1, <2>2 DEF TextAt, Content
  <2>4. CASE changed
    <3>1. f[o].text = latest[p]
      BY <1>2, <1>7, <2>1, <2>2, <2>3, <2>4
    <3>2. o = Active' => view' = f[o].text
      BY <1>2, <1>5, <2>1, <2>2, <2>4
    <3> QED BY <2>1, <3>1, <3>2
  <2>5. CASE ~ changed
    <3>1. Active' = Active
      BY <1>4, <2>5
    <3>2. view' = view /\ f[o].text = object[o].text
      BY <1>5, <1>7, <2>1, <2>5
    <3> QED BY <2>1, <2>3, <3>1, <3>2
  <2> QED BY <2>4, <2>5
<1>13. Active' # 0 => \E i \in 1 .. Len(next.tabs) : Active' = next.tabs[i]
  BY <1>1, <1>2 DEF Active
<1>14. Awaited' = Awaited
  BY <1>1 DEF Awaited
<1>15. Shows(p)' => view' = latest'[p]
  <2> SUFFICES ASSUME Active' # 0, object'[Active'].path = p PROVE view' = latest'[p]
    BY DEF Shows
  <2> QED BY <1>1, <1>12, <1>13
<1>16. \A i \in 1 .. Len(next.tabs) : object'[next.tabs[i]].path = p => Content(next.tabs[i])' = latest'[p]
  BY <1>1, <1>3, <1>12 DEF Content
<1> QED BY <1>1, <1>3, <1>10, <1>11, <1>14, <1>15, <1>16 DEF TextAt

(* Marks on a tab leave every tab the file it has. *)
LEMMA MarksPaths ==
    ASSUME TabsInv, NEW index \in Nat, NEW d \in BOOLEAN, NEW t \in AText, Marks(index, d, t),
           NEW i \in 1 .. Len(next'.tabs)
    PROVE  /\ i \in 1 .. Len(next.tabs) /\ next.tabs[i] \in Obj
           /\ object'[next'.tabs[i]].path = object[next.tabs[i]].path
           /\ i # index \/ ~ IsText(next.tabs[i]) =>
                /\ next'.tabs[i] = next.tabs[i] /\ object'[next.tabs[i]] = object[next.tabs[i]]
           /\ i = index /\ IsText(next.tabs[i]) =>
                /\ next'.tabs[i] \in Free
                /\ object'[next'.tabs[i]] = Tab(object[next.tabs[i]].path, t, d)
<1>1. i \in 1 .. Len(next.tabs)
  BY MarksTab
<1>2. next.tabs[i] \in Obj /\ next.tabs[i] \notin Free
  BY <1>1, FreeObjects
<1>3. i # index \/ ~ IsText(next.tabs[i]) =>
        next'.tabs[i] = next.tabs[i] /\ object'[next.tabs[i]] = object[next.tabs[i]]
  BY <1>1, <1>2, MarksTab
<1>4. i = index /\ IsText(next.tabs[i]) =>
        next'.tabs[i] \in Free /\ object'[next'.tabs[i]] = Tab(object[next.tabs[i]].path, t, d)
  BY <1>1, MarksTab
<1>5. object'[next'.tabs[i]].path = object[next.tabs[i]].path
  BY <1>3, <1>4 DEF Tab
<1> QED BY <1>1, <1>2, <1>3, <1>4, <1>5

LEMMA MarksOne ==
    ASSUME TabsInv, NEW index \in Nat, NEW d \in BOOLEAN, NEW t \in AText, Marks(index, d, t),
           NEW p, OneOf(object, next.tabs, p)
    PROVE  /\ OneOf(object', next'.tabs, p)
           /\ \A x \in Obj : x \notin Free => object'[x].path = object[x].path
<1>1. \A i \in 1 .. Len(next'.tabs) :
        i \in 1 .. Len(next.tabs) /\ object'[next'.tabs[i]].path = object[next.tabs[i]].path
  BY MarksPaths
<1>2. \A x \in Obj : x \notin Free => object'[x].path = object[x].path
  BY MarksTab
<1> QED BY <1>1, <1>2 DEF OneOf

LEMMA DuePath ==
    ASSUME TabsInv, NEW i \in 1 .. Len(next.tabs), IsText(next.tabs[i])
    PROVE  Due(i) = {object[next.tabs[i]].path}
<1>1. i \in DOMAIN next.tabs
  BY DEF TabsInv
<1> QED BY <1>1 DEF Due, PathsOf

LEMMA TextEdit ==
    ASSUME TabsInv, Edit, NEW p \in File, p \notin strayText', TextAt(p) PROVE TextAt(p)'
<1>1. PICK t : t = Text(view.of, edits + 1) /\ view' = t /\ Marks(active, TRUE, t)
  BY DEF Edit
<1>2. PICK q : q = object[Active].path
  OBVIOUS
<1>3. /\ IsText(Active) /\ edits < MaxEdits /\ rendering' = "now"
      /\ latest' = [latest EXCEPT ![q] = t]
      /\ UNCHANGED <<tabs, active, inbox, callbacks>>
  BY <1>1, <1>2 DEF Edit, workerVars
<1>4. t \in AText /\ active \in Nat /\ TRUE \in BOOLEAN /\ latest \in [File -> AText]
  <2>1. view \in AText /\ edits \in 0 .. MaxEdits
    BY DEF TabsInv
  <2>2. edits + 1 \in 0 .. MaxEdits /\ view.of \in File
    BY <1>3, <2>1, Words, EditorAssumption
  <2> QED BY <1>1, <2>2, Words DEF TabsInv
<1>5. Due(active) = {q} \/ (p # q /\ p \notin Due(active))
  BY <1>2 DEF Edit, Strays
<1>6. Active \in Obj /\ Active \notin Free /\ q \in File /\ p # DataFile
  BY <1>2, <1>3, ActiveText, FreeObjects, EditorAssumption
<1>7. ASSUME NEW i \in 1 .. Len(next'.tabs), object'[next'.tabs[i]].path = p
      PROVE  (IF next'.tabs[i] = Active THEN view' ELSE object'[next'.tabs[i]].text) = latest'[p]
  <2>1. i \in 1 .. Len(next.tabs) /\ next.tabs[i] \in Obj /\ object[next.tabs[i]].path = p
    BY <1>1, <1>4, <1>7, MarksPaths
  <2>2. IsText(next.tabs[i])
    BY <1>6, <2>1 DEF IsText, Obj
  <2>3. CASE p = q
    <3>1. Due(active) = {p}
      BY <1>5, <2>3
    <3>2. active \in DOMAIN next.tabs /\ object[next.tabs[active]].path = p
      BY <3>1 DEF Due, PathsOf
    <3>3. active \in 1 .. Len(next.tabs)
      BY <3>2 DEF TabsInv
    <3>4. i = active
      BY <2>1, <3>2, <3>3 DEF TextAt, OneOf
    <3>5. next'.tabs[i] \in Free /\ object'[next'.tabs[i]] = Tab(p, t, TRUE)
      BY <1>1, <1>4, <2>1, <2>2, <3>4, MarksPaths
    <3>6. object'[next'.tabs[i]].text = t /\ next'.tabs[i] # Active
      BY <1>6, <3>5 DEF Tab
    <3> QED BY <1>3, <1>4, <2>3, <3>6
  <2>4. CASE p # q
    <3>1. i # active
      <4>1. Due(i) = {p}
        BY <2>1, <2>2, DuePath
      <4> QED BY <1>5, <2>4, <4>1
    <3>2. next'.tabs[i] = next.tabs[i] /\ object'[next.tabs[i]] = object[next.tabs[i]]
      BY <1>1, <1>4, <3>1, MarksPaths
    <3>3. next.tabs[i] # Active
      BY <1>2, <2>1, <2>4
    <3>4. object[next.tabs[i]].text = latest[p]
      BY <2>1, <3>3 DEF TextAt, Content
    <3>5. latest'[p] = latest[p]
      BY <1>3, <1>4, <2>4
    <3> QED BY <3>2, <3>3, <3>4, <3>5
  <2> QED BY <2>3, <2>4
<1>8. OneOf(object', next'.tabs, p) /\ \A x \in Obj : x \notin Free => object'[x].path = object[x].path
  BY <1>1, <1>4, MarksOne DEF TextAt
<1>9. Awaited' = Awaited
  BY <1>3 DEF Awaited
<1> QED BY <1>3, <1>7, <1>8, <1>9, TextStays

LEMMA TextSaved ==
    ASSUME TabsInv, Saved, NEW p \in File, p \notin strayText', TextAt(p) PROVE TextAt(p)'
<1>1. PICK index, d : index = Back.request.index /\ d = DirtyAfter(Back.failed)
  OBVIOUS
<1>2. /\ Returned("save") /\ Marks(index, d, view) /\ p \notin NotShown(Due(index))
      /\ UNCHANGED <<tabs, active, view, inbox, latest>> /\ rendering # "now"
  BY <1>1 DEF Saved, Strays, countVars, Returned
<1>3. index \in Nat /\ d \in BOOLEAN /\ view \in AText /\ p # DataFile
  BY <1>1, <1>2, Answered, SentKinds, EditorAssumption DEF DirtyAfter, TabsInv
<1>4. Shows(p) => view = latest[p]
  BY <1>2 DEF TextAt
<1>5. ASSUME NEW i \in 1 .. Len(next'.tabs), object'[next'.tabs[i]].path = p
      PROVE  (IF next'.tabs[i] = Active THEN view' ELSE object'[next'.tabs[i]].text) = latest'[p]
  <2>1. i \in 1 .. Len(next.tabs) /\ next.tabs[i] \in Obj /\ object[next.tabs[i]].path = p
    BY <1>2, <1>3, <1>5, MarksPaths
  <2>2. IsText(next.tabs[i])
    BY <1>3, <2>1 DEF IsText, Obj
  <2>3. CASE i = index
    <3>1. Due(index) = {p}
      BY <2>1, <2>2, <2>3, DuePath
    <3>2. Shows(p)
      BY <1>2, <3>1 DEF NotShown, Shows
    <3>3. next'.tabs[i] \in Free /\ object'[next'.tabs[i]] = Tab(p, view, d)
      BY <1>2, <1>3, <2>1, <2>2, <2>3, MarksPaths
    <3>4. next'.tabs[i] # Active /\ object'[next'.tabs[i]].text = view
      BY <3>3, FreeObjects DEF Tab
    <3> QED BY <1>2, <1>4, <3>2, <3>4
  <2>4. CASE i # index
    <3>1. next'.tabs[i] = next.tabs[i] /\ object'[next.tabs[i]] = object[next.tabs[i]]
      BY <1>2, <1>3, <2>4, MarksPaths
    <3> QED BY <1>2, <2>1, <3>1 DEF TextAt, Content
  <2> QED BY <2>3, <2>4
<1>6. OneOf(object', next'.tabs, p) /\ \A x \in Obj : x \notin Free => object'[x].path = object[x].path
  BY <1>2, <1>3, MarksOne DEF TextAt
<1>7. Awaited' \subseteq Awaited
  BY <1>2, AwaitedBack
<1> QED BY <1>2, <1>4, <1>5, <1>6, <1>7, TextStays

(* A tab is added to a list that puts none of the file back.               *)
LEMMA TextAdds ==
    ASSUME TabsInv, NEW p \in File, TextAt(p), rendering # "now",
           NEW list \in Seq(Obj), NEW tab \in ATab, NEW o \in 0 .. MaxObjects, AddTab(list, tab, o),
           p \notin BroughtBack(list), p \notin NotShown(PathsOf({o})), OneOf(object, list, p),
           UNCHANGED <<tabs, active, view>>, Awaited' \subseteq Awaited,
           tab.path = p => /\ \A i \in 1 .. Len(list) : object[list[i]].path # p
                           /\ tab.text = latest'[p] /\ ~ Shows(p),
           tab.path # p => latest'[p] = latest[p],
           \A i \in 1 .. Len(list) : list[i] \notin Free
    PROVE  TextAt(p)'
<1>1. PICK m : m = Len(list) + 1
  OBVIOUS
<1>2. /\ Len(next'.tabs) = m /\ m \in Nat /\ \A j \in 1 .. Len(list) : next'.tabs[j] = list[j]
      /\ next'.tabs[m] \in Free /\ object'[next'.tabs[m]] = tab
      /\ \A x \in Obj : x \notin Free =>
           /\ object'[x].path = object[x].path
           /\ object'[x].text = IF x = o /\ object[x].path # DataFile THEN view ELSE object[x].text
  BY <1>1, AddsTab
<1>3. \A i \in 1 .. m : i \in 1 .. Len(list) \/ i = m
  BY <1>1
<1>4. \A i \in 1 .. Len(list) :
        object'[next'.tabs[i]].path = object[list[i]].path /\ list[i] \in Obj
  BY <1>2
<1>5. OneOf(object', next'.tabs, p)
  <2> SUFFICES ASSUME NEW i \in 1 .. m, NEW j \in 1 .. m, object'[next'.tabs[i]].path = p,
                      object'[next'.tabs[j]].path = p
               PROVE  i = j
    BY <1>2 DEF OneOf
  <2>1. CASE tab.path = p
    BY <1>3, <1>4, <2>1
  <2>2. CASE tab.path # p
    BY <1>2, <1>3, <1>4, <2>2 DEF OneOf
  <2> QED BY <2>1, <2>2
<1>6. Shows(p) => view = latest[p]
  BY DEF TextAt
<1>7. ASSUME NEW i \in 1 .. m, object'[next'.tabs[i]].path = p
      PROVE  (IF next'.tabs[i] = Active THEN view' ELSE object'[next'.tabs[i]].text) = latest'[p]
  <2>1. CASE i = m
    <3>1. next'.tabs[i] # Active /\ object'[next'.tabs[i]] = tab
      BY <1>2, <2>1, FreeObjects
    <3> QED BY <1>7, <3>1
  <2>2. CASE i \in 1 .. Len(list)
    <3>1. PICK x : x = list[i] /\ x \in Obj /\ x = next'.tabs[i] /\ object[x].path = p /\ x # 0
      BY <1>2, <1>4, <1>7, <2>2 DEF Obj
    <3>2. tab.path # p /\ latest'[p] = latest[p]
      BY <2>2, <3>1
    <3>3. (IF x = Active THEN view ELSE object[x].text) = latest[p]
      <4>1. object[list[i]].path = p
        BY <3>1
      <4>2. Content(list[i]) = latest[p]
        BY <2>2, <4>1, ListText
      <4> QED BY <3>1, <4>2 DEF Content
    <3>4. object'[x].text = IF x = o /\ object[x].path # DataFile THEN view ELSE object[x].text
      BY <1>2, <2>2, <3>1
    <3>5. CASE x = o
      <4>1. p \in PathsOf({o})
        BY <3>1, <3>5, EditorAssumption DEF PathsOf, IsText
      <4>2. Shows(p)
        BY <4>1 DEF NotShown, Shows
      <4> QED BY <1>6, <3>1, <3>2, <3>3, <3>4, <4>2
    <3>6. CASE x # o
      BY <3>1, <3>2, <3>3, <3>4, <3>6
    <3> QED BY <3>5, <3>6
  <2> QED BY <1>3, <2>1, <2>2
<1>8. Shows(p) => view' = latest'[p]
  BY <1>6
<1>9. \A x \in Obj : x \notin Free => object'[x].path = object[x].path
  BY <1>2
<1> QED BY <1>2, <1>5, <1>7, <1>8, <1>9, TextStays

LEMMA TextOpened ==
    ASSUME TabsInv, Opened, NEW p \in File, p \notin strayText', TextAt(p) PROVE TextAt(p)'
<1>1. PICK r, b : r = Back.request /\ b = Tab(r.path, Back.text, FALSE)
  OBVIOUS
<1>2. /\ Returned("open") /\ AddTab(r.tabs, b, r.active) /\ latest' = [latest EXCEPT ![r.path] = Back.text]
      /\ p \notin BroughtBack(r.tabs) /\ p \notin NotShown(PathsOf({r.active}))
      /\ (p = r.path => p \notin PathsOf(ToSet(tabs) \cup ToSet(next.tabs)))
      /\ UNCHANGED <<tabs, active, view, inbox>> /\ rendering # "now"
  BY <1>1 DEF Opened, Strays, Returned
<1>3. r \in Awaited /\ r.op = "open" /\ Awaited' \subseteq Awaited /\ Back.text \in AText
  BY <1>1, <1>2, Answered, AwaitedBack
<1>4. /\ r.path \in File /\ r.tabs \in Seq(Obj) /\ r.active \in 0 .. MaxObjects
      /\ \A i \in 1 .. Len(r.tabs) : r.tabs[i] \in Obj /\ r.tabs[i] \notin Free
  BY <1>3, AwaitedOpen
<1>5. b \in ATab /\ b.path = r.path /\ b.text = Back.text
  <2>1. r.path \in File \cup {DataFile} /\ FALSE \in BOOLEAN
    BY <1>4
  <2>2. PICK q, t : q = r.path /\ t = Back.text
    OBVIOUS
  <2>3. q \in File \cup {DataFile} /\ t \in AText
    BY <1>3, <2>1, <2>2
  <2>4. Tab(q, t, FALSE) \in ATab /\ Tab(q, t, FALSE).path = q /\ Tab(q, t, FALSE).text = t
    BY <2>1, <2>3, TabParts
  <2> QED BY <1>1, <2>2, <2>4
<1>6. OneOf(object, r.tabs, p) /\ latest \in [File -> AText] /\ p # DataFile
  BY <1>3, EditorAssumption DEF TextAt, TabsInv
<1>7. ASSUME NEW i \in 1 .. Len(r.tabs), object[r.tabs[i]].path = p PROVE p # r.path
  <2>1. PICK j \in 1 .. Len(next.tabs) : r.tabs[i] = next.tabs[j]
    BY <1>2, <1>4, <1>7, ListText
  <2>2. next.tabs \in Seq(Obj) /\ next.tabs[j] \in Obj /\ next.tabs[j] # 0
    <3>1. next.tabs \in Seq(Obj)
      BY DEF TabsInv
    <3>2. next.tabs[j] \in Obj
      BY <3>1
    <3> QED BY <3>1, <3>2 DEF Obj
  <2>3. next.tabs[j] \in ToSet(next.tabs)
    BY <2>2 DEF ToSet
  <2>4. p \in PathsOf(ToSet(tabs) \cup ToSet(next.tabs))
    BY <1>6, <1>7, <2>1, <2>2, <2>3 DEF PathsOf, IsText
  <2> QED BY <1>2, <2>4
<1>8. p = r.path => ~ Shows(p)
  <2> SUFFICES ASSUME p = r.path, Shows(p) PROVE FALSE
    OBVIOUS
  <2>1. Active \in ToSet(tabs)
    <3>1. tabs \in Seq(Obj)
      BY DEF TabsInv
    <3> QED BY <3>1 DEF Shows, Active, ToSet
  <2>2. p \in PathsOf(ToSet(tabs) \cup ToSet(next.tabs))
    BY <1>6, <2>1 DEF PathsOf, IsText, Shows
  <2> QED BY <1>2, <2>2
<1>9. b.path # p => latest'[p] = latest[p]
  BY <1>2, <1>5, <1>6
<1>10. b.path = p => b.text = latest'[p]
  BY <1>2, <1>5, <1>6
<1>11. b.path = p => \A i \in 1 .. Len(r.tabs) : object[r.tabs[i]].path # p
  BY <1>5, <1>7
<1> QED BY <1>2, <1>3, <1>4, <1>5, <1>6, <1>8, <1>9, <1>10, <1>11, TextAdds

LEMMA TextData ==
    ASSUME TabsInv, ShowData, NEW p \in File, p \notin strayText', TextAt(p) PROVE TextAt(p)'
<1>1. PICK b : b = Tab(DataFile, view, FALSE)
  OBVIOUS
<1>2. /\ rendering # "now" /\ UNCHANGED <<tabs, active, view, inbox, callbacks, latest>>
      /\ p # DataFile /\ view \in AText
  BY EditorAssumption DEF ShowData, UserActs, workerVars, TabsInv
<1>3. Awaited' = Awaited
  BY <1>2 DEF Awaited
<1>4. CASE \E i \in DOMAIN tabs : Queue([next EXCEPT !.active = i]) /\ object' = object
  <2>1. next'.tabs = next.tabs /\ object' = object
    BY <1>4 DEF Queue, TabsInv
  <2>2. OneOf(object', next'.tabs, p)
    BY <2>1 DEF TextAt
  <2>3. \A i \in 1 .. Len(next'.tabs) : object'[next'.tabs[i]].path = p =>
          (IF next'.tabs[i] = Active THEN view' ELSE object'[next'.tabs[i]].text) = latest'[p]
    BY <1>2, <2>1 DEF TextAt, Content
  <2>4. Shows(p) => view' = latest'[p]
    BY <1>2 DEF TextAt
  <2> QED BY <1>2, <1>3, <2>1, <2>2, <2>3, <2>4, TextStays
<1>5. CASE AddTab(tabs, b, opener) /\ p \notin BroughtBack(tabs) /\ p \notin NotShown(PathsOf({opener}))
  <2>1. b \in ATab /\ b.path = DataFile
    BY <1>1, <1>2, TabParts
  <2>2. tabs \in Seq(Obj) /\ opener \in 0 .. MaxObjects /\ OneOf(object, tabs, p)
        /\ \A i \in 1 .. Len(tabs) : tabs[i] \notin Free
    BY FreeObjects DEF TabsInv, TextAt
  <2>3. b.path # p
    BY <1>2, <2>1
  <2> QED BY <1>2, <1>3, <1>5, <2>1, <2>2, <2>3, TextAdds
<1>6. \/ \E i \in DOMAIN tabs : Queue([next EXCEPT !.active = i]) /\ object' = object
      \/ AddTab(tabs, b, opener) /\ p \notin BroughtBack(tabs) /\ p \notin NotShown(PathsOf({opener}))
  BY <1>1 DEF ShowData, Strays
<1> QED BY <1>4, <1>5, <1>6

LEMMA TextInit == ASSUME EditorInit, NEW p \in File PROVE TextAt(p)
<1>1. /\ tabs = [i \in DOMAIN FirstTabs |-> i] /\ next.tabs = tabs /\ view = FirstText
      /\ Active = 1 /\ rendering = "none" /\ inbox = <<>> /\ callbacks = <<>>
  <2>1. 1 \in DOMAIN FirstTabs
    BY EditorAssumption
  <2> QED BY <2>1 DEF EditorInit, Active
<1>2. /\ DOMAIN FirstTabs = 1 .. Len(FirstTabs) /\ Len(FirstTabs) <= MaxObjects
      /\ \A i, j \in DOMAIN FirstTabs : FirstTabs[i] = FirstTabs[j] => i = j
      /\ Len(FirstTabs) \in Nat /\ MaxObjects \in Nat /\ 1 \in DOMAIN FirstTabs
  BY EditorAssumption
<1>3. \A i \in 1 .. Len(FirstTabs) :
        i \in 1 .. MaxObjects /\ tabs[i] = i
        /\ object[i] = Tab(FirstTabs[i], Text(FirstTabs[i], 0), TRUE)
  <2> TAKE i \in 1 .. Len(FirstTabs)
  <2>1. i \in 1 .. MaxObjects /\ i \in DOMAIN FirstTabs
    BY <1>2
  <2>2. object[i] = IF i \in DOMAIN FirstTabs THEN Tab(FirstTabs[i], Text(FirstTabs[i], 0), TRUE)
                    ELSE Nothing
    BY <2>1 DEF EditorInit
  <2> QED BY <1>1, <2>1, <2>2
<1>4. Len(tabs) = Len(FirstTabs)
  BY <1>1, <1>2
<1>5. \A i \in 1 .. Len(tabs) : object[tabs[i]].path = FirstTabs[i] /\ object[tabs[i]].text = Text(FirstTabs[i], 0)
  <2> TAKE i \in 1 .. Len(tabs)
  <2>1. tabs[i] = i /\ object[i] = Tab(FirstTabs[i], Text(FirstTabs[i], 0), TRUE)
    BY <1>3, <1>4
  <2>2. object[i].path = FirstTabs[i] /\ object[i].text = Text(FirstTabs[i], 0)
    BY <2>1 DEF Tab
  <2> QED BY <2>1, <2>2
<1>6. OneOf(object, tabs, p)
  BY <1>2, <1>4, <1>5 DEF OneOf
<1>7. Awaited = {}
  BY <1>1 DEF Awaited, ToSet
<1>8. latest[p] = Text(p, 0)
  BY DEF EditorInit
<1>9. \A i \in 1 .. Len(tabs) : object[tabs[i]].path = p => Content(tabs[i]) = latest[p]
  <2> SUFFICES ASSUME NEW i \in 1 .. Len(tabs), object[tabs[i]].path = p PROVE Content(tabs[i]) = Text(p, 0)
    BY <1>8
  <2>1. p = FirstTabs[i] /\ object[tabs[i]].text = Text(p, 0) /\ tabs[i] = i
    BY <1>3, <1>4, <1>5
  <2>2. i = 1 => view = Text(p, 0)
    BY <1>1, <2>1 DEF FirstText
  <2> QED BY <1>1, <2>1, <2>2 DEF Content
<1>10. Shows(p) => view = latest[p]
  <2>1. 1 \in 1 .. Len(tabs) /\ tabs[1] = 1
    BY <1>2, <1>3, <1>4
  <2>2. object[1].path = FirstTabs[1]
    BY <1>5, <2>1
  <2> QED BY <1>1, <1>8, <2>2 DEF Shows, FirstText
<1> QED BY <1>1, <1>6, <1>7, <1>9, <1>10 DEF TextAt

(* What a step has put at risk stays so. *)
LEMMA StraysGrow ==
    ASSUME [EditorNext]_editorVars
    PROVE  strayText \subseteq strayText' /\ strayClean \subseteq strayClean'
<1>1. CASE \E i \in DOMAIN tabs : SwitchTab(i) \/ CloseTab(i)
  BY <1>1 DEF SwitchTab, CloseTab, Strays
<1>2. CASE \E f \in File : Open(f)
  <2>1. PICK f \in File : Open(f)
    BY <1>2
  <2>2. UNCHANGED <<strayText, strayClean>> \/ Strays(BroughtBack(tabs), BroughtBack(tabs))
    BY <2>1 DEF Open
  <2> QED BY <2>2 DEF Strays
<1>3. CASE \E b \in BOOLEAN : Serve(b) \/ Interrupt(b)
  BY <1>3 DEF Serve, Interrupt, strayVars
<1>4. CASE Edit
  BY <1>4 DEF Edit, Strays
<1>5. CASE Render \/ Save \/ Run \/ Scripted \/ Unheard \/ LeftReadTakes
  BY <1>5 DEF Render, Save, Run, Scripted, Unheard, LeftReadTakes, strayVars
<1>6. CASE Saved
  BY <1>6 DEF Saved, Strays
<1>7. CASE Opened
  BY <1>7 DEF Opened, Strays
<1>8. CASE ShowData
  BY <1>8 DEF ShowData, Strays
<1>9. CASE UNCHANGED editorVars
  BY <1>9 DEF editorVars, strayVars
<1> QED BY <1>1, <1>2, <1>3, <1>4, <1>5, <1>6, <1>7, <1>8, <1>9 DEF EditorNext

LEMMA TextStep ==
    ASSUME TabsInv, [EditorNext]_editorVars, NEW p \in File, p \notin strayText', TextAt(p)
    PROVE  TextAt(p)'
<1>1. CASE UNCHANGED editorVars
  <2>1. UNCHANGED <<object, tabs, active, view, next, rendering, latest, inbox, callbacks>>
    BY <1>1 DEF editorVars, tabVars, workerVars, countVars
  <2>2. Awaited' = Awaited
    BY <2>1 DEF Awaited
  <2> QED BY <2>1, <2>2, TextSame
<1>2. CASE \E i \in DOMAIN tabs : SwitchTab(i) \/ CloseTab(i)
  BY <1>2, TextSwitch, TextClose
<1>3. CASE \E f \in File : Open(f)
  BY <1>3, TextOpen
<1>4. CASE \E b \in BOOLEAN : Serve(b) \/ Interrupt(b)
  BY <1>4, TextServe, TextInterrupt
<1>5. CASE LeftReadTakes
  BY <1>5, TextInterrupt
<1>6. CASE Edit
  BY <1>6, TextEdit
<1>7. CASE Saved
  BY <1>7, TextSaved
<1>8. CASE Opened
  BY <1>8, TextOpened
<1>9. CASE ShowData
  BY <1>9, TextData
<1>10. CASE Render \/ Save \/ Run \/ Scripted \/ Unheard
  BY <1>10, TextRender, TextSave, TextRun, TextScripted, TextUnheard
<1> QED BY <1>1, <1>2, <1>3, <1>4, <1>5, <1>6, <1>7, <1>8, <1>9, <1>10 DEF EditorNext

(* When nothing awaits a rendering the list is the one of the tabs.        *)
LEMMA ShownText ==
    ASSUME TabsInv, TextInv, Rendered, NEW i \in TextTabs, PathOf(i) \notin strayText
    PROVE  /\ TextOf(i) = latest[PathOf(i)] /\ PathOf(i) \in File
           /\ i \in 1 .. Len(next.tabs) /\ next.tabs[i] = tabs[i]
<1>1. next.tabs = tabs /\ tabs \in Seq(Obj) /\ object \in [Obj -> ATab]
  BY DEF TabsInv
<1>2. i \in 1 .. Len(tabs) /\ tabs[i] \in Obj /\ object[tabs[i]].path # DataFile
  BY <1>1 DEF TextTabs, IsText
<1>3. PICK p : p = PathOf(i) /\ p = object[tabs[i]].path /\ p \in File
  <2>1. object[tabs[i]] \in ATab
    BY <1>1, <1>2
  <2> QED BY <1>2, <2>1, Words DEF PathOf
<1>4. TextAt(p)
  BY <1>3 DEF TextInv
<1>5. Content(tabs[i]) = latest[p]
  BY <1>1, <1>2, <1>3, <1>4 DEF TextAt
<1>6. TextOf(i) = Content(tabs[i])
  <2>1. CASE i = active
    BY <1>1, <1>2, <2>1 DEF TextOf, Content, Active
  <2>2. CASE i # active
    <3>1. tabs[i] # Active
      <4> SUFFICES ASSUME tabs[i] = Active PROVE FALSE
        OBVIOUS
      <4>1. active \in 1 .. Len(tabs) /\ tabs[active] = tabs[i]
        BY <1>1, <1>2 DEF Active, Obj
      <4> QED BY <1>2, <1>3, <1>4, <2>2, <4>1 DEF TextAt, OneOf
    <3> QED BY <2>2, <3>1 DEF TextOf, Content
  <2> QED BY <2>1, <2>2
<1> QED BY <1>1, <1>2, <1>3, <1>5, <1>6

LEMMA TextInvStep == ASSUME TabsInv, TextInv, [EditorNext]_editorVars PROVE TextInv'
<1> SUFFICES ASSUME NEW p \in File, p \notin strayText' PROVE TextAt(p)'
  BY DEF TextInv
<1>1. TextAt(p)
  BY StraysGrow DEF TextInv
<1> QED BY <1>1, TextStep

(* Every tab has the last text its user gave it or that was read for it,   *)
(* but for files whose own tab met a save that ended with another tab at   *)
(* the index it remembered, a view stored for a tab it no longer shows, an *)
(* old list of tabs put back, a second opening, or an edit while another   *)
(* tab was about to take its index.                                        *)
THEOREM TabsKeepTexts == EditorSpec => []TabKeepsText
<1>1. EditorInit => TextInv
  BY TextInit DEF TextInv
<1>2. TabsInv /\ TextInv /\ [EditorNext]_editorVars => TextInv'
  BY TextInvStep
<1>3. TabsInv /\ TextInv => TabKeepsText
  BY ShownText DEF TabKeepsText
<1> QED BY <1>1, <1>2, <1>3, TabsInit, TabsStep, PTL DEF EditorSpec

-----------------------------------------------------------------------------
(* The editor: tabs that are not marked have the texts of their files.     *)

SaveOf(r, p) == r.op = "save" /\ r.path = p

(* Texts of the file p that wait to be written are in the order of its     *)
(* edits, and after the text d it has.                                     *)
Pending(p, box, d, n) ==
    /\ \A k \in 1 .. Len(box) : SaveOf(box[k], p) =>
         box[k].text.of = p /\ box[k].text.edit <= n /\ d.edit <= box[k].text.edit
    /\ \A k, l \in 1 .. Len(box) : k < l /\ SaveOf(box[k], p) /\ SaveOf(box[l], p) =>
         box[k].text.edit <= box[l].text.edit

(* None is later than the text c; they and that of the file are c.         *)
Within(p, box, d, c) ==
    d.edit <= c.edit /\ \A k \in 1 .. Len(box) : SaveOf(box[k], p) => box[k].text.edit <= c.edit
AllWritten(p, box, d, c) ==
    c = d /\ \A k \in 1 .. Len(box) : SaveOf(box[k], p) => box[k].text = c

(* Saves that ended well have written a text, or a later one was.          *)
Ended(p, calls, d) ==
    \A k \in 1 .. Len(calls) : SaveOf(calls[k].request, p) /\ ~ calls[k].failed =>
      calls[k].request.text.of = p /\ calls[k].request.text.edit <= d.edit

Known(p) ==
    \/ \E i \in 1 .. Len(next.tabs) : object[next.tabs[i]].path = p
    \/ rendering # "now" /\ Shows(p)
CleanAt(p) ==
    /\ latest[p].of = p /\ disk[p].of = p /\ latest[p].edit <= edits /\ disk[p].edit <= edits
    /\ Pending(p, inbox, disk[p], edits) /\ Ended(p, callbacks, disk[p])
    /\ Known(p) => Within(p, inbox, disk[p], latest[p])
    /\ \A i \in 1 .. Len(next.tabs) :
         object[next.tabs[i]].path = p /\ ~ object[next.tabs[i]].dirty =>
         AllWritten(p, inbox, disk[p], latest[p])
CleanInv ==
    strayText \subseteq strayClean /\ \A p \in File : p \notin strayClean => CleanAt(p)

LEMMA Numbers ==
    ASSUME TabsInv
    PROVE  /\ edits \in Nat /\ \A t \in AText : t.edit \in Nat
           /\ \A p \in File : latest[p] \in AText /\ disk[p] \in AText
           /\ \A r \in Sent : r.op = "save" => r.text \in AText
<1>1. edits \in Nat /\ \A t \in AText : t.edit \in Nat
  BY EditorAssumption DEF TabsInv, AText
<1>2. \A p \in File : latest[p] \in AText /\ disk[p] \in AText
  BY DEF TabsInv
<1> QED BY <1>1, <1>2, SentKinds

LEMMA QueueAdds ==
    ASSUME NEW p, NEW box, NEW r, NEW later, Adds(box, later, r), ~ SaveOf(r, p), NEW d, NEW n, NEW c
    PROVE  /\ Pending(p, box, d, n) => Pending(p, later, d, n)
           /\ Within(p, box, d, c) => Within(p, later, d, c)
           /\ AllWritten(p, box, d, c) => AllWritten(p, later, d, c)
<1>1. \A k \in 1 .. Len(later) : SaveOf(later[k], p) => k \in 1 .. Len(box) /\ later[k] = box[k]
  BY DEF Adds
<1>2. Pending(p, box, d, n) => Pending(p, later, d, n)
  BY <1>1 DEF Pending
<1>3. Within(p, box, d, c) => Within(p, later, d, c)
  BY <1>1 DEF Within
<1>4. AllWritten(p, box, d, c) => AllWritten(p, later, d, c)
  BY <1>1 DEF AllWritten
<1> QED BY <1>2, <1>3, <1>4

LEMMA QueueSaves ==
    ASSUME NEW p, NEW box, NEW r, NEW later, Adds(box, later, r), NEW d, NEW n, NEW c,
           SaveOf(r, p), r.text = c, c.of = p, c.edit <= n, c.edit \in Nat,
           Pending(p, box, d, n), Within(p, box, d, c)
    PROVE  /\ Pending(p, later, d, n) /\ Within(p, later, d, c)
           /\ AllWritten(p, box, d, c) => AllWritten(p, later, d, c)
<1>1. \A k \in 1 .. Len(later) :
        (k \in 1 .. Len(box) /\ later[k] = box[k]) \/ (k = Len(box) + 1 /\ later[k] = r)
  BY DEF Adds
<1>2. Len(box) \in Nat
  BY DEF Adds
<1>3. ASSUME NEW k \in 1 .. Len(later), SaveOf(later[k], p)
      PROVE  later[k].text.of = p /\ later[k].text.edit <= n /\ d.edit <= later[k].text.edit
             /\ later[k].text.edit <= c.edit
  BY <1>1, <1>3 DEF Pending, Within
<1>4. ASSUME NEW k \in 1 .. Len(later), NEW l \in 1 .. Len(later), k < l,
             SaveOf(later[k], p), SaveOf(later[l], p)
      PROVE  later[k].text.edit <= later[l].text.edit
  <2>1. CASE l = Len(box) + 1
    <3>1. later[l] = r
      BY <1>1, <1>2, <2>1
    <3> QED BY <1>3, <1>4, <3>1
  <2>2. CASE l \in 1 .. Len(box)
    <3>1. k \in 1 .. Len(box) /\ later[k] = box[k] /\ later[l] = box[l]
      BY <1>1, <1>2, <1>4, <2>2
    <3> QED BY <1>4, <2>2, <3>1 DEF Pending
  <2> QED BY <1>1, <2>1, <2>2
<1>5. AllWritten(p, box, d, c) => AllWritten(p, later, d, c)
  BY <1>1 DEF AllWritten
<1>6. d.edit <= c.edit
  BY DEF Within
<1> QED BY <1>3, <1>4, <1>5, <1>6 DEF Pending, Within

LEMMA QueueDrops ==
    ASSUME NEW p, NEW box, NEW later, Drops(box, later), NEW d, NEW n, NEW c
    PROVE  /\ Pending(p, box, d, n) => Pending(p, later, d, n)
           /\ Within(p, box, d, c) => Within(p, later, d, c)
           /\ AllWritten(p, box, d, c) => AllWritten(p, later, d, c)
           /\ Pending(p, box, d, n) /\ SaveOf(box[1], p) => Pending(p, later, box[1].text, n)
           /\ Within(p, box, d, c) /\ SaveOf(box[1], p) => Within(p, later, box[1].text, c)
           /\ AllWritten(p, box, d, c) /\ SaveOf(box[1], p) => AllWritten(p, later, box[1].text, c)
<1>1. \A k \in 1 .. Len(later) :
        k + 1 \in 1 .. Len(box) /\ later[k] = box[k + 1] /\ 1 < k + 1
  <2> TAKE k \in 1 .. Len(later)
  <2>1. k + 1 \in 1 .. Len(box) /\ later[k] = box[k + 1]
    BY DEF Drops
  <2> QED BY <2>1
<1>2. 1 \in 1 .. Len(box)
  BY DEF Drops
<1>3. \A k, l \in 1 .. Len(later) : k < l => k + 1 < l + 1
  OBVIOUS
<1>4. Pending(p, box, d, n) => Pending(p, later, d, n)
  BY <1>1, <1>3 DEF Pending
<1>5. Within(p, box, d, c) => Within(p, later, d, c)
  BY <1>1 DEF Within
<1>6. AllWritten(p, box, d, c) => AllWritten(p, later, d, c)
  BY <1>1 DEF AllWritten
<1>7. Pending(p, box, d, n) /\ SaveOf(box[1], p) => Pending(p, later, box[1].text, n)
  BY <1>1, <1>2, <1>3 DEF Pending
<1>8. Within(p, box, d, c) /\ SaveOf(box[1], p) => Within(p, later, box[1].text, c)
  BY <1>1, <1>2 DEF Within
<1>9. AllWritten(p, box, d, c) /\ SaveOf(box[1], p) => AllWritten(p, later, box[1].text, c)
  BY <1>1, <1>2 DEF AllWritten
<1> QED BY <1>4, <1>5, <1>6, <1>7, <1>8, <1>9

LEMMA EndedQueue ==
    ASSUME NEW p, NEW calls, NEW later, NEW d, Ended(p, calls, d)
    PROVE  /\ Drops(calls, later) => Ended(p, later, d)
           /\ \A a : /\ Adds(calls, later, a)
                     /\ (SaveOf(a.request, p) /\ ~ a.failed =>
                           a.request.text.of = p /\ a.request.text.edit <= d.edit)
                     => Ended(p, later, d)
<1>1. ASSUME Drops(calls, later) PROVE Ended(p, later, d)
  BY <1>1 DEF Drops, Ended
<1>2. ASSUME NEW a, Adds(calls, later, a),
             SaveOf(a.request, p) /\ ~ a.failed =>
               a.request.text.of = p /\ a.request.text.edit <= d.edit
      PROVE  Ended(p, later, d)
  BY <1>2 DEF Adds, Ended
<1> QED BY <1>1, <1>2

(* The steps that write nothing and give no tab another text.              *)
LEMMA CleanStays ==
    ASSUME TabsInv, NEW p \in File, CleanAt(p), UNCHANGED <<inbox, disk, edits>>, latest'[p] = latest[p],
           callbacks' = callbacks \/ (callbacks # <<>> /\ callbacks' = Tail(callbacks)),
           Known(p)' => Known(p),
           \A i \in 1 .. Len(next'.tabs) :
             object'[next'.tabs[i]].path = p /\ ~ object'[next'.tabs[i]].dirty =>
             \E j \in 1 .. Len(next.tabs) :
               object[next.tabs[j]].path = p /\ ~ object[next.tabs[j]].dirty
    PROVE  CleanAt(p)'
<1>1. Ended(p, callbacks', disk[p])
  <2>1. CASE callbacks' = callbacks
    BY <2>1 DEF CleanAt
  <2>2. CASE callbacks # <<>> /\ callbacks' = Tail(callbacks)
    <3>1. Drops(callbacks, callbacks')
      BY <2>2, TailDrops DEF TabsInv
    <3> QED BY <3>1, EndedQueue DEF CleanAt
  <2> QED BY <2>1, <2>2
<1>2. Known(p)' => Within(p, inbox, disk[p], latest[p])
  BY DEF CleanAt
<1>3. \A i \in 1 .. Len(next'.tabs) :
        object'[next'.tabs[i]].path = p /\ ~ object'[next'.tabs[i]].dirty =>
        AllWritten(p, inbox, disk[p], latest[p])
  BY DEF CleanAt
<1> QED BY <1>1, <1>2, <1>3 DEF CleanAt

LEMMA ShowsSame ==
    ASSUME TabsInv, NEW p, UNCHANGED <<tabs, active>>,
           \A x \in Obj : x \notin Free => object'[x].path = object[x].path
    PROVE  Shows(p)' <=> Shows(p)
<1>1. Active' = Active
  BY DEF Active
<1>2. Active # 0 => Active \in Obj /\ Active \notin Free
  BY FreeObjects DEF Obj
<1> QED BY <1>1, <1>2 DEF Shows

LEMMA TabsSame ==
    ASSUME TabsInv, NEW p, UNCHANGED <<tabs, active, next, rendering>>,
           \A x \in Obj : object'[x].path = object[x].path /\ object'[x].dirty = object[x].dirty
    PROVE  /\ Known(p)' <=> Known(p)
           /\ \A i \in 1 .. Len(next.tabs) :
                /\ object'[next.tabs[i]].path = object[next.tabs[i]].path
                /\ object'[next.tabs[i]].dirty = object[next.tabs[i]].dirty
<1>1. \A i \in 1 .. Len(next.tabs) : next.tabs[i] \in Obj
  BY FreeObjects
<1>2. Shows(p)' <=> Shows(p)
  BY ShowsSame
<1> QED BY <1>1, <1>2 DEF Known

LEMMA CleanAsks ==
    ASSUME TabsInv, NEW p \in File, CleanAt(p), NEW r \in Sent, inbox' = Append(inbox, r),
           UNCHANGED <<tabs, active, next, rendering, disk, edits, latest>>,
           callbacks' = callbacks \/ (callbacks # <<>> /\ callbacks' = Tail(callbacks)),
           \A x \in Obj : object'[x].path = object[x].path /\ object'[x].dirty = object[x].dirty,
           SaveOf(r, p) => r.text = latest[p] /\ Known(p)
    PROVE  CleanAt(p)'
<1>1. Adds(inbox, inbox', r)
  BY AppendAdds DEF TabsInv
<1>2. /\ Known(p)' <=> Known(p)
      /\ \A i \in 1 .. Len(next.tabs) :
           /\ object'[next.tabs[i]].path = object[next.tabs[i]].path
           /\ object'[next.tabs[i]].dirty = object[next.tabs[i]].dirty
  BY TabsSame
<1>3. PICK d, c, n : d = disk[p] /\ c = latest[p] /\ n = edits
  OBVIOUS
<1>4. c.of = p /\ c.edit <= n /\ c.edit \in Nat
  BY <1>3, Numbers DEF CleanAt
<1>5. Pending(p, inbox, d, n) /\ (Known(p) => Within(p, inbox, d, c))
  BY <1>3 DEF CleanAt
<1>6. /\ Pending(p, inbox', d, n) /\ (Known(p) => Within(p, inbox', d, c))
      /\ AllWritten(p, inbox, d, c) => AllWritten(p, inbox', d, c)
  <2>1. CASE SaveOf(r, p)
    <3>1. r.text = c /\ Known(p) /\ Within(p, inbox, d, c)
      BY <1>3, <1>5, <2>1
    <3>2. /\ Pending(p, inbox', d, n) /\ Within(p, inbox', d, c)
          /\ AllWritten(p, inbox, d, c) => AllWritten(p, inbox', d, c)
      BY <1>1, <1>4, <1>5, <2>1, <3>1, QueueSaves
    <3> QED BY <3>2
  <2>2. CASE ~ SaveOf(r, p)
    BY <1>1, <1>5, <2>2, QueueAdds
  <2> QED BY <2>1, <2>2
<1>7. Ended(p, callbacks', disk[p])
  <2>1. CASE callbacks' = callbacks
    BY <2>1 DEF CleanAt
  <2>2. CASE callbacks # <<>> /\ callbacks' = Tail(callbacks)
    <3>1. Drops(callbacks, callbacks')
      BY <2>2, TailDrops DEF TabsInv
    <3> QED BY <3>1, EndedQueue DEF CleanAt
  <2> QED BY <2>1, <2>2
<1>8. \A i \in 1 .. Len(next'.tabs) :
        object'[next'.tabs[i]].path = p /\ ~ object'[next'.tabs[i]].dirty =>
        AllWritten(p, inbox', disk'[p], latest'[p])
  BY <1>2, <1>3, <1>6 DEF CleanAt
<1> QED BY <1>2, <1>3, <1>6, <1>7, <1>8 DEF CleanAt

LEMMA CleanSave == ASSUME TabsInv, Save, NEW p \in File, TextAt(p), CleanAt(p) PROVE CleanAt(p)'
<1>1. PICK r : r = [op |-> "save", path |-> object[saver.object].path, text |-> view,
                    index |-> saver.index]
  OBVIOUS
<1>2. /\ Request(r) /\ object' = Synced(object, Active) /\ IsText(Active) /\ saver.object = Active
      /\ UNCHANGED <<tabs, active, view, next, rendering, saver, opener, latest>> /\ rendering # "now"
  BY <1>1 DEF Save, TabsInv, UserActs
<1>3. r \in Sent
  BY <1>1, <1>2, ActiveText DEF Sent, ToSave, TabsInv
<1>4. \A x \in Obj : object'[x].path = object[x].path /\ object'[x].dirty = object[x].dirty
  <2>1. object \in [Obj -> ATab] /\ Active \in 0 .. MaxObjects /\ view \in AText
    BY FreeObjects DEF TabsInv
  <2> QED BY <1>2, <2>1, SyncedTabs
<1>5. SaveOf(r, p) => r.text = latest[p] /\ Known(p)
  <2> SUFFICES ASSUME SaveOf(r, p) PROVE r.text = latest[p] /\ Known(p)
    OBVIOUS
  <2>1. Shows(p)
    BY <1>1, <1>2 DEF SaveOf, Shows, IsText
  <2> QED BY <1>1, <1>2, <2>1 DEF TextAt, Known
<1>6. inbox' = Append(inbox, r) /\ UNCHANGED <<callbacks, disk, edits>>
  BY <1>2 DEF Request
<1> QED BY <1>2, <1>3, <1>4, <1>5, <1>6, CleanAsks

LEMMA CleanRun == ASSUME TabsInv, Run, NEW p \in File, CleanAt(p) PROVE CleanAt(p)'
<1>1. PICK r : r = [op |-> "script", run |-> ran + 1, text |-> view]
  OBVIOUS
<1>2. /\ Request(r) /\ object' = Synced(object, Active)
      /\ UNCHANGED <<tabs, active, view, next, rendering, saver, opener, latest>>
  BY <1>1 DEF Run
<1>3. r \in Sent
  BY <1>1 DEF Sent, ToScript, TabsInv
<1>4. \A x \in Obj : object'[x].path = object[x].path /\ object'[x].dirty = object[x].dirty
  <2>1. object \in [Obj -> ATab] /\ Active \in 0 .. MaxObjects /\ view \in AText
    BY FreeObjects DEF TabsInv
  <2> QED BY <1>2, <2>1, SyncedTabs
<1>5. ~ SaveOf(r, p)
  BY <1>1 DEF SaveOf
<1>6. inbox' = Append(inbox, r) /\ UNCHANGED <<callbacks, disk, edits>>
  BY <1>2 DEF Request
<1> QED BY <1>2, <1>3, <1>4, <1>5, <1>6, CleanAsks

LEMMA CleanScripted == ASSUME TabsInv, Scripted, NEW p \in File, CleanAt(p) PROVE CleanAt(p)'
<1>1. PICK r : r = [op |-> "source", run |-> Back.request.run]
  OBVIOUS
<1>2. /\ Returned("script") /\ inbox' = inbox \o <<r>>
      /\ UNCHANGED <<object, tabs, active, next, rendering, disk, edits, latest>>
  BY <1>1 DEF Scripted, Returned, LineFor, tabVars, countVars
<1>3. inbox \in Seq(Sent) /\ r \in Sent
  <2>1. Back.request.run \in Nat
    BY <1>2, Answered, SentKinds
  <2> QED BY <1>1, <2>1 DEF Sent, ToSource, TabsInv
<1>4. inbox' = Append(inbox, r)
  BY <1>2, <1>3
<1>5. ~ SaveOf(r, p)
  BY <1>1 DEF SaveOf
<1>6. callbacks # <<>> /\ callbacks' = Tail(callbacks)
  BY <1>2, Answered
<1> QED BY <1>2, <1>3, <1>4, <1>5, <1>6, CleanAsks

(* Saves are written in turn, or fail. *)
LEMMA CleanServe ==
    ASSUME TabsInv, NEW fails \in BOOLEAN, Serve(fails), NEW p \in File, CleanAt(p) PROVE CleanAt(p)'
<1>1. PICK r \in Sent, a \in Reply :
             /\ inbox # <<>> /\ r = inbox[1] /\ inbox' = Tail(inbox)
             /\ a.request = r /\ a.failed = fails
             /\ disk' = IF r.op = "save" /\ ~ fails THEN [disk EXCEPT ![r.path] = r.text] ELSE disk
             /\ callbacks' = IF r.op = "source" \/ (fails /\ r.op # "save") THEN callbacks
                             ELSE Append(callbacks, a)
             /\ UNCHANGED <<tabVars, ran, countVars, strayVars>>
  BY Served
<1>2. UNCHANGED <<object, tabs, active, next, rendering, edits, latest>>
  BY <1>1 DEF tabVars, countVars
<1>3. Drops(inbox, inbox')
  BY <1>1, TailDrops DEF TabsInv
<1>4. Adds(callbacks, Append(callbacks, a), a)
  BY AppendAdds DEF TabsInv
<1>5. Known(p)' <=> Known(p)
  BY <1>2, TabsSame
<1>6. PICK d, c, n : d = disk[p] /\ c = latest[p] /\ n = edits
  OBVIOUS
<1>7. /\ Pending(p, inbox, d, n) /\ Ended(p, callbacks, d) /\ (Known(p) => Within(p, inbox, d, c))
      /\ d.of = p /\ d.edit <= n
  BY <1>6 DEF CleanAt
<1>8. 1 \in 1 .. Len(inbox)
  BY <1>3 DEF Drops
<1>9. PICK e : e = disk'[p]
  OBVIOUS
<1>10. /\ Pending(p, inbox', e, n) /\ Ended(p, callbacks', e) /\ (Known(p) => Within(p, inbox', e, c))
       /\ e.of = p /\ e.edit <= n /\ (AllWritten(p, inbox, d, c) => AllWritten(p, inbox', e, c))
  <2>1. CASE SaveOf(r, p) /\ ~ fails
    <3>1. e = r.text
      BY <1>1, <1>9, <2>1 DEF SaveOf, TabsInv
    <3>2. e.of = p /\ e.edit <= n /\ d.edit <= e.edit
      BY <1>1, <1>7, <1>8, <2>1, <3>1 DEF Pending
    <3>3. d.edit \in Nat /\ e.edit \in Nat
      BY <1>1, <1>6, <2>1, <3>1, Numbers DEF SaveOf
    <3>4. Ended(p, callbacks, e)
      <4> SUFFICES ASSUME NEW k \in 1 .. Len(callbacks), SaveOf(callbacks[k].request, p), ~ callbacks[k].failed
                   PROVE  callbacks[k].request.text.of = p /\ callbacks[k].request.text.edit <= e.edit
        BY DEF Ended
      <4>1. callbacks[k].request.text.of = p /\ callbacks[k].request.text.edit <= d.edit
        BY <1>7 DEF Ended
      <4>2. callbacks[k].request.text.edit \in Nat
        <5>1. callbacks[k] \in Reply
          BY DEF TabsInv
        <5>2. callbacks[k].request \in Sent
          BY <5>1 DEF Reply
        <5> QED BY <5>2, Numbers DEF SaveOf
      <4> QED BY <3>2, <3>3, <4>1, <4>2
    <3>5. Ended(p, callbacks', e)
      <4>1. callbacks' = Append(callbacks, a)
        BY <1>1, <2>1 DEF SaveOf
      <4>2. a.request.text.of = p /\ a.request.text.edit <= e.edit
        BY <1>1, <3>1, <3>2, <3>3
      <4> QED BY <1>4, <3>4, <4>1, <4>2, EndedQueue
    <3>6. SaveOf(inbox[1], p) /\ inbox[1].text = e
      BY <1>1, <2>1, <3>1
    <3>7. /\ Pending(p, inbox', e, n) /\ (Within(p, inbox, d, c) => Within(p, inbox', e, c))
          /\ AllWritten(p, inbox, d, c) => AllWritten(p, inbox', e, c)
      BY <1>3, <1>7, <3>6, QueueDrops
    <3> QED BY <1>7, <3>2, <3>5, <3>7
  <2>2. CASE ~ (SaveOf(r, p) /\ ~ fails)
    <3>1. e = d
      BY <1>1, <1>6, <1>9, <2>2 DEF SaveOf, TabsInv
    <3>2. Ended(p, callbacks', d)
      <4>1. SaveOf(a.request, p) /\ ~ a.failed => FALSE
        BY <1>1, <2>2
      <4> QED BY <1>1, <1>4, <1>7, <4>1, EndedQueue
    <3>3. /\ Pending(p, inbox', d, n) /\ (Within(p, inbox, d, c) => Within(p, inbox', d, c))
          /\ AllWritten(p, inbox, d, c) => AllWritten(p, inbox', d, c)
      BY <1>3, <1>7, QueueDrops
    <3> QED BY <1>7, <3>1, <3>2, <3>3
  <2> QED BY <2>1, <2>2
<1>11. \A i \in 1 .. Len(next'.tabs) :
         object'[next'.tabs[i]].path = p /\ ~ object'[next'.tabs[i]].dirty => AllWritten(p, inbox', e, c)
  BY <1>2, <1>6, <1>10 DEF CleanAt
<1>12. c.of = p /\ c.edit <= n
  BY <1>6 DEF CleanAt
<1> QED BY <1>2, <1>5, <1>6, <1>9, <1>10, <1>11, <1>12 DEF CleanAt

LEMMA CleanInterrupt ==
    ASSUME TabsInv, (\E b \in BOOLEAN : Interrupt(b)) \/ LeftReadTakes, NEW p \in File, CleanAt(p)
    PROVE  CleanAt(p)'
<1>1. UNCHANGED <<object, tabs, active, next, rendering, disk, latest, edits, callbacks>>
      /\ (inbox' = <<>> \/ (inbox # <<>> /\ inbox' = Tail(inbox)))
  BY DEF Interrupt, LeftReadTakes, tabVars, countVars
<1>2. Known(p)' <=> Known(p)
  BY <1>1, TabsSame
<1>3. PICK d, c, n : d = disk[p] /\ c = latest[p] /\ n = edits
  OBVIOUS
<1>4. /\ Pending(p, inbox, d, n) => Pending(p, inbox', d, n)
      /\ Within(p, inbox, d, c) => Within(p, inbox', d, c)
      /\ AllWritten(p, inbox, d, c) => AllWritten(p, inbox', d, c)
  <2>1. CASE inbox' = <<>>
    <3>1. 1 .. Len(inbox') = {}
      BY <2>1
    <3> QED BY <3>1 DEF Pending, Within, AllWritten
  <2>2. CASE inbox # <<>> /\ inbox' = Tail(inbox)
    <3>1. Drops(inbox, inbox')
      BY <2>2, TailDrops DEF TabsInv
    <3> QED BY <3>1, QueueDrops
  <2> QED BY <1>1, <2>1, <2>2
<1>5. \A i \in 1 .. Len(next'.tabs) :
        object'[next'.tabs[i]].path = p /\ ~ object'[next'.tabs[i]].dirty => AllWritten(p, inbox', d, c)
  BY <1>1, <1>3, <1>4 DEF CleanAt
<1> QED BY <1>1, <1>2, <1>3, <1>4, <1>5 DEF CleanAt

LEMMA CleanUnheard == ASSUME TabsInv, Unheard, NEW p \in File, CleanAt(p) PROVE CleanAt(p)'
<1>1. UNCHANGED <<object, tabs, active, next, rendering, latest, inbox, disk, edits>>
      /\ \E op \in {"save", "open"} : Returned(op)
  BY DEF Unheard, Returned, tabVars, countVars
<1>2. callbacks # <<>> /\ callbacks' = Tail(callbacks)
  BY <1>1, Answered
<1>3. Known(p)' <=> Known(p)
  BY <1>1, TabsSame
<1> QED BY <1>1, <1>2, <1>3, CleanStays

LEMMA CleanRender == ASSUME TabsInv, Render, NEW p \in File, CleanAt(p) PROVE CleanAt(p)'
<1>1. /\ tabs' = next.tabs /\ active' = next.active /\ rendering' = "none"
      /\ next' = [next EXCEPT !.listed = FALSE]
      /\ UNCHANGED <<inbox, callbacks, disk, edits, latest>>
  BY DEF Render, workerVars, countVars
<1>2. next \in Nexts /\ object \in [Obj -> ATab] /\ view \in AText /\ next.tabs \in Seq(Obj)
      /\ Active \in 0 .. MaxObjects
  BY FreeObjects DEF TabsInv, Nexts
<1>3. next'.tabs = next.tabs
  BY <1>1, <1>2 DEF Nexts
<1>4. PICK f : /\ (f = Synced(object, Active) \/ f = object)
               /\ object' = [o \in DOMAIN object |->
                              IF o \in ToSet(next.tabs) \cup {saver'.object, opener'} \cup Held
                              THEN f[o] ELSE Nothing]
  <2>1. PICK f : f = IF next.listed \/ Active' # Active THEN Synced(object, Active) ELSE object
    OBVIOUS
  <2> QED BY <2>1 DEF Render
<1>5. \A x \in Obj : f[x].path = object[x].path /\ f[x].dirty = object[x].dirty
  BY <1>2, <1>4, SyncedTabs
<1>6. \A i \in 1 .. Len(next.tabs) : /\ object'[next.tabs[i]].path = object[next.tabs[i]].path
                                     /\ object'[next.tabs[i]].dirty = object[next.tabs[i]].dirty
  <2> TAKE i \in 1 .. Len(next.tabs)
  <2>1. next.tabs[i] \in Obj /\ next.tabs[i] \in ToSet(next.tabs)
    BY <1>2 DEF ToSet
  <2>2. object'[next.tabs[i]] = f[next.tabs[i]]
    BY <1>2, <1>4, <2>1
  <2> QED BY <1>5, <2>1, <2>2
<1>7. Shows(p)' => \E i \in 1 .. Len(next.tabs) : object'[next.tabs[i]].path = p
  <2>1. Active' # 0 => \E i \in 1 .. Len(next.tabs) : Active' = next.tabs[i]
    BY <1>1, <1>2 DEF Active
  <2> QED BY <2>1 DEF Shows
<1>8. Known(p)' => Known(p)
  BY <1>3, <1>6, <1>7 DEF Known
<1> QED BY <1>1, <1>3, <1>6, <1>8, CleanStays

LEMMA CleanSwitch ==
    ASSUME TabsInv, NEW k \in DOMAIN tabs, SwitchTab(k), NEW p \in File, CleanAt(p) PROVE CleanAt(p)'
<1>1. /\ next' = [next EXCEPT !.active = k] /\ rendering' = "now"
      /\ UNCHANGED <<object, tabs, active, view, inbox, callbacks, disk, edits, latest>>
  BY DEF SwitchTab, QueueUrgent, workerVars, countVars
<1>2. next'.tabs = next.tabs
  BY <1>1 DEF TabsInv
<1>3. Known(p)' => Known(p)
  BY <1>1, <1>2 DEF Known
<1> QED BY <1>1, <1>2, <1>3, CleanStays

(* The tabs of a list that puts none of the file back are marked as they   *)
(* were.                                                                   *)
LEMMA CleanLists ==
    ASSUME TabsInv, NEW p \in File, TextAt(p), NEW list \in Seq(Obj), p \notin BroughtBack(list),
           NEW i \in 1 .. Len(list), object[list[i]].path = p
    PROVE  \E j \in 1 .. Len(next.tabs) : /\ object[next.tabs[j]].path = p
                                          /\ object[next.tabs[j]].dirty = object[list[i]].dirty
  BY ListText

LEMMA CleanClose ==
    ASSUME TabsInv, NEW k \in DOMAIN tabs, CloseTab(k), NEW p \in File, p \notin strayClean',
           TextAt(p), CleanAt(p)
    PROVE  CleanAt(p)'
<1>1. PICK q : q = RemoveAt(tabs, k)
  OBVIOUS
<1>2. /\ next'.tabs = q /\ rendering' = "now" /\ p \notin BroughtBack(q)
      /\ latest' = (IF object[tabs[k]].path = DataFile THEN latest
                    ELSE [latest EXCEPT ![object[tabs[k]].path] = disk[object[tabs[k]].path]])
      /\ UNCHANGED <<object, tabs, active, view, inbox, callbacks, disk, edits>>
  BY <1>1 DEF CloseTab, QueueUrgent, Show, Strays, workerVars
<1>3. /\ tabs \in Seq(Obj) /\ k \in 1 .. Len(tabs) /\ q \in Seq(Obj) /\ latest \in [File -> AText]
      /\ p # DataFile
  <2>1. tabs \in Seq(Obj) /\ latest \in [File -> AText]
    BY DEF TabsInv
  <2>2. k \in 1 .. Len(tabs)
    BY <2>1
  <2>3. q \in Seq(Obj)
    BY <1>1, <2>1, <2>2, Removal
  <2>4. p # DataFile
    BY EditorAssumption
  <2> QED BY <2>1, <2>2, <2>3, <2>4
<1>4. object[tabs[k]].path = p => \A i \in 1 .. Len(q) : object[q[i]].path # p
  BY <1>1, <1>3, RemovedOne DEF TextAt
<1>5. CASE object[tabs[k]].path = p
  <2>1. latest'[p] = disk[p]
    BY <1>2, <1>3, <1>5
  <2>2. \A i \in 1 .. Len(next'.tabs) : object'[next'.tabs[i]].path # p
    BY <1>2, <1>4, <1>5
  <2>3. ~ Known(p)'
    BY <1>2, <2>2 DEF Known
  <2> QED BY <1>2, <2>1, <2>2, <2>3 DEF CleanAt
<1>6. CASE object[tabs[k]].path # p
  <2>1. latest'[p] = latest[p]
    BY <1>2, <1>3, <1>6
  <2>2. \A i \in 1 .. Len(next'.tabs) : object'[next'.tabs[i]].path = p =>
          \E j \in 1 .. Len(next.tabs) : /\ object[next.tabs[j]].path = p
                                         /\ object[next.tabs[j]].dirty = object'[next'.tabs[i]].dirty
    BY <1>2, <1>3, CleanLists
  <2>3. Known(p)' => Known(p)
    BY <1>2, <2>2 DEF Known
  <2> QED BY <1>2, <2>1, <2>2, <2>3, CleanStays
<1> QED BY <1>5, <1>6

LEMMA CleanOpen ==
    ASSUME TabsInv, NEW f \in File, Open(f), NEW p \in File, p \notin strayClean', TextAt(p), CleanAt(p)
    PROVE  CleanAt(p)'
<1>1. UNCHANGED <<tabs, active, view, saver, opener>>
  BY DEF Open
<1>2. CASE \E i \in DOMAIN tabs : /\ QueueUrgent(Show(tabs, i))
                                  /\ Strays(BroughtBack(tabs), BroughtBack(tabs))
                                  /\ UNCHANGED <<object, workerVars, countVars>>
  <2>1. /\ next'.tabs = tabs /\ rendering' = "now" /\ p \notin BroughtBack(tabs)
        /\ UNCHANGED <<object, inbox, callbacks, disk, edits, latest>>
    BY <1>2 DEF QueueUrgent, Show, Strays, workerVars, countVars
  <2>2. tabs \in Seq(Obj)
    BY DEF TabsInv
  <2>3. \A i \in 1 .. Len(next'.tabs) : object'[next'.tabs[i]].path = p =>
          \E j \in 1 .. Len(next.tabs) : /\ object[next.tabs[j]].path = p
                                         /\ object[next.tabs[j]].dirty = object'[next'.tabs[i]].dirty
    BY <2>1, <2>2, CleanLists
  <2>4. Known(p)' => Known(p)
    BY <2>1, <2>3 DEF Known
  <2> QED BY <1>1, <2>1, <2>3, <2>4, CleanStays
<1>3. CASE /\ Request([op |-> "open", path |-> f, tabs |-> tabs, active |-> opener])
           /\ UNCHANGED <<object, next, rendering, latest>>
  <2>1. PICK r : r = [op |-> "open", path |-> f, tabs |-> tabs, active |-> opener]
    OBVIOUS
  <2>2. r \in Sent
    BY <2>1 DEF Sent, ToOpen, TabsInv
  <2>3. inbox' = Append(inbox, r) /\ UNCHANGED <<callbacks, disk, edits>>
    BY <1>3, <2>1 DEF Request
  <2>4. ~ SaveOf(r, p)
    BY <2>1 DEF SaveOf
  <2> QED BY <1>1, <1>3, <2>2, <2>3, <2>4, CleanAsks
<1>4. \/ \E i \in DOMAIN tabs : /\ QueueUrgent(Show(tabs, i))
                                /\ Strays(BroughtBack(tabs), BroughtBack(tabs))
                                /\ UNCHANGED <<object, workerVars, countVars>>
      \/ /\ Request([op |-> "open", path |-> f, tabs |-> tabs, active |-> opener])
         /\ UNCHANGED <<object, next, rendering, latest>>
  BY DEF Open
<1> QED BY <1>2, <1>3, <1>4

LEMMA CleanEdit ==
    ASSUME TabsInv, Edit, NEW p \in File, p \notin strayClean', TextAt(p), CleanAt(p) PROVE CleanAt(p)'
<1>1. PICK t : t = Text(view.of, edits + 1) /\ view' = t /\ Marks(active, TRUE, t)
  BY DEF Edit
<1>2. PICK q : q = object[Active].path
  OBVIOUS
<1>3. /\ IsText(Active) /\ edits < MaxEdits /\ rendering' = "now" /\ rendering # "now"
      /\ latest' = [latest EXCEPT ![q] = t] /\ edits' = edits + 1
      /\ UNCHANGED <<tabs, active, inbox, callbacks, disk>>
  BY <1>1, <1>2 DEF Edit, UserActs, workerVars
<1>4. /\ t \in AText /\ active \in Nat /\ TRUE \in BOOLEAN /\ latest \in [File -> AText]
      /\ t.of = view.of /\ t.edit = edits + 1
  <2>1. view \in AText /\ edits \in 0 .. MaxEdits
    BY DEF TabsInv
  <2>2. edits + 1 \in 0 .. MaxEdits /\ view.of \in File
    BY <1>3, <2>1, Words, EditorAssumption
  <2>3. t.of = view.of /\ t.edit = edits + 1
    BY <1>1 DEF Text
  <2>4. t \in AText
    BY <1>1, <2>2, Words
  <2> QED BY <2>3, <2>4 DEF TabsInv
<1>5. Due(active) = {q} \/ (p # q /\ p \notin Due(active))
  BY <1>2 DEF Edit, Strays
<1>6. Active \in Obj /\ Active # 0 /\ q \in File /\ p # DataFile
  BY <1>2, <1>3, ActiveText, EditorAssumption DEF Obj
<1>7. \A i \in 1 .. Len(next'.tabs) :
        i \in 1 .. Len(next.tabs) /\ object'[next'.tabs[i]].path = object[next.tabs[i]].path
  BY <1>1, <1>4, MarksPaths
<1>8. Known(p)' => Known(p)
  BY <1>3, <1>7 DEF Known
<1>9. edits \in Nat /\ latest[p].edit \in Nat /\ disk[p].edit \in Nat
      /\ \A r \in Sent : r.op = "save" => r.text.edit \in Nat
  BY Numbers
<1>10. \A k \in 1 .. Len(inbox) : inbox[k] \in Sent
  BY DEF TabsInv
<1>11. Pending(p, inbox, disk[p], edits + 1)
  <2>1. Pending(p, inbox, disk[p], edits)
    BY DEF CleanAt
  <2>2. \A k \in 1 .. Len(inbox) : SaveOf(inbox[k], p) => inbox[k].text.edit <= edits + 1
    BY <1>9, <1>10, <2>1 DEF Pending, SaveOf
  <2> QED BY <2>1, <2>2 DEF Pending
<1>12. Ended(p, callbacks, disk[p]) /\ disk[p].of = p /\ disk[p].edit <= edits + 1
  BY <1>9 DEF CleanAt
<1>13. CASE p = q
  <2>1. Due(active) = {p}
    BY <1>5, <1>13
  <2>2. active \in 1 .. Len(next.tabs) /\ object[next.tabs[active]].path = p
    <3>1. active \in DOMAIN next.tabs /\ object[next.tabs[active]].path = p
      BY <2>1 DEF Due, PathsOf
    <3> QED BY <3>1 DEF TabsInv
  <2>3. latest'[p] = t
    BY <1>3, <1>4, <1>13
  <2>4. view = latest[p] /\ t.of = p
    BY <1>2, <1>3, <1>4, <1>6, <1>13 DEF TextAt, CleanAt, Shows
  <2>5. Within(p, inbox, disk[p], t)
    <3>1. \A k \in 1 .. Len(inbox) : SaveOf(inbox[k], p) => inbox[k].text.edit <= t.edit
      BY <1>4, <1>11 DEF Pending
    <3> QED BY <1>4, <1>12, <3>1 DEF Within
  <2>6. ASSUME NEW i \in 1 .. Len(next'.tabs), object'[next'.tabs[i]].path = p
        PROVE  object'[next'.tabs[i]].dirty
    <3>1. i \in 1 .. Len(next.tabs) /\ object[next.tabs[i]].path = p /\ next.tabs[i] \in Obj
      BY <1>1, <1>4, <2>6, MarksPaths
    <3>2. i = active
      BY <2>2, <3>1 DEF TextAt, OneOf
    <3>3. IsText(next.tabs[i])
      BY <1>6, <3>1 DEF IsText, Obj
    <3>4. object'[next'.tabs[i]] = Tab(p, t, TRUE)
      BY <1>1, <1>4, <3>1, <3>2, <3>3, MarksPaths
    <3> QED BY <3>4 DEF Tab
  <2>7. t.edit <= edits'
    BY <1>3, <1>4, <1>9
  <2> QED BY <1>3, <1>11, <1>12, <2>3, <2>4, <2>5, <2>6, <2>7 DEF CleanAt
<1>14. CASE p # q
  <2>1. latest'[p] = latest[p]
    BY <1>3, <1>4, <1>14
  <2>2. ASSUME NEW i \in 1 .. Len(next'.tabs), object'[next'.tabs[i]].path = p
        PROVE  object[next.tabs[i]].path = p /\ object'[next'.tabs[i]].dirty = object[next.tabs[i]].dirty
    <3>1. i \in 1 .. Len(next.tabs) /\ object[next.tabs[i]].path = p /\ next.tabs[i] \in Obj
      BY <1>1, <1>4, <2>2, MarksPaths
    <3>2. IsText(next.tabs[i])
      BY <1>6, <3>1 DEF IsText, Obj
    <3>3. i # active
      <4>1. Due(i) = {p}
        BY <3>1, <3>2, DuePath
      <4> QED BY <1>5, <1>14, <4>1
    <3>4. next'.tabs[i] = next.tabs[i] /\ object'[next.tabs[i]] = object[next.tabs[i]]
      BY <1>1, <1>4, <3>3, MarksPaths
    <3> QED BY <3>1, <3>4
  <2>3. \A i \in 1 .. Len(next'.tabs) :
          object'[next'.tabs[i]].path = p /\ ~ object'[next'.tabs[i]].dirty =>
          AllWritten(p, inbox, disk[p], latest[p])
    BY <1>7, <2>2 DEF CleanAt
  <2>4. latest[p].of = p /\ latest[p].edit <= edits'
    BY <1>3, <1>9 DEF CleanAt
  <2>5. Known(p)' => Within(p, inbox, disk[p], latest[p])
    BY <1>8 DEF CleanAt
  <2> QED BY <1>3, <1>11, <1>12, <2>1, <2>3, <2>4, <2>5 DEF CleanAt
<1> QED BY <1>13, <1>14

(* A save that ended well has written the text its tab has.                *)
LEMMA CleanSaved ==
    ASSUME TabsInv, Saved, NEW p \in File, p \notin strayClean', TextAt(p), CleanAt(p) PROVE CleanAt(p)'
<1>1. PICK index, d, r : index = Back.request.index /\ d = Back.failed /\ r = Back.request
  OBVIOUS
<1>2. /\ Returned("save") /\ Marks(index, d, view) /\ rendering # "now"
      /\ p \notin NotShown(Due(index))
      /\ (p \in Due(index) => p = r.path /\ view = r.text)
      /\ UNCHANGED <<tabs, active, view, inbox, disk, edits, latest>>
  BY <1>1 DEF Saved, Strays, countVars, Returned, DirtyAfter
<1>3. /\ index \in Nat /\ d \in BOOLEAN /\ view \in AText /\ p # DataFile
      /\ r \in Sent /\ r.op = "save" /\ callbacks # <<>> /\ callbacks' = Tail(callbacks)
      /\ Back = callbacks[1]
  BY <1>1, <1>2, Answered, SentKinds, EditorAssumption DEF TabsInv
<1>4. \A i \in 1 .. Len(next'.tabs) :
        i \in 1 .. Len(next.tabs) /\ object'[next'.tabs[i]].path = object[next.tabs[i]].path
  BY <1>2, <1>3, MarksPaths
<1>5. Shows(p)' <=> Shows(p)
  <2>1. \A x \in Obj : x \notin Free => object'[x].path = object[x].path
    BY <1>2, <1>3, MarksTab
  <2> QED BY <1>2, <2>1, ShowsSame
<1>6. Known(p)' => Known(p)
  BY <1>2, <1>4, <1>5 DEF Known
<1>7. Drops(callbacks, callbacks') /\ 1 \in 1 .. Len(callbacks)
  BY <1>3, TailDrops DEF TabsInv, Drops
<1>8. Ended(p, callbacks', disk[p])
  BY <1>7, EndedQueue DEF CleanAt
<1>9. ASSUME NEW i \in 1 .. Len(next'.tabs), object'[next'.tabs[i]].path = p,
             ~ object'[next'.tabs[i]].dirty
      PROVE  AllWritten(p, inbox, disk[p], latest[p])
  <2>1. i \in 1 .. Len(next.tabs) /\ next.tabs[i] \in Obj /\ object[next.tabs[i]].path = p
    BY <1>2, <1>3, <1>9, MarksPaths
  <2>2. IsText(next.tabs[i])
    BY <1>3, <2>1 DEF IsText, Obj
  <2>3. CASE i = index
    <3>1. Due(index) = {p}
      BY <2>1, <2>2, <2>3, DuePath
    <3>2. Shows(p) /\ p = r.path /\ view = r.text
      BY <1>2, <3>1 DEF NotShown, Shows
    <3>3. view = latest[p] /\ Known(p)
      BY <1>2, <3>2 DEF TextAt, Known
    <3>4. object'[next'.tabs[i]] = Tab(p, view, d)
      BY <1>2, <1>3, <2>1, <2>2, <2>3, MarksPaths
    <3>5. ~ d
      BY <1>9, <3>4 DEF Tab
    <3>6. SaveOf(callbacks[1].request, p) /\ ~ callbacks[1].failed /\ callbacks[1].request.text = latest[p]
      BY <1>1, <1>3, <3>2, <3>3, <3>5 DEF SaveOf
    <3>7. latest[p].of = p /\ latest[p].edit <= disk[p].edit /\ disk[p].of = p
      BY <1>7, <3>6 DEF CleanAt, Ended
    <3>8. Within(p, inbox, disk[p], latest[p]) /\ Pending(p, inbox, disk[p], edits)
      BY <3>3 DEF CleanAt
    <3>9. latest[p] \in AText /\ disk[p] \in AText /\ latest[p].edit \in Nat /\ disk[p].edit \in Nat
      BY Numbers
    <3>10. latest[p] = disk[p]
      BY <3>7, <3>8, <3>9, SameText DEF Within
    <3>11. ASSUME NEW k \in 1 .. Len(inbox), SaveOf(inbox[k], p) PROVE inbox[k].text = latest[p]
      <4>1. inbox[k].text \in AText
        <5>1. inbox[k] \in Sent
          BY DEF TabsInv
        <5> QED BY <3>11, <5>1, Numbers DEF SaveOf
      <4>2. /\ inbox[k].text.of = p /\ disk[p].edit <= inbox[k].text.edit
            /\ inbox[k].text.edit <= latest[p].edit
        BY <3>8, <3>11 DEF Pending, Within
      <4> QED BY <3>7, <3>9, <3>10, <4>1, <4>2, SameText
    <3> QED BY <3>10, <3>11 DEF AllWritten
  <2>4. CASE i # index
    <3>1. next'.tabs[i] = next.tabs[i] /\ object'[next.tabs[i]] = object[next.tabs[i]]
      BY <1>2, <1>3, <2>4, MarksPaths
    <3> QED BY <1>9, <2>1, <3>1 DEF CleanAt
  <2> QED BY <2>3, <2>4
<1>10. Known(p)' => Within(p, inbox, disk[p], latest[p])
  BY <1>6 DEF CleanAt
<1> QED BY <1>2, <1>8, <1>9, <1>10 DEF CleanAt

(* A tab is added to a list that puts none of the file back.               *)
LEMMA CleanAdds ==
    ASSUME TabsInv, NEW p \in File, TextAt(p), CleanAt(p), rendering # "now",
           NEW list \in Seq(Obj), NEW tab \in ATab, NEW o \in 0 .. MaxObjects, AddTab(list, tab, o),
           p \notin BroughtBack(list), \A i \in 1 .. Len(list) : list[i] \notin Free,
           tab.path # p, latest'[p] = latest[p], UNCHANGED <<tabs, active, inbox, disk, edits>>,
           callbacks' = callbacks \/ (callbacks # <<>> /\ callbacks' = Tail(callbacks))
    PROVE  CleanAt(p)'
<1>1. PICK m : m = Len(list) + 1
  OBVIOUS
<1>2. /\ Len(next'.tabs) = m /\ m \in Nat /\ \A j \in 1 .. Len(list) : next'.tabs[j] = list[j]
      /\ object'[next'.tabs[m]] = tab
      /\ \A x \in Obj : x \notin Free =>
           object'[x].path = object[x].path /\ object'[x].dirty = object[x].dirty
  BY <1>1, AddsTab
<1>3. ASSUME NEW i \in 1 .. m, object'[next'.tabs[i]].path = p
      PROVE  \E j \in 1 .. Len(next.tabs) : /\ object[next.tabs[j]].path = p
                                            /\ object[next.tabs[j]].dirty = object'[next'.tabs[i]].dirty
  <2>1. i \in 1 .. Len(list)
    BY <1>1, <1>2, <1>3
  <2>2. next'.tabs[i] = list[i] /\ list[i] \in Obj /\ list[i] \notin Free
    BY <1>2, <2>1
  <2>3. object[list[i]].path = p /\ object'[next'.tabs[i]].dirty = object[list[i]].dirty
    BY <1>2, <1>3, <2>2
  <2> QED BY <2>1, <2>3, CleanLists
<1>4. Shows(p)' <=> Shows(p)
  BY <1>2, ShowsSame
<1>5. Known(p)' => Known(p)
  BY <1>2, <1>3, <1>4 DEF Known
<1> QED BY <1>2, <1>3, <1>5, CleanStays

(* The text read is the one the file has, when it is not written since.    *)
LEMMA CleanOpened ==
    ASSUME TabsInv, Opened, NEW p \in File, p \notin strayClean', TextAt(p), CleanAt(p)
    PROVE  CleanAt(p)'
<1>1. PICK r, b : r = Back.request /\ b = Tab(r.path, Back.text, FALSE)
  OBVIOUS
<1>2. /\ Returned("open") /\ AddTab(r.tabs, b, r.active) /\ latest' = [latest EXCEPT ![r.path] = Back.text]
      /\ p \notin BroughtBack(r.tabs)
      /\ UNCHANGED <<tabs, active, view, inbox, disk, edits>> /\ rendering # "now"
  BY <1>1 DEF Opened, Strays, Returned
<1>3. r \in Awaited /\ r.op = "open" /\ Back.text \in AText /\ callbacks # <<>> /\ callbacks' = Tail(callbacks)
  BY <1>1, <1>2, Answered, AwaitedBack
<1>4. /\ r.path \in File /\ r.tabs \in Seq(Obj) /\ r.active \in 0 .. MaxObjects
      /\ \A i \in 1 .. Len(r.tabs) : r.tabs[i] \in Obj /\ r.tabs[i] \notin Free
  BY <1>3, AwaitedOpen
<1>5. b \in ATab /\ b.path = r.path
  <2>1. r.path \in File \cup {DataFile} /\ FALSE \in BOOLEAN
    BY <1>4
  <2>2. PICK q, t : q = r.path /\ t = Back.text
    OBVIOUS
  <2>3. q \in File \cup {DataFile} /\ t \in AText
    BY <1>3, <2>1, <2>2
  <2>4. Tab(q, t, FALSE) \in ATab /\ Tab(q, t, FALSE).path = q
    BY <2>1, <2>3, TabParts
  <2> QED BY <1>1, <2>2, <2>4
<1>6. CASE p # r.path
  <2>1. latest'[p] = latest[p]
    BY <1>2, <1>6 DEF TabsInv
  <2> QED BY <1>2, <1>3, <1>4, <1>5, <1>6, <2>1, CleanAdds
<1>7. CASE p = r.path
  <2>1. Back.text = disk[p] /\ \A q \in ToSet(inbox) : ~ SaveOf(q, p)
    BY <1>1, <1>7 DEF Opened, Strays, SaveOf
  <2>2. latest'[p] = disk[p]
    BY <1>2, <1>7, <2>1 DEF TabsInv
  <2>3. \A k \in 1 .. Len(inbox) : ~ SaveOf(inbox[k], p)
    <3>1. inbox \in Seq(Sent)
      BY DEF TabsInv
    <3> QED BY <2>1, <3>1 DEF ToSet
  <2>4. disk[p].edit \in Nat /\ disk[p].edit <= edits /\ disk[p].of = p
    BY Numbers DEF CleanAt
  <2>5. Within(p, inbox, disk[p], disk[p]) /\ AllWritten(p, inbox, disk[p], disk[p])
    BY <2>3, <2>4 DEF Within, AllWritten
  <2>6. Ended(p, callbacks', disk[p])
    <3>1. Drops(callbacks, callbacks')
      BY <1>3, TailDrops DEF TabsInv
    <3> QED BY <3>1, EndedQueue DEF CleanAt
  <2>7. Pending(p, inbox, disk[p], edits)
    BY DEF CleanAt
  <2> QED BY <1>2, <2>2, <2>4, <2>5, <2>6, <2>7 DEF CleanAt
<1> QED BY <1>6, <1>7

LEMMA CleanData ==
    ASSUME TabsInv, ShowData, NEW p \in File, p \notin strayClean', TextAt(p), CleanAt(p)
    PROVE  CleanAt(p)'
<1>1. PICK b : b = Tab(DataFile, view, FALSE)
  OBVIOUS
<1>2. /\ rendering # "now" /\ UNCHANGED <<tabs, active, view, inbox, callbacks, disk, latest, edits>>
      /\ p # DataFile /\ view \in AText
  BY EditorAssumption DEF ShowData, UserActs, workerVars, TabsInv
<1>3. CASE \E i \in DOMAIN tabs : Queue([next EXCEPT !.active = i]) /\ object' = object
  <2>1. next'.tabs = next.tabs /\ object' = object
    BY <1>3 DEF Queue, TabsInv
  <2>2. Shows(p)' <=> Shows(p)
    BY <1>2, <2>1, ShowsSame
  <2>3. Known(p)' => Known(p)
    BY <1>2, <2>1, <2>2 DEF Known
  <2> QED BY <1>2, <2>1, <2>3, CleanStays
<1>4. CASE AddTab(tabs, b, opener) /\ p \notin BroughtBack(tabs)
  <2>1. b \in ATab /\ b.path = DataFile
    BY <1>1, <1>2, TabParts
  <2>2. tabs \in Seq(Obj) /\ opener \in 0 .. MaxObjects
        /\ \A i \in 1 .. Len(tabs) : tabs[i] \notin Free
    BY FreeObjects DEF TabsInv
  <2>3. b.path # p
    BY <1>2, <2>1
  <2> QED BY <1>2, <1>4, <2>1, <2>2, <2>3, CleanAdds
<1>5. \/ \E i \in DOMAIN tabs : Queue([next EXCEPT !.active = i]) /\ object' = object
      \/ AddTab(tabs, b, opener) /\ p \notin BroughtBack(tabs)
  BY <1>1 DEF ShowData, Strays
<1> QED BY <1>3, <1>4, <1>5

LEMMA CleanInit == ASSUME EditorInit, NEW p \in File PROVE CleanAt(p)
<1>1. latest[p] = Text(p, 0) /\ disk[p] = Text(p, 0) /\ edits = 0 /\ inbox = <<>> /\ callbacks = <<>>
  BY DEF EditorInit
<1>2. 1 .. Len(inbox) = {} /\ 1 .. Len(callbacks) = {}
  BY <1>1
<1>3. Text(p, 0).of = p /\ Text(p, 0).edit = 0
  BY DEF Text
<1>4. next.tabs = [i \in DOMAIN FirstTabs |-> i] /\ DOMAIN FirstTabs = 1 .. Len(FirstTabs)
      /\ Len(FirstTabs) \in Nat /\ Len(FirstTabs) <= MaxObjects /\ MaxObjects \in Nat
  BY EditorAssumption DEF EditorInit
<1>5. \A i \in 1 .. Len(next.tabs) : object[next.tabs[i]].dirty
  <2> TAKE i \in 1 .. Len(next.tabs)
  <2>1. i \in 1 .. MaxObjects /\ i \in DOMAIN FirstTabs /\ next.tabs[i] = i
    BY <1>4
  <2>2. object[i] = IF i \in DOMAIN FirstTabs THEN Tab(FirstTabs[i], Text(FirstTabs[i], 0), TRUE)
                    ELSE Nothing
    BY <2>1 DEF EditorInit
  <2>3. object[i] = Tab(FirstTabs[i], Text(FirstTabs[i], 0), TRUE)
    BY <2>1, <2>2
  <2> QED BY <2>1, <2>3 DEF Tab
<1>6. Pending(p, inbox, disk[p], edits) /\ Ended(p, callbacks, disk[p]) /\ Within(p, inbox, disk[p], latest[p])
  BY <1>1, <1>2, <1>3 DEF Pending, Ended, Within
<1> QED BY <1>1, <1>3, <1>5, <1>6 DEF CleanAt

LEMMA CleanStep ==
    ASSUME TabsInv, [EditorNext]_editorVars, NEW p \in File, p \notin strayClean', TextAt(p), CleanAt(p)
    PROVE  CleanAt(p)'
<1>1. CASE UNCHANGED editorVars
  <2>1. UNCHANGED <<object, tabs, active, next, rendering, latest, inbox, callbacks, disk, edits>>
    BY <1>1 DEF editorVars, tabVars, workerVars, countVars
  <2>2. Known(p)' <=> Known(p)
    BY <2>1, TabsSame
  <2> QED BY <2>1, <2>2, CleanStays
<1>2. CASE \E i \in DOMAIN tabs : SwitchTab(i) \/ CloseTab(i)
  BY <1>2, CleanSwitch, CleanClose
<1>3. CASE \E f \in File : Open(f)
  BY <1>3, CleanOpen
<1>4. CASE \E b \in BOOLEAN : Serve(b) \/ Interrupt(b)
  BY <1>4, CleanServe, CleanInterrupt
<1>5. CASE LeftReadTakes
  BY <1>5, CleanInterrupt
<1>6. CASE Edit
  BY <1>6, CleanEdit
<1>7. CASE Saved
  BY <1>7, CleanSaved
<1>8. CASE Opened
  BY <1>8, CleanOpened
<1>9. CASE ShowData
  BY <1>9, CleanData
<1>10. CASE Render \/ Save \/ Run \/ Scripted \/ Unheard
  BY <1>10, CleanRender, CleanSave, CleanRun, CleanScripted, CleanUnheard
<1> QED BY <1>1, <1>2, <1>3, <1>4, <1>5, <1>6, <1>7, <1>8, <1>9, <1>10 DEF EditorNext

(* A tab whose text is at risk has its mark at risk.                       *)
LEMMA StraysBoth ==
    ASSUME strayText \subseteq strayClean, [EditorNext]_editorVars PROVE (strayText \subseteq strayClean)'
<1>1. CASE \E i \in DOMAIN tabs : SwitchTab(i) \/ CloseTab(i)
  BY <1>1 DEF SwitchTab, CloseTab, Strays
<1>2. CASE \E f \in File : Open(f)
  <2>1. PICK f \in File : Open(f)
    BY <1>2
  <2>2. UNCHANGED <<strayText, strayClean>> \/ Strays(BroughtBack(tabs), BroughtBack(tabs))
    BY <2>1 DEF Open
  <2> QED BY <2>2 DEF Strays
<1>3. CASE \E b \in BOOLEAN : Serve(b) \/ Interrupt(b)
  BY <1>3 DEF Serve, Interrupt, strayVars
<1>4. CASE Edit
  BY <1>4 DEF Edit, Strays
<1>5. CASE Render \/ Save \/ Run \/ Scripted \/ Unheard \/ LeftReadTakes
  BY <1>5 DEF Render, Save, Run, Scripted, Unheard, LeftReadTakes, strayVars
<1>6. CASE Saved
  <2>1. PICK a, b : a = NotShown(Due(Back.request.index)) /\ Strays(a, a \cup b)
    BY <1>6 DEF Saved
  <2> QED BY <2>1 DEF Strays
<1>7. CASE Opened
  <2>1. PICK a, b : Strays(a, IF b THEN a \cup {Back.request.path} ELSE a)
    BY <1>7 DEF Opened
  <2> QED BY <2>1 DEF Strays
<1>8. CASE ShowData
  BY <1>8 DEF ShowData, Strays
<1>9. CASE UNCHANGED editorVars
  BY <1>9 DEF editorVars, strayVars
<1> QED BY <1>1, <1>2, <1>3, <1>4, <1>5, <1>6, <1>7, <1>8, <1>9 DEF EditorNext

LEMMA CleanInvStep == ASSUME TabsInv, TextInv, CleanInv, [EditorNext]_editorVars PROVE CleanInv'
<1>1. strayText' \subseteq strayClean'
  BY StraysBoth DEF CleanInv
<1>2. ASSUME NEW p \in File, p \notin strayClean' PROVE CleanAt(p)'
  <2>1. p \notin strayClean /\ p \notin strayText
    BY <1>2, StraysGrow DEF CleanInv
  <2>2. TextAt(p) /\ CleanAt(p)
    BY <2>1 DEF TextInv, CleanInv
  <2> QED BY <1>2, <2>2, CleanStep
<1> QED BY <1>1, <1>2 DEF CleanInv

(* A tab that is not marked as changed has the text of its file, but for   *)
(* the files above, those whose text was edited or whose tab was at        *)
(* another index when a save ended, and those read before a save was done. *)
THEOREM CleanTabsAreSaved == EditorSpec => []CleanTabIsSaved
<1>1. EditorInit => TextInv /\ CleanInv
  BY TextInit, CleanInit DEF TextInv, CleanInv, EditorInit
<1>2. TabsInv /\ TextInv /\ CleanInv /\ [EditorNext]_editorVars => TextInv' /\ CleanInv'
  BY TextInvStep, CleanInvStep
<1>3. TabsInv /\ TextInv /\ CleanInv => CleanTabIsSaved
  <2> SUFFICES ASSUME TabsInv, TextInv, CleanInv, Rendered, NEW i \in TextTabs,
                      PathOf(i) \notin strayClean, ~ object[tabs[i]].dirty
               PROVE  TextOf(i) = disk[PathOf(i)]
    BY DEF CleanTabIsSaved
  <2>1. PICK p : p = PathOf(i)
    OBVIOUS
  <2>2. /\ TextOf(i) = latest[p] /\ p \in File
        /\ i \in 1 .. Len(next.tabs) /\ next.tabs[i] = tabs[i]
    BY <2>1, ShownText DEF CleanInv
  <2>3. CleanAt(p) /\ object[next.tabs[i]].path = p
    BY <2>1, <2>2 DEF CleanInv, PathOf
  <2> QED BY <2>1, <2>2, <2>3 DEF CleanAt, AllWritten
<1> QED BY <1>1, <1>2, <1>3, TabsInit, TabsStep, PTL DEF EditorSpec

=============================================================================
