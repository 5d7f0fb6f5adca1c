# Verification of webR

webR runs R, compiled to WebAssembly, in a worker thread. An application on the
main thread sends it lines of input and requests, and reads output, results and
references to R objects. This directory holds TLA+ models of the program, the
TLC configurations that check them, and proofs for TLAPS. Paths below are
relative to the repository; `webR/` stands for `src/webR/`.

    tlc -workers 2 -config MCSyncTask.cfg MCSyncTask.tla
    tlapm SyncTaskProofs.tla

## 1. The system

Two threads. The main thread runs JavaScript callbacks to their next `await`;
the worker runs R, which blocks. They share message ports and
`SharedArrayBuffer`s used with `Atomics`, and nothing else.

| component | state | operations | talks to |
|---|---|---|---|
| asynchronous queue, `webR/chan/queue.ts` | promises nobody took, resolvers nobody called | `put`, `get`, `reset`, `isEmpty` | used by both channels for input, output and system messages |
| blocking requests, `webR/chan/task-worker.ts`, `task-main.ts` | per task: signal, size and data buffer; the pool of data buffers; the main thread's listeners | `syncify`, `syncResponse`, `signalRequester` | worker blocks in `Atomics.wait`, main writes shared memory |
| shared buffer channel, `webR/chan/channel-shared.ts`, `channel.ts` | input, output, system and event queues, parked requests, event flag, closed | `write`, `request`, `read`, `flush`, `emit`, `interrupt`, `close`; on the worker `inputOrDispatch`, `handleEvents` | every message of the program |
| PostMessage channel, `webR/chan/channel-postmessage.ts` | parked reads, prompt depth | `#asyncREPL`, `inputOrDispatch`, `request` | same, without shared memory |
| worker dispatch, `webR/webr-worker.ts` | R itself, interactive flag, canvas devices, protect stack | `dispatch`, `captureR`, `evalR`, `init` | called by `inputOrDispatch`; answers with one response |
| shelters, `webR/robj-worker.ts`, `webr-main.ts` | pointers kept per shelter, R's precious list | `keep`, `destroy`, `purge`, `size` | requests from the main thread |
| proxies of sockets and workers, `webR/chan/proxy-*.ts` | maps on both threads | open, send, close, `postMessage`, `terminate` | system messages one way, events the other |
| WebR and its system loop, `webR/webr-main.ts` | initialised, channel, loop position | `init`, `close`, `#handleSystemMessages` | reads the system queue |
| console, `webR/console.ts` | callbacks | `#run` | reads the output queue until `closed` |
| R object proxies, `webR/proxy.ts` | a payload each | method calls become requests | `callRObjectMethod` on the worker |
| value conversion, `webR/robj*.ts`, `utils-r.ts` | R's heap and protect stack | constructors, `toJs` ... | R |
| REPL application, `repl/App.tsx`, `repl/components` | output loop, tabs and their view, file tree, plots | reading output, saving, opening, running, pager | WebR's public API; React renders updates later |
| mounting and downloads, `webR/mount.ts`, `webr-worker.ts` | the virtual file system | `mountFS`, `decodeVFSArchive`, `downloadFileContent` | HTTP, Emscripten |
| R package and patches, `packages/webr`, `patches` | R options, devices | `eval_r`, `ffi_safe_eval`, console input | inside R |

What is hard about it:

* *Two threads on shared memory.* A request, its response, a second exchange for
  large responses, timeouts every 50 ms, and buffers that are used again.
* *Nesting.* A blocked request times out and runs event handlers that make
  blocking requests. R code asks for a line inside a request, and the read
  dispatches further requests. An interrupt jumps out of any part of that stack.
* *Asynchrony on the main thread.* A read awaits its message; meanwhile the
  frame that asked may be gone, or the queue reset.
* *Lifetime of R objects* seen from another thread, with pointers that R's
  collector makes available again.
* *State of the last rendering.* Handlers of the REPL application see what was
  rendered when they were made; their callbacks come when the user is elsewhere.
* *Errors.* Encoding can throw, a request can fail half way, a loop can end.

What makes each component correct:

* queue: the k-th `get` receives the k-th `put`, whichever comes first; `flush`
  never blocks;
* blocking requests: a call returns the answer given to that call; no response
  overwrites another; no lost or spurious wake-up; every call ends;
* channel: messages are consumed in order and once; every request is in one place
  until it is settled, and is settled; events are handled once and are noticed;
* shelters: a reference that was not given up is good; shelters and R's precious
  list agree;
* dispatch and value conversion: session state restored, the protect stack balanced,
  no object used that R may have freed;
* PostMessage channel: R is refused input when its code asked for some, and only
  then; a REPL that waits has nothing left to do; a fatal error closes the session;
* proxies, console, system loop: events in order, no dead loop without misuse;
* REPL application: tabs keep their text, clean tabs are saved, code runs once and
  in order, the prompt comes back and the tree shows the files there are, and what a
  stale callback or Ctrl-C does wrong stays with the file or the line it hit.

`PROJECT.json` lists the hazards line by line, with the properties that cover
them, and those no property covers yet.

## 2. Modules

| module | content | extends or instantiates |
|---|---|---|
| `Rendezvous` | abstract: first-in first-out pairing of items and calls | |
| `AsyncQueue` | `AsyncQueue` and `flush` | implements `Rendezvous` |
| `AsyncQueueProofs` | its theorems | `AsyncQueue` |
| `BlockingCall` | abstract: nested calls, each returns its own answer | |
| `SyncTask` | the blocking request protocol | implements `BlockingCall` |
| `SyncTaskProofs` | its theorems | `SyncTask` |
| `SharedChannel` | the channel, built on what the two modules above establish | |
| `SharedChannelProofs` | its theorems | `SharedChannel` |
| `Shelter` | shelters, references, R's precious list and collector | |
| `ShelterProofs` | its theorems | `Shelter` |
| `Evaluation` | R objects in JavaScript's hands, `captureR`, `evalR`, requests | |
| `EvaluationProofs` | its theorems | `Evaluation` |
| `PostMessage` | a session over the PostMessage channel, with console and system loop | |
| `PostMessageProofs` | its theorems | `PostMessage` |
| `Proxies` | proxied sockets and workers | |
| `ProxiesProofs` | its theorems | `Proxies` |
| `Repl` | the REPL application's loop, pager, files and plots | |
| `Editor` | the REPL application's editor | |
| `ReplProofs` | theorems about both | `Repl`, `Editor` |
| `MCParts` | one instance of the last five models above, one part moving | |
| `MC...` | TLC instances | the module of that name |

### AsyncQueue

State: the two lists, the value each promise is settled with, who was handed
what. A promise and its resolver are one identity, as `#add` makes them together.
Actions: `Put`, `Get`, `Reset` (the methods; JavaScript runs each to its end),
and `FlushRead`/`FlushResume` (the loop of `ChannelMain.flush` with its await
between them). `Rendezvous` knows only items, waiting calls and answers; the
mapping reads stored items out of the settled promises.

### SyncTask

Each `SyncTask` object has its own syncifier, so each has task number 1, bit 0
and slot 1; data buffers are all that passes between tasks. An action is what
one thread does between two atomic operations the other can observe:

* worker: `Start` (`scheduleSync` and the first part of `doSync`), called by a
  fresh call (`CallSync`), by a wait that timed out (`TimeoutEvents`) or by the
  loop of `handleEvents` (`NextEvent`, `EndEvents`, `Interrupt`); `Wake` (the
  wait returns and the bit is cleared), then `PollGrow` or `PollReturn` (the slot
  is emptied and `doSync` goes on: a bigger buffer, or the result);
* main: `Receive` (the message handlers, the listener for bigger buffers
  included), `Respond` (size buffer stored; listener and uuid if it does not
  fit), `Write`, `StoreSlot`, `SetBit`; `RespondThrows` when `encode` throws.

`running` says whose `syncResponse` is between two awaits. Byte lengths are two
size classes, the rounded powers of two of `acquireDataBuffer`. `Receive` makes
every request wait for its response until `Respond`, which stands for the queue
read, the event, the awaited promise. `NODE` selects the branch of
`requestResponseMessage`.

Not a state of the model: the back-off of `signalRequester`. `StoreSlot` has the
guard that the slot is free, and `SlotFreeToSignal`, proved, says that it is.

### SharedChannel

A blocking request is here one call: posted, answered at most once, the answer
seen by the frame that asked unless that frame was unwound. That is what
`BlockingCall` says and `SyncTask` implements. The input queue is stored messages
and waiting reads, what `Rendezvous` says and `AsyncQueue` implements.

The worker is a stack of frames: `prompt` (`inputOrDispatch`), `eval` (R
evaluating), `events` (`handleEvents`). Actions of the application: `Write`
(`write` and `request`, with the parking before it), `RequestClosed`, `Emit`,
`RequestInterrupt` (reset and emit), `Close`. Of the main thread: `ReceiveRead`,
`ResumeRead` (after its await), `ReceiveEvent`, `ReceiveResponse`. Of the worker:
`ReadConsole`, `GetLine`, `GetRequest`, `FinishRequest` (a request ends, by value
or by error: one response, next read), `FinishLine`, `PollEvents` (R's polling),
`TimeoutEvents`, `HandleEvent`, `EndEvents`, `HandleInterrupt` (R jumps to top
level or to code that catches interrupts; `dispatch` answers every request it
unwinds).

History variables (`written`, `consumed`, `settled`, `dropped`, `lost`,
`handled`, `interrupts`) record what happened to each message; none of them
guards a step other than to write each message once and to bound interrupts.

### Shelter

Pointers are memory that R uses again: an object at a pointer that is neither
precious nor bound may be collected (`Collect`), and a later result may be made
there. `precious` is a multiset; `R_ReleaseObject` of an object not on it does
nothing. Requests are dispatched in order (`StartEval`, `DestroyObject`,
`PurgeShelter`), but evaluations end in any nesting with later requests
(`FinishEval`, `FailEval`), as R code may read the console meanwhile. The
application destroys what it holds (`Destroy`), or also what it does not
(`StrayDestroy`, bounded by `MaxStrays`); most properties are about applications
that do the former.

The conditions that `captureR` also keeps are not separate entries; a capture
that fails after `keep` of its result is (`fails` in `FinishEval`).

### Evaluation

A JavaScript function of `robj-worker.ts` or `webr-worker.ts` is a sequence of
steps, built by an operator of its name: R API calls (`Alloc`, `Attach`, `Link`,
`Field`, `SafeEval`), protection (`Protect`, `ProtectInc`, `Reprotect`), nested
constructors and methods (`New`, `Call`), the effects of `captureR` on the session
(`Do`), and what its `finally` does. An action executes the step the innermost frame
has come to; `Leave` and `Unwind` end a frame by value or by exception, with its
`finally` and its `unprotect`.

What a function protects and what it unprotects are two numbers, as in the code.
`protect()` puts an object on R's stack (`n`); `protectInc()` also counts it in the
function's own counter (`prot`). Some functions have no counter and write a number:
`unprotect(1)` in the `finally` of `isNa`, `bind`, `pluck` and the request `evalRRaw`.
There `Try(k)` adds `k` to `prot` at the place where the `try` begins, so that an
exception before it unprotects nothing, and one after it `k` objects, whether or not
they were protected by then. A frame that ends takes `prot` objects off the stack,
`captureR` at the end of its own `finally` (`Unprotect`). `StackBalanced` says that
the two numbers agree when functions end; in `isNaBare`, whose result is not protected
but whose `finally` is the same, they do not. Data are their shapes: an atomic vector, strings, a list with
named elements, and so on; values are left out. An element or attribute that an object
does not have reads as NULL.

R may collect at every allocation. The model collects then all that is not reachable
from the protect stack, the precious list or the arguments of the call. A function
that uses an object R freed is noted in `stale`, and the run goes on as if R had not
yet collected it, so that one such use does not hide others. `UsesOnlyProtected`
names the functions that do so in the code: `RDataFrame.fromObject` (columns made
one after the other, unprotected, robj-worker.ts:762, and the value of
`as.data.frame`), the type of captured output in `captureR` requests, and calls
through references that no shelter keeps. It says that there are no others.

Requests are dispatched at R's prompt and in the prompts that R code under evaluation
opens (`Dispatch`), so that `captureR` may run inside `captureR`. R's own jump after
an error that was answered (`Unwind`) leaves the evaluations around it. R code draws
(`Plot`), and ends with a value, output, a condition or an error (`FinishUser`). Code of
webR's own that `parseEvalBare` evaluates gives a value. `syncfs`, answered from a
callback, is not among the requests.

### PostMessage

Actions of the worker: `StartR`, `AskMessage`, `TakeMessage` (with
`DispatchRequest`), `RunStatement`, `EndLine`, `Recover`, one for each stage of
`#asyncREPL`. `AskInput` is what R's code gets from `inputOrDispatch` when it asks
for input. Of the main thread: `UserRequest`, `UserLine`, `UserMessage`,
`TimerFires`, `AnswerRead`, `Deliver`, `UserCloses`, `SystemMessage`,
`ConsoleReads`. Messages arrive in order; `close` may keep those the worker has
posted before.

Found and modelled as the code has it: a first nested read returns an empty line; a
message of an unknown type ends the loop without a word; the system loop starts
only when the first objects are there, so that an error of the machine before that
closes nothing; requests pending at close are never settled.

### Proxies

The R worker's JavaScript makes, uses and ends proxies; each use is a system message
(`SystemPut`), taken in order by `MainNewSocket`, `MainSend`, `MainClose`,
`MainNewPeer`, `MainPost`, `MainTerminate`; a throw ends the loop. The browser may refuse
a url, protocols, a close code or reason, options, or what is to be transferred
(`refused`): each of these throws. Real sockets and
workers emit events, which the R worker takes (`HandleEvent`) when it polls and also
while a synchronous post waits; listeners may use proxies again. `excused` records
misuse: a send before the proxy had opened, a post to a worker that was ended, a
script that did not load, an argument the browser refused.

### Repl and Editor

`Repl` has the worker's queue of requests and lines, the answers and output on their
way back, and the output loop, which stops while it opens or deletes the pager's
file. A selection of a plot is rendered later (`PlotsRender`) unless it was a click.
Effects that React runs after a rendering are part of it.

Ctrl-C in the terminal (`UserInterrupts`) is `interrupt()` of the channel as
`SharedChannel` has it: the input queue is reset, requests included, and R is
interrupted in a line (`CutLine`) or at its prompt (`RInterrupted`), where it may leave
a read behind that takes one more item (`DeadReadTakes`). `lost` has the kinds of what
was dropped and nothing has made up for since: a line (until the next prompt), a lookup
of the tree (until the next one), a request of the pager (for ever: the loop awaits it).
`ReplSettles` says of a system at rest that the loop reads, the terminal reads and the
tree is right, each unless its own kind is in `lost`. A loop that awaits an answer
nobody will give is excused by nothing but a request of the pager that Ctrl-C dropped.

`Editor` has the tab objects, the list and index rendered, what they will be at the
next rendering (`next`), and the closures: `saver`, the tab object and the index that
`saveFile` was memoised with, and `opener`, the tab the files interface was registered
with. An event of the user is rendered before anything else happens; what a callback or
a data frame sets is rendered some time later, and the user may act before: on what is
rendered, while `setFiles` and `setActiveFileIdx` go on from what waits. Both are then
rendered together. In particular:

* `CloseTab` makes the list from the rendered one and sets the index only if the closed
  tab is at the active one or left of it, so that an index set by a callback stays for a
  list that is no longer there. The effect that shows the active tab then throws and
  React removes the application (`Alive`).
* `saveFile` is made again when the active tab is another object, not when it has
  another index. After a tab to its left is closed, a save marks another tab clean and
  gives it the view's text, with nothing happening between the save and its callback.
* A file is opened with the list of tabs and the active tab of an earlier time
  (`Opened`), a data frame shown with an earlier active tab (`ShowData`).
* A script may not be written (`Serve`), and a request or a line may be dropped by Ctrl-C
  (`Interrupt`, `LeftReadTakes`).

What goes wrong is recorded by the file it goes wrong for, never for all of them:
`strayText` has the files whose tab was given a text meant for another, or came back out
of an old list; `strayClean` those whose mark was set or lost by a callback; `amid` that
a tab was closed or chosen while the list or the index was about to change; `overtook`
the pairs of runs of which the second was asked for while the first was being written;
`unrun` the runs that Ctrl-C or a failed write ended. The properties hold for all
files, tabs and runs other than these, in the same states. `MaxStray` bounds how far a
run goes on once files are in these sets.

## 3. What the runs show

| run | instance | states | shows |
|---|---|---|---|
| `async_queue` | 2 items, 5 promises | 162k | safety and `ImplementsPairing`; no deadlock |
| `sync_task` | 4 tasks, 3 deep, browser, unencodable responses | 40k | safety, `EveryCallEnds`, `ImplementsBlockingCall` |
| `sync_task_node` | 3 tasks, Node | violation | `EveryCallEnds` fails |
| `shared_channel` | 1 line, 2 requests, 1 event, 1 interrupt, 5 frames | 649k | order and whereabouts of every message |
| `shared_channel_progress` | the same without interrupts, 4 frames | 11k | `RequestSettles` |
| `dead_read` | 1 line, 1 request, 1 interrupt | violation | `IdleReadIsLive` fails |
| `lost_wakeup` | 1 line, 1 event, 1 interrupt | violation | `EventsNoticed` fails |
| `shelter` | 2 shelters, 2 pointers, 3 references, 3 objects | 516k | references and precious list |
| `stray_destroy` | the same | violation | `NotDeletedWhileSheltered` fails |
| `parts` | see below | 1,420k | the safety of `Evaluation`, `PostMessage`, `Proxies`, `Repl`, `Editor` |
| `evaluation_shelter` | 3 requests, no nesting | violation | `ReferenceNotDeleted` fails |
| `editor_view` | the editor of `parts`, one file with a stray tab | violation | `ViewShowsActiveFile` fails |

`parts` checks five modules that share no variable. A behaviour picks a part and
moves only that: the reachable states are the union of those of five separate runs,
not their product, so one run with the five initial states says exactly what five
runs would.

Deadlock is not checked where the system may rest: all tasks used, a closed
channel, an application that does nothing.

Bounds and why they are enough:

* *Promises (5).* Two on either side at once, one taken and one in `flush`: every
  branch of `put` and `get` with more than one element in the list.
* *Tasks (4), depth 3.* A large request, its nested event request, the event
  after that, and a later request that finds a buffer in the pool. The theorems
  need no bound.
* *Frames (5), calls (6).* Prompt, request, nested prompt, request, event
  handler: an interrupt can unwind two requests at once. Identities of calls that
  nobody holds are used again, so the bound is on calls at one time.
* *Interrupts (1).* Two were checked separately at four frames, 2.4 million
  states, with the same result.
* *References (3), pointers (2), objects (3).* One pointer kept twice, one reused
  after a collection, evaluations nested two deep around a purge. References and
  pointers, and shelters, are interchangeable (symmetry; no liveness is checked
  there).

* *Parts.* `Evaluation`: two requests, one inside the other, over every constructor,
  method and option of the model, one plot: a capture in a capture, a failure inside
  either, a call through the reference the first gave. The protect stack and the heap
  are not bounded. `PostMessage`: two messages, lines of up to two statements that
  ask up to twice: a refused prompt followed by a line that is not, an error after a
  refusal, a request behind a line that failed. `Proxies`: one socket, one worker, two
  posts, four system messages: a post made in a listener while another waits; events
  of a socket closed from both ends. `Repl`: one file, three
  acts: a file paged and deleted while it is made again; plots cleared while a
  selection waits; Ctrl-C between two acts, with the pager's request, a line or a
  lookup in the queue. `Editor`: three files, two of them open at first, one edit, two
  of saves, opens, runs, data frames and Ctrl-C, any number of tabs closed and chosen.
  That is enough for two saves of one file, an open between an edit and its save, a run
  after a run or after a failed one, a save after its tab has moved to the left beside a
  third tab, and a tab closed before the one just opened is rendered. A behaviour ends
  (`MaxStray = 0`) in the state in which the first file got a stray text or mark:
  the properties are checked there for the others, and the theorems have no bound.

The six violations are disagreements between the code and its documentation,
each described in `PROJECT.json` under `findings`:

1. *Node's listener* (`webR/chan/task-main.ts:67`): `once` is used up by any
   message; a nested event request sent before the bigger buffer makes the large
   response, and the worker, wait for ever.
2. *A read left behind* (`webR/chan/channel-shared.ts:66`): `interrupt` resets the
   queue at once, the worker unwinds later; a read registered between the two
   stays first in line and swallows the next message.
3. *A lost wake-up* (`webR/chan/channel-shared.ts:307`): the event flag is cleared
   after the last answer, not before the first question.
4. *Release before look-up* (`webR/robj-worker.ts:61`): a `destroy` that fails has
   already released the object another shelter keeps.

5. *References without a shelter* (`webR/webr-worker.ts:713`): the object that a
   method returns is kept by nothing, and R may free it while the application holds
   the reference.
6. *The tab before* (`repl/components/Editor.tsx:455`): the function that stores the
   view's text belongs to the tab that was active when the list of tabs last changed.

### Fairness

* `MainStep`: the main thread's event loop takes messages and resumes settled
  promises. In `SyncTask` this includes that the answer to a request comes in the
  end: events are answered at once, awaited promises settle, and a read assumes
  that the application sends input; without that a worker rightly waits for ever.
* The worker's steps out of a wait that was signalled, or of an event handler
  whose answer is there: it is a thread that runs. In `SharedChannel` also that
  evaluations end, that the console loop reads again (`ConsoleLoop`) and that a
  raised flag is noticed (`NoticeEvents`: R polls, and every wait times out after
  50 ms).
* Nothing is assumed of the application: it need not write, emit or close. New
  requests and timeouts need not happen in `SyncTask`.

`EveryCallEnds` excludes requests behind one whose response could not be encoded,
which the code never answers. `RequestSettles` excludes interrupted and closed
channels, where the code drops requests, and requests that ask for a line.

## 4. What is proved

All theorems hold for every value of the constants that the named assumption of
the module (`AsyncQueueAssumption` and so on) allows: it only separates markers
(`Pending`, `Unasked`, `None`) and kinds of messages from one another, says that
lines are sequences of statements, and makes the bounds natural numbers.

**`AsyncQueueProofs`.** `QueueInv` adds to the checked properties that no promise
is queued twice and that a promise not made yet is pending. Without the first,
`Put` could settle a promise that is still queued on the other side; without the
second, a fresh resolver might have a value. Four lemmas, one for each branch of
`put` and `get`, carry the induction and then, with the shape of the stored items,
the refinement: `QueueImplementsPairing`. Its consequences are `TypeCorrect`,
`OneSidedAlways`, `SidesAlwaysSettled` and `FlushNeverBlocks`.

**`SyncTaskProofs`.** `SyncInv` is the conjunction of

* `PoolOK`: pooled buffers have the class they are filed under and are there once;
* `Owned`: the buffer of a task is allocated, not in the pool, and no other's;
* `StackOK`: the awaited tasks have been started;
* `InboxOK`: each message is the request of a task that was not received, or the
  bigger buffer of a task that listens, at most one of each;
* `Local(t)`: for each place `syncResponse` can be in for a task, what its signal,
  slot, size, target and buffer are, and so what the worker can be doing.

The safety properties each talk about one moment of the protocol; only `Local`
ties the moments together across the two threads, and only `PoolOK`, `Owned` and
`InboxOK` make it stable when another task acquires or releases a buffer.
`SyncInv` was checked by TLC for both values of `NODE` before it was proved. There
is one lemma for each action, then `SyncInvariant`, and from it `SyncTypeCorrect`,
`WokenTaskIsKnown`, `SlotIsFree`, `WriterOwnsItsBuffer`, `ResponseAlwaysFits` and
the refinement `SyncTaskImplementsBlockingCall`. They hold in Node as well: the
defect there loses a wake-up, never an answer.

**`SharedChannelProofs`.** Invariants, each inductive with those before it:

* `StackInv`: a request is evaluated by the prompt that read it, and above a prompt
  that waits there are only event handlers (`ChannelTypes`);
* `CallInv`: an answer belongs to a frame that is still there, a message to a prompt,
  and only prompts make reads. An interrupt that left an answer behind for a frame
  that is gone would break it;
* `OrderInv`: no message is written twice; what was consumed precedes what a read
  was answered, that what a read will be answered, and that what is stored, each in
  the order of `written`; nothing is stored while a read waits. `ConsumedInOrder`
  speaks of the first of these alone; the theorem is `MessagesInOrder`;
* `CalmInv`: until the first interrupt nothing is lost, one read is on its way at
  most, and frames still wait for all calls under way. With it, `QuietChannel`.

* `FlightInv`, `AccountInv`: a call under way is in one place, its answer is nowhere
  else; a request is stored, offered, evaluated, answered or discarded in one way and
  once, and is on the list of parked ones exactly if so. An interrupt unwinds any
  number of evaluations at once: each gets one response (`RequestsAccounted`, by
  counting the pairs of a kind of place and a position);
* `EventInv`: the same for events, which no list of parked ones controls, so that
  they can also be nowhere (`EventsAccounted`).

The proofs go by what a step does to the stack (`Keeps(k, n)`: the first `k` frames
stay and `n` come above them), not by action, as most of the worker's steps differ
in nothing else.

**`PostMessageProofs`.** `MessageTypes` says what is on each queue
(`SessionMessages`). Then:

* `PromptInv`: what the count of prompts is at each stage of the REPL, so that it is
  1 exactly when the line asked and was not refused (`RefusedOnlyWhenAsked`);
* `EndInv`: after an error of the machine the message to close is on its way, and
  after the close the console's (`FatalErrorEndsSession`);
* `ReadInv`: the worker's one read is with the worker, on its way, waiting, or
  answered (`SessionTypeCorrect`, with `PromptInv`);
* `ComingInv`: a read is somewhere while the REPL awaits, a request without a response
  is on its way or its response is, and a busy console will have a prompt. When
  nothing moves, each of these says that the thing waited for is not missing
  (`IdleSessionIsDone`).

**`ShelterProofs`.** `ShelterTypes` and `RefInv` hold of any application: each
evaluation gives a reference of its own, which has no pointer before it ends, and a
`destroy` under way has one. The rest (`Disciplined`) is about applications that
destroy only what they hold (`strays = 0`):

* `OwnInv`: a reference is destroyed once, by its shelter; `PurgeInv`: once a purge of
  a shelter is queued, none of its references is held or destroyed later, and none of
  the evaluations before it will give one. Requests are dispatched in order while
  evaluations end in any, so this is what a purge can rely on;
* `ClaimInv`: a shelter has at least an entry for each reference that is held, or whose
  `destroy` is queued, to a pointer, so `destroy` always finds one; `EntryInv` is
  `PreciousMatchesShelters` (`PreciousMatches`). With both, what is held is precious
  and not collected: `AliveInv` (`HeldReferencesGood`);
* `SizeInv`: what the size counts (`SizesRight`). It needs `PurgeInv` to know that a
  purge leaves nothing to count.

An entry is a place of a list, so that the same object kept twice counts twice. The
lemmas on `Places`, `DropOne` and sets that are paired carry the counting.

**`ProxiesProofs`.** `ProxiesInv` has, for each socket,

* `SocketMadeOnce`: no real socket before the message of its proxy, and one such message;
* `OpensFirst` and `ClosesLast`: the order that `SocketEventsInOrder` asks of what was
  heard holds of what was heard followed by the events that wait, and a real socket that
  connects has emitted none, one that has not closed no `close`;
* `DataWereSent`: data that arrived and data on their way were sent (`SocketsOrdered`);

and for the loop, `PeerMadeOnce` (the map has the workers that run) and `LoopIsSafe`: as
long as nothing is excused, each send that waits is for a proxy that has opened, and each
post for a worker that runs or is made by an earlier message, with no end of it between.
Since a proxy that has opened has heard so from its real socket, no message throws but
one whose arguments the browser refuses (`LoopSurvives`).

`PostsInv` is about each post to a worker: `PostsKnown` (what waits, is listened for,
answered or under way was posted), `FirstInLine` (a post with none ahead of it is the
next one its worker takes, and an answer it has is its own) and `NotForgotten` (a
synchronous post is answered, on its way, or in the worker's queue and listened for).
When nothing is under way, the last two leave only an answer (`PostsReturn`).

**`EvaluationProofs`.** The first part does not look into the code of the frames.
`FramesInv`: frames are well formed, the first is a request's, and an exception is in one
of them. `EvalSteps` sorts the actions into four kinds: a frame goes on, one begins, one
ends, and none of these.

The rest is about what each frame still has to run. `EvalInv` adds to `FramesInv`:

* `HeapInv`: fields, the protect stack, the precious list and the references of the
  main thread name objects there are, and precious ones are not collected. A step may
  make the heap longer (`HeapGrows`), and between requests what nothing refers to is
  left out of it (`NamedIs`);
* `FunctionsInv`: each frame is `Good` for the heap. Its locals name objects, and its
  code is what is left of one of three shapes: a constructor, a method or a request,
  whose steps leave the session alone (`Straight`); `captureR` before its `finally`
  (`Trying`: the order in which it goes on is `Trial`) and in it (`Finishing`). That
  each constructor, method and request has code of the first shape, for data with any
  number of parts nested up to two deep, and `captureR` of the second, is shown operator
  by operator (`ConstructorCode`, `MethodCode`, `RequestCode`, `CaptureCode`);
* `CalmInv`: what runs above a frame in its `finally`, or above one that has nothing but
  calm steps left before it, is calm: it calls only what R cannot fail in. Without it an
  exception could come out of a `finally` and leave the rest of it undone;
* `ThrownInv`: while an exception is on its way no frame is in its `finally`;
* `QuietInv`, `DeviceInv`, `PlotInv`: an option that differs from what is configured is
  one that a frame is still going to restore; an open device belongs to a `captureR`
  that will close it, the devices of nested ones are numbered upwards, and the one that
  was current before is still open; a plot in the cache is to be destroyed by the
  `captureR` that holds it, is drawn on the device of one that will look for it, or was
  left by one that failed.

`SessionRestored` is not inductive without all of these: that a frame which ends has
nothing left to restore (`Clear`) follows from its shape, and that its shape is kept
when an exception replaces the rest of its code from `ThrownInv` and `CalmInv`. With
no frame left, `SessionInv` is `SessionRestored` (`SessionKept`), and `HeapInv` and
`DeviceInv` give the types (`EvalTyped`).

**`ReplProofs`.** `PlotsInv`: the selected plot is at most the last one rendered, and
that at most the number of canvases (`SelectionIsAPlot`).

`SettlesInv` says what is on its way for each thing that is not yet as it will be:
the answer the pager waits for, unless it was lost (`PagerWaits`), the prompt that makes
the loop or the terminal read (`PromptFollows`, `TerminalFollows`), and for the tree
either a lookup to come or a last lookup under way that has the files there are
(`LookupFollows`, `Tells`). With every queue empty all that is left is rest, or what
Ctrl-C took (`ReplComesToRest`). Each part is about a sequence to which a step adds an
element or drops one, or which it empties; that is what the lemmas on queues are about,
and an action only combines them.

`RunsInv` is about the one file that all code of the editor is run from. A run is a
script to be written, then an answer, then a line, and each of these waits in a queue;
`RunsStages` says that in each queue the runs are in order and that those at a later
stage were asked for first, but for a script that waits among others: it was asked for
while they did, so that the pair is in `overtook`. The text in the file when a line is
read is then that of its run or of one that overtook it (`Told`), and a run is in one of
the stages, done, or in `unrun` (`RunsKept`). From these, `CodeRunsAsAsked`.

`TabsInv` has the types of the editor's state and two facts that the code relies on
without a check: with no rendering due, what is rendered is what was queued, and `saver`
has the object of the active tab. Its part about the index is about the rendered list
and, apart from it, the next one: a callback that adds a tab sets both the list and the
index, so that each pair fits, but `closeFile` takes the list from one and the index from
the other (`TabsStayTyped`; `amid` excuses this case, and no other).

`TextInv` is, for each file not in `strayText`: it has at most one tab, in the list
rendered, the next one and those that files being opened will be added to; the tab of the
next list has its latest text; and the view has it while it shows the file (`TextAt`). A
step either leaves all this to the file, or puts it in `strayText`: what has to be shown
of `Marks`, of `Synced` and of a list that is put back is that no file but those named
there is touched (`TabsKeepTexts`). `CleanInv` adds, for each file not in `strayClean`,
that the texts on their way to its file are in the order of the edits and not later than
its tab's, that those whose save has ended are not later than the file's, and that for a
tab which is not marked they are all the same (`CleanAt`). A save that ends well, with the
file's own tab at its index and its text in the view, then finds that text in the file
(`CleanTabsAreSaved`).

Only model-checked: liveness (`EveryCallEnds`, `RequestSettles`, `EventsNoticed`;
fairness is beyond the prover), and two properties of `Evaluation`. For `StackBalanced`
one would have to say of each function, at each of its steps, how many objects it has
protected and how many it will unprotect; with hand-written numbers that is a statement
about the text of each, and TLC has every function run to every end. For
`UsesOnlyProtected` one would have to say for each function which of its variables R can
reach at each of its steps, and through which other object; and reachability is computed
to a fixed depth, which is enough for the values of the run but not for every one.

## 5. What is not modelled

* R's evaluator. It ends, asks for lines, polls for events, gives results or
  fails; interrupts are taken at once. R can defer one while interrupts are
  suspended, in which case `handleEvents` goes on; that is not in the model. Nor are
  jumps of R to its top level through JavaScript frames, as an error in the code that
  `parseEvalBare` evaluates would be (a user's method for `is.na` in `isNa`).
* `syncfs`: its answer comes from a callback, and never if the callback throws.
* Messages that another worker posts without being asked.
* Contents of messages and of R objects; encoding only as far as it fits, does
  not fit, or throws. Element types of vectors, typed arrays, factors of a data frame.
* `eval-await` requests, and the output queue, beyond being blocking calls and
  asynchronous queues.
* The start of the worker and its failure to load; `init`; the other callbacks of R's
  console.
* Mounting and downloads: sequential, without a state that lasts. Console callbacks.
* Node's variant of the proxies: there the listener of a blocking post is registered
  with a method that `worker_threads.Worker` does not have.
* Of the REPL application: HTML tabs and the browser pane, shared links, downloads,
  completion, resizing, the tree's expanded nodes.
* The build, type declarations, tests and documentation.

## 6. Plan

Done: all modules of section 2, and a theorem for each safety property that a run
checks but `StackBalanced` and `UsesOnlyProtected` of `Evaluation` (end of section 4).

Left, in order:

1. `StackBalanced`: for each function, what it has protected and will unprotect at each
   of its steps.
2. `UsesOnlyProtected`: reachability to any depth, in a form that can be both evaluated
   and reasoned about, and for each function which of its variables are protected at
   each of its steps.
3. An abstract counterpart of `PostMessage`: one read at a time, in order.
