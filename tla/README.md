# llama-skein in TLA+

llama-skein puts one HTTP endpoint in front of many local inference servers
(llama.cpp, MLX, vLLM). It starts a model's server when a request names the
model, stops the models that would compete with it for the GPU, and proxies the
request. This directory holds TLA+ modules for the parts of it where the
difficulty lies in the order of things, TLC configurations that check them on
small instances, and proofs of their main properties for every instance.

Paths below are relative to the repository; `internal/` is left out where it
is plain from the file name.

## Inventory

### Process lifecycle (`process/process.go`, `process/process_command.go`)

*State*, owned by one goroutine (`run`) per model: the lifecycle state, `cmd`
with its context, the parked `Run` caller, the parked `WaitReady` callers, the
crash history. Shared atomics: the published state, the HTTP handler,
`possiblyLeaked`, `inflight`, `lastUse`.
*Operations*: `Run` (blocks until the process is terminated), `Stop`,
`WaitReady`, `State`, `ServeHTTP`. Each is a message to `run` and an answer.
*Hard*: `doStart` runs in a goroutine of its own while `run` waits for its
result, a Stop, or shutdown; a kill can give up, after which `reapLeaked` polls
until the old process has gone; the upstream can exit at any time; three
tickers (TTL, inference probe, busy slots) call `Stop` on what they read some
time ago.
*Correct when*: there is never a second OS process, no live process is
forgotten, every caller is answered, `Run` returns only when its process is
gone, and the states move only as `process.go` documents.

### Router core (`router/base.go`, `router/group.go`)

*State*, owned by one goroutine (`run`): `active` swaps with their waiters and
evictions, `inFlight` per model, the FIFO `queued`.
*Operations*: a request arrives (`handleRequest`), a swap goroutine reports
(`handleSwapDone`), a served request ends (`handleServeDone`), a tick expires
queued requests, `Unload`, `Shutdown`. A swap goroutine (`doSwap`) stops the
evicted models, calls `Run` in another goroutine, calls `WaitReady` and reports.
*Interacts* with one process per model through `Stop`, `Run`, `WaitReady` and
`State`, and with its callers through a channel that they may leave.
*Hard*: several swaps in parallel; decisions taken on counts and states that
change before they are carried out; callers that leave while being granted;
swaps that outlive the table entry they were started for.
*Correct when*: a busy model is never stopped for another, models that exclude
each other are never loaded together, the in-flight counts are exact, and every
caller is answered.

### Matrix planner (`router/matrix.go`, `router/matrix_solver.go`, `config/matrix*.go`)

Takes the place of the groups when the config has a matrix. Stateless: for a
target and the running set, choose the permitted set that costs least to reach.
*Hard*: a set permits its models together and says nothing of others; a target
that is already running is taken as it is, whoever started it. *Correct when* the
choice is minimal, the evictions are those of the chosen set, and swaps running
in parallel do not together load what no set permits.

### Model operations (`operation/`, `server/apimodeloperations.go`)

*State*: a JSON record per operation on disk, `.part` files, installed files;
an executor goroutine per operation. *Operations*: create, run phase by phase,
cancel, recover at start, clean up, prune. *Hard*: executor, cancel handler and
recovery each load, change and save the whole record; the program can stop
between any two writes; operations can share a destination. Each server has its own `Store` over the one directory. *Correct when* a
terminal phase is final, phases advance one by one, an unfinished record has an
executor or says it was interrupted, both as far as the record could be saved,
nothing is written to the config that is not installed as its plan says, and
cancelled storage is reclaimed.

### Configuration reload (`llama-skein.go`, `server/reloadrunner.go`, `server/apiconfig.go`, `config/runtime_state.go`, `config/history.go`, `watcher/`)

*State*: the file, the active server, last good bytes, validity, the staged
attribution, the snapshots; `running` and `dirty` of the coalescing runner; a
`configMu` per server. *Operations*: handlers of the config API edit the file and
trigger a reload, or restore a snapshot; the watcher and SIGHUP trigger; a pass
reads the file, builds a server, archives the old content, publishes the new
server and shuts the old one down. *Hard*: triggers race with a pass that has
already read the file; a rollback truncates the file in place; the new server
serves before the old one has stopped; each step can fail. *Correct when* no
trigger and no acknowledged edit is lost, passes do not overlap, every replaced
configuration can be rolled back to, and no attribution is left staged at rest with
a file in use.

### Admission, watchdogs, placement retry (`server/concurrency.go`, `wedgewatchdog.go`, `memguard.go`, `placementretry.go`)

*State*: a semaphore per model; counters of consecutive samples and a cooldown;
the rungs tried per model. *Hard*: an unload issued asynchronously can reach an
instance that is not the one that was judged. *Correct when* a limit is never
exceeded or leaked, a trigger needs its consecutive samples, a model climbs one
rung per failure within its budget.

### Event bus and log monitor (`event/`, `logmon/`, `server/log.go`, `server/apisystem.go`)

*State*: per consumer a queue, the batch being worked off and a flag that it
takes part; the circular buffer of a log monitor; the bounded channel of each
HTTP client. *Operations*: subscribe, cancel, publish (which waits while a queue is
full), the loop of a consumer; a log line is written to the buffer and then
published; a client gets history and live lines. *Hard*: backpressure against
unsubscription, a handler that publishes to its own group, history and
subscription in two steps, wrap-around. *Correct when* a consumer gets each event
between its subscription and its cancel once and in order, history and live
lines fit together, and publishers come back.

### Caches, metrics (`cache/`, `ring/`, `server/metrics*.go`)

Sequential structures behind one mutex each.

### The rest

Config parsing, memory-fit arithmetic, sampling of the host, the management
API, peer proxying, the installers, the generated contract types, the UI and
the legacy proxy have no protocol of their own; `PROJECT.json` lists each with
its reason.

## Modules

| module | models | composed of |
|---|---|---|
| `ProcessLifecycle` | what one process promises (abstract) | |
| `ProcessService` | the interface between the router and one process (abstract) | |
| `ProcessCommand` | `process_command.go`: `run`, `doStart`, `killProcess`, `reapLeaked`, the breaker, callers | instantiates `ProcessLifecycle` and `ProcessService` |
| `ProcessCommandProofs` | theorems of `ProcessCommand` | extends it |
| `MatrixPlanner` | `matrix_solver.go`: candidates, costs, the choice, the evictions | |
| `Router` | `base.go`, `group.go`, `matrix.go`, and the process as the router sees it | extends `MatrixPlanner`, instantiates `ProcessService` per model |
| `RouterProofs` | types, the invariant, busy models, one process | extends `Router` |
| `RouterRequestsProofs` | parked requests and in-flight counts; every process keeps to `ProcessService` | extends `RouterProofs` |
| `RouterSharingProofs` | models that exclude each other; the solver's choice; swaps that go on | extends `RouterRequestsProofs` |
| `MCProcessCommand`, `MCRouter` | instances for TLC | |
| `Operation` | `operation/`, `apimodeloperations.go`, and the reload pass as operations see it | |
| `OperationProofs` | theorems of `Operation` about records | extends it |
| `OperationStorageProofs` | theorems of `Operation` about files | extends `OperationProofs` |
| `MCOperation` | instance for TLC | |
| `PassPerTrigger` | what the coalescing runner promises (abstract) | |
| `CoalescingRunner` | `reloadrunner.go` | instantiates `PassPerTrigger` |
| `ConfigHistory` | `runtime_state.go`, `history.go`: what outlives a server | |
| `Reload` | `reloadPass` of `llama-skein.go`, the handlers of `apiconfig.go`, the watcher | extends both |
| `ReloadProofs` | theorems of `Reload` | extends it |
| `MCReload` | instance for TLC | |
| `EventLog` | what the dispatcher promises for one type of event (abstract) | |
| `Dispatcher` | `event.go` | instantiates `EventLog` |
| `LogMonitor` | `logging.go`, the streams of `log.go` and `apisystem.go` | extends `Dispatcher` |
| `LogMonitorProofs` | theorems of both | extends `LogMonitor` |
| `MCLogMonitor` | instance for TLC | |

### ProcessCommand

`state`, `possiblyLeaked`, `cmd`, `handler` and `readyWaiters` are the code's
variables. `loop` says where the `run` goroutine is: in its main `select`, in
the inner one that waits for a start, or in one of the blocking calls in
between (a kill, the wait for the result of an aborted start). `start` is the
program counter of `doStart` and `cancelled` its context. `live` counts OS
processes of this model. `runPc`, `stopPc`, `waitPc` hold where each caller is
and what it was told; `runResp`, `curRun`, `curStop` are the requests `run` is
answering. `crashes` and `cooling` abstract the crash history: how many exits
the window holds, up to the threshold, and whether the cooldown runs. Time is
an action (`TimePasses`) that forgets crashes and ends the cooldown.

Each arm of a `select` is an action: `AcceptRun`/`RefuseRun`, `AcceptStop`,
`AcceptStopIdle`, `AcceptWaitReady`, `UpstreamExited`, `ShutdownIdle`,
`ShutdownRunning`; in the inner select `StartSucceeded`, `StartFailed`,
`StopDuringStart`, `ShutdownDuringStart`. A kill has two outcomes: confirmed, or
given up with `possiblyLeaked` set and `reapLeaked` polling from then on, also
past the end of `run`. The environment lets the process exit whenever it likes,
and a `WaitReady` caller whose own context ends leaves (`GiveUpWaiting`) without
`run` being told.

### ProcessService

What the router can see of one process, and what the process can count on from
its callers: the published state, who has called Run, WaitReady and Stop and who
is still waiting, and whether a process of the model may hold the GPU. A start,
its abort and a kill are one step each. `ProcessCommand` implements it with
`holding` read as `MayBeAlive`: the router's model has a process from the moment
Run is accepted, the code from the moment `doStart` executes it. Each of the
processes inside `Router` implements it too. That is agreement in one direction:
both stay within the interface, and neither is shown to use all of it.
What a Stop answers is not part of it: `doSwap` calls several in parallel and
keeps one error for all.

### Router

`active`, `evict`, `waiters`, `inFlight`, `queued` are the tables of `run`; a
walk over the queue is one step per item (`pending`), because the planner reads
process states that change meanwhile. A request carries the program counter of
the swap goroutine it may start (`swapPc`, `toStop`, `swapErr`); `runs` holds the
`Run` calls that have been issued and not accepted. The process of each model is
reduced to what the router can tell apart: `pState`, `live`, `possiblyLeaked`,
`stopper` (whose Stop it is carrying out). That this reduction stays within the
interface is `ProcessesServe`, and that `ProcessCommand` does is
`ImplementsService`. Neither says that the reduction can do all that
`process_command.go` does; that rests on reading the two side by side (each
action of a process in `Router` names its lines). What may go wrong is counted in `faults` by kind (an unload, a
Stop issued by the process's own tickers, a start or upstream that fails, a
kill that gives up, a shutdown), so that a run can say which it includes.

`planner` is fixed at the start: the groups or the matrix. `EvictionFor` asks
the one or the other, as `groupRouter` and `matrixRouter` do, over the models
that are neither stopped nor failed and those that are about to run.
`MayShareTheGPU` is what the config means: under the groups, no two of the models
evict each other; under the matrix, they lie in one set, or there is only one.

### Operation

`record` is the state directory; what the program stores in a record is reduced
to its phase and whether its last warning tells of an interruption. `pc` is
where each executor's goroutine is: its request with a server (`accepted`), at
work (`run`), between the check and the
write of a save (`write`), or reclaiming storage after `Run` has returned
(`reclaim`, `sweep`, `drop`). `phase` is the phase in the executor's own copy,
which is not the stored one: that difference is what cancellation is about.
`cancel` is the handler of `POST .../cancel`, with the same two steps. `store`
and `cancelStore` say through which server's `Store` each of them saves, because
every `server.New` makes another one over the same directory and the mutex
belongs to the `Store`. `Save`'s check and write are separate steps; `Locked`
keeps out whoever uses the same `Store`.

`part` and `dest` are the partial and the installed file of each destination:
whether it is there, and the sequence of what was written to it. A unit is what
one read brings, known by the revision it is from and its place in that
revision's file; a place nothing was written to is a `Hole`. Every plan has its
own revision and its own sizes (the handler takes both from the request), while
the destination is the same for every revision. `fd` is an executor's open
partial file; a rename or removal by another executor changes what it writes to,
as it does on a POSIX file system. `AsPlanned` is the size check and, for
operations whose plan has digests, the digest: every unit in its place and of
the plan's revision.

The disk may refuse any save, removal or rename (`"disk"`). A refused save is
handled as each caller does: the create handler answers with it, the executor
logs it and goes on or ends, the cancel handler answers with it, recovery ends. A
record that is there can be read: failures of `Load` and `List`, and of making
the `Store`, are not modelled.

`srv` follows the process through start,
reload and swap; `recovery` is `Recover` at work on what it has listed.

Coarser than the code: a directory is listed in one step, the two `stat` calls at
the head of `downloadOne` are one step, the check and the write of a record's first
save are one step because nobody else knows its id, and `stopIfCancelled` is part of the
check of the save that follows it. `Register` writes the config file in one
step, and `registered` only grows: it says that a model was written to the
config, not that it is still there. What later edits, removals, or a lost update
between two servers do to the file is `Reload`'s. The reload it triggers is a
reload like any other, which may come at any time.

Six history variables carry premises that the code needs. `clash` holds the
destinations that two operations used at once: the code has no lock on a
destination, and with two writers the file can be anything. `reloadedOver` holds
the operations under way at a reload: `Recover` then saves copies through a new
`Store` while the old one is in use. A crash makes them ordinary operations again,
except those whose run was over. `pruned` holds those whose record was
removed, which a save can bring back. `unsaved` holds
those whose record lacks something because a save failed and none has gone
through since. `missed` holds the destinations whose partial file a failure made
reclaiming pass over. `installed` holds, for each destination, the operations
that have installed the file that is there now.

### Reload

`CoalescingRunner` is `NewCoalescingRunner` with its `running` and `dirty`; `at`
says where each caller of the trigger is. Whoever finds nobody running leads and
runs the function until `dirty` stays clear; in `Reload` the function is
`reloadPass`, whose locals are `step` and `raw`: it reads the file (`BeginPass`),
loads it and builds a server (`BuildServer`), archives the old content
(`ArchiveOld`), publishes the new server (`SwapServer`) and shuts the old one
down (`RetireServer`, which says nothing of the old models: a Stop that failed is
only logged), with the early returns of the code after a refused file
or a failed `server.New`. A handler (`hs`) takes the `configMu` of the server it
runs on (`srv`), reads and edits the file, opens the temporary file (`OpenFile`,
which truncates it), fills it (`WriteOut`, which may fail or stay partial) and
renames it, stages its attribution and calls the trigger; a rollback does the first
two to the config file itself. The temporary file has one name for the handlers of
every server, so a rename moves whatever is there: `fd` says where the file each
handler has open is by now, and a write can land in the config file; a reload request loads the file to validate it,
then sets what `/health` reports.

A file is reduced to where it comes from and which API edits it carries, or it
is not YAML, or not there. Some edits are such that the loader refuses the
result. `history` is the directory of snapshots, newest first; how many are kept is up to
the configuration being loaded (`Keep`), and which of them are young enough to keep
besides is the clock's choice. Hand edits and failures (of the disk,
of `server.New`) are counted. Four variables only remember: `buildFailed`,
`unannounced` (nobody has called a trigger since the file was edited by hand, left
half restored, or changed by a handler whose temporary file another had renamed),
`replaced` (what the last transition replaced) and `unarchived`; they carry
premises of the properties.

### Dispatcher and LogMonitor

`Dispatcher` is one group of `event.go`, which is all there is to one type of
event. `pc` is where each publisher and consumer is: finding the group, offering,
asleep for want of room, waiting for events, in a handler, between two callbacks
of a batch. `queue` and `pend` are the two slices a consumer swaps; whether one
is full, for which the code keeps `maxLen`, is read off the queues. A wake-up by
`cond` and what it finds are different steps. The histories `log`, `from`, `upto`, `given` are those of `EventLog`.

`LogMonitor` puts the log monitor and its two HTTP handlers on top. A write puts
a line into the circular buffer and then publishes it: two steps. `/logs/stream`
sends the history and then subscribes, `/api/system/events` subscribes and then
asks for the history; the second one writes a warning to the monitor it follows
when its client is too slow, so its callback is also a publisher. A line is a
sequence of cells, which stand for bytes; `Put` and `GetHistory` are
`circularBuffer.Write` and `GetHistory` on them. `told` remembers what each client
was sent of the buffer, and which lines were on their way when it was read.
Nothing is claimed for a client whose history found its channel full and was
dropped, or that has left.

## What is checked

| run | instance | states | what it shows |
|---|---|---|---|
| `process_command` | 2 Run callers, 2 Stop callers, 1 waiter, crash threshold 1, warm-up on | 465 thousand | type, one instance, no lost process, no forgotten caller, Run blocks, implements `ProcessLifecycle` and `ProcessService`; every Stop and every starting waiter is answered |
| `stop_means_gone` | the same | | a Stop can report success over a live process |
| `router_safety` | 3 models in 2 groups or in a matrix of 3 sets, 3 requests, one fault of any kind | 3.0 million | the safety properties of the router, under either planner |
| `router_service` | 2 models that exclude each other, 2 requests, any 3 faults | 691 thousand | each process inside the router's model keeps to `ProcessService` |
| `router_liveness` | 2 models that exclude each other, 3 requests, a failure or a shutdown, either planner | 453 thousand | every parked request is answered |
| `stale_swap_done`, `contested_start`, `failure_answers_own_start` | the router instance | | three comments of the code that do not hold |
| `operation_safety` | 2 operations of different revisions, of two files and of one they share; any 2 cancels or crashes, or 1 termination, or 1 refusal of the disk; one terminal record kept; while the second has not begun (constraint `Focus`), up to 3 of these and reloads | 1.1 million | the record tells the truth as far as it could be saved, what is written to the config is installed as planned, cancelled storage is reclaimed; the same with `Recover` run on a live operation and several `Store`s over one directory |
| `reload_aborts_downloads` | 2 operations, one reload | | a reload ends the downloads under way |
| `config_reload` | 2 calls of the config API of any kind, the watcher, one hand edit or failure | 849 thousand | no trigger and, on one server, no edit is lost; every replaced config is archived under the retention of its successor; at rest with a file in use nothing is staged; the same with a temporary file that the handlers of two servers share; the runner implements `PassPerTrigger` |
| `log_monitor` | 1 writer, one client of each kind, queues of 1, a buffer of 3 cells, 3 lines | 484 thousand | the dispatcher implements `EventLog`; history is the tail of what was written and meets the live lines; no wake-up is lost; writers return |

*Bounds.* Two Run and two Stop callers are enough for one of each to be refused
while another is being served, and to overlap a start with a Stop and another
Stop waiting behind it. Callers call once: what a second call could meet is met
by the second caller. A crash threshold of one lets the first crash open the
breaker, so that the second Run is refused, or is let through once the cooldown
is over and crashes again; the theorems hold for every threshold. In the router, two models of one swap group and a
third in a group of its own give every case of the group planner; the matrix
permits the three two by two and not all together, with unequal costs, so that a
swap has sets to choose from, ties occur, and two swaps could each be permitted
and not both. Three requests are
enough for a swap with a waiter that joined it while another request queues.
One fault suffices for each of the deviations found; two or more of them are
covered by the theorems; `router_service` allows three, since a process is at its
most peculiar after a kill that hung, a reclaim and a stop. `Symmetry` permutes
requests, which the specification never tells apart; it is used in these two runs
only.

In `operation_safety` the first operation installs a file of one unit of its own
and one of two units both install; the second installs only that one, from
another revision, and its plan says one unit. So the
other's file is never of the right size, a partial file of one revision is
resumed in the other, and two units are the least that let a crash or a removal
fall between two reads. There
are two directories to start from: the first one's own file whole and a unit of
the wrong revision in the shared partial file; or its own file of the right size
and the wrong revision, and the shared one whole. One operation has digests and
the other has none. A response may end anywhere, and run one unit over the size
(`MaxOverrun`). Keeping a single terminal record makes the pruning of the other
one happen. Two faults put a cancel before or after a crash or two crashes in a
row, and a cancel of each operation, the second once the first one's run is over; a
termination, with the end of the process that follows it, comes alone, and so does
a refusal of the disk, at any save, removal or rename. The constraint `Focus`, which
says this, admits reloads, which multiply the states of both executors by
those of the pass, and a third fault, only while the second operation has not
begun: a second reload over the first, with a cancel or a crash, or one reload
with a failed save.
It also leaves out combinations of a fault with a file longer than its plan says.
Several operations under a reload, and any mix of refusals and other faults, are
covered by the theorems; the violation run covers reloads up to its
counterexample.

In `config_reload` two handlers are enough for a trigger that joins a pass and one
that arrives when the pass has read the file, and for two edits through the same or
two servers; one edit is refused by the loader, and each handler may also roll
back or ask for a reload. With one snapshot kept and a cap of two, the second
transition prunes. One mishap is either a hand edit, which leaves a configuration
that turns the archive off (`keep: 0`) or no file, or a failure at any step. A
file that is not YAML comes about through the handlers themselves. The two
handlers may run on different servers, so that each finds the other's temporary
file under the one name. The theorems have no bound.

In `log_monitor` lines of two, two and four cells in a buffer of three take every
branch of `circularBuffer.Write` (it fits, it wraps, it is longer than the buffer)
and both of `GetHistory`. Queues and channels of one make every wait and every
dropped line happen. At the last line of the bound the warning about a dropped
line is not written any more, since the bound is one on lines.

*Fairness.* `ProcessCommand` assumes that the `run` goroutine and `doStart`
take their steps, and that a caller notices shutdown: the Go scheduler runs
every goroutine that can run, and a health check is bounded by its timeout. It
does not assume that callers call, that a process exits, or that the reaper
ever succeeds. `Operation` has no liveness property: its HTTP client has no
timeout, so a download that stalls may never end. `Router` assumes that the run loop, the swap goroutines and the
processes keep taking the steps open to them (`Progress`); it does not assume
that a served request ever ends, that a new one arrives or that a fault
happens. `Answered` therefore holds even behind a request that never finishes:
the queue timeout is what gives the answer. `Reload` assumes that
a goroutine that has called the trigger goes on, in its pass and around it; nobody
has to call, to answer or to edit, and the watcher need not tick. `LogMonitor` assumes that
the goroutines of publishers and consumers run and that a callback returns; a
connection may be slow forever and nobody has to write, disconnect or leave. Since
`MaxEvents` bounds the publications of a behaviour, `WritersReturn` says that a
writer is not forgotten asleep; that it is not starved by other publishers who
take the room each time is not examined, and `sync.Cond` does not promise it.

*Deadlock* is not checked: with every caller answered and nothing to do the
system rests, which is a normal state.

## Where code and comments disagree

The violation runs exhibit five; each quotes its comment in `PROJECT.json`.

* `stop_means_gone`: a Stop that aborts a start answers nil although the kill of
  the half-started process was given up (`process_command.go:775` drops the
  result of `killProcess`).
* `stale_swap_done`: after an Unload the report of the forgotten swap is taken
  for that of the next swap of the model (`base.go:361` looks up by model).
* `contested_start`: the planner passes over stopped and failed models, so it
  starts a model beside one whose kill is unconfirmed (`group.go:96-102`).
* `failure_answers_own_start`: `doSwap` starts `Run` in a goroutine and calls
  `WaitReady`, which on a failed process can return the previous failure while
  the new start goes ahead (`base.go:618-629`).
* `reload_aborts_downloads`: an operation runs on the `shutdownCtx` of the server
  that accepted it, and each reload shuts that server down
  (`apimodeloperations.go:135-142`, `llama-skein.go:334`): a download in progress
  fails although the process lives on.

Met while modelling, visible in the models, and without a run of their own:

* a Stop that aborts a start does not reset the crash history, which the comment
  at `process_command.go:60-64` says an explicit Stop does;
* when a kill hangs and is reclaimed later, the `Run` of the next swap is refused
  and its `WaitReady` parks; no one answers it until another start. An Unload or
  a self-stop between the Stops of a swap and its `WaitReady` can strand it in the
  same way. This is why `Answered` is claimed of instances without these faults,
  and why `ActiveSwapsAdvance`, its safe part, has them as its premise
  (`Unforced`): TLC finds a stranded swap when any one of the three is let in;
* models that exclude each other can be alive together after an unload (a swap
  goroutine it has forgotten still starts its target), a failed start or exit, a
  hung kill, or during shutdown. `ExclusiveModelsNeverShareTheGPU` has these as
  its premise, and holds with self-stops;
* the goroutine of a swap that an Unload took out of the table goes on to stop its
  victims, and a request may have been granted to one of them since, because it is
  no longer anybody's victim: a busy model is stopped for a competing one, which
  the comment at `base.go:435-438` rules out. `ActiveSwapsEvictOnlyIdle` speaks of
  the swaps in the table only;
* a Stop whose kill could not be confirmed answers the parked `Run` with nil
  (`process_command.go:570`), although "Run blocks until the process is
  terminated"; `RunBlocksUntilTerminated` has the flagged process as an exception;
* the session cap is applied to a request that finds its model ready, not to
  those that joined a swap or waited in the queue;
* the contract says that cancelling a finished operation returns its snapshot; the
  handler answers 409, or 500 when the executor ends between its load and its
  save (`apimodeloperations.go:446-456`);
* a partial file of full size with wrong bytes is never removed, so that every
  retry fails its verification; a file of the right size and another revision at
  the destination is never replaced (`executor.go:399-418`);
* an install of another revision of a repository, of another size, replaces the
  files a model in the config is using, because destinations do not depend on the
  revision (`source.go:96-109`);
* a save that fails does not stop an executor (`executor.go:287-292`): the record
  stays at an earlier phase and catches up at the next save. If it is the last
  one (`executor.go:308-310`), the record stays unfinished with nobody at work on
  it and no warning, until a reload or a start marks it;
* a rejected or failed save ends `Recover` with the remaining operations not
  looked at (`recover.go:38-42`). A rejected one can in `Operation` only happen
  at a reload;
* one partial file that cannot be removed ends the cleanup of all the others
  (`cleanup.go:56-58`);
* under the matrix, an `Unload` lets a swap it has forgotten load its target a
  beside an exclusive c that has been asked for meanwhile: a request for a then
  finds a running, and the solver evicts nobody for it (`matrix_solver.go:52`),
  where the groups' planner would queue it. Hence `NoConflictingSwaps` is claimed
  of the matrix only as long as nothing of that kind has happened (`Undisturbed`);
* each server has a `configMu` of its own: a PATCH accepted by the old server can
  write its copy of the file over the edit of one accepted by the new server,
  which had been acknowledged. The comment at `llama-skein.go:241-242` says that a
  PATCH is never lost. `AckedEditsSurviveOnOneServer` has one server in its
  premise; without it TLC finds the case;
* the temporary file of `atomicWriteFile` has one name for all servers
  (`confighelpers.go:60-63`): when a handler of one server renames the file that
  one of another has open, the latter's write goes into the config file itself, its
  own rename finds nothing, and the client is answered 500 with no trigger. The
  change is noticed by the watcher only. `Converged` has it in its premise;
* an attribution staged for a file that is then refused, or while `server.New`
  fails, waits for the next reload that goes through, whoever caused it, and a pass
  already under way may take one before the change's own trigger.
  `runtime_state.go:38-39` says that a reload without such a handler has none;
* `Shutdown` only logs the Stops that failed (`base.go:668-671`) and a failed
  `server.New` is logged and the old server kept (`llama-skein.go:294-301`): the
  models of two servers can be alive together past the end of a pass, and a file
  that loads can be on disk and not in use. `Converged` exempts the latter;
* the reload endpoint reports the file invalid from a reading of its own, which a
  pass may have overtaken (`apiconfig.go:475`): `/health` can then say invalid of a
  file that has been put right, until the next pass. `Converged` says nothing of
  what `/health` reports of a file that loads;
* a callback of `/api/system/events` that drops a line logs a warning, which is
  published to the queue that the callback is itself to empty: when that queue is
  full the handler waits for itself, and with it every writer of the log.
  `NoWakeupIsLost` and `WritersReturn` exclude this state; TLC reaches it;
* a cancelled consumer that is asleep is not woken by its cancel (`event.go:284-298`):
  its goroutine stays until the next event of that type;
* the profiler records the plan a model was given at boot as measured to work
  (`placementprofile.go:138-172`), also when that plan has failed and the model
  runs on a command of the retry ladder. Not modelled; listed as a hazard.

## What is proved

TLAPS checks eight proof modules; the theorems hold for any sets of callers,
models, groups, matrices, requests, operations, files, handlers, edits,
publishers and consumers, any limits and any number of faults.

`ProcessCommandProofs` rests on `NoCallAssumption`, `ThresholdAssumption` and
`NeedsWarmupAssumption`. `OneInstance` alone is not inductive: whether `Run` may
start a process depends on where the last one went. The invariant `IInv` adds
`Control`, which combinations of loop, start, state, `cmd`, handler and waiters
occur, and `Account`: an OS process is alive only if `cmd` holds it, or a start
in progress does, or `possiblyLeaked` is set, and never by two of these at once.
A flag excludes a held `cmd` and a start under way, which is what lets the next
Run be refused on the flag alone. From it follow `AtMostOneInstance`,
`EveryProcessTracked`, `NobodyForgotten`, `ParkedCallersAreHeld` (a caller blocked
in Run, Stop or WaitReady is one `run` is holding on to, or a Run caller that
shutdown releases), `RunBlocks`, and by step
simulations `Implementation` and `ServiceImplementation`: `ProcessCommand`
implements `ProcessLifecycle` and `ProcessService`.

`RouterProofs` rests on `RequestsAssumption` (finitely many requests, for the
counts), `FaultAssumption` and `StopperAssumption`. `ActiveSwapsEvictOnlyIdle`
is inductive once types are known and a walk of the queue is known to have an
item to look at (`LoopHead`): a grant to m is only given when no active swap
evicts m, and a swap is only started when its victims are idle, are no targets
themselves, and its target is nobody's victim. That much also gives
`GroupSwapsAgree`: under the groups' planner no two swaps evict each other's
target. `OneProcess` follows from an account of each model's process like the
one above.

`RouterSharingProofs` adds the assumptions of `MatrixPlanner`. That no models
that exclude each other are ever alive together cannot be carried over a step by
looking at what is alive: a swap stops its victims one by one while others start
theirs, and which of them has come how far is anybody's guess. The invariant
`SwapsShare` therefore says it of every subset A of the swaps in progress: what
would be running if exactly those in A had stopped their victims, together with
what has been or will be loaded, may share the GPU. A step of a swap only moves
it from one subset to another. With A the whole set this is `NoConflictingSwaps`
(`LoadsAreCompatible`); with the empty one it is
`ExclusiveModelsNeverShareTheGPU` (`ExclusiveModelsApart`). The new swap is where
the planners come in: `GroupMakesRoom` and `MatrixMakesRoom` show that what a
planner leaves running may share the GPU with its target. `ChosenIsCandidate`
says that the solver's choice exists, is permitted and costs least.

`RouterRequestsProofs` keeps an account of the places where a request can be:
the queue, the walk over it, and the waiters of one swap. They are apart
(`QueuesApart`, `WaitersApart`), hold only requests that have arrived, and no
parked request is in none of them (`Remembered`). `NobodyIsForgotten` follows;
`CountsAreExact` is a counting argument over the steps that grant and report.
`EveryProcessServes` is the other side of `ServiceImplementation`: whoever moves,
each process in the router makes one step of `ProcessService` or none. It needs
to know that a swap that begins is a new caller (`Unstarted`: a request has no
swap before it leaves the queue) and four facts of each process (`ProcessKept`),
which follow from the interface alone (`ServiceKept`). The two theorems say that
both specifications keep within one interface. They do not say that the process
inside `Router` can do everything the real one does: a `Router` without the kill
that gives up would satisfy them as well. The product of both, with all processes
in full, is not written down.

`ActiveSwapsAlwaysAdvance`, in `RouterSharingProofs`, is the safety behind
`Answered`: while nothing is unloaded, self-stopped or hung, each active swap has
a goroutine that can take its next step. `AdvanceInv` names the reasons: the
swap's goroutine is among its waiters (`Carried`); swaps stop nothing but their
victims (`StopsOwnVictims`), which by `ActiveSwapsEvictOnlyIdle`'s invariant are
nobody's targets; so a target found stopped has a Run on its way (`StartsComing`),
and a WaitReady is parked on a start that is under way or to come
(`ParkedOnStart`). That the goroutines do take their steps is the fairness, which
stays with TLC.

`OperationProofs` rests on the assumptions named in `Operation`. Its executor has
nineteen actions, but for the stored record only five kinds of step count; the
lemma `ExecutorSteps` sorts them into saves begun, saves written, work done,
storage reclaimed and records pruned, and each kind has one lemma that it
preserves `IInv`. The core of `IInv` is `OneStore`, `Mutex` and `WritesAllowed`:
whoever may still write a record that no reload was made over uses the active
server's `Store`; two of them are never between check and write together; so the
record still permits the write when it comes. A save that fails leaves the record
behind the executor's phase; `Lags` says that it is then an earlier one, and that
the operation is in `unsaved`. `RecoveryOK` says why recovery at
start cannot do harm (nobody else is there, and the copies are the records) and
why at a reload it only touches operations of `reloadedOver`; `Created`,
`PruneTerminal` and `SuccessEarned` complete it. From it follow
`RecordFollowsTheStateMachineHolds`, `UnfinishedIsLiveOrMarkedHolds` and
`SucceededIsRegisteredHolds`.

`OperationStorageProofs` adds what the executors do to files. `StorageInv` speaks
only of destinations outside `clash`. `OneUser`: two live operations share no
other. `WorkStays`: what `verify` has looked at still passes, what `install` has
moved is settled (as planned, with no partial file left to take its place), and
everything is settled from registering on; `FileSteps` shows that an executor
touches only the file it is receiving, the one it installs, and partial files of
cancelled operations, so nobody else's work is undone. `OpenFiles`: an open file
belongs to an executor that is receiving it, and leads into an installed file
only inside `clash`; so what is installed is not written to. `InstalledStays`: a
file outside `clash` is as planned by every operation in `installed`, until
another one puts its own there; `FreshStart` is needed for that, as an executor
must not come to its downloads with a request already prepared.
`RegisteredThere`: the files of a model written to the config have been
installed. `RegisteredIsInstalledHolds` follows. `CancelledLeavesNothingHolds` needs two more facts, proved with
`TerminalStays` (the end of an operation is not rewritten): `Ended`, whoever
reclaims has a terminal record, or is `unsaved` and its files are `missed`; and
`Swept`, what a cancelled operation leaves on
disk is still on its own list, or is `missed`, or belongs to somebody else's plan
too.

`ReloadProofs` rests on the assumptions of `Reload`, `CoalescingRunner` and
`ConfigHistory`. Its invariant says who leads the runner and that only the leader
is in `reloadPass` (`RunnerInv`, `PassInv`); whose turn `configMu` makes it and what
a handler's copy of the file is (`MutexInv`, `CopyInv`); and for each thing that
must not be forgotten why somebody will look after it: `CoveredInv` for the file
(either it is what was last read, or `WillRead` names who has yet to read it or to
trigger), `AttributionInv` (what is staged will be taken by whoever will read, unless
the file is refused or `server.New` has failed), `ArchiveInv`, `EditInv`. `Convergence`,
`AttributionTaken`, `TransitionsCanBeUndone` and `EditsSurvive` are their cases at
rest. `OnePassPerTrigger` is the step simulation of `PassPerTrigger` without its
fairness, which stays with TLC.

`LogMonitorProofs` proves the refinement of `EventLog` twice: of `Dispatcher` by
itself, and under `LogMonitor`, for any number of publishers, consumers and
events. `BusInv` says what a consumer may be doing given where it stands
(`Standings`), how long its queues can be
(`Lengths`), and that what it was given, works off and has queued is the log
between its subscription and now (`Contents`, `Lines`). `ClientInv` ties the
handlers to it (`Presence`, `Known`). `HistoryIsWhatWasWritten` is
about the circular buffer: `Holds` relates `data`, `head` and `size` to the
sequence written, and each of the three branches of the write keeps it.
`HistoryMeets` needs both: `ToldInv` says that a history sent
is the last cells of the first `n` written, which hold the first `m` lines, for
some `n` and `m`; that every later line is on its way or live for a client of the
events (it was subscribed by then, so no line is dropped for want of a group);
and that an earlier line which was not on its way never comes live for a client
of the stream. `NobodySleepsForGood` is the safety behind `WritersReturn`: with one condition
variable for publishers and consumers, whoever falls asleep for want of room has
seen the full queue of a consumer that is subscribed, so not at its end, and not
asleep itself, because the broadcast that filled the queue woke it. It stays the
reason until it wakes everybody, even if it is cancelled meanwhile.

## State of the plan

Done, each with its runs and proofs: the process, the router with both planners,
model operations, configuration reload, the event bus and the log monitor.
Every safety property the passing runs check is proved, invariants, action
properties and refinements alike. Liveness under fairness is checked by TLC only
(`Answered`, `StopAnswered`, `StartingWaiterAnswered`, `EveryTriggerIsServed`,
`WritersReturn`); where its safe part can be said as an invariant, that is proved
(`ActiveSwapsAdvance`, `EveryParkedCallerIsHeld`, `NoWakeupIsLost`).

Left, in the order of what it would say: the retry ladder and the profiler of
`placement/` and `server/placement*.go`, with the plan reduced to what it gives
up; the watchdogs as callers of Unload that judge one instance and stop another.

## Not modelled

Most of the source has no protocol to model. The generated contract types
(`pkg/apicontract`), the legacy proxy (`proxy/`, which `llama-skein.go` does not
import), the web UI and the test tools are the larger part of it. Config parsing,
macro expansion, the expressions of the matrix, GGUF reading and the
classification of stderr are text processing; memory fit, offload and placement
are floating-point sizing; sampling of the host, HTTP proxying and the installers
are I/O. `PROJECT.json` lists each with its reason.

In the modelled parts: command overrides and load deadlines (they change which
command is run and for how long, not the protocol); the order of log levels and
the chaining of one log monitor into another; the write to standard output in
`Monitor.Write`, which is assumed to return; the removal of model files;
`MigrateLegacyBackups`; `Close` and `Count` of the dispatcher and `Clear` of the
buffer, which only tests and the legacy proxy call; and time itself: a timeout is an action that may
happen whenever the code is waiting for it.
