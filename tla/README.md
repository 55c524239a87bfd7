# Verification of uPipe

TLA+ models of uPipe, the micro-pipeline framework in `src/dataloop/upipe`,
the TLC runs that check them and the theorems TLAPS proves about them.
Paths below are relative to `src/dataloop/upipe` unless they start with `src/`.

## 1. Inventory

A *pipe* is a graph of *processors*.  A client process declares it, a *node*
process (one per machine, reached over HTTP and WebSockets) launches one or more
*worker* processes per processor, and workers pass *data frames* to each other
through *queues* in shared memory.

| component | state it keeps | operations | correct when |
|---|---|---|---|
| **MemQueue** `entities/mem_queue.py` | ring, `alloc_index`, `exe_index`, two counters, two locks, all in shared memory | `put`, `get`, `space_available`, `acquire_lock`, `release_*_lock` | a bounded FIFO queue: whole frames, once each, in order, none overwritten; locks exclude and can be taken again |
| **Worker** `entities/worker.py` | in and out queues, index of the next in queue, `processed_counter`, `request_termination` | `get`, `get_sync`, `emit`, `emit_sync`, `_add_q`, `_register`, `terminate` | every out queue gets every frame; every in queue gets its turn; terminates only when drained |
| **Pipe** (client) `entities/pipe.py` | status, futures of `start`, `wait_for_completion`, `terminate`, frames in execution | `load`, `start`, `emit`, `emit_sync`, `_baby_sitter`, `_handle_pipelines_message` | a call ends when the node reports the matching status; an `emit_sync` gets the result of its own frame |
| **Processor** `entities/processor.py`, `types/pipe.py` | children, queues of the pipe definition | `add`, `get_child`, `all_child_procs`, `processor_tree`, `drain_list` | the definition is the graph that was built |
| **DataFrame** `entities/dataframe.py` | data fields and their types | `to_byte_arr`, `from_byte_arr`, `register` | decoding what was encoded gives it back |
| **PipeController** `node/manager/pipe_controller.py` | status, processors, queues, terminating processor | `load`, `start`, `pause`, `request_termination`, `scale_up`, `notify_termination`, `handle_instance_exit` | status follows the instances; termination goes from the root down |
| **ProcessorController** `node/manager/processor_controller.py` | instances, status | `launch_instance`, `connect_proc`, `on_complete`, `notify_termination` | never more instances than the autoscale setting |
| **WorkerController** `node/manager/worker_controller.py` | process, status, exit code, connection | `register`, `monitor`, `handle_exit`, `notify_termination` | status follows the process |
| **ComputeNode** `node/manager/node_main.py` | pipes, registered processes | `load_pipe`, `register_launched_instance`, `check_autoscale`, `baby_sitter`, `push_q`, `process_message` | running pipes scale up, finished ones complete |
| **NodeClient / server** `node/client.py`, `node/server/server.py` | connection, retry counters | `retry`, `send_message`, `put_q`, endpoints | a retried request has the effect of one |
| **PidLog** `node/manager/pid_log.py`, start-up in `node/__init__.py` | the log file, and a copy of it in every process | `start_session`, `_clean_session`, `log_pid`, `_save`, `start_server` | every living process is known to the next session, which ends it |
| **Statistics** `worker.py`, `worker_controller.py`, `node_main.py` | counters of queues and workers, the copies of the node and of the page | monitor threads, `update_stats`, `log_node_utilization` | never more than what happened; exact at rest |
| **Pipe view** `pipeview/src/models/Pipe.ts`, `PipeView.vue`, `Index.vue`, `store/pipes` | selected pipe, per Pipe object its socket, `connected` and `status`, the tree drawn | `selectPipe`, the watchers, `connect`, `disconnect`, `execute`, `render` | the shown pipe has a socket and shows its status and its own tree |
| **Node view** `models/Node.ts`, `WebsocketHandler.ts`, `NodeView.vue`, `ResourceList.vue`, `Index.vue`, `store/nodes`, `store/queues` | the node object, its socket, the lists, the tables and whom they listen to | `checkServer`, `refresh`, `selectNode`, the fetches, `onUsageStats` | one socket; lists and tables follow the node's reports |
| **Web UI shell** `layouts`, `router`, `boot`, `quasar.conf.js` | - | - | not modelled: layout and build configuration |
| examples, tests, `types/` | - | - | users and declarations; the web UI's messages are in `UpipeEntities` |

### Where it is hard

* **Interleaving**: `put` and `get` run in different processes and synchronise on
  plain integers in shared memory; both test the indexes or counters *before* they
  have their lock.  `Worker.emit` awaits between queues; the client's futures are
  completed from the thread of the WebSocket.
* **Failure**: a worker can be killed inside `put` or `get`; `exe_index` moves before
  the checksum is tested; one queue of several may refuse a frame.
* **Ordering**: `Pipe.start` sends its message before it creates the future the answer
  completes; instances exit while their pipe is being inspected.
* **The client's reader**: one task reads the sink of a pipe, and a frame that it did not
  wait for ends it.
* **Limits**: a ring filled exactly looks empty; a queue under 640 bytes never
  reaches `MAX_CAPACITY`.
* **Timeouts and retries**: `acquire_lock` polls for 100 s; `NodeClient.retry` repeats
  requests that are not idempotent.
* **Sockets**: a page object's `connected` is set by the events of every socket the
  object ever made; three places connect and disconnect a pipe; answers to fetches and
  closes of sockets arrive in any order; a broadcast awaits each connection.
* **Clocks**: counters come to the page through a thread, a report and a socket, none of
  which waits for another.
* **Crashes and restarts**: the process log is rewritten whole, by every process from
  its own copy, and truncated before it is written.

## 2. Modules

| module | models | state | composed with |
|---|---|---|---|
| `FrameQueue` | what a queue promises (abstract) | queued and delivered frames | implemented by `MemQueue`, relied on by `WorkerIO` |
| `MemQueue` | `mem_queue.py`: `put`, `get`, the locks | ring, indexes, counters, locks, each process's place | `Implements` maps it to `FrameQueue` |
| `NodeLifecycle` | the four controllers of the node and a worker up to the end of its join | pipe and processor status, instance lists, worker states, monitor threads | reports what `PipeClient` waits for |
| `WorkerIO` | `get`, `get_sync`, `emit`, `emit_sync`, `put_q`, the sink | frames in the queues, place in the loops, round robin index, execution id; the ids the client waits for, its reader | queues as `FrameQueue` |
| `PipeClient` | `load`, `start`, `wait_for_completion`, `terminate`, `_baby_sitter`, the WebSocket thread | statuses, futures, messages both ways, whether the loop sleeps | the node as its messages |
| `UpipeEntities` | `UpipeEntities.ts` and `WebsocketHandler.send`: the messages and definitions that node and page exchange | - | used by the next four |
| `PipeGraph` | `pipe_def`, `entryProcs`, `treeData`, the drawing of `PipeView.vue` | - | used by `PipeView` |
| `PipeView` | the page's pipe objects and their sockets, and `connect_pipe` and the broadcasts of `PipeController` | selection, objects, sockets, connections, status tasks | takes a pipe's status from the node as `NodeLifecycle` reports it |
| `NodeView` | the page's node object, its lists and tables, the node's answers and reports | object, sockets, fetches, tables and their listeners | the reports' numbers are those of `UsageTables` |
| `UsageTables` | the counters, from the worker and the queue to the columns | counters, half read pairs, reports | - |
| `PidLog` | `pid_log.py`, `start_server`, `kill_process` | the file, each process's copy, processes | `NodeLifecycle` takes `log_pid` as a call that may raise |
| `MC...` | small instances for TLC | | |
| `MemQueueProofs`, `WorkerIOProofs`, `PipeViewProofs`, `NodeViewProofs`, `UsageTablesProofs`, `PidLogProofs`, `PipeClientProofs`, `NodeLifecycleProofs` | theorems | | |

Operators marked "Mistaken variant" (`AcceptsAlways`, `AdvanceIndexNever`, ...) belong to
no specification.  Each is a plausible mistake in the definition that follows it, and
breaks a property of a run when it takes that definition's place: so the property says
something about the code.

### MemQueue and FrameQueue

`put` and `get` run in different processes, so a step is at most one source line that
touches shared memory: the others may come in after every one.
A cell of `mem` stands for 16 bytes, so a frame is two header cells (status and size;
watermark and checksum) and its body; a frame is copied into the ring cell by cell.
`put` is `PutCall`, the two checks (`PutAboveCapacity`/`PutBelowCapacity`, then
`PutCompare` and `PutTooLarge`/`PutFits`), the lock, the copy, `AdvanceAllocIndex`,
`PutDone`.  `free_space` reads its two indexes twice (lines 454-460): `PutCompare`
keeps how the comparison came out, and the step after it computes the space from the
indexes as they are by then.  `get` is `GetCall` or `GetNothing` on
`pending_counter`, the lock, header, data, `ClearFrame`, `AdvanceExeIndex`, and the
checksum last, as the code has it.

A lock is a shared memory block: creating it takes the lock.  Closing it destroys it
where the system counts the handles (Windows), and leaves it there elsewhere, since
the code never unlinks it: `CloseReleases` says which.  `Orphan` is a block that
exists and that no call holds.  Polling for 100 s is abstracted to a timeout that may
strike whenever the lock is taken by another.

The statistics (`update_dfps`) are left out; they never feed back into a decision.
`Implements` maps the ring to `FrameQueue`: what is queued is what `put` has counted
and `get` has not.

### NodeLifecycle

The server is one asyncio loop, so a handler is one step from `await` to `await`.
The monitor threads of the workers are not in the loop: `Monitor` may come between
any two steps and changes `state` and `reaped`.  Where a handler reads what such a
thread writes and acts on it later, it is two steps (`RegisterChecked`,
`RegisterSet`), and `loop` tells which handler is half done.  `MonitorPipes` is one
step although it reads many instances: a `Monitor` that strikes in the middle of its
scan has the same effect before the scan or after it, for an instance is read once.

`Listed` and `Found` are the loops over the instances with their early ends:
`psutil` raises for a process that was reaped, so a look-up stops at the first reaped
instance before the one it looks for.  Removing from the list that the loop goes
through skips an instance; `MonitorPipes` has that too.  A tick of the baby sitter is
`MonitorPipes` and then `CheckAutoscale`, which may raise and so end the task
(`sitter`); no handler runs between the two, only monitor threads and workers.

Left out: `request_termination`, `notify_termination` of the controllers.  The node
does not dispatch TERMINATE (`process_control_message`, node_main.py), so nothing
calls them.

### WorkerIO

Both loops await between one queue and the next, so each queue they turn to is one
step: `GetFrame`/`GetEmpty` for `get`, `EmitAccepted`/`EmitRefused`/`EmitLost` for
`emit`.  The user code is any code that passes on what it gets, and calls `emit`
again when it returns False, as the examples do.  A source makes values 1..`MaxVal`.
`Remote` queues go through `put_q`: its reply may be lost, with or without the
request, and the worker takes both for a refusal.  The frame keeps its execution id
(`FrameId`) on the way.

A client (`Tagged`) emits data frames, which it gives an id when they are made.  Each
call of `emit_sync` (`Syncs`) makes a future for the id (`Registers`, `awaited` for
`executing_frames`), also when it repeats the same frame; `emit` makes none.  `SinkGet` is
the body of `_baby_sitter` (`pipe.py:93-104`): it sets the result of the future of the
frame's id, drops a frame without an id, and raises, which ends the task, when there is no
such future (the frame was sent by `emit`) or when it has its result already (the
frame came again).  `SinkReturns` is the end of its loop at COMPLETED: the node reports it
no earlier than when a worker has ended, and some may be left (finding 1).  After a
success `emit_sync` waits for its result; that wait may time out at any moment and its
caller goes on, so the model does not make it wait.

A queue takes frames up to `Cap` and may refuse from there on.  `put` refuses by
`MAX_CAPACITY` or by space; `emit_sync` waits for space only, which `Reserve`
separates from `Cap`.

### PipeClient

Two threads: the loop with the user's tasks and `_baby_sitter`, and the one of the
WebSocket, which sets `status` (`SetStatus`) and then the future (`SetResult`).  A
future set from another thread does not wake a loop that is blocked in its select.
While a baby sitter runs the loop has always something to run (it polls with
`sleep(0)`); afterwards it may go to sleep (`LoopSleeps`), and `LoopWakes` is
whatever else may wake it.  `start` sends START before it makes the futures that the
answer completes: `SendStart` and `MakeFutures` are two steps.  The node answers
START with RUNNING, or fails to launch and answers nothing, and ignores TERMINATE.

### PipeView and PipeGraph

A page (one thread, run to completion per event) and a node (one asyncio loop).  The
page's steps are the user's (`selectPipe`, Clear, the Run button, a new fetch, the
mounting of the view) with the watchers they trigger, and the events of its sockets.
`readyState` is a socket as the page sees it, `side` as the node does: a close by the
page is known to the node later, and the close is known to the page later still.
A fetch makes new `Pipe` objects, so an object is a pipe of one fetch; what an old
object's socket still says goes to the old object.

`set_pipe_status` awaits each send, so a broadcast is a task with the index it has come
to: a connection that leaves meanwhile makes it skip the next, one that has gone raises
and ends it, a second one may overtake.  `upset` records pipes to which that happened.

`PipeGraph` has the definition that `pipe_def` makes of the processors added to a pipe,
and what the page makes of it: `treeData` (`ChildrenIn` is its recursive `scan`) and the
nodes and links that `render` appends.  `TreeOfShown` compares the drawing with the
paths of the graph.

### NodeView

Fetches are asked for, answered and applied in steps of their own; `flights` is a bag,
since two fetches of one list may be under way and their answers change places.  An
applied answer replaces the objects of its list: the rows lose their numbers, and the
new node object is connected in the place of the old one (`setNodes`).  The tables
listen to the object that was in the store when they were mounted (`heard`), and a table
that is unmounted while another object is there keeps listening (`stale`).  `restart`
breaks all sockets; the page hears of each later.

### UsageTables

One processor with its workers, its in queue, the node and the page.  The worker counts
what it has received after the queue has counted the `get`; monitor threads and reports
read two counters in two steps.  Times are left out: any hop may take any time.

### PidLog

Clients, in any order and at the same time, the server each launches and the workers
that the servers launch.  Every client and server reads the file when it imports
`upipe`, keeps a copy, and writes all of it with each change.  `_save` is `Opens`,
which truncates, and `Writes`; in between, a process that imports reads no JSON and
removes the file (`Read`), another save may overlap, and any process may end.
`clean_session` is one step for all kills of a session and the save behind them: a
client that ends between two kills leaves the file as it was, and what it killed is
killed again by the next.  What a removed file gets is lost, as on POSIX.  Pids are not
used again.

A worker that is a script is a process of its own (`Popen`).  One that is a function is
forked from the server (`multiprocessing`, processor_controller.py:144-147) and inherits
the handler by which uvicorn turns SIGTERM into a shutdown, so `kill_process` need not
end it; and a server that shuts down joins the functions it has forked.  `Functions`
says which workers are functions, `Waits` that a server has a living one.

Much of the code's promise cannot hold once a save was cut short, overlapped or made
from a copy that is not the last: `upset` records that this happened, and the
properties say what holds until then.  `current` (who has the last copy) only serves
to tell.  `found` is what was logged and alive when a client imported `upipe`, and
`earlier` those of them that lived when it began its session: what becomes of the log
afterwards no longer matters to them.

## 3. Runs

| run | instance | shows |
|---|---|---|
| `mq_fifo` | 2 producers with 3 puts each, 1 consumer, frames of 3 and 4 cells, ring of 19 cells | lock exclusion; the stale checks of `put` stay harmless (`NoOverwrite`); `Implements`, liveness included: what `put` accepted is delivered in the end |
| `mq_races` | 2 and 2, 2 puts each, 10 cells, one process killed | nothing vanishes beyond what the dead process held (`LossBounded`); what is in the ring stays within reach (`NoneStranded`); order, no duplicates; locks come free |
| `node` | 1 pipe, processors of autoscale 1 and 2, two STARTs, also while it runs or is paused, a pause, a lost reply, early deaths, launches that fail before and after the spawn | the limit, and by how much a repeated START exceeds it; when the consistency checks fail (`WithinAutoscale`); RUNNING means launched and, but for what failed STARTs leave, listed (`RunningIsWhole`); COMPLETED when, and but for finding 1 only when, all is over; joins end |
| `node_early_completed` | 1 processor, autoscale 2 | finding 1 |
| `worker_mesh` | a Pipe and a source join in a worker with a sink; a remote queue loses a reply | turns, ids, nothing left out or late, once where only one local queue is fed; back pressure drains as long as the client reads the sink (`Flow`) |
| `worker_fork` | one source, two queues (`src/examples/double_counter`) | finding 2 |
| `client_once` | start twice, wait, terminate; a lost reply; failed launches | calls return on the truth (`ReturnsTruly`) and return (`CallsReturn`); the loop is awake while the pipe runs |
| `view_pipe` | 2 pipes, a chain and a graph with a shortcut; 2 fetches, 4 sockets, 4 choices | the shown pipe's socket and tree; who is connected is told the status; a START that left is carried out |
| `view_status` | 1 pipe | finding 3 |
| `view_node` | 1 pipe, 2 node objects, 2 sockets, 1 restart | tables that agree, one socket, the connection as it is, lists that grow, numbers that arrive |
| `view_usage` | 2 workers, 2 frames, 2 emits | the tables never overstate, keep their order, and become exact at rest |
| `sessions` | 2 clients, each with a server and a worker, a script and a function; every process may end anywhere | no living process is lost from the log; servers find their session; servers and scripts that were logged when a client imported `upipe` end |

### Why the bounds are enough

* **Rings**: in `mq_fifo` frames of 3 and 4 cells go through a ring of 19 in any mixture:
  they end at its end exactly, and wrap inside the header and inside the body.  In
  `mq_races`, frames of 3 cells in a ring of 10 wrap inside the header.  A `put` that
  passes the check of `MAX_CAPACITY` has seen room for a frame of each producer in
  `mq_races`, and in `mq_fifo` for two of the largest for each, less one, which is the
  condition of the theorems (`EnoughReserve`).  In the code a tenth of the ring is kept
  above `MAX_CAPACITY`: frames that are larger than that do not meet it (section 4).
* **Two** producers and consumers are the least that race; a third adds another waiter
  for the same lock.  Types and locks are proved for any number, first-in first-out for
  any number of producers; with two consumers, or with a process killed, order and
  losses are known from `mq_races` only.
* **Nodes**: autoscale 2 is the least with a neighbour to be skipped in a list; the second
  START meets the pipe as the first left it: running, paused, cut short or completed;
  three processes let both STARTs and the autoscaler launch.  Two pipes, and more
  STARTs, are covered by the theorems.  A worker that has joined ends with "ok" in
  `node`, and with "failed" the one whose registrations were refused; the theorems
  leave both open at any time.
* **Workers**: two in queues are the least that take turns, and a queue takes one frame
  and then refuses (`Cap` 1; `Cap` 2 in `worker_fork`); two values let a frame be
  repeated, be late and be left out, and let the reader meet a frame that is awaited, one
  that came again and one without an id.
* **Client**: two starts make the second execution meet what the first left.
* **Pages**: two objects of one pipe and two pipes let an old socket speak for an old
  object or for the object that is shown; four choices allow selecting, leaving,
  returning and clearing.  With two node objects and two sockets a refresh replaces a
  connected one, and one restart breaks what is there.  The theorems, on all the safety
  properties of both pages, hold for any pipes and bounds.
* **Tables**: two workers are the least whose counters are summed up; a frame and an
  emit more than one lets two reports differ.  `NeverOverstated` and
  `ReceivedWereDequeued` are proved for any number of them.
* **Sessions**: two clients are the least where one cleans behind the other, before,
  while or after the other begins; the theorems hold for any number, and only
  `EarlierEnd` rests on the instance, in which one session has a script and the other
  a function.

### Fairness

* `MemQueue`: a process inside `put` or `get` runs on, and consumers poll (weak).
  Nobody is obliged to call `put`.  No fairness is assumed of who gets the lock.
* `NodeLifecycle`: the loop runs its tasks (`LoopFairness`): the scheduled
  `set_pipe_status`, the two parts of a tick, and the second half of a registration.
  Strong where other handlers make the task wait again and again: asyncio's ready
  queue is first-in first-out.  `MonitorFairness`: the thread of each worker polls it.
  `JoinFairness` is strong fairness of the steps of a join, registration and its
  retries, of whichever worker.  Workers, users and the load owe nothing.
* `WorkerIO`: each worker process and the client's baby sitter go on (weak).  Which
  reply is lost is bounded by `MaxLost`.  The baby sitter owes nothing once it has
  raised or returned, and it may return at any time that `SinkReturns` allows.
* `PipeClient`: both threads and the node go on.  `LoopWakes` has no fairness: the
  timers that could wake a sleeping loop are those of idle HTTP connections, which are
  gone after about 15 seconds.  Nobody need call and no pipe need end.
* `PipeView`, `NodeView`: weak fairness of all that is not the user's taken together
  (`SystemStep`): neither event loop stops while it has something to do.
* `UsageTables`: each monitor thread polls and sends (strong, as the node's loop also
  runs reports), and the node reports (weak).  No frame need come.
* `PidLog`: a script that was told to terminate ends, for `upipe` installs no handler in
  it, and so does a server, whose handler (uvicorn's) shuts it down, unless it joins a
  function.  Nothing is assumed of functions.  A program that runs goes on to its
  next save.  Nobody need begin a session.

Deadlock checking is off in the runs of `NodeLifecycle`, `PipeClient`, the web views and
`PidLog`, where all pipes may be over, all clicks made or all processes ended.

## 4. Findings

1. `node/manager/node_main.py:402` - `monitor_pipe` removes instances from the list it
   goes through and so skips one; the pipe is COMPLETED with a living worker.
2. `entities/worker.py:273` - `emit` returns False when a later queue refuses, though
   earlier ones have the frame; retrying gives it to them twice.
3. `pipeview/src/models/Pipe.ts:57` - the node always sends arrays, and the pipe's page
   object parses them as one message: the page never shows a pipe's status, and its
   button never becomes PAUSE.

Properties are stated with the restrictions the code needs, and the restrictions are
part of what they say.  They are there because of what the code does, and some of it
differs from a document or a test:

* `mem_queue.py:302`: capacity and space are tested before the write lock and not again
  under it.  With frames larger than the reserve above `MAX_CAPACITY` (a tenth of the
  ring), two producers that find the same room both write, the second over queued
  frames, and both calls report success (`src/docs/api/api.md:94`).  TLC finds it on the ring of
  17 cells with the frames of `mq_fifo`; the runs keep to frames for which there is room.
* Exactly full rings: equal indexes mean empty (`mem_queue.py:455`).  From 640 bytes
  on `MAX_CAPACITY` refuses before a ring can be filled exactly by one producer;
  smaller rings (`src/tests/q_test.py` uses 200 bytes) lose all their frames.
* `TimeoutOnlyUnderContention` and the theorem `NoIdleTimeout` take `CloseReleases`.
  Without it, the second `put` finds the block of the first and times out.
* `node/manager/node_main.py:217`: `attach_proc` asks the pipes in turn, and the first
  that does not know the process raises; the join of a worker of a second pipe does not
  return.  `node` has one pipe.
* `node/manager/node_main.py:446` and `:297`: while one pipe runs, the baby sitter's tick
  goes through every loaded pipe.  One that was loaded and never started has no
  instances, so it is marked COMPLETED, and it has room, so the autoscaler launches
  workers for it.  So `CompletedWhenSinglesOver` speaks of pipes that are RUNNING, and
  `WithinAutoscale` counts every START of one of several pipes as a repeated one.
* `node/manager/pipe_controller.py:166-175`: a second START, or a START after PAUSE,
  launches a worker for every processor without looking at what runs.  The autoscale
  setting is exceeded by up to one process per processor and repeated START
  (`WithinAutoscale`), and the check for duplicates or for over-scaling
  (`processor_controller.py:186`) may then raise in the baby sitter's tick, which ends
  it: nothing scales or completes a pipe of the node any more.
* `node/manager/processor_controller.py:155`: when `log_pid` raises, the worker is spawned
  and on no list.  `RunningIsWhole` allows as many such workers as STARTs failed: a pipe
  may be RUNNING by its second START with the first one's worker out of reach.
* `node/manager/worker_controller.py:55`: `register` sets READY whatever the state was.  A
  worker that dies during its registration, seen by its monitor thread first, is then
  READY for ever, and its pipe RUNNING.  `Completion` says "or overwritten", and "or the
  baby sitter has ended", for these are the two ways in which a pipe whose workers have
  all ended stays RUNNING.
* `entities/pipe.py:100`: the sink's only reader ends with an exception at a frame of `emit`
  (not in `executing_frames`) or at one that comes again (`set_result` of a finished
  future: the repetitions of finding 2 and of lost replies of `put_q` bring some).  It
  ends also at COMPLETED, while workers may be left.  Then nobody drains the sink, and
  back pressure blocks the workers for ever once it is full: `Flow` says "or the sink is
  blocked" (`SinkBlocked`).
* `entities/pipe.py:45`: the future is set from the WebSocket's thread without
  `call_soon_threadsafe`; if the baby sitter has already seen COMPLETED, the loop
  sleeps and `wait_for_completion` never returns.  `CallsReturn` says "or asleep".
* `CallsReturn` speaks of starts whose futures are in place: an answer that overtakes
  `start` completes a future nobody waits for (`pipe.py:88`).
* `ReturnsTruly` (for `wait_for_completion`), `CallsReturn` and `AwakeWhileRunning` speak
  of the first execution of a pipe: the baby sitter of the second may end at once, on
  the COMPLETED of the first.
* `terminate` after COMPLETED waits for a status that never comes (`pipe.py:151`).
* `ShownNotClosed` holds until Clear is pressed: Clear does not disconnect, and the pipe
  that is selected again while its socket closes keeps a closing one.
* `StatsArrive` holds while the tables hear the node that is shown: after a refresh they
  listen to the object before, which is disconnected (`ResourceList.vue:155`).
* The icon of a pipe in the list (`Index.vue:34`) shows the connectedness of the node,
  and the columns Received and Processed of the instances table show each other's
  counter (`ProcessorsList.vue:103`; `instancesColumns` has it so).
* `src/docs/architecture/architecture.md:104` says a new session ends all processes of
  the last one.  `start_session` ends those that were in the file when the client
  imported `upipe`: a worker that was launched between the import and
  `start_session` lives on, and the save drops it from the file.  `EarlierEnd` is about
  those that were logged at the import (`found`), and `Tracked` counts such a log as
  upset.  Workers that are functions inherit the SIGTERM handler of the server they are
  forked from, so they need not end, nor need the server that joins them
  (`node_utils.py:23`): `EarlierEnd` leaves them out.

## 5. Proofs

For every value of the constants, under the named assumptions of each module.

**`MemQueueProofs`**.  The types alone are not inductive: that a header has the size
of a frame needs that a consumer past the header has read one, and that the copied
cells stay within the frame needs that a producer inside `put` has one.  `IInv` is
`TypeOK` with `PutInv` (a producer inside `put` has a frame and, in the write section,
the lock) and `GetInv` (the same for a consumer).  From it:

* `TypeCorrect`: `Spec => []TypeOK`; the indexes stay in the ring through every wrap.
* `MutualExclusion`: `Spec => []Exclusion`: two processes in a section would both be
  the holder of its lock.
* `NoIdleTimeout`: `CloseReleases => (Spec => TimeoutOnlyUnderContention)`: then no
  lock is ever orphaned, and its holder is in the section.

That the ring is a queue needs more, and it is not true of every ring: put makes its
checks before it has the lock.  `Setting(c)` has the hypotheses: one reader and no
process killed, finitely many producers, and `EnoughReserve`: a `put` that passes the
check of `MAX_CAPACITY` has seen room for two frames of the largest size for each
producer, less one.  `mq_fifo` is such an instance; a queue has one reader when the
processor that it feeds has one instance.  `FifoInv` adds to `IInv`:

* `Room`: what the producers past their check may still write, counted as one largest
  frame each, and once more for those whose check is older than the last wrap, fits
  into what is free.
* `Ledger`: the counters agree with the accepted and delivered frames (`CountInv`), the
  frames are numbered in the order of their acceptance (`NumberInv`), and the reader
  has the first that is not delivered (`ReaderInv`).
* `Layout`: the accepted frames lie in the ring one behind the other, from the reader's
  index to the writers', cell by cell, around the end of the ring where they come to it;
  the cells between are free, and zero where a header will be looked for (`SizesInv`,
  `TailInv`, `QueuedInv`, `WrittenInv`, `FreeInv`, `ClearedInv`).

TLC checked it on rings with no cell to spare before it was proved.  From it, for any
number of producers, any ring and any frame sizes within the reserve:

* `NothingVanishes` (`LossBounded`), `FirstInFirstOut` (`DeliveredInOrder`) and
  `StaleChecksHarmless` (`NoOverwrite`).
* `NothingStranded` (`NoneStranded`): the oldest frame that is due is at `exe_index`, whole,
  and `pending_counter` tells that it is there.
* `ImplementsFrameQueue`: `Spec => FQ!Safety`, each step of `MemQueue` is a step of
  `FrameQueue` or none.

With a second reader the proof would fail where the system may: a reader that found
`pending_counter` above zero before the first took the frame reads what a producer is
writing.  The checksum is what is left there, and `mq_races` the check.

**`WorkerIOProofs`**.  `IInv` is `VarsInv` (types, and that every queued frame carries
the id of its value), `CapInv`, `PosInv` (the loops are at a queue that is there) and
`DataInv` (what a worker has in hand goes with the id it would give it).  From it
`IdsCorrect` and, with `ClientInv` (the ids that the client waits for, its reader),
`TypeCorrect`.  The second invariant, `PaceInv`, relates a source to
its queues: while it emits, the queues before the one it has reached have the value in
hand, those after it the value or the one before; a source with a single local queue
has not emitted the value at all.  It needs that only sources feed the queues of
sources (`FeedersAssumption`): a queue's id is "from->to" by processor
(`pipe.py:188`), and processors without in queues have no workers with them.  From it:

* `OnceFromSource`: `Spec => OnceAlone`.
* `NoneLeftOutBySources`: for sources with any number of queues, local or remote, a
  refusal repeats frames but leaves none out and brings none late.
* `NothingLeftOut`: `OneWay(carried) => (Spec => NoneLeftOut)`, for the queues of all
  workers.  `WayInv` follows the frames of each source: what waits in an in queue of a
  worker goes on, without a gap, from the value the worker has taken to the last value
  that entered the queue (`LinkInv`, a chain over the frames of the queue); the values
  that the worker's out queues have are the one in hand or the one before
  (`HandInv`), so a frame that is retried after a refusal is repeated and not skipped;
  and frames are only where they are carried (`RouteInv`).  Chains are kept when a frame
  is appended or taken (`ChainAppend`, `ChainTail`).  `carried` names the sources whose
  frames each queue carries.  `OneWay` is needed: of two instances of a processor that
  share their queues, or on two ways that meet again, the later frame may come first.
  The code promises no order there, and `IdsCorrect` and `OnceFromSource` still hold.
  Both pipes of the runs have `OneWay` (`OneWayAssumption` of `MCWorkerIO`, which TLC
  evaluates).
* `ServedInTurn`: `ReadAlone => (Spec => []RoundRobin)`.  `TurnInv` says that a queue that
  has been passed over n times is not empty and has at most (number of queues - n)
  before it in the round.  `ReadAlone` is needed: a worker with several in queues is
  their only reader, for a queue that another reader empties and a producer fills again
  between two scans counts as passed over both times.  `worker_mesh` has it.

**`PipeViewProofs`**.  That the page does not close the socket of the pipe it shows is
not inductive: it rests on what was closed before.  `IInv` adds the types of objects and
sockets (`SocketTypes`); that only a mounted view closes sockets (`UnmountedInv`), so the
first pipe that is selected, or the one shown when the view comes back, has what it had;
that there is no socket before the first selection (`FirstInv`); and that the selected
pipe's socket is kept whether or not the view is mounted (`SelectedInv`).  From it
`ConnectedAlways` (`ConnectedHasSocket`) and `ShownKeepsSocket` (`ShownNotClosed`), for
any pipes, graphs and bounds.

`AllAreTold` (`Told`) is about the node.  `NodeInv` says which sockets are in a pipe's
list of connections (`ListedInv`), and what those have been told (`ToldInv`): unless the
pipe is upset, only the first task has begun, it brings the status that the pipe has,
and the connections before its index have been told; without such a task, all have.

`TreesAreWhole`: `AllWellBuilt => (Spec => []TreeOfShown)`.  `WellBuilt` says what
`pipe_def` comes back from: finitely many processors, no way along the children that
returns to where it began.  `map_proc` (`pipe.py:184`) and `all_child_procs`
(`processor.py:75`) do not end on others.  `Reachable` and `treeData` are recursive
functions; the proof shows that each is what the ways from the root make of it, level
by level (`ReachableFacts`, `TreeIsWalks`), by an induction over sets of numbers
(`UpToAll`).  A way meets no processor twice, so none is longer than the processors are
many (`WalkIsShort`), and the levels at which the two definitions stop are deep enough.
`DrawnInv` says whose tree was drawn last.

**`NodeViewProofs`**.  `IInv` is `SocketTypes`, `OneSocket`, `ConnectedInv` (a CONNECTED
object has a socket whose close the page has not been told) and `ShownInv` (until a
restart, the sockets of the object in the store are connecting or open, and an open one
shows).  From it `OneSocketAlways` and `ConnectedTruly` (`ConnectedShown`).

`NumbersOfOneReport` (`TablesAgree`) follows the numbers: a report on its way and the
tables that heard one have those of a single tick (`ReportsInv`).  `ListedStays`
(`ListsGrow`) follows the fetches: until a restart, what is listed and what an answer
lists is loaded (`AnswersInv`), and a table whose fetches never overlapped has at most
one under way, whose answer has all that the table lists (`AloneInv`).

**`UsageTablesProofs`**.  The tables add up what the instances have sent.
`MapThenSumSet` takes the elements in an order of its own, so the first part shows that
the order does not matter (`SumWithout`) and that numbers which are below others, each
below one of its own, add up to no more (`SumOfLess`), by induction over subsets
(`SubsetsAll`).  `IInv` says of each number under way that it was the counter's at some
time: what a thread has read, what the node keeps (`KeptInv`), what is shown
(`ShownInv`), what is known of the queue (`QueueInv`).  Counters do not fall, so
`TablesNeverAhead` (`NeverOverstated`).  That received frames were dequeued relates
processes: a frame that the queue has handed out is counted by the worker that has it,
or will be (`HandedInv`), and the node reads the queue's second counter after all
numbers of the workers had come (`ReportInv`): `TablesInOrder`
(`ReceivedWereDequeued`), for any number of workers.

**`PidLogProofs`**.  The file alone does not tell what is in the log while a save is
under way.  `IInv` says what every log holds (`Holds`: all that live, but those told to
end and those not yet logged) of the writer's copy during a save (`SavingInv`, which
also makes that writer the only one) and of the file otherwise (`QuietInv`), both until
upset; that no log has two sessions, always (`OneInv`); that a server is launched by a
client that has a session (`LaunchInv`); and that a server read the log after it was
put there, or before and then nobody else has saved (`ServerInv`).  A client that cleans
has seen the last log, else it upsets it: so what it drops from the log was told to end.
From it `NobodyLost` (`Tracked`) and `SessionsKnown` (`SessionKnown`), for any number of
clients and workers.  TLC checked `IInv` on the instance of `sessions` beforehand.

**`PipeClientProofs`**.  That a sleeping loop has no baby sitter (`AsleepInv`) holds for
ever; the rest for the first start only (`FirstInv`).  At most one caller is in `start`
(`CallersInv`), so its START is either not sent yet, under way, or handled, each once
(`StartInv`); then the statuses are reported in their order (`OrderInv`), and from the
sending of START to the reading of COMPLETED there is a baby sitter (`SitterInv`).
RUNNING at the client needs a START that was handled, so `Awake`: `Spec =>
[]AwakeWhileRunning`, for any number of callers, waits and lost replies.

`TypeCorrect` counts the starts and answers under way (`NumberInv`, `ToldInv`).
`WaitsAreTrue` is the part of `ReturnsTruly` about `wait_for_completion`, for any
callers: a future that is done was made done by a status that had come (`WaitInv`).
`ReturnsAreTrue` is all of it, for one caller, as in `client_once`.  With two callers the
part about `start` is false: the RUNNING of one's START may complete the future of the
other's (`pipe.py:88`).  Nothing is claimed of it.

**`NodeLifecycleProofs`**.  All for any pipes, started and paused any number of times, with
any failures of launches.  The lists are what is hard: `monitor_pipe` takes instances
from a list while it goes over it.  That the others stay is `KeepingFacts`: the k-th
position that stays is one of those that stay, by counting.  `TypesInv` are the types,
with what makes them inductive: the tries of a worker go with the place it is at
(`TriesInv`), a list names spawned instances only (`SpawnedInv`).

* `TypeCorrect`: `IsFiniteSet(Pipes) => (Spec => []TypeOK)`.
* `RunningPipesAreWhole`: `Spec => []RunningIsWhole`.  `PlacesInv`: a RUNNING that is
  under way or has come was made by a START that launched all processors
  (`StartedInv`); each START adds at most one living worker that is on no list, and one
  that succeeds none (`UntrackedInv`); nothing is launched for a pipe that is not loaded
  (`UnloadedInv`).
* `CompletedAreOver`: `Spec => CompletedWhenSinglesOver`.  The loop that skips instances
  still visits the first of a list (`FirstVisited`), and of a processor of a running
  pipe that was launched once and lives, the instance is on the list (`FirstInv`).  So
  the tick that schedules COMPLETED has seen it over (`MonitorSeesOver`), unless the
  pipe was not running; and until the task comes to its turn, either it stays over or a
  START has launched it again, which is the second time (`OverInv`; `Before` tells
  whether the pipe will be RUNNING when a task has its turn).
* `KeepsToLimits`: `(\A p : Autoscale[p] > 0) => (Spec => []WithinAutoscale)`: a worker is
  allowed for each processor.  The autoscaler counts what is on a processor's list, so
  the proof follows what the list leaves out: as long as a processor has had no finished
  instance, no more than one for each failed START (`Missing`), so nothing when it has
  as many entries as there were launches (`Complete`); afterwards its status is
  COMPLETED and the autoscaler gives it no more.  With one START on a node of one pipe,
  at most one instance waits for its registration (`Alone`), so the check for duplicates
  passes (`CheckedInv`).

**Model-checked only**:

* All liveness (`CallsReturn`, `Completion`, `JoinEnds`, `Flow`, `RunIsCarriedOut`,
  `StatsArrive`, `Settles`, `EarlierEnd`, and of `Implements` what `FrameQueue` promises
  to happen): the prover has no rules for fairness and ENABLED.
* `LossBounded`, `DeliveredInOrder` and `NoneStranded` with several readers or a killed
  process: see `MemQueueProofs`.

## 6. Not modelled

* The frames' encoding, what `Pipe.emit_sync` returns (`WorkerIO` has the registration of
  its frames and the reader, not the wait for the result) and the shared id of sinks:
  planned, below.
* A dead WebSocket that the node still sends to (but for a page's), sessions and HTTP of
  `NodeClient`.
* Attaching to a queue's block before its indexes are set (`mem_queue.py:170`): the
  node creates queues before it launches workers.
* The hardware metrics of the node, frames per second, and the layout of the web UI;
  `Pipe.restart`, `Pipe.paused` and `Processor.connect` of the page, which nothing calls.
* Configuration files; waiting for the server (`node/__init__.py:39`), which has no
  end if the new server cannot bind its port because the last one, told to terminate and
  not waited for, still has it.
* The examples' own computations.

Hazards known and not covered, beside those of `PROJECT.json`:

* queues: `update_dfps` is written from both ends (`mem_queue.py:194`); attaching before
  the indexes are set (`mem_queue.py:170`);
* workers: `request_termination` is read after the scan of the in queues
  (`worker.py:299`);
* the client: an answer that overtakes `start` (`pipe.py:88`); `terminate` after COMPLETED
  (`pipe.py:151`); `emit_sync` whose frame arrives after its timeout (`pipe.py:134`);
  `connect` and the
  thread it starts race for `connected` (`client.py:233`);
* the node: two pipes share the memory of their sinks (`node_main.py:91`); the tree and
  the drain list of a definition, used for termination only, do not end
  (`types/pipe.py:50`); a broadcast to a worker's connection that died raises
  (`pipe_controller.py:227`); pids of the last session may belong to others by now
  (`pid_log.py:55`);
* frames: a last element of no bytes is dropped (`dataframe.py:145`); 256 fields cannot
  be encoded (`dataframe.py:261`).

## 7. Plan

Done, in this order: `FrameQueue` and `MemQueue`, with types, locks, order and the safety
of the refinement proved; `NodeLifecycle`, with its safety proved for any pipes and
STARTs; `WorkerIO`, with types, ids, turns and what the queues on the way are given
proved; `PipeClient`, with its safety proved for one caller; `UpipeEntities`, `PipeGraph`
and `PipeView`, `NodeView`, `UsageTables` and `PidLog`, with their safety proved.

Next, later modules using the interface of earlier ones, not their state:

1. `PipeSink`: what `Pipe.emit_sync` returns and when, two pipes that share the id of
   their sink.
2. `DataFrameCodec`: encoding and decoding as functions, over bounded frames.
3. `Registration`: queues created and attached to while a node registers workers.
