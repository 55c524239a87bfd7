--------------------------- MODULE NodeLifecycle ---------------------------
(***************************************************************************)
(* The node server's management of pipes, processors and worker processes: *)
(* ComputeNode (node_main.py), PipeController, ProcessorController,        *)
(* WorkerController, and what a worker process does up to the end of its   *)
(* join (worker.py, client.py).                                            *)
(*                                                                         *)
(* The server is one asyncio loop: a handler runs from one await to the    *)
(* next without another handler in between, so it is one step, except      *)
(* where the monitor thread of a worker (WorkerController.monitor) can     *)
(* change the state it has read.  There the handler is two steps and loop  *)
(* says which handler is half done.                                        *)
(***************************************************************************)
EXTENDS Integers, Sequences, FiniteSets, SequencesExt

CONSTANTS Pipes,
          ProcsOf,       \* pipe -> its executable processors, in map_proc's order
          Autoscale,     \* processor -> settings.autoscale
          Attempts,      \* the times of @retry on register_proc
          ScalingLoad,   \* TRUE when the load average ever allows a scale-up
          EarlyDeath,    \* TRUE when a worker may end before it has joined
          ExitCodes,     \* how workers end, a subset of {"ok", "failed"}
          LaunchFaults,  \* where launch_instance may raise: {"spawn", "log"}
          MaxLaunches,   \* bound: processes spawned for one processor
          MaxProcesses,  \* bound: processes spawned for all of them
          MaxStarts,     \* bound: START messages for a pipe
          MaxPauses,     \* bound: PAUSE messages
          MaxLost        \* bound: registration replies that get lost

Procs == UNION {ToSet(ProcsOf[n]) : n \in Pipes}
Instance == Procs \X (1..MaxLaunches)
InstancesOf(n) == ToSet(ProcsOf[n]) \X (1..MaxLaunches)

ASSUME PipesAssumption ==
    \A n \in Pipes :
        /\ ProcsOf[n] \in Seq(Procs) /\ IsInjective(ProcsOf[n])
        /\ \A m \in Pipes \ {n} : ToSet(ProcsOf[n]) \cap ToSet(ProcsOf[m]) = {}
ASSUME BoundsAssumption ==
    /\ Autoscale \in [Procs -> Nat] /\ Attempts \in Nat \ {0}
    /\ MaxLaunches \in Nat /\ MaxProcesses \in Nat /\ MaxStarts \in Nat
    /\ MaxPauses \in Nat /\ MaxLost \in Nat
    /\ ScalingLoad \in BOOLEAN /\ EarlyDeath \in BOOLEAN
    /\ ExitCodes \subseteq {"ok", "failed"}
    /\ LaunchFaults \subseteq {"spawn", "log"}

VARIABLES
    loaded,      \* pipe_controllers: the pipes in the order they were loaded
    pipeStatus,  \* PipeController.status
    tasks,       \* set_pipe_status calls scheduled with create_task
    instances,   \* ProcessorController._instances
    procStatus,  \* ProcessorController.status
    launched,    \* processes spawned for each processor so far
    state,       \* WorkerController.state
    reaped,      \* the monitor thread has polled the exit code and ended
    worker,      \* where the worker process is
    tries,       \* failed attempts of its register_proc
    loop,        \* the handler that is half done
    sitter,      \* the baby_sitter task: "up", or what the exception came from
    starts,      \* START messages each pipe has received
    pauses, lost

pipeVars == <<loaded, pipeStatus, tasks>>
procVars == <<instances, procStatus, launched>>
workerVars == <<state, reaped, worker, tries>>
envVars == <<starts, pauses, lost>>
vars == <<pipeVars, procVars, workerVars, loop, sitter, envVars>>

Free == <<"free">>
Scaling == <<"scaling">>
Registering(i) == <<"register", i>>

Alive(i) == worker[i] \in {"starting", "registered", "joined", "stuck"}
Ended(i) == worker[i] \in {"ok", "failed"}
IsLoaded(n) == n \in ToSet(loaded)

\* The instances of a pipe in the order the loops over them take.
Listed(n) == FlattenSeq([k \in 1..Len(ProcsOf[n]) |-> instances[ProcsOf[n][k]]])
AllListed == FlattenSeq([k \in 1..Len(loaded) |-> Listed(loaded[k])])
LoadedProcs == UNION {ToSet(ProcsOf[n]) : n \in ToSet(loaded)}

\* Looking up instance i by its pid.  Every instance before it is asked for
\* its child processes, and psutil raises for one that was reaped.
Found(i, list) == \E k \in 1..Len(list) :
                      list[k] = i /\ \A m \in 1..(k - 1) : ~reaped[list[m]]

-----------------------------------------------------------------------------
Init ==
    /\ loaded = <<>>
    /\ pipeStatus = [n \in Pipes |-> "none"]
    /\ tasks = <<>>
    /\ instances = [p \in Procs |-> <<>>]
    /\ procStatus = [p \in Procs |-> "INIT"]
    /\ launched = [p \in Procs |-> 0]
    /\ state = [i \in Instance |-> "none"]
    /\ reaped = [i \in Instance |-> FALSE]
    /\ worker = [i \in Instance |-> "none"]
    /\ tries = [i \in Instance |-> 0]
    /\ loop = Free
    /\ sitter = "up"
    /\ starts = [n \in Pipes |-> 0]
    /\ pauses = 0 /\ lost = 0

\* A repeated load_pipe raises PipelineAlreadyExist and changes nothing.
LoadPipe(n) ==
    /\ loop = Free
    /\ ~IsLoaded(n)
    /\ loaded' = Append(loaded, n)
    /\ pipeStatus' = [pipeStatus EXCEPT ![n] = "READY"]
    /\ UNCHANGED <<tasks, procVars, workerVars, loop, sitter, envVars>>

NewInstance(p) == <<p, launched[p] + 1>>
Processes == {i \in Instance : worker[i] # "none"}

\* launch_instance for every processor of spawned; those of listed also get
\* as far as the append to _instances.
Launch(spawned, listed) ==
    LET new == {NewInstance(p) : p \in spawned}
    IN  /\ \A p \in spawned : launched[p] < MaxLaunches
        /\ Cardinality(Processes) + Cardinality(spawned) <= MaxProcesses
        /\ launched' = [p \in Procs |->
               IF p \in spawned THEN launched[p] + 1 ELSE launched[p]]
        /\ instances' = [p \in Procs |->
               IF p \in listed THEN Append(instances[p], NewInstance(p))
                               ELSE instances[p]]
        /\ state' = [i \in Instance |-> IF i \in new THEN "LAUNCHED" ELSE state[i]]
        /\ worker' = [i \in Instance |-> IF i \in new THEN "starting" ELSE worker[i]]
        /\ UNCHANGED <<procStatus, reaped, tries>>

StartCalled(n) ==
    /\ loop = Free
    /\ IsLoaded(n)
    /\ starts[n] < MaxStarts
    /\ starts' = [starts EXCEPT ![n] = @ + 1]
    /\ UNCHANGED <<loaded, pipeStatus, loop, sitter, pauses, lost>>

Schedule(n, status) == tasks' = Append(tasks, <<n, status>>)

HandleStart(n) ==
    /\ StartCalled(n)
    /\ Launch(ToSet(ProcsOf[n]), ToSet(ProcsOf[n]))
    /\ Schedule(n, "RUNNING")

\* The processors start has come to before the k-th.
BeforeProc(n, k) == {ProcsOf[n][m] : m \in 1..(k - 1)}

HandleStartFails(n) ==
    /\ StartCalled(n)
    /\ \E k \in 1..Len(ProcsOf[n]) :
         \/ "spawn" \in LaunchFaults /\ Launch(BeforeProc(n, k), BeforeProc(n, k))
         \/ "log" \in LaunchFaults /\ Launch(BeforeProc(n, k + 1), BeforeProc(n, k))
    /\ UNCHANGED tasks

\* ProcessorController.pause does nothing; on an idle pipe pause raises.
HandlePause(n) ==
    /\ loop = Free
    /\ pipeStatus[n] = "RUNNING"
    /\ pauses < MaxPauses
    /\ pauses' = pauses + 1
    /\ Schedule(n, "PAUSED")
    /\ UNCHANGED <<loaded, pipeStatus, procVars, workerVars, loop, sitter>>
    /\ UNCHANGED <<starts, lost>>

\* set_pipe_status, scheduled by start, pause or cleanup.
SetPipeStatus ==
    /\ loop = Free
    /\ tasks # <<>>
    /\ pipeStatus' = [pipeStatus EXCEPT ![Head(tasks)[1]] = Head(tasks)[2]]
    /\ tasks' = Tail(tasks)
    /\ UNCHANGED <<loaded, procVars, workerVars, loop, sitter, envVars>>

-----------------------------------------------------------------------------
(* The worker process: Worker.join and its end. *)

Becomes(i, w) == worker' = [worker EXCEPT ![i] = w]

\* Mistaken variant: one attempt more than times.
FailedAttemptExtra(i) ==
    /\ tries' = [tries EXCEPT ![i] = @ + 1]
    /\ IF tries[i] < Attempts THEN UNCHANGED worker ELSE Becomes(i, "failed")

\* Mistaken variant: there is no last attempt.
FailedAttemptForever(i) == UNCHANGED <<tries, worker>>

\* @retry: after the last attempt the TimeoutError ends the process.
FailedAttempt(i) ==
    /\ tries' = [tries EXCEPT ![i] = @ + 1]
    /\ IF tries[i] + 1 < Attempts THEN UNCHANGED worker ELSE Becomes(i, "failed")

\* register_launched_instance finds the instance, still LAUNCHED.
Registrable(i) == Found(i, AllListed) /\ state[i] = "LAUNCHED"

RegisterRefused(i) ==
    /\ loop = Free
    /\ worker[i] = "starting"
    /\ ~Registrable(i)
    /\ FailedAttempt(i)
    /\ UNCHANGED <<pipeVars, procVars, state, reaped, loop, sitter, envVars>>

RegisterChecked(i) ==
    /\ loop = Free
    /\ worker[i] = "starting"
    /\ Registrable(i)
    /\ loop' = Registering(i)
    /\ UNCHANGED <<pipeVars, procVars, workerVars, sitter, envVars>>

\* WorkerController.register, and the reply reaching the worker or not.
RegisterSet(i) ==
    /\ loop = Registering(i)
    /\ loop' = Free
    /\ state' = [state EXCEPT ![i] = "READY"]
    /\ \/ /\ IF worker[i] = "starting" THEN Becomes(i, "registered")
                                      ELSE UNCHANGED worker
          /\ UNCHANGED <<tries, lost>>
       \/ /\ lost < MaxLost /\ worker[i] = "starting"
          /\ lost' = lost + 1
          /\ FailedAttempt(i)
    /\ UNCHANGED <<pipeVars, procVars, reaped, sitter, starts, pauses>>

\* NodeClient.connect.  attach_proc asks the pipes one after the other, and
\* the first that does not know the pid raises: the socket is refused and
\* connect waits for it without end.
Connect(i) ==
    /\ loop = Free
    /\ worker[i] = "registered"
    /\ Becomes(i, IF Found(i, Listed(loaded[1])) THEN "joined" ELSE "stuck")
    /\ UNCHANGED <<pipeVars, procVars, state, reaped, tries, loop, sitter, envVars>>

MayEnd(i) == worker[i] = "joined" \/ (EarlyDeath /\ Alive(i))

WorkerEnds(i) ==
    /\ MayEnd(i)
    /\ \E code \in ExitCodes : Becomes(i, code)
    /\ UNCHANGED <<pipeVars, procVars, state, reaped, tries, loop, sitter, envVars>>

\* WorkerController.monitor, in a thread of its own.
Monitor(i) ==
    /\ Ended(i)
    /\ ~reaped[i]
    /\ reaped' = [reaped EXCEPT ![i] = TRUE]
    /\ state' = [state EXCEPT ![i] = "DONE"]
    /\ UNCHANGED <<pipeVars, procVars, worker, tries, loop, sitter, envVars>>

-----------------------------------------------------------------------------
(* The baby_sitter task: one tick monitors every pipe, then autoscales. *)

\* handle_instance_exit takes an instance off the list if it exited with 0.
Removed(i) == state[i] = "DONE" /\ worker[i] = "ok"

\* monitor_pipe removes from the list it iterates over, and so skips the
\* instance after each one it removes.
Visited(p) ==
    LET s == instances[p]
        visited[k \in 0..Len(s)] ==
            k < 2 \/ ~(visited[k - 1] /\ Removed(s[k - 1]))
    IN  {k \in 1..Len(s) : visited[k]}

\* Mistaken variant: an instance that only finished is taken for running.
RunningNeverDone(n) == \E p \in ToSet(ProcsOf[n]) : Visited(p) # {}

\* Mistaken variant: instances that have not registered are not counted.
RunningReadyOnly(n) ==
    \E p \in ToSet(ProcsOf[n]) : \E k \in Visited(p) :
        state[instances[p][k]] = "READY"

\* Whether monitor_pipe counts any running instance.
Running(n) ==
    \E p \in ToSet(ProcsOf[n]) : \E k \in Visited(p) :
        state[instances[p][k]] # "DONE"

\* The k-th of the positions of kept, counted from the smallest.
Position(kept, k) == CHOOSE m \in kept : Cardinality({l \in kept : l <= m}) = k

Keeping(s, kept) == [k \in 1..Cardinality(kept) |-> s[Position(kept, k)]]

\* Mistaken variant: every instance visited is taken off the list.
LeftUnvisited(p) == Keeping(instances[p], DOMAIN instances[p] \ Visited(p))

Left(p) ==
    LET s == instances[p]
    IN  Keeping(s, {k \in DOMAIN s : ~(k \in Visited(p) /\ Removed(s[k]))})

\* Mistaken variant: only an instance that failed completes its processor.
FinishedFailed(p) ==
    \E k \in Visited(p) :
        state[instances[p][k]] = "DONE" /\ worker[instances[p][k]] = "failed"

Finished(p) == \E k \in Visited(p) : state[instances[p][k]] = "DONE"

\* running_pipes_count > 0
AnyPipeRunning == \E n \in Pipes : pipeStatus[n] = "RUNNING"

MonitorPipes ==
    /\ loop = Free
    /\ sitter = "up"
    /\ AnyPipeRunning
    /\ \A k \in 1..Len(tasks) : tasks[k][2] # "COMPLETED"
    /\ instances' = [p \in Procs |-> IF p \in LoadedProcs THEN Left(p) ELSE <<>>]
    /\ procStatus' = [p \in Procs |->
           IF p \in LoadedProcs /\ Finished(p) THEN "COMPLETED" ELSE procStatus[p]]
    /\ LET over == Keeping(loaded, {k \in DOMAIN loaded : ~Running(loaded[k])})
       IN  tasks' = tasks \o [k \in 1..Len(over) |-> <<over[k], "COMPLETED">>]
    /\ loop' = Scaling
    /\ UNCHANGED <<loaded, pipeStatus, launched, workerVars, sitter, envVars>>

LaunchedOf(p) == {i \in ToSet(instances[p]) : state[i] = "LAUNCHED"}

Room(p) ==
    IF procStatus[p] = "COMPLETED" THEN 0 ELSE Autoscale[p] - Len(instances[p])

\* The first of procs for which P holds satisfies Q.
FirstSuch(procs, P(_), Q(_)) ==
    \E k \in 1..Len(procs) :
        /\ P(procs[k]) /\ Q(procs[k])
        /\ \A m \in 1..(k - 1) : ~P(procs[m])

\* launched_instances: the first processor with one makes is_scaling true,
\* and raises if it has two.
HasLaunched(p) == LaunchedOf(p) # {}
TwoLaunched(p) == Cardinality(LaunchedOf(p)) > 1
Unavailable(p) == Room(p) < 0
Available(p) == Room(p) > 0

PipeScaling(n) == \E p \in ToSet(ProcsOf[n]) : HasLaunched(p)
IsScaling == \E n \in ToSet(loaded) : PipeScaling(n)

DuplicateSeenIn(n) == FirstSuch(ProcsOf[n], HasLaunched, TwoLaunched)
DuplicateSeen == FirstSuch(loaded, PipeScaling, DuplicateSeenIn)

\* scaled_to_maxed of a pipe looks no further than the first room it finds.
OverScaledSeen(n) == FirstSuch(ProcsOf[n], LAMBDA p : Room(p) # 0, Unavailable)
HasRoom(n) == FirstSuch(ProcsOf[n], LAMBDA p : Room(p) # 0, Available)

\* get_processor_to_scale_up looks at all of them.
OverScaledPick(n) == \E p \in ToSet(ProcsOf[n]) : Unavailable(p)
PipeToScale(n) == FirstSuch(loaded, HasRoom, LAMBDA m : m = n)

\* An exception of the checks in check_autoscale ends the baby_sitter task.
SitterDies ==
    /\ sitter' = "checkFailed"
    /\ UNCHANGED <<procVars, workerVars>>

NoScaling == UNCHANGED <<sitter, procVars, workerVars>>

\* Scaling up the processor with the largest pending count; an exception of
\* launch_instance ends the baby_sitter task as well.
ScaleUp(n) ==
    \E p \in ToSet(ProcsOf[n]) :
        /\ Available(p)
        /\ \/ Launch({p}, {p}) /\ UNCHANGED sitter
           \/ "spawn" \in LaunchFaults /\ Launch({}, {}) /\ sitter' = "launchFailed"
           \/ "log" \in LaunchFaults /\ Launch({p}, {}) /\ sitter' = "launchFailed"

\* check_autoscale.  The scale-down it starts under high load does nothing.
CheckAutoscale ==
    /\ loop = Scaling
    /\ loop' = Free
    /\ \/ DuplicateSeen /\ SitterDies
       \/ ~DuplicateSeen /\ NoScaling
       \/ /\ ScalingLoad /\ ~IsScaling
          /\ \/ (\E n \in ToSet(loaded) : OverScaledSeen(n)) /\ SitterDies
             \/ /\ \A n \in ToSet(loaded) : ~OverScaledSeen(n)
                /\ \E n \in ToSet(loaded) :
                     /\ PipeToScale(n)
                     /\ IF OverScaledPick(n) THEN SitterDies ELSE ScaleUp(n)
    /\ UNCHANGED <<pipeVars, envVars>>

Next ==
    \/ \E n \in Pipes : LoadPipe(n) \/ HandleStart(n) \/ HandleStartFails(n)
                        \/ HandlePause(n)
    \/ SetPipeStatus
    \/ \E i \in Instance : RegisterRefused(i) \/ RegisterChecked(i) \/ RegisterSet(i)
                           \/ Connect(i) \/ WorkerEnds(i) \/ Monitor(i)
    \/ MonitorPipes \/ CheckAutoscale

\* The server's loop and threads go on; users, workers and the load need not.
\* Other handlers run between two turns of a waiting one, but asyncio gives
\* every ready handler its turn: strong fairness for the handlers.
LoopFairness ==
    /\ SF_vars(SetPipeStatus) /\ WF_vars(MonitorPipes) /\ WF_vars(CheckAutoscale)

\* A monitor thread polls once a second, independently of the loop.
MonitorFairness == WF_vars(\E i \in Instance : Monitor(i))

\* Joins take finitely many steps, so it is enough that some worker's goes on.
JoinStep(i) == RegisterRefused(i) \/ RegisterChecked(i) \/ RegisterSet(i) \/ Connect(i)
JoinFairness == SF_vars(\E i \in Instance : JoinStep(i))

Spec == Init /\ [][Next]_vars
FairSpec == Spec /\ LoopFairness /\ MonitorFairness /\ JoinFairness

-----------------------------------------------------------------------------
(* Properties *)

Statuses == {"none", "READY", "RUNNING", "PAUSED", "COMPLETED"}

\* Every variable stays within its type.
TypeOK ==
    /\ loaded \in SeqOf(Pipes, Cardinality(Pipes))
    /\ pipeStatus \in [Pipes -> Statuses]
    /\ \A k \in 1..Len(tasks) : tasks[k] \in Pipes \X Statuses
    /\ \A p \in Procs : ToSet(instances[p]) \subseteq {p} \X (1..launched[p])
    /\ procStatus \in [Procs -> {"INIT", "COMPLETED"}]
    /\ launched \in [Procs -> 0..MaxLaunches]
    /\ state \in [Instance -> {"none", "LAUNCHED", "READY", "DONE"}]
    /\ reaped \in [Instance -> BOOLEAN]
    /\ worker \in [Instance -> {"none", "starting", "registered", "joined",
                                 "stuck", "ok", "failed"}]
    /\ tries \in [Instance -> 0..Attempts]
    /\ loop \in {Free, Scaling} \cup {Registering(i) : i \in Instance}
    /\ sitter \in {"up", "checkFailed", "launchFailed"}
    /\ starts \in [Pipes -> 0..MaxStarts]
    /\ pauses \in 0..MaxPauses /\ lost \in 0..MaxLost

WorkersOf(n) == {i \in InstancesOf(n) : Alive(i)}

\* A pipe is marked COMPLETED (cleanup) only when none of its workers lives:
\* what wait_for_completion reports is true.
CompletedWhenOver ==
    [][\A n \in Pipes : pipeStatus[n] # "COMPLETED" /\ pipeStatus'[n] = "COMPLETED"
                         => WorkersOf(n) = {}]_vars

\* A run is reported COMPLETED too early by no more than what monitor_pipe misses,
\* the instance after a removed one: a processor that was launched only once is
\* over, also when log_pid's exception left its worker on no list, when workers die
\* before they join, and when a START comes between the tick and cleanup's task.
CompletedWhenSinglesOver ==
    [][\A n \in Pipes : pipeStatus[n] = "RUNNING" /\ pipeStatus'[n] = "COMPLETED"
                         => \A i \in WorkersOf(n) : launched[i[1]] > 1]_vars

\* RUNNING means that some start launched every processor of the pipe, although an
\* exception of launch_instance may end it in the middle.  Living workers that are
\* on no list, where neither the registration nor the baby sitter finds them, are
\* only what log_pid's exceptions leave behind: one for each START that failed,
\* and one more when the autoscaler's launch failed, which ends the baby sitter.
Untracked(n) == {i \in WorkersOf(n) : i \notin ToSet(instances[i[1]])}

RunningIsWhole ==
    \A n \in Pipes : pipeStatus[n] = "RUNNING" =>
        /\ \A p \in ToSet(ProcsOf[n]) : launched[p] > 0
        /\ sitter # "launchFailed" => Cardinality(Untracked(n)) < starts[n]

\* The STARTs of a pipe that came when it had processes already: every one but the
\* first, or every one if the run of another pipe lets the autoscaler launch first.
Restarts(n) == IF Pipes = {n} THEN starts[n] - 1 ELSE starts[n]

\* Over a pipe's life no processor has more processes than its autoscale setting
\* and one for each repeated START, which launches without looking at what runs:
\* the autoscaler never replaces workers that ended, nor adds to what a START put
\* beyond the setting.  And without a repeated START the consistency checks
\* (duplicated launch, over scaled) never fail and never end the baby sitter.
WithinAutoscale ==
    /\ \A n \in Pipes : \A p \in ToSet(ProcsOf[n]) :
          launched[p] > 0 => launched[p] <= Autoscale[p] + Restarts(n)
    /\ sitter = "checkFailed" => \E n \in Pipes : Restarts(n) > 0

\* A registration that was still going on when its worker died: register has set
\* READY over the DONE of the monitor thread, which has ended.
Overwritten(n) == \E i \in InstancesOf(n) : reaped[i] /\ state[i] = "READY"

\* A running pipe whose workers have all ended does not stay RUNNING with nothing
\* alive: it is marked COMPLETED, or paused or started again, unless the baby sitter
\* has been ended by an exception or a dead worker's registration was overwritten:
\* in these two cases the code leaves the pipe RUNNING for ever.
Completion ==
    \A n \in Pipes :
        (pipeStatus[n] = "RUNNING" /\ WorkersOf(n) = {}) ~>
            \/ pipeStatus[n] # "RUNNING" \/ WorkersOf(n) # {}
            \/ sitter # "up" \/ Overwritten(n)

\* A worker that begins its join joins or ends, also when replies are lost and
\* registrations are refused; unless the node has reaped another one, about which
\* the lookup of this one then asks the system in vain.
JoinEnds ==
    \A i \in Instance :
        worker[i] = "starting" ~>
            \/ worker[i] \in {"joined", "ok", "failed"}
            \/ \E j \in Instance \ {i} : reaped[j]
=============================================================================
