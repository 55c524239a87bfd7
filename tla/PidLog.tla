------------------------------- MODULE PidLog -------------------------------
(***************************************************************************)
(* The process log (pid_log.py), by which a new session ends what earlier  *)
(* ones have left behind, and the processes that share its file: clients   *)
(* (start_server of node/__init__.py), the node server each of them        *)
(* launches, and the workers the servers launch.                           *)
(*                                                                         *)
(* Every process that imports upipe reads the file once and keeps its own  *)
(* copy, which it writes back whole with each change.  Processes may end   *)
(* at any point.  Pids are not used again.                                 *)
(***************************************************************************)
EXTENDS Naturals, Sequences, FiniteSets

CONSTANTS Clients,      \* client processes, in any order and at the same time
          MaxWorkers,   \* bound: workers launched by each server
          Functions     \* the workers that are functions, which the server forks

ASSUME MaxWorkersAssumption == MaxWorkers \in Nat

\* The processes that save the log, and those whose pids are logged.  A session
\* has the name of its client.
Client(c) == <<c, 0>>
Server(c) == <<c, 1>>
Worker(c, n) == <<c, n + 1>>
Writers == {Client(c) : c \in Clients} \cup {Server(c) : c \in Clients}
Pids == {Server(c) : c \in Clients} \cup {Worker(c, n) : c \in Clients, n \in 1..MaxWorkers}

ASSUME FunctionsAssumption ==
    Functions \subseteq {Worker(c, n) : c \in Clients, n \in 1..MaxWorkers}

\* A log holds the pids of each session that is in it.
Empty == [session \in {} |-> {}]
Nobody == <<>>

VARIABLES
    file,       \* upipe_pid_log.json: gone, torn (truncated, or no JSON), whole
    saved,      \* the log it was given last
    log,        \* PidLog.log of each writer
    writing,    \* its _save: no, open, overlapped by another's, unlinked
    phase,      \* where each client is
    launched,   \* the process that a writer has spawned and not yet logged
    process,    \* of each pid: none, started, up (a server with its log), ended
    told,       \* living processes that were told to terminate
    \* history
    current,    \* until upset: the writers whose copy is what the file was given last
    found,      \* living processes that were logged when a client imported upipe,
                \*   unless the log was upset by then
    earlier,    \* those of them that still lived when the client began its session
    upset       \* there was an end between a spawn and the end of its save, a torn
                \*   file that was read, a save by a writer that had not seen the
                \*   last one, or a log_pid that raised

logVars == <<file, saved, log, writing, current, upset>>
vars == <<logVars, phase, launched, process, told, found, earlier>>

Init ==
    /\ file = "gone" /\ saved = Empty
    /\ log = [x \in Writers |-> Empty]
    /\ writing = [x \in Writers |-> "no"]
    /\ phase = [c \in Clients |-> "out"]
    /\ launched = [x \in Writers |-> Nobody]
    /\ process = [p \in Pids |-> "none"]
    /\ told = {}
    /\ current = {} /\ upset = FALSE
    /\ found = [c \in Clients |-> {}] /\ earlier = {}

NotSaving(x) == writing[x] = "no"
Alive(p) == process[p] \in {"started", "up"}

\* The history: whether the log is upset, and else who has seen its last state.
Upsets(b, seen) ==
    /\ upset' = (upset \/ b)
    /\ current' = IF upset' THEN {} ELSE seen

-----------------------------------------------------------------------------
(* The file *)

\* PidLog(): a file that cannot be parsed is removed.
Read ==
    IF file = "torn"
    THEN /\ file' = "gone"
         /\ writing' = [x \in Writers |-> IF writing[x] = "no" THEN "no" ELSE "unlinked"]
    ELSE UNCHANGED <<file, writing>>

WhatIsRead == IF file = "whole" THEN saved ELSE Empty

\* A writer imports upipe.
Imports(x) ==
    /\ Read
    /\ log' = [log EXCEPT ![x] = WhatIsRead] /\ saved' = saved
    /\ Upsets(file = "torn", current \cup {x})

\* The log becomes new and _save opens the file, which truncates it.
Opens(x, new) ==
    /\ log' = [log EXCEPT ![x] = new]
    /\ file' = "torn" /\ saved' = saved
    /\ writing' = [writing EXCEPT ![x] = "open"]
    /\ Upsets(x \notin current \/ \E y \in Writers : ~NotSaving(y), {x})

\* It writes to the file it has opened, which may exist no more, or may hold more
\* than it writes.
Writes(x) ==
    /\ \/ writing[x] \in {"open", "overlapped"} /\ file' = "whole" /\ saved' = log[x]
       \/ writing[x] = "overlapped" /\ file' = "torn" /\ saved' = saved
       \/ writing[x] = "unlinked" /\ UNCHANGED <<file, saved>>
    /\ writing' = [y \in Writers |->
          IF y = x THEN "no"
          ELSE IF writing[y] = "open" /\ writing[x] # "unlinked" THEN "overlapped"
          ELSE writing[y]]
    /\ UNCHANGED <<log, current, upset>>

\* Mistaken variant: only the last process is remembered.
LoggedLast(x, p) == [session \in DOMAIN log[x] |-> {p}]

Logged(x, p) == [session \in DOMAIN log[x] |-> log[x][session] \cup {p}]

\* log_pid raises IndexError when the log does not hold exactly one session: the
\* process lives on, in no list.
log_pid(x) ==
    /\ launched[x] # Nobody /\ NotSaving(x)
    /\ launched' = [launched EXCEPT ![x] = Nobody]
    /\ IF Cardinality(DOMAIN log[x]) = 1
       THEN Opens(x, Logged(x, launched[x]))
       ELSE Upsets(TRUE, {}) /\ UNCHANGED <<file, saved, log, writing>>

Spawns(x, p) ==
    /\ launched[x] = Nobody /\ NotSaving(x)
    /\ process[p] = "none"
    /\ process' = [process EXCEPT ![p] = "started"]
    /\ launched' = [launched EXCEPT ![x] = p]

\* A writer ends, wherever it was.
MemoryGone(x) ==
    /\ log' = [log EXCEPT ![x] = Empty]
    /\ writing' = [writing EXCEPT ![x] = "no"]
    /\ launched' = [launched EXCEPT ![x] = Nobody]
    /\ Upsets(~NotSaving(x) \/ launched[x] # Nobody, current \ {x})
    /\ UNCHANGED <<file, saved>>

-----------------------------------------------------------------------------
(* A client *)

Goes(c, from, to) == phase[c] = from /\ phase' = [phase EXCEPT ![c] = to]

ClientImports(c) ==
    /\ Goes(c, "out", "imported")
    /\ Imports(Client(c))
    /\ found' = [found EXCEPT ![c] =
          IF upset' THEN {} ELSE {p \in Pids : Alive(p) /\ \A x \in Writers : launched[x] # p}]
    /\ UNCHANGED <<launched, process, told, earlier>>

\* Mistaken variant: the sessions of before are left alone.
OthersNone(c) == {}

Others(c) == DOMAIN log[Client(c)] \ {c}

\* Mistaken variant: the server is not ended with its workers.
KilledWorkers(c) ==
    UNION {log[Client(c)][session] : session \in Others(c)} \ {Server(d) : d \in Clients}

\* kill_process of every pid of the other sessions.
Killed(c) == UNION {log[Client(c)][session] : session \in Others(c)}

\* _clean_session: the log holds one session, if any.
clean_session(c) ==
    /\ phase[c] = "imported" /\ NotSaving(Client(c))
    /\ Others(c) # {}
    /\ told' = told \cup {p \in Killed(c) : Alive(p)}
    /\ Opens(Client(c), Empty)
    /\ UNCHANGED <<phase, launched, process, found, earlier>>

\* start_session adds the client's own.
start_session(c) ==
    /\ Goes(c, "imported", "begun") /\ NotSaving(Client(c))
    /\ Others(c) = {}
    /\ Opens(Client(c), [session \in DOMAIN log[Client(c)] \cup {c} |->
                            IF session \in DOMAIN log[Client(c)]
                            THEN log[Client(c)][session] ELSE {}])
    /\ earlier' = earlier \cup {p \in found[c] : Alive(p)}
    /\ found' = [found EXCEPT ![c] = {}]
    /\ UNCHANGED <<launched, process, told>>

launch_server(c) ==
    /\ Goes(c, "begun", "launched")
    /\ Spawns(Client(c), Server(c))
    /\ UNCHANGED <<logVars, told, found, earlier>>

\* The process of the client ends; later it has no use for the log any more.
ClientEnds(c) ==
    /\ phase[c] \in {"imported", "begun"} \/ launched[Client(c)] # Nobody \/ ~NotSaving(Client(c))
    /\ phase' = [phase EXCEPT ![c] = "ended"]
    /\ MemoryGone(Client(c))
    /\ found' = [found EXCEPT ![c] = {}]
    /\ UNCHANGED <<process, told, earlier>>

-----------------------------------------------------------------------------
(* Servers and workers *)

ServerImports(c) ==
    /\ process[Server(c)] = "started"
    /\ process' = [process EXCEPT ![Server(c)] = "up"]
    /\ Imports(Server(c))
    /\ UNCHANGED <<phase, launched, told, found, earlier>>

\* launch_instance, also while the server shuts down.
launch_instance(c, n) ==
    /\ process[Server(c)] = "up"
    /\ Spawns(Server(c), Worker(c, n))
    /\ UNCHANGED <<logVars, phase, told, found, earlier>>

\* A worker imports upipe and has no use for the log; a forked one does not read
\* it.  Nothing else comes of it than the end of a torn file.
WorkerImports(c, n) ==
    /\ Alive(Worker(c, n))
    /\ file = "torn" /\ Read
    /\ Upsets(TRUE, {})
    /\ UNCHANGED <<saved, log, phase, launched, process, told, found, earlier>>

\* A process ends by itself, by a fault, or because it was told to.
Ends(p) ==
    /\ Alive(p)
    /\ process' = [process EXCEPT ![p] = "ended"]
    /\ told' = told \ {p} /\ earlier' = earlier \ {p}
    /\ UNCHANGED found

ServerEnds(c) ==
    /\ Ends(Server(c))
    /\ MemoryGone(Server(c))
    /\ UNCHANGED phase

WorkerEnds(c, n) ==
    /\ Ends(Worker(c, n))
    /\ UNCHANGED <<logVars, phase, launched>>

Saves(x) ==
    \/ log_pid(x) /\ UNCHANGED <<phase, process, told, found, earlier>>
    \/ Writes(x) /\ UNCHANGED <<phase, launched, process, told, found, earlier>>

Next ==
    \/ \E c \in Clients :
         \/ ClientImports(c) \/ clean_session(c) \/ start_session(c) \/ launch_server(c)
         \/ ClientEnds(c) \/ ServerImports(c) \/ ServerEnds(c)
         \/ \E n \in 1..MaxWorkers :
               launch_instance(c, n) \/ WorkerImports(c, n) \/ WorkerEnds(c, n)
    \/ \E x \in Writers : Saves(x)

\* A server that shuts down joins the functions it has forked, which have its
\* handler of SIGTERM: told to terminate, they need not end, and it waits for them.
Waits(c) == \E n \in 1..MaxWorkers : Worker(c, n) \in Functions /\ Alive(Worker(c, n))

\* Else what was told to terminate does.  A program that runs goes on to its next
\* save.
Fairness ==
    /\ \A c \in Clients :
          /\ WF_vars(Server(c) \in told /\ ~Waits(c) /\ ServerEnds(c))
          /\ \A n \in 1..MaxWorkers :
                Worker(c, n) \notin Functions =>
                    WF_vars(Worker(c, n) \in told /\ WorkerEnds(c, n))
    /\ \A x \in Writers : WF_vars(Saves(x))

Spec == Init /\ [][Next]_vars
FairSpec == Spec /\ Fairness

-----------------------------------------------------------------------------
(* Properties *)

\* Every living process is in the file that the next client will read, or has been
\* told to end: whoever has started, ended, failed or cleaned up before.  A process
\* is not yet while its launcher has not logged it, none is while a save is under
\* way, and nothing is promised of a log that was upset.
Tracked ==
    ~upset /\ (\A x \in Writers : NotSaving(x)) =>
        \A p \in Pids \ told :
            Alive(p) => \/ \E x \in Writers : launched[x] = p
                        \/ \E session \in DOMAIN WhatIsRead : p \in WhatIsRead[session]

\* log_pid never finds two sessions, however many clients share the file and even
\* when it was upset; and a server finds one, so that every worker it launches can
\* be logged, unless it was told to end, or its client has yet to log the server.
SessionKnown ==
    /\ \A x \in Writers : Cardinality(DOMAIN log[x]) <= 1
    /\ ~upset => \A c \in Clients :
                    process[Server(c)] = "up" /\ Server(c) \notin told
                    /\ launched[Client(c)] = Nobody =>
                        Cardinality(DOMAIN log[Server(c)]) = 1

\* A new session ends every process that was logged when its client imported
\* upipe, whatever becomes of the log after that and whoever else begins a session:
\* the workers that are scripts, and the server unless a function that it has forked
\* lives on.  architecture.md promises all processes of the sessions before.
EarlierEnd ==
    \A c \in Clients :
        /\ Server(c) \in earlier ~> Server(c) \notin earlier \/ Waits(c)
        /\ \A p \in {Worker(c, n) : n \in 1..MaxWorkers} \ Functions :
              p \in earlier ~> p \notin earlier
=============================================================================
