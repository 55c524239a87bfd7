---------------------------- MODULE PidLogProofs ----------------------------
(***************************************************************************)
(* Theorems about the process log, for any number of clients and workers:  *)
(* no living process gets lost, and every server can log its workers.      *)
(***************************************************************************)
EXTENDS PidLog, FiniteSetTheorems, TLAPS

Phases == {"out", "imported", "begun", "launched", "ended"}
Writings == {"no", "open", "overlapped", "unlinked"}

\* The types of what the proofs follow.
Types ==
    /\ file \in {"gone", "torn", "whole"}
    /\ DOMAIN log = Writers
    /\ writing \in [Writers -> Writings]
    /\ phase \in [Clients -> Phases]
    /\ launched \in [Writers -> Pids \cup {Nobody}]
    /\ process \in [Pids -> {"none", "started", "up", "ended"}]
    /\ current \subseteq Writers /\ upset \in BOOLEAN

\* A log holds at most one session.
One(l) == \A s, t \in DOMAIN l : s = t

OneInv == One(saved) /\ \A x \in Writers : One(log[x])

\* A log speaks of all that live: those told to end and those not yet logged aside.
Holds(l) ==
    \A p \in Pids \ told :
        Alive(p) => \/ \E x \in Writers : launched[x] = p
                    \/ \E session \in DOMAIN l : p \in l[session]

\* One writer at a time saves, and nobody else has seen what it will have written.
SavingInv ==
    \A x \in Writers : ~NotSaving(x) =>
        writing[x] = "open" /\ file = "torn" /\ current = {x} /\ Holds(log[x])

\* Between the saves the file is good, and current are those that have what is in it.
QuietInv ==
    (\A x \in Writers : NotSaving(x)) =>
        file # "torn" /\ Holds(WhatIsRead) /\ \A x \in current : log[x] = WhatIsRead

FileInv == ~upset => SavingInv /\ QuietInv

\* A server is launched by its client only, which has a session by then.
LaunchInv ==
    \A c \in Clients :
        /\ \A x \in Writers : launched[x] = Server(c) => x = Client(c)
        /\ launched[Client(c)] # Nobody => phase[c] = "launched"
        /\ phase[c] \in {"begun", "launched"} => c \in DOMAIN log[Client(c)]

\* A server has a session in its log, unless it read the log after somebody else
\* had cleaned it and before its client logs it, which then upsets the log.
ServerInv ==
    ~upset => \A c \in Clients :
        process[Server(c)] = "up" /\ Server(c) \notin told =>
            \/ DOMAIN log[Server(c)] # {}
            \/ launched[Client(c)] # Nobody /\ Client(c) \notin current

IInv == Types /\ OneInv /\ FileInv /\ LaunchInv /\ ServerInv

-----------------------------------------------------------------------------
(* The processes have names of their own, and the types are kept. *)

LEMMA Names ==
    /\ \A c \in Clients : /\ Client(c) \in Writers /\ Server(c) \in Writers
                          /\ Server(c) \in Pids
    /\ \A c, d \in Clients : /\ Client(c) # Server(d)
                             /\ Client(c) = Client(d) => c = d
                             /\ Server(c) = Server(d) => c = d
    /\ \A c, d \in Clients : \A n \in 1..MaxWorkers :
            /\ Worker(c, n) \in Pids /\ Worker(c, n) # Server(d)
    /\ Nobody \notin Pids
  <1>1. \A c, d \in Clients : Client(c) # Server(d)
    BY DEF Client, Server
  <1>2. \A c, d \in Clients : \A n \in 1..MaxWorkers : Worker(c, n) # Server(d)
    BY MaxWorkersAssumption DEF Worker, Server
  <1>3. Nobody \notin Pids
    BY MaxWorkersAssumption DEF Pids, Nobody, Server, Worker
  <1>4. \A c, d \in Clients : /\ Client(c) = Client(d) => c = d
                              /\ Server(c) = Server(d) => c = d
    BY DEF Client, Server
  <1> QED BY <1>1, <1>2, <1>3, <1>4 DEF Writers, Pids

LEMMA TypesKept == Types /\ [Next]_vars => Types'
  <1> SUFFICES ASSUME Types, [Next]_vars PROVE Types'
    OBVIOUS
  <1> USE Names DEF Types, NotSaving, Alive, Upsets
  <1>1. ASSUME NEW c \in Clients, ClientImports(c) PROVE Types'
    BY <1>1 DEF ClientImports, Goes, Imports, Read, Phases, Writings
  <1>2. ASSUME NEW c \in Clients, clean_session(c) PROVE Types'
    BY <1>2 DEF clean_session, Opens, Writings
  <1>3. ASSUME NEW c \in Clients, start_session(c) PROVE Types'
    BY <1>3 DEF start_session, Goes, Opens, Phases, Writings
  <1>4. ASSUME NEW c \in Clients, launch_server(c) PROVE Types'
    BY <1>4 DEF launch_server, Goes, Spawns, logVars, Phases
  <1>5. ASSUME NEW c \in Clients, ClientEnds(c) PROVE Types'
    BY <1>5 DEF ClientEnds, MemoryGone, Phases, Writings
  <1>6. ASSUME NEW c \in Clients, ServerImports(c) PROVE Types'
    BY <1>6 DEF ServerImports, Imports, Read, Writings
  <1>7. ASSUME NEW c \in Clients, ServerEnds(c) PROVE Types'
    BY <1>7 DEF ServerEnds, Ends, MemoryGone, Writings
  <1>8. ASSUME NEW c \in Clients, NEW n \in 1..MaxWorkers, launch_instance(c, n) PROVE Types'
    BY <1>8 DEF launch_instance, Spawns, logVars
  <1>9. ASSUME NEW c \in Clients, NEW n \in 1..MaxWorkers, WorkerImports(c, n) PROVE Types'
    BY <1>9 DEF WorkerImports, Read, Writings
  <1>10. ASSUME NEW c \in Clients, NEW n \in 1..MaxWorkers, WorkerEnds(c, n) PROVE Types'
    BY <1>10 DEF WorkerEnds, Ends, logVars
  <1>11. ASSUME NEW x \in Writers, log_pid(x), UNCHANGED <<phase, process, told, earlier>>
         PROVE Types'
    <2>1. launched' = [launched EXCEPT ![x] = Nobody]
      BY <1>11 DEF log_pid
    <2>2. CASE Opens(x, Logged(x, launched[x]))
      BY <1>11, <2>1, <2>2 DEF Opens, Writings
    <2>3. CASE Upsets(TRUE, {}) /\ UNCHANGED <<file, saved, log, writing>>
      BY <1>11, <2>1, <2>3
    <2> QED BY <1>11, <2>2, <2>3 DEF log_pid
  <1>12. ASSUME NEW x \in Writers, Writes(x),
                UNCHANGED <<phase, launched, process, told, earlier>>
         PROVE Types'
    BY <1>12 DEF Writes, Writings
  <1>13. CASE UNCHANGED vars
    BY <1>13 DEF vars, logVars
  <1> QED BY <1>1, <1>2, <1>3, <1>4, <1>5, <1>6, <1>7, <1>8, <1>9, <1>10, <1>11, <1>12,
             <1>13 DEF Next, Saves

-----------------------------------------------------------------------------
(* One session at most *)

LEMMA SaveOfPid ==
    ASSUME NEW x \in Writers, log_pid(x)
    PROVE  /\ launched[x] # Nobody /\ NotSaving(x)
           /\ launched' = [launched EXCEPT ![x] = Nobody]
           /\ \/ DOMAIN log[x] # {} /\ Opens(x, Logged(x, launched[x]))
              \/ Upsets(TRUE, {}) /\ UNCHANGED <<file, saved, log, writing>>
  <1>1. Cardinality(DOMAIN log[x]) = 1 => DOMAIN log[x] # {}
    BY FS_EmptySet
  <1> QED BY <1>1 DEF log_pid

LEMMA OneKept == Types /\ OneInv /\ [Next]_vars => OneInv'
  <1> SUFFICES ASSUME Types, OneInv, [Next]_vars PROVE OneInv'
    OBVIOUS
  <1> USE Names DEF Types, OneInv, One
  <1>1. One(Empty) /\ One(WhatIsRead)
    BY DEF Empty, WhatIsRead
  <1>2. ASSUME NEW x \in Writers, Imports(x) PROVE OneInv'
    BY <1>1, <1>2 DEF Imports
  <1>3. ASSUME NEW c \in Clients, clean_session(c) PROVE OneInv'
    BY <1>1, <1>3 DEF clean_session, Opens
  <1>4. ASSUME NEW c \in Clients, start_session(c) PROVE OneInv'
    <2>1. /\ \A s \in DOMAIN log[Client(c)] : s = c
          /\ saved' = saved
          /\ \A x \in Writers \ {Client(c)} : log'[x] = log[x]
          /\ DOMAIN log'[Client(c)] = DOMAIN log[Client(c)] \cup {c}
      BY <1>4 DEF start_session, Opens, Others
    <2> QED BY <2>1
  <1>5. ASSUME NEW x \in Writers, MemoryGone(x) PROVE OneInv'
    BY <1>1, <1>5 DEF MemoryGone
  <1>6. ASSUME NEW x \in Writers, log_pid(x) PROVE OneInv'
    <2>1. CASE UNCHANGED <<saved, log>>
      BY <2>1
    <2>2. CASE Opens(x, Logged(x, launched[x]))
      <3>1. /\ saved' = saved
            /\ \A y \in Writers \ {x} : log'[y] = log[y]
            /\ DOMAIN log'[x] = DOMAIN log[x]
        BY <2>2 DEF Opens, Logged
      <3> QED BY <3>1
    <2> QED BY <1>6, <2>1, <2>2, SaveOfPid
  <1>7. ASSUME NEW x \in Writers, Writes(x) PROVE OneInv'
    BY <1>7 DEF Writes
  <1>8. CASE UNCHANGED <<saved, log>>
    BY <1>8
  <1>9. CASE UNCHANGED vars
    BY <1>8, <1>9 DEF vars, logVars
  <1> HIDE DEF Types, OneInv, One
  <1>10. CASE \E c \in Clients : \/ ClientImports(c) \/ clean_session(c) \/ start_session(c)
                                 \/ launch_server(c) \/ ClientEnds(c) \/ ServerImports(c)
                                 \/ ServerEnds(c)
    BY <1>2, <1>3, <1>4, <1>5, <1>8, <1>10
       DEF ClientImports, ClientEnds, ServerImports, ServerEnds, launch_server, logVars
  <1>11. CASE \E c \in Clients : \E n \in 1..MaxWorkers :
                launch_instance(c, n) \/ WorkerImports(c, n) \/ WorkerEnds(c, n)
    BY <1>8, <1>11 DEF launch_instance, WorkerImports, WorkerEnds, logVars
  <1> QED BY <1>6, <1>7, <1>9, <1>10, <1>11 DEF Next, Saves

-----------------------------------------------------------------------------
(* Servers are launched by their clients *)

LEMMA LaunchKept == Types /\ LaunchInv /\ [Next]_vars => LaunchInv'
  <1> SUFFICES ASSUME Types, LaunchInv, [Next]_vars PROVE LaunchInv'
    OBVIOUS
  <1> USE Names DEF Types, LaunchInv
  <1>1. ASSUME NEW c \in Clients, ClientImports(c) PROVE LaunchInv'
    BY <1>1 DEF ClientImports, Goes, Imports
  <1>2. ASSUME NEW c \in Clients, clean_session(c) PROVE LaunchInv'
    BY <1>2 DEF clean_session, Opens
  <1>3. ASSUME NEW c \in Clients, start_session(c) PROVE LaunchInv'
    <2>1. c \in DOMAIN log'[Client(c)] /\ \A x \in Writers \ {Client(c)} : log'[x] = log[x]
      BY <1>3 DEF start_session, Opens
    <2> QED BY <1>3, <2>1 DEF start_session, Goes
  <1>4. ASSUME NEW c \in Clients, launch_server(c) PROVE LaunchInv'
    BY <1>4 DEF launch_server, Goes, Spawns, logVars
  <1>5. ASSUME NEW c \in Clients, ClientEnds(c) PROVE LaunchInv'
    BY <1>5 DEF ClientEnds, MemoryGone
  <1>6. ASSUME NEW c \in Clients, ServerImports(c) PROVE LaunchInv'
    BY <1>6 DEF ServerImports, Imports
  <1>7. ASSUME NEW c \in Clients, ServerEnds(c) PROVE LaunchInv'
    BY <1>7 DEF ServerEnds, MemoryGone
  <1>8. ASSUME NEW c \in Clients, NEW n \in 1..MaxWorkers, launch_instance(c, n) PROVE LaunchInv'
    BY <1>8 DEF launch_instance, Spawns, logVars
  <1>9. ASSUME NEW x \in Writers, log_pid(x), phase' = phase PROVE LaunchInv'
    <2>1. \A y \in Writers : DOMAIN log'[y] = DOMAIN log[y]
      <3>1. Opens(x, Logged(x, launched[x])) =>
                \A y \in Writers : DOMAIN log'[y] = DOMAIN log[y]
        BY DEF Opens, Logged
      <3> QED BY <1>9, <3>1, SaveOfPid
    <2>2. launched' = [launched EXCEPT ![x] = Nobody]
      BY <1>9, SaveOfPid
    <2> QED BY <1>9, <2>1, <2>2
  <1>10. CASE UNCHANGED <<log, phase, launched>>
    BY <1>10
  <1> HIDE DEF Types, LaunchInv
  <1>11. CASE \E c \in Clients : \E n \in 1..MaxWorkers :
                WorkerImports(c, n) \/ WorkerEnds(c, n)
    BY <1>10, <1>11 DEF WorkerImports, WorkerEnds, logVars
  <1>12. CASE \E x \in Writers : Saves(x)
    BY <1>9, <1>10, <1>12 DEF Saves, Writes
  <1> QED BY <1>1, <1>2, <1>3, <1>4, <1>5, <1>6, <1>7, <1>8, <1>10, <1>11, <1>12
          DEF Next, vars, logVars

-----------------------------------------------------------------------------
(* The file *)

\* Whoever lives after a step is being launched, or lived and was not.
StillHolds ==
    \A p \in Pids \ told' : Alive(p)' =>
        \/ \E x \in Writers : launched'[x] = p
        \/ p \notin told /\ Alive(p) /\ \A x \in Writers : launched[x] # p

LEMMA HoldsOn ==
    ASSUME StillHolds, NEW x \in Writers
    PROVE  /\ Holds(log[x]) /\ log'[x] = log[x] => Holds(log[x])'
           /\ Holds(WhatIsRead) /\ WhatIsRead' = WhatIsRead => Holds(WhatIsRead)'
           /\ Holds(WhatIsRead) /\ log'[x] = WhatIsRead => Holds(log[x])'
  BY DEF StillHolds, Holds

\* A step that leaves the log alone.
LEMMA FileKeptElsewhere ==
    ASSUME FileInv, StillHolds, UNCHANGED logVars
    PROVE  FileInv'
  <1>1. SavingInv => SavingInv'
    BY HoldsOn DEF SavingInv, NotSaving, logVars
  <1>2. QuietInv => QuietInv'
    <2>1. WhatIsRead' = WhatIsRead
      BY DEF WhatIsRead, logVars
    <2>2. SUFFICES ASSUME QuietInv, \A x \in Writers : NotSaving(x)' PROVE
              file' # "torn" /\ Holds(WhatIsRead)' /\ \A x \in current' : log'[x] = WhatIsRead'
      BY DEF QuietInv
    <2>3. file # "torn" /\ Holds(WhatIsRead) /\ \A x \in current : log[x] = WhatIsRead
      BY <2>2 DEF QuietInv, NotSaving, logVars
    <2>4. Holds(WhatIsRead)'
      BY <2>1, <2>3 DEF StillHolds, Holds
    <2> QED BY <2>1, <2>3, <2>4 DEF logVars
  <1> QED BY <1>1, <1>2 DEF FileInv, logVars

\* A writer that has seen the last state of the log saves a log that holds.
LEMMA FileKeptByOpening ==
    ASSUME Types, NEW x \in Writers, NEW STATE l, Opens(x, l), Holds(log[x])'
    PROVE  FileInv'
  <1>1. ~upset' => \A y \in Writers : NotSaving(y)
    BY DEF Types, Opens, Upsets
  <1>2. ~upset' => current' = {x}
    BY DEF Opens, Upsets
  <1>3. writing'[x] = "open" /\ file' = "torn" /\ \A y \in Writers \ {x} : writing'[y] = writing[y]
    BY DEF Types, Opens
  <1> QED BY <1>1, <1>2, <1>3 DEF FileInv, SavingInv, QuietInv, NotSaving

LEMMA Seen ==
    ASSUME Types, FileInv, NEW x \in Writers, NEW STATE l, Opens(x, l), ~upset'
    PROVE  Holds(WhatIsRead) /\ log[x] = WhatIsRead
  <1>1. ~upset /\ x \in current /\ \A y \in Writers : NotSaving(y)
    BY DEF Types, Opens, Upsets
  <1> QED BY <1>1 DEF FileInv, QuietInv

\* A writer that imports has what the file was given last.
LEMMA FileKeptByImport ==
    ASSUME Types, FileInv, StillHolds, NEW x \in Writers, Imports(x)
    PROVE  FileInv'
  <1> SUFFICES ASSUME ~upset' PROVE SavingInv' /\ QuietInv'
    BY DEF FileInv
  <1>1. ~upset /\ file # "torn"
    BY DEF Types, Imports, Upsets
  <1>2. /\ \A y \in Writers : NotSaving(y)
        /\ Holds(WhatIsRead) /\ \A y \in current : log[y] = WhatIsRead
    BY <1>1 DEF FileInv, SavingInv, QuietInv
  <1>3. /\ UNCHANGED <<file, saved, writing>>
        /\ current' = current \cup {x}
        /\ log' = [log EXCEPT ![x] = WhatIsRead]
    BY <1>1 DEF Imports, Read, Upsets
  <1>4. WhatIsRead' = WhatIsRead
    BY <1>3 DEF WhatIsRead
  <1>5. Holds(WhatIsRead)'
    BY <1>2, <1>4 DEF StillHolds, Holds
  <1>6. \A y \in current' : log'[y] = WhatIsRead
    BY <1>2, <1>3 DEF Types
  <1> QED BY <1>1, <1>2, <1>3, <1>4, <1>5, <1>6 DEF SavingInv, QuietInv, NotSaving

LEMMA FileKeptByEnd ==
    ASSUME Types, FileInv, NEW x \in Writers, MemoryGone(x),
           \A p \in Pids \ told' : Alive(p)' => Alive(p) /\ p \notin told
    PROVE  FileInv'
  <1> SUFFICES ASSUME ~upset' PROVE SavingInv' /\ QuietInv'
    BY DEF FileInv
  <1>1. ~upset /\ NotSaving(x) /\ launched[x] = Nobody
    BY DEF Types, MemoryGone, Upsets
  <1>2. /\ UNCHANGED <<file, saved>> /\ writing' = writing
        /\ launched' = launched
        /\ current' = current \ {x}
        /\ \A y \in Writers \ {x} : log'[y] = log[y]
    BY <1>1 DEF Types, MemoryGone, Upsets, NotSaving
  <1>3. StillHolds
    BY <1>2 DEF StillHolds
  <1>4. SavingInv'
    <2> SUFFICES ASSUME NEW y \in Writers, ~NotSaving(y)'
                 PROVE  /\ writing'[y] = "open" /\ file' = "torn" /\ current' = {y}
                        /\ Holds(log[y])'
      BY DEF SavingInv
    <2>1. y # x /\ ~NotSaving(y)
      BY <1>1, <1>2 DEF NotSaving
    <2>2. writing[y] = "open" /\ file = "torn" /\ current = {y} /\ Holds(log[y])
      BY <1>1, <2>1 DEF FileInv, SavingInv
    <2>3. Holds(log[y])'
      BY <1>2, <1>3, <2>1, <2>2, HoldsOn
    <2> QED BY <1>2, <2>1, <2>2, <2>3
  <1>5. QuietInv'
    <2> SUFFICES ASSUME \A y \in Writers : NotSaving(y)'
                 PROVE  /\ file' # "torn" /\ Holds(WhatIsRead)'
                        /\ \A y \in current' : log'[y] = WhatIsRead'
      BY DEF QuietInv
    <2>1. file # "torn" /\ Holds(WhatIsRead) /\ \A y \in current : log[y] = WhatIsRead
      BY <1>1, <1>2 DEF FileInv, QuietInv, NotSaving
    <2>2. WhatIsRead' = WhatIsRead
      BY <1>2 DEF WhatIsRead
    <2>3. Holds(WhatIsRead)'
      BY <1>3, <2>1, <2>2 DEF StillHolds, Holds
    <2> QED BY <1>2, <2>1, <2>2, <2>3 DEF Types
  <1> QED BY <1>4, <1>5

\* What is cleaned was told to end.
LEMMA FileKeptByClean ==
    ASSUME Types, OneInv, FileInv, NEW c \in Clients, clean_session(c)
    PROVE  FileInv'
  <1> SUFFICES ASSUME ~upset' PROVE FileInv'
    BY DEF FileInv
  <1>1. Client(c) \in Writers /\ Opens(Client(c), Empty) /\ log'[Client(c)] = Empty
    BY Names DEF clean_session, Opens, Types
  <1>2. Holds(log[Client(c)])
    BY <1>1, Seen
  <1>3. \A s \in DOMAIN log[Client(c)] : s \in Others(c)
    <2>1. One(log[Client(c)])
      BY <1>1 DEF OneInv
    <2> QED BY <2>1 DEF clean_session, Others, One
  <1>4. /\ process' = process /\ launched' = launched
        /\ told' = told \cup {p \in Killed(c) : Alive(p)}
    BY DEF clean_session
  <1>5. Holds(log[Client(c)])'
    <2> SUFFICES ASSUME NEW p \in Pids \ told', Alive(p)'
                 PROVE  \E x \in Writers : launched'[x] = p
      BY DEF Holds
    <2>1. Alive(p) /\ p \notin told /\ p \notin Killed(c)
      BY <1>4 DEF Alive
    <2>2. \A s \in DOMAIN log[Client(c)] : p \notin log[Client(c)][s]
      BY <1>3, <2>1 DEF Killed
    <2> QED BY <1>2, <1>4, <2>1, <2>2 DEF Holds
  <1> QED BY <1>1, <1>5, FileKeptByOpening

\* A session is added to what the log has.
LEMMA FileKeptByStart ==
    ASSUME Types, FileInv, NEW c \in Clients, start_session(c)
    PROVE  FileInv'
  <1> SUFFICES ASSUME ~upset' PROVE FileInv'
    BY DEF FileInv
  <1> DEFINE l == [session \in DOMAIN log[Client(c)] \cup {c} |->
                      IF session \in DOMAIN log[Client(c)]
                      THEN log[Client(c)][session] ELSE {}]
  <1>1. Client(c) \in Writers /\ Opens(Client(c), l) /\ log'[Client(c)] = l
    BY Names DEF start_session, Opens, Types
  <1>2. Holds(log[Client(c)])
    <2> HIDE DEF l
    <2> QED BY <1>1, Seen
  <1>3. process' = process /\ launched' = launched /\ told' = told
    BY DEF start_session
  <1>4. Holds(log[Client(c)])'
    BY <1>1, <1>2, <1>3 DEF Holds, Alive
  <1> HIDE DEF l
  <1> QED BY <1>1, <1>4, FileKeptByOpening

\* The process that was launched is added.
LEMMA FileKeptBySave ==
    ASSUME Types, FileInv, NEW x \in Writers, log_pid(x), UNCHANGED <<process, told>>
    PROVE  FileInv'
  <1> SUFFICES ASSUME ~upset' PROVE FileInv'
    BY DEF FileInv
  <1> DEFINE l == Logged(x, launched[x])
  <1>1. /\ launched' = [launched EXCEPT ![x] = Nobody]
        /\ DOMAIN log[x] # {} /\ Opens(x, l)
    BY SaveOfPid DEF Upsets
  <1>2. log'[x] = l
    BY <1>1 DEF Opens, Types
  <1>3. Holds(log[x])
    <2> HIDE DEF l
    <2> QED BY <1>1, Seen
  <1>4. Holds(log[x])'
    <2> SUFFICES ASSUME NEW p \in Pids \ told', Alive(p)', \A y \in Writers : launched'[y] # p
                 PROVE  \E s \in DOMAIN log'[x] : p \in log'[x][s]
      BY DEF Holds
    <2>1. Alive(p) /\ p \notin told
      BY DEF Alive
    <2>2. DOMAIN log'[x] = DOMAIN log[x]
          /\ \A s \in DOMAIN log[x] : log'[x][s] = log[x][s] \cup {launched[x]}
      BY <1>2 DEF Logged
    <2>3. CASE p = launched[x]
      BY <1>1, <2>2, <2>3
    <2>4. CASE p # launched[x]
      <3>1. \A y \in Writers : launched[y] # p
        BY <1>1, <2>4 DEF Types
      <3> QED BY <1>3, <2>1, <2>2, <3>1 DEF Holds
    <2> QED BY <2>3, <2>4
  <1> HIDE DEF l
  <1> QED BY <1>1, <1>4, FileKeptByOpening

\* The only save under way ends.
LEMMA FileKeptByWrite ==
    ASSUME Types, FileInv, NEW x \in Writers, Writes(x),
           UNCHANGED <<launched, process, told>>
    PROVE  FileInv'
  <1> SUFFICES ASSUME ~upset PROVE SavingInv' /\ QuietInv'
    BY DEF FileInv, Writes
  <1>1. /\ writing[x] = "open" /\ current = {x} /\ Holds(log[x])
        /\ \A y \in Writers \ {x} : NotSaving(y)
    BY DEF Writes, NotSaving, FileInv, SavingInv
  <1>2. /\ file' = "whole" /\ saved' = log[x]
        /\ \A y \in Writers : writing'[y] = "no"
        /\ UNCHANGED <<log, current>>
    BY <1>1 DEF Writes, NotSaving, Types
  <1>3. WhatIsRead' = log[x]
    BY <1>2 DEF WhatIsRead
  <1>4. Holds(WhatIsRead)'
    BY <1>1, <1>3 DEF Holds, Alive
  <1> QED BY <1>1, <1>2, <1>3, <1>4 DEF SavingInv, QuietInv, NotSaving

\* A process that was not there is launched.
LEMMA SpawnStillHolds ==
    ASSUME Types, NEW x \in Writers, NEW p \in Pids, Spawns(x, p), told' = told
    PROVE  StillHolds
  <1>1. /\ launched' = [launched EXCEPT ![x] = p] /\ launched[x] = Nobody
        /\ process' = [process EXCEPT ![p] = "started"]
    BY DEF Spawns
  <1> SUFFICES ASSUME NEW q \in Pids \ told', Alive(q)', \A y \in Writers : launched'[y] # q
               PROVE  q \notin told /\ Alive(q) /\ \A y \in Writers : launched[y] # q
    BY DEF StillHolds
  <1>2. q # p
    BY <1>1 DEF Types
  <1>3. Alive(q) /\ q \notin told
    BY <1>1, <1>2 DEF Types, Alive
  <1> QED BY <1>1, <1>2, <1>3, Names DEF Types

LEMMA FileKept == Types /\ OneInv /\ FileInv /\ [Next]_vars => FileInv'
  <1> SUFFICES ASSUME Types, OneInv, FileInv, [Next]_vars PROVE FileInv'
    OBVIOUS
  <1>1. ASSUME NEW c \in Clients, ClientImports(c) PROVE FileInv'
    <2>1. StillHolds
      BY <1>1 DEF ClientImports, StillHolds, Alive
    <2> QED BY <1>1, <2>1, FileKeptByImport, Names DEF ClientImports
  <1>2. ASSUME NEW c \in Clients, ServerImports(c) PROVE FileInv'
    <2>1. StillHolds
      BY <1>2, Names DEF ServerImports, StillHolds, Alive, Types
    <2> QED BY <1>2, <2>1, FileKeptByImport, Names DEF ServerImports
  <1>3. ASSUME NEW c \in Clients, launch_server(c) PROVE FileInv'
    <2>1. StillHolds
      BY <1>3, SpawnStillHolds, Names DEF launch_server
    <2> QED BY <1>3, <2>1, FileKeptElsewhere DEF launch_server
  <1>4. ASSUME NEW c \in Clients, NEW n \in 1..MaxWorkers, launch_instance(c, n) PROVE FileInv'
    <2>1. StillHolds
      BY <1>4, SpawnStillHolds, Names DEF launch_instance
    <2> QED BY <1>4, <2>1, FileKeptElsewhere DEF launch_instance
  <1>5. ASSUME NEW c \in Clients, ClientEnds(c) PROVE FileInv'
    BY <1>5, FileKeptByEnd, Names DEF ClientEnds, Alive
  <1>6. ASSUME NEW c \in Clients, ServerEnds(c) PROVE FileInv'
    <2>1. \A p \in Pids \ told' : Alive(p)' => Alive(p) /\ p \notin told
      BY <1>6, Names DEF ServerEnds, Ends, Alive, Types
    <2> QED BY <1>6, <2>1, FileKeptByEnd, Names DEF ServerEnds
  <1>7. ASSUME NEW c \in Clients, NEW n \in 1..MaxWorkers, WorkerImports(c, n) PROVE FileInv'
    BY <1>7 DEF WorkerImports, Upsets, FileInv
  <1>8. ASSUME NEW c \in Clients, NEW n \in 1..MaxWorkers, WorkerEnds(c, n) PROVE FileInv'
    <2>1. StillHolds
      BY <1>8, Names DEF WorkerEnds, Ends, StillHolds, Alive, Types
    <2> QED BY <1>8, <2>1, FileKeptElsewhere DEF WorkerEnds
  <1>9. ASSUME NEW x \in Writers, Saves(x) PROVE FileInv'
    BY <1>9, FileKeptBySave, FileKeptByWrite DEF Saves
  <1>10. CASE UNCHANGED vars
    <2>1. StillHolds
      BY <1>10 DEF vars, StillHolds, Alive
    <2> QED BY <1>10, <2>1, FileKeptElsewhere DEF vars
  <1> QED BY <1>1, <1>2, <1>3, <1>4, <1>5, <1>6, <1>7, <1>8, <1>9, <1>10,
             FileKeptByClean, FileKeptByStart DEF Next

-----------------------------------------------------------------------------
(* Servers find their session *)

\* What ServerInv says of one server.
Finds(c) ==
    process[Server(c)] = "up" /\ Server(c) \notin told =>
        \/ DOMAIN log[Server(c)] # {}
        \/ launched[Client(c)] # Nobody /\ Client(c) \notin current

\* A step in which a server, its log and its launch stay as they were.
LEMMA FindsOn ==
    ASSUME NEW c \in Clients, Finds(c),
           process'[Server(c)] = "up" /\ Server(c) \notin told' =>
               process[Server(c)] = "up" /\ Server(c) \notin told,
           DOMAIN log[Server(c)] # {} => DOMAIN log'[Server(c)] # {},
           launched[Client(c)] # Nobody /\ Client(c) \notin current =>
               launched'[Client(c)] # Nobody /\ Client(c) \notin current'
    PROVE  Finds(c)'
  BY DEF Finds

\* A save after which the log is not upset is one by a writer that has seen the last.
LEMMA FindsAfterSave ==
    ASSUME Types, NEW x \in Writers, NEW STATE l, Opens(x, l), ~upset'
    PROVE  /\ ~upset /\ x \in current /\ current' = {x}
           /\ \A y \in Writers \ {x} : log'[y] = log[y]
           /\ log'[x] = l
  BY DEF Types, Opens, Upsets

LEMMA FindsAtImport ==
    ASSUME IInv, NEW c \in Clients, ServerImports(c), ~upset'
    PROVE  Finds(c)'
  <1> SUFFICES ASSUME Server(c) \notin told', DOMAIN log'[Server(c)] = {}
               PROVE  launched'[Client(c)] # Nobody /\ Client(c) \notin current'
    BY DEF Finds
  <1>1. /\ ~upset /\ file # "torn" /\ launched' = launched /\ told' = told
        /\ process[Server(c)] = "started"
        /\ log' = [log EXCEPT ![Server(c)] = WhatIsRead]
        /\ current' = current \cup {Server(c)}
    BY DEF ServerImports, Imports, Upsets, IInv, Types
  <1>2. \A y \in Writers : NotSaving(y)
    BY <1>1 DEF IInv, FileInv, SavingInv
  <1>3. Holds(WhatIsRead) /\ \A y \in current : log[y] = WhatIsRead
    BY <1>1, <1>2 DEF IInv, FileInv, QuietInv
  <1>4. DOMAIN WhatIsRead = {}
    BY <1>1, Names DEF IInv, Types
  <1>5. PICK x \in Writers : launched[x] = Server(c)
    BY <1>1, <1>3, <1>4, Names DEF Holds, Alive
  <1>6. launched[Client(c)] = Server(c) /\ c \in DOMAIN log[Client(c)]
    BY <1>5, Names DEF IInv, LaunchInv
  <1>7. Client(c) \notin current
    BY <1>3, <1>4, <1>6
  <1> QED BY <1>1, <1>6, <1>7, Names

LEMMA ServerKept == IInv /\ [Next]_vars => ServerInv'
  <1> SUFFICES ASSUME IInv, [Next]_vars, ~upset', NEW d \in Clients PROVE Finds(d)'
    BY DEF ServerInv, Finds
  <1>1. ~upset
    BY DEF Next, Saves, ClientImports, clean_session, start_session, launch_server, ClientEnds,
           ServerImports, ServerEnds, launch_instance, WorkerImports, WorkerEnds, Imports, Opens,
           MemoryGone, Writes, log_pid, Upsets, vars, logVars, IInv, Types
  <1>2. Finds(d) /\ Types /\ LaunchInv
    BY <1>1 DEF IInv, ServerInv, Finds
  <1> USE Names
  <1>3. ASSUME NEW c \in Clients, ClientImports(c) PROVE Finds(d)'
    <2>1. /\ process' = process /\ told' = told /\ launched' = launched
          /\ log'[Server(d)] = log[Server(d)]
          /\ current' = current \cup {Client(c)} /\ phase[c] = "out"
      BY <1>3 DEF ClientImports, Goes, Imports, Upsets, IInv, Types
    <2>2. launched[Client(c)] = Nobody
      BY <1>2, <2>1 DEF LaunchInv
    <2> QED BY <1>2, <2>1, <2>2, FindsOn
  <1>4. ASSUME NEW c \in Clients, clean_session(c) PROVE Finds(d)'
    <2>1. Client(c) \in current /\ current' = {Client(c)} /\ log'[Server(d)] = log[Server(d)]
      BY <1>2, <1>4, FindsAfterSave DEF clean_session
    <2>2. process' = process /\ launched' = launched /\ told \subseteq told'
      BY <1>4 DEF clean_session
    <2> QED BY <1>2, <2>1, <2>2, FindsOn
  <1>5. ASSUME NEW c \in Clients, start_session(c) PROVE Finds(d)'
    <2>1. Client(c) \in current /\ current' = {Client(c)} /\ log'[Server(d)] = log[Server(d)]
      BY <1>2, <1>5, FindsAfterSave DEF start_session
    <2>2. process' = process /\ launched' = launched /\ told = told'
      BY <1>5 DEF start_session
    <2> QED BY <1>2, <2>1, <2>2, FindsOn
  <1>6. ASSUME NEW x \in Writers, NEW p \in Pids, Spawns(x, p), UNCHANGED <<logVars, told>>
        PROVE Finds(d)'
    <2>1. /\ process'[Server(d)] = "up" => process[Server(d)] = "up"
          /\ launched[Client(d)] # Nobody => launched'[Client(d)] # Nobody
          /\ log' = log /\ current' = current /\ told' = told
      BY <1>2, <1>6 DEF Spawns, logVars, Types
    <2> QED BY <1>2, <2>1, FindsOn
  <1>7. ASSUME NEW c \in Clients, ClientEnds(c) PROVE Finds(d)'
    <2>1. /\ process' = process /\ told' = told /\ launched' = launched
          /\ log'[Server(d)] = log[Server(d)] /\ current' \subseteq current
      BY <1>2, <1>7 DEF ClientEnds, MemoryGone, Upsets, Types
    <2> QED BY <1>2, <2>1, FindsOn
  <1>8. ASSUME NEW c \in Clients, ServerImports(c) PROVE Finds(d)'
    <2>1. CASE d = c
      BY <1>8, <2>1, FindsAtImport
    <2>2. CASE d # c
      <3>1. /\ process'[Server(d)] = process[Server(d)] /\ told' = told /\ launched' = launched
            /\ log'[Server(d)] = log[Server(d)] /\ current' = current \cup {Server(c)}
        BY <1>2, <1>8, <2>2 DEF ServerImports, Imports, Upsets, Types
      <3> QED BY <1>2, <3>1, FindsOn
    <2> QED BY <2>1, <2>2
  <1>9. ASSUME NEW c \in Clients, ServerEnds(c) PROVE Finds(d)'
    <2>1. /\ process' = [process EXCEPT ![Server(c)] = "ended"]
          /\ told' = told \ {Server(c)}
          /\ launched' = launched /\ current' \subseteq current
          /\ d # c => log'[Server(d)] = log[Server(d)]
      BY <1>2, <1>9 DEF ServerEnds, Ends, MemoryGone, Upsets, Types
    <2>2. CASE d = c
      BY <1>2, <2>1, <2>2 DEF Finds, Types
    <2>3. CASE d # c
      BY <1>2, <2>1, <2>3, FindsOn DEF Types
    <2> QED BY <2>2, <2>3
  <1>10. ASSUME NEW c \in Clients, NEW n \in 1..MaxWorkers, WorkerEnds(c, n) PROVE Finds(d)'
    <2>1. /\ process'[Server(d)] = process[Server(d)]
          /\ told' = told \ {Worker(c, n)} /\ UNCHANGED <<log, current, launched>>
      BY <1>2, <1>10 DEF WorkerEnds, Ends, logVars, Types
    <2> QED BY <1>2, <2>1, FindsOn
  <1>11. ASSUME NEW x \in Writers, log_pid(x), UNCHANGED <<process, told>> PROVE Finds(d)'
    <2>1. /\ launched' = [launched EXCEPT ![x] = Nobody]
          /\ DOMAIN log[x] # {} /\ Opens(x, Logged(x, launched[x]))
      BY <1>11, SaveOfPid DEF Upsets
    <2>2. /\ x \in current /\ current' = {x} /\ log'[x] = Logged(x, launched[x])
          /\ \A y \in Writers \ {x} : log'[y] = log[y]
      <3> DEFINE l == Logged(x, launched[x])
      <3> HIDE DEF l
      <3>1. Opens(x, l)
        BY <2>1 DEF l
      <3>2. x \in current /\ current' = {x} /\ log'[x] = l /\ \A y \in Writers \ {x} : log'[y] = log[y]
        BY <1>2, <3>1, FindsAfterSave
      <3> QED BY <3>2 DEF l
    <2>3. DOMAIN log'[Server(d)] = DOMAIN log[Server(d)]
      BY <2>2 DEF Logged
    <2> QED BY <1>2, <1>11, <2>1, <2>2, <2>3, FindsOn DEF Types
  <1>12. CASE UNCHANGED <<log, launched, process, told, current>>
    BY <1>2, <1>12 DEF Finds
  <1>13. CASE \E c \in Clients : launch_server(c) \/ \E n \in 1..MaxWorkers :
                launch_instance(c, n) \/ WorkerImports(c, n) \/ WorkerEnds(c, n)
    BY <1>6, <1>10, <1>13 DEF launch_server, launch_instance, WorkerImports, Upsets
  <1>14. CASE \E x \in Writers : Saves(x)
    BY <1>11, <1>12, <1>14 DEF Saves, Writes
  <1> QED BY <1>3, <1>4, <1>5, <1>7, <1>8, <1>9, <1>12, <1>13, <1>14 DEF Next, vars, logVars

-----------------------------------------------------------------------------
(* The theorems *)

LEMMA Initially == Init => IInv
  <1> SUFFICES ASSUME Init PROVE IInv
    OBVIOUS
  <1> USE Names DEF Init
  <1>1. Types
    BY DEF Types, Phases, Writings
  <1>2. OneInv
    BY DEF OneInv, One, Empty
  <1>3. FileInv
    BY DEF FileInv, SavingInv, QuietInv, NotSaving, Holds, Alive
  <1>4. LaunchInv
    BY DEF LaunchInv
  <1>5. ServerInv
    BY DEF ServerInv
  <1> QED BY <1>1, <1>2, <1>3, <1>4, <1>5 DEF IInv

LEMMA Invariance == Spec => []IInv
  <1>1. IInv /\ [Next]_vars => IInv'
    BY TypesKept, OneKept, FileKept, LaunchKept, ServerKept DEF IInv
  <1> QED BY <1>1, Initially, PTL DEF Spec

\* No living process gets lost: it is in the file that the next session reads, or
\* it was told to end, or its launcher has not logged it yet.
THEOREM NobodyLost == Spec => []Tracked
  <1>1. IInv => Tracked
    <2> SUFFICES ASSUME IInv, ~upset, \A x \in Writers : NotSaving(x) PROVE Holds(WhatIsRead)
      BY DEF Tracked, Holds
    <2> QED BY DEF IInv, FileInv, QuietInv
  <1> QED BY <1>1, Invariance, PTL

LEMMA CardinalityOfOne ==
    ASSUME NEW l, One(l)
    PROVE  /\ Cardinality(DOMAIN l) <= 1
           /\ DOMAIN l # {} => Cardinality(DOMAIN l) = 1
  <1>1. CASE DOMAIN l = {}
    BY <1>1, FS_EmptySet
  <1>2. CASE DOMAIN l # {}
    <2>1. PICK s : s \in DOMAIN l
      BY <1>2
    <2>2. DOMAIN l = {s}
      BY <2>1 DEF One
    <2>3. IsFiniteSet({s}) /\ Cardinality({s}) = 1
      BY FS_Singleton
    <2> QED BY <2>2, <2>3
  <1> QED BY <1>1, <1>2

\* A log never holds two sessions, whatever happened to its file, and the server of
\* a session finds it when it logs a worker.
THEOREM SessionsKnown == Spec => []SessionKnown
  <1>1. IInv => SessionKnown
    <2> SUFFICES ASSUME IInv PROVE SessionKnown
      OBVIOUS
    <2>1. \A x \in Writers : /\ Cardinality(DOMAIN log[x]) <= 1
                             /\ DOMAIN log[x] # {} => Cardinality(DOMAIN log[x]) = 1
      BY CardinalityOfOne DEF IInv, OneInv
    <2>2. ASSUME ~upset, NEW c \in Clients, process[Server(c)] = "up", Server(c) \notin told,
                 launched[Client(c)] = Nobody
          PROVE  Cardinality(DOMAIN log[Server(c)]) = 1
      BY <2>1, <2>2, Names DEF IInv, ServerInv
    <2> QED BY <2>1, <2>2 DEF SessionKnown
  <1> QED BY <1>1, Invariance, PTL
=============================================================================
