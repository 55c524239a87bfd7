------------------------------ MODULE MemQueue ------------------------------
(***************************************************************************)
(* The shared-memory queue of entities/mem_queue.py.                       *)
(*                                                                         *)
(* A ring of DataSize cells in a shared memory block, two indexes, two     *)
(* counters, and two locks that are themselves shared memory blocks.       *)
(* Producers are the processes that call put, Consumers those that call    *)
(* get.  One step is at most one source line that touches the shared       *)
(* memory, and the copy of a frame into the ring proceeds cell by cell.    *)
(* A cell stands for 16 bytes: a frame is two header cells (status and     *)
(* size; watermark and checksum) followed by its body cells.               *)
(***************************************************************************)
EXTENDS Integers, Sequences, FiniteSets

CONSTANTS Producers, Consumers,
          DataSize,          \* cells of the ring
          ControlSize,       \* cells of the control block (Q_CONTROL_SIZE)
          FrameSizes,        \* sizes of whole frames, in cells
          CapNum, CapDen,    \* MAX_CAPACITY = CapNum / CapDen
          MaxPuts,           \* bound: frames each producer offers
          MaxCrashes,        \* bound: processes killed in the middle of a call
          CloseReleases,     \* TRUE where closing a block destroys it (Windows)
          Free, Orphan       \* the states of a lock that no live call holds

HeaderSize == 2

ASSUME SizesAssumption ==
    /\ DataSize \in Nat \ {0} /\ ControlSize \in Nat
    /\ CapNum \in Nat /\ CapDen \in Nat
    /\ FrameSizes \subseteq {n \in Nat : HeaderSize < n /\ n <= DataSize}
    /\ MaxPuts \in Nat /\ MaxCrashes \in Nat
ASSUME LockAssumption ==
    /\ CloseReleases \in BOOLEAN
    /\ Free # Orphan
    /\ {Free, Orphan} \cap (Producers \cup Consumers) = {}

Frame == [from : Producers, num : 1..MaxPuts, size : FrameSizes]

\* A cell holds zeroes, or piece number k of a frame.
Zero == <<>>
Cell == {Zero} \cup (Frame \X (0..(DataSize - 1)))

VARIABLES mem, allocIndex, exeIndex, allocCounter, exeCounter,
          wLock, rLock,
          pcP,        \* where each producer is in put
          frame,      \* the frame each producer is putting
          behind,     \* how the comparison in free_space came out
          written,    \* the cells of that frame already copied
          pcC,        \* where each consumer is in get
          header,     \* the header each consumer has read
          body,       \* the body each consumer has read
          puts,       \* the frames each producer is done with
          crashes,
          accepted, delivered, broken   \* history: put, got, failed the CRC

ringVars == <<mem, allocIndex, exeIndex, allocCounter, exeCounter>>
putVars  == <<pcP, frame, behind, written, puts>>
getVars  == <<pcC, header, body>>
history  == <<accepted, delivered, broken>>
vars == <<ringVars, wLock, rLock, putVars, getVars, crashes, history>>

-----------------------------------------------------------------------------
Pos == 0..(DataSize - 1)

\* The position n cells after i; positions count from DATA_START_POINT.
Plus(i, n) == IF i + n < DataSize THEN i + n ELSE i + n - DataSize

\* free_space, when its comparison alloc_index < exe_index came out as b.
FreeSpace(b) == IF b THEN exeIndex - allocIndex
                     ELSE DataSize - (allocIndex - exeIndex)

\* Mistaken variant: the newest frame is not counted.
PendingOffByOne == allocCounter - exeCounter - 1

Pending == allocCounter - exeCounter

\* Mistaken variant: MAX_CAPACITY is not observed.
AboveCapacityNever(free) == free < 0

AboveCapacity(free) ==
    (DataSize - free) * CapDen > CapNum * (DataSize + ControlSize)

\* Mistaken variant: the block of the lock is left behind everywhere.
ReleasedNever == Orphan

\* Releasing a lock closes its block; where that does not destroy the block,
\* the next create still finds it.
Released == IF CloseReleases THEN Free ELSE Orphan

-----------------------------------------------------------------------------
Init == /\ mem = [i \in Pos |-> Zero]
        /\ allocIndex = 0 /\ exeIndex = 0
        /\ allocCounter = 0 /\ exeCounter = 0
        /\ wLock = Free /\ rLock = Free
        /\ pcP = [p \in Producers |-> "idle"]
        /\ frame = [p \in Producers |-> Zero]
        /\ behind = [p \in Producers |-> FALSE]
        /\ written = [p \in Producers |-> 0]
        /\ puts = [p \in Producers |-> 0]
        /\ pcC = [c \in Consumers |-> "idle"]
        /\ header = [c \in Consumers |-> Zero]
        /\ body = [c \in Consumers |-> Zero]
        /\ crashes = 0
        /\ accepted = <<>> /\ delivered = <<>> /\ broken = {}

-----------------------------------------------------------------------------
(* put                                                                     *)

GotoP(p, from, to) == pcP[p] = from /\ pcP' = [pcP EXCEPT ![p] = to]

\* put returns, or raises, and its locals are gone.
LeavePut(p) == /\ pcP' = [pcP EXCEPT ![p] = "idle"]
               /\ frame' = [frame EXCEPT ![p] = Zero]
               /\ behind' = [behind EXCEPT ![p] = FALSE]
               /\ written' = [written EXCEPT ![p] = 0]

\* put is called; free_space compares the two indexes.
PutCall(p, n) ==
    /\ GotoP(p, "idle", "capacity")
    /\ puts[p] < MaxPuts
    /\ frame' = [frame EXCEPT ![p] = [from |-> p, num |-> puts[p] + 1, size |-> n]]
    /\ behind' = [behind EXCEPT ![p] = allocIndex < exeIndex]
    /\ UNCHANGED <<ringVars, wLock, rLock, written, puts, getVars, crashes, history>>

\* The ring is above its capacity: put returns False.
PutAboveCapacity(p) ==
    /\ pcP[p] = "capacity"
    /\ AboveCapacity(FreeSpace(behind[p]))
    /\ LeavePut(p)
    /\ UNCHANGED <<ringVars, wLock, rLock, puts, getVars, crashes, history>>

PutBelowCapacity(p) ==
    /\ GotoP(p, "capacity", "encoded")
    /\ ~AboveCapacity(FreeSpace(behind[p]))
    /\ UNCHANGED <<ringVars, wLock, rLock, frame, behind, written, puts, getVars,
                   crashes, history>>

\* With the frame encoded, free_space is evaluated again.
PutCompare(p) ==
    /\ GotoP(p, "encoded", "fit")
    /\ behind' = [behind EXCEPT ![p] = allocIndex < exeIndex]
    /\ UNCHANGED <<ringVars, wLock, rLock, frame, written, puts, getVars, crashes, history>>

\* The frame does not fit: put returns False.
PutTooLarge(p) ==
    /\ pcP[p] = "fit"
    /\ frame[p].size > FreeSpace(behind[p])
    /\ LeavePut(p)
    /\ UNCHANGED <<ringVars, wLock, rLock, puts, getVars, crashes, history>>

PutFits(p) ==
    /\ GotoP(p, "fit", "lock")
    /\ ~(frame[p].size > FreeSpace(behind[p]))
    /\ UNCHANGED <<ringVars, wLock, rLock, frame, behind, written, puts, getVars,
                   crashes, history>>

\* Mistaken variant: the block is opened when it exists already.
AcquireWriteLockAlways(p) ==
    /\ GotoP(p, "lock", "write")
    /\ wLock' = p
    /\ UNCHANGED <<ringVars, rLock, frame, behind, written, puts, getVars, crashes, history>>

AcquireWriteLock(p) ==
    /\ GotoP(p, "lock", "write")
    /\ wLock = Free
    /\ wLock' = p
    /\ UNCHANGED <<ringVars, rLock, frame, behind, written, puts, getVars, crashes, history>>

\* The block of the lock existed for LOCK_TIMEOUT seconds: put raises TimeoutError.
WriteLockTimeout(p) ==
    /\ pcP[p] = "lock"
    /\ wLock # Free
    /\ LeavePut(p)
    /\ UNCHANGED <<ringVars, wLock, rLock, puts, getVars, crashes, history>>

\* The next cell of the frame reaches the ring.
WriteCell(p) ==
    /\ pcP[p] = "write"
    /\ written[p] < frame[p].size
    /\ mem' = [mem EXCEPT ![Plus(allocIndex, written[p])] = <<frame[p], written[p]>>]
    /\ written' = [written EXCEPT ![p] = @ + 1]
    /\ UNCHANGED <<allocIndex, exeIndex, allocCounter, exeCounter, wLock, rLock,
                   pcP, frame, behind, puts, getVars, crashes, history>>

\* Mistaken variant: the index is not wrapped at the end of the ring.
AdvanceAllocIndexStraight(p) ==
    /\ GotoP(p, "write", "count")
    /\ written[p] = frame[p].size
    /\ allocIndex' = allocIndex + frame[p].size
    /\ UNCHANGED <<mem, exeIndex, allocCounter, exeCounter, wLock, rLock,
                   frame, behind, written, puts, getVars, crashes, history>>

AdvanceAllocIndex(p) ==
    /\ GotoP(p, "write", "count")
    /\ written[p] = frame[p].size
    /\ allocIndex' = Plus(allocIndex, frame[p].size)
    /\ UNCHANGED <<mem, exeIndex, allocCounter, exeCounter, wLock, rLock,
                   frame, behind, written, puts, getVars, crashes, history>>

\* alloc_counter is incremented, put releases the lock and returns True.
PutDone(p) ==
    /\ pcP[p] = "count"
    /\ allocCounter' = allocCounter + 1
    /\ accepted' = Append(accepted, frame[p])
    /\ puts' = [puts EXCEPT ![p] = @ + 1]
    /\ wLock' = Released
    /\ LeavePut(p)
    /\ UNCHANGED <<mem, allocIndex, exeIndex, exeCounter, rLock, getVars, crashes,
                   delivered, broken>>

-----------------------------------------------------------------------------
(* get                                                                     *)

GotoC(c, from, to) == pcC[c] = from /\ pcC' = [pcC EXCEPT ![c] = to]

\* get returns or raises; its finally clause releases the read lock.
LeaveGet(c) == /\ pcC' = [pcC EXCEPT ![c] = "idle"]
               /\ header' = [header EXCEPT ![c] = Zero]
               /\ body' = [body EXCEPT ![c] = Zero]
               /\ rLock' = Released

\* get is called and nothing is pending: it returns None.
GetNothing(c) ==
    /\ pcC[c] = "idle"
    /\ Pending = 0
    /\ UNCHANGED vars

GetCall(c) ==
    /\ GotoC(c, "idle", "lock")
    /\ Pending # 0
    /\ UNCHANGED <<ringVars, wLock, rLock, putVars, header, body, crashes, history>>

\* Mistaken variant: the block is opened when it exists already.
AcquireReadLockAlways(c) ==
    /\ GotoC(c, "lock", "header")
    /\ rLock' = c
    /\ UNCHANGED <<ringVars, wLock, putVars, header, body, crashes, history>>

AcquireReadLock(c) ==
    /\ GotoC(c, "lock", "header")
    /\ rLock = Free
    /\ rLock' = c
    /\ UNCHANGED <<ringVars, wLock, putVars, header, body, crashes, history>>

\* get raises TimeoutError; it has no lock to release.
ReadLockTimeout(c) ==
    /\ GotoC(c, "lock", "idle")
    /\ rLock # Free
    /\ UNCHANGED <<ringVars, wLock, rLock, putVars, header, body, crashes, history>>

StatusCell == mem[exeIndex]
MarkCell   == mem[Plus(exeIndex, 1)]

\* The cell holds piece k of some frame.
IsPiece(cell, k) == cell # Zero /\ cell[2] = k

\* The status byte is not CREATED: get returns None.  A cell from the inside of
\* a frame may hold any status.
GetNoFrame(c) ==
    /\ pcC[c] = "header"
    /\ ~IsPiece(StatusCell, 0)
    /\ LeaveGet(c)
    /\ UNCHANGED <<ringVars, wLock, putVars, crashes, history>>

\* The status is CREATED but the watermark is missing: get raises BrokenPipeError.
GetNoWatermark(c) ==
    /\ pcC[c] = "header"
    /\ StatusCell # Zero
    /\ ~(IsPiece(StatusCell, 0) /\ IsPiece(MarkCell, 1))
    /\ LeaveGet(c)
    /\ UNCHANGED <<ringVars, wLock, putVars, crashes, history>>

\* The size is taken from the status cell, the checksum from the mark cell.
ReadHeader(c) ==
    /\ GotoC(c, "header", "data")
    /\ IsPiece(StatusCell, 0) /\ IsPiece(MarkCell, 1)
    /\ header' = [header EXCEPT ![c] = [size |-> StatusCell[1].size, crc |-> MarkCell[1]]]
    /\ UNCHANGED <<ringVars, wLock, rLock, putVars, body, crashes, history>>

ReadData(c) ==
    /\ GotoC(c, "data", "clear")
    /\ body' = [body EXCEPT ![c] =
                  [k \in HeaderSize..(header[c].size - 1) |-> mem[Plus(exeIndex, k)]]]
    /\ UNCHANGED <<ringVars, wLock, rLock, putVars, header, crashes, history>>

\* Mistaken variant: one cell too many is cleared.
ClearFrameTooFar(c) ==
    /\ GotoC(c, "clear", "advance")
    /\ LET cleared == {Plus(exeIndex, k) : k \in 0..header[c].size}
       IN  mem' = [i \in Pos |-> IF i \in cleared THEN Zero ELSE mem[i]]
    /\ UNCHANGED <<allocIndex, exeIndex, allocCounter, exeCounter, wLock, rLock,
                   putVars, header, body, crashes, history>>

ClearFrame(c) ==
    /\ GotoC(c, "clear", "advance")
    /\ LET cleared == {Plus(exeIndex, k) : k \in 0..(header[c].size - 1)}
       IN  mem' = [i \in Pos |-> IF i \in cleared THEN Zero ELSE mem[i]]
    /\ UNCHANGED <<allocIndex, exeIndex, allocCounter, exeCounter, wLock, rLock,
                   putVars, header, body, crashes, history>>

AdvanceExeIndex(c) ==
    /\ GotoC(c, "advance", "check")
    /\ exeIndex' = Plus(exeIndex, header[c].size)
    /\ UNCHANGED <<mem, allocIndex, allocCounter, exeCounter, wLock, rLock,
                   putVars, header, body, crashes, history>>

\* The checksum of the body is the one of the frame the header announced.
CrcMatches(c) ==
    body[c] = [k \in HeaderSize..(header[c].crc.size - 1) |-> <<header[c].crc, k>>]

\* exe_counter is incremented and get returns the frame.
GetDone(c) ==
    /\ pcC[c] = "check"
    /\ CrcMatches(c)
    /\ exeCounter' = exeCounter + 1
    /\ delivered' = Append(delivered, header[c].crc)
    /\ LeaveGet(c)
    /\ UNCHANGED <<mem, allocIndex, exeIndex, allocCounter, wLock, putVars, crashes,
                   accepted, broken>>

\* The checksum fails after exe_index has moved on: get raises BrokenPipeError.
GetCrcError(c) ==
    /\ pcC[c] = "check"
    /\ ~CrcMatches(c)
    /\ broken' = broken \cup {header[c].crc}
    /\ LeaveGet(c)
    /\ UNCHANGED <<ringVars, wLock, putVars, crashes, accepted, delivered>>

-----------------------------------------------------------------------------
(* A process dies in the middle of a call and another takes its place.  The *)
(* system closes the blocks the dead process had open; the model has this   *)
(* only for the systems where that destroys its lock and nothing else.      *)

CrashP(p) ==
    /\ CloseReleases /\ crashes < MaxCrashes
    /\ pcP[p] # "idle"
    /\ crashes' = crashes + 1
    /\ puts' = [puts EXCEPT ![p] = @ + 1]
    /\ wLock' = IF wLock = p THEN Free ELSE wLock
    /\ LeavePut(p)
    /\ UNCHANGED <<ringVars, rLock, getVars, history>>

CrashC(c) ==
    /\ CloseReleases /\ crashes < MaxCrashes
    /\ pcC[c] # "idle"
    /\ crashes' = crashes + 1
    /\ pcC' = [pcC EXCEPT ![c] = "idle"]
    /\ header' = [header EXCEPT ![c] = Zero]
    /\ body' = [body EXCEPT ![c] = Zero]
    /\ rLock' = IF rLock = c THEN Free ELSE rLock
    /\ UNCHANGED <<ringVars, wLock, putVars, history>>

-----------------------------------------------------------------------------
\* What put does once it is called.
PutStep(p) == \/ PutAboveCapacity(p) \/ PutBelowCapacity(p)
              \/ PutCompare(p) \/ PutTooLarge(p) \/ PutFits(p)
              \/ AcquireWriteLock(p) \/ WriteLockTimeout(p)
              \/ WriteCell(p) \/ AdvanceAllocIndex(p) \/ PutDone(p)

\* What get does, its call included: a consumer polls.
GetStep(c) == \/ GetNothing(c) \/ GetCall(c)
              \/ AcquireReadLock(c) \/ ReadLockTimeout(c)
              \/ GetNoFrame(c) \/ GetNoWatermark(c) \/ ReadHeader(c)
              \/ ReadData(c) \/ ClearFrame(c) \/ AdvanceExeIndex(c)
              \/ GetDone(c) \/ GetCrcError(c)

Next == \/ \E p \in Producers : \/ \E n \in FrameSizes : PutCall(p, n)
                                \/ PutStep(p)
                                \/ CrashP(p)
        \/ \E c \in Consumers : GetStep(c) \/ CrashC(c)

Spec == Init /\ [][Next]_vars

\* A process that is inside put or get is scheduled, and consumers keep polling.
Fairness == /\ \A p \in Producers : WF_vars(PutStep(p))
            /\ \A c \in Consumers : WF_vars(GetStep(c))

FairSpec == Spec /\ Fairness

-----------------------------------------------------------------------------
(* Properties                                                              *)

Writing(p) == pcP[p] \in {"write", "count"}
Reading(c) == pcC[c] \in {"header", "data", "clear", "advance", "check"}
Header == [size : FrameSizes, crc : Frame]
Body   == UNION {[HeaderSize..(n - 1) -> Cell] : n \in FrameSizes}

RingTypeOK == /\ mem \in [Pos -> Cell]
              /\ allocIndex \in Pos /\ exeIndex \in Pos
              /\ allocCounter \in Nat /\ exeCounter \in Nat
LockTypeOK == /\ wLock \in Producers \cup {Free, Orphan}
              /\ rLock \in Consumers \cup {Free, Orphan}
PutTypeOK  == /\ pcP \in [Producers -> {"idle", "capacity", "encoded", "fit",
                                       "lock", "write", "count"}]
              /\ frame \in [Producers -> {Zero} \cup Frame]
              /\ behind \in [Producers -> BOOLEAN]
              /\ written \in [Producers -> 0..DataSize]
              /\ puts \in [Producers -> 0..MaxPuts]
GetTypeOK  == /\ pcC \in [Consumers -> {"idle", "lock", "header", "data",
                                       "clear", "advance", "check"}]
              /\ header \in [Consumers -> {Zero} \cup Header]
              /\ body \in [Consumers -> {Zero} \cup Body]
HistoryTypeOK == /\ crashes \in 0..MaxCrashes
                 /\ accepted \in Seq(Frame) /\ delivered \in Seq(Frame)
                 /\ broken \subseteq Frame

\* Every variable has the values the code can give it; the indexes stay inside
\* the ring through every wrap.
TypeOK == RingTypeOK /\ LockTypeOK /\ PutTypeOK /\ GetTypeOK /\ HistoryTypeOK

\* At most one process is between acquire_write_lock and release_write_lock, and
\* at most one between their read counterparts, whatever times out or dies.
Exclusion ==
    /\ \A p, q \in Producers : Writing(p) /\ Writing(q) => p = q
    /\ \A c, d \in Consumers : Reading(c) /\ Reading(d) => c = d

\* acquire_lock gives up only while another process is inside the section the
\* lock guards: a lock that nobody needs can be taken.
TimeoutOnlyUnderContention ==
    /\ [][\A p \in Producers : WriteLockTimeout(p) => \E q \in Producers \ {p} : Writing(q)]_vars
    /\ [][\A c \in Consumers : ReadLockTimeout(c) => \E d \in Consumers \ {c} : Reading(d)]_vars

Undelivered == {accepted[i] : i \in 1..Len(accepted)} \ {delivered[i] : i \in 1..Len(delivered)}

\* put never writes over a cell of a frame that was accepted and not yet read:
\* its two checks of free_space are made before it has the lock, and hold back
\* enough of the ring for everyone who made them at the same time.
NoOverwrite ==
    [][\A i \in Pos : mem'[i] # mem[i] /\ mem'[i] # Zero
          => mem[i] = Zero \/ mem[i][1] \notin Undelivered \ broken]_vars

InRing(f) == \E i \in Pos : \A k \in 0..(f.size - 1) : mem[Plus(i, k)] = <<f, k>>

\* Frames that are nowhere: not delivered, not whole in the ring, not in the
\* hands of a consumer, and no reader was told of any damage.
Vanished ==
    {f \in Undelivered \ broken :
        /\ ~InRing(f)
        /\ ~\E c \in Consumers : pcC[c] \in {"advance", "check"} /\ header[c].crc = f}

\* With everyone alive no accepted frame just vanishes, however the readers race;
\* a process that dies takes at most one frame with it.
LossBounded == Cardinality(Vanished) <= crashes

\* The places in accepted of the frames that a get may still return.
Due == {i \in 1..Len(accepted) : accepted[i] \in Undelivered \ broken}

\* The counter says that a frame is there, and the frame begins at exe_index.
AtHand(f) == Pending > 0 /\ \A k \in 0..(f.size - 1) : mem[Plus(exeIndex, k)] = <<f, k>>

\* Whatever stale counters the readers acted on and whatever frames they broke,
\* once no reader is inside the section the oldest frame that is due is the one
\* the next get finds: broken frames leave pending_counter too high, never too
\* low, and exe_index never inside or beyond a frame.  A process that is killed
\* in the middle of a call may leave exe_index where no frame begins.
NoneStranded ==
    crashes = 0 /\ (\A c \in Consumers : ~Reading(c)) =>
        \A i \in Due : (\A j \in Due : i <= j) => AtHand(accepted[i])

\* No frame is delivered twice, and frames are delivered in the order put
\* accepted them.
DeliveredInOrder ==
    \A i, j \in 1..Len(delivered) :
        i < j => /\ delivered[i] # delivered[j]
                 /\ \A m, n \in 1..Len(accepted) :
                       accepted[m] = delivered[i] /\ accepted[n] = delivered[j] => m < n

LargestFrame == CHOOSE n \in FrameSizes : \A k \in FrameSizes : k <= n

\* The cells from exe_index to alloc_index.
Occupied == IF allocIndex < exeIndex THEN DataSize - (exeIndex - allocIndex)
                                     ELSE allocIndex - exeIndex

\* The frame alloc_index has passed that is not counted yet, and the one that
\* exe_index has passed while it still counts.
NotCounted == IF wLock \in Producers /\ pcP[wLock] = "count" THEN frame[wLock].size ELSE 0
InHand     == IF rLock \in Consumers /\ pcC[rLock] = "check" THEN header[rLock].size ELSE 0

\* The queue is a bounded first-in first-out queue: put takes effect when it
\* counts the frame, get when it counts the frame it hands out.  Between moving
\* exe_index and counting, get holds one frame that is in the ring no more.
FQ == INSTANCE FrameQueue WITH
        Frame <- Frame,
        Capacity <- DataSize - 1 + LargestFrame,
        queue <- SubSeq(accepted, Len(delivered) + 1, Len(accepted)),
        used <- Occupied - NotCounted + InHand,
        delivered <- delivered

Implements == FQ!Spec
=============================================================================
