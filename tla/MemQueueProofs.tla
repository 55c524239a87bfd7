--------------------------- MODULE MemQueueProofs ---------------------------
(***************************************************************************)
(* Theorems about MemQueue.  Types and locks: for every number of producers*)
(* and consumers, every ring, every set of frame sizes and every bound.    *)
(*                                                                         *)
(* What MemQueue is for: with one reader and all processes alive, the ring *)
(* is a first-in first-out queue that loses and damages nothing, for every *)
(* number of producers, every ring and every set of frame sizes that leave *)
(* the reserve EnoughReserve above MAX_CAPACITY.                           *)
(*                                                                         *)
(* put makes its two checks before it has the lock, so what it found may   *)
(* be stale when it writes.  Room says why that is harmless: what the      *)
(* checks let through is never more than the ring can take.  Layout says   *)
(* where in the ring each accepted frame lies.                             *)
(***************************************************************************)
EXTENDS MemQueue, FiniteSetTheorems, SequenceTheorems, WellFoundedInduction, TLAPS

\* A producer inside put has its frame, and inside the write section the lock.
PutInv ==
    \A p \in Producers :
        /\ pcP[p] # "idle" => frame[p] \in Frame /\ puts[p] < MaxPuts
        /\ Writing(p) => wLock = p /\ written[p] <= frame[p].size
        /\ ~Writing(p) => written[p] = 0

\* A consumer inside the read section has the lock, and past the header the header.
GetInv ==
    \A c \in Consumers :
        /\ Reading(c) => rLock = c
        /\ Reading(c) /\ pcC[c] # "header" => header[c] \in Header

IInv == TypeOK /\ PutInv /\ GetInv

-----------------------------------------------------------------------------
\* An index that moves by at most the ring's size stays inside the ring.
LEMMA PlusInRing ==
    ASSUME NEW i \in Pos, NEW n \in 0..DataSize
    PROVE  Plus(i, n) \in Pos
  BY SizesAssumption DEF Plus, Pos

\* What a frame and a header are made of.
LEMMA FrameFields ==
    /\ \A f \in Frame : f.size \in FrameSizes /\ f.size \in 3..DataSize
    /\ \A h \in Header : /\ h.size \in FrameSizes /\ h.size \in 3..DataSize
                         /\ h.crc \in Frame
    /\ Zero \notin Frame /\ Zero \notin Header
  <1>1. \A n \in FrameSizes : n \in 3..DataSize
    BY SizesAssumption DEF HeaderSize
  <1>2. Zero \notin Frame /\ Zero \notin Header
    BY DEF Zero, Frame, Header
  <1> QED BY <1>1, <1>2 DEF Frame, Header

-----------------------------------------------------------------------------
LEMMA Initially == Init => IInv
  <1> SUFFICES ASSUME Init PROVE IInv
    OBVIOUS
  <1>1. TypeOK
    BY SizesAssumption, LockAssumption DEF Init, TypeOK, RingTypeOK, LockTypeOK,
          PutTypeOK, GetTypeOK, HistoryTypeOK, Pos, Cell
  <1>2. PutInv /\ GetInv
    BY DEF Init, PutInv, GetInv, Writing, Reading
  <1> QED BY <1>1, <1>2 DEF IInv

\* A producer that leaves put owes nothing any more, and no other one notices.
LEMMA LeavePutKeeps ==
    ASSUME PutTypeOK, PutInv, NEW p \in Producers, LeavePut(p),
           puts' \in [Producers -> 0..MaxPuts],
           \A q \in Producers \ {p} : puts'[q] = puts[q],
           wLock' = wLock \/ wLock = p
    PROVE  PutTypeOK' /\ PutInv'
  <1>1. PutTypeOK'
    <2>1. behind' \in [Producers -> BOOLEAN]
      BY Zenon DEF PutTypeOK, LeavePut
    <2>2. written' \in [Producers -> 0..DataSize]
      BY SizesAssumption DEF PutTypeOK, LeavePut
    <2>3. frame' \in [Producers -> {Zero} \cup Frame]
      BY DEF PutTypeOK, LeavePut
    <2> QED BY <2>1, <2>2, <2>3 DEF PutTypeOK, LeavePut
  <1>2. pcP'[p] = "idle" /\ written'[p] = 0
    BY DEF PutTypeOK, LeavePut
  <1>3. ASSUME NEW q \in Producers \ {p}
        PROVE  /\ pcP'[q] = pcP[q] /\ frame'[q] = frame[q]
               /\ written'[q] = written[q] /\ puts'[q] = puts[q]
               /\ Writing(q) => wLock' = q
    BY DEF PutTypeOK, PutInv, Writing, LeavePut
  <1>4. ASSUME NEW q \in Producers
        PROVE  /\ pcP'[q] # "idle" => frame'[q] \in Frame /\ puts'[q] < MaxPuts
               /\ Writing(q)' => wLock' = q /\ written'[q] <= frame'[q].size
               /\ ~Writing(q)' => written'[q] = 0
    BY <1>2, <1>3 DEF PutInv, Writing
  <1> QED BY <1>1, <1>4 DEF PutInv

LEMMA PutStepKeeps ==
    ASSUME IInv, NEW p \in Producers, PutStep(p)
    PROVE  IInv'
  <1> USE DEF TypeOK, IInv
  <1>1. CASE PutAboveCapacity(p)
    <2>1. RingTypeOK' /\ LockTypeOK' /\ HistoryTypeOK'
      BY <1>1 DEF PutAboveCapacity, RingTypeOK, LockTypeOK, HistoryTypeOK, PutTypeOK, PutInv,
          Writing, Released, LeavePut, ringVars, putVars, getVars, history
    <2>2. GetTypeOK' /\ GetInv'
      BY <1>1 DEF PutAboveCapacity, GetTypeOK, GetInv, Reading, LeavePut, ringVars, putVars, getVars, history
    <2>3. PutTypeOK' /\ PutInv'
      BY <1>1, LeavePutKeeps DEF PutAboveCapacity, PutTypeOK, PutInv, Writing, ringVars, putVars, getVars, history
    <2> QED BY <2>1, <2>2, <2>3
  <1>2. CASE PutBelowCapacity(p)
    <2>1. RingTypeOK' /\ LockTypeOK' /\ HistoryTypeOK'
      BY <1>2 DEF PutBelowCapacity, RingTypeOK, LockTypeOK, HistoryTypeOK, PutTypeOK, PutInv,
          Writing, Released, GotoP, ringVars, putVars, getVars, history
    <2>2. GetTypeOK' /\ GetInv'
      BY <1>2 DEF PutBelowCapacity, GetTypeOK, GetInv, Reading, GotoP, ringVars, putVars, getVars, history
    <2>3. PutTypeOK' /\ PutInv'
      BY <1>2, FrameFields DEF PutBelowCapacity, PutTypeOK, PutInv, Writing, GotoP, ringVars, putVars, getVars, history
    <2> QED BY <2>1, <2>2, <2>3
  <1>3. CASE PutCompare(p)
    <2>1. RingTypeOK' /\ LockTypeOK' /\ HistoryTypeOK'
      BY <1>3 DEF PutCompare, RingTypeOK, LockTypeOK, HistoryTypeOK, PutTypeOK, PutInv,
          Writing, Released, GotoP, ringVars, putVars, getVars, history
    <2>2. GetTypeOK' /\ GetInv'
      BY <1>3 DEF PutCompare, GetTypeOK, GetInv, Reading, GotoP, ringVars, putVars, getVars, history
    <2>3. PutTypeOK' /\ PutInv'
      BY <1>3, FrameFields DEF PutCompare, PutTypeOK, PutInv, Writing, GotoP, ringVars, putVars, getVars, history
    <2> QED BY <2>1, <2>2, <2>3
  <1>4. CASE PutTooLarge(p)
    <2>1. RingTypeOK' /\ LockTypeOK' /\ HistoryTypeOK'
      BY <1>4 DEF PutTooLarge, RingTypeOK, LockTypeOK, HistoryTypeOK, PutTypeOK, PutInv,
          Writing, Released, LeavePut, ringVars, putVars, getVars, history
    <2>2. GetTypeOK' /\ GetInv'
      BY <1>4 DEF PutTooLarge, GetTypeOK, GetInv, Reading, LeavePut, ringVars, putVars, getVars, history
    <2>3. PutTypeOK' /\ PutInv'
      BY <1>4, LeavePutKeeps DEF PutTooLarge, PutTypeOK, PutInv, Writing, ringVars, putVars, getVars, history
    <2> QED BY <2>1, <2>2, <2>3
  <1>5. CASE PutFits(p)
    <2>1. RingTypeOK' /\ LockTypeOK' /\ HistoryTypeOK'
      BY <1>5 DEF PutFits, RingTypeOK, LockTypeOK, HistoryTypeOK, PutTypeOK, PutInv,
          Writing, Released, GotoP, ringVars, putVars, getVars, history
    <2>2. GetTypeOK' /\ GetInv'
      BY <1>5 DEF PutFits, GetTypeOK, GetInv, Reading, GotoP, ringVars, putVars, getVars, history
    <2>3. PutTypeOK' /\ PutInv'
      BY <1>5, FrameFields DEF PutFits, PutTypeOK, PutInv, Writing, GotoP, ringVars, putVars, getVars, history
    <2> QED BY <2>1, <2>2, <2>3
  <1>6. CASE AcquireWriteLock(p)
    <2>1. RingTypeOK' /\ LockTypeOK' /\ HistoryTypeOK'
      BY <1>6 DEF AcquireWriteLock, RingTypeOK, LockTypeOK, HistoryTypeOK, PutTypeOK, PutInv,
          Writing, Released, GotoP, ringVars, putVars, getVars, history
    <2>2. GetTypeOK' /\ GetInv'
      BY <1>6 DEF AcquireWriteLock, GetTypeOK, GetInv, Reading, GotoP, ringVars, putVars, getVars, history
    <2>3. PutTypeOK'
      BY <1>6 DEF AcquireWriteLock, PutTypeOK, GotoP
    <2>4. \A q \in Producers : ~Writing(q)
      BY <1>6, LockAssumption DEF AcquireWriteLock, PutInv
    <2>5. PutInv'
      BY <1>6, <2>4, FrameFields, SizesAssumption DEF AcquireWriteLock, PutTypeOK, PutInv, Writing, GotoP
    <2> QED BY <2>1, <2>2, <2>3, <2>5
  <1>7. CASE WriteLockTimeout(p)
    <2>1. RingTypeOK' /\ LockTypeOK' /\ HistoryTypeOK'
      BY <1>7 DEF WriteLockTimeout, RingTypeOK, LockTypeOK, HistoryTypeOK, PutTypeOK, PutInv,
          Writing, Released, LeavePut, ringVars, putVars, getVars, history
    <2>2. GetTypeOK' /\ GetInv'
      BY <1>7 DEF WriteLockTimeout, GetTypeOK, GetInv, Reading, LeavePut, ringVars, putVars, getVars, history
    <2>3. PutTypeOK' /\ PutInv'
      BY <1>7, LeavePutKeeps DEF WriteLockTimeout, PutTypeOK, PutInv, Writing, ringVars, putVars, getVars, history
    <2> QED BY <2>1, <2>2, <2>3
  <1>8. CASE WriteCell(p)
    <2>1. /\ frame[p] \in Frame /\ frame[p].size \in 3..DataSize
          /\ written[p] \in Nat /\ written[p] < frame[p].size
      BY <1>8, FrameFields DEF WriteCell, PutTypeOK, PutInv
    <2>2. <<frame[p], written[p]>> \in Cell
      BY <2>1, SizesAssumption DEF Cell
    <2>3. RingTypeOK' /\ LockTypeOK' /\ HistoryTypeOK'
      BY <1>8, <2>2 DEF WriteCell, RingTypeOK, LockTypeOK, HistoryTypeOK, history
    <2>4. GetTypeOK' /\ GetInv'
      BY <1>8 DEF WriteCell, GetTypeOK, GetInv, Reading, getVars
    <2>5. written[p] + 1 \in 0..DataSize /\ written[p] + 1 <= frame[p].size
      BY <2>1, SizesAssumption
    <2>6. PutTypeOK'
      BY <1>8, <2>5 DEF WriteCell, PutTypeOK
    <2>7. ASSUME NEW q \in Producers
          PROVE  /\ pcP[q] # "idle" => frame[q] \in Frame /\ puts[q] < MaxPuts
                 /\ Writing(q) => wLock = q /\ written'[q] <= frame[q].size
                 /\ ~Writing(q) => written'[q] = 0
      <3>1. CASE q = p
        BY <1>8, <2>5, <3>1 DEF WriteCell, PutTypeOK, PutInv, Writing
      <3>2. CASE q # p
        BY <1>8, <3>2 DEF WriteCell, PutTypeOK, PutInv
      <3> QED BY <3>1, <3>2
    <2>8. PutInv'
      BY <1>8, <2>7 DEF WriteCell, PutInv, Writing
    <2> QED BY <2>3, <2>4, <2>6, <2>8
  <1>9. CASE AdvanceAllocIndex(p)
    <2>1. RingTypeOK' /\ LockTypeOK' /\ HistoryTypeOK'
      BY <1>9, FrameFields, PlusInRing DEF AdvanceAllocIndex, RingTypeOK, LockTypeOK, HistoryTypeOK, PutTypeOK, PutInv,
          Writing, Released, GotoP, ringVars, putVars, getVars, history
    <2>2. GetTypeOK' /\ GetInv'
      BY <1>9 DEF AdvanceAllocIndex, GetTypeOK, GetInv, Reading, GotoP, ringVars, putVars, getVars, history
    <2>3. PutTypeOK' /\ PutInv'
      BY <1>9, FrameFields DEF AdvanceAllocIndex, PutTypeOK, PutInv, Writing, GotoP, ringVars, putVars, getVars, history
    <2> QED BY <2>1, <2>2, <2>3
  <1>10. CASE PutDone(p)
    <2>1. RingTypeOK' /\ LockTypeOK' /\ HistoryTypeOK'
      BY <1>10 DEF PutDone, RingTypeOK, LockTypeOK, HistoryTypeOK, PutTypeOK, PutInv,
          Writing, Released
    <2>2. GetTypeOK' /\ GetInv'
      BY <1>10 DEF PutDone, GetTypeOK, GetInv, Reading, getVars
    <2>3. wLock = p /\ puts[p] \in Nat /\ puts[p] < MaxPuts
      BY <1>10, SizesAssumption DEF PutDone, PutTypeOK, PutInv, Writing
    <2>4. /\ puts' \in [Producers -> 0..MaxPuts]
          /\ \A q \in Producers \ {p} : puts'[q] = puts[q]
      BY <1>10, <2>3, SizesAssumption DEF PutDone, PutTypeOK
    <2>5. PutTypeOK' /\ PutInv'
      BY <1>10, <2>3, <2>4, LeavePutKeeps DEF PutDone
    <2> QED BY <2>1, <2>2, <2>5
  <1> QED BY <1>1, <1>2, <1>3, <1>4, <1>5, <1>6, <1>7, <1>8, <1>9, <1>10 DEF PutStep

LEMMA PutCallKeeps ==
    ASSUME IInv, NEW p \in Producers, NEW n \in FrameSizes, PutCall(p, n)
    PROVE  IInv'
  <1> USE DEF IInv, TypeOK
  <1>1. /\ [from |-> p, num |-> puts[p] + 1, size |-> n] \in Frame
        /\ puts[p] < MaxPuts
    BY SizesAssumption DEF PutTypeOK, PutCall, Frame
  <1>2. RingTypeOK' /\ LockTypeOK' /\ HistoryTypeOK'
    BY DEF PutCall, RingTypeOK, LockTypeOK, HistoryTypeOK, ringVars, history
  <1>3. GetTypeOK' /\ GetInv'
    BY DEF PutCall, GetTypeOK, GetInv, Reading, getVars
  <1>4. behind' \in [Producers -> BOOLEAN]
    <2>1. (allocIndex < exeIndex) \in BOOLEAN
      OBVIOUS
    <2> QED BY <2>1, Zenon DEF PutTypeOK, PutCall
  <1>5. PutTypeOK' /\ PutInv'
    BY <1>1, <1>4 DEF PutTypeOK, PutInv, PutCall, Writing, GotoP
  <1> QED BY <1>2, <1>3, <1>5

-----------------------------------------------------------------------------
\* A consumer that leaves get owes nothing any more, and no other one notices.
LEMMA LeaveGetKeeps ==
    ASSUME LockTypeOK, GetTypeOK, GetInv, NEW c \in Consumers, Reading(c), LeaveGet(c)
    PROVE  GetTypeOK' /\ GetInv' /\ rLock' \in Consumers \cup {Free, Orphan}
  <1>1. GetTypeOK' /\ rLock' \in Consumers \cup {Free, Orphan}
    BY DEF GetTypeOK, LeaveGet, Released
  <1>2. pcC'[c] = "idle"
    BY DEF GetTypeOK, LeaveGet
  <1>3. ASSUME NEW d \in Consumers \ {c}
        PROVE  pcC'[d] = pcC[d] /\ ~Reading(d)
    BY DEF GetTypeOK, GetInv, LeaveGet
  <1>4. GetInv'
    BY <1>2, <1>3 DEF GetInv, Reading
  <1> QED BY <1>1, <1>4

LEMMA GetStepKeeps ==
    ASSUME IInv, NEW c \in Consumers, GetStep(c)
    PROVE  IInv'
  <1> USE DEF IInv, TypeOK
  <1>1. CASE GetNothing(c)
    <2>1. PutTypeOK' /\ PutInv'
      BY <1>1 DEF GetNothing, PutTypeOK, PutInv, Writing, putVars, vars
    <2>2. RingTypeOK' /\ HistoryTypeOK'
      BY <1>1 DEF GetNothing, RingTypeOK, HistoryTypeOK, ringVars, history, vars
    <2>3. LockTypeOK' /\ GetTypeOK' /\ GetInv'
      BY <1>1 DEF GetNothing, LockTypeOK, GetTypeOK, GetInv, Reading, getVars, vars
    <2> QED BY <2>1, <2>2, <2>3
  <1>2. CASE GetCall(c)
    <2>1. PutTypeOK' /\ PutInv'
      BY <1>2 DEF GetCall, PutTypeOK, PutInv, Writing, putVars
    <2>2. RingTypeOK' /\ HistoryTypeOK'
      BY <1>2 DEF GetCall, RingTypeOK, HistoryTypeOK, ringVars, history
    <2>3. LockTypeOK' /\ GetTypeOK' /\ GetInv'
      BY <1>2 DEF GetCall, LockTypeOK, GetTypeOK, GetInv, Reading, getVars, GotoC
    <2> QED BY <2>1, <2>2, <2>3
  <1>3. CASE AcquireReadLock(c)
    <2>1. PutTypeOK' /\ PutInv'
      BY <1>3 DEF AcquireReadLock, PutTypeOK, PutInv, Writing, putVars
    <2>2. RingTypeOK' /\ HistoryTypeOK'
      BY <1>3 DEF AcquireReadLock, RingTypeOK, HistoryTypeOK, ringVars, history
    <2>3. LockTypeOK' /\ GetTypeOK' /\ GetInv'
      BY <1>3, LockAssumption DEF AcquireReadLock, LockTypeOK, GetTypeOK, GetInv, Reading, getVars, GotoC
    <2> QED BY <2>1, <2>2, <2>3
  <1>4. CASE ReadLockTimeout(c)
    <2>1. PutTypeOK' /\ PutInv'
      BY <1>4 DEF ReadLockTimeout, PutTypeOK, PutInv, Writing, putVars
    <2>2. RingTypeOK' /\ HistoryTypeOK'
      BY <1>4 DEF ReadLockTimeout, RingTypeOK, HistoryTypeOK, ringVars, history
    <2>3. LockTypeOK' /\ GetTypeOK' /\ GetInv'
      BY <1>4 DEF ReadLockTimeout, LockTypeOK, GetTypeOK, GetInv, Reading, getVars, GotoC
    <2> QED BY <2>1, <2>2, <2>3
  <1>5. CASE GetNoFrame(c)
    <2>1. PutTypeOK' /\ PutInv'
      BY <1>5 DEF GetNoFrame, PutTypeOK, PutInv, Writing, putVars
    <2>2. RingTypeOK' /\ HistoryTypeOK'
      BY <1>5 DEF GetNoFrame, RingTypeOK, HistoryTypeOK, ringVars, history
    <2>3. LockTypeOK' /\ GetTypeOK' /\ GetInv'
      BY <1>5, LeaveGetKeeps DEF GetNoFrame, LockTypeOK, Reading
    <2> QED BY <2>1, <2>2, <2>3
  <1>6. CASE GetNoWatermark(c)
    <2>1. PutTypeOK' /\ PutInv'
      BY <1>6 DEF GetNoWatermark, PutTypeOK, PutInv, Writing, putVars
    <2>2. RingTypeOK' /\ HistoryTypeOK'
      BY <1>6 DEF GetNoWatermark, RingTypeOK, HistoryTypeOK, ringVars, history
    <2>3. LockTypeOK' /\ GetTypeOK' /\ GetInv'
      BY <1>6, LeaveGetKeeps DEF GetNoWatermark, LockTypeOK, Reading
    <2> QED BY <2>1, <2>2, <2>3
  <1>7. CASE ReadHeader(c)
    <2>1. PutTypeOK' /\ PutInv'
      BY <1>7 DEF ReadHeader, PutTypeOK, PutInv, Writing, putVars
    <2>2. RingTypeOK' /\ HistoryTypeOK'
      BY <1>7 DEF ReadHeader, RingTypeOK, HistoryTypeOK, ringVars, history
    <2>3. StatusCell \in Cell /\ MarkCell \in Cell
      BY PlusInRing, SizesAssumption DEF RingTypeOK, StatusCell, MarkCell
    <2>4. StatusCell[1] \in Frame /\ MarkCell[1] \in Frame
      BY <1>7, <2>3 DEF ReadHeader, IsPiece, Cell
    <2>5. [size |-> StatusCell[1].size, crc |-> MarkCell[1]] \in Header
      BY <2>4, FrameFields DEF Header
    <2>6. LockTypeOK' /\ GetTypeOK'
      BY <1>7, <2>5 DEF ReadHeader, LockTypeOK, GetTypeOK, GotoC
    <2>7. GetInv'
      BY <1>7, <2>5 DEF ReadHeader, GetTypeOK, GetInv, Reading, GotoC
    <2> QED BY <2>1, <2>2, <2>6, <2>7
  <1>8. CASE ReadData(c)
    <2>1. PutTypeOK' /\ PutInv'
      BY <1>8 DEF ReadData, PutTypeOK, PutInv, Writing, putVars
    <2>2. RingTypeOK' /\ HistoryTypeOK'
      BY <1>8 DEF ReadData, RingTypeOK, HistoryTypeOK, ringVars, history
    <2>3. header[c] \in Header
      BY <1>8 DEF ReadData, GotoC, GetInv, Reading
    <2>4. header[c].size \in FrameSizes /\ header[c].size \in 3..DataSize
      BY <2>3, FrameFields
    <2>5. [k \in HeaderSize..(header[c].size - 1) |-> mem[Plus(exeIndex, k)]]
             \in [HeaderSize..(header[c].size - 1) -> Cell]
      BY <2>4, PlusInRing, SizesAssumption DEF RingTypeOK, HeaderSize
    <2>6. [k \in HeaderSize..(header[c].size - 1) |-> mem[Plus(exeIndex, k)]] \in Body
      BY <2>4, <2>5 DEF Body
    <2>7. LockTypeOK' /\ GetTypeOK'
      BY <1>8, <2>6 DEF ReadData, LockTypeOK, GetTypeOK, GotoC
    <2>8. GetInv'
      BY <1>8 DEF ReadData, GetTypeOK, GetInv, Reading, GotoC
    <2> QED BY <2>1, <2>2, <2>7, <2>8
  <1>9. CASE ClearFrame(c)
    <2>1. PutTypeOK' /\ PutInv'
      BY <1>9 DEF ClearFrame, PutTypeOK, PutInv, Writing, putVars
    <2>2. RingTypeOK' /\ HistoryTypeOK'
      BY <1>9 DEF ClearFrame, RingTypeOK, HistoryTypeOK, history, Cell
    <2>3. LockTypeOK' /\ GetTypeOK' /\ GetInv'
      BY <1>9 DEF ClearFrame, LockTypeOK, GetTypeOK, GetInv, Reading, getVars, GotoC
    <2> QED BY <2>1, <2>2, <2>3
  <1>10. CASE AdvanceExeIndex(c)
    <2>1. PutTypeOK' /\ PutInv'
      BY <1>10 DEF AdvanceExeIndex, PutTypeOK, PutInv, Writing, putVars
    <2>2. header[c] \in Header /\ header[c].crc \in Frame /\ header[c].size \in 0..DataSize
      BY <1>10, FrameFields DEF AdvanceExeIndex, GotoC, GetInv, Reading
    <2>3. RingTypeOK' /\ HistoryTypeOK'
      BY <1>10, <2>2, PlusInRing DEF AdvanceExeIndex, RingTypeOK, HistoryTypeOK, ringVars, history
    <2>4. LockTypeOK' /\ GetTypeOK' /\ GetInv'
      BY <1>10 DEF AdvanceExeIndex, LockTypeOK, GetTypeOK, GetInv, Reading, getVars, GotoC
    <2> QED BY <2>1, <2>3, <2>4
  <1>11. CASE GetDone(c)
    <2>1. PutTypeOK' /\ PutInv'
      BY <1>11 DEF GetDone, PutTypeOK, PutInv, Writing, putVars
    <2>2. header[c] \in Header /\ header[c].crc \in Frame /\ header[c].size \in 0..DataSize
      BY <1>11, FrameFields DEF GetDone, GetInv, Reading
    <2>3. RingTypeOK' /\ HistoryTypeOK'
      BY <1>11, <2>2 DEF GetDone, RingTypeOK, HistoryTypeOK, ringVars, history
    <2>4. LockTypeOK' /\ GetTypeOK' /\ GetInv'
      BY <1>11, LeaveGetKeeps DEF GetDone, LockTypeOK, Reading
    <2> QED BY <2>1, <2>3, <2>4
  <1>12. CASE GetCrcError(c)
    <2>1. PutTypeOK' /\ PutInv'
      BY <1>12 DEF GetCrcError, PutTypeOK, PutInv, Writing, putVars
    <2>2. header[c] \in Header /\ header[c].crc \in Frame /\ header[c].size \in 0..DataSize
      BY <1>12, FrameFields DEF GetCrcError, GetInv, Reading
    <2>3. RingTypeOK' /\ HistoryTypeOK'
      BY <1>12, <2>2 DEF GetCrcError, RingTypeOK, HistoryTypeOK, ringVars, history
    <2>4. LockTypeOK' /\ GetTypeOK' /\ GetInv'
      BY <1>12, LeaveGetKeeps DEF GetCrcError, LockTypeOK, Reading
    <2> QED BY <2>1, <2>3, <2>4
  <1> QED BY <1>1, <1>2, <1>3, <1>4, <1>5, <1>6, <1>7, <1>8, <1>9, <1>10, <1>11, <1>12 DEF GetStep

-----------------------------------------------------------------------------
LEMMA CrashPKeeps ==
    ASSUME IInv, NEW p \in Producers, CrashP(p)
    PROVE  IInv'
  <1> USE DEF IInv, TypeOK
  <1>1. RingTypeOK' /\ LockTypeOK' /\ HistoryTypeOK'
    BY SizesAssumption DEF CrashP, RingTypeOK, LockTypeOK, HistoryTypeOK, ringVars, history
  <1>2. GetTypeOK' /\ GetInv'
    BY DEF CrashP, GetTypeOK, GetInv, Reading, getVars
  <1>3. puts[p] \in Nat /\ puts[p] < MaxPuts
    BY SizesAssumption DEF CrashP, PutTypeOK, PutInv
  <1>4. /\ puts' \in [Producers -> 0..MaxPuts]
        /\ \A q \in Producers \ {p} : puts'[q] = puts[q]
    BY <1>3, SizesAssumption DEF CrashP, PutTypeOK
  <1>5. PutTypeOK' /\ PutInv'
    BY <1>4, LeavePutKeeps DEF CrashP
  <1> QED BY <1>1, <1>2, <1>5

LEMMA CrashCKeeps ==
    ASSUME IInv, NEW c \in Consumers, CrashC(c)
    PROVE  IInv'
  <1> USE DEF IInv, TypeOK
  <1>1. RingTypeOK' /\ LockTypeOK' /\ HistoryTypeOK'
    BY SizesAssumption DEF CrashC, RingTypeOK, LockTypeOK, HistoryTypeOK, ringVars, history
  <1>2. PutTypeOK' /\ PutInv'
    BY DEF CrashC, PutTypeOK, PutInv, Writing, putVars
  <1>3. GetTypeOK'
    BY DEF CrashC, GetTypeOK
  <1>4. ASSUME NEW d \in Consumers, Reading(d)'
        PROVE  /\ d # c /\ Reading(d) /\ rLock' = rLock
               /\ pcC'[d] = pcC[d] /\ header'[d] = header[d]
    BY <1>4 DEF CrashC, GetTypeOK, GetInv, Reading
  <1>5. GetInv'
    BY <1>4 DEF GetInv, Reading
  <1> QED BY <1>1, <1>2, <1>3, <1>5

LEMMA InvariantKept == IInv /\ [Next]_vars => IInv'
  <1> SUFFICES ASSUME IInv, [Next]_vars PROVE IInv'
    OBVIOUS
  <1>1. CASE UNCHANGED vars
    BY <1>1 DEF vars, ringVars, putVars, getVars, history, IInv, TypeOK, RingTypeOK,
        LockTypeOK, PutTypeOK, GetTypeOK, HistoryTypeOK, PutInv, GetInv, Writing, Reading
  <1>2. CASE Next
    BY <1>2, PutCallKeeps, PutStepKeeps, GetStepKeeps, CrashPKeeps, CrashCKeeps DEF Next
  <1> QED BY <1>1, <1>2

THEOREM Invariance == Spec => []IInv
  BY Initially, InvariantKept, PTL DEF Spec

\* The variables of MemQueue keep their types: the two indexes never leave the
\* ring, whatever frames are put, lost, or left behind by a crash.
THEOREM TypeCorrect == Spec => []TypeOK
  BY Invariance, PTL DEF IInv

\* The blocks named _wlock and _rlock exclude: no two processes write the ring at
\* the same time, and no two read it, through timeouts and crashes.
THEOREM MutualExclusion == Spec => []Exclusion
  <1>1. IInv => Exclusion
    BY DEF IInv, PutInv, GetInv, Exclusion
  <1> QED BY <1>1, Invariance, PTL

-----------------------------------------------------------------------------
\* A lock that is not free is held by a process inside the section it guards.
Held == /\ wLock # Free => wLock \in Producers /\ Writing(wLock)
        /\ rLock # Free => rLock \in Consumers /\ Reading(rLock)

LEMMA HeldKept ==
    ASSUME CloseReleases, IInv, Held, [Next]_vars
    PROVE  Held'
  <1> USE DEF IInv, TypeOK
  <1>1. ASSUME NEW p \in Producers, NEW n \in FrameSizes, PutCall(p, n)
        PROVE  Held'
    BY <1>1 DEF PutCall, Held, Writing, Reading, PutTypeOK, GotoP, getVars
  <1>2. ASSUME NEW p \in Producers, PutStep(p)
        PROVE  Held'
    <2>1. UNCHANGED <<rLock, pcC>>
      BY <1>2 DEF PutStep, PutAboveCapacity, PutBelowCapacity, PutCompare, PutTooLarge, PutFits, AcquireWriteLock, WriteLockTimeout, WriteCell, AdvanceAllocIndex, PutDone,
          getVars
    <2>2. CASE LeavePut(p) /\ ~Writing(p) /\ wLock' = wLock
      BY <2>1, <2>2 DEF LeavePut, Held, Writing, Reading, PutTypeOK
    <2>3. CASE PutDone(p)
      BY <2>1, <2>3 DEF PutDone, Released, Held, Reading
    <2>4. CASE AcquireWriteLock(p)
      BY <2>1, <2>4 DEF AcquireWriteLock, GotoP, Held, Writing, Reading, PutTypeOK
    <2>5. CASE wLock' = wLock /\ pcP' = pcP
      BY <2>1, <2>5 DEF Held, Writing, Reading
    <2>6. CASE \/ PutBelowCapacity(p) \/ PutCompare(p) \/ PutFits(p)
               \/ AdvanceAllocIndex(p)
      BY <2>1, <2>6 DEF PutBelowCapacity, PutCompare, PutFits, AdvanceAllocIndex,
          GotoP, Held, Writing, Reading, PutTypeOK
    <2>7. PutAboveCapacity(p) \/ PutTooLarge(p) \/ WriteLockTimeout(p)
            => LeavePut(p) /\ ~Writing(p) /\ wLock' = wLock
      BY DEF PutAboveCapacity, PutTooLarge, WriteLockTimeout, Writing
    <2>8. WriteCell(p) => wLock' = wLock /\ pcP' = pcP
      BY DEF WriteCell
    <2> QED BY <1>2, <2>2, <2>3, <2>4, <2>5, <2>6, <2>7, <2>8 DEF PutStep
  <1>3. ASSUME NEW c \in Consumers, GetStep(c)
        PROVE  Held'
    <2>1. UNCHANGED <<wLock, pcP>>
      BY <1>3 DEF GetStep, GetNothing, GetCall, AcquireReadLock, ReadLockTimeout, GetNoFrame, GetNoWatermark,
          ReadHeader, ReadData, ClearFrame, AdvanceExeIndex, GetDone, GetCrcError, putVars, vars
    <2>2. CASE rLock' = Free
      BY <2>1, <2>2 DEF Held, Writing
    <2>3. CASE AcquireReadLock(c)
      BY <2>1, <2>3 DEF AcquireReadLock, GotoC, Held, Writing, Reading, GetTypeOK
    <2>4. CASE \/ GetNothing(c) \/ GetCall(c) \/ ReadLockTimeout(c) \/ ReadHeader(c)
               \/ ReadData(c) \/ ClearFrame(c) \/ AdvanceExeIndex(c)
      BY <2>1, <2>4 DEF GetNothing, GetCall, ReadLockTimeout, ReadHeader, ReadData,
          ClearFrame, AdvanceExeIndex, GotoC, Held, Writing, Reading, GetTypeOK, vars, getVars
    <2>5. GetNoFrame(c) \/ GetNoWatermark(c) \/ GetDone(c) \/ GetCrcError(c)
            => rLock' = Free
      BY DEF GetNoFrame, GetNoWatermark, GetDone, GetCrcError, LeaveGet, Released
    <2> QED BY <1>3, <2>2, <2>3, <2>4, <2>5 DEF GetStep
  <1>4. ASSUME NEW p \in Producers, CrashP(p)
        PROVE  Held'
    BY <1>4 DEF CrashP, LeavePut, Held, Writing, Reading, PutTypeOK, getVars
  <1>5. ASSUME NEW c \in Consumers, CrashC(c)
        PROVE  Held'
    BY <1>5 DEF CrashC, Held, Writing, Reading, GetTypeOK, putVars
  <1>6. CASE UNCHANGED vars
    BY <1>6 DEF Held, Writing, Reading, vars, putVars, getVars
  <1> QED BY <1>1, <1>2, <1>3, <1>4, <1>5, <1>6 DEF Next

\* Where closing a shared memory block destroys it, acquire_lock raises
\* TimeoutError only while another process is writing, or reading, the ring.
THEOREM NoIdleTimeout ==
    ASSUME CloseReleases
    PROVE  Spec => TimeoutOnlyUnderContention
  <1>1. Init => Held
    BY DEF Init, Held
  <1>2. IInv /\ Held /\ [Next]_vars => Held'
    BY HeldKept
  <1>3. IInv /\ Held /\ [Next]_vars =>
          [\A p \in Producers : WriteLockTimeout(p) =>
              \E q \in Producers \ {p} : Writing(q)]_vars
    BY DEF Held, WriteLockTimeout, Writing
  <1>4. IInv /\ Held /\ [Next]_vars =>
          [\A c \in Consumers : ReadLockTimeout(c) =>
              \E d \in Consumers \ {c} : Reading(d)]_vars
    BY DEF Held, ReadLockTimeout, GotoC, Reading
  <1> QED BY <1>1, <1>2, <1>3, <1>4, Invariance, PTL DEF Spec, TimeoutOnlyUnderContention

-----------------------------------------------------------------------------
(* The hypotheses                                                          *)

\* The most that the producers in S can still write.
Claim(S) == Cardinality(S) * LargestFrame

\* A put that finds the ring below MAX_CAPACITY leaves two frames of the largest
\* size for each producer, but for one: its own, and all that may pass on a check
\* that is older than its own. 
EnoughReserve ==
    \A free \in (-DataSize)..(2 * DataSize) :
        ~AboveCapacity(free) => (2 * Cardinality(Producers) - 1) * LargestFrame < free

\* The producers that have passed the check of MAX_CAPACITY and have their frame
\* still to write, and those that compared the indexes when alloc_index was not
\* behind: once it is, they find more space than there is.
Passed == {p \in Producers : pcP[p] \in {"encoded", "fit", "lock", "write"}}
Stale  == {p \in Producers : pcP[p] = "capacity" /\ ~behind[p]}

\* One reader, nobody dies; a queue of upipe has one reader when the processor
\* it feeds has one instance.
Setting(c) == /\ Consumers = {c} /\ MaxCrashes = 0
              /\ IsFiniteSet(Producers) /\ FrameSizes # {}
              /\ EnoughReserve

\* Frame sizes are bounded by the ring, so there is a largest one.
LEMMA LargestFrameExists ==
    ASSUME FrameSizes # {}
    PROVE  /\ LargestFrame \in FrameSizes /\ LargestFrame \in 3..DataSize
           /\ \A n \in FrameSizes : n <= LargestFrame
  <1>1. \A n \in FrameSizes : n \in 3..DataSize
    BY SizesAssumption DEF HeaderSize
  <1> DEFINE T == {DataSize - n : n \in FrameSizes}
  <1>2. T \subseteq Nat /\ T # {}
    <2>1. T # {}
      OBVIOUS
    <2>2. \A n \in FrameSizes : DataSize - n \in Nat
      BY <1>1, SizesAssumption
    <2> QED BY <2>1, <2>2
  <1> DEFINE R == {ss \in Nat \X Nat : ss[1] < ss[2]}
  <1>3. IsWellFoundedOn(R, Nat)
    BY NatLessThanWellFounded DEF OpToRel
  <1>4. \E x \in T : \A y \in T : x <= y
    <2> HIDE DEF T, R
    <2>1. PICK x \in T : \A y \in T : ~ (<<y, x>> \in R)
      BY <1>2, <1>3, WFMin
    <2>2. ASSUME NEW y \in T PROVE x <= y
      <3>1. x \in Nat /\ y \in Nat
        BY <1>2
      <3>2. y < x => <<y, x>> \in R
        BY <3>1 DEF R
      <3> QED BY <2>1, <3>1, <3>2
    <2> QED BY <2>2
  <1>5. \E n \in FrameSizes : \A k \in FrameSizes : k <= n
    BY <1>1, <1>4, SizesAssumption
  <1> QED BY <1>1, <1>5 DEF LargestFrame

\* Claims of sets of producers add up as their cardinalities do.
LEMMA ClaimFacts ==
    ASSUME IsFiniteSet(Producers), FrameSizes # {}
    PROVE  /\ Claim({}) = 0
           /\ \A S \in SUBSET Producers : Claim(S) \in Nat /\ Claim(S) <= Claim(Producers)
           /\ \A S, T \in SUBSET Producers :
                 /\ S \subseteq T => Claim(S) <= Claim(T)
                 /\ Claim(S \cup T) <= Claim(S) + Claim(T)
           /\ \A S \in SUBSET Producers : \A p \in Producers :
                 /\ p \notin S => Claim(S \cup {p}) = Claim(S) + LargestFrame
                 /\ p \in S => Claim(S \ {p}) = Claim(S) - LargestFrame
           /\ (2 * Cardinality(Producers) - 1) * LargestFrame = 2 * Claim(Producers) - LargestFrame
  <1> DEFINE F == LargestFrame
  <1>0. F \in Nat
    BY LargestFrameExists, SizesAssumption
  <1> HIDE DEF F
  <1>a. \A m, n \in Nat : /\ m * F \in Nat
                          /\ m <= n => m * F <= n * F
                          /\ (m + n) * F = m * F + n * F
    <2> SUFFICES ASSUME NEW m \in Nat, NEW n \in Nat
                 PROVE  /\ m * F \in Nat
                        /\ m <= n => m * F <= n * F
                        /\ (m + n) * F = m * F + n * F
      OBVIOUS
    <2>1. \A a, b \in Nat : a * b \in Nat
      OBVIOUS
    <2>2. \A a, b \in Nat : (a + b) * F = a * F + b * F
      BY <1>0
    <2>3. m <= n => n * F = m * F + (n - m) * F
      BY <1>0
    <2>4. m <= n => (n - m) \in Nat
      OBVIOUS
    <2>5. m * F \in Nat /\ n * F \in Nat /\ (m <= n => (n - m) * F \in Nat)
      BY <2>1, <2>4, <1>0
    <2>6. \A x, y, z \in Nat : x = y + z => y <= x
      OBVIOUS
    <2> QED BY <2>2, <2>3, <2>5, <2>6
  <1>b. \A S \in SUBSET Producers : IsFiniteSet(S) /\ Cardinality(S) \in Nat
    BY FS_Subset, FS_CardinalityType
  <1>c. \A S, T \in SUBSET Producers : S \subseteq T => Cardinality(S) <= Cardinality(T)
    BY <1>b, FS_Subset
  <1>d. \A S, T \in SUBSET Producers : Cardinality(S \cup T) <= Cardinality(S) + Cardinality(T)
    <2> SUFFICES ASSUME NEW S \in SUBSET Producers, NEW T \in SUBSET Producers
                 PROVE  Cardinality(S \cup T) <= Cardinality(S) + Cardinality(T)
      OBVIOUS
    <2>1. IsFiniteSet(S) /\ IsFiniteSet(T) /\ Cardinality(S) \in Nat /\ Cardinality(T) \in Nat
      BY <1>b
    <2>2. Cardinality(S \cup T) = Cardinality(S) + Cardinality(T) - Cardinality(S \cap T)
      BY <2>1, FS_Union
    <2>3. S \cap T \in SUBSET Producers
      OBVIOUS
    <2>4. Cardinality(S \cap T) \in Nat
      BY <1>b, <2>3
    <2> QED BY <2>1, <2>2, <2>4
  <1>e. \A S \in SUBSET Producers : \A p \in Producers :
           /\ p \notin S => Cardinality(S \cup {p}) = Cardinality(S) + 1
           /\ p \in S => Cardinality(S) = Cardinality(S \ {p}) + 1
    <2> SUFFICES ASSUME NEW S \in SUBSET Producers, NEW p \in Producers
                 PROVE  /\ p \notin S => Cardinality(S \cup {p}) = Cardinality(S) + 1
                        /\ p \in S => Cardinality(S) = Cardinality(S \ {p}) + 1
      OBVIOUS
    <2>1. IsFiniteSet(S) /\ Cardinality(S) \in Nat
      BY <1>b
    <2>2. p \notin S => Cardinality(S \cup {p}) = Cardinality(S) + 1
      BY <2>1, FS_AddElement
    <2>3. p \in S => Cardinality(S \ {p}) = Cardinality(S) - 1
      BY <2>1, FS_RemoveElement
    <2> QED BY <2>1, <2>2, <2>3
  <1>1. Claim({}) = 0
    BY FS_EmptySet, <1>0 DEF Claim, F
  <1>2. \A S \in SUBSET Producers : Claim(S) \in Nat /\ Claim(S) <= Claim(Producers)
    BY <1>a, <1>b, <1>c DEF Claim, F
  <1>3. \A S, T \in SUBSET Producers : S \subseteq T => Claim(S) <= Claim(T)
    BY <1>a, <1>b, <1>c DEF Claim, F
  <1>4. \A S, T \in SUBSET Producers : Claim(S \cup T) <= Claim(S) + Claim(T)
    <2> SUFFICES ASSUME NEW S \in SUBSET Producers, NEW T \in SUBSET Producers
                 PROVE  Claim(S \cup T) <= Claim(S) + Claim(T)
      OBVIOUS
    <2>1. /\ Cardinality(S \cup T) \in Nat /\ Cardinality(S) \in Nat /\ Cardinality(T) \in Nat
          /\ Cardinality(S \cup T) <= Cardinality(S) + Cardinality(T)
      BY <1>b, <1>d
    <2>2. Cardinality(S) + Cardinality(T) \in Nat
      BY <2>1
    <2>3. Cardinality(S \cup T) * F <= (Cardinality(S) + Cardinality(T)) * F
      BY <2>1, <2>2, <1>a
    <2>4. (Cardinality(S) + Cardinality(T)) * F = Cardinality(S) * F + Cardinality(T) * F
      BY <2>1, <1>a
    <2> QED BY <2>3, <2>4 DEF Claim, F
  <1>5. ASSUME NEW S \in SUBSET Producers, NEW p \in Producers
        PROVE  /\ p \notin S => Claim(S \cup {p}) = Claim(S) + LargestFrame
               /\ p \in S => Claim(S \ {p}) = Claim(S) - LargestFrame
    <2>0. 1 * F = F
      BY <1>0
    <2>1. CASE p \notin S
      <3>1. Cardinality(S) \in Nat /\ Cardinality(S \cup {p}) = Cardinality(S) + 1
        BY <2>1, <1>b, <1>e
      <3>2. (Cardinality(S) + 1) * F = Cardinality(S) * F + F
        BY <3>1, <2>0, <1>a
      <3> QED BY <2>1, <3>1, <3>2 DEF Claim, F
    <2>2. CASE p \in S
      <3>0. S \ {p} \in SUBSET Producers
        OBVIOUS
      <3>1. Cardinality(S \ {p}) \in Nat /\ Cardinality(S) = Cardinality(S \ {p}) + 1
        BY <2>2, <3>0, <1>b, <1>e
      <3>2. (Cardinality(S \ {p}) + 1) * F = Cardinality(S \ {p}) * F + F
        BY <3>1, <2>0, <1>a
      <3>3. Cardinality(S \ {p}) * F \in Nat
        BY <3>1, <1>a
      <3>4. Cardinality(S) * F = Cardinality(S \ {p}) * F + F
        BY <3>1, <3>2
      <3>5. \A x, y \in Nat : x = (x + y) - y
        OBVIOUS
      <3> QED BY <2>2, <3>3, <3>4, <3>5, <1>0 DEF Claim, F
    <2> QED BY <2>1, <2>2
  <1>6. (2 * Cardinality(Producers) - 1) * LargestFrame = 2 * Claim(Producers) - LargestFrame
    <2>1. Cardinality(Producers) \in Nat
      BY <1>b
    <2>2. \A n \in Nat : (2 * n - 1) * F = 2 * (n * F) - F
      BY <1>0
    <2> QED BY <2>1, <2>2 DEF Claim, F
  <1> QED BY <1>1, <1>2, <1>3, <1>4, <1>5, <1>6

\* Steps round the ring: they stay in it, add up, come round, never meet before
\* they come round, and reach every cell.
LEMMA PlusIn == \A i \in Pos : \A a \in 0..DataSize : Plus(i, a) \in Pos
  BY SizesAssumption DEF Plus, Pos

LEMMA PlusPlus ==
    \A i \in Pos : \A a, b \in Nat : a + b <= DataSize => Plus(Plus(i, a), b) = Plus(i, a + b)
  BY SizesAssumption DEF Plus, Pos

LEMMA PlusWraps ==
    \A i, a, b \in Pos : a + b >= DataSize => Plus(Plus(i, a), b) = Plus(i, a + b - DataSize)
  BY SizesAssumption DEF Plus, Pos

LEMMA PlusOneToOne == \A i, a, b \in Pos : Plus(i, a) = Plus(i, b) => a = b
  BY SizesAssumption DEF Plus, Pos

LEMMA PlusReaches == \A i, q \in Pos : \E a \in Pos : q = Plus(i, a)
  <1> SUFFICES ASSUME NEW i \in Pos, NEW q \in Pos PROVE \E a \in Pos : q = Plus(i, a)
    OBVIOUS
  <1>0. DataSize \in Nat \ {0} /\ q \in Int /\ i \in Int
    BY SizesAssumption DEF Pos
  <1>1. CASE q >= i
    <2>1. q - i \in Pos /\ q = Plus(i, q - i)
      BY <1>0, <1>1 DEF Plus, Pos
    <2> QED BY <2>1
  <1>2. CASE q < i
    <2>1. (DataSize - i) + q \in Pos /\ q = Plus(i, (DataSize - i) + q)
      BY <1>0, <1>2 DEF Plus, Pos
    <2> QED BY <2>1
  <1> QED BY <1>0, <1>1, <1>2

LEMMA PlusZero == \A i \in Pos : Plus(i, 0) = i
  BY SizesAssumption DEF Plus, Pos

-----------------------------------------------------------------------------
(* The inductive invariant                                                 *)

\* The frames that were accepted, and those of them that were delivered.
Frames == Len(accepted)
Gone   == Len(delivered)

\* While alloc_index is behind exe_index, the free cells hold a frame for each
\* producer that passed the check or may pass it on a stale comparison.  While it
\* is not, they hold a frame for each that passed; either there are as many again
\* for those that will turn stale when alloc_index wraps, or it will not wrap.
Room ==
    IF allocIndex < exeIndex
    THEN Occupied + Claim(Passed \cup Stale) < DataSize
    ELSE \/ Occupied + Claim(Producers) + Claim(Passed) < DataSize + LargestFrame
         \/ allocIndex + Claim(Passed) < DataSize

\* The counters count, and what was delivered are the first frames accepted.
CountInv(c) ==
    /\ allocCounter = Frames /\ exeCounter = Gone
    /\ Gone <= Frames
    /\ pcC[c] # "idle" => Gone < Frames
    /\ \A k \in 1..Gone : delivered[k] = accepted[k]
    /\ broken = {}

\* No two frames that were accepted are the same.
NumberInv ==
    /\ \A k \in 1..Frames : accepted[k].num <= puts[accepted[k].from]
    /\ \A k, l \in 1..Frames : k < l => accepted[k] # accepted[l]
    /\ \A p \in Producers : pcP[p] # "idle" => frame[p].from = p /\ frame[p].num = puts[p] + 1

\* What get has read is the oldest frame that is not delivered.
ReaderInv(c) ==
    /\ pcC[c] \in {"data", "clear", "advance", "check"} =>
          header[c] = [size |-> accepted[Gone + 1].size, crc |-> accepted[Gone + 1]]
    /\ pcC[c] \in {"clear", "advance", "check"} => CrcMatches(c)

\* The oldest frame from exe_index on, the oldest that get has not cleared, and
\* the cells from exe_index to the end of the newest, where frame k begins at[k]
\* cells after the first frame of all.
First(c) == IF pcC[c] = "check" THEN Gone + 2 ELSE Gone + 1
Kept(c)  == IF pcC[c] \in {"advance", "check"} THEN Gone + 2 ELSE Gone + 1

Ahead(c, at) == at[Frames + 1] - at[First(c)]

\* Frames lie one behind the other.
SizesInv(at) ==
    /\ at \in [1..(Frames + 1) -> Nat]
    /\ \A k \in 1..Frames : at[k + 1] = at[k] + accepted[k].size
    /\ \A k, l \in 1..(Frames + 1) : k < l => at[k] + accepted[k].size <= at[l]

\* alloc_index is at the end of the newest frame, or of one not counted yet.
TailInv(c, at) ==
    /\ (\A p \in Producers : pcP[p] # "count") => Occupied = Ahead(c, at)
    /\ \A p \in Producers : pcP[p] = "count" =>
          written[p] = frame[p].size /\ Occupied = Ahead(c, at) + frame[p].size

\* Frames that are neither cleared nor delivered lie whole in the ring.
QueuedInv(c, at) ==
    \A k \in Kept(c)..Frames : \A j \in 0..(accepted[k].size - 1) :
       mem[Plus(exeIndex, at[k] - at[First(c)] + j)] = <<accepted[k], j>>

\* The cells a producer has written follow the newest frame.
WrittenInv(c, at) ==
    \A p \in Producers : Writing(p) =>
       \A j \in 0..(written[p] - 1) :
          mem[Plus(exeIndex, Ahead(c, at) + j)] = <<frame[p], j>>

\* The cells behind them are free.
FreeInv(c, at) ==
    \A j \in Pos :
       Ahead(c, at) <= j /\ (\A p \in Producers : Writing(p) => Ahead(c, at) + written[p] <= j)
       => mem[Plus(exeIndex, j)] = Zero

\* The cells get has cleared are free before it moves exe_index over them.
ClearedInv(c) ==
    pcC[c] = "advance" => \A j \in 0..(header[c].size - 1) : mem[Plus(exeIndex, j)] = Zero

\* The three invariants that do not speak of the ring, and the six that do.
Ledger(c) == CountInv(c) /\ NumberInv /\ ReaderInv(c)

Layout(c, at) == /\ SizesInv(at) /\ TailInv(c, at) /\ QueuedInv(c, at)
                 /\ WrittenInv(c, at) /\ FreeInv(c, at) /\ ClearedInv(c)

LaidOut(c) == \E at \in [1..(Frames + 1) -> Nat] : Layout(c, at)

FifoInv(c) == /\ IInv /\ Room /\ Ledger(c)
              /\ LaidOut(c)

-----------------------------------------------------------------------------
\* alloc_index lies the occupied cells after exe_index.
LEMMA OccupiedFacts ==
    ASSUME RingTypeOK
    PROVE  /\ Occupied \in Pos /\ Occupied \in Nat
           /\ allocIndex = Plus(exeIndex, Occupied)
           /\ ~(allocIndex < exeIndex) => Occupied <= allocIndex
  BY SizesAssumption DEF RingTypeOK, Occupied, Pos, Plus

\* Where put has passed its first check, there is room for its frame.
LEMMA RoomForFrame ==
    ASSUME NEW c, Setting(c), IInv, Room, NEW p \in Producers, p \in Passed
    PROVE  /\ frame[p].size \in 3..LargestFrame
           /\ Occupied + frame[p].size < DataSize
           /\ ~(allocIndex < exeIndex) /\ allocIndex + frame[p].size >= DataSize
                 => Occupied + Claim(Producers) + Claim(Passed) < DataSize + LargestFrame
  <1>1. /\ frame[p] \in Frame /\ frame[p].size \in FrameSizes /\ frame[p].size \in 3..DataSize
    BY FrameFields DEF Passed, IInv, PutInv
  <1>2. /\ LargestFrame \in Nat /\ frame[p].size <= LargestFrame
    BY <1>1, LargestFrameExists DEF Setting
  <1>3. /\ Passed \in SUBSET Producers /\ Stale \in SUBSET Producers
        /\ {p} \in SUBSET Producers /\ {p} \subseteq Passed /\ Passed \cup Stale \in SUBSET Producers
        /\ {p} = {} \cup {p} /\ p \notin {} /\ {} \in SUBSET Producers
    BY DEF Passed, Stale
  <1>4. /\ Claim({p}) = LargestFrame
        /\ Claim({p}) <= Claim(Passed) /\ Claim({p}) <= Claim(Producers)
        /\ Claim({p}) <= Claim(Passed \cup Stale)
        /\ Claim(Passed) \in Nat /\ Claim(Producers) \in Nat /\ Claim(Passed \cup Stale) \in Nat
    <2>1. Claim({p}) = LargestFrame
      BY <1>2, <1>3, ClaimFacts DEF Setting
    <2> QED BY <2>1, <1>3, ClaimFacts DEF Setting
  <1>5. /\ Occupied \in Nat /\ allocIndex \in Nat
        /\ ~(allocIndex < exeIndex) => Occupied <= allocIndex
    BY OccupiedFacts, SizesAssumption DEF IInv, TypeOK, RingTypeOK, Pos
  <1>6. frame[p].size \in 3..LargestFrame
    BY <1>1, <1>2
  <1>7. frame[p].size \in Nat /\ DataSize \in Nat
    BY <1>1, SizesAssumption
  <1> QED BY <1>2, <1>4, <1>5, <1>6, <1>7 DEF Room

\* Producers that give up, and time that passes, leave Room.
LEMMA RoomShrinks ==
    ASSUME NEW c, Setting(c), IInv, Room, UNCHANGED <<allocIndex, exeIndex>>,
           Passed' \subseteq Passed,
           allocIndex < exeIndex => Stale' \subseteq Passed \cup Stale
    PROVE  Room'
  <1>1. /\ Passed \in SUBSET Producers /\ Passed' \in SUBSET Producers
        /\ Passed \cup Stale \in SUBSET Producers /\ (Passed \cup Stale)' \in SUBSET Producers
    BY DEF Passed, Stale
  <1>2. /\ Claim(Passed') <= Claim(Passed)
        /\ allocIndex < exeIndex => Claim((Passed \cup Stale)') <= Claim(Passed \cup Stale)
        /\ Claim(Passed) \in Nat /\ Claim(Passed') \in Nat /\ Claim(Producers) \in Nat
        /\ Claim(Passed \cup Stale) \in Nat /\ Claim((Passed \cup Stale)') \in Nat
    BY <1>1, ClaimFacts DEF Setting
  <1>3. Occupied' = Occupied /\ Occupied \in Nat /\ allocIndex \in Nat
    BY OccupiedFacts, SizesAssumption DEF Occupied, IInv, TypeOK, RingTypeOK, Pos
  <1>4. LargestFrame \in Nat /\ DataSize \in Nat
    BY LargestFrameExists, SizesAssumption DEF Setting
  <1>5. /\ Claim(Passed)' = Claim(Passed') /\ Claim(Passed \cup Stale)' = Claim((Passed \cup Stale)')
        /\ Claim(Producers)' = Claim(Producers)
    BY DEF Claim
  <1> QED BY <1>2, <1>3, <1>4, <1>5 DEF Room

\* What put's first check means for the ring.
LEMMA CapacityGate ==
    ASSUME NEW c, Setting(c), IInv, NEW p \in Producers,
           ~AboveCapacity(FreeSpace(behind[p]))
    PROVE  \/ allocIndex < exeIndex /\ ~behind[p]
           \/ Occupied + 2 * Claim(Producers) < DataSize + LargestFrame
  <1>1. /\ behind[p] \in BOOLEAN /\ allocIndex \in Pos /\ exeIndex \in Pos
    BY DEF IInv, TypeOK, PutTypeOK, RingTypeOK
  <1>2. FreeSpace(behind[p]) \in (-DataSize)..(2 * DataSize)
    BY <1>1, SizesAssumption DEF FreeSpace, Pos
  <1>3. 2 * Claim(Producers) - LargestFrame < FreeSpace(behind[p])
    BY <1>2, ClaimFacts DEF Setting, EnoughReserve
  <1>4. /\ Claim(Producers) \in Nat /\ LargestFrame \in Nat /\ DataSize \in Nat
        /\ LargestFrame <= Claim(Producers)
    <2>1. /\ {p} \in SUBSET Producers /\ {} \in SUBSET Producers /\ p \notin {} /\ {} \cup {p} = {p}
          /\ Producers \in SUBSET Producers
      OBVIOUS
    <2>2. Claim({p}) = 0 + LargestFrame /\ Claim({p}) <= Claim(Producers)
      BY <2>1, ClaimFacts DEF Setting
    <2> QED BY <2>1, <2>2, ClaimFacts, LargestFrameExists, SizesAssumption DEF Setting
  <1> QED BY <1>1, <1>3, <1>4 DEF FreeSpace, Occupied, Pos

\* A producer that passes the check still leaves room for all that passed.
LEMMA RoomTaken ==
    ASSUME NEW c, Setting(c), IInv, Room, NEW p \in Producers, PutBelowCapacity(p)
    PROVE  Room'
  <1>1. /\ Passed' = Passed \cup {p} /\ p \notin Passed
        /\ Stale' = Stale \ {p}
        /\ ~behind[p] => p \in Stale
    BY DEF PutBelowCapacity, GotoP, Passed, Stale, IInv, TypeOK, PutTypeOK
  <1>2. /\ Passed \in SUBSET Producers /\ Passed' \in SUBSET Producers
        /\ Passed \cup Stale \in SUBSET Producers /\ (Passed \cup Stale)' \in SUBSET Producers
    BY DEF Passed, Stale
  <1>3. /\ Claim(Passed') <= Claim(Producers)
        /\ Claim((Passed \cup Stale)') <= Claim(Producers)
        /\ Claim(Passed) \in Nat /\ Claim(Passed') \in Nat /\ Claim(Producers) \in Nat
        /\ Claim(Passed \cup Stale) \in Nat /\ Claim((Passed \cup Stale)') \in Nat
        /\ Claim({p}) = LargestFrame /\ Claim({p}) <= Claim(Producers)
    <2>1. {p} \in SUBSET Producers /\ {} \in SUBSET Producers /\ p \notin {} /\ {} \cup {p} = {p}
      OBVIOUS
    <2>2. LargestFrame \in Nat
      BY LargestFrameExists DEF Setting
    <2>3. Claim({p}) = 0 + LargestFrame
      BY <2>1, ClaimFacts DEF Setting
    <2> QED BY <1>2, <2>1, <2>2, <2>3, ClaimFacts DEF Setting
  <1>4. UNCHANGED <<allocIndex, exeIndex>> /\ Occupied' = Occupied
    BY DEF PutBelowCapacity, ringVars, Occupied
  <1>5. /\ Occupied \in Nat /\ allocIndex \in Nat /\ LargestFrame \in Nat /\ DataSize \in Nat
    BY OccupiedFacts, LargestFrameExists, SizesAssumption DEF IInv, TypeOK, RingTypeOK, Pos, Setting
  <1>6. \/ allocIndex < exeIndex /\ ~behind[p]
        \/ Occupied + 2 * Claim(Producers) < DataSize + LargestFrame
    BY CapacityGate DEF PutBelowCapacity
  <1>7. /\ Claim(Passed)' = Claim(Passed') /\ Claim(Passed \cup Stale)' = Claim((Passed \cup Stale)')
        /\ Claim(Producers)' = Claim(Producers)
    BY DEF Claim
  <1>8. CASE allocIndex < exeIndex /\ ~behind[p]
    <2>1. (Passed \cup Stale)' = Passed \cup Stale
      BY <1>1, <1>8
    <2> QED BY <1>8, <2>1, <1>4, <1>7 DEF Room
  <1>9. CASE Occupied + 2 * Claim(Producers) < DataSize + LargestFrame
    BY <1>9, <1>3, <1>4, <1>5, <1>7 DEF Room
  <1> QED BY <1>6, <1>8, <1>9

\* alloc_index moves on by a frame.
LEMMA AllocAdvances ==
    ASSUME NEW c, Setting(c), IInv, Room, NEW p \in Producers, AdvanceAllocIndex(p)
    PROVE  Occupied' = Occupied + frame[p].size /\ Room'
  <1>1. /\ p \in Passed /\ Passed' = Passed \ {p} /\ Stale' = Stale /\ p \notin Stale
    BY DEF AdvanceAllocIndex, GotoP, Passed, Stale, IInv, TypeOK, PutTypeOK
  <1>2. /\ Passed \in SUBSET Producers /\ Passed' \in SUBSET Producers
        /\ Stale \in SUBSET Producers /\ Stale \subseteq Producers \ {p}
        /\ Passed \cup Stale \in SUBSET Producers /\ (Passed \cup Stale)' \in SUBSET Producers
        /\ (Passed \cup Stale)' = (Passed \cup Stale) \ {p} /\ p \in Passed \cup Stale
        /\ (Passed \cup Stale)' = Passed' \cup Stale
        /\ Producers \ {p} \in SUBSET Producers /\ Producers \in SUBSET Producers
    BY <1>1 DEF Passed, Stale
  <1>3. /\ Claim(Passed') = Claim(Passed) - LargestFrame
        /\ Claim((Passed \cup Stale)') = Claim(Passed \cup Stale) - LargestFrame
        /\ Claim(Producers \ {p}) = Claim(Producers) - LargestFrame
        /\ Claim(Stale) <= Claim(Producers \ {p})
        /\ Claim((Passed \cup Stale)') <= Claim(Passed') + Claim(Stale)
        /\ Claim(Passed) \in Nat /\ Claim(Passed') \in Nat /\ Claim(Producers) \in Nat
        /\ Claim(Stale) \in Nat
        /\ Claim(Passed \cup Stale) \in Nat /\ Claim((Passed \cup Stale)') \in Nat
    <2>1. /\ Claim(Passed \ {p}) = Claim(Passed) - LargestFrame
          /\ Claim((Passed \cup Stale) \ {p}) = Claim(Passed \cup Stale) - LargestFrame
          /\ Claim(Producers \ {p}) = Claim(Producers) - LargestFrame
      BY <1>1, <1>2, ClaimFacts DEF Setting
    <2>2. /\ Claim(Stale) <= Claim(Producers \ {p})
          /\ Claim(Passed' \cup Stale) <= Claim(Passed') + Claim(Stale)
      BY <1>2, ClaimFacts DEF Setting
    <2>3. /\ Claim(Passed) \in Nat /\ Claim(Passed') \in Nat /\ Claim(Producers) \in Nat
          /\ Claim(Stale) \in Nat
          /\ Claim(Passed \cup Stale) \in Nat /\ Claim((Passed \cup Stale)') \in Nat
      BY <1>2, ClaimFacts DEF Setting
    <2> QED BY <1>1, <1>2, <2>1, <2>2, <2>3
  <1>4. /\ frame[p].size \in 3..LargestFrame
        /\ Occupied + frame[p].size < DataSize
        /\ ~(allocIndex < exeIndex) /\ allocIndex + frame[p].size >= DataSize
              => Occupied + Claim(Producers) + Claim(Passed) < DataSize + LargestFrame
    BY <1>1, RoomForFrame
  <1>5. /\ allocIndex \in Pos /\ exeIndex \in Pos /\ DataSize \in Nat /\ LargestFrame \in Nat
        /\ exeIndex' = exeIndex
        /\ allocIndex' = Plus(allocIndex, frame[p].size)
    BY LargestFrameExists, SizesAssumption DEF AdvanceAllocIndex, IInv, TypeOK, RingTypeOK, Setting
  <1>6. Occupied' = Occupied + frame[p].size
    BY <1>4, <1>5 DEF Occupied, Plus, Pos
  <1>7. /\ Claim(Passed)' = Claim(Passed') /\ Claim(Passed \cup Stale)' = Claim((Passed \cup Stale)')
        /\ Claim(Producers)' = Claim(Producers)
    BY DEF Claim
  <1>8. Occupied \in Nat
    BY OccupiedFacts DEF IInv, TypeOK
  <1>9. CASE allocIndex < exeIndex
    <2>1. allocIndex' < exeIndex'
      BY <1>4, <1>5, <1>9 DEF Occupied, Plus, Pos
    <2> QED BY <2>1, <1>3, <1>4, <1>6, <1>7, <1>8, <1>9, <1>5 DEF Room
  <1>10. CASE ~(allocIndex < exeIndex) /\ allocIndex + frame[p].size < DataSize
    <2>1. ~(allocIndex' < exeIndex') /\ allocIndex' = allocIndex + frame[p].size
      BY <1>4, <1>5, <1>10 DEF Plus, Pos
    <2>2. allocIndex \in Nat
      BY <1>5 DEF Pos
    <2> QED BY <2>1, <2>2, <1>3, <1>4, <1>6, <1>7, <1>8, <1>10, <1>5 DEF Room
  <1>11. CASE ~(allocIndex < exeIndex) /\ allocIndex + frame[p].size >= DataSize
    <2>1. allocIndex' < exeIndex'
      BY <1>4, <1>5, <1>11 DEF Occupied, Plus, Pos
    <2>2. Occupied + Claim(Producers) + Claim(Passed) < DataSize + LargestFrame
      BY <1>4, <1>11
    <2>3. Occupied + frame[p].size + Claim((Passed \cup Stale)') < DataSize
      BY <2>2, <1>3, <1>4, <1>5, <1>8
    <2> QED BY <2>1, <2>3, <1>6, <1>7 DEF Room
  <1>12. allocIndex \in Nat /\ exeIndex \in Nat /\ frame[p].size \in Nat /\ DataSize \in Nat
    BY <1>4, <1>5 DEF Pos
  <1> QED BY <1>6, <1>9, <1>10, <1>11, <1>12

\* exe_index moves on by a frame that is in the ring.
LEMMA ExeAdvances ==
    ASSUME NEW c, Setting(c), IInv, Room, NEW n \in Nat, n > 0, n <= Occupied,
           exeIndex' = Plus(exeIndex, n), UNCHANGED <<allocIndex, pcP, behind>>
    PROVE  Occupied' = Occupied - n /\ Room'
  <1>1. Passed' = Passed /\ Stale' = Stale
    BY DEF Passed, Stale
  <1>2. /\ Claim(Passed)' = Claim(Passed) /\ Claim(Passed \cup Stale)' = Claim(Passed \cup Stale)
        /\ Claim(Producers)' = Claim(Producers)
    BY <1>1 DEF Claim
  <1>3. /\ Passed \in SUBSET Producers /\ Passed \cup Stale \in SUBSET Producers
        /\ Passed \subseteq Passed \cup Stale
    BY DEF Passed, Stale
  <1>4. /\ Claim(Passed) \in Nat /\ Claim(Passed \cup Stale) \in Nat /\ Claim(Producers) \in Nat
        /\ Claim(Passed) <= Claim(Passed \cup Stale)
    BY <1>3, ClaimFacts DEF Setting
  <1>5. /\ allocIndex \in Pos /\ exeIndex \in Pos /\ DataSize \in Nat /\ LargestFrame \in Nat
    BY LargestFrameExists, SizesAssumption DEF IInv, TypeOK, RingTypeOK, Setting
  <1>6. Occupied' = Occupied - n /\ Occupied \in Nat /\ Occupied' \in Nat
    BY <1>5 DEF Occupied, Plus, Pos
  <1>7. CASE ~(allocIndex < exeIndex)
    <2>1. ~(allocIndex' < exeIndex')
      BY <1>5, <1>7 DEF Occupied, Plus, Pos
    <2> QED BY <2>1, <1>2, <1>4, <1>5, <1>6, <1>7 DEF Room
  <1>8. CASE allocIndex < exeIndex /\ exeIndex + n < DataSize
    <2>1. allocIndex' < exeIndex'
      BY <1>5, <1>8 DEF Plus, Pos
    <2> QED BY <2>1, <1>2, <1>4, <1>5, <1>6, <1>8 DEF Room
  <1>9. CASE allocIndex < exeIndex /\ exeIndex + n >= DataSize
    <2>1. ~(allocIndex' < exeIndex') /\ allocIndex < Occupied
      BY <1>5, <1>9 DEF Occupied, Plus, Pos
    <2>2. allocIndex + Claim(Passed) < DataSize
      <3>1. Occupied + Claim(Passed \cup Stale) < DataSize
        BY <1>9 DEF Room
      <3>2. allocIndex \in Nat
        BY <1>5 DEF Pos
      <3> QED BY <2>1, <3>1, <3>2, <1>4, <1>5, <1>6
    <2> QED BY <2>1, <2>2, <1>2, <1>6 DEF Room
  <1>10. exeIndex \in Nat /\ n \in Nat /\ DataSize \in Nat
    BY <1>5 DEF Pos
  <1> QED BY <1>6, <1>7, <1>8, <1>9, <1>10

\* The invariant with the places of the frames made explicit.
Fifo(c, at) == IInv /\ Room /\ Ledger(c) /\ Layout(c, at)

\* Numbers that the steps keep needing.
LEMMA LayoutFacts ==
    ASSUME NEW c, Setting(c), NEW at, Fifo(c, at)
    PROVE  /\ Frames \in Nat /\ Gone \in Nat /\ Gone <= Frames
           /\ First(c) \in 1..(Frames + 1) /\ Gone + 1 <= First(c)
           /\ Kept(c) \in Nat /\ First(c) <= Kept(c) /\ Gone + 1 <= Kept(c)
           /\ \A k \in 1..Frames : accepted[k] \in Frame /\ accepted[k].size \in 3..DataSize
           /\ \A k \in 1..(Frames + 1) : at[k] \in Nat
           /\ \A k \in First(c)..Frames :
                 /\ at[k] - at[First(c)] \in Nat
                 /\ at[k] - at[First(c)] + accepted[k].size <= Ahead(c, at)
           /\ Ahead(c, at) \in Nat /\ Ahead(c, at) <= Occupied
           /\ Occupied \in Pos /\ DataSize \in Nat
           /\ pcC[c] \in {"data", "clear", "advance"} =>
                 /\ First(c) = Gone + 1 /\ Gone + 1 <= Frames
                 /\ accepted[Gone + 1].size <= Ahead(c, at)
                 /\ header[c].size = accepted[Gone + 1].size /\ header[c].crc = accepted[Gone + 1]
                 /\ \A k \in (Gone + 2)..(Frames + 1) :
                       at[k] - at[First(c)] - header[c].size \in Nat
           /\ \A p \in Producers : Writing(p) =>
                 /\ frame[p] \in Frame /\ frame[p].size \in 3..DataSize
                 /\ written[p] \in 0..frame[p].size
                 /\ \A q \in Producers : Writing(q) => q = p
                 /\ Ahead(c, at) + frame[p].size < DataSize
                 /\ pcP[p] = "write" => Ahead(c, at) = Occupied
                 /\ pcP[p] = "count" => Occupied = Ahead(c, at) + frame[p].size
  <1> USE DEF Fifo
  <1>1. /\ Frames \in Nat /\ Gone \in Nat /\ DataSize \in Nat
        /\ \A k \in 1..Frames : accepted[k] \in Frame
    BY SizesAssumption DEF IInv, TypeOK, HistoryTypeOK, Frames, Gone
  <1>2. Gone <= Frames /\ (pcC[c] # "idle" => Gone < Frames)
    BY DEF Ledger, CountInv
  <1>3. /\ First(c) \in 1..(Frames + 1) /\ Gone + 1 <= First(c)
        /\ Kept(c) \in Nat /\ First(c) <= Kept(c) /\ Gone + 1 <= Kept(c)
    BY <1>1, <1>2 DEF First, Kept
  <1>4. \A k \in 1..Frames : accepted[k] \in Frame /\ accepted[k].size \in 3..DataSize
    BY <1>1, FrameFields
  <1>5. \A k \in 1..(Frames + 1) : at[k] \in Nat
    BY DEF Layout, SizesInv
  <1>6. \A k, l \in 1..(Frames + 1) : k < l => at[k] + accepted[k].size <= at[l]
    BY DEF Layout, SizesInv
  <1>7. ASSUME NEW k \in First(c)..Frames
        PROVE  /\ at[k] - at[First(c)] \in Nat
               /\ at[k] - at[First(c)] + accepted[k].size <= Ahead(c, at)
    <2>1. k \in 1..(Frames + 1) /\ Frames + 1 \in 1..(Frames + 1) /\ k < Frames + 1 /\ k \in 1..Frames
      BY <1>1, <1>3
    <2>2. at[k] + accepted[k].size <= at[Frames + 1]
      BY <2>1, <1>6
    <2>3. at[k] \in Nat /\ at[First(c)] \in Nat /\ at[Frames + 1] \in Nat /\ accepted[k].size \in Nat
      BY <2>1, <1>3, <1>4, <1>5, <1>1
    <2>4. at[First(c)] <= at[k]
      <3>1. CASE k = First(c)
        BY <3>1, <2>3
      <3>2. CASE First(c) < k
        <4>1. at[First(c)] + accepted[First(c)].size <= at[k]
          BY <3>2, <2>1, <1>3, <1>6
        <4>2. First(c) \in 1..Frames
          BY <3>2, <2>1, <1>3, <1>1
        <4>3. accepted[First(c)].size \in Nat
          BY <4>2, <1>4, <1>1
        <4> QED BY <4>1, <4>3, <2>3
      <3> QED BY <3>1, <3>2, <1>3
    <2> QED BY <2>2, <2>3, <2>4 DEF Ahead
  <1>8. Ahead(c, at) \in Nat
    <2>1. CASE First(c) = Frames + 1
      BY <2>1, <1>1, <1>5 DEF Ahead
    <2>2. CASE First(c) \in 1..Frames
      <3>1. First(c) \in First(c)..Frames
        BY <2>2, <1>1
      <3>2. /\ at[First(c)] - at[First(c)] + accepted[First(c)].size <= Ahead(c, at)
            /\ accepted[First(c)].size \in Nat /\ at[First(c)] \in Nat
            /\ at[Frames + 1] \in Nat
        BY <3>1, <2>2, <1>1, <1>4, <1>5, <1>7
      <3> QED BY <3>2 DEF Ahead
    <2> QED BY <2>1, <2>2, <1>1, <1>3
  <1>9. ASSUME NEW p \in Producers, Writing(p)
        PROVE  /\ frame[p] \in Frame /\ frame[p].size \in 3..DataSize
               /\ written[p] \in 0..frame[p].size
               /\ \A q \in Producers : Writing(q) => q = p
               /\ Ahead(c, at) + frame[p].size < DataSize
               /\ pcP[p] = "write" => Ahead(c, at) = Occupied
               /\ pcP[p] = "count" => Occupied = Ahead(c, at) + frame[p].size
    <2>1. /\ frame[p] \in Frame /\ frame[p].size \in 3..DataSize
          /\ \A q \in Producers : Writing(q) => q = p
      BY <1>9, FrameFields DEF IInv, PutInv, Writing
    <2>2. written[p] \in 0..frame[p].size
      BY <1>9, <2>1, <1>1 DEF IInv, TypeOK, PutTypeOK, PutInv
    <2>3. pcP[p] = "write" => Ahead(c, at) = Occupied
      <3>1. pcP[p] = "write" => \A q \in Producers : pcP[q] # "count"
        BY <2>1 DEF Writing
      <3> QED BY <3>1 DEF Layout, TailInv
    <2>4. pcP[p] = "count" => Occupied = Ahead(c, at) + frame[p].size
      BY DEF Layout, TailInv
    <2>5. pcP[p] = "write" => Occupied + frame[p].size < DataSize
      BY RoomForFrame DEF Passed
    <2>6. Occupied \in Pos /\ pcP[p] \in {"write", "count"}
      BY <1>9, OccupiedFacts DEF IInv, TypeOK, Writing
    <2>7. Ahead(c, at) + frame[p].size < DataSize
      BY <1>1, <2>3, <2>4, <2>5, <2>6 DEF Pos
    <2> QED BY <2>1, <2>2, <2>3, <2>4, <2>7
  <1>10. Occupied \in Pos /\ Ahead(c, at) <= Occupied
    <2>1. Occupied \in Pos
      BY OccupiedFacts DEF IInv, TypeOK
    <2>2. CASE \A p \in Producers : pcP[p] # "count"
      BY <2>1, <2>2, <1>8 DEF Layout, TailInv, Pos
    <2>3. ASSUME NEW p \in Producers, pcP[p] = "count" PROVE Ahead(c, at) <= Occupied
      BY <2>1, <2>3, <1>8, <1>9, <1>1 DEF Writing, Pos
    <2> QED BY <2>1, <2>2, <2>3
  <1>11. ASSUME pcC[c] \in {"data", "clear", "advance"}
         PROVE  /\ First(c) = Gone + 1 /\ Gone + 1 <= Frames
                /\ accepted[Gone + 1].size <= Ahead(c, at)
                /\ header[c].size = accepted[Gone + 1].size /\ header[c].crc = accepted[Gone + 1]
                /\ \A k \in (Gone + 2)..(Frames + 1) :
                      at[k] - at[First(c)] - header[c].size \in Nat
    <2>1. First(c) = Gone + 1 /\ Gone + 1 <= Frames /\ First(c) \in First(c)..Frames /\ Gone + 1 \in 1..Frames
      BY <1>11, <1>1, <1>2 DEF First
    <2>2. header[c].size = accepted[Gone + 1].size /\ header[c].crc = accepted[Gone + 1]
      BY <1>11 DEF Ledger, ReaderInv
    <2>3. at[First(c)] - at[First(c)] + accepted[First(c)].size <= Ahead(c, at)
      BY <2>1, <1>7
    <2>4. accepted[Gone + 1].size \in Nat /\ at[First(c)] \in Nat
      BY <2>1, <1>1, <1>3, <1>4, <1>5
    <2>5. accepted[Gone + 1].size <= Ahead(c, at)
      BY <2>1, <2>3, <2>4, <1>8
    <2>6. ASSUME NEW k \in (Gone + 2)..(Frames + 1)
          PROVE  at[k] - at[First(c)] - header[c].size \in Nat
      <3>1. k \in 1..(Frames + 1) /\ First(c) < k /\ First(c) \in 1..(Frames + 1)
        BY <2>1, <1>1
      <3>2. at[First(c)] + accepted[First(c)].size <= at[k]
        BY <3>1, <1>6
      <3>3. at[k] \in Nat
        BY <3>1, <1>5
      <3> QED BY <2>1, <2>2, <2>4, <3>2, <3>3
    <2> QED BY <2>1, <2>2, <2>5, <2>6
  <1> QED BY <1>1, <1>2, <1>3, <1>4, <1>5, <1>7, <1>8, <1>9, <1>10, <1>11

\* Steps of put before it writes, and after it gave up, leave ring and readers alone.
LEMMA QuietKeepsLayout ==
    ASSUME NEW c, Setting(c), NEW at, Fifo(c, at),
           UNCHANGED <<ringVars, pcC, header, body, history>>,
           \A q \in Producers :
              /\ (pcP'[q] = "count") = (pcP[q] = "count")
              /\ Writing(q) => Writing(q)'
              /\ Writing(q)' => /\ frame'[q] = frame[q] /\ written'[q] = written[q]
                                /\ Writing(q) \/ written[q] = 0
    PROVE  CountInv(c)' /\ ReaderInv(c)' /\ Layout(c, at)'
  <1>1. /\ First(c)' = First(c) /\ Kept(c)' = Kept(c) /\ Frames' = Frames /\ Gone' = Gone
        /\ Ahead(c, at)' = Ahead(c, at) /\ Occupied' = Occupied
        /\ accepted' = accepted /\ delivered' = delivered /\ broken' = broken
        /\ mem' = mem /\ exeIndex' = exeIndex /\ pcC' = pcC /\ header' = header /\ body' = body
        /\ allocCounter' = allocCounter /\ exeCounter' = exeCounter
    BY DEF First, Kept, Frames, Gone, Ahead, Occupied, ringVars, history
  <1>2. CountInv(c)' /\ ReaderInv(c)'
    BY <1>1 DEF Fifo, Ledger, CountInv, ReaderInv, CrcMatches
  <1>3. SizesInv(at)' /\ QueuedInv(c, at)' /\ ClearedInv(c)'
    BY <1>1 DEF Fifo, Layout, SizesInv, QueuedInv, ClearedInv
  <1>4. TailInv(c, at)'
    <2>1. (\A p \in Producers : pcP'[p] # "count") => Occupied = Ahead(c, at)
      BY DEF Fifo, Layout, TailInv
    <2>2. ASSUME NEW p \in Producers, pcP'[p] = "count"
          PROVE  written'[p] = frame'[p].size /\ Occupied = Ahead(c, at) + frame'[p].size
      BY <2>2 DEF Fifo, Layout, TailInv, Writing
    <2> QED BY <1>1, <2>1, <2>2 DEF TailInv
  <1>5. WrittenInv(c, at)'
    <2>1. ASSUME NEW p \in Producers, Writing(p)', NEW j \in 0..(written'[p] - 1)
          PROVE  mem[Plus(exeIndex, Ahead(c, at) + j)] = <<frame'[p], j>>
      <3>1. Writing(p) /\ frame'[p] = frame[p] /\ j \in 0..(written[p] - 1)
        BY <2>1
      <3> QED BY <3>1 DEF Fifo, Layout, WrittenInv
    <2> QED BY <1>1, <2>1 DEF WrittenInv, Plus
  <1>6. FreeInv(c, at)'
    <2>1. ASSUME NEW j \in Pos, Ahead(c, at) <= j,
                 \A p \in Producers : Writing(p)' => Ahead(c, at) + written'[p] <= j
          PROVE  mem[Plus(exeIndex, j)] = Zero
      <3>1. \A p \in Producers : Writing(p) => Ahead(c, at) + written[p] <= j
        BY <2>1
      <3> QED BY <2>1, <3>1 DEF Fifo, Layout, FreeInv
    <2> QED BY <1>1, <2>1 DEF FreeInv, Plus
  <1> QED BY <1>2, <1>3, <1>4, <1>5, <1>6 DEF Layout

-----------------------------------------------------------------------------
(* The steps of put                                                        *)

\* The steps of put that write no shared memory but the lock.
QuietStep(p) == \/ \E n \in FrameSizes : PutCall(p, n)
                \/ PutAboveCapacity(p) \/ PutBelowCapacity(p) \/ PutCompare(p)
                \/ PutTooLarge(p) \/ PutFits(p) \/ AcquireWriteLock(p) \/ WriteLockTimeout(p)

\* Every step of put that writes no shared memory keeps the invariant.
LEMMA QuietSteps ==
    ASSUME NEW c, Setting(c), NEW at, Fifo(c, at), NEW p \in Producers, QuietStep(p)
    PROVE  Room' /\ Ledger(c)' /\ Layout(c, at)'
  <1> USE DEF IInv, TypeOK
  <1>0. IInv /\ Room /\ NumberInv
    BY DEF Fifo, Ledger
  <1>1. ASSUME LeavePut(p), ~Writing(p), pcP[p] # "idle",
               UNCHANGED <<ringVars, puts, pcC, header, body, history>>
        PROVE  Room' /\ Ledger(c)' /\ Layout(c, at)'
    <2>1. \A q \in Producers : /\ pcP'[q] = IF q = p THEN "idle" ELSE pcP[q]
                               /\ q # p => frame'[q] = frame[q] /\ written'[q] = written[q]
      BY <1>0, <1>1 DEF LeavePut, PutTypeOK
    <2>2. /\ Passed' \subseteq Passed /\ Stale' \subseteq Stale
      BY <1>0, <1>1 DEF LeavePut, PutTypeOK, Passed, Stale
    <2>3. Room'
      BY <1>0, <1>1, <2>2, RoomShrinks DEF ringVars
    <2>4. CountInv(c)' /\ ReaderInv(c)' /\ Layout(c, at)'
      BY <1>1, <2>1, QuietKeepsLayout DEF Writing
    <2>5. NumberInv'
      BY <1>0, <1>1, <2>1 DEF NumberInv, Frames, history
    <2> QED BY <2>3, <2>4, <2>5 DEF Ledger
  <1>2. ASSUME NEW to, ~Writing(p), to \notin {"idle", "count", "write"}, pcP[p] # "idle",
               pcP' = [pcP EXCEPT ![p] = to],
               UNCHANGED <<ringVars, frame, written, puts, pcC, header, body, history>>
        PROVE  Ledger(c)' /\ Layout(c, at)'
    <2>1. \A q \in Producers : pcP'[q] = IF q = p THEN to ELSE pcP[q]
      BY <1>0, <1>2 DEF PutTypeOK
    <2>4. CountInv(c)' /\ ReaderInv(c)' /\ Layout(c, at)'
      BY <1>2, <2>1, QuietKeepsLayout DEF Writing
    <2>5. NumberInv'
      BY <1>0, <1>2, <2>1 DEF NumberInv, Frames, history
    <2> QED BY <2>4, <2>5 DEF Ledger
  <1>3. ASSUME NEW n \in FrameSizes, PutCall(p, n)
        PROVE  Room' /\ Ledger(c)' /\ Layout(c, at)'
    <2>1. /\ \A q \in Producers : /\ pcP'[q] = IF q = p THEN "capacity" ELSE pcP[q]
                                  /\ q # p => frame'[q] = frame[q]
          /\ frame'[p].from = p /\ frame'[p].num = puts[p] + 1
          /\ pcP[p] = "idle" /\ ~Writing(p)
          /\ behind' = [behind EXCEPT ![p] = allocIndex < exeIndex]
          /\ UNCHANGED <<ringVars, written, puts, pcC, header, body, history>>
      BY <1>0, <1>3 DEF PutCall, GotoP, PutTypeOK, Writing, getVars
    <2>2. /\ Passed' \subseteq Passed
          /\ allocIndex < exeIndex => Stale' \subseteq Stale
      BY <1>0, <2>1 DEF PutTypeOK, Passed, Stale
    <2>3. Room'
      BY <1>0, <2>1, <2>2, RoomShrinks DEF ringVars
    <2>4. CountInv(c)' /\ ReaderInv(c)' /\ Layout(c, at)'
      BY <2>1, QuietKeepsLayout DEF Writing
    <2>5. NumberInv'
      BY <1>0, <2>1 DEF NumberInv, Frames, history
    <2> QED BY <2>3, <2>4, <2>5 DEF Ledger
  <1>4. CASE PutAboveCapacity(p) \/ PutTooLarge(p) \/ WriteLockTimeout(p)
    BY <1>1, <1>4 DEF PutAboveCapacity, PutTooLarge, WriteLockTimeout, Writing, getVars
  <1>5. CASE PutBelowCapacity(p)
    <2>1. Room'
      BY <1>0, <1>5, RoomTaken
    <2>2. Ledger(c)' /\ Layout(c, at)'
      BY <1>2, <1>5 DEF PutBelowCapacity, GotoP, Writing, getVars
    <2> QED BY <2>1, <2>2
  <1>6. CASE PutCompare(p) \/ PutFits(p)
    <2>1. Passed' = Passed /\ Stale' = Stale /\ UNCHANGED <<allocIndex, exeIndex>>
      BY <1>0, <1>6 DEF PutCompare, PutFits, GotoP, PutTypeOK, Passed, Stale, ringVars
    <2>2. Room'
      BY <1>0, <2>1, RoomShrinks
    <2>3. Ledger(c)' /\ Layout(c, at)'
      BY <1>2, <1>6 DEF PutCompare, PutFits, GotoP, Writing, getVars
    <2> QED BY <2>2, <2>3
  <1>7. CASE AcquireWriteLock(p)
    <2>1. /\ \A q \in Producers : pcP'[q] = IF q = p THEN "write" ELSE pcP[q]
          /\ pcP[p] = "lock" /\ ~Writing(p) /\ written[p] = 0
          /\ UNCHANGED <<ringVars, frame, behind, written, puts, pcC, header, body, history>>
      BY <1>0, <1>7 DEF AcquireWriteLock, GotoP, PutTypeOK, PutInv, Writing, getVars
    <2>2. Passed' = Passed /\ Stale' = Stale
      BY <2>1 DEF Passed, Stale
    <2>3. Room'
      BY <1>0, <2>1, <2>2, RoomShrinks DEF ringVars
    <2>4. CountInv(c)' /\ ReaderInv(c)' /\ Layout(c, at)'
      BY <2>1, QuietKeepsLayout DEF Writing
    <2>5. NumberInv'
      BY <1>0, <2>1 DEF NumberInv, Frames, history
    <2> QED BY <2>3, <2>4, <2>5 DEF Ledger
  <1> QED BY <1>3, <1>4, <1>5, <1>6, <1>7 DEF QuietStep

\* put writes into a free cell, and the next cell of its frame follows the last.
LEMMA WriteCellStep ==
    ASSUME NEW c, Setting(c), NEW at, Fifo(c, at), NEW p \in Producers, WriteCell(p)
    PROVE  /\ Room' /\ Ledger(c)' /\ Layout(c, at)'
           /\ mem[Plus(allocIndex, written[p])] = Zero
  <1>0. IInv /\ Room /\ Ledger(c) /\ Layout(c, at)
    BY DEF Fifo
  <1>1. /\ pcP[p] = "write" /\ Writing(p) /\ written[p] < frame[p].size
        /\ UNCHANGED <<allocIndex, exeIndex, allocCounter, exeCounter, wLock, rLock,
                       pcP, frame, behind, puts, pcC, header, body, crashes, accepted, delivered, broken>>
        /\ mem' = [mem EXCEPT ![Plus(allocIndex, written[p])] = <<frame[p], written[p]>>]
        /\ written'[p] = written[p] + 1
        /\ \A q \in Producers \ {p} : written'[q] = written[q]
    BY <1>0 DEF WriteCell, Writing, getVars, history, IInv, TypeOK, PutTypeOK
  <1>2. /\ Frames' = Frames /\ Gone' = Gone /\ First(c)' = First(c) /\ Kept(c)' = Kept(c)
        /\ Ahead(c, at)' = Ahead(c, at) /\ Occupied' = Occupied
        /\ \A q : Writing(q)' = Writing(q)
    BY <1>1 DEF Frames, Gone, First, Kept, Ahead, Occupied, Writing
  <1>3. Passed' = Passed /\ Stale' = Stale
    BY <1>1 DEF Passed, Stale
  <1>4. Room'
    BY <1>0, <1>1, <1>3, RoomShrinks
  <1>5. Ledger(c)'
    BY <1>0, <1>1, <1>2 DEF Ledger, CountInv, NumberInv, ReaderInv, CrcMatches
  <1>6. SizesInv(at)' /\ TailInv(c, at)'
    <2>1. SizesInv(at)'
      BY <1>0, <1>1, <1>2 DEF Layout, SizesInv
    <2>2. \A q \in Producers : pcP[q] = "count" => q = p
      BY LayoutFacts, <1>1 DEF Writing
    <2>3. \A q \in Producers : pcP[q] # "count"
      BY <2>2, <1>1
    <2> QED BY <2>1, <2>3, <1>0, <1>1, <1>2 DEF Layout, TailInv
  <1>7. /\ exeIndex \in Pos /\ mem \in [Pos -> Cell]
        /\ allocIndex = Plus(exeIndex, Occupied) /\ Occupied = Ahead(c, at)
        /\ Occupied \in Nat /\ Occupied \in Pos /\ written[p] \in Nat
        /\ frame[p].size \in Nat /\ DataSize \in Nat
        /\ Occupied + frame[p].size < DataSize
        /\ \A q \in Producers : Writing(q) => q = p
    <2>0. RingTypeOK
      BY <1>0 DEF IInv, TypeOK
    <2>1. allocIndex = Plus(exeIndex, Occupied) /\ Occupied \in Nat /\ Occupied \in Pos
      BY <2>0, OccupiedFacts
    <2>2. exeIndex \in Pos /\ mem \in [Pos -> Cell]
      BY <2>0 DEF RingTypeOK
    <2>3. /\ frame[p].size \in 3..DataSize /\ written[p] \in 0..frame[p].size
          /\ \A q \in Producers : Writing(q) => q = p
          /\ Ahead(c, at) + frame[p].size < DataSize /\ Ahead(c, at) = Occupied
          /\ DataSize \in Nat
      BY <1>1, LayoutFacts
    <2>4. frame[p].size \in Nat /\ written[p] \in Nat
      BY <2>3
    <2> QED BY <2>1, <2>2, <2>3, <2>4
  <1> DEFINE o == Ahead(c, at) + written[p]
  <1>8. o \in Pos /\ Plus(allocIndex, written[p]) = Plus(exeIndex, o) /\ Plus(exeIndex, o) \in Pos
    <2>1. o \in Pos
      BY <1>1, <1>7 DEF Pos
    <2>2. Plus(Plus(exeIndex, Occupied), written[p]) = Plus(exeIndex, Occupied + written[p])
      <3>1. Occupied + written[p] <= DataSize
        BY <1>1, <1>7
      <3> QED BY <3>1, <1>7, PlusPlus
    <2>3. \A a \in Pos : Plus(exeIndex, a) \in Pos
      <3>1. \A a \in Pos : a \in 0..DataSize
        BY <1>7 DEF Pos
      <3> QED BY <3>1, <1>7, PlusIn
    <2>4. Plus(allocIndex, written[p]) = Plus(exeIndex, o)
      BY <1>7, <2>2
    <2> QED BY <2>1, <2>3, <2>4
  <1>9. /\ mem'[Plus(exeIndex, o)] = <<frame[p], written[p]>>
        /\ \A a \in Pos : a # o => mem'[Plus(exeIndex, a)] = mem[Plus(exeIndex, a)]
    <2>1. mem' = [mem EXCEPT ![Plus(exeIndex, o)] = <<frame[p], written[p]>>]
      BY <1>1, <1>8
    <2>2. \A a \in Pos : Plus(exeIndex, a) \in Pos /\ (Plus(exeIndex, a) = Plus(exeIndex, o) => a = o)
      <3>1. \A a \in Pos : a \in 0..DataSize
        BY <1>7 DEF Pos
      <3> QED BY <3>1, <1>7, <1>8, PlusIn, PlusOneToOne
    <2> HIDE DEF o
    <2> QED BY <1>7, <1>8, <2>1, <2>2
  <1>10. mem[Plus(allocIndex, written[p])] = Zero
    <2>1. \A q \in Producers : Writing(q) => Ahead(c, at) + written[q] <= o
      BY <1>7, <1>8 DEF Pos
    <2>2. Ahead(c, at) <= o
      BY <1>7
    <2> QED BY <1>0, <1>8, <2>1, <2>2 DEF Layout, FreeInv
  <1> HIDE DEF o
  <1>11. QueuedInv(c, at)'
    <2>1. ASSUME NEW k \in Kept(c)..Frames, NEW j \in 0..(accepted[k].size - 1)
          PROVE  mem'[Plus(exeIndex, at[k] - at[First(c)] + j)] = <<accepted[k], j>>
      <3>1. /\ k \in First(c)..Frames /\ k \in 1..Frames
            /\ at[k] - at[First(c)] \in Nat
            /\ at[k] - at[First(c)] + accepted[k].size <= Ahead(c, at)
            /\ accepted[k].size \in Nat
        <4>1. k \in First(c)..Frames /\ k \in 1..Frames
          BY LayoutFacts
        <4> QED BY <4>1, LayoutFacts
      <3>2. at[k] - at[First(c)] + j \in Pos /\ at[k] - at[First(c)] + j < o
        <4>1. /\ at[k] - at[First(c)] + j \in Nat
              /\ at[k] - at[First(c)] + j < Ahead(c, at)
          BY <3>1, <1>7
        <4>2. Ahead(c, at) + written[p] < DataSize
          BY <1>1, <1>7
        <4> QED BY <4>1, <4>2, <1>7 DEF Pos, o
      <3>3. mem[Plus(exeIndex, at[k] - at[First(c)] + j)] = <<accepted[k], j>>
        BY <1>0 DEF Layout, QueuedInv
      <3> QED BY <3>2, <3>3, <1>8, <1>9 DEF Pos
    <2>2. /\ Kept(c)' = Kept(c) /\ Frames' = Frames /\ First(c)' = First(c)
          /\ exeIndex' = exeIndex /\ accepted' = accepted
      BY <1>1, <1>2
    <2> QED BY <2>1, <2>2 DEF QueuedInv, Plus
  <1>12. WrittenInv(c, at)'
    <2>1. ASSUME NEW j \in 0..(written'[p] - 1)
          PROVE  mem'[Plus(exeIndex, Ahead(c, at) + j)] = <<frame[p], j>>
      <3>1. CASE j = written[p]
        BY <3>1, <1>9 DEF o
      <3>2. CASE j # written[p]
        <4>1. j \in 0..(written[p] - 1)
          BY <3>2, <1>1, <1>7
        <4>2. mem[Plus(exeIndex, Ahead(c, at) + j)] = <<frame[p], j>>
          BY <1>0, <1>1, <4>1 DEF Layout, WrittenInv
        <4>3. Ahead(c, at) + j \in Pos /\ Ahead(c, at) + j # o
          <5>1. j \in Nat /\ j < written[p]
            BY <4>1, <1>7
          <5>2. Ahead(c, at) + j \in 0..(DataSize - 1)
            BY <5>1, <1>1, <1>7
          <5> QED BY <5>1, <5>2, <1>7 DEF Pos, o
        <4> QED BY <4>2, <4>3, <1>9
      <3> QED BY <3>1, <3>2
    <2>2. \A q \in Producers : Writing(q)' => q = p
      BY <1>2, <1>7
    <2> QED BY <2>1, <2>2, <1>1, <1>2 DEF WrittenInv, Plus
  <1>13. FreeInv(c, at)'
    <2>1. ASSUME NEW j \in Pos, Ahead(c, at) <= j, Ahead(c, at) + written'[p] <= j
          PROVE  mem'[Plus(exeIndex, j)] = Zero
      <3>1. Ahead(c, at) + written[p] <= j /\ j # o
        BY <2>1, <1>1, <1>7 DEF o, Pos
      <3>2. \A q \in Producers : Writing(q) => Ahead(c, at) + written[q] <= j
        BY <3>1, <1>7
      <3>3. mem[Plus(exeIndex, j)] = Zero
        BY <2>1, <3>2, <1>0 DEF Layout, FreeInv
      <3> QED BY <3>1, <3>3, <1>9
    <2> QED BY <2>1, <1>1, <1>2 DEF FreeInv, Plus
  <1>14. ClearedInv(c)'
    <2>1. ASSUME pcC[c] = "advance", NEW j \in 0..(header[c].size - 1)
          PROVE  mem'[Plus(exeIndex, j)] = Zero
      <3>1. header[c].size <= Ahead(c, at) /\ header[c].size \in Nat
        <4>1. Gone + 1 \in 1..Frames /\ header[c].size = accepted[Gone + 1].size
              /\ accepted[Gone + 1].size <= Ahead(c, at)
          BY <2>1, LayoutFacts
        <4> QED BY <4>1, LayoutFacts
      <3>2. j \in Pos /\ j # o
        BY <3>1, <1>7 DEF o, Pos
      <3>3. mem[Plus(exeIndex, j)] = Zero
        BY <2>1, <1>0 DEF Layout, ClearedInv
      <3> QED BY <3>2, <3>3, <1>9
    <2> QED BY <2>1, <1>1 DEF ClearedInv, Plus
  <1> QED BY <1>4, <1>5, <1>6, <1>10, <1>11, <1>12, <1>13, <1>14 DEF Layout

\* alloc_index moves over the frame that was written.
LEMMA AdvanceAllocStep ==
    ASSUME NEW c, Setting(c), NEW at, Fifo(c, at), NEW p \in Producers, AdvanceAllocIndex(p)
    PROVE  Room' /\ Ledger(c)' /\ Layout(c, at)'
  <1>0. IInv /\ Room /\ Ledger(c) /\ Layout(c, at)
    BY DEF Fifo
  <1>1. /\ pcP[p] = "write" /\ Writing(p) /\ written[p] = frame[p].size
        /\ UNCHANGED <<mem, exeIndex, allocCounter, exeCounter, wLock, rLock, frame,
                       behind, written, puts, pcC, header, body, crashes, accepted, delivered, broken>>
        /\ \A q \in Producers : pcP'[q] = IF q = p THEN "count" ELSE pcP[q]
    BY <1>0 DEF AdvanceAllocIndex, GotoP, Writing, getVars, history, IInv, TypeOK, PutTypeOK
  <1>2. /\ Frames' = Frames /\ Gone' = Gone /\ First(c)' = First(c) /\ Kept(c)' = Kept(c)
        /\ Ahead(c, at)' = Ahead(c, at)
        /\ \A q \in Producers : Writing(q)' = Writing(q)
    BY <1>1 DEF Frames, Gone, First, Kept, Ahead, Writing
  <1>3. Room' /\ Occupied' = Occupied + frame[p].size
    BY <1>0, AllocAdvances
  <1>4. Ledger(c)'
    BY <1>0, <1>1, <1>2 DEF Ledger, CountInv, NumberInv, ReaderInv, CrcMatches
  <1>5. TailInv(c, at)'
    <2>1. Ahead(c, at) = Occupied /\ \A q \in Producers : Writing(q) => q = p
      BY <1>1, LayoutFacts
    <2>2. \A q \in Producers : pcP'[q] = "count" => q = p
      BY <2>1, <1>1 DEF Writing
    <2> QED BY <2>1, <2>2, <1>1, <1>2, <1>3 DEF TailInv
  <1>6. SizesInv(at)' /\ QueuedInv(c, at)' /\ ClearedInv(c)'
    <2>0. SizesInv(at) /\ QueuedInv(c, at) /\ ClearedInv(c)
      BY <1>0 DEF Layout
    <2>1. SizesInv(at)'
      BY <2>0, <1>1, <1>2 DEF SizesInv
    <2>2. QueuedInv(c, at)'
      BY <2>0, <1>1, <1>2 DEF QueuedInv, Plus
    <2>3. ClearedInv(c)'
      BY <2>0, <1>1, <1>2 DEF ClearedInv, Plus
    <2> QED BY <2>1, <2>2, <2>3
  <1>7. WrittenInv(c, at)' /\ FreeInv(c, at)'
    <2>0. WrittenInv(c, at) /\ FreeInv(c, at)
      BY <1>0 DEF Layout
    <2>1. WrittenInv(c, at)'
      BY <2>0, <1>1, <1>2 DEF WrittenInv, Plus
    <2>2. FreeInv(c, at)'
      BY <2>0, <1>1, <1>2 DEF FreeInv, Plus
    <2> QED BY <2>1, <2>2
  <1> QED BY <1>3, <1>4, <1>5, <1>6, <1>7 DEF Layout

\* The frame that is counted becomes the newest in the ring.
LEMMA PutDoneStep ==
    ASSUME NEW c, Setting(c), NEW at, Fifo(c, at), NEW p \in Producers, PutDone(p)
    PROVE  Room' /\ Ledger(c)' /\ LaidOut(c)'
  <1>0. IInv /\ Room /\ Ledger(c) /\ Layout(c, at)
    BY DEF Fifo
  <1>1. /\ pcP[p] = "count" /\ Writing(p)
        /\ UNCHANGED <<mem, allocIndex, exeIndex, exeCounter, rLock, pcC, header, body,
                       delivered, broken>>
        /\ allocCounter' = allocCounter + 1 /\ accepted' = Append(accepted, frame[p])
        /\ puts'[p] = puts[p] + 1
        /\ \A q \in Producers : /\ pcP'[q] = IF q = p THEN "idle" ELSE pcP[q]
                                /\ q # p => /\ frame'[q] = frame[q] /\ written'[q] = written[q]
                                            /\ puts'[q] = puts[q] /\ behind'[q] = behind[q]
    BY <1>0 DEF PutDone, LeavePut, Writing, getVars, IInv, TypeOK, PutTypeOK
  <1>2. /\ Frames \in Nat /\ Gone \in Nat /\ Gone <= Frames /\ First(c) \in 1..(Frames + 1)
        /\ Kept(c) \in Nat /\ First(c) <= Kept(c)
        /\ \A k \in 1..Frames : accepted[k] \in Frame /\ accepted[k].size \in 3..DataSize
        /\ \A k \in 1..(Frames + 1) : at[k] \in Nat
        /\ \A q \in Producers : Writing(q) => q = p
        /\ Occupied = Ahead(c, at) + frame[p].size /\ frame[p] \in Frame
        /\ frame[p].size \in Nat /\ DataSize \in Nat
        /\ written[p] = frame[p].size
    <2>1. frame[p].size \in 3..DataSize
      BY <1>1, LayoutFacts
    <2>2. frame[p].size \in Nat
      BY <2>1
    <2>3. written[p] = frame[p].size
      BY <1>0, <1>1 DEF Layout, TailInv
    <2> QED BY <1>1, <2>2, <2>3, LayoutFacts
  <1>3. /\ Frames' = Frames + 1 /\ accepted'[Frames + 1] = frame[p]
        /\ \A k \in 1..Frames : accepted'[k] = accepted[k]
    BY <1>0, <1>1, <1>2 DEF Frames, IInv, TypeOK, HistoryTypeOK
  <1>4. Gone' = Gone /\ First(c)' = First(c) /\ Kept(c)' = Kept(c) /\ Occupied' = Occupied
    BY <1>1 DEF Gone, First, Kept, Occupied
  <1>5. PICK b : b = [k \in 1..(Frames + 2) |->
                        IF k = Frames + 2 THEN at[Frames + 1] + frame[p].size ELSE at[k]]
    OBVIOUS
  <1>6. /\ \A k \in 1..(Frames + 1) : b[k] = at[k]
        /\ b[Frames + 2] = at[Frames + 1] + frame[p].size
        /\ b \in [1..(Frames + 2) -> Nat]
    <2>1. \A k \in 1..(Frames + 1) : k \in 1..(Frames + 2) /\ k # Frames + 2
      BY <1>2
    <2>2. Frames + 2 \in 1..(Frames + 2) /\ Frames + 1 \in 1..(Frames + 1)
      BY <1>2
    <2>3. at[Frames + 1] + frame[p].size \in Nat
      BY <1>2, <2>2
    <2>4. \A k \in 1..(Frames + 2) : k # Frames + 2 => k \in 1..(Frames + 1)
      BY <1>2
    <2>5. \A k \in 1..(Frames + 2) :
             (IF k = Frames + 2 THEN at[Frames + 1] + frame[p].size ELSE at[k]) \in Nat
      BY <1>2, <2>3, <2>4
    <2>6. b \in [1..(Frames + 2) -> Nat]
      BY <1>5, <2>5
    <2> QED BY <1>5, <2>1, <2>2, <2>6
  <1>7. Room'
    <2>1. Passed' \subseteq Passed /\ Stale' \subseteq Stale
      BY <1>1 DEF Passed, Stale
    <2> QED BY <2>1, <1>0, <1>1, RoomShrinks
  <1>8. CountInv(c)' /\ ReaderInv(c)'
    <2>1. CountInv(c)'
      <3>1. CountInv(c)
        BY <1>0 DEF Ledger
      <3>2. \A k \in 1..Gone : delivered[k] = accepted'[k]
        <4>1. \A k \in 1..Gone : k \in 1..Frames
          BY <1>2
        <4> QED BY <3>1, <4>1, <1>3 DEF CountInv
      <3>3. allocCounter' = Frames' /\ exeCounter' = Gone' /\ Gone' <= Frames'
        BY <3>1, <1>1, <1>2, <1>3, <1>4 DEF CountInv
      <3>4. pcC'[c] # "idle" => Gone' < Frames'
        BY <3>1, <1>1, <1>2, <1>3, <1>4 DEF CountInv
      <3> QED BY <3>1, <3>2, <3>3, <3>4, <1>1, <1>4 DEF CountInv
    <2>2. pcC[c] # "idle" => Gone + 1 \in 1..Frames
      BY <1>0, <1>2 DEF Ledger, CountInv
    <2>3. ReaderInv(c)'
      BY <1>0, <1>1, <1>3, <1>4, <2>2 DEF Ledger, ReaderInv, CrcMatches
    <2> QED BY <2>1, <2>3
  <1>9. NumberInv'
    <2>0. NumberInv /\ frame[p].from = p /\ frame[p].num = puts[p] + 1
      BY <1>0, <1>1 DEF Ledger, NumberInv
    <2>1. puts \in [Producers -> 0..MaxPuts] /\ puts[p] \in Nat /\ MaxPuts \in Nat
      BY <1>0, SizesAssumption DEF IInv, TypeOK, PutTypeOK
    <2>2. ASSUME NEW k \in 1..Frames
          PROVE  /\ accepted[k].from \in Producers /\ accepted[k].num \in Nat
                 /\ accepted[k].num <= puts[accepted[k].from]
                 /\ accepted[k] # frame[p]
                 /\ accepted[k].num <= puts'[accepted[k].from]
      <3>1. accepted[k].from \in Producers /\ accepted[k].num \in 1..MaxPuts
        BY <1>2 DEF Frame
      <3>2. accepted[k].num \in Nat
        BY <3>1
      <3>3. accepted[k].num <= puts[accepted[k].from]
        BY <2>0 DEF NumberInv
      <3>4. accepted[k] # frame[p]
        BY <2>0, <2>1, <3>2, <3>3
      <3> QED BY <3>1, <3>2, <3>3, <3>4, <2>1, <1>1
    <2>3. ASSUME NEW k \in 1..(Frames + 1) PROVE accepted'[k].num <= puts'[accepted'[k].from]
      <3>1. CASE k = Frames + 1
        BY <3>1, <1>1, <1>3, <2>0, <2>1
      <3>2. CASE k \in 1..Frames
        BY <3>2, <1>3, <2>2
      <3> QED BY <3>1, <3>2, <1>2
    <2>4. ASSUME NEW k \in 1..(Frames + 1), NEW l \in 1..(Frames + 1), k < l
          PROVE  accepted'[k] # accepted'[l]
      <3>1. CASE l = Frames + 1
        <4>1. k \in 1..Frames
          BY <3>1, <2>4, <1>2
        <4> QED BY <4>1, <3>1, <1>3, <2>2
      <3>2. CASE l \in 1..Frames
        <4>1. k \in 1..Frames
          BY <3>2, <2>4, <1>2
        <4> QED BY <4>1, <3>2, <2>4, <1>3, <2>0 DEF NumberInv
      <3> QED BY <3>1, <3>2, <1>2
    <2>5. ASSUME NEW q \in Producers, pcP'[q] # "idle"
          PROVE  frame'[q].from = q /\ frame'[q].num = puts'[q] + 1
      BY <2>5, <1>1, <2>0 DEF NumberInv
    <2> QED BY <2>3, <2>4, <2>5, <1>3 DEF NumberInv
  <1>10. /\ Ahead(c, b)' = Ahead(c, at) + frame[p].size
         /\ b[First(c)] = at[First(c)] /\ Ahead(c, at) = at[Frames + 1] - at[First(c)]
    <2>1. b[Frames' + 1] = at[Frames + 1] + frame[p].size
      BY <1>2, <1>3, <1>6
    <2>2. b[First(c)] = at[First(c)] /\ at[First(c)] \in Nat /\ at[Frames + 1] \in Nat
      BY <1>2, <1>6
    <2> QED BY <1>2, <1>4, <2>1, <2>2 DEF Ahead
  <1>11. SizesInv(b)'
    <2>0. /\ \A k \in 1..Frames : at[k + 1] = at[k] + accepted[k].size
          /\ \A k, l \in 1..(Frames + 1) : k < l => at[k] + accepted[k].size <= at[l]
      BY <1>0 DEF Layout, SizesInv
    <2>1. ASSUME NEW k \in 1..(Frames + 1) PROVE b[k + 1] = b[k] + accepted'[k].size
      <3>1. CASE k = Frames + 1
        BY <3>1, <1>2, <1>3, <1>6
      <3>2. CASE k \in 1..Frames
        <4>1. k + 1 \in 1..(Frames + 1) /\ k \in 1..(Frames + 1)
          BY <3>2, <1>2
        <4> QED BY <3>2, <4>1, <2>0, <1>3, <1>6
      <3> QED BY <3>1, <3>2, <1>2
    <2>2. ASSUME NEW k \in 1..(Frames + 2), NEW l \in 1..(Frames + 2), k < l
          PROVE  b[k] + accepted'[k].size <= b[l]
      <3>1. CASE k = Frames + 1
        <4>1. l = Frames + 2 /\ k \in 1..(Frames + 1)
          BY <3>1, <2>2, <1>2
        <4>2. b[l] = b[k] + frame[p].size /\ b[k] \in Nat
          BY <3>1, <4>1, <1>2, <1>6
        <4> QED BY <3>1, <4>2, <1>2, <1>3
      <3>2. CASE k \in 1..Frames
        <4>0. k \in 1..(Frames + 1) /\ Frames + 1 \in 1..(Frames + 1)
          BY <3>2, <1>2
        <4>1. /\ b[k] = at[k] /\ accepted'[k] = accepted[k] /\ at[k] \in Nat
              /\ accepted[k].size \in Nat /\ at[Frames + 1] \in Nat
          <5>1. b[k] = at[k] /\ accepted'[k] = accepted[k]
            BY <3>2, <4>0, <1>3, <1>6
          <5>2. at[k] \in Nat /\ at[Frames + 1] \in Nat
            BY <4>0, <1>2
          <5>3. accepted[k].size \in Nat
            BY <3>2, <1>2
          <5> QED BY <5>1, <5>2, <5>3
        <4>2. CASE l = Frames + 2
          <5>1. at[k] + accepted[k].size <= at[Frames + 1]
            BY <3>2, <4>0, <2>0, <1>2
          <5>2. b[l] = at[Frames + 1] + frame[p].size
            BY <4>2, <1>6
          <5>3. at[k] + accepted[k].size <= at[Frames + 1] + frame[p].size
            BY <5>1, <4>1, <1>2
          <5> QED BY <4>1, <5>2, <5>3
        <4>3. CASE l \in 1..(Frames + 1)
          BY <4>0, <4>1, <4>3, <2>0, <2>2, <1>6
        <4> QED BY <4>2, <4>3, <1>2
      <3> QED BY <3>1, <3>2, <2>2, <1>2
    <2> QED BY <1>2, <1>3, <1>6, <2>1, <2>2 DEF SizesInv
  <1>12. TailInv(c, b)'
    <2>1. \A q \in Producers : pcP'[q] # "count"
      BY <1>1, <1>2 DEF Writing
    <2> QED BY <2>1, <1>2, <1>4, <1>10 DEF TailInv
  <1>13. QueuedInv(c, b)'
    <2>1. ASSUME NEW k \in Kept(c)..(Frames + 1), NEW j \in 0..(accepted'[k].size - 1)
          PROVE  mem[Plus(exeIndex, b[k] - b[First(c)] + j)] = <<accepted'[k], j>>
      <3>1. CASE k = Frames + 1
        <4>1. /\ accepted'[k] = frame[p] /\ b[k] = at[Frames + 1]
              /\ j \in 0..(written[p] - 1)
          BY <3>1, <1>2, <1>3, <1>6
        <4>2. b[k] - b[First(c)] + j = Ahead(c, at) + j
          BY <4>1, <1>10
        <4> QED BY <4>1, <4>2, <1>0, <1>1 DEF Layout, WrittenInv
      <3>2. CASE k \in Kept(c)..Frames
        <4>1. k \in 1..Frames /\ k \in 1..(Frames + 1)
          BY <3>2, <1>2
        <4>2. accepted'[k] = accepted[k] /\ b[k] = at[k]
          BY <4>1, <1>3, <1>6
        <4> QED BY <3>2, <4>2, <1>0, <1>10 DEF Layout, QueuedInv
      <3> QED BY <3>1, <3>2, <1>2
    <2>2. \A k \in Kept(c)'..Frames' : \A j \in 0..(accepted'[k].size - 1) :
             mem'[Plus(exeIndex', b[k] - b[First(c)'] + j)] = <<accepted'[k], j>>
      <3>1. Kept(c)'..Frames' = Kept(c)..(Frames + 1)
        BY <1>3, <1>4
      <3>2. mem' = mem /\ exeIndex' = exeIndex /\ First(c)' = First(c)
        BY <1>1, <1>4
      <3> QED BY <2>1, <3>1, <3>2, Zenon
    <2> QED BY <2>2 DEF QueuedInv, Plus
  <1>14. WrittenInv(c, b)'
    <2>1. \A q \in Producers : ~Writing(q)'
      BY <1>1, <1>2 DEF Writing
    <2> QED BY <2>1 DEF WrittenInv
  <1>15. FreeInv(c, b)'
    <2>1. ASSUME NEW j \in Pos, Ahead(c, at) + frame[p].size <= j
          PROVE  mem[Plus(exeIndex, j)] = Zero
      <3>1. Ahead(c, at) \in Nat
        BY LayoutFacts
      <3>2. Ahead(c, at) <= j /\ \A q \in Producers : Writing(q) => Ahead(c, at) + written[q] <= j
        BY <2>1, <3>1, <1>2 DEF Pos
      <3> QED BY <3>2, <1>0 DEF Layout, FreeInv
    <2> QED BY <2>1, <1>1, <1>10 DEF FreeInv, Plus
  <1>16. ClearedInv(c)'
    BY <1>0, <1>1 DEF Layout, ClearedInv, Plus
  <1>17. LaidOut(c)'
    BY <1>3, <1>6, <1>11, <1>12, <1>13, <1>14, <1>15, <1>16 DEF LaidOut, Layout, SizesInv
  <1> QED BY <1>7, <1>8, <1>9, <1>17 DEF Ledger

-----------------------------------------------------------------------------
(* The steps of get                                                        *)

\* The oldest frame that is not delivered lies whole at exe_index until get clears it.
LEMMA OldestAtIndex ==
    ASSUME NEW c, Setting(c), NEW at, Fifo(c, at),
           pcC[c] \notin {"advance", "check"}, Gone < Frames
    PROVE  /\ Gone + 1 \in 1..Frames
           /\ accepted[Gone + 1] \in Frame /\ accepted[Gone + 1].size \in 3..DataSize
           /\ \A j \in 0..(accepted[Gone + 1].size - 1) :
                 mem[Plus(exeIndex, j)] = <<accepted[Gone + 1], j>>
  <1>1. First(c) = Gone + 1 /\ Kept(c) = Gone + 1
    BY DEF First, Kept
  <1>2. Gone < Frames /\ Gone \in Nat /\ Frames \in Nat
    BY LayoutFacts
  <1>3. Gone + 1 \in 1..Frames /\ Gone + 1 \in Kept(c)..Frames /\ First(c) \in 1..(Frames + 1)
    BY <1>1, <1>2
  <1>4. accepted[Gone + 1] \in Frame /\ accepted[Gone + 1].size \in 3..DataSize
    BY <1>3, LayoutFacts
  <1>5. at[Gone + 1] \in Nat
    BY <1>1, <1>3, LayoutFacts
  <1>6. \A j \in 0..(accepted[Gone + 1].size - 1) :
           mem[Plus(exeIndex, at[Gone + 1] - at[First(c)] + j)] = <<accepted[Gone + 1], j>>
    BY <1>3 DEF Fifo, Layout, QueuedInv
  <1>7. ASSUME NEW j \in 0..(accepted[Gone + 1].size - 1)
        PROVE  mem[Plus(exeIndex, j)] = <<accepted[Gone + 1], j>>
    <2>1. at[Gone + 1] - at[First(c)] + j = j
      BY <1>1, <1>4, <1>5
    <2> QED BY <1>6, <2>1
  <1> QED BY <1>3, <1>4, <1>7

LEMMA HeadFrame ==
    ASSUME NEW c, Setting(c), NEW at, Fifo(c, at),
           pcC[c] \in {"header", "data", "clear"}
    PROVE  /\ Gone + 1 \in 1..Frames
           /\ accepted[Gone + 1] \in Frame /\ accepted[Gone + 1].size \in 3..DataSize
           /\ \A j \in 0..(accepted[Gone + 1].size - 1) :
                 mem[Plus(exeIndex, j)] = <<accepted[Gone + 1], j>>
  <1>1. Gone < Frames
    BY DEF Fifo, Ledger, CountInv
  <1> QED BY <1>1, OldestAtIndex

\* get reads without changing the ring.
LEMMA QuietReader ==
    ASSUME NEW c, Setting(c), NEW at, Fifo(c, at),
           UNCHANGED <<ringVars, putVars, history>>,
           pcC[c] \notin {"advance", "check"}, pcC'[c] \notin {"advance", "check"},
           pcC'[c] # "idle" => Gone < Frames,
           ReaderInv(c)'
    PROVE  Room' /\ Ledger(c)' /\ Layout(c, at)'
  <1>1. /\ First(c)' = First(c) /\ Kept(c)' = Kept(c) /\ Frames' = Frames /\ Gone' = Gone
        /\ Ahead(c, at)' = Ahead(c, at) /\ Occupied' = Occupied
        /\ accepted' = accepted /\ delivered' = delivered /\ broken' = broken
        /\ mem' = mem /\ exeIndex' = exeIndex
        /\ allocIndex' = allocIndex /\ allocCounter' = allocCounter /\ exeCounter' = exeCounter
        /\ pcP' = pcP /\ frame' = frame /\ written' = written /\ puts' = puts /\ behind' = behind
        /\ \A q : Writing(q)' = Writing(q)
    BY DEF First, Kept, Frames, Gone, Ahead, Occupied, ringVars, putVars, history, Writing
  <1>2. Room'
    BY <1>1, RoomShrinks DEF Fifo, Passed, Stale
  <1>3. Ledger(c)'
    BY <1>1 DEF Fifo, Ledger, CountInv, NumberInv
  <1>4. SizesInv(at)' /\ TailInv(c, at)' /\ QueuedInv(c, at)'
    <2>0. SizesInv(at) /\ TailInv(c, at) /\ QueuedInv(c, at)
      BY DEF Fifo, Layout
    <2>1. SizesInv(at)'
      BY <2>0, <1>1 DEF SizesInv
    <2>2. TailInv(c, at)'
      BY <2>0, <1>1 DEF TailInv
    <2>3. QueuedInv(c, at)'
      BY <2>0, <1>1 DEF QueuedInv, Plus
    <2> QED BY <2>1, <2>2, <2>3
  <1>5. WrittenInv(c, at)' /\ FreeInv(c, at)' /\ ClearedInv(c)'
    <2>0. WrittenInv(c, at) /\ FreeInv(c, at) /\ ClearedInv(c)
      BY DEF Fifo, Layout
    <2>1. WrittenInv(c, at)'
      BY <2>0, <1>1 DEF WrittenInv, Plus
    <2>2. FreeInv(c, at)'
      BY <2>0, <1>1 DEF FreeInv, Plus
    <2>3. ClearedInv(c)'
      BY <2>0, <1>1 DEF ClearedInv, Plus
    <2> QED BY <2>1, <2>2, <2>3
  <1> QED BY <1>2, <1>3, <1>4, <1>5 DEF Layout

\* Where nothing happens the invariant stays.
LEMMA StutterKeeps ==
    ASSUME NEW c, Setting(c), NEW at, Fifo(c, at), UNCHANGED vars
    PROVE  Room' /\ Ledger(c)' /\ Layout(c, at)'
  <1>1. UNCHANGED <<mem, allocIndex, exeIndex, allocCounter, exeCounter, pcP, frame, behind,
                    written, puts, pcC, header, body, accepted, delivered, broken, crashes>>
    BY DEF vars, ringVars, putVars, getVars, history
  <1>2. UNCHANGED <<ringVars, pcC, header, body, history>>
    BY <1>1 DEF ringVars, history
  <1>3. CountInv(c)' /\ ReaderInv(c)' /\ Layout(c, at)'
    BY <1>1, <1>2, QuietKeepsLayout DEF Writing
  <1>4. Room'
    BY <1>1, RoomShrinks DEF Fifo, Passed, Stale
  <1>5. NumberInv'
    BY <1>1 DEF Fifo, Ledger, NumberInv, Frames
  <1> QED BY <1>3, <1>4, <1>5 DEF Ledger

\* The steps of get before it clears: what it reads is the oldest frame, whole.
LEMMA ReaderStarts ==
    ASSUME NEW c, Setting(c), NEW at, Fifo(c, at), c \in Consumers,
           \/ GetNothing(c) \/ GetCall(c) \/ AcquireReadLock(c) \/ ReadLockTimeout(c)
           \/ ReadHeader(c) \/ ReadData(c)
    PROVE  Room' /\ Ledger(c)' /\ Layout(c, at)'
  <1>0. IInv /\ Room /\ Ledger(c) /\ Layout(c, at)
    BY DEF Fifo
  <1>00. /\ \E S : pcC \in [Consumers -> S]
         /\ header \in [Consumers -> {Zero} \cup Header]
         /\ body \in [Consumers -> {Zero} \cup Body]
    BY <1>0 DEF IInv, TypeOK, GetTypeOK
  <1>a. Gone \in Nat /\ Frames \in Nat /\ Gone <= Frames
    BY LayoutFacts
  <1>b. pcC[c] # "idle" => Gone < Frames
    BY <1>0 DEF Ledger, CountInv
  <1>1. CASE GetNothing(c)
    BY <1>1, StutterKeeps DEF GetNothing
  <1>2. CASE GetCall(c) \/ AcquireReadLock(c) \/ ReadLockTimeout(c)
    <2>1. /\ pcC[c] \in {"idle", "lock"} /\ pcC'[c] \in {"idle", "lock", "header"}
          /\ UNCHANGED <<ringVars, putVars, history>>
      BY <1>00, <1>2 DEF GetCall, AcquireReadLock, ReadLockTimeout, GotoC
    <2>2. pcC'[c] # "idle" => Gone < Frames
      <3>1. CASE GetCall(c)
        BY <3>1, <1>0, <1>a DEF GetCall, Pending, Ledger, CountInv
      <3>2. CASE AcquireReadLock(c)
        BY <3>2, <1>b DEF AcquireReadLock, GotoC
      <3>3. CASE ReadLockTimeout(c)
        BY <3>3, <1>00 DEF ReadLockTimeout, GotoC
      <3> QED BY <1>2, <3>1, <3>2, <3>3
    <2>3. ReaderInv(c)'
      BY <2>1 DEF ReaderInv
    <2> QED BY <2>1, <2>2, <2>3, QuietReader
  <1>3. CASE ReadHeader(c)
    <2>1. /\ pcC[c] = "header" /\ pcC'[c] = "data"
          /\ header'[c] = [size |-> mem[exeIndex][1].size, crc |-> mem[Plus(exeIndex, 1)][1]]
          /\ UNCHANGED <<ringVars, putVars, history>>
      BY <1>0, <1>00, <1>3 DEF ReadHeader, GotoC, StatusCell, MarkCell
    <2>2. /\ accepted[Gone + 1].size \in 3..DataSize
          /\ \A j \in 0..(accepted[Gone + 1].size - 1) :
                mem[Plus(exeIndex, j)] = <<accepted[Gone + 1], j>>
      BY <2>1, HeadFrame
    <2>3. 0 \in 0..(accepted[Gone + 1].size - 1) /\ 1 \in 0..(accepted[Gone + 1].size - 1)
      BY <2>2
    <2>4. Plus(exeIndex, 0) = exeIndex
      BY <1>0, PlusZero DEF IInv, TypeOK, RingTypeOK
    <2>5. mem[exeIndex] = <<accepted[Gone + 1], 0>> /\ mem[Plus(exeIndex, 1)] = <<accepted[Gone + 1], 1>>
      BY <2>2, <2>3, <2>4
    <2>6. header'[c] = [size |-> accepted[Gone + 1].size, crc |-> accepted[Gone + 1]]
      BY <2>1, <2>5
    <2>7. accepted' = accepted /\ Gone' = Gone
      BY <2>1 DEF history, Gone
    <2>8. ReaderInv(c)'
      BY <2>1, <2>6, <2>7 DEF ReaderInv
    <2> QED BY <2>1, <2>8, <1>b, QuietReader
  <1>4. CASE ReadData(c)
    <2>1. /\ pcC[c] = "data" /\ pcC'[c] = "clear" /\ header' = header
          /\ body'[c] = [k \in HeaderSize..(header[c].size - 1) |-> mem[Plus(exeIndex, k)]]
          /\ UNCHANGED <<ringVars, putVars, history>>
      BY <1>0, <1>00, <1>4 DEF ReadData, GotoC
    <2>2. /\ accepted[Gone + 1].size \in 3..DataSize
          /\ \A j \in 0..(accepted[Gone + 1].size - 1) :
                mem[Plus(exeIndex, j)] = <<accepted[Gone + 1], j>>
      BY <2>1, HeadFrame
    <2>3. header[c] = [size |-> accepted[Gone + 1].size, crc |-> accepted[Gone + 1]]
      BY <2>1, <1>0 DEF Ledger, ReaderInv
    <2>4. accepted' = accepted /\ Gone' = Gone
      BY <2>1 DEF history, Gone
    <2>5. header[c].size = accepted[Gone + 1].size /\ header[c].crc = accepted[Gone + 1]
      BY <2>3
    <2>6. \A k \in HeaderSize..(header[c].size - 1) :
             mem[Plus(exeIndex, k)] = <<accepted[Gone + 1], k>>
      BY <2>2, <2>5 DEF HeaderSize
    <2>7. CrcMatches(c)'
      BY <2>1, <2>5, <2>6 DEF CrcMatches
    <2>8. ReaderInv(c)'
      BY <2>1, <2>3, <2>4, <2>7 DEF ReaderInv
    <2> QED BY <2>1, <2>8, <1>b, QuietReader
  <1> QED BY <1>1, <1>2, <1>3, <1>4

\* With one reader alive nothing get sees is ever missing or damaged.
LEMMA NothingBroken ==
    ASSUME NEW c, Setting(c), NEW at, Fifo(c, at), c \in Consumers
    PROVE  ~GetNoFrame(c) /\ ~GetNoWatermark(c) /\ ~GetCrcError(c)
  <1>1. CASE pcC[c] = "header"
    <2>1. /\ accepted[Gone + 1].size \in 3..DataSize
          /\ \A j \in 0..(accepted[Gone + 1].size - 1) :
                mem[Plus(exeIndex, j)] = <<accepted[Gone + 1], j>>
      BY <1>1, HeadFrame
    <2>2. 0 \in 0..(accepted[Gone + 1].size - 1) /\ 1 \in 0..(accepted[Gone + 1].size - 1)
      BY <2>1
    <2>3. Plus(exeIndex, 0) = exeIndex
      BY PlusZero DEF Fifo, IInv, TypeOK, RingTypeOK
    <2>4. IsPiece(StatusCell, 0) /\ IsPiece(MarkCell, 1)
      BY <2>1, <2>2, <2>3 DEF IsPiece, StatusCell, MarkCell, Zero
    <2> QED BY <2>4, <1>1 DEF GetNoFrame, GetNoWatermark, GetCrcError
  <1>2. CASE pcC[c] = "check"
    BY <1>2 DEF Fifo, Ledger, ReaderInv, GetNoFrame, GetNoWatermark, GetCrcError
  <1> QED BY <1>1, <1>2 DEF GetNoFrame, GetNoWatermark, GetCrcError

\* get clears the cells of that frame and no others.
LEMMA ClearFrameStep ==
    ASSUME NEW c, Setting(c), NEW at, Fifo(c, at), c \in Consumers, ClearFrame(c)
    PROVE  Room' /\ Ledger(c)' /\ Layout(c, at)'
  <1>0. IInv /\ Room /\ Ledger(c) /\ Layout(c, at)
    BY DEF Fifo
  <1> DEFINE s == header[c].size
             cleared == {Plus(exeIndex, k) : k \in 0..(s - 1)}
  <1>1. /\ pcC[c] = "clear" /\ pcC'[c] = "advance"
        /\ mem' = [i \in Pos |-> IF i \in cleared THEN Zero ELSE mem[i]]
        /\ UNCHANGED <<allocIndex, exeIndex, allocCounter, exeCounter, pcP, frame, behind,
                       written, puts, header, body, crashes, accepted, delivered, broken>>
    BY <1>0 DEF ClearFrame, GotoC, putVars, history, IInv, TypeOK, GetTypeOK
  <1>2. /\ Frames \in Nat /\ Gone \in Nat /\ First(c) = Gone + 1 /\ Kept(c) = Gone + 1
        /\ s = accepted[Gone + 1].size /\ s \in 3..DataSize /\ s <= Ahead(c, at)
        /\ Ahead(c, at) \in Nat /\ Ahead(c, at) < DataSize /\ DataSize \in Nat
        /\ Gone + 1 <= Frames
    <2>1. Gone + 1 \in 1..Frames /\ accepted[Gone + 1].size \in 3..DataSize
      BY <1>1, HeadFrame
    <2>2. Kept(c) = Gone + 1
      BY <1>1 DEF Kept
    <2>3. /\ Frames \in Nat /\ Gone \in Nat /\ First(c) = Gone + 1 /\ s = accepted[Gone + 1].size
          /\ accepted[Gone + 1].size <= Ahead(c, at)
          /\ Ahead(c, at) \in Nat /\ DataSize \in Nat /\ Ahead(c, at) <= Occupied /\ Occupied \in Pos
      BY <1>1, LayoutFacts
    <2>4. Ahead(c, at) < DataSize
      BY <2>3 DEF Pos
    <2> QED BY <2>1, <2>2, <2>3, <2>4
  <1>3. /\ Frames' = Frames /\ Gone' = Gone /\ First(c)' = First(c) /\ Kept(c)' = Gone + 2
        /\ Ahead(c, at)' = Ahead(c, at) /\ Occupied' = Occupied
        /\ \A q : Writing(q)' = Writing(q)
    BY <1>1, <1>2 DEF Frames, Gone, First, Kept, Ahead, Occupied, Writing
  <1>4. exeIndex \in Pos
    BY <1>0 DEF IInv, TypeOK, RingTypeOK
  <1>5. /\ \A o \in Pos : o < s => mem'[Plus(exeIndex, o)] = Zero
        /\ \A o \in Pos : o >= s => mem'[Plus(exeIndex, o)] = mem[Plus(exeIndex, o)]
    <2>1. \A o \in Pos : o \in 0..DataSize /\ o \in Int
      BY <1>2 DEF Pos
    <2>2. \A o \in Pos : Plus(exeIndex, o) \in Pos
      BY <1>4, <2>1, PlusIn
    <2>3. \A o \in Pos : o < s => Plus(exeIndex, o) \in cleared
      BY <1>2, <2>1
    <2>4. ASSUME NEW o \in Pos, o >= s PROVE Plus(exeIndex, o) \notin cleared
      <3>1. \A k \in 0..(s - 1) : k \in Pos /\ k # o
        BY <2>1, <2>4, <1>2 DEF Pos
      <3> QED BY <3>1, <1>4, PlusOneToOne
    <2> QED BY <2>2, <2>3, <2>4, <1>1
  <1>6. Room'
    BY <1>0, <1>1, RoomShrinks DEF Passed, Stale
  <1>7. Ledger(c)'
    BY <1>0, <1>1, <1>3 DEF Ledger, CountInv, NumberInv, ReaderInv, CrcMatches
  <1>8. SizesInv(at)' /\ TailInv(c, at)'
    BY <1>0, <1>1, <1>3 DEF Layout, SizesInv, TailInv
  <1>9. QueuedInv(c, at)'
    <2>1. ASSUME NEW k \in (Gone + 2)..Frames, NEW j \in 0..(accepted[k].size - 1)
          PROVE  mem'[Plus(exeIndex, at[k] - at[First(c)] + j)] = <<accepted[k], j>>
      <3>1. /\ k \in First(c)..Frames /\ k \in Kept(c)..Frames /\ k \in 1..Frames
            /\ k \in (Gone + 2)..(Frames + 1)
        BY <1>2
      <3>2. /\ at[k] - at[First(c)] \in Nat
            /\ at[k] - at[First(c)] + accepted[k].size <= Ahead(c, at)
            /\ at[k] - at[First(c)] - s \in Nat
            /\ accepted[k].size \in 3..DataSize
        BY <3>1, <1>1, LayoutFacts
      <3>3. at[k] - at[First(c)] + j \in Pos /\ at[k] - at[First(c)] + j >= s
        BY <3>2, <1>2 DEF Pos
      <3>4. mem[Plus(exeIndex, at[k] - at[First(c)] + j)] = <<accepted[k], j>>
        BY <3>1, <1>0 DEF Layout, QueuedInv
      <3> QED BY <3>3, <3>4, <1>5
    <2>2. exeIndex' = exeIndex /\ accepted' = accepted
      BY <1>1
    <2> QED BY <2>1, <2>2, <1>3 DEF QueuedInv, Plus
  <1>10. WrittenInv(c, at)'
    <2>1. ASSUME NEW p \in Producers, Writing(p), NEW j \in 0..(written[p] - 1)
          PROVE  mem'[Plus(exeIndex, Ahead(c, at) + j)] = <<frame[p], j>>
      <3>1. /\ frame[p].size \in 3..DataSize /\ written[p] \in 0..frame[p].size
            /\ Ahead(c, at) + frame[p].size < DataSize
        BY <2>1, LayoutFacts
      <3>2. Ahead(c, at) + j \in Pos /\ Ahead(c, at) + j >= s
        BY <3>1, <1>2 DEF Pos
      <3>3. mem[Plus(exeIndex, Ahead(c, at) + j)] = <<frame[p], j>>
        BY <2>1, <1>0 DEF Layout, WrittenInv
      <3> QED BY <3>2, <3>3, <1>5
    <2> QED BY <2>1, <1>1, <1>3 DEF WrittenInv, Plus
  <1>11. FreeInv(c, at)'
    <2>1. ASSUME NEW j \in Pos, Ahead(c, at) <= j,
                 \A p \in Producers : Writing(p) => Ahead(c, at) + written[p] <= j
          PROVE  mem'[Plus(exeIndex, j)] = Zero
      <3>1. mem[Plus(exeIndex, j)] = Zero
        BY <2>1, <1>0 DEF Layout, FreeInv
      <3>2. j < s \/ j >= s
        BY <1>2 DEF Pos
      <3> QED BY <3>1, <3>2, <1>5
    <2> QED BY <2>1, <1>1, <1>3 DEF FreeInv, Plus
  <1>12. ClearedInv(c)'
    <2>1. \A j \in 0..(s - 1) : j \in Pos /\ j < s
      BY <1>2 DEF Pos
    <2> QED BY <2>1, <1>1, <1>5 DEF ClearedInv, Plus
  <1> QED BY <1>6, <1>7, <1>8, <1>9, <1>10, <1>11, <1>12 DEF Layout

\* exe_index moves to the next frame; the places of the others are kept.
LEMMA AdvanceExeStep ==
    ASSUME NEW c, Setting(c), NEW at, Fifo(c, at), c \in Consumers, AdvanceExeIndex(c)
    PROVE  Room' /\ Ledger(c)' /\ Layout(c, at)'
  <1>0. IInv /\ Room /\ Ledger(c) /\ Layout(c, at)
    BY DEF Fifo
  <1> DEFINE s == header[c].size
  <1>1. /\ pcC[c] = "advance" /\ pcC'[c] = "check" /\ exeIndex' = Plus(exeIndex, s)
        /\ UNCHANGED <<mem, allocIndex, allocCounter, exeCounter, pcP, frame, behind,
                       written, puts, header, body, crashes, accepted, delivered, broken>>
    BY <1>0 DEF AdvanceExeIndex, GotoC, putVars, history, IInv, TypeOK, GetTypeOK
  <1>2. /\ Frames \in Nat /\ Gone \in Nat /\ First(c) = Gone + 1 /\ Kept(c) = Gone + 2
        /\ s = accepted[Gone + 1].size /\ s \in 3..DataSize /\ s <= Ahead(c, at)
        /\ Ahead(c, at) \in Nat /\ Ahead(c, at) <= Occupied /\ Occupied \in Pos /\ DataSize \in Nat
        /\ Gone + 1 <= Frames
    <2>1. Kept(c) = Gone + 2
      BY <1>1 DEF Kept
    <2>2. /\ Frames \in Nat /\ Gone \in Nat /\ First(c) = Gone + 1 /\ s = accepted[Gone + 1].size
          /\ accepted[Gone + 1].size <= Ahead(c, at) /\ Gone + 1 <= Frames
          /\ Ahead(c, at) \in Nat /\ DataSize \in Nat /\ Ahead(c, at) <= Occupied /\ Occupied \in Pos
      BY <1>1, LayoutFacts
    <2>3. accepted[Gone + 1].size \in 3..DataSize
      <3>1. Gone + 1 \in 1..Frames
        BY <2>2
      <3> QED BY <3>1, LayoutFacts
    <2> QED BY <2>1, <2>2, <2>3
  <1>3. at[Gone + 1] \in Nat /\ at[Gone + 2] = at[Gone + 1] + s /\ at[Frames + 1] \in Nat
    <2>1. Gone + 1 \in 1..Frames /\ Gone + 1 \in 1..(Frames + 1) /\ Frames + 1 \in 1..(Frames + 1)
      BY <1>2
    <2>2. at[(Gone + 1) + 1] = at[Gone + 1] + accepted[Gone + 1].size
      BY <2>1, <1>0 DEF Layout, SizesInv
    <2>3. (Gone + 1) + 1 = Gone + 2
      BY <1>2
    <2> QED BY <2>1, <2>2, <2>3, <1>2, LayoutFacts
  <1>4. /\ Frames' = Frames /\ Gone' = Gone /\ First(c)' = Gone + 2 /\ Kept(c)' = Gone + 2
        /\ \A q : Writing(q)' = Writing(q)
    BY <1>1 DEF Frames, Gone, First, Kept, Writing
  <1>5. Ahead(c, at)' = Ahead(c, at) - s
    BY <1>2, <1>3, <1>4 DEF Ahead
  <1>6. Room' /\ Occupied' = Occupied - s
    <2>1. s \in Nat /\ s > 0 /\ s <= Occupied
      BY <1>2 DEF Pos
    <2> HIDE DEF s
    <2> QED BY <2>1, <1>0, <1>1, ExeAdvances
  <1>7. exeIndex \in Pos
    BY <1>0 DEF IInv, TypeOK, RingTypeOK
  <1>8. /\ \A o \in Nat : o >= s /\ o <= DataSize => Plus(exeIndex', o - s) = Plus(exeIndex, o)
        /\ \A o \in Pos : s + o >= DataSize => Plus(exeIndex', o) = Plus(exeIndex, s + o - DataSize)
    <2>0. s \in Nat /\ s \in Pos
      BY <1>2 DEF Pos
    <2>1. ASSUME NEW o \in Nat, o >= s, o <= DataSize
          PROVE  Plus(exeIndex', o - s) = Plus(exeIndex, o)
      <3>1. o - s \in Nat /\ s + (o - s) = o
        BY <2>0, <2>1
      <3>2. Plus(Plus(exeIndex, s), o - s) = Plus(exeIndex, s + (o - s))
        BY <2>0, <2>1, <3>1, <1>7, PlusPlus
      <3> QED BY <3>1, <3>2, <1>1
    <2>2. ASSUME NEW o \in Pos, s + o >= DataSize
          PROVE  Plus(exeIndex', o) = Plus(exeIndex, s + o - DataSize)
      BY <2>0, <2>2, <1>1, <1>7, PlusWraps
    <2> QED BY <2>1, <2>2
  <1>9. Ledger(c)'
    BY <1>0, <1>1, <1>4 DEF Ledger, CountInv, NumberInv, ReaderInv, CrcMatches
  <1>10. SizesInv(at)'
    BY <1>0, <1>1, <1>4 DEF Layout, SizesInv
  <1>11. TailInv(c, at)'
    <2>1. ASSUME \A q \in Producers : pcP[q] # "count" PROVE Occupied' = Ahead(c, at)'
      BY <2>1, <1>0, <1>5, <1>6 DEF Layout, TailInv
    <2>2. ASSUME NEW p \in Producers, pcP[p] = "count"
          PROVE  written[p] = frame[p].size /\ Occupied' = Ahead(c, at)' + frame[p].size
      <3>1. written[p] = frame[p].size /\ Occupied = Ahead(c, at) + frame[p].size
        BY <2>2, <1>0 DEF Layout, TailInv
      <3>2. frame[p].size \in 3..DataSize
        BY <2>2, LayoutFacts DEF Writing
      <3> QED BY <3>1, <3>2, <1>2, <1>5, <1>6
    <2> QED BY <2>1, <2>2, <1>1 DEF TailInv
  <1> HIDE DEF s
  <1>12. QueuedInv(c, at)'
    <2>1. ASSUME NEW k \in (Gone + 2)..Frames, NEW j \in 0..(accepted[k].size - 1)
          PROVE  mem[Plus(exeIndex', at[k] - at[Gone + 2] + j)] = <<accepted[k], j>>
      <3>1. /\ k \in First(c)..Frames /\ k \in Kept(c)..Frames /\ k \in 1..Frames
            /\ k \in 1..(Frames + 1) /\ k \in (Gone + 2)..(Frames + 1)
        BY <1>2
      <3>2. /\ at[k] - at[First(c)] \in Nat /\ at[k] \in Nat
            /\ at[k] - at[First(c)] + accepted[k].size <= Ahead(c, at)
            /\ accepted[k].size \in 3..DataSize
        BY <3>1, LayoutFacts
      <3>3. at[k] - at[First(c)] - s \in Nat
        BY <3>1, <1>1, LayoutFacts DEF s
      <3> DEFINE o == at[k] - at[First(c)] + j
      <3>4. /\ o \in Nat /\ o >= s /\ o <= DataSize
            /\ o - s = at[k] - at[Gone + 2] + j
        BY <3>2, <3>3, <1>2, <1>3 DEF Pos
      <3>5. mem[Plus(exeIndex, o)] = <<accepted[k], j>>
        BY <3>1, <1>0 DEF Layout, QueuedInv
      <3> HIDE DEF o
      <3> QED BY <3>4, <3>5, <1>8
    <2>2. mem' = mem /\ accepted' = accepted
      BY <1>1
    <2> QED BY <2>1, <2>2, <1>4 DEF QueuedInv, Plus
  <1>13. WrittenInv(c, at)'
    <2>1. ASSUME NEW p \in Producers, Writing(p), NEW j \in 0..(written[p] - 1)
          PROVE  mem[Plus(exeIndex', Ahead(c, at)' + j)] = <<frame[p], j>>
      <3>1. /\ frame[p].size \in 3..DataSize /\ written[p] \in 0..frame[p].size
            /\ Ahead(c, at) + frame[p].size < DataSize
        BY <2>1, LayoutFacts
      <3> DEFINE o == Ahead(c, at) + j
      <3>2. /\ o \in Nat /\ o >= s /\ o <= DataSize
            /\ o - s = Ahead(c, at)' + j
        BY <3>1, <1>2, <1>5
      <3>3. mem[Plus(exeIndex, o)] = <<frame[p], j>>
        BY <2>1, <1>0 DEF Layout, WrittenInv
      <3> HIDE DEF o
      <3> QED BY <3>2, <3>3, <1>8
    <2> QED BY <2>1, <1>1, <1>4 DEF WrittenInv, Plus
  <1>14. FreeInv(c, at)'
    <2>1. ASSUME NEW j \in Pos, Ahead(c, at)' <= j,
                 \A p \in Producers : Writing(p) => Ahead(c, at)' + written[p] <= j
          PROVE  mem[Plus(exeIndex', j)] = Zero
      <3>0. j \in Nat /\ s \in Nat /\ j < DataSize
        BY <1>2 DEF Pos
      <3>1. CASE s + j < DataSize
        <4>1. /\ s + j \in Pos /\ s + j \in Nat /\ s + j >= s /\ s + j <= DataSize /\ (s + j) - s = j
              /\ Ahead(c, at) <= s + j
          BY <3>0, <3>1, <2>1, <1>2, <1>5 DEF Pos
        <4>2. ASSUME NEW p \in Producers, Writing(p) PROVE Ahead(c, at) + written[p] <= s + j
          <5>1. Ahead(c, at)' + written[p] <= j
            BY <2>1, <4>2
          <5>2. written[p] \in 0..frame[p].size /\ frame[p].size \in 3..DataSize
            BY <4>2, LayoutFacts
          <5> QED BY <5>1, <5>2, <3>0, <1>2, <1>5
        <4>3. mem[Plus(exeIndex, s + j)] = Zero
          BY <4>1, <4>2, <1>0 DEF Layout, FreeInv
        <4>4. Plus(exeIndex', (s + j) - s) = Plus(exeIndex, s + j)
          BY <4>1, <1>8
        <4> QED BY <4>1, <4>3, <4>4
      <3>2. CASE s + j >= DataSize
        <4>1. s + j - DataSize \in 0..(s - 1)
          BY <3>0, <3>2, <1>2
        <4>2. mem[Plus(exeIndex, s + j - DataSize)] = Zero
          BY <4>1, <1>0, <1>1 DEF Layout, ClearedInv, s
        <4>3. Plus(exeIndex', j) = Plus(exeIndex, s + j - DataSize)
          BY <3>2, <1>8
        <4> QED BY <4>2, <4>3
      <3> QED BY <3>0, <3>1, <3>2, <1>2
    <2> QED BY <2>1, <1>1, <1>4 DEF FreeInv, Plus
  <1>15. ClearedInv(c)'
    BY <1>1 DEF ClearedInv
  <1> QED BY <1>6, <1>9, <1>10, <1>11, <1>12, <1>13, <1>14, <1>15 DEF Layout

\* get counts the frame and hands it out.
LEMMA GetDoneStep ==
    ASSUME NEW c, Setting(c), NEW at, Fifo(c, at), c \in Consumers, GetDone(c)
    PROVE  /\ Room' /\ Ledger(c)' /\ Layout(c, at)'
           /\ delivered' = Append(delivered, accepted[Gone + 1])
  <1>0. IInv /\ Room /\ Ledger(c) /\ Layout(c, at)
    BY DEF Fifo
  <1>1. /\ pcC[c] = "check" /\ pcC'[c] = "idle" /\ exeCounter' = exeCounter + 1
        /\ delivered' = Append(delivered, header[c].crc)
        /\ UNCHANGED <<mem, allocIndex, exeIndex, allocCounter, pcP, frame, behind, written,
                       puts, accepted, broken>>
    BY <1>0 DEF GetDone, LeaveGet, putVars, IInv, TypeOK, GetTypeOK
  <1>2. /\ Gone < Frames /\ Frames \in Nat /\ Gone \in Nat
        /\ header[c].crc = accepted[Gone + 1]
    <2>1. header[c] = [size |-> accepted[Gone + 1].size, crc |-> accepted[Gone + 1]]
      BY <1>0, <1>1 DEF Ledger, ReaderInv
    <2>2. Gone < Frames
      BY <1>0, <1>1 DEF Ledger, CountInv
    <2> QED BY <2>1, <2>2, LayoutFacts
  <1>3. /\ Gone' = Gone + 1 /\ delivered'[Gone + 1] = accepted[Gone + 1]
        /\ \A k \in 1..Gone : delivered'[k] = delivered[k]
    BY <1>0, <1>1, <1>2 DEF Gone, IInv, TypeOK, HistoryTypeOK
  <1>4. /\ Frames' = Frames /\ First(c)' = First(c) /\ Kept(c)' = Kept(c)
        /\ Ahead(c, at)' = Ahead(c, at) /\ Occupied' = Occupied
        /\ \A q : Writing(q)' = Writing(q)
    BY <1>1, <1>2, <1>3 DEF Frames, First, Kept, Ahead, Occupied, Writing
  <1>5. Room'
    BY <1>0, <1>1, RoomShrinks DEF Passed, Stale
  <1>6. Ledger(c)'
    <2>1. CountInv(c) /\ NumberInv
      BY <1>0 DEF Ledger
    <2>2. ASSUME NEW k \in 1..(Gone + 1) PROVE delivered'[k] = accepted[k]
      <3>1. CASE k = Gone + 1
        BY <3>1, <1>3
      <3>2. CASE k \in 1..Gone
        BY <3>2, <1>3, <2>1 DEF CountInv
      <3> QED BY <3>1, <3>2, <1>2
    <2>3. CountInv(c)'
      <3>1. allocCounter' = Frames' /\ exeCounter' = Gone' /\ Gone' <= Frames'
        BY <2>1, <1>1, <1>2, <1>3, <1>4 DEF CountInv
      <3>2. broken' = {} /\ pcC'[c] = "idle"
        BY <2>1, <1>1 DEF CountInv
      <3>3. \A k \in 1..Gone' : delivered'[k] = accepted'[k]
        BY <2>2, <1>1, <1>3
      <3> QED BY <3>1, <3>2, <3>3 DEF CountInv
    <2>4. NumberInv'
      BY <2>1, <1>1, <1>4 DEF NumberInv
    <2>5. ReaderInv(c)'
      BY <1>1 DEF ReaderInv
    <2> QED BY <2>3, <2>4, <2>5 DEF Ledger
  <1>7. SizesInv(at)' /\ TailInv(c, at)' /\ QueuedInv(c, at)'
    <2>0. SizesInv(at) /\ TailInv(c, at) /\ QueuedInv(c, at)
      BY <1>0 DEF Layout
    <2>1. SizesInv(at)'
      BY <2>0, <1>1, <1>4 DEF SizesInv
    <2>2. TailInv(c, at)'
      BY <2>0, <1>1, <1>4 DEF TailInv
    <2>3. QueuedInv(c, at)'
      BY <2>0, <1>1, <1>4 DEF QueuedInv, Plus
    <2> QED BY <2>1, <2>2, <2>3
  <1>8. WrittenInv(c, at)' /\ FreeInv(c, at)' /\ ClearedInv(c)'
    <2>0. WrittenInv(c, at) /\ FreeInv(c, at) /\ ClearedInv(c)
      BY <1>0 DEF Layout
    <2>1. WrittenInv(c, at)'
      BY <2>0, <1>1, <1>4 DEF WrittenInv, Plus
    <2>2. FreeInv(c, at)'
      BY <2>0, <1>1, <1>4 DEF FreeInv, Plus
    <2>3. ClearedInv(c)'
      BY <2>0, <1>1, <1>4 DEF ClearedInv, Plus
    <2> QED BY <2>1, <2>2, <2>3
  <1> QED BY <1>1, <1>2, <1>5, <1>6, <1>7, <1>8 DEF Layout

\* The empty ring satisfies the invariant.
LEMMA FifoStart == ASSUME NEW c, Setting(c), Init PROVE FifoInv(c)
  <1>0. DataSize \in Nat \ {0} /\ c \in Consumers
    BY SizesAssumption DEF Setting
  <1>1. IInv
    BY Initially
  <1>2. Room
    <2>1. Passed = {}
      BY DEF Init, Passed
    <2>2. Claim(Passed) = 0
      BY <2>1, ClaimFacts DEF Setting
    <2> QED BY <2>2, <1>0 DEF Init, Room
  <1>3. Frames = 0 /\ Gone = 0
    BY DEF Init, Frames, Gone
  <1>4. Ledger(c)
    BY <1>0, <1>3 DEF Init, Ledger, CountInv, NumberInv, ReaderInv
  <1>5. PICK at : at = [k \in 1..(Frames + 1) |-> 0]
    OBVIOUS
  <1>6. /\ at \in [1..(Frames + 1) -> Nat] /\ First(c) = 1 /\ Ahead(c, at) = 0 /\ at[1] = 0
    BY <1>0, <1>3, <1>5 DEF Init, First, Ahead
  <1>7. SizesInv(at) /\ TailInv(c, at) /\ QueuedInv(c, at)
    <2>1. Occupied = 0 /\ Kept(c) = 1
      BY <1>0, <1>3 DEF Init, Occupied, Kept
    <2>2. Kept(c)..Frames = {} /\ 1..Frames = {} /\ 1..(Frames + 1) = {1}
      BY <2>1, <1>3
    <2> QED BY <1>6, <2>1, <2>2 DEF Init, SizesInv, TailInv, QueuedInv
  <1>8. WrittenInv(c, at) /\ FreeInv(c, at) /\ ClearedInv(c)
    <2>1. exeIndex = 0 /\ exeIndex \in Pos /\ mem = [i \in Pos |-> Zero]
      BY <1>0 DEF Init, Pos
    <2>2. \A j \in Pos : Plus(exeIndex, j) \in Pos
      BY <2>1, <1>0 DEF Plus, Pos
    <2>3. \A p \in Producers : ~Writing(p)
      BY DEF Init, Writing
    <2>4. pcC[c] = "idle"
      BY <1>0 DEF Init
    <2> QED BY <2>1, <2>2, <2>3, <2>4 DEF WrittenInv, FreeInv, ClearedInv
  <1> QED BY <1>1, <1>2, <1>4, <1>6, <1>7, <1>8 DEF FifoInv, LaidOut, Layout

\* Every step keeps the invariant.
LEMMA FifoKept ==
    ASSUME NEW c, Setting(c), FifoInv(c), [Next]_vars
    PROVE  FifoInv(c)'
  <1>0. PICK at \in [1..(Frames + 1) -> Nat] : Fifo(c, at)
    BY DEF FifoInv, LaidOut, Fifo
  <1>1. IInv'
    BY InvariantKept DEF FifoInv
  <1>2. Layout(c, at)' => LaidOut(c)'
    BY DEF Layout, SizesInv, LaidOut
  <1>3. SUFFICES Room' /\ Ledger(c)' /\ LaidOut(c)'
    BY <1>1 DEF FifoInv
  <1>4. c \in Consumers /\ \A d \in Consumers : d = c
    BY DEF Setting
  <1>5. CASE UNCHANGED vars
    BY <1>0, <1>2, <1>4, <1>5, StutterKeeps
  <1>6. ASSUME NEW p \in Producers, QuietStep(p)
        PROVE  Room' /\ Ledger(c)' /\ LaidOut(c)'
    BY <1>0, <1>2, <1>6, QuietSteps
  <1>7. ASSUME NEW p \in Producers, WriteCell(p) \/ AdvanceAllocIndex(p) \/ PutDone(p)
        PROVE  Room' /\ Ledger(c)' /\ LaidOut(c)'
    BY <1>0, <1>2, <1>7, WriteCellStep, AdvanceAllocStep, PutDoneStep
  <1>8. ASSUME GetStep(c)
        PROVE  Room' /\ Ledger(c)' /\ LaidOut(c)'
    BY <1>0, <1>2, <1>4, <1>8, ReaderStarts, NothingBroken, ClearFrameStep, AdvanceExeStep, GetDoneStep
       DEF GetStep
  <1>9. /\ \A p \in Producers : ~CrashP(p)
        /\ \A d \in Consumers : ~CrashC(d)
    BY DEF Setting, CrashP, CrashC, FifoInv, IInv, TypeOK, HistoryTypeOK
  <1>10. CASE Next
    BY <1>4, <1>6, <1>7, <1>8, <1>9, <1>10 DEF Next, PutStep, QuietStep
  <1> QED BY <1>5, <1>10

-----------------------------------------------------------------------------
\* The frames lie in the ring in their order, whole, with room for those to come,
\* at every point of put and get.
THEOREM FifoInvariance == ASSUME NEW c, Setting(c) PROVE Spec => []FifoInv(c)
  <1>1. Init => FifoInv(c)
    BY FifoStart
  <1>2. FifoInv(c) /\ [Next]_vars => FifoInv(c)'
    BY FifoKept
  <1> QED BY <1>1, <1>2, PTL DEF Spec

\* A frame that is not delivered lies in the ring, or get has cleared it and is
\* about to hand it out.
LEMMA OnlyOldestMissing ==
    ASSUME NEW c, Setting(c), FifoInv(c), NEW f \in Undelivered
    PROVE  \/ InRing(f)
           \/ pcC[c] \in {"advance", "check"} /\ header[c].crc = f
  <1>0. PICK at \in [1..(Frames + 1) -> Nat] : Fifo(c, at)
    BY DEF FifoInv, LaidOut, Fifo
  <1>1. PICK k \in 1..Frames : f = accepted[k]
    BY DEF Undelivered, Frames
  <1>2. /\ Frames \in Nat /\ Gone \in Nat /\ Gone <= Frames /\ DataSize \in Nat
        /\ First(c) \in 1..(Frames + 1) /\ First(c) <= Kept(c) /\ Kept(c) \in Nat
    BY <1>0, LayoutFacts
  <1>3. k > Gone
    <2>1. k \in 1..Gone => f = delivered[k]
      BY <1>0, <1>1 DEF Fifo, Ledger, CountInv
    <2>2. k \notin 1..Gone
      BY <2>1 DEF Undelivered, Gone
    <2> QED BY <2>2, <1>2
  <1>4. CASE k >= Kept(c)
    <2>1. k \in Kept(c)..Frames /\ k \in First(c)..Frames
      BY <1>2, <1>4
    <2>2. /\ f.size \in 3..DataSize /\ at[k] - at[First(c)] \in Nat
          /\ at[k] - at[First(c)] + f.size <= Ahead(c, at)
          /\ Ahead(c, at) <= Occupied /\ Occupied \in Pos /\ Ahead(c, at) \in Nat
      BY <1>0, <1>1, <2>1, LayoutFacts
    <2> DEFINE o == at[k] - at[First(c)]
               i == Plus(exeIndex, o)
    <2>3. o \in Nat /\ o + f.size <= DataSize /\ o \in 0..DataSize
      <3>1. f.size \in Nat /\ Occupied <= DataSize /\ Occupied \in Nat
        BY <2>2, <1>2 DEF Pos
      <3>2. o \in Nat /\ o + f.size <= DataSize
        BY <2>2, <3>1, <1>2
      <3> QED BY <3>1, <3>2, <1>2
    <2>4. \A j \in 0..(f.size - 1) : mem[Plus(exeIndex, o + j)] = <<f, j>>
      BY <1>0, <1>1, <2>1 DEF Fifo, Layout, QueuedInv
    <2>5. exeIndex \in Pos
      BY DEF FifoInv, IInv, TypeOK, RingTypeOK
    <2> HIDE DEF o
    <2>6. i \in Pos
      BY <2>3, <2>5, PlusIn
    <2>7. \A j \in 0..(f.size - 1) : j \in Nat /\ o + j <= DataSize
      <3>1. f.size \in Nat /\ f.size > 0 /\ DataSize \in Nat
        BY <2>2, <1>2
      <3> QED BY <3>1, <2>3
    <2>8. \A j \in 0..(f.size - 1) : Plus(i, j) = Plus(exeIndex, o + j)
      BY <2>3, <2>5, <2>7, PlusPlus
    <2>9. \A j \in 0..(f.size - 1) : mem[Plus(i, j)] = <<f, j>>
      BY <2>4, <2>8
    <2> QED BY <2>6, <2>9 DEF InRing
  <1>5. CASE k < Kept(c)
    <2>1. pcC[c] \in {"advance", "check"} /\ k = Gone + 1
      BY <1>2, <1>3, <1>5 DEF Kept
    <2>2. header[c].crc = accepted[Gone + 1]
      BY <2>1, <1>0 DEF Fifo, Ledger, ReaderInv
    <2> QED BY <1>1, <2>1, <2>2
  <1>6. Kept(c) \in Int
    BY <1>2 DEF Kept
  <1> QED BY <1>4, <1>5, <1>6

\* What the invariant means for the frames.
LEMMA FifoMeans ==
    ASSUME NEW c, Setting(c), FifoInv(c)
    PROVE  LossBounded /\ DeliveredInOrder
  <1>1. Vanished = {}
    <2>1. c \in Consumers
      BY DEF Setting
    <2> QED BY <2>1, OnlyOldestMissing DEF Vanished
  <1>2. LossBounded
    <2>1. crashes \in Nat
      BY SizesAssumption DEF FifoInv, IInv, TypeOK, HistoryTypeOK
    <2> QED BY <1>1, <2>1, FS_EmptySet DEF LossBounded
  <1>3. DeliveredInOrder
    <2>0. /\ \A k \in 1..Gone : delivered[k] = accepted[k]
          /\ \A k, l \in 1..Frames : k < l => accepted[k] # accepted[l]
          /\ Gone <= Frames /\ Gone \in Nat /\ Frames \in Nat
      BY DEF FifoInv, Ledger, CountInv, NumberInv, Gone, Frames, IInv, TypeOK, HistoryTypeOK
    <2>1. ASSUME NEW i \in 1..Gone, NEW j \in 1..Gone, i < j
          PROVE  /\ delivered[i] # delivered[j]
                 /\ \A m, n \in 1..Frames :
                       accepted[m] = delivered[i] /\ accepted[n] = delivered[j] => m < n
      <3>1. i \in 1..Frames /\ j \in 1..Frames /\ delivered[i] = accepted[i] /\ delivered[j] = accepted[j]
        BY <2>0
      <3>2. \A k, l \in 1..Frames : accepted[k] = accepted[l] => k = l
        <4>1. \A k, l \in 1..Frames : k < l \/ k = l \/ l < k
          BY <2>0
        <4> QED BY <2>0, <4>1
      <3> QED BY <2>0, <2>1, <3>1, <3>2
    <2> QED BY <2>1 DEF DeliveredInOrder, Frames, Gone
  <1> QED BY <1>2, <1>3

\* With get outside its section, the oldest frame that is due begins at exe_index.
LEMMA OldestAtHand ==
    ASSUME NEW c, Setting(c), FifoInv(c), ~Reading(c),
           NEW i \in Due, \A j \in Due : i <= j
    PROVE  AtHand(accepted[i])
  <1>0. PICK at \in [1..(Frames + 1) -> Nat] : Fifo(c, at)
    BY DEF FifoInv, LaidOut, Fifo
  <1>1. Frames \in Nat /\ Gone \in Nat
    BY <1>0, LayoutFacts
  <1>2. i \in 1..Frames /\ accepted[i] \in Undelivered
    BY DEF Due, Frames
  <1>3. i > Gone
    <2>1. i \in 1..Gone => accepted[i] = delivered[i]
      BY <1>0 DEF Fifo, Ledger, CountInv
    <2>2. i \notin 1..Gone
      BY <1>2, <2>1 DEF Undelivered, Gone
    <2> QED BY <2>2, <1>1, <1>2
  <1>4. Gone < Frames /\ Gone + 1 \in 1..Frames
    BY <1>1, <1>2, <1>3
  <1>5. Gone + 1 \in Due
    <2>1. \A k \in 1..Gone : delivered[k] = accepted[k] /\ k \in 1..Frames /\ k < Gone + 1
      BY <1>0, <1>1, <1>4 DEF Fifo, Ledger, CountInv
    <2>2. \A k \in 1..Gone : accepted[k] # accepted[Gone + 1]
      BY <1>0, <1>4, <2>1 DEF Fifo, Ledger, NumberInv
    <2>3. accepted[Gone + 1] \in Undelivered
      BY <1>4, <2>1, <2>2 DEF Undelivered, Gone, Frames
    <2>4. broken = {}
      BY <1>0 DEF Fifo, Ledger, CountInv
    <2> QED BY <1>4, <2>3, <2>4 DEF Due, Frames
  <1>6. i = Gone + 1
    BY <1>1, <1>2, <1>3, <1>5
  <1>7. pcC[c] \notin {"advance", "check"}
    BY DEF Reading
  <1>8. \A j \in 0..(accepted[i].size - 1) : mem[Plus(exeIndex, j)] = <<accepted[i], j>>
    BY <1>0, <1>4, <1>6, <1>7, OldestAtIndex
  <1>9. Pending > 0
    BY <1>0, <1>1, <1>4 DEF Fifo, Ledger, CountInv, Pending
  <1> QED BY <1>8, <1>9 DEF AtHand

\* put only ever writes free cells.
LEMMA OnlyFreeCellsWritten ==
    ASSUME NEW c, Setting(c), FifoInv(c), [Next]_vars,
           NEW i \in Pos, mem'[i] # mem[i], mem'[i] # Zero
    PROVE  mem[i] = Zero
  <1>0. PICK at \in [1..(Frames + 1) -> Nat] : Fifo(c, at)
    BY DEF FifoInv, LaidOut, Fifo
  <1>1. mem \in [Pos -> Cell]
    BY DEF FifoInv, IInv, TypeOK, RingTypeOK
  <1>2. ASSUME NEW p \in Producers, WriteCell(p) PROVE mem[i] = Zero
    <2>1. mem[Plus(allocIndex, written[p])] = Zero
      BY <1>0, <1>2, WriteCellStep
    <2> QED BY <2>1, <1>1, <1>2 DEF WriteCell
  <1>3. ASSUME NEW d \in Consumers, ClearFrame(d) PROVE FALSE
    BY <1>3 DEF ClearFrame
  <1>4. ASSUME NEW p \in Producers, PutStep(p), ~WriteCell(p) PROVE mem' = mem
    BY <1>4 DEF PutStep, PutAboveCapacity, PutBelowCapacity, PutCompare, PutTooLarge, PutFits,
        AcquireWriteLock, WriteLockTimeout, AdvanceAllocIndex, PutDone, ringVars
  <1>5. ASSUME NEW d \in Consumers, GetStep(d), ~ClearFrame(d) PROVE mem' = mem
    BY <1>5 DEF GetStep, GetNothing, GetCall, AcquireReadLock, ReadLockTimeout, GetNoFrame,
        GetNoWatermark, ReadHeader, ReadData, AdvanceExeIndex, GetDone, GetCrcError, ringVars, vars
  <1>6. ASSUME NEW p \in Producers, NEW n \in FrameSizes, PutCall(p, n) PROVE mem' = mem
    BY <1>6 DEF PutCall, ringVars
  <1>7. /\ \A p \in Producers : CrashP(p) => mem' = mem
        /\ \A d \in Consumers : CrashC(d) => mem' = mem
    BY DEF CrashP, CrashC, ringVars
  <1>8. UNCHANGED vars => mem' = mem
    BY DEF vars, ringVars
  <1> QED BY <1>2, <1>3, <1>4, <1>5, <1>6, <1>7, <1>8 DEF Next

\* With one reader and nobody dying, no frame that put accepted is lost: what is
\* not delivered lies whole in the ring or is in the hands of get.
THEOREM NothingVanishes == ASSUME NEW c, Setting(c) PROVE Spec => []LossBounded
  <1>1. FifoInv(c) => LossBounded
    BY FifoMeans
  <1> QED BY <1>1, FifoInvariance, PTL

\* With one reader and nobody dying, frames are delivered once each, in the order
\* in which put accepted them, whichever processes put them.
THEOREM FirstInFirstOut == ASSUME NEW c, Setting(c) PROVE Spec => []DeliveredInOrder
  <1>1. FifoInv(c) => DeliveredInOrder
    BY FifoMeans
  <1> QED BY <1>1, FifoInvariance, PTL

\* With one reader and nobody dying, the oldest frame that is not delivered is the
\* one the next get finds at exe_index: nothing that is in the ring is out of reach.
THEOREM NothingStranded == ASSUME NEW c, Setting(c) PROVE Spec => []NoneStranded
  <1>1. FifoInv(c) => NoneStranded
    <2>1. c \in Consumers
      BY DEF Setting
    <2> QED BY <2>1, OldestAtHand DEF NoneStranded
  <1> QED BY <1>1, FifoInvariance, PTL

\* However old the checks are on which put writes, it never writes over a frame
\* that was accepted and is not read yet.
THEOREM StaleChecksHarmless == ASSUME NEW c, Setting(c) PROVE Spec => NoOverwrite
  <1>1. FifoInv(c) /\ [Next]_vars =>
          [\A i \in Pos : mem'[i] # mem[i] /\ mem'[i] # Zero
              => mem[i] = Zero \/ mem[i][1] \notin Undelivered \ broken]_vars
    BY OnlyFreeCellsWritten
  <1> QED BY <1>1, FifoInvariance, PTL DEF Spec, NoOverwrite

-----------------------------------------------------------------------------
(* The refinement of FrameQueue                                            *)

\* The state that FrameQueue's variables are mapped to.
Queued == SubSeq(accepted, Len(delivered) + 1, Len(accepted))
Used   == Occupied - NotCounted + InHand

\* Appending to what was accepted, or to what was delivered, as the queue sees it.
LEMMA SubSeqAppend ==
    ASSUME NEW S, NEW s \in Seq(S), NEW f \in S, NEW g \in Nat, g <= Len(s)
    PROVE  SubSeq(Append(s, f), g + 1, Len(Append(s, f))) = Append(SubSeq(s, g + 1, Len(s)), f)
  <1> DEFINE n == Len(s)
             u == Append(s, f)
             a == SubSeq(u, g + 1, n + 1)
             b == SubSeq(s, g + 1, n)
             d == Append(b, f)
  <1>1. /\ n \in Nat /\ Len(u) = n + 1 /\ u \in Seq(S)
        /\ \A i \in 1..n : u[i] = s[i] /\ s[i] \in S
        /\ u[n + 1] = f
    BY AppendProperties, LenProperties
  <1>2. \A i \in (g + 1)..(n + 1) : u[i] \in S
    BY <1>1
  <1> HIDE DEF n, u
  <1>3. /\ a \in Seq(S) /\ Len(a) = IF g + 1 <= n + 1 THEN (n + 1) - (g + 1) + 1 ELSE 0
        /\ \A i \in 1..((n + 1) - (g + 1) + 1) : a[i] = u[(g + 1) + i - 1]
    BY <1>1, <1>2, SubSeqProperties
  <1>4. /\ b \in Seq(S) /\ Len(b) = IF g + 1 <= n THEN n - (g + 1) + 1 ELSE 0
        /\ \A i \in 1..(n - (g + 1) + 1) : b[i] = s[(g + 1) + i - 1]
    <2>1. \A i \in (g + 1)..n : s[i] \in S
      BY <1>1
    <2> QED BY <1>1, <2>1, SubSeqProperties
  <1> HIDE DEF a, b
  <1>5. g <= n
    BY DEF n
  <1>6. Len(a) = (n - g) + 1 /\ Len(b) = n - g
    BY <1>1, <1>3, <1>4, <1>5
  <1>7. /\ d \in Seq(S) /\ Len(d) = (n - g) + 1
        /\ \A i \in 1..(n - g) : d[i] = b[i]
        /\ d[(n - g) + 1] = f
    BY <1>4, <1>6, AppendProperties
  <1> HIDE DEF d
  <1>8. ASSUME NEW i \in 1..Len(a) PROVE a[i] = d[i]
    <2>1. a[i] = u[g + i] /\ i \in 1..((n - g) + 1)
      <3>1. i \in 1..((n + 1) - (g + 1) + 1) /\ (g + 1) + i - 1 = g + i
        BY <1>1, <1>5, <1>6
      <3> QED BY <3>1, <1>3, <1>6
    <2>2. CASE i = (n - g) + 1
      BY <1>1, <1>7, <2>1, <2>2
    <2>3. CASE i \in 1..(n - g)
      <3>1. g + i \in 1..n /\ i \in 1..(n - (g + 1) + 1) /\ (g + 1) + i - 1 = g + i
        BY <1>1, <1>5, <2>3
      <3> QED BY <1>1, <1>4, <1>7, <2>1, <2>3, <3>1
    <2> QED BY <1>1, <1>5, <2>1, <2>2, <2>3
  <1>9. a = d
    BY <1>3, <1>6, <1>7, <1>8, SeqEqual
  <1> QED BY <1>1, <1>9 DEF a, b, d, n, u

\* Taking the oldest frame from the queue.
LEMMA SubSeqTail ==
    ASSUME NEW S, NEW s \in Seq(S), NEW g \in Nat, g < Len(s)
    PROVE  /\ SubSeq(s, g + 1, Len(s)) # <<>>
           /\ Head(SubSeq(s, g + 1, Len(s))) = s[g + 1]
           /\ Tail(SubSeq(s, g + 1, Len(s))) = SubSeq(s, (g + 1) + 1, Len(s))
  <1>1. g + 1 \in 1..Len(s) /\ Len(s) \in (g + 1)..Len(s) /\ Len(s) \in Nat
    BY LenProperties
  <1>2. /\ Head(SubSeq(s, g + 1, Len(s))) = s[g + 1]
        /\ Tail(SubSeq(s, g + 1, Len(s))) = SubSeq(s, (g + 1) + 1, Len(s))
    BY <1>1, HeadTailOfSubSeq
  <1>3. Len(SubSeq(s, g + 1, Len(s))) = IF g + 1 <= Len(s) THEN Len(s) - (g + 1) + 1 ELSE 0
    <2>1. \A i \in (g + 1)..Len(s) : s[i] \in S
      BY <1>1, ElementOfSeq
    <2> QED BY <1>1, <2>1, SubSeqProperties
  <1>4. Len(SubSeq(s, g + 1, Len(s))) # 0
    BY <1>1, <1>3
  <1>5. SubSeq(s, g + 1, Len(s)) # <<>>
    BY <1>4, EmptySeq
  <1> QED BY <1>2, <1>5

\* While put writes and has not advanced the index, nothing is missing from the
\* count, and while get has not advanced its own, nothing is in its hands.
LEMMA UsedKept ==
    ASSUME IInv, IInv', [Next]_vars,
           Occupied' = Occupied,
           \A p \in Producers : (pcP'[p] = "count") = (pcP[p] = "count")
                                /\ (pcP[p] = "count" => frame'[p] = frame[p]),
           \A d \in Consumers : (pcC'[d] = "check") = (pcC[d] = "check")
                                /\ (pcC[d] = "check" => header'[d] = header[d])
    PROVE  Used' = Used
  <1>1. /\ \A p \in Producers : pcP[p] = "count" => wLock = p
        /\ \A d \in Consumers : pcC[d] = "check" => rLock = d
    BY DEF IInv, PutInv, GetInv, Writing, Reading
  <1>2. /\ \A p \in Producers : pcP'[p] = "count" => wLock' = p
        /\ \A d \in Consumers : pcC'[d] = "check" => rLock' = d
    BY DEF IInv, PutInv, GetInv, Writing, Reading
  <1>3. NotCounted' = NotCounted
    <2>1. ASSUME NEW p \in Producers, pcP[p] = "count"
          PROVE  NotCounted' = NotCounted
      <3>1. wLock = p /\ wLock' = p /\ pcP'[p] = "count" /\ frame'[p] = frame[p]
        BY <1>1, <1>2, <2>1
      <3> QED BY <2>1, <3>1 DEF NotCounted
    <2>2. CASE \A p \in Producers : pcP[p] # "count"
      BY <2>2 DEF NotCounted
    <2> QED BY <2>1, <2>2
  <1>4. InHand' = InHand
    <2>1. ASSUME NEW d \in Consumers, pcC[d] = "check"
          PROVE  InHand' = InHand
      <3>1. rLock = d /\ rLock' = d /\ pcC'[d] = "check" /\ header'[d] = header[d]
        BY <1>1, <1>2, <2>1
      <3> QED BY <2>1, <3>1 DEF InHand
    <2>2. CASE \A d \in Consumers : pcC[d] # "check"
      BY <2>2 DEF InHand
    <2> QED BY <2>1, <2>2
  <1> QED BY <1>3, <1>4 DEF Used

\* What the space in use is made of.
LEMMA UsedFacts ==
    ASSUME NEW c, Setting(c), FifoInv(c)
    PROVE  /\ Occupied \in 0..(DataSize - 1)
           /\ \A p \in Producers : pcP[p] = "count" => NotCounted = frame[p].size
           /\ (\A p \in Producers : pcP[p] # "count") => NotCounted = 0
           /\ pcC[c] = "check" => InHand = accepted[Gone + 1].size
           /\ pcC[c] # "check" => InHand = 0
           /\ InHand \in 0..LargestFrame
           /\ LargestFrame \in Nat
  <1>1. c \in Consumers /\ \A d \in Consumers : d = c
    BY DEF Setting
  <1>2. \A p \in Producers : pcP[p] = "count" => wLock = p
    BY DEF FifoInv, IInv, PutInv, Writing
  <1>3. pcC[c] = "check" => rLock = c
    BY <1>1 DEF FifoInv, IInv, GetInv, Reading
  <1>4. pcC[c] = "check" => /\ header[c].size = accepted[Gone + 1].size
                            /\ Gone + 1 \in 1..Frames
    BY DEF FifoInv, Ledger, ReaderInv, CountInv, Gone, Frames, IInv, TypeOK, HistoryTypeOK
  <1>5. \A k \in 1..Frames : accepted[k].size \in FrameSizes
    BY FrameFields DEF FifoInv, IInv, TypeOK, HistoryTypeOK, Frames
  <1>6. LargestFrame \in Nat /\ \A n \in FrameSizes : n <= LargestFrame /\ n \in Nat
    BY LargestFrameExists, SizesAssumption DEF Setting
  <1>7. Occupied \in 0..(DataSize - 1)
    BY OccupiedFacts DEF FifoInv, IInv, TypeOK, Pos
  <1>8. rLock \in Consumers /\ pcC[rLock] = "check" => rLock = c /\ pcC[c] = "check"
    BY <1>1
  <1>9. pcC[c] = "check" => InHand = accepted[Gone + 1].size
    BY <1>1, <1>3, <1>4 DEF InHand
  <1>10. pcC[c] # "check" => InHand = 0
    BY <1>8 DEF InHand
  <1>11. InHand \in 0..LargestFrame
    BY <1>4, <1>5, <1>6, <1>9, <1>10
  <1> QED BY <1>2, <1>6, <1>7, <1>9, <1>10, <1>11 DEF NotCounted

\* put does nothing to the queue before it has moved alloc_index,
LEMMA QuietPutRefines ==
    ASSUME NEW c, Setting(c), FifoInv(c), FifoInv(c)', [Next]_vars, NEW p \in Producers,
           QuietStep(p) \/ WriteCell(p)
    PROVE  UNCHANGED <<accepted, delivered>> /\ Used' = Used
  <1>1. IInv /\ IInv'
    BY DEF FifoInv
  <1>2. UNCHANGED <<allocIndex, exeIndex, pcC, header, accepted, delivered>>
    BY DEF QuietStep, PutCall, PutAboveCapacity, PutBelowCapacity, PutCompare, PutTooLarge,
        PutFits, AcquireWriteLock, WriteLockTimeout, WriteCell, ringVars, getVars, history
  <1>3. \A q \in Producers : /\ (pcP'[q] = "count") = (pcP[q] = "count")
                             /\ (pcP[q] = "count" => frame'[q] = frame[q])
    BY <1>1 DEF QuietStep, PutCall, PutAboveCapacity, PutBelowCapacity, PutCompare, PutTooLarge,
        PutFits, AcquireWriteLock, WriteLockTimeout, WriteCell, GotoP, LeavePut,
        IInv, TypeOK, PutTypeOK
  <1>4. Occupied' = Occupied
    BY <1>2 DEF Occupied
  <1> QED BY <1>1, <1>2, <1>3, <1>4, UsedKept

\* nor when it moves it,
LEMMA AllocRefines ==
    ASSUME NEW c, Setting(c), FifoInv(c), FifoInv(c)', NEW p \in Producers,
           AdvanceAllocIndex(p)
    PROVE  UNCHANGED <<accepted, delivered>> /\ Used' = Used
  <1>1. Occupied' = Occupied + frame[p].size
    BY AllocAdvances DEF FifoInv
  <1>2. /\ UNCHANGED <<wLock, rLock, frame, pcC, header, accepted, delivered>>
        /\ pcP[p] = "write" /\ pcP'[p] = "count"
    BY DEF AdvanceAllocIndex, GotoP, getVars, history, FifoInv, IInv, TypeOK, PutTypeOK
  <1>3. wLock = p /\ frame[p].size \in Nat
    BY <1>2, FrameFields DEF FifoInv, IInv, PutInv, Writing
  <1>4. NotCounted = 0 /\ NotCounted' = frame[p].size /\ InHand' = InHand
    BY <1>2, <1>3 DEF NotCounted, InHand
  <1>5. Occupied \in Nat /\ InHand \in Nat
    BY UsedFacts
  <1> QED BY <1>1, <1>2, <1>3, <1>4, <1>5 DEF Used

\* and puts the frame when it counts it.
LEMMA PutRefines ==
    ASSUME NEW c, Setting(c), FifoInv(c), FifoInv(c)', NEW p \in Producers, PutDone(p)
    PROVE  /\ frame[p] \in Frame
           /\ accepted' = Append(accepted, frame[p]) /\ UNCHANGED delivered
           /\ Used + frame[p].size <= DataSize - 1 + LargestFrame
           /\ Used' = Used + frame[p].size
  <1>1. frame[p] \in Frame /\ frame[p].size \in Nat /\ wLock = p /\ pcP[p] = "count"
    BY FrameFields DEF PutDone, FifoInv, IInv, PutInv, Writing
  <1>2. /\ UNCHANGED <<allocIndex, exeIndex, rLock, pcC, header, delivered>>
        /\ accepted' = Append(accepted, frame[p]) /\ wLock' = Released
    BY DEF PutDone, getVars
  <1>3. NotCounted = frame[p].size
    BY <1>1, UsedFacts
  <1>4. NotCounted' = 0
    <2>1. wLock' \notin Producers
      BY <1>2, LockAssumption DEF Released
    <2> QED BY <2>1 DEF NotCounted
  <1>5. Occupied' = Occupied /\ InHand' = InHand
    BY <1>2 DEF Occupied, InHand
  <1>6. Occupied \in 0..(DataSize - 1) /\ InHand \in 0..LargestFrame /\ LargestFrame \in Nat
    BY UsedFacts
  <1>7. DataSize \in Nat
    BY SizesAssumption
  <1> QED BY <1>1, <1>2, <1>3, <1>4, <1>5, <1>6, <1>7 DEF Used

\* get does nothing to the queue before it has moved exe_index,
LEMMA QuietGetRefines ==
    ASSUME NEW c, Setting(c), FifoInv(c), FifoInv(c)', [Next]_vars, c \in Consumers,
           \/ GetNothing(c) \/ GetCall(c) \/ AcquireReadLock(c) \/ ReadLockTimeout(c)
           \/ ReadHeader(c) \/ ReadData(c) \/ ClearFrame(c) \/ UNCHANGED vars
    PROVE  UNCHANGED <<accepted, delivered>> /\ Used' = Used
  <1>1. IInv /\ IInv'
    BY DEF FifoInv
  <1>2. UNCHANGED <<allocIndex, exeIndex, pcP, frame, accepted, delivered>>
    BY DEF GetNothing, GetCall, AcquireReadLock, ReadLockTimeout, ReadHeader, ReadData,
        ClearFrame, vars, ringVars, putVars, history
  <1>3. \A d \in Consumers : /\ (pcC'[d] = "check") = (pcC[d] = "check")
                             /\ (pcC[d] = "check" => header'[d] = header[d])
    BY <1>1 DEF GetNothing, GetCall, AcquireReadLock, ReadLockTimeout, ReadHeader, ReadData,
        ClearFrame, vars, getVars, GotoC, IInv, TypeOK, GetTypeOK, Setting
  <1>4. Occupied' = Occupied
    BY <1>2 DEF Occupied
  <1> QED BY <1>1, <1>2, <1>3, <1>4, UsedKept

\* nor when it moves it,
LEMMA ExeRefines ==
    ASSUME NEW c, Setting(c), FifoInv(c), FifoInv(c)', c \in Consumers, AdvanceExeIndex(c)
    PROVE  UNCHANGED <<accepted, delivered>> /\ Used' = Used
  <1>0. PICK at \in [1..(Frames + 1) -> Nat] : Fifo(c, at)
    BY DEF FifoInv, LaidOut, Fifo
  <1>1. /\ UNCHANGED <<allocIndex, wLock, rLock, pcP, frame, behind, header, accepted, delivered>>
        /\ exeIndex' = Plus(exeIndex, header[c].size)
        /\ pcC[c] = "advance" /\ pcC'[c] = "check"
    BY DEF AdvanceExeIndex, GotoC, putVars, history, FifoInv, IInv, TypeOK, GetTypeOK
  <1>2. rLock = c
    BY <1>1 DEF FifoInv, IInv, GetInv, Reading
  <1>3. /\ header[c].size = accepted[Gone + 1].size /\ accepted[Gone + 1].size <= Ahead(c, at)
        /\ Ahead(c, at) <= Occupied /\ Ahead(c, at) \in Nat /\ Gone + 1 <= Frames
        /\ Gone \in Nat /\ Frames \in Nat
        /\ \A k \in 1..Frames : accepted[k] \in Frame /\ accepted[k].size \in 3..DataSize
    BY <1>0, <1>1, LayoutFacts
  <1>4. header[c].size \in 3..DataSize
    BY <1>3
  <1>5. Occupied \in Nat /\ NotCounted \in Nat /\ NotCounted' = NotCounted /\ InHand = 0
    <2>1. Occupied \in Nat /\ InHand = 0
      BY <1>1, UsedFacts
    <2>2. NotCounted' = NotCounted
      BY <1>1 DEF NotCounted
    <2>3. NotCounted \in Nat
      <3>1. CASE \A p \in Producers : pcP[p] # "count"
        BY <3>1, UsedFacts
      <3>2. ASSUME NEW p \in Producers, pcP[p] = "count" PROVE NotCounted \in Nat
        <4>1. frame[p].size \in 3..DataSize
          BY <3>2, FrameFields DEF FifoInv, IInv, PutInv, Writing
        <4> QED BY <3>2, <4>1, UsedFacts
      <3> QED BY <3>1, <3>2
    <2> QED BY <2>1, <2>2, <2>3
  <1>6. header[c].size \in Nat /\ header[c].size > 0 /\ header[c].size <= Occupied
    BY <1>3, <1>4, <1>5
  <1>7. Occupied' = Occupied - header[c].size
    BY <1>0, <1>1, <1>6, ExeAdvances DEF Fifo
  <1>8. InHand' = header[c].size
    BY <1>1, <1>2 DEF InHand
  <1> QED BY <1>1, <1>5, <1>6, <1>7, <1>8 DEF Used

\* and gets the oldest frame when it counts it.
LEMMA GetRefines ==
    ASSUME NEW c, Setting(c), FifoInv(c), FifoInv(c)', c \in Consumers, GetDone(c)
    PROVE  /\ Gone < Frames /\ Gone \in Nat
           /\ delivered' = Append(delivered, accepted[Gone + 1]) /\ UNCHANGED accepted
           /\ Used' = Used - accepted[Gone + 1].size
  <1>0. PICK at \in [1..(Frames + 1) -> Nat] : Fifo(c, at)
    BY DEF FifoInv, LaidOut, Fifo
  <1>1. delivered' = Append(delivered, accepted[Gone + 1])
    BY <1>0, GetDoneStep
  <1>2. /\ UNCHANGED <<allocIndex, exeIndex, wLock, pcP, frame, accepted>>
        /\ rLock' = Released /\ pcC[c] = "check"
    BY DEF GetDone, LeaveGet, putVars
  <1>3. Gone < Frames /\ Gone \in Nat /\ Frames \in Nat
    BY <1>2 DEF FifoInv, Ledger, CountInv, IInv, TypeOK, HistoryTypeOK, Gone, Frames
  <1>4. accepted[Gone + 1].size \in Nat
    <2>1. Gone + 1 \in 1..Frames
      BY <1>3
    <2> QED BY <2>1, <1>0, LayoutFacts
  <1>5. InHand = accepted[Gone + 1].size
    BY <1>2, UsedFacts
  <1>6. InHand' = 0
    <2>1. rLock' \notin Consumers
      BY <1>2, LockAssumption DEF Released
    <2> QED BY <2>1 DEF InHand
  <1>7. Occupied' = Occupied /\ NotCounted' = NotCounted
    BY <1>2 DEF Occupied, NotCounted
  <1>8. Occupied \in Nat /\ NotCounted \in Nat
    <2>1. CASE \A p \in Producers : pcP[p] # "count"
      BY <2>1, UsedFacts
    <2>2. ASSUME NEW p \in Producers, pcP[p] = "count" PROVE NotCounted \in Nat
      <3>1. frame[p].size \in 3..DataSize
        BY <2>2, FrameFields DEF FifoInv, IInv, PutInv, Writing
      <3> QED BY <2>2, <3>1, UsedFacts
    <2> QED BY <2>1, <2>2, UsedFacts
  <1> QED BY <1>1, <1>2, <1>3, <1>4, <1>5, <1>6, <1>7, <1>8 DEF Used

\* Every step of MemQueue is a step of FrameQueue or none.
LEMMA StepRefines ==
    ASSUME NEW c, Setting(c), FifoInv(c), FifoInv(c)', [Next]_vars
    PROVE  [FQ!Next]_(FQ!vars)
  <1>0. PICK at \in [1..(Frames + 1) -> Nat] : Fifo(c, at)
    BY DEF FifoInv, LaidOut, Fifo
  <1>1. c \in Consumers /\ \A d \in Consumers : d = c
    BY DEF Setting
  <1>2. accepted \in Seq(Frame) /\ delivered \in Seq(Frame)
    BY DEF FifoInv, IInv, TypeOK, HistoryTypeOK
  <1>3. ASSUME UNCHANGED <<accepted, delivered>>, Used' = Used
        PROVE  [FQ!Next]_(FQ!vars)
    BY <1>3 DEF FQ!vars, Used
  <1>4. ASSUME NEW p \in Producers, PutStep(p) \/ \E n \in FrameSizes : PutCall(p, n)
        PROVE  [FQ!Next]_(FQ!vars)
    <2>1. CASE QuietStep(p) \/ WriteCell(p)
      BY <2>1, <1>3, QuietPutRefines
    <2>2. CASE AdvanceAllocIndex(p)
      BY <2>2, <1>3, AllocRefines
    <2>3. CASE PutDone(p)
      <3>1. /\ frame[p] \in Frame
            /\ accepted' = Append(accepted, frame[p]) /\ UNCHANGED delivered
            /\ Used + frame[p].size <= DataSize - 1 + LargestFrame
            /\ Used' = Used + frame[p].size
        BY <2>3, PutRefines
      <3>2. Len(delivered) \in Nat /\ Len(delivered) <= Len(accepted)
        BY <1>2 DEF FifoInv, Ledger, CountInv, Gone, Frames
      <3>3. Queued' = Append(Queued, frame[p])
        BY <1>2, <3>1, <3>2, SubSeqAppend DEF Queued
      <3>4. FQ!Put(frame[p])
        BY <3>1, <3>3 DEF FQ!Put, Queued, Used
      <3> QED BY <3>1, <3>4 DEF FQ!Next
    <2> QED BY <1>4, <2>1, <2>2, <2>3 DEF PutStep, QuietStep
  <1>5. ASSUME GetStep(c) PROVE [FQ!Next]_(FQ!vars)
    <2>1. CASE \/ GetNothing(c) \/ GetCall(c) \/ AcquireReadLock(c) \/ ReadLockTimeout(c)
               \/ ReadHeader(c) \/ ReadData(c) \/ ClearFrame(c)
      BY <2>1, <1>1, <1>3, QuietGetRefines
    <2>2. CASE AdvanceExeIndex(c)
      BY <2>2, <1>1, <1>3, ExeRefines
    <2>3. CASE GetDone(c)
      <3>1. /\ Gone < Frames /\ Gone \in Nat
            /\ delivered' = Append(delivered, accepted[Gone + 1]) /\ UNCHANGED accepted
            /\ Used' = Used - accepted[Gone + 1].size
        BY <1>1, <2>3, GetRefines
      <3>2. /\ Queued # <<>> /\ Head(Queued) = accepted[Gone + 1]
            /\ Tail(Queued) = SubSeq(accepted, (Gone + 1) + 1, Len(accepted))
        BY <1>2, <3>1, SubSeqTail DEF Queued, Gone, Frames
      <3>3. Len(delivered') = Gone + 1
        BY <1>2, <3>1 DEF Gone
      <3>4. Queued' = Tail(Queued)
        BY <3>1, <3>2, <3>3 DEF Queued
      <3>5. FQ!Get
        BY <3>1, <3>2, <3>4 DEF FQ!Get, Queued, Used
      <3> QED BY <3>5 DEF FQ!Next
    <2> QED BY <1>0, <1>1, <1>5, <2>1, <2>2, <2>3, NothingBroken DEF GetStep
  <1>6. /\ \A p \in Producers : ~CrashP(p)
        /\ \A d \in Consumers : ~CrashC(d)
    BY DEF Setting, CrashP, CrashC, FifoInv, IInv, TypeOK, HistoryTypeOK
  <1>7. CASE UNCHANGED vars
    BY <1>1, <1>3, <1>7, QuietGetRefines
  <1>8. CASE Next
    BY <1>1, <1>4, <1>5, <1>6, <1>8 DEF Next
  <1> QED BY <1>7, <1>8

\* put and get on the ring, cell by cell, implement the bounded first-in first-out
\* queue FrameQueue (its safety part): put appends one whole frame, get takes the
\* oldest, and the frames never take more than the ring and one frame.
THEOREM ImplementsFrameQueue ==
    ASSUME NEW c, Setting(c)
    PROVE  Spec => FQ!Safety
  <1>1. Init => FQ!Init
    <2> SUFFICES ASSUME Init PROVE FQ!Init
      OBVIOUS
    <2>1. /\ accepted = <<>> /\ delivered = <<>> /\ allocIndex = 0 /\ exeIndex = 0
          /\ wLock = Free /\ rLock = Free
      BY DEF Init
    <2>2. Occupied = 0 /\ NotCounted = 0 /\ InHand = 0
      BY <2>1, LockAssumption DEF Occupied, NotCounted, InHand
    <2> QED BY <2>1, <2>2 DEF FQ!Init
  <1>2. FifoInv(c) /\ FifoInv(c)' /\ [Next]_vars => [FQ!Next]_(FQ!vars)
    BY StepRefines
  <1> QED BY <1>1, <1>2, FifoInvariance, PTL DEF Spec, FQ!Safety
=============================================================================
