------------------------------- MODULE RingLog -------------------------------
(***************************************************************************)
(* CRingLog of log/log.cpp and CBufferCell of log/log.h: producer threads  *)
(* append log records to a ring of buffer cells in shared memory, and one  *)
(* consumer thread writes full cells to the log file.  The ring is guarded *)
(* by the mutex m_cLocker; m_uLastLogFailTime is not.                      *)
(*                                                                         *)
(* A cell is named by the offset of its shared memory key from SHMKEY.  A  *)
(* record is its producer, the number of the producer's call and its       *)
(* length in units of which a cell holds CellCap.                          *)
(*                                                                         *)
(* Not here: the choice of the log file (DecisFile only succeeds or fails) *)
(* and the shared memory ids a restarted process follows.                  *)
(***************************************************************************)
EXTENDS Naturals, Sequences, FiniteSets

CONSTANTS
  Producers,      \* threads that call TryAppendLog
  Lens,           \* lengths of records
  CellCap,        \* m_uTolLength, what one cell holds
  MaxBuffCnt,     \* LOGFILEMEMLIMIT / m_uOneBuffLen, the limit of m_iBuffCnt
  RELOGTHRESOLD,  \* log.cpp:14
  MaxCalls,       \* bound of the model: calls of TryAppendLog per producer
  MaxClock,       \* bound of the model: seconds the clock counts
  NULL            \* no thread

ASSUME RingAssumption ==
  /\ CellCap \in Nat
  /\ Lens \subseteq 1..CellCap
  /\ MaxBuffCnt \in Nat /\ MaxBuffCnt >= 3
  /\ RELOGTHRESOLD \in Nat
  /\ MaxCalls \in Nat
  /\ MaxClock \in Nat \ {0}
  /\ NULL \notin Producers
  /\ NULL \notin [p : Producers, n : 1..MaxCalls, len : Lens]

Cells == 0 .. MaxBuffCnt - 1
Records == [p : Producers, n : 1..MaxCalls, len : Lens]

VARIABLES
  m_eStatus,           \* cell: "FREE" or "FULL"
  m_aData,             \* cell: the records it holds, in order
  m_uCurLength,        \* cell: their length
  m_pNext,             \* cell: the next one in the ring
  m_iBuffCnt,
  m_pCurBuf,           \* the cell the producers append to
  m_pPrstBuf,          \* the cell the consumer writes to the file next
  m_uLastLogFailTime,  \* 0, or the second in which a record was refused
  m_cLocker,           \* the producer that holds the mutex between steps, or NULL
  clock,
  ppc,                 \* producer: "idle", "gate", "reset", "lock", "tail"
  rec,                 \* producer: logLine of the current or last call
  curSec,              \* producer: its local variable curSec
  calls,               \* producer: number of calls so far
  cpc,                 \* consumer: "check", "wait", "open", "persist", "clear"
  disk,                \* the log file: the batches written, in order
  dropped,             \* history: the records TryAppendLog did not store
  fullQ                \* auxiliary: the FULL cells, in the order they were filled

cellVars == <<m_eStatus, m_aData, m_uCurLength>>
ringVars == <<m_pNext, m_iBuffCnt>>
prodVars == <<ppc, rec, curSec, calls>>
vars == <<m_eStatus, m_aData, m_uCurLength, m_pNext, m_iBuffCnt, m_pCurBuf,
          m_pPrstBuf, m_uLastLogFailTime, m_cLocker, clock, ppc, rec, curSec,
          calls, cpc, disk, dropped, fullQ>>

\* The constructor attaches key SHMKEY once and key SHMKEY + 1 in each of the
\* m_iBuffCnt - 1 rounds of its loop, that is twice the same segment: the ring
\* has the two cells 0 and 1 though m_iBuffCnt is 3.  Later cells have keys of
\* their own, from SHMKEY + 3 on.
Ring == {0, 1} \cup 3 .. m_iBuffCnt - 1

Init ==
  /\ m_eStatus = [c \in Cells |-> "FREE"]
  /\ m_aData = [c \in Cells |-> <<>>]
  /\ m_uCurLength = [c \in Cells |-> 0]
  /\ m_pNext = [c \in Cells |-> IF c = 0 THEN 1 ELSE 0]
  /\ m_iBuffCnt = 3
  /\ m_pCurBuf = 0
  /\ m_pPrstBuf = 0
  /\ m_uLastLogFailTime = 0
  /\ m_cLocker = NULL
  /\ clock = 1
  /\ ppc = [p \in Producers |-> "idle"]
  /\ rec = [p \in Producers |-> NULL]
  /\ curSec = [p \in Producers |-> 0]
  /\ calls = [p \in Producers |-> 0]
  /\ cpc = "check"
  /\ disk = <<>>
  /\ dropped = {}
  /\ fullQ = <<>>

ClockTick ==
  /\ clock < MaxClock
  /\ clock' = clock + 1
  /\ UNCHANGED <<cellVars, ringVars, m_pCurBuf, m_pPrstBuf, m_uLastLogFailTime,
                 m_cLocker, prodVars, cpc, disk, dropped, fullQ>>
-----------------------------------------------------------------------------
(* A producer: TryAppendLog *)

\* GetCurTime
Enter(p) ==
  /\ ppc[p] = "idle"
  /\ calls[p] < MaxCalls
  /\ calls' = [calls EXCEPT ![p] = @ + 1]
  /\ \E len \in Lens : rec' = [rec EXCEPT ![p] = [p |-> p, n |-> calls[p] + 1, len |-> len]]
  /\ curSec' = [curSec EXCEPT ![p] = clock]
  /\ ppc' = [ppc EXCEPT ![p] = "gate"]
  /\ UNCHANGED <<cellVars, ringVars, m_pCurBuf, m_pPrstBuf, m_uLastLogFailTime,
                 m_cLocker, clock, cpc, disk, dropped, fullQ>>

\* The test of line 208.  The difference is unsigned: a curSec read before
\* another thread stored a later second passes.
Suppressed(p) ==
  /\ m_uLastLogFailTime # 0
  /\ curSec[p] >= m_uLastLogFailTime
  /\ curSec[p] - m_uLastLogFailTime < RELOGTHRESOLD

Drop(p) ==
  /\ dropped' = dropped \cup {rec[p]}
  /\ ppc' = [ppc EXCEPT ![p] = "idle"]

GateDrop(p) ==
  /\ ppc[p] = "gate"
  /\ Suppressed(p)
  /\ Drop(p)
  /\ UNCHANGED <<cellVars, ringVars, m_pCurBuf, m_pPrstBuf, m_uLastLogFailTime,
                 m_cLocker, clock, rec, curSec, calls, cpc, disk, fullQ>>

GatePass(p) ==
  /\ ppc[p] = "gate"
  /\ ~Suppressed(p)
  /\ ppc' = [ppc EXCEPT ![p] = "reset"]
  /\ UNCHANGED <<cellVars, ringVars, m_pCurBuf, m_pPrstBuf, m_uLastLogFailTime,
                 m_cLocker, clock, rec, curSec, calls, cpc, disk, dropped, fullQ>>

\* Line 224, without the mutex
ResetFailTime(p) ==
  /\ ppc[p] = "reset"
  /\ m_uLastLogFailTime' = 0
  /\ ppc' = [ppc EXCEPT ![p] = "lock"]
  /\ UNCHANGED <<cellVars, ringVars, m_pCurBuf, m_pPrstBuf, m_cLocker, clock,
                 rec, curSec, calls, cpc, disk, dropped, fullQ>>

\* Mutant of Fits: one unit too many.
FitsOffByOne(c, r) == CellCap - m_uCurLength[c] + 1 >= r.len

\* CBufferCell::GetFreeLen() >= len, and CBufferCell::Append
Fits(c, r) == CellCap - m_uCurLength[c] >= r.len

CellAppend(c, r) ==
  /\ m_aData' = [m_aData EXCEPT ![c] = Append(@, r)]
  /\ m_uCurLength' = [m_uCurLength EXCEPT ![c] = @ + r.len]

\* The producer holds the mutex at line 230 and finds
Locks(p) == ppc[p] = "lock" /\ m_cLocker = NULL

\* - a FREE cell with room,
AppendToCur(p) ==
  /\ Locks(p)
  /\ m_eStatus[m_pCurBuf] = "FREE"
  /\ Fits(m_pCurBuf, rec[p])
  /\ CellAppend(m_pCurBuf, rec[p])
  /\ ppc' = [ppc EXCEPT ![p] = "idle"]
  /\ UNCHANGED <<m_eStatus, ringVars, m_pCurBuf, m_pPrstBuf, m_uLastLogFailTime,
                 m_cLocker, clock, rec, curSec, calls, cpc, disk, dropped, fullQ>>

\* Mutant of SealCur: the status is not changed.
SealCurStaysFree(p) ==
  /\ Locks(p)
  /\ m_eStatus[m_pCurBuf] = "FREE"
  /\ ~Fits(m_pCurBuf, rec[p])
  /\ fullQ' = Append(fullQ, m_pCurBuf)
  /\ m_cLocker' = p
  /\ ppc' = [ppc EXCEPT ![p] = "tail"]
  /\ UNCHANGED <<cellVars, m_pPrstBuf, clock, rec, curSec, calls, cpc, disk, dropped>>

\* - a FREE cell without: it becomes FULL, the mutex stays locked up to line 279,
SealCur(p) ==
  /\ Locks(p)
  /\ m_eStatus[m_pCurBuf] = "FREE"
  /\ ~Fits(m_pCurBuf, rec[p])
  /\ m_eStatus' = [m_eStatus EXCEPT ![m_pCurBuf] = "FULL"]
  /\ fullQ' = Append(fullQ, m_pCurBuf)
  /\ m_cLocker' = p
  /\ ppc' = [ppc EXCEPT ![p] = "tail"]
  /\ UNCHANGED <<m_aData, m_uCurLength, m_pPrstBuf, clock, rec, curSec, calls,
                 cpc, disk, dropped>>

\* Mutant of SealAndMove: the successor's status is not looked at.
SealAndMoveAnyway(p) ==
  /\ SealCur(p)
  /\ m_pCurBuf' = m_pNext[m_pCurBuf]
  /\ UNCHANGED <<ringVars, m_uLastLogFailTime>>

\*   with a FREE successor,
SealAndMove(p) ==
  /\ SealCur(p)
  /\ m_eStatus[m_pNext[m_pCurBuf]] = "FREE"
  /\ m_pCurBuf' = m_pNext[m_pCurBuf]
  /\ UNCHANGED <<ringVars, m_uLastLogFailTime>>

\* Mutant of SealAndExpand: line 260 is missing, the new cell has no successor.
SealAndExpandOpen(p) ==
  /\ SealCur(p)
  /\ m_eStatus[m_pNext[m_pCurBuf]] = "FULL"
  /\ m_iBuffCnt + 1 <= MaxBuffCnt
  /\ m_iBuffCnt' = m_iBuffCnt + 1
  /\ m_pNext' = [m_pNext EXCEPT ![m_pCurBuf] = m_iBuffCnt]
  /\ m_pCurBuf' = m_iBuffCnt
  /\ UNCHANGED m_uLastLogFailTime

\*   with a FULL successor, and memory for a new cell,
SealAndExpand(p) ==
  /\ SealCur(p)
  /\ m_eStatus[m_pNext[m_pCurBuf]] = "FULL"
  /\ m_iBuffCnt + 1 <= MaxBuffCnt
  /\ m_iBuffCnt' = m_iBuffCnt + 1
  /\ m_pNext' = [m_pNext EXCEPT ![m_pCurBuf] = m_iBuffCnt,
                                ![m_iBuffCnt] = m_pNext[m_pCurBuf]]
  /\ m_pCurBuf' = m_iBuffCnt
  /\ UNCHANGED m_uLastLogFailTime

\*   with a FULL successor, and no memory,
SealAtLimit(p) ==
  /\ SealCur(p)
  /\ m_eStatus[m_pNext[m_pCurBuf]] = "FULL"
  /\ m_iBuffCnt + 1 > MaxBuffCnt
  /\ m_pCurBuf' = m_pNext[m_pCurBuf]
  /\ m_uLastLogFailTime' = curSec[p]
  /\ UNCHANGED ringVars

\* - or a FULL cell: the record is lost.
Refuse(p) ==
  /\ Locks(p)
  /\ m_eStatus[m_pCurBuf] = "FULL"
  /\ m_uLastLogFailTime' = curSec[p]
  /\ Drop(p)
  /\ UNCHANGED <<cellVars, ringVars, m_pCurBuf, m_pPrstBuf, m_cLocker, clock,
                 rec, curSec, calls, cpc, disk, fullQ>>

\* Lines 271-279 after a cell was filled: m_uLastLogFailTime may have been reset
\* by another thread since line 250, or stored by one since line 224.
TailAppend(p) ==
  /\ ppc[p] = "tail"
  /\ m_uLastLogFailTime = 0
  /\ Fits(m_pCurBuf, rec[p])
  /\ CellAppend(m_pCurBuf, rec[p])
  /\ m_cLocker' = NULL
  /\ ppc' = [ppc EXCEPT ![p] = "idle"]
  /\ UNCHANGED <<m_eStatus, ringVars, m_pCurBuf, m_pPrstBuf, m_uLastLogFailTime,
                 clock, rec, curSec, calls, cpc, disk, dropped, fullQ>>

TailDrop(p) ==
  /\ ppc[p] = "tail"
  /\ m_uLastLogFailTime # 0 \/ ~Fits(m_pCurBuf, rec[p])
  /\ Drop(p)
  /\ m_cLocker' = NULL
  /\ UNCHANGED <<cellVars, ringVars, m_pCurBuf, m_pPrstBuf, m_uLastLogFailTime,
                 clock, rec, curSec, calls, cpc, disk, fullQ>>

-----------------------------------------------------------------------------
(* The consumer: PersistLog *)

ConsumerFrame == UNCHANGED <<m_uLastLogFailTime, m_cLocker, clock, prodVars, dropped>>

\* Lines 290-298.  A FREE cell: wait, with the mutex released, for a signal or
\* until a second has passed.
Check ==
  /\ cpc = "check"
  /\ m_cLocker = NULL
  /\ cpc' = IF m_eStatus[m_pPrstBuf] = "FREE" THEN "wait"
            ELSE IF m_uCurLength[m_pPrstBuf] = 0 THEN "check"
            ELSE "open"
  /\ UNCHANGED <<cellVars, ringVars, m_pCurBuf, m_pPrstBuf, disk, fullQ>>
  /\ ConsumerFrame

\* The wait ends, with the mutex held; the cell is empty,
WakeEmpty ==
  /\ cpc = "wait"
  /\ m_cLocker = NULL
  /\ m_uCurLength[m_pPrstBuf] = 0
  /\ cpc' = "check"
  /\ UNCHANGED <<cellVars, ringVars, m_pCurBuf, m_pPrstBuf, disk, fullQ>>
  /\ ConsumerFrame

\* or has become FULL,
WakeFull ==
  /\ cpc = "wait"
  /\ m_cLocker = NULL
  /\ m_uCurLength[m_pPrstBuf] # 0
  /\ m_eStatus[m_pPrstBuf] = "FULL"
  /\ cpc' = "open"
  /\ UNCHANGED <<cellVars, ringVars, m_pCurBuf, m_pPrstBuf, disk, fullQ>>
  /\ ConsumerFrame

\* Mutant of WakePartial: line 313 is missing, m_pCurBuf stays.
WakePartialStays ==
  /\ cpc = "wait"
  /\ m_cLocker = NULL
  /\ m_uCurLength[m_pPrstBuf] # 0
  /\ m_eStatus[m_pPrstBuf] = "FREE"
  /\ m_eStatus' = [m_eStatus EXCEPT ![m_pCurBuf] = "FULL"]
  /\ fullQ' = Append(fullQ, m_pCurBuf)
  /\ cpc' = "open"
  /\ UNCHANGED <<m_aData, m_uCurLength, ringVars, m_pCurBuf, m_pPrstBuf, disk>>
  /\ ConsumerFrame

\* or is partly filled: the consumer makes it FULL (lines 307-314; see
\* PartialIsCur for the assertion of line 310).
WakePartial ==
  /\ cpc = "wait"
  /\ m_cLocker = NULL
  /\ m_uCurLength[m_pPrstBuf] # 0
  /\ m_eStatus[m_pPrstBuf] = "FREE"
  /\ m_eStatus' = [m_eStatus EXCEPT ![m_pCurBuf] = "FULL"]
  /\ fullQ' = Append(fullQ, m_pCurBuf)
  /\ m_pCurBuf' = m_pNext[m_pCurBuf]
  /\ cpc' = "open"
  /\ UNCHANGED <<m_aData, m_uCurLength, ringVars, m_pPrstBuf, disk>>
  /\ ConsumerFrame

\* DecisFile opened, kept or changed the file,
FileReady ==
  /\ cpc = "open"
  /\ cpc' = "persist"
  /\ UNCHANGED <<cellVars, ringVars, m_pCurBuf, m_pPrstBuf, disk, fullQ>>
  /\ ConsumerFrame

\* or could not.
FileFails ==
  /\ cpc = "open"
  /\ cpc' = "check"
  /\ UNCHANGED <<cellVars, ringVars, m_pCurBuf, m_pPrstBuf, disk, fullQ>>
  /\ ConsumerFrame

\* Mutant of Persist: the producers' cell is written.
PersistCur ==
  /\ cpc = "persist"
  /\ disk' = Append(disk, m_aData[m_pCurBuf])
  /\ cpc' = "clear"
  /\ UNCHANGED <<cellVars, ringVars, m_pCurBuf, m_pPrstBuf, fullQ>>
  /\ ConsumerFrame

\* CBufferCell::Persist, without the mutex
Persist ==
  /\ cpc = "persist"
  /\ disk' = Append(disk, m_aData[m_pPrstBuf])
  /\ cpc' = "clear"
  /\ UNCHANGED <<cellVars, ringVars, m_pCurBuf, m_pPrstBuf, fullQ>>
  /\ ConsumerFrame

\* fwrite wrote less than the cell holds: a message on stderr, nothing else.
PersistShort ==
  /\ cpc = "persist"
  /\ \E k \in 0 .. Len(m_aData[m_pPrstBuf]) - 1 :
       disk' = Append(disk, SubSeq(m_aData[m_pPrstBuf], 1, k))
  /\ cpc' = "clear"
  /\ UNCHANGED <<cellVars, ringVars, m_pCurBuf, m_pPrstBuf, fullQ>>
  /\ ConsumerFrame

\* Mutants of Clear: the records stay, and the consumer stays.
ClearKeepsData ==
  /\ cpc = "clear"
  /\ m_cLocker = NULL
  /\ m_eStatus' = [m_eStatus EXCEPT ![m_pPrstBuf] = "FREE"]
  /\ fullQ' = Tail(fullQ)
  /\ m_pPrstBuf' = m_pNext[m_pPrstBuf]
  /\ cpc' = "check"
  /\ UNCHANGED <<m_aData, m_uCurLength, ringVars, m_pCurBuf, disk>>
  /\ ConsumerFrame

ClearStays ==
  /\ cpc = "clear"
  /\ m_cLocker = NULL
  /\ m_uCurLength' = [m_uCurLength EXCEPT ![m_pPrstBuf] = 0]
  /\ m_aData' = [m_aData EXCEPT ![m_pPrstBuf] = <<>>]
  /\ m_eStatus' = [m_eStatus EXCEPT ![m_pPrstBuf] = "FREE"]
  /\ fullQ' = Tail(fullQ)
  /\ cpc' = "check"
  /\ UNCHANGED <<ringVars, m_pCurBuf, m_pPrstBuf, disk>>
  /\ ConsumerFrame

\* Lines 329-333: ClearBuffer, and on to the next cell
Clear ==
  /\ cpc = "clear"
  /\ m_cLocker = NULL
  /\ m_uCurLength' = [m_uCurLength EXCEPT ![m_pPrstBuf] = 0]
  /\ m_aData' = [m_aData EXCEPT ![m_pPrstBuf] = <<>>]
  /\ m_eStatus' = [m_eStatus EXCEPT ![m_pPrstBuf] = "FREE"]
  /\ fullQ' = Tail(fullQ)
  /\ m_pPrstBuf' = m_pNext[m_pPrstBuf]
  /\ cpc' = "check"
  /\ UNCHANGED <<ringVars, m_pCurBuf, disk>>
  /\ ConsumerFrame

-----------------------------------------------------------------------------
Produce(p) ==
  \/ Enter(p) \/ GateDrop(p) \/ GatePass(p) \/ ResetFailTime(p)
  \/ AppendToCur(p) \/ SealAndMove(p) \/ SealAndExpand(p) \/ Refuse(p)
  \/ TailAppend(p) \/ TailDrop(p)

Consume ==
  \/ Check \/ WakeEmpty \/ WakeFull \/ WakePartial
  \/ FileReady \/ FileFails \/ Persist \/ Clear

\* Everything but a short write and the memory limit
NextGood == ClockTick \/ (\E p \in Producers : Produce(p)) \/ Consume

NextBelow == NextGood \/ PersistShort

Next == NextBelow \/ \E p \in Producers : SealAtLimit(p)

\* All behaviours; those that stay below the memory limit of 3 GB; those in
\* which, besides, every fwrite is complete.
Spec == Init /\ [][Next]_vars
SpecBelow == Init /\ [][NextBelow]_vars
SpecGood == Init /\ [][NextGood]_vars

\* Producers inside TryAppendLog and the consumer keep running.  pthread_mutex
\* serves every thread that keeps asking for it (SF); an fopen that can succeed
\* again and again does succeed (SF).  Calls of TryAppendLog are not promised.
Fairness ==
  /\ \A p \in Producers :
       /\ WF_vars(GateDrop(p) \/ GatePass(p) \/ ResetFailTime(p))
       /\ SF_vars(AppendToCur(p) \/ SealAndMove(p) \/ SealAndExpand(p) \/ Refuse(p))
       /\ WF_vars(TailAppend(p) \/ TailDrop(p))
  /\ SF_vars(Check) /\ SF_vars(WakeEmpty \/ WakeFull \/ WakePartial)
  /\ SF_vars(FileReady) /\ WF_vars(Persist) /\ SF_vars(Clear)

LiveSpec == SpecGood /\ Fairness

-----------------------------------------------------------------------------
(* Properties *)

\* Types, and who holds the mutex between two steps
TypeOK ==
  /\ m_eStatus \in [Cells -> {"FREE", "FULL"}]
  /\ m_aData \in [Cells -> Seq(Records)]
  /\ m_uCurLength \in [Cells -> 0..CellCap]
  /\ m_pNext \in [Cells -> Cells]
  /\ m_iBuffCnt \in 3..MaxBuffCnt
  /\ m_pCurBuf \in Ring /\ m_pPrstBuf \in Ring
  /\ m_uLastLogFailTime \in 0..MaxClock
  /\ m_cLocker \in Producers \cup {NULL}
  /\ clock \in 1..MaxClock
  /\ ppc \in [Producers -> {"idle", "gate", "reset", "lock", "tail"}]
  /\ rec \in [Producers -> Records \cup {NULL}]
  /\ curSec \in [Producers -> 0..MaxClock]
  /\ calls \in [Producers -> 0..MaxCalls]
  /\ cpc \in {"check", "wait", "open", "persist", "clear"}
  /\ disk \in Seq(Seq(Records))
  /\ dropped \subseteq Records
  /\ fullQ \in Seq(Cells)
  /\ \A p \in Producers :
       /\ ppc[p] # "idle" => rec[p] \in Records /\ curSec[p] # 0
       /\ ppc[p] = "tail" <=> m_cLocker = p

\* The ring is one cycle through all its cells, however it was expanded
\* (log.cpp:254-264): no cell is lost and none is reached twice.
RingIsOneCycle ==
  /\ \A c \in Ring : m_pNext[c] \in Ring
  /\ \A S \in SUBSET Ring :
       S # {} /\ (\A c \in S : m_pNext[c] \in S) => S = Ring

\* The FULL cells are the run of the ring from m_pPrstBuf to just before
\* m_pCurBuf, in the order in which they were filled.
FullRun ==
  /\ {fullQ[i] : i \in DOMAIN fullQ} = {c \in Cells : m_eStatus[c] = "FULL"}
  /\ \A i, j \in DOMAIN fullQ : fullQ[i] = fullQ[j] => i = j
  /\ \A i \in DOMAIN fullQ \ {Len(fullQ)} : fullQ[i+1] = m_pNext[fullQ[i]]
  /\ fullQ = <<>> => m_pCurBuf = m_pPrstBuf
  /\ fullQ # <<>> => m_pPrstBuf = fullQ[1] /\ m_pCurBuf = m_pNext[fullQ[Len(fullQ)]]

\* The assertion of log.cpp:310: a partly filled FREE cell under m_pPrstBuf is
\* the one producers append to.  More generally no other FREE cell holds records,
\* and the consumer never writes a cell that is not FULL.
PartialIsCur ==
  /\ \A c \in Cells : m_eStatus[c] = "FREE" /\ m_uCurLength[c] # 0 => c = m_pCurBuf
  /\ cpc \in {"open", "persist", "clear"} => m_eStatus[m_pPrstBuf] = "FULL"

\* A FULL cell is "being or about to be made persistent" (log/README.md) and is
\* read by the consumer without the mutex: nobody changes its records until the
\* consumer clears it.
FullIsStable ==
  [][\A c \in Cells :
       m_eStatus[c] = "FULL" /\ m_aData'[c] # m_aData[c] =>
         cpc = "clear" /\ c = m_pPrstBuf /\ m_eStatus'[c] = "FREE"]_vars

\* Below the memory limit no record is refused or dropped: a FULL m_pCurBuf
\* (log.cpp:274) or an old fail time (log.cpp:208, 271) never meets a producer.
NothingDropped ==
  dropped = {} /\ m_uLastLogFailTime = 0 /\ m_eStatus[m_pCurBuf] = "FREE"

\* The log file holds the records of each thread in the order of its calls and
\* none of them twice, whatever the consumer, the ring and the mutex do.
DiskInProgramOrder ==
  \A i, j \in DOMAIN disk : \A k \in DOMAIN disk[i], l \in DOMAIN disk[j] :
    (i < j \/ (i = j /\ k < l)) /\ disk[i][k].p = disk[j][l].p
      => disk[i][k].n < disk[j][l].n

Holds(batch, p, n) == \E i \in DOMAIN batch : batch[i].p = p /\ batch[i].n = n
OnDisk(p, n) == \E b \in DOMAIN disk : Holds(disk[b], p, n)

\* Every record handed to TryAppendLog gets into the log file, though fopen may
\* fail for a while and the last cell is never filled up.
RecordsReachDisk ==
  \A p \in Producers, n \in 1..MaxCalls : (calls[p] = n) ~> OnDisk(p, n)

\* The ring implements BatchLog.  A batch whose cell is not yet cleared is on
\* disk already.
Unwritten == IF cpc = "clear" THEN Tail(fullQ) ELSE fullQ
Contents(q, data) == [i \in 1..Len(q) |-> data[q[i]]]
Sealed == Contents(Unwritten, m_aData)

Batches == INSTANCE BatchLog WITH open <- m_aData[m_pCurBuf], sealed <- Sealed

\* Whole batches reach the log file, in the order in which they were filled.
ImplementsBatchLog == Batches!Spec
=============================================================================
