---------------------------- MODULE RingLogProofs ----------------------------
(***************************************************************************)
(* The log ring for any number of producers, cells, records and seconds.   *)
(***************************************************************************)
EXTENDS RingLog, SequenceTheorems, TLAPS

\* What FullRun and PartialIsCur rest on: m_pNext stays inside the ring and
\* leaves every cell, and cells not yet added are unused.
RingClosed ==
  /\ \A c \in Ring : m_pNext[c] \in Ring /\ m_pNext[c] # c
  /\ \A c \in Cells \ Ring : m_eStatus[c] = "FREE"

\* A cell is empty when its length is zero.
LengthOK == \A c \in Cells : m_uCurLength[c] = 0 <=> m_aData[c] = <<>>

\* The inductive invariant of all behaviours, the memory limit included
RingInv == TypeOK /\ RingClosed /\ LengthOK /\ FullRun /\ PartialIsCur

LEMMA RingInCells == TypeOK => Ring \subseteq Cells
<1>1. TypeOK => m_iBuffCnt \in 3..MaxBuffCnt
  BY DEF TypeOK
<1>2. m_iBuffCnt \in 3..MaxBuffCnt => Ring \subseteq Cells
  BY RingAssumption DEF Ring, Cells
<1>. QED
  BY <1>1, <1>2

LEMMA RingInvInit == Init => RingInv
<1>. SUFFICES ASSUME Init PROVE RingInv
  OBVIOUS
<1>. USE RingAssumption DEF Init
<1>1. TypeOK
  BY DEF TypeOK, Ring, Cells
<1>2. RingClosed
  BY DEF RingClosed, Ring, Cells
<1>3. LengthOK
  BY DEF LengthOK
<1>4. FullRun
  BY DEF FullRun
<1>5. PartialIsCur
  BY DEF PartialIsCur
<1>. QED
  BY <1>1, <1>2, <1>3, <1>4, <1>5 DEF RingInv

-----------------------------------------------------------------------------
(* Steps that leave cells, ring and fullQ alone *)

Quiet ==
  /\ UNCHANGED <<cellVars, ringVars, m_pCurBuf, m_pPrstBuf, fullQ>>
  /\ cpc' \in {"open", "persist", "clear"} =>
       m_eStatus[m_pPrstBuf] = "FULL"

LEMMA QuietStep ==
  ASSUME RingInv, Quiet, TypeOK'
  PROVE  RingInv'
<1>. USE DEF RingInv, Quiet, cellVars, ringVars
<1>1. RingClosed'
  BY DEF RingClosed, Ring
<1>2. LengthOK'
  BY DEF LengthOK
<1>3. FullRun'
  BY DEF FullRun
<1>4. PartialIsCur'
  BY DEF PartialIsCur
<1>. QED
  BY <1>1, <1>2, <1>3, <1>4

LEMMA ProducerQuiet ==
  ASSUME RingInv, NEW p \in Producers,
         Enter(p) \/ GateDrop(p) \/ GatePass(p) \/ ResetFailTime(p)
           \/ Refuse(p) \/ TailDrop(p)
  PROVE  RingInv'
<1>. USE RingAssumption DEF RingInv, TypeOK, cellVars, ringVars, prodVars
<1>1. TypeOK'
  <2>1. CASE Enter(p)
    <3>1. \E len \in Lens :
            rec' = [rec EXCEPT ![p] = [p |-> p, n |-> calls[p] + 1, len |-> len]]
      BY <2>1 DEF Enter
    <3>4. calls[p] + 1 \in 1..MaxCalls
      BY <2>1 DEF Enter
    <3>5. \A len \in Lens : [p |-> p, n |-> calls[p] + 1, len |-> len] \in Records
      BY <3>4 DEF Records
    <3>2. rec' \in [Producers -> Records \cup {NULL}] /\ rec'[p] \in Records
      BY <3>1, <3>5
    <3>3. \A q \in Producers : q # p => rec'[q] = rec[q]
      BY <2>1, <3>1 DEF Enter
    <3>6. curSec' \in [Producers -> 0..MaxClock] /\ curSec'[p] # 0
      BY <2>1 DEF Enter
    <3>7. \A q \in Producers : q # p => curSec'[q] = curSec[q] /\ ppc'[q] = ppc[q]
      BY <2>1 DEF Enter
    <3>8. /\ ppc' \in [Producers -> {"idle", "gate", "reset", "lock", "tail"}]
          /\ ppc[p] = "idle" /\ ppc'[p] = "gate"
          /\ calls' \in [Producers -> 0..MaxCalls]
      BY <2>1, <3>4 DEF Enter
    <3>. QED
      BY <2>1, <3>2, <3>3, <3>6, <3>7, <3>8 DEF Enter, Ring
  <2>2. CASE GateDrop(p)
    BY <2>2 DEF GateDrop, Drop, Ring
  <2>3. CASE GatePass(p)
    BY <2>3 DEF GatePass, Ring
  <2>4. CASE ResetFailTime(p)
    BY <2>4 DEF ResetFailTime, Ring
  <2>5. CASE Refuse(p)
    BY <2>5 DEF Refuse, Locks, Drop, Ring
  <2>6. CASE TailDrop(p)
    BY <2>6 DEF TailDrop, Drop, Ring
  <2>. QED
    BY <2>1, <2>2, <2>3, <2>4, <2>5, <2>6
<1>2. Quiet
  BY DEF Enter, GateDrop, GatePass, ResetFailTime, Refuse, TailDrop, Quiet, PartialIsCur
<1>. QED
  BY <1>1, <1>2, QuietStep

LEMMA ConsumerQuiet ==
  ASSUME RingInv,
         ClockTick \/ Check \/ WakeEmpty \/ WakeFull \/ FileReady \/ FileFails
           \/ Persist \/ PersistShort \/ UNCHANGED vars
  PROVE  RingInv'
<1>. USE RingAssumption DEF RingInv, TypeOK, cellVars, ringVars, prodVars, ConsumerFrame
<1>0. m_pPrstBuf \in Cells
  BY RingInCells
<1>1. TypeOK'
  <2>1. CASE ClockTick
    BY <2>1 DEF ClockTick, Ring
  <2>2. CASE Check \/ WakeEmpty \/ WakeFull \/ FileReady \/ FileFails
    <3>1. cpc' \in {"check", "wait", "open", "persist", "clear"}
      BY <2>2 DEF Check, WakeEmpty, WakeFull, FileReady, FileFails
    <3>2. UNCHANGED <<m_eStatus, m_aData, m_uCurLength, m_pNext, m_iBuffCnt, m_pCurBuf,
                      m_pPrstBuf, m_uLastLogFailTime, m_cLocker, clock, ppc, rec,
                      curSec, calls, disk, dropped, fullQ>>
      BY <2>2 DEF Check, WakeEmpty, WakeFull, FileReady, FileFails
    <3>. QED
      BY <3>1, <3>2 DEF Ring
  <2>3. CASE Persist
    <3>1. m_aData[m_pPrstBuf] \in Seq(Records)
      BY <1>0
    <3>2. disk' \in Seq(Seq(Records))
      BY <2>3, <3>1 DEF Persist
    <3>. QED
      BY <2>3, <3>2 DEF Persist, Ring
  <2>4. CASE PersistShort
    <3>1. m_aData[m_pPrstBuf] \in Seq(Records)
      BY <1>0
    <3>2. PICK k \in 0 .. Len(m_aData[m_pPrstBuf]) - 1 :
            disk' = Append(disk, SubSeq(m_aData[m_pPrstBuf], 1, k))
      BY <2>4 DEF PersistShort
    <3>3. SubSeq(m_aData[m_pPrstBuf], 1, k) \in Seq(Records)
      BY <3>1, <3>2
    <3>4. disk' \in Seq(Seq(Records))
      BY <3>2, <3>3
    <3>. QED
      BY <2>4, <3>4 DEF PersistShort, Ring
  <2>5. CASE UNCHANGED vars
    BY <2>5 DEF vars, Ring
  <2>. QED
    BY <2>1, <2>2, <2>3, <2>4, <2>5
<1>2. Quiet
  <2>1. CASE ClockTick \/ UNCHANGED vars
    BY <2>1 DEF ClockTick, vars, Quiet, PartialIsCur
  <2>2. CASE Check \/ WakeEmpty \/ WakeFull
    BY <1>0, <2>2 DEF Check, WakeEmpty, WakeFull, Quiet
  <2>3. CASE FileReady \/ FileFails \/ Persist \/ PersistShort
    BY <2>3 DEF FileReady, FileFails, Persist, PersistShort, Quiet, PartialIsCur
  <2>. QED
    BY <2>1, <2>2, <2>3
<1>. QED
  BY <1>1, <1>2, QuietStep

-----------------------------------------------------------------------------
(* Steps that store a record *)

LEMMA AppendStep ==
  ASSUME RingInv, NEW p \in Producers, AppendToCur(p) \/ TailAppend(p)
  PROVE  RingInv'
<1>. USE RingAssumption DEF RingInv, cellVars, ringVars
<1>1. /\ rec[p] \in Records /\ m_pCurBuf \in Cells
      /\ rec[p].len \in 1..CellCap /\ m_uCurLength[m_pCurBuf] \in 0..CellCap
      /\ m_uCurLength[m_pCurBuf] + rec[p].len \in 1..CellCap
  <2>1. rec[p] \in Records /\ m_pCurBuf \in Cells
    BY RingInCells DEF TypeOK, AppendToCur, TailAppend, Locks
  <2>2. rec[p].len \in 1..CellCap
    BY <2>1 DEF Records
  <2>3. m_uCurLength[m_pCurBuf] \in 0..CellCap
    BY <2>1 DEF TypeOK
  <2>4. Fits(m_pCurBuf, rec[p])
    BY DEF AppendToCur, TailAppend
  <2>. QED
    BY <2>1, <2>2, <2>3, <2>4 DEF Fits
<1>2. /\ m_aData' = [m_aData EXCEPT ![m_pCurBuf] = Append(@, rec[p])]
      /\ m_uCurLength' = [m_uCurLength EXCEPT ![m_pCurBuf] = @ + rec[p].len]
      /\ UNCHANGED <<m_eStatus, m_pNext, m_iBuffCnt, m_pCurBuf, m_pPrstBuf,
                     m_uLastLogFailTime, clock, rec, curSec, calls, cpc, disk,
                     dropped, fullQ>>
  BY DEF AppendToCur, TailAppend, CellAppend
<1>3. m_aData \in [Cells -> Seq(Records)] /\ m_uCurLength \in [Cells -> 0..CellCap]
  BY DEF TypeOK
<1>4. Append(m_aData[m_pCurBuf], rec[p]) \in Seq(Records) \ {<<>>}
  <2>1. m_aData[m_pCurBuf] \in Seq(Records)
    BY <1>1, <1>3
  <2>. QED
    BY <1>1, <2>1, AppendProperties
<1>5. m_aData' \in [Cells -> Seq(Records)] /\ m_uCurLength' \in [Cells -> 0..CellCap]
  BY <1>1, <1>2, <1>3, <1>4
<1>6. TypeOK'
  <2>1. CASE AppendToCur(p)
    BY <1>2, <1>5, <2>1 DEF AppendToCur, Locks, TypeOK, Ring
  <2>2. CASE TailAppend(p)
    BY <1>2, <1>5, <2>2 DEF TailAppend, TypeOK, Ring
  <2>. QED
    BY <2>1, <2>2
<1>7. RingClosed'
  BY <1>2 DEF RingClosed, Ring
<1>8. LengthOK'
  BY <1>1, <1>2, <1>3, <1>4 DEF LengthOK
<1>9. FullRun'
  BY <1>2 DEF FullRun
<1>10. PartialIsCur'
  BY <1>1, <1>2, <1>3 DEF PartialIsCur
<1>. QED
  BY <1>6, <1>7, <1>8, <1>9, <1>10

-----------------------------------------------------------------------------
(* Steps that fill a cell *)

\* A FREE cell c joins the FULL run at its end, and the run's new end is nxt.
FullRunGrows ==
  /\ m_eStatus[m_pCurBuf] = "FREE"
  /\ m_eStatus' = [m_eStatus EXCEPT ![m_pCurBuf] = "FULL"]
  /\ fullQ' = Append(fullQ, m_pCurBuf)
  /\ UNCHANGED <<m_aData, m_uCurLength, m_pPrstBuf>>
  /\ m_pCurBuf' = m_pNext'[m_pCurBuf]
  /\ \A c \in Cells : m_eStatus[c] = "FULL" => m_pNext'[c] = m_pNext[c]

LEMMA FullRunGrowsInv ==
  ASSUME RingInv, FullRunGrows
  PROVE  FullRun'
<1>. DEFINE n == Len(fullQ)
<1>1. /\ fullQ \in Seq(Cells) /\ n \in Nat /\ DOMAIN fullQ = 1..n
      /\ m_pCurBuf \in Cells /\ m_eStatus \in [Cells -> {"FREE", "FULL"}]
  BY RingInCells DEF RingInv, TypeOK
<1>2. /\ fullQ' \in Seq(Cells) /\ Len(fullQ') = n + 1 /\ DOMAIN fullQ' = 1..(n+1)
      /\ fullQ'[n+1] = m_pCurBuf /\ fullQ' # <<>>
      /\ \A i \in 1..n : fullQ'[i] = fullQ[i]
  BY <1>1 DEF FullRunGrows
<1>3. \A i \in 1..n : m_eStatus[fullQ[i]] = "FULL" /\ fullQ[i] \in Cells
  BY <1>1 DEF RingInv, FullRun
<1>9. \A i \in DOMAIN fullQ \ {n} : fullQ[i+1] = m_pNext[fullQ[i]]
  BY Zenon DEF RingInv, FullRun
<1>. HIDE DEF n
<1>4. {fullQ'[i] : i \in DOMAIN fullQ'} = {c \in Cells : m_eStatus'[c] = "FULL"}
  <2>1. \A c \in Cells : m_eStatus[c] = "FULL" => \E i \in 1..n : fullQ[i] = c
    BY <1>1 DEF RingInv, FullRun
  <2>2. ASSUME NEW c \in Cells, m_eStatus'[c] = "FULL"
        PROVE  \E i \in 1..(n+1) : fullQ'[i] = c
    BY <1>1, <1>2, <2>1, <2>2 DEF FullRunGrows
  <2>3. ASSUME NEW i \in 1..(n+1)
        PROVE  fullQ'[i] \in Cells /\ m_eStatus'[fullQ'[i]] = "FULL"
    BY <1>1, <1>2, <1>3, <2>3 DEF FullRunGrows
  <2>. QED
    BY <1>2, <2>2, <2>3
<1>5. \A i, j \in DOMAIN fullQ' : fullQ'[i] = fullQ'[j] => i = j
  <2>1. \A i, j \in 1..n : fullQ[i] = fullQ[j] => i = j
    BY <1>1 DEF RingInv, FullRun
  <2>2. \A i \in 1..n : fullQ[i] # m_pCurBuf
    BY <1>3 DEF FullRunGrows
  <2>. QED
    BY <1>1, <1>2, <2>1, <2>2
<1>6. \A i \in DOMAIN fullQ' \ {Len(fullQ')} : fullQ'[i+1] = m_pNext'[fullQ'[i]]
  <2>. SUFFICES ASSUME NEW i \in 1..n
                PROVE  fullQ'[i+1] = m_pNext'[fullQ[i]]
    BY <1>1, <1>2
  <2>1. m_pNext'[fullQ[i]] = m_pNext[fullQ[i]]
    BY <1>3 DEF FullRunGrows
  <2>2. CASE i = n
    <3>1. fullQ # <<>> /\ m_pCurBuf = m_pNext[fullQ[n]]
      BY <1>1, <2>2 DEF RingInv, FullRun, n
    <3>. QED
      BY <1>2, <2>1, <2>2, <3>1
  <2>3. CASE i # n
    <3>1. i + 1 \in 1..n /\ fullQ[i+1] = m_pNext[fullQ[i]]
      BY <1>1, <1>9, <2>3
    <3>2. fullQ'[i+1] = fullQ[i+1]
      BY <1>2, <3>1
    <3>. QED
      BY <2>1, <3>1, <3>2
  <2>. QED
    BY <2>2, <2>3
<1>7. m_pPrstBuf' = fullQ'[1]
  <2>1. CASE fullQ = <<>>
    <3>1. n = 0
      BY <2>1 DEF n
    <3>2. fullQ'[1] = m_pCurBuf
      BY <1>2, <3>1
    <3>. QED
      BY <2>1, <3>2 DEF RingInv, FullRun, FullRunGrows
  <2>2. CASE fullQ # <<>>
    BY <1>1, <1>2, <2>2 DEF RingInv, FullRun, FullRunGrows, n
  <2>. QED
    BY <2>1, <2>2
<1>8. m_pCurBuf' = m_pNext'[fullQ'[Len(fullQ')]]
  BY <1>2 DEF FullRunGrows
<1>. QED
  BY <1>2, <1>4, <1>5, <1>6, <1>7, <1>8 DEF FullRun

LEMMA SealStep ==
  ASSUME RingInv, NEW p \in Producers,
         SealAndMove(p) \/ SealAndExpand(p) \/ SealAtLimit(p)
  PROVE  RingInv'
<1>. USE RingAssumption DEF RingInv, cellVars, ringVars, prodVars
<1>1. /\ m_pCurBuf \in Ring /\ m_pCurBuf \in Cells
      /\ m_pNext[m_pCurBuf] \in Ring /\ m_pNext[m_pCurBuf] # m_pCurBuf
      /\ m_iBuffCnt \in 3..MaxBuffCnt /\ m_iBuffCnt \notin Ring
      /\ m_pNext \in [Cells -> Cells] /\ m_eStatus \in [Cells -> {"FREE", "FULL"}]
  <2>1. m_pCurBuf \in Ring /\ m_iBuffCnt \in 3..MaxBuffCnt
    BY DEF TypeOK
  <2>2. m_iBuffCnt \notin Ring
    BY <2>1 DEF Ring
  <2>. QED
    BY <2>1, <2>2, RingInCells DEF TypeOK, RingClosed
<1>2. /\ m_eStatus[m_pCurBuf] = "FREE"
      /\ m_eStatus' = [m_eStatus EXCEPT ![m_pCurBuf] = "FULL"]
      /\ fullQ' = Append(fullQ, m_pCurBuf)
      /\ ppc[p] = "lock" /\ ppc' = [ppc EXCEPT ![p] = "tail"]
      /\ m_cLocker = NULL /\ m_cLocker' = p
      /\ UNCHANGED <<m_aData, m_uCurLength, m_pPrstBuf, clock, rec, curSec, calls,
                     cpc, disk, dropped>>
  BY DEF SealAndMove, SealAndExpand, SealAtLimit, SealCur, Locks
<1>3. /\ m_pNext' \in [Cells -> Cells]
      /\ m_iBuffCnt' \in 3..MaxBuffCnt
      /\ \A c \in Ring' : m_pNext'[c] \in Ring' /\ m_pNext'[c] # c
      /\ Ring \subseteq Ring'
      /\ m_pCurBuf' = m_pNext'[m_pCurBuf]
      /\ \A c \in Cells : m_eStatus[c] = "FULL" => m_pNext'[c] = m_pNext[c]
  <2>1. CASE SealAndMove(p) \/ SealAtLimit(p)
    <3>1. m_pNext' = m_pNext /\ m_iBuffCnt' = m_iBuffCnt /\ m_pCurBuf' = m_pNext[m_pCurBuf]
      BY <2>1 DEF SealAndMove, SealAtLimit
    <3>2. Ring' = Ring
      BY <3>1 DEF Ring
    <3>. QED
      BY <1>1, <3>1, <3>2 DEF RingClosed
  <2>2. CASE SealAndExpand(p)
    <3>1. /\ m_iBuffCnt' = m_iBuffCnt + 1 /\ m_iBuffCnt + 1 <= MaxBuffCnt
          /\ m_pNext' = [m_pNext EXCEPT ![m_pCurBuf] = m_iBuffCnt,
                                        ![m_iBuffCnt] = m_pNext[m_pCurBuf]]
          /\ m_pCurBuf' = m_iBuffCnt
      BY <2>2 DEF SealAndExpand
    <3>2. m_iBuffCnt \in Cells /\ m_iBuffCnt' \in 3..MaxBuffCnt
      BY <1>1, <3>1 DEF Cells
    <3>3. Ring' = Ring \cup {m_iBuffCnt}
      BY <1>1, <3>1 DEF Ring
    <3>4. /\ m_pNext'[m_pCurBuf] = m_iBuffCnt
          /\ m_pNext'[m_iBuffCnt] = m_pNext[m_pCurBuf]
          /\ \A c \in Cells \ {m_pCurBuf, m_iBuffCnt} : m_pNext'[c] = m_pNext[c]
          /\ m_pNext' \in [Cells -> Cells]
      BY <1>1, <3>1, <3>2
    <3>5. m_eStatus[m_iBuffCnt] = "FREE"
      BY <1>1, <3>2 DEF RingClosed
    <3>6. \A c \in Ring' : m_pNext'[c] \in Ring' /\ m_pNext'[c] # c
      BY <1>1, <3>3, <3>4, RingInCells DEF RingClosed
    <3>. QED
      BY <1>1, <1>2, <3>1, <3>2, <3>3, <3>4, <3>5, <3>6
  <2>. QED
    BY <2>1, <2>2
<1>4. TypeOK'
  <2>1. m_pCurBuf' \in Ring' /\ m_pPrstBuf' \in Ring'
    BY <1>1, <1>2, <1>3 DEF TypeOK
  <2>2. m_uLastLogFailTime' \in 0..MaxClock
    <3>1. m_uLastLogFailTime' \in {m_uLastLogFailTime, curSec[p]}
      BY DEF SealAndMove, SealAndExpand, SealAtLimit
    <3>2. m_uLastLogFailTime \in 0..MaxClock /\ curSec[p] \in 0..MaxClock
      BY DEF TypeOK
    <3>. QED
      BY <3>1, <3>2
  <2>3. fullQ' \in Seq(Cells)
    BY <1>1, <1>2 DEF TypeOK
  <2>4. m_eStatus' \in [Cells -> {"FREE", "FULL"}]
    BY <1>1, <1>2
  <2>5. /\ ppc' \in [Producers -> {"idle", "gate", "reset", "lock", "tail"}]
        /\ m_cLocker' \in Producers \cup {NULL}
        /\ \A q \in Producers :
             /\ ppc'[q] # "idle" => rec'[q] \in Records /\ curSec'[q] # 0
             /\ ppc'[q] = "tail" <=> m_cLocker' = q
    BY <1>2 DEF TypeOK
  <2>6. /\ m_aData' \in [Cells -> Seq(Records)]
        /\ m_uCurLength' \in [Cells -> 0..CellCap]
        /\ clock' \in 1..MaxClock
        /\ rec' \in [Producers -> Records \cup {NULL}]
        /\ curSec' \in [Producers -> 0..MaxClock]
        /\ calls' \in [Producers -> 0..MaxCalls]
        /\ cpc' \in {"check", "wait", "open", "persist", "clear"}
        /\ disk' \in Seq(Seq(Records))
        /\ dropped' \subseteq Records
    BY <1>2 DEF TypeOK
  <2>. QED
    BY <1>3, <2>1, <2>2, <2>3, <2>4, <2>5, <2>6 DEF TypeOK
<1>5. RingClosed'
  <2>1. ASSUME NEW c \in Cells \ Ring'
        PROVE  m_eStatus'[c] = "FREE"
    BY <1>1, <1>2, <1>3 DEF RingClosed
  <2>. QED
    BY <1>3, <2>1 DEF RingClosed, Cells
<1>6. LengthOK'
  BY <1>2 DEF LengthOK
<1>7. FullRun'
  BY <1>2, <1>3, FullRunGrowsInv DEF FullRunGrows
<1>8. PartialIsCur'
  BY <1>1, <1>2, RingInCells DEF PartialIsCur, TypeOK
<1>. QED
  BY <1>4, <1>5, <1>6, <1>7, <1>8

LEMMA WakePartialStep ==
  ASSUME RingInv, WakePartial
  PROVE  RingInv'
<1>. USE RingAssumption DEF RingInv, ringVars, prodVars, ConsumerFrame
<1>1. /\ m_pCurBuf \in Ring /\ m_pCurBuf \in Cells /\ m_pPrstBuf \in Cells
      /\ m_pNext[m_pCurBuf] \in Ring
      /\ m_pNext \in [Cells -> Cells] /\ m_eStatus \in [Cells -> {"FREE", "FULL"}]
  BY RingInCells DEF TypeOK, RingClosed
<1>2. m_pPrstBuf = m_pCurBuf
  BY <1>1 DEF WakePartial, PartialIsCur
<1>3. Ring' = Ring
  BY DEF WakePartial, Ring
<1>4. TypeOK'
  <2>1. m_pCurBuf' \in Ring' /\ m_pPrstBuf' \in Ring'
    BY <1>1, <1>3 DEF WakePartial, TypeOK
  <2>2. fullQ' \in Seq(Cells)
    BY <1>1 DEF WakePartial, TypeOK
  <2>. QED
    BY <1>1, <2>1, <2>2 DEF WakePartial, TypeOK
<1>5. RingClosed'
  BY <1>1, <1>3 DEF WakePartial, RingClosed, Cells
<1>6. LengthOK'
  BY DEF WakePartial, LengthOK
<1>7. FullRun'
  <2>1. FullRunGrows
    BY <1>1, <1>2 DEF WakePartial, FullRunGrows
  <2>. QED
    BY <2>1, FullRunGrowsInv
<1>8. PartialIsCur'
  BY <1>1, <1>2 DEF WakePartial, PartialIsCur
<1>. QED
  BY <1>4, <1>5, <1>6, <1>7, <1>8

-----------------------------------------------------------------------------
(* The step that empties a cell *)

LEMMA ClearFullRun ==
  ASSUME RingInv, Clear
  PROVE  FullRun'
<1>. DEFINE n == Len(fullQ)
<1>1. /\ fullQ \in Seq(Cells) /\ n \in Nat /\ DOMAIN fullQ = 1..n
      /\ m_pPrstBuf \in Cells /\ m_eStatus \in [Cells -> {"FREE", "FULL"}]
  BY RingInCells DEF RingInv, TypeOK
<1>2. \E i \in 1..n : fullQ[i] = m_pPrstBuf
  BY <1>1 DEF RingInv, FullRun, PartialIsCur, Clear
<1>3. n >= 1 /\ fullQ # <<>> /\ m_pPrstBuf = fullQ[1]
  <2>1. n >= 1 /\ fullQ # <<>>
    BY <1>1, <1>2, EmptySeq
  <2>. QED
    BY <2>1 DEF RingInv, FullRun
<1>4. /\ fullQ' \in Seq(Cells) /\ Len(fullQ') = n - 1 /\ DOMAIN fullQ' = 1..(n-1)
      /\ \A i \in 1..(n-1) : fullQ'[i] = fullQ[i+1]
  BY <1>1, <1>3 DEF Clear
<1>5. /\ \A i, j \in 1..n : fullQ[i] = fullQ[j] => i = j
      /\ \A i \in 1..(n-1) : fullQ[i+1] = m_pNext[fullQ[i]]
      /\ m_pCurBuf = m_pNext[fullQ[n]]
  <2>1. /\ \A i, j \in DOMAIN fullQ : fullQ[i] = fullQ[j] => i = j
        /\ \A i \in DOMAIN fullQ \ {n} : fullQ[i+1] = m_pNext[fullQ[i]]
        /\ m_pCurBuf = m_pNext[fullQ[n]]
    BY <1>3 DEF RingInv, FullRun
  <2>. HIDE DEF n
  <2>2. \A i \in 1..(n-1) : i \in DOMAIN fullQ \ {n}
    BY <1>1
  <2>. QED
    BY <1>1, <2>1, <2>2
<1>6. /\ m_eStatus' = [m_eStatus EXCEPT ![m_pPrstBuf] = "FREE"]
      /\ m_pPrstBuf' = m_pNext[m_pPrstBuf]
      /\ m_pNext' = m_pNext /\ m_pCurBuf' = m_pCurBuf
  BY DEF Clear, ringVars
<1>7. /\ \A i \in 1..n : fullQ[i] \in Cells /\ m_eStatus[fullQ[i]] = "FULL"
      /\ \A c \in Cells : m_eStatus[c] = "FULL" => \E i \in 1..n : fullQ[i] = c
  BY <1>1 DEF RingInv, FullRun
<1>. HIDE DEF n
<1>8. {fullQ'[i] : i \in DOMAIN fullQ'} = {c \in Cells : m_eStatus'[c] = "FULL"}
  <2>1. ASSUME NEW i \in 1..(n-1)
        PROVE  fullQ'[i] \in Cells /\ m_eStatus'[fullQ'[i]] = "FULL"
    <3>1. i + 1 \in 1..n /\ i + 1 # 1 /\ 1 \in 1..n
      BY <1>1, <1>3
    <3>2. fullQ[i+1] # m_pPrstBuf
      BY <1>3, <1>5, <3>1
    <3>. QED
      BY <1>1, <1>4, <1>6, <1>7, <3>1, <3>2
  <2>2. ASSUME NEW c \in Cells, m_eStatus'[c] = "FULL"
        PROVE  \E i \in 1..(n-1) : fullQ'[i] = c
    <3>1. c # m_pPrstBuf /\ m_eStatus[c] = "FULL"
      BY <1>1, <1>6, <2>2
    <3>2. PICK i \in 1..n : fullQ[i] = c
      BY <1>7, <3>1
    <3>3. i - 1 \in 1..(n-1) /\ (i - 1) + 1 = i
      BY <1>1, <1>3, <3>1, <3>2
    <3>. QED
      BY <1>4, <3>2, <3>3
  <2>. QED
    BY <1>4, <2>1, <2>2
<1>9. \A i, j \in DOMAIN fullQ' : fullQ'[i] = fullQ'[j] => i = j
  BY <1>1, <1>4, <1>5
<1>10. \A i \in DOMAIN fullQ' \ {Len(fullQ')} : fullQ'[i+1] = m_pNext'[fullQ'[i]]
  BY <1>1, <1>4, <1>5, <1>6
<1>11. CASE n = 1
  <2>1. fullQ' = <<>>
    BY <1>4, <1>11, EmptySeq
  <2>2. m_pCurBuf' = m_pPrstBuf'
    BY <1>3, <1>5, <1>6, <1>11
  <2>. QED
    BY <1>8, <1>9, <1>10, <2>1, <2>2 DEF FullRun
<1>12. CASE n # 1
  <2>1. /\ 1 \in 1..(n-1) /\ n - 1 \in 1..(n-1) /\ (n - 1) + 1 = n /\ 1 + 1 \in 1..n
        /\ n \in 1..n
    BY <1>1, <1>3, <1>12
  <2>2. m_pPrstBuf' = fullQ'[1]
    BY <1>3, <1>4, <1>5, <1>6, <2>1
  <2>3. m_pCurBuf' = m_pNext'[fullQ'[Len(fullQ')]]
    BY <1>4, <1>5, <1>6, <2>1
  <2>4. fullQ' # <<>>
    BY <1>4, <2>1, EmptySeq
  <2>. QED
    BY <1>8, <1>9, <1>10, <2>2, <2>3, <2>4 DEF FullRun
<1>. QED
  BY <1>11, <1>12

LEMMA ClearStep ==
  ASSUME RingInv, Clear
  PROVE  RingInv'
<1>. USE RingAssumption DEF RingInv, ringVars, prodVars, ConsumerFrame
<1>1. /\ m_pPrstBuf \in Ring /\ m_pPrstBuf \in Cells /\ m_pNext[m_pPrstBuf] \in Ring
      /\ m_eStatus \in [Cells -> {"FREE", "FULL"}] /\ m_aData \in [Cells -> Seq(Records)]
      /\ m_uCurLength \in [Cells -> 0..CellCap]
  BY RingInCells DEF TypeOK, RingClosed
<1>2. Ring' = Ring
  BY DEF Clear, Ring
<1>3. TypeOK'
  <2>1. fullQ # <<>>
    BY <1>1 DEF Clear, PartialIsCur, FullRun
  <2>2. fullQ' \in Seq(Cells)
    BY <2>1 DEF Clear, TypeOK
  <2>3. /\ m_eStatus' \in [Cells -> {"FREE", "FULL"}] /\ m_aData' \in [Cells -> Seq(Records)]
        /\ m_uCurLength' \in [Cells -> 0..CellCap]
    BY <1>1, EmptySeq DEF Clear
  <2>4. m_pPrstBuf' \in Ring' /\ m_pCurBuf' \in Ring'
    BY <1>1, <1>2 DEF Clear, TypeOK
  <2>. QED
    BY <2>2, <2>3, <2>4 DEF Clear, TypeOK
<1>4. RingClosed'
  BY <1>1, <1>2 DEF Clear, RingClosed
<1>5. LengthOK'
  BY <1>1 DEF Clear, LengthOK
<1>6. PartialIsCur'
  BY <1>1 DEF Clear, PartialIsCur
<1>. QED
  BY <1>3, <1>4, <1>5, <1>6, ClearFullRun

-----------------------------------------------------------------------------
LEMMA RingInvStep == RingInv /\ [Next]_vars => RingInv'
<1>. SUFFICES ASSUME RingInv, [Next]_vars PROVE RingInv'
  OBVIOUS
<1>1. ASSUME NEW p \in Producers, Produce(p) PROVE RingInv'
  BY <1>1, ProducerQuiet, AppendStep, SealStep DEF Produce
<1>2. CASE Consume
  BY <1>2, ConsumerQuiet, WakePartialStep, ClearStep DEF Consume
<1>3. ASSUME NEW p \in Producers, SealAtLimit(p) PROVE RingInv'
  BY <1>3, SealStep
<1>. QED
  BY <1>1, <1>2, <1>3, ConsumerQuiet DEF Next, NextBelow, NextGood

\* Type correctness of the ring, its cells and its threads.
THEOREM RingTypeCorrect == Spec => []TypeOK
<1>1. RingInv => TypeOK
  BY DEF RingInv
<1>. QED
  BY RingInvInit, RingInvStep, <1>1, PTL DEF Spec

\* The FULL cells lie in the order in which they were filled, from the consumer's
\* cell to the producers' one, however often the ring was expanded or ran full.
THEOREM FullCellsInOrder == Spec => []FullRun
<1>1. RingInv => FullRun
  BY DEF RingInv
<1>. QED
  BY RingInvInit, RingInvStep, <1>1, PTL DEF Spec

\* The assertion of log.cpp:310 never fails.
THEOREM AssertionHolds == Spec => []PartialIsCur
<1>1. RingInv => PartialIsCur
  BY DEF RingInv
<1>. QED
  BY RingInvInit, RingInvStep, <1>1, PTL DEF Spec

-----------------------------------------------------------------------------
\* Expanding the ring keeps it one cycle through all its cells.
THEOREM RingStaysOneCycle == Spec => []RingIsOneCycle
<1>1. Init => RingIsOneCycle
  <2>. SUFFICES ASSUME Init PROVE RingIsOneCycle
    OBVIOUS
  <2>1. Ring = {0, 1} /\ m_pNext[0] = 1 /\ m_pNext[1] = 0
    BY RingAssumption DEF Init, Ring, Cells
  <2>. QED
    BY <2>1 DEF RingIsOneCycle
<1>2. RingInv /\ RingIsOneCycle /\ [Next]_vars => RingIsOneCycle'
  <2>. SUFFICES ASSUME RingInv, RingIsOneCycle, [Next]_vars
                PROVE  RingIsOneCycle'
    OBVIOUS
  <2>1. CASE UNCHANGED ringVars
    BY <2>1 DEF RingIsOneCycle, Ring, ringVars
  <2>2. ASSUME NEW p \in Producers, SealAndExpand(p)
        PROVE  RingIsOneCycle'
    <3>1. /\ m_pCurBuf \in Ring /\ m_iBuffCnt \in 3..MaxBuffCnt
          /\ m_pNext \in [Cells -> Cells] /\ Ring \subseteq Cells
          /\ \A c \in Ring : m_pNext[c] \in Ring
      BY RingInCells DEF RingInv, TypeOK, RingClosed
    <3>2. /\ m_iBuffCnt \in Cells \ Ring /\ Ring' = Ring \cup {m_iBuffCnt}
      BY <2>2, <3>1, RingAssumption DEF SealAndExpand, Ring, Cells
    <3>3. /\ m_pNext'[m_pCurBuf] = m_iBuffCnt
          /\ m_pNext'[m_iBuffCnt] = m_pNext[m_pCurBuf]
          /\ \A c \in Ring \ {m_pCurBuf} : m_pNext'[c] = m_pNext[c]
      BY <2>2, <3>1, <3>2 DEF SealAndExpand
    <3>4. \A c \in Ring' : m_pNext'[c] \in Ring'
      BY <3>1, <3>2, <3>3
    <3>5. ASSUME NEW S \in SUBSET Ring', S # {}, \A c \in S : m_pNext'[c] \in S
          PROVE  S = Ring'
      <4>. DEFINE T == S \ {m_iBuffCnt}
      <4>1. T \subseteq Ring /\ T # {}
        BY <3>1, <3>2, <3>3, <3>5
      <4>2. \A c \in T : m_pNext[c] \in T
        BY <3>1, <3>2, <3>3, <3>5, <4>1
      <4>3. T = Ring
        BY <4>1, <4>2 DEF RingIsOneCycle
      <4>. QED
        BY <3>1, <3>2, <3>3, <3>5, <4>3
    <3>. QED
      BY <3>4, <3>5 DEF RingIsOneCycle
  <2>3. \/ UNCHANGED ringVars
        \/ \E p \in Producers : SealAndExpand(p)
    BY DEF Next, NextBelow, NextGood, Produce, Consume, ClockTick, Enter, GateDrop,
       GatePass, ResetFailTime, AppendToCur, SealAndMove, SealAtLimit, Refuse,
       TailAppend, TailDrop, Check, WakeEmpty, WakeFull, WakePartial, FileReady,
       FileFails, Persist, PersistShort, Clear, vars, ringVars
  <2>. QED
    BY <2>1, <2>2, <2>3
<1>. QED
  BY <1>1, <1>2, RingInvInit, RingInvStep, PTL DEF Spec

-----------------------------------------------------------------------------
(* Below the memory limit *)

\* A producer that has just filled a cell finds the next one empty.
TailFits == \A p \in Producers : ppc[p] = "tail" => m_uCurLength[m_pCurBuf] = 0

BelowInv == RingInv /\ NothingDropped /\ TailFits

LEMMA BelowInvInit == Init => BelowInv
BY RingInvInit, RingAssumption DEF Init, BelowInv, NothingDropped, TailFits, Cells

LEMMA NoFullCell ==
  ASSUME RingInv, m_eStatus[m_pPrstBuf] = "FREE"
  PROVE  \A c \in Cells : m_eStatus[c] = "FREE"
<1>1. /\ fullQ \in Seq(Cells) /\ DOMAIN fullQ = 1..Len(fullQ) /\ Len(fullQ) \in Nat
      /\ m_eStatus \in [Cells -> {"FREE", "FULL"}]
  BY DEF RingInv, TypeOK
<1>2. ASSUME NEW c \in Cells, m_eStatus[c] = "FULL"
      PROVE  FALSE
  <2>1. {fullQ[i] : i \in DOMAIN fullQ} = {d \in Cells : m_eStatus[d] = "FULL"}
    BY Zenon DEF RingInv, FullRun
  <2>2. PICK i \in 1..Len(fullQ) : fullQ[i] = c
    BY <1>1, <1>2, <2>1
  <2>3. fullQ # <<>> /\ 1 \in 1..Len(fullQ)
    BY <1>1, <2>2, EmptySeq
  <2>4. m_pPrstBuf = fullQ[1]
    BY <2>3, Zenon DEF RingInv, FullRun
  <2>5. m_eStatus[fullQ[1]] = "FULL"
    BY <1>1, <2>1, <2>3
  <2>. QED
    BY <2>4, <2>5
<1>. QED
  BY <1>1, <1>2

LEMMA BelowInvStep == BelowInv /\ [NextBelow]_vars => BelowInv'
<1>. SUFFICES ASSUME BelowInv, [NextBelow]_vars
              PROVE  NothingDropped' /\ TailFits'
  <2>1. [NextBelow]_vars => [Next]_vars
    BY DEF Next
  <2>. QED
    BY <2>1, RingInvStep DEF BelowInv
<1>. USE RingAssumption DEF BelowInv
<1>1. /\ m_pCurBuf \in Cells /\ m_pNext[m_pCurBuf] \in Cells
      /\ m_pNext[m_pCurBuf] # m_pCurBuf
      /\ m_pPrstBuf \in Cells
      /\ m_eStatus \in [Cells -> {"FREE", "FULL"}]
      /\ m_uCurLength \in [Cells -> 0..CellCap]
      /\ ppc \in [Producers -> {"idle", "gate", "reset", "lock", "tail"}]
  BY RingInCells DEF RingInv, TypeOK, RingClosed
<1>2. \A c \in Cells : m_eStatus[c] = "FREE" /\ c # m_pCurBuf => m_uCurLength[c] = 0
  BY DEF RingInv, PartialIsCur
<1>3. m_cLocker = NULL => \A p \in Producers : ppc[p] # "tail"
  BY DEF RingInv, TypeOK
<1>4. \A p \in Producers : ppc[p] = "tail" => Fits(m_pCurBuf, rec[p])
  <2>. SUFFICES ASSUME NEW p \in Producers, ppc[p] = "tail"
                PROVE  Fits(m_pCurBuf, rec[p])
    OBVIOUS
  <2>1. rec[p].len \in 1..CellCap /\ m_uCurLength[m_pCurBuf] = 0
    BY DEF RingInv, TypeOK, Records, TailFits
  <2>. QED
    BY <2>1 DEF Fits
<1>5. ASSUME NEW p \in Producers,
             Enter(p) \/ GateDrop(p) \/ GatePass(p) \/ ResetFailTime(p) \/ Refuse(p)
               \/ TailDrop(p)
      PROVE  NothingDropped' /\ TailFits'
  <2>1. CASE Enter(p)
    BY <1>1, <2>1 DEF Enter, NothingDropped, TailFits, cellVars, ringVars
  <2>2. CASE GatePass(p)
    BY <1>1, <2>2 DEF GatePass, NothingDropped, TailFits, cellVars, ringVars
  <2>3. CASE ResetFailTime(p)
    BY <1>1, <2>3 DEF ResetFailTime, NothingDropped, TailFits, cellVars, ringVars
  <2>4. ~GateDrop(p) /\ ~Refuse(p)
    BY DEF GateDrop, Suppressed, Refuse, NothingDropped
  <2>5. ~TailDrop(p)
    BY <1>4 DEF TailDrop, NothingDropped
  <2>. QED
    BY <1>5, <2>1, <2>2, <2>3, <2>4, <2>5
<1>6. ASSUME NEW p \in Producers, AppendToCur(p)
      PROVE  NothingDropped' /\ TailFits'
  BY <1>1, <1>3, <1>6 DEF AppendToCur, Locks, NothingDropped, TailFits, ringVars
<1>7. ASSUME NEW p \in Producers, TailAppend(p)
      PROVE  NothingDropped' /\ TailFits'
  <2>1. \A q \in Producers : ppc'[q] # "tail"
    BY <1>1, <1>7, RingAssumption DEF TailAppend, RingInv, TypeOK
  <2>. QED
    BY <1>7, <2>1 DEF TailAppend, NothingDropped, TailFits, ringVars
<1>8. ASSUME NEW p \in Producers, SealAndMove(p) \/ SealAndExpand(p)
      PROVE  NothingDropped' /\ TailFits'
  <2>1. /\ m_eStatus' = [m_eStatus EXCEPT ![m_pCurBuf] = "FULL"]
        /\ UNCHANGED <<m_uCurLength, dropped, m_uLastLogFailTime>>
    BY <1>8 DEF SealAndMove, SealAndExpand, SealCur
  <2>2. m_pCurBuf' \in Cells /\ m_pCurBuf' # m_pCurBuf /\ m_eStatus[m_pCurBuf'] = "FREE"
    <3>1. CASE SealAndMove(p)
      BY <1>1, <3>1 DEF SealAndMove
    <3>2. CASE SealAndExpand(p)
      <4>3. m_iBuffCnt \in 3..MaxBuffCnt /\ m_iBuffCnt + 1 <= MaxBuffCnt
        BY <3>2 DEF SealAndExpand, RingInv, TypeOK
      <4>1. m_iBuffCnt \in Cells \ Ring
        BY <4>3 DEF Cells, Ring
      <4>2. m_pCurBuf \in Ring /\ m_eStatus[m_iBuffCnt] = "FREE"
        BY <4>1 DEF RingInv, TypeOK, RingClosed
      <4>. QED
        BY <3>2, <4>1, <4>2 DEF SealAndExpand
    <3>. QED
      BY <1>8, <3>1, <3>2
  <2>. QED
    BY <1>1, <1>2, <2>1, <2>2 DEF NothingDropped, TailFits
<1>9. CASE ClockTick \/ Check \/ WakeEmpty \/ WakeFull \/ FileReady \/ FileFails
             \/ Persist \/ PersistShort \/ UNCHANGED vars
  BY <1>9 DEF ClockTick, Check, WakeEmpty, WakeFull, FileReady, FileFails, Persist,
              PersistShort, vars, NothingDropped, TailFits, cellVars, ringVars,
              prodVars, ConsumerFrame
<1>10. CASE WakePartial
  <2>1. m_eStatus[m_pNext[m_pCurBuf]] = "FREE"
    BY <1>1, <1>10, NoFullCell DEF WakePartial
  <2>2. m_eStatus'[m_pCurBuf'] = "FREE"
    BY <1>1, <1>10, <2>1 DEF WakePartial
  <2>. QED
    BY <1>3, <1>10, <2>2 DEF WakePartial, NothingDropped, TailFits, prodVars, ConsumerFrame
<1>11. CASE Clear
  BY <1>1, <1>3, <1>11 DEF Clear, NothingDropped, TailFits, ringVars, prodVars, ConsumerFrame
<1>. QED
  BY <1>5, <1>6, <1>7, <1>8, <1>9, <1>10, <1>11
     DEF NextBelow, NextGood, Produce, Consume

\* While the ring can still be expanded no record is lost to a full ring, and
\* m_uLastLogFailTime is never set.
THEOREM NoDropBelowLimit == SpecBelow => []NothingDropped
<1>1. BelowInv => NothingDropped
  BY DEF BelowInv
<1>. QED
  BY BelowInvInit, BelowInvStep, <1>1, PTL DEF SpecBelow

\* While the consumer reads a FULL cell without the mutex nobody writes to it.
THEOREM FullCellsStable == SpecBelow => FullIsStable
<1>1. ASSUME BelowInv, [NextBelow]_vars,
             NEW c \in Cells, m_eStatus[c] = "FULL", m_aData'[c] # m_aData[c]
      PROVE  cpc = "clear" /\ c = m_pPrstBuf /\ m_eStatus'[c] = "FREE"
  <2>1. m_pCurBuf \in Cells /\ m_pPrstBuf \in Cells /\ c # m_pCurBuf
        /\ m_aData \in [Cells -> Seq(Records)]
        /\ m_eStatus \in [Cells -> {"FREE", "FULL"}]
    BY <1>1, RingInCells DEF BelowInv, RingInv, TypeOK, NothingDropped
  <2>2. CASE Clear
    BY <1>1, <2>1, <2>2 DEF Clear
  <2>3. ASSUME NEW p \in Producers, Produce(p) PROVE FALSE
    <3>1. CASE AppendToCur(p) \/ TailAppend(p)
      BY <1>1, <2>1, <3>1 DEF AppendToCur, TailAppend, CellAppend
    <3>2. CASE ~(AppendToCur(p) \/ TailAppend(p))
      BY <1>1, <2>3, <3>2 DEF Produce, Enter, GateDrop, GatePass, ResetFailTime, Refuse,
         TailDrop, SealAndMove, SealAndExpand, SealCur, cellVars
    <3>. QED
      BY <3>1, <3>2
  <2>4. CASE ClockTick \/ Check \/ WakeEmpty \/ WakeFull \/ WakePartial \/ FileReady
               \/ FileFails \/ Persist \/ PersistShort \/ UNCHANGED vars
    BY <1>1, <2>4 DEF ClockTick, Check, WakeEmpty, WakeFull, WakePartial, FileReady,
       FileFails, Persist, PersistShort, vars, cellVars
  <2>. QED
    BY <1>1, <2>2, <2>3, <2>4 DEF NextBelow, NextGood, Consume
<1>2. BelowInv /\ [NextBelow]_vars =>
        [\A c \in Cells :
           m_eStatus[c] = "FULL" /\ m_aData'[c] # m_aData[c] =>
             cpc = "clear" /\ c = m_pPrstBuf /\ m_eStatus'[c] = "FREE"]_vars
  BY <1>1
<1>. QED
  BY BelowInvInit, BelowInvStep, <1>2, PTL DEF SpecBelow, FullIsStable

-----------------------------------------------------------------------------
(* Refinement of BatchLog *)

LEMMA ContentsAppend ==
  ASSUME NEW q \in Seq(Cells), NEW c \in Cells, NEW d \in [Cells -> Seq(Records)]
  PROVE  Contents(Append(q, c), d) = Append(Contents(q, d), d[c])
<1>1. Append(q, c) \in Seq(Cells) /\ Len(Append(q, c)) = Len(q) + 1
      /\ \A i \in 1..Len(q) : Append(q, c)[i] = q[i]
      /\ Append(q, c)[Len(q) + 1] = c
  BY AppendProperties
<1>2. Contents(q, d) \in Seq(Seq(Records)) /\ Len(Contents(q, d)) = Len(q)
      /\ \A i \in 1..Len(q) : Contents(q, d)[i] = d[q[i]]
  BY DEF Contents
<1>3. Contents(Append(q, c), d) \in Seq(Seq(Records))
      /\ Len(Contents(Append(q, c), d)) = Len(q) + 1
      /\ \A i \in 1..Len(q)+1 : Contents(Append(q, c), d)[i] = d[Append(q, c)[i]]
  BY <1>1 DEF Contents
<1>4. d[c] \in Seq(Records)
  OBVIOUS
<1>5. Append(Contents(q, d), d[c]) \in Seq(Seq(Records))
      /\ Len(Append(Contents(q, d), d[c])) = Len(q) + 1
      /\ \A i \in 1..Len(q) : Append(Contents(q, d), d[c])[i] = d[q[i]]
      /\ Append(Contents(q, d), d[c])[Len(q) + 1] = d[c]
  BY <1>2, <1>4, AppendProperties
<1>6. \A i \in 1..Len(q)+1 :
        Contents(Append(q, c), d)[i] = Append(Contents(q, d), d[c])[i]
  BY <1>1, <1>3, <1>5
<1>. QED
  <2>. DEFINE a == Contents(Append(q, c), d)
              b == Append(Contents(q, d), d[c])
  <2>1. /\ a \in Seq(Seq(Records)) /\ b \in Seq(Seq(Records)) /\ Len(a) = Len(b)
        /\ \A i \in 1..Len(a) : a[i] = b[i]
    BY <1>3, <1>5, <1>6
  <2>. HIDE DEF a, b
  <2>2. a = b
    BY <2>1, SeqEqual
  <2>. QED
    BY <2>2 DEF a, b

LEMMA ContentsTail ==
  ASSUME NEW q \in Seq(Cells), q # <<>>, NEW d \in [Cells -> Seq(Records)]
  PROVE  /\ Contents(q, d) \in Seq(Seq(Records)) /\ Contents(q, d) # <<>>
         /\ Head(Contents(q, d)) = d[q[1]]
         /\ Tail(Contents(q, d)) = Contents(Tail(q), d)
<1>1. Contents(q, d) \in Seq(Seq(Records)) /\ Len(Contents(q, d)) = Len(q)
      /\ \A i \in 1..Len(q) : Contents(q, d)[i] = d[q[i]]
  BY DEF Contents
<1>2. Len(q) \in Nat \ {0}
  BY EmptySeq
<1>3. Contents(q, d) # <<>>
  BY <1>1, <1>2, EmptySeq
<1>4. Tail(q) \in Seq(Cells) /\ Len(Tail(q)) = Len(q) - 1
      /\ \A i \in 1..Len(Tail(q)) : Tail(q)[i] = q[i+1]
  BY HeadTailProperties
<1>5. Contents(Tail(q), d) \in Seq(Seq(Records)) /\ Len(Contents(Tail(q), d)) = Len(q) - 1
      /\ \A i \in 1..Len(q)-1 : Contents(Tail(q), d)[i] = d[Tail(q)[i]]
  BY <1>4 DEF Contents
<1>6. Tail(Contents(q, d)) \in Seq(Seq(Records)) /\ Len(Tail(Contents(q, d))) = Len(q) - 1
      /\ \A i \in 1..Len(q)-1 : Tail(Contents(q, d))[i] = Contents(q, d)[i+1]
  BY <1>1, <1>3, HeadTailProperties
<1>7. \A i \in 1..Len(q)-1 : Contents(Tail(q), d)[i] = Tail(Contents(q, d))[i]
  BY <1>1, <1>2, <1>4, <1>5, <1>6
<1>8. Tail(Contents(q, d)) = Contents(Tail(q), d)
  BY <1>5, <1>6, <1>7, SeqEqual
<1>. QED
  BY <1>1, <1>2, <1>3, <1>8

LEMMA ContentsSame ==
  ASSUME NEW q, NEW d, NEW e, \A i \in 1..Len(q) : d[q[i]] = e[q[i]]
  PROVE  Contents(q, d) = Contents(q, e)
BY DEF Contents

\* The run of FULL cells seen from the consumer
LEMMA FullCells ==
  ASSUME RingInv
  PROVE  /\ fullQ \in Seq(Cells)
         /\ \A i \in 1..Len(fullQ) : fullQ[i] \in Cells /\ m_eStatus[fullQ[i]] = "FULL"
         /\ \A i, j \in 1..Len(fullQ) : fullQ[i] = fullQ[j] => i = j
         /\ m_eStatus[m_pPrstBuf] = "FULL" => fullQ # <<>> /\ fullQ[1] = m_pPrstBuf
<1>1. fullQ \in Seq(Cells) /\ DOMAIN fullQ = 1..Len(fullQ) /\ m_pPrstBuf \in Cells
      /\ Len(fullQ) \in Nat
  BY RingInCells DEF RingInv, TypeOK
<1>2. /\ {fullQ[i] : i \in DOMAIN fullQ} = {c \in Cells : m_eStatus[c] = "FULL"}
      /\ \A i, j \in DOMAIN fullQ : fullQ[i] = fullQ[j] => i = j
      /\ fullQ # <<>> => m_pPrstBuf = fullQ[1]
  BY Zenon DEF RingInv, FullRun
<1>3. \A i \in 1..Len(fullQ) : fullQ[i] \in Cells /\ m_eStatus[fullQ[i]] = "FULL"
  BY <1>1, <1>2
<1>4. ASSUME m_eStatus[m_pPrstBuf] = "FULL" PROVE fullQ # <<>> /\ fullQ[1] = m_pPrstBuf
  <2>1. PICK i \in 1..Len(fullQ) : fullQ[i] = m_pPrstBuf
    BY <1>1, <1>2, <1>4
  <2>2. fullQ # <<>>
    BY <1>1, <2>1, EmptySeq
  <2>. QED
    BY <1>2, <2>2
<1>. QED
  BY <1>1, <1>2, <1>3, <1>4

\* Nothing the abstract log sees changes.
LEMMA QuietIsStutter ==
  ASSUME UNCHANGED <<m_aData, m_pCurBuf, fullQ, disk>>,
         cpc' = "clear" <=> cpc = "clear"
  PROVE  UNCHANGED Batches!vars
BY DEF Batches!vars, Sealed, Unwritten

LEMMA StoreIsAccept ==
  ASSUME BelowInv, NEW p \in Producers, AppendToCur(p) \/ TailAppend(p)
  PROVE  Batches!Accept(rec[p]) /\ rec[p] \in Records
<1>1. /\ m_pCurBuf \in Cells /\ m_aData \in [Cells -> Seq(Records)]
      /\ m_eStatus[m_pCurBuf] = "FREE"
      /\ rec[p] \in Records
  BY RingInCells DEF BelowInv, RingInv, TypeOK, NothingDropped, AppendToCur, Locks, TailAppend
<1>2. /\ m_aData' = [m_aData EXCEPT ![m_pCurBuf] = Append(@, rec[p])]
      /\ UNCHANGED <<m_pCurBuf, fullQ, disk, cpc>>
  BY DEF AppendToCur, TailAppend, CellAppend
<1>3. /\ fullQ \in Seq(Cells) /\ (cpc = "clear" => fullQ # <<>>)
      /\ \A i \in 1..Len(fullQ) : fullQ[i] \in Cells /\ fullQ[i] # m_pCurBuf
  BY <1>1, FullCells DEF BelowInv, RingInv, PartialIsCur
<1>4. \A i \in 1..Len(Unwritten) : Unwritten[i] \in Cells /\ Unwritten[i] # m_pCurBuf
  BY <1>3 DEF Unwritten
<1>5. Unwritten' = Unwritten
  BY <1>2 DEF Unwritten
<1>6. \A i \in 1..Len(Unwritten) : m_aData'[Unwritten[i]] = m_aData[Unwritten[i]]
  BY <1>1, <1>2, <1>4
<1>7. Sealed' = Sealed
  BY <1>5, <1>6, ContentsSame DEF Sealed
<1>. QED
  BY <1>1, <1>2, <1>7 DEF Batches!Accept

\* Filling the producers' cell seals the open batch.
LEMMA FillIsSeal ==
  ASSUME BelowInv, BelowInv', FullRunGrows, cpc' = "clear" <=> cpc = "clear",
         UNCHANGED disk,
         m_uCurLength[m_pCurBuf] # 0, m_uCurLength'[m_pCurBuf'] = 0
  PROVE  /\ Batches!Seal
         /\ Unwritten \in Seq(Cells) /\ Unwritten' = Append(Unwritten, m_pCurBuf)
         /\ m_aData'[m_pCurBuf'] = <<>>
<1>1. /\ m_pCurBuf \in Cells /\ m_aData \in [Cells -> Seq(Records)]
      /\ m_aData[m_pCurBuf] # <<>>
  BY RingInCells DEF BelowInv, RingInv, TypeOK, LengthOK
<1>2. m_aData'[m_pCurBuf'] = <<>>
  BY RingInCells DEF BelowInv, RingInv, TypeOK, LengthOK, FullRunGrows
<1>3. /\ fullQ \in Seq(Cells)
      /\ cpc = "clear" => fullQ # <<>>
  BY FullCells DEF BelowInv, RingInv, PartialIsCur
<1>4. Unwritten \in Seq(Cells) /\ Unwritten' = Append(Unwritten, m_pCurBuf)
  <2>1. fullQ' = Append(fullQ, m_pCurBuf)
    BY DEF FullRunGrows
  <2>2. CASE cpc = "clear"
    <3>1. Tail(Append(fullQ, m_pCurBuf)) = Append(Tail(fullQ), m_pCurBuf)
      BY <1>1, <1>3, <2>2, HeadTailAppend
    <3>. QED
      BY <1>3, <2>1, <2>2, <3>1 DEF Unwritten
  <2>3. CASE cpc # "clear"
    BY <1>3, <2>1, <2>3 DEF Unwritten
  <2>. QED
    BY <2>2, <2>3
<1>5. Sealed' = Append(Sealed, m_aData[m_pCurBuf])
  <2>1. m_aData' = m_aData
    BY DEF FullRunGrows
  <2>2. Contents(Append(Unwritten, m_pCurBuf), m_aData)
          = Append(Contents(Unwritten, m_aData), m_aData[m_pCurBuf])
    BY <1>1, <1>4, ContentsAppend
  <2>. QED
    BY <1>4, <2>1, <2>2 DEF Sealed
<1>. QED
  BY <1>1, <1>2, <1>4, <1>5 DEF Batches!Seal

\* A step that fills the producers' cell and goes on to an empty one
Fills ==
  /\ FullRunGrows
  /\ m_uCurLength[m_pCurBuf] # 0 /\ m_uCurLength'[m_pCurBuf'] = 0
  /\ (cpc' = "clear" <=> cpc = "clear") /\ UNCHANGED disk

LEMMA SealFills ==
  ASSUME BelowInv, BelowInv', NEW p \in Producers, SealAndMove(p) \/ SealAndExpand(p)
  PROVE  Fills
<1>1. rec[p].len \in 1..CellCap
  BY RingAssumption
     DEF SealAndMove, SealAndExpand, SealCur, Locks, BelowInv, RingInv, TypeOK, Records
<1>2. /\ m_pCurBuf \in Cells /\ m_uCurLength \in [Cells -> 0..CellCap]
      /\ m_eStatus \in [Cells -> {"FREE", "FULL"}]
  BY RingInCells DEF BelowInv, RingInv, TypeOK
<1>3. m_uCurLength[m_pCurBuf] # 0
  BY <1>1, <1>2, RingAssumption DEF SealAndMove, SealAndExpand, SealCur, Fits
<1>4. ppc'[p] = "tail"
  BY DEF SealAndMove, SealAndExpand, SealCur, BelowInv, RingInv, TypeOK
<1>5. m_uCurLength'[m_pCurBuf'] = 0
  BY <1>4 DEF BelowInv, TailFits
<1>6. FullRunGrows
  <2>1. CASE SealAndMove(p)
    BY <1>2, <2>1 DEF SealAndMove, SealCur, FullRunGrows, ringVars
  <2>2. CASE SealAndExpand(p)
    <3>1. m_iBuffCnt \in 3..MaxBuffCnt /\ m_iBuffCnt + 1 <= MaxBuffCnt /\ m_pCurBuf \in Ring
      BY <2>2 DEF SealAndExpand, BelowInv, RingInv, TypeOK
    <3>2. m_iBuffCnt \in Cells \ Ring /\ m_iBuffCnt # m_pCurBuf
      BY <3>1, RingAssumption DEF Cells, Ring
    <3>3. m_eStatus[m_iBuffCnt] = "FREE" /\ m_pNext \in [Cells -> Cells]
      BY <3>2 DEF BelowInv, RingInv, RingClosed, TypeOK
    <3>. QED
      BY <1>2, <2>2, <3>2, <3>3 DEF SealAndExpand, SealCur, FullRunGrows
  <2>. QED
    BY <2>1, <2>2
<1>7. (cpc' = "clear" <=> cpc = "clear") /\ UNCHANGED disk
  BY DEF SealAndMove, SealAndExpand, SealCur
<1>. QED
  BY <1>3, <1>5, <1>6, <1>7 DEF Fills

LEMMA WakeFills ==
  ASSUME BelowInv, WakePartial
  PROVE  Fills
<1>1. m_pCurBuf \in Cells /\ m_pPrstBuf \in Cells /\ m_eStatus \in [Cells -> {"FREE", "FULL"}]
  BY RingInCells DEF BelowInv, RingInv, TypeOK
<1>2. m_pCurBuf = m_pPrstBuf
  BY <1>1 DEF WakePartial, BelowInv, RingInv, PartialIsCur
<1>3. FullRunGrows
  BY <1>1, <1>2 DEF WakePartial, FullRunGrows, ringVars
<1>4. m_pNext[m_pCurBuf] \in Cells /\ m_pNext[m_pCurBuf] # m_pCurBuf
  BY RingInCells DEF BelowInv, RingInv, TypeOK, RingClosed
<1>5. m_eStatus[m_pNext[m_pCurBuf]] = "FREE"
  BY <1>4, NoFullCell DEF WakePartial, BelowInv
<1>6. m_uCurLength[m_pNext[m_pCurBuf]] = 0
  BY <1>4, <1>5 DEF BelowInv, RingInv, PartialIsCur
<1>7. m_uCurLength'[m_pCurBuf'] = 0 /\ m_uCurLength[m_pCurBuf] # 0
  BY <1>2, <1>6 DEF WakePartial
<1>8. (cpc' = "clear" <=> cpc = "clear") /\ UNCHANGED disk
  BY DEF WakePartial
<1>. QED
  BY <1>3, <1>7, <1>8 DEF Fills

LEMMA RefinementInit == Init => Batches!Init
<1>. SUFFICES ASSUME Init PROVE Batches!Init
  OBVIOUS
<1>1. Unwritten = <<>>
  BY DEF Init, Unwritten
<1>2. Sealed \in Seq(Seq(Records)) /\ Len(Sealed) = 0
  BY <1>1 DEF Sealed, Contents
<1>3. m_aData[m_pCurBuf] = <<>>
  BY RingAssumption DEF Init, Cells
<1>. QED
  BY <1>2, <1>3 DEF Init, Batches!Init

LEMMA RefinementStep ==
  BelowInv /\ BelowInv' /\ [NextGood]_vars => [Batches!Next]_Batches!vars
<1>. SUFFICES ASSUME BelowInv, BelowInv', [NextGood]_vars
              PROVE  [Batches!Next]_Batches!vars
  OBVIOUS
<1>0. /\ m_pCurBuf \in Cells /\ m_pPrstBuf \in Cells
      /\ m_aData \in [Cells -> Seq(Records)] /\ m_eStatus[m_pCurBuf] = "FREE"
      /\ m_uCurLength \in [Cells -> 0..CellCap]
      /\ m_eStatus \in [Cells -> {"FREE", "FULL"}]
  BY RingInCells DEF BelowInv, RingInv, TypeOK, NothingDropped
<1>1. ASSUME NEW p \in Producers,
             Enter(p) \/ GateDrop(p) \/ GatePass(p) \/ ResetFailTime(p) \/ Refuse(p)
               \/ TailDrop(p)
      PROVE  UNCHANGED Batches!vars
  BY <1>1, QuietIsStutter
     DEF Enter, GateDrop, GatePass, ResetFailTime, Refuse, TailDrop, cellVars
<1>2. ASSUME NEW p \in Producers, AppendToCur(p) \/ TailAppend(p)
      PROVE  Batches!Next
  BY <1>2, StoreIsAccept DEF Batches!Next
<1>3. ASSUME NEW p \in Producers, SealAndMove(p) \/ SealAndExpand(p)
      PROVE  Batches!Seal
  BY <1>3, SealFills, FillIsSeal, Zenon DEF Fills
<1>4. CASE WakePartial
  BY <1>4, WakeFills, FillIsSeal, Zenon DEF Fills, Batches!Next
<1>5. CASE Persist
  <2>1. fullQ \in Seq(Cells) /\ fullQ # <<>> /\ fullQ[1] = m_pPrstBuf
    BY <1>5, FullCells DEF Persist, BelowInv, RingInv, PartialIsCur
  <2>2. /\ Unwritten = fullQ /\ Unwritten' = Tail(fullQ)
        /\ UNCHANGED <<m_aData, m_pCurBuf>>
        /\ disk' = Append(disk, m_aData[m_pPrstBuf])
    BY <1>5 DEF Persist, Unwritten, cellVars
  <2>3. Sealed # <<>> /\ Head(Sealed) = m_aData[m_pPrstBuf] /\ Sealed' = Tail(Sealed)
    <3>1. /\ Contents(fullQ, m_aData) # <<>>
          /\ Head(Contents(fullQ, m_aData)) = m_aData[fullQ[1]]
          /\ Tail(Contents(fullQ, m_aData)) = Contents(Tail(fullQ), m_aData)
      BY <1>0, <2>1, ContentsTail
    <3>. QED
      BY <2>1, <2>2, <3>1 DEF Sealed
  <2>. QED
    BY <2>2, <2>3 DEF Batches!Next, Batches!Write
<1>6. CASE Clear
  <2>1. m_eStatus[m_pPrstBuf] = "FULL"
    BY <1>6 DEF Clear, BelowInv, RingInv, PartialIsCur
  <2>2. /\ fullQ \in Seq(Cells) /\ fullQ # <<>> /\ fullQ[1] = m_pPrstBuf
        /\ \A i \in 1..Len(fullQ) : fullQ[i] \in Cells
        /\ \A i, j \in 1..Len(fullQ) : fullQ[i] = fullQ[j] => i = j
    BY <2>1, FullCells DEF BelowInv
  <2>3. /\ m_aData' = [m_aData EXCEPT ![m_pPrstBuf] = <<>>]
        /\ UNCHANGED <<m_pCurBuf, disk>>
        /\ Unwritten = Tail(fullQ) /\ Unwritten' = Tail(fullQ)
    BY <1>6 DEF Clear, Unwritten
  <2>4. /\ Tail(fullQ) \in Seq(Cells) /\ Len(Tail(fullQ)) = Len(fullQ) - 1
        /\ \A i \in 1..Len(Tail(fullQ)) : Tail(fullQ)[i] = fullQ[i+1]
        /\ Len(fullQ) \in Nat \ {0}
    BY <2>2, HeadTailProperties, EmptySeq
  <2>5. \A i \in 1..Len(Tail(fullQ)) :
          Tail(fullQ)[i] # m_pPrstBuf /\ Tail(fullQ)[i] \in Cells
    <3>. SUFFICES ASSUME NEW i \in 1..Len(Tail(fullQ))
                  PROVE  fullQ[i+1] # m_pPrstBuf /\ fullQ[i+1] \in Cells
      BY <2>4
    <3>1. i + 1 \in 1..Len(fullQ) /\ 1 \in 1..Len(fullQ) /\ i + 1 # 1
      BY <2>4
    <3>. QED
      BY <2>2, <3>1
  <2>6. \A i \in 1..Len(Tail(fullQ)) : m_aData'[Tail(fullQ)[i]] = m_aData[Tail(fullQ)[i]]
    BY <1>0, <2>3, <2>5
  <2>7. Sealed' = Sealed
    BY <2>3, <2>6, ContentsSame DEF Sealed
  <2>8. m_aData'[m_pCurBuf'] = m_aData[m_pCurBuf]
    BY <1>0, <2>1, <2>3
  <2>. QED
    BY <2>3, <2>7, <2>8 DEF Batches!vars
<1>7. CASE ClockTick \/ Check \/ WakeEmpty \/ WakeFull \/ FileReady \/ FileFails
             \/ UNCHANGED vars
  BY <1>7, QuietIsStutter
     DEF ClockTick, Check, WakeEmpty, WakeFull, FileReady, FileFails, vars, cellVars
<1>. QED
  BY <1>1, <1>2, <1>3, <1>4, <1>5, <1>6, <1>7
     DEF NextGood, Produce, Consume, Batches!Next

\* The ring, its pointers, its expansion and its two kinds of threads implement
\* one queue of batches that are written whole, once and in order.
THEOREM RingImplementsBatchLog == SpecGood => ImplementsBatchLog
<1>1. [NextGood]_vars => [NextBelow]_vars
  BY DEF NextBelow
<1>. QED
  BY <1>1, BelowInvInit, BelowInvStep, RefinementInit, RefinementStep, PTL
     DEF SpecGood, ImplementsBatchLog, Batches!Spec
-----------------------------------------------------------------------------
(* Program order.  Records on their way are, in order, in the batches on disk, *)
(* in the FULL cells not yet written and in the producers' cell.              *)

\* Of each thread, the records of s are of earlier calls than those of t.
Before(s, t) == \A k \in DOMAIN s, l \in DOMAIN t : s[k].p = t[l].p => s[k].n < t[l].n

InOrder(s) == \A k, l \in DOMAIN s : k < l /\ s[k].p = s[l].p => s[k].n < s[l].n

\* The records of s are of calls whose record was stored.
Stored(s) ==
  \A k \in DOMAIN s :
    /\ s[k].n <= calls[s[k].p]
    /\ ppc[s[k].p] # "idle" => s[k].n < calls[s[k].p]

CallsInv == \A p \in Producers : ppc[p] # "idle" => rec[p].p = p /\ rec[p].n = calls[p]

CellsInv == \A c \in Cells : InOrder(m_aData[c]) /\ Stored(m_aData[c])

DiskInv ==
  /\ \A b \in DOMAIN disk :
       /\ InOrder(disk[b]) /\ Stored(disk[b]) /\ Before(disk[b], m_aData[m_pCurBuf])
       /\ \A i \in DOMAIN Unwritten : Before(disk[b], m_aData[Unwritten[i]])
  /\ \A b, d \in DOMAIN disk : b < d => Before(disk[b], disk[d])

QueueInv ==
  \A i \in DOMAIN Unwritten :
    /\ Before(m_aData[Unwritten[i]], m_aData[m_pCurBuf])
    /\ \A j \in DOMAIN Unwritten : i < j => Before(m_aData[Unwritten[i]], m_aData[Unwritten[j]])

OrderInv == CallsInv /\ CellsInv /\ DiskInv /\ QueueInv

LEMMA OrderInit == Init => OrderInv
<1>. SUFFICES ASSUME Init PROVE OrderInv
  OBVIOUS
<1>1. /\ disk = <<>> /\ Unwritten = <<>>
      /\ \A c \in Cells : m_aData[c] = <<>>
      /\ \A p \in Producers : ppc[p] = "idle"
  BY DEF Init, Unwritten
<1>2. DOMAIN << >> = {}
  OBVIOUS
<1>. QED
  BY <1>1, <1>2 DEF OrderInv, CallsInv, CellsInv, DiskInv, QueueInv, InOrder, Stored

\* What the steps below start from
LEMMA OrderFacts ==
  ASSUME BelowInv
  PROVE  /\ m_pCurBuf \in Cells /\ m_eStatus[m_pCurBuf] = "FREE"
         /\ m_aData \in [Cells -> Seq(Records)] /\ disk \in Seq(Seq(Records))
         /\ Unwritten \in Seq(Cells)
         /\ \A i \in DOMAIN Unwritten : Unwritten[i] \in Cells /\ Unwritten[i] # m_pCurBuf
         /\ \A s \in Seq(Records) : \A k \in DOMAIN s : s[k].p \in Producers /\ s[k].n \in Nat
         /\ calls \in [Producers -> Nat]
<1>1. /\ m_pCurBuf \in Cells /\ m_eStatus[m_pCurBuf] = "FREE"
      /\ m_aData \in [Cells -> Seq(Records)] /\ disk \in Seq(Seq(Records))
      /\ calls \in [Producers -> 0..MaxCalls]
  BY RingInCells DEF BelowInv, RingInv, TypeOK, NothingDropped
<1>2. /\ fullQ \in Seq(Cells) /\ (cpc = "clear" => fullQ # <<>>)
      /\ \A i \in 1..Len(fullQ) : fullQ[i] \in Cells /\ fullQ[i] # m_pCurBuf
  BY <1>1, FullCells DEF BelowInv, RingInv, PartialIsCur
<1>3. /\ Unwritten \in Seq(Cells)
      /\ \A i \in 1..Len(Unwritten) : Unwritten[i] \in Cells /\ Unwritten[i] # m_pCurBuf
  <2>1. CASE cpc = "clear"
    <3>1. /\ Tail(fullQ) \in Seq(Cells) /\ Len(Tail(fullQ)) = Len(fullQ) - 1
          /\ \A i \in 1..Len(Tail(fullQ)) : Tail(fullQ)[i] = fullQ[i+1]
      BY <1>2, <2>1, HeadTailProperties
    <3>2. \A i \in 1..Len(Tail(fullQ)) : i + 1 \in 1..Len(fullQ)
      BY <1>2, <3>1
    <3>. QED
      BY <1>2, <2>1, <3>1, <3>2 DEF Unwritten
  <2>2. CASE cpc # "clear"
    BY <1>2, <2>2 DEF Unwritten
  <2>. QED
    BY <2>1, <2>2
<1>4. ASSUME NEW s \in Seq(Records), NEW k \in DOMAIN s
      PROVE  s[k].p \in Producers /\ s[k].n \in Nat
  <2>1. s[k] \in Records
    OBVIOUS
  <2>. QED
    BY <2>1 DEF Records
<1>. QED
  BY <1>1, <1>3, <1>4, RingAssumption

\* A call begins or ends, and no record moves.
LEMMA OrderQuiet ==
  ASSUME BelowInv, OrderInv,
         UNCHANGED <<m_aData, m_pCurBuf, fullQ, disk>>, cpc' = "clear" <=> cpc = "clear",
         \/ UNCHANGED prodVars
         \/ \E p \in Producers :
              Enter(p) \/ GateDrop(p) \/ GatePass(p) \/ ResetFailTime(p) \/ Refuse(p)
                \/ TailDrop(p)
  PROVE  OrderInv'
<1>1. Unwritten' = Unwritten
  BY DEF Unwritten
<1>2. CallsInv'
  <2>1. CASE UNCHANGED prodVars
    BY <2>1 DEF prodVars, OrderInv, CallsInv
  <2>2. ASSUME NEW p \in Producers, Enter(p)
        PROVE  CallsInv'
    BY <2>2 DEF Enter, OrderInv, CallsInv, BelowInv, RingInv, TypeOK
  <2>3. ASSUME NEW p \in Producers,
               GateDrop(p) \/ GatePass(p) \/ ResetFailTime(p) \/ Refuse(p) \/ TailDrop(p)
        PROVE  CallsInv'
    BY <2>3 DEF GateDrop, GatePass, ResetFailTime, Refuse, Locks, TailDrop, Drop,
                OrderInv, CallsInv, BelowInv, RingInv, TypeOK
  <2>. QED
    BY <2>1, <2>2, <2>3
<1>3. \A q \in Producers :
        \/ calls'[q] = calls[q] /\ (ppc'[q] # "idle" => ppc[q] # "idle")
        \/ calls'[q] = calls[q] + 1
  BY DEF prodVars, Enter, GateDrop, GatePass, ResetFailTime, Refuse, Locks, TailDrop, Drop,
         BelowInv, RingInv, TypeOK
<1>4. ASSUME NEW s \in Seq(Records), Stored(s)
      PROVE  Stored(s)'
  <2>. SUFFICES ASSUME NEW k \in DOMAIN s
                PROVE  /\ s[k].n <= calls'[s[k].p]
                       /\ ppc'[s[k].p] # "idle" => s[k].n < calls'[s[k].p]
    BY DEF Stored
  <2>1. s[k].p \in Producers /\ s[k].n \in Nat /\ calls \in [Producers -> Nat]
    BY OrderFacts
  <2>2. /\ s[k].n <= calls[s[k].p]
        /\ ppc[s[k].p] # "idle" => s[k].n < calls[s[k].p]
    BY <1>4 DEF Stored
  <2>. QED
    BY <1>3, <2>1, <2>2
<1>5. CellsInv'
  BY <1>4, OrderFacts DEF OrderInv, CellsInv
<1>6. DiskInv'
  BY <1>1, <1>4, OrderFacts DEF OrderInv, DiskInv
<1>7. QueueInv'
  BY <1>1 DEF OrderInv, QueueInv
<1>. QED
  BY <1>2, <1>5, <1>6, <1>7 DEF OrderInv
\* Stored records come before the one p is about to store.
LEMMA BeforeAppend ==
  ASSUME NEW p \in Producers, NEW r \in Records, r.p = p, r.n = calls[p], ppc[p] # "idle",
         NEW s \in Seq(Records), Stored(s), NEW t \in Seq(Records)
  PROVE  /\ Before(s, t) => Before(s, Append(t, r))
         /\ InOrder(s) => InOrder(Append(s, r))
<1>1. \A k \in DOMAIN s : s[k].p = r.p => s[k].n < r.n
  BY DEF Stored
<1>2. ASSUME Before(s, t) PROVE Before(s, Append(t, r))
  <2>1. /\ DOMAIN Append(t, r) = 1..Len(t)+1 /\ Append(t, r)[Len(t)+1] = r
        /\ \A k \in 1..Len(t) : Append(t, r)[k] = t[k]
        /\ DOMAIN t = 1..Len(t) /\ Len(t) \in Nat
    BY AppendProperties
  <2>2. \A l \in 1..Len(t)+1 : l \in DOMAIN t \/ l = Len(t)+1
    BY <2>1
  <2>. QED
    BY <1>1, <1>2, <2>1, <2>2 DEF Before
<1>3. ASSUME InOrder(s) PROVE InOrder(Append(s, r))
  <2>1. /\ DOMAIN Append(s, r) = 1..Len(s)+1 /\ Append(s, r)[Len(s)+1] = r
        /\ \A k \in 1..Len(s) : Append(s, r)[k] = s[k]
        /\ DOMAIN s = 1..Len(s) /\ Len(s) \in Nat
    BY AppendProperties
  <2>2. \A k, l \in 1..Len(s)+1 : k < l => k \in DOMAIN s /\ (l \in DOMAIN s \/ l = Len(s)+1)
    BY <2>1
  <2>. QED
    BY <1>1, <1>3, <2>1, <2>2 DEF InOrder
<1>. QED
  BY <1>2, <1>3

LEMMA OrderAppend ==
  ASSUME BelowInv, OrderInv, NEW p \in Producers, AppendToCur(p) \/ TailAppend(p)
  PROVE  OrderInv'
<1>. DEFINE new == Append(m_aData[m_pCurBuf], rec[p])
<1>1. /\ rec[p] \in Records /\ rec[p].p = p /\ rec[p].n = calls[p] /\ ppc[p] # "idle"
      /\ m_aData' = [m_aData EXCEPT ![m_pCurBuf] = new]
      /\ ppc' = [ppc EXCEPT ![p] = "idle"]
      /\ UNCHANGED <<m_pCurBuf, fullQ, disk, cpc, rec, calls>>
  BY DEF AppendToCur, TailAppend, CellAppend, Locks, OrderInv, CallsInv, BelowInv, RingInv, TypeOK
<1>2. Unwritten' = Unwritten
  BY <1>1 DEF Unwritten
<1>3. /\ \A c \in Cells \ {m_pCurBuf} : m_aData'[c] = m_aData[c]
      /\ m_aData'[m_pCurBuf'] = new /\ m_aData[m_pCurBuf] \in Seq(Records)
      /\ new \in Seq(Records)
  BY <1>1, OrderFacts
<1>4. ppc \in [Producers -> {"idle", "gate", "reset", "lock", "tail"}]
  BY DEF BelowInv, RingInv, TypeOK
<1>5. CallsInv'
  BY <1>1, <1>4 DEF OrderInv, CallsInv
<1>6. \A s \in Seq(Records) : Stored(s) => Stored(s)'
  BY <1>1, <1>4, OrderFacts DEF Stored
<1>7. \A s \in Seq(Records) : Stored(s) /\ Before(s, m_aData[m_pCurBuf]) => Before(s, new)
  BY <1>1, <1>3, BeforeAppend
<1>8. /\ InOrder(new)
      /\ \A k \in DOMAIN new :
           /\ new[k].n <= calls'[new[k].p]
           /\ ppc'[new[k].p] # "idle" => new[k].n < calls'[new[k].p]
  <2>. DEFINE old == m_aData[m_pCurBuf]
  <2>1. InOrder(old) /\ Stored(old) /\ old \in Seq(Records)
    BY OrderFacts DEF OrderInv, CellsInv
  <2>2. InOrder(new)
    BY <1>1, <2>1, BeforeAppend
  <2>3. /\ DOMAIN new = 1..Len(old)+1 /\ new[Len(old)+1] = rec[p]
        /\ \A k \in 1..Len(old) : new[k] = old[k]
        /\ DOMAIN old = 1..Len(old) /\ Len(old) \in Nat
    BY <1>1, <2>1, AppendProperties
  <2>. HIDE DEF new, old
  <2>4. ASSUME NEW k \in DOMAIN old
        PROVE  /\ old[k].n <= calls'[old[k].p]
               /\ ppc'[old[k].p] # "idle" => old[k].n < calls'[old[k].p]
    BY <1>1, <1>4, <2>1, OrderFacts DEF Stored
  <2>5. rec[p].n <= calls'[rec[p].p] /\ ppc'[rec[p].p] = "idle"
    BY <1>1, <1>4, OrderFacts
  <2>. QED
    BY <2>2, <2>3, <2>4, <2>5
<1>. HIDE DEF new
<1>9. CellsInv'
  <2>. SUFFICES ASSUME NEW c \in Cells
                PROVE  /\ InOrder(m_aData'[c])
                       /\ \A k \in DOMAIN m_aData'[c] :
                            /\ m_aData'[c][k].n <= calls'[m_aData'[c][k].p]
                            /\ ppc'[m_aData'[c][k].p] # "idle" =>
                                  m_aData'[c][k].n < calls'[m_aData'[c][k].p]
    BY DEF CellsInv, Stored, InOrder
  <2>1. CASE c = m_pCurBuf
    <3>1. m_aData'[c] = new
      BY <1>1, <1>3, <2>1
    <3>. QED
      BY <1>8, <3>1, Zenon
  <2>2. CASE c # m_pCurBuf
    <3>1. InOrder(m_aData[c]) /\ Stored(m_aData[c])
      BY DEF OrderInv, CellsInv
    <3>. QED
      BY <1>1, <1>3, <1>4, <2>2, <3>1, OrderFacts DEF Stored
  <2>. QED
    BY <2>1, <2>2
<1>10. \A i \in DOMAIN Unwritten : m_aData'[Unwritten[i]] = m_aData[Unwritten[i]]
  BY <1>3, OrderFacts
<1>11. DiskInv'
  <2>1. \A b \in DOMAIN disk :
          disk[b] \in Seq(Records) /\ Stored(disk[b]) /\ Before(disk[b], new)
    BY <1>7, OrderFacts DEF OrderInv, DiskInv
  <2>. QED
    BY <1>1, <1>2, <1>3, <1>6, <1>10, <2>1 DEF OrderInv, DiskInv
<1>12. QueueInv'
  <2>1. \A i \in DOMAIN Unwritten : Before(m_aData[Unwritten[i]], new)
    BY <1>7, OrderFacts DEF OrderInv, QueueInv, CellsInv
  <2>. QED
    BY <1>2, <1>3, <1>10, <2>1 DEF OrderInv, QueueInv
<1>. QED
  BY <1>5, <1>9, <1>11, <1>12 DEF OrderInv

\* The producers' cell joins the FULL ones, the next one is empty.
LEMMA OrderFill ==
  ASSUME BelowInv, BelowInv', OrderInv, Fills, UNCHANGED <<calls, rec>>,
         \A p \in Producers : ppc'[p] # "idle" => ppc[p] # "idle"
  PROVE  OrderInv'
<1>. DEFINE m == Len(Unwritten)
<1>1. /\ Unwritten' = Append(Unwritten, m_pCurBuf) /\ m_aData'[m_pCurBuf'] = <<>>
      /\ UNCHANGED <<m_aData, disk>>
  BY FillIsSeal, Zenon DEF Fills, FullRunGrows
<1>2. /\ DOMAIN Unwritten = 1..m /\ m \in Nat /\ DOMAIN Unwritten' = 1..m+1
      /\ Unwritten'[m+1] = m_pCurBuf /\ \A i \in 1..m : Unwritten'[i] = Unwritten[i]
  BY <1>1, OrderFacts, AppendProperties
<1>. HIDE DEF m
<1>3. DOMAIN m_aData'[m_pCurBuf'] = {}
  BY <1>1
<1>4. \A s : Before(s, m_aData'[m_pCurBuf'])
  BY <1>3 DEF Before
<1>5. CallsInv'
  BY DEF OrderInv, CallsInv
<1>6. \A s \in Seq(Records) : Stored(s) => Stored(s)'
  BY OrderFacts DEF Stored
<1>7. CellsInv'
  BY <1>1, <1>6, OrderFacts DEF OrderInv, CellsInv
<1>8. \A i \in DOMAIN Unwritten' : i \in DOMAIN Unwritten \/ i = m + 1
  BY <1>2
<1>9. DiskInv'
  <2>1. \A b \in DOMAIN disk : \A i \in DOMAIN Unwritten' : Before(disk[b], m_aData[Unwritten'[i]])
    BY <1>2, <1>8 DEF OrderInv, DiskInv
  <2>2. \A b \in DOMAIN disk : InOrder(disk[b]) /\ Stored(disk[b])'
    <3>1. \A b \in DOMAIN disk : disk[b] \in Seq(Records)
      BY OrderFacts
    <3>. QED
      BY <1>1, <1>6, <3>1 DEF OrderInv, DiskInv
  <2>3. \A b, d \in DOMAIN disk : b < d => Before(disk[b], disk[d])
    BY DEF OrderInv, DiskInv
  <2>. QED
    BY <1>1, <1>4, <2>1, <2>2, <2>3 DEF DiskInv
<1>10. QueueInv'
  <2>1. ASSUME NEW i \in DOMAIN Unwritten', NEW j \in DOMAIN Unwritten', i < j
        PROVE  Before(m_aData[Unwritten'[i]], m_aData[Unwritten'[j]])
    <3>1. i \in DOMAIN Unwritten
      BY <1>2, <2>1
    <3>2. CASE j \in DOMAIN Unwritten
      BY <1>2, <2>1, <3>1, <3>2 DEF OrderInv, QueueInv
    <3>3. CASE j = m + 1
      BY <1>2, <3>1, <3>3 DEF OrderInv, QueueInv
    <3>. QED
      BY <1>8, <3>2, <3>3
  <2>. QED
    BY <1>1, <1>4, <2>1 DEF QueueInv
<1>. QED
  BY <1>5, <1>7, <1>9, <1>10 DEF OrderInv

\* The consumer's cell, or the beginning of it, becomes the last batch on disk.
LEMMA OrderPersist ==
  ASSUME BelowInv, OrderInv, Persist \/ PersistShort
  PROVE  OrderInv'
<1>. DEFINE s == m_aData[m_pPrstBuf]
            m == Len(disk)
<1>1. /\ cpc = "persist" /\ cpc' = "clear"
      /\ UNCHANGED <<m_aData, m_pCurBuf, fullQ, ppc, rec, calls>>
  BY DEF Persist, PersistShort, cellVars, prodVars, ConsumerFrame
<1>2. fullQ \in Seq(Cells) /\ fullQ # <<>> /\ fullQ[1] = m_pPrstBuf
  BY <1>1, FullCells DEF BelowInv, RingInv, PartialIsCur
<1>3. /\ Unwritten = fullQ /\ Unwritten' = Tail(fullQ)
      /\ DOMAIN fullQ = 1..Len(fullQ) /\ Len(fullQ) \in Nat \ {0}
      /\ Tail(fullQ) \in Seq(Cells) /\ Len(Tail(fullQ)) = Len(fullQ) - 1
      /\ \A i \in 1..Len(Tail(fullQ)) : Tail(fullQ)[i] = fullQ[i+1]
  BY <1>1, <1>2, HeadTailProperties, EmptySeq DEF Unwritten
<1>4. /\ \A i \in DOMAIN Unwritten' : i + 1 \in DOMAIN Unwritten /\ 1 < i + 1
                                     /\ Unwritten'[i] = Unwritten[i+1]
      /\ 1 \in DOMAIN Unwritten /\ Unwritten[1] = m_pPrstBuf
  BY <1>2, <1>3
<1>5. s \in Seq(Records) /\ m_pPrstBuf \in Cells
  BY <1>2, OrderFacts
<1>6. PICK k \in 0..Len(s) : disk' = Append(disk, SubSeq(s, 1, k))
  <2>1. CASE Persist
    <3>1. SubSeq(s, 1, Len(s)) = s
      BY <1>5, SubSeqFull
    <3>. QED
      BY <1>5, <2>1, <3>1 DEF Persist
  <2>2. CASE PersistShort
    BY <1>5, <2>2 DEF PersistShort
  <2>. QED
    BY <2>1, <2>2
<1>. DEFINE t == SubSeq(s, 1, k)
<1>7. /\ t \in Seq(Records) /\ DOMAIN t = 1..k /\ k \in Nat
      /\ \A l \in 1..k : l \in DOMAIN s /\ t[l] = s[l]
  BY <1>5, <1>6
<1>8. /\ disk' = Append(disk, t) /\ m \in Nat /\ DOMAIN disk = 1..m
      /\ DOMAIN disk' = 1..m+1 /\ disk'[m+1] = t
      /\ \A b \in 1..m : disk'[b] = disk[b]
  BY <1>6, <1>7, OrderFacts, AppendProperties
<1>. HIDE DEF t, s, m
<1>9. \A u : (Before(s, u) => Before(t, u)) /\ (Before(u, s) => Before(u, t))
  BY <1>7 DEF Before
<1>10. InOrder(t) /\ Stored(t)
  BY <1>5, <1>7 DEF OrderInv, CellsInv, InOrder, Stored, s
<1>11. /\ Before(s, m_aData[m_pCurBuf])
       /\ \A i \in DOMAIN Unwritten' : Before(s, m_aData[Unwritten'[i]])
  BY <1>4 DEF OrderInv, QueueInv, s
<1>12. \A b \in 1..m : Before(disk[b], s) /\ InOrder(disk[b]) /\ Stored(disk[b])
                       /\ Before(disk[b], m_aData[m_pCurBuf])
                       /\ \A i \in DOMAIN Unwritten' : Before(disk[b], m_aData[Unwritten'[i]])
  BY <1>4, <1>8 DEF OrderInv, DiskInv, s
<1>13. \A b \in DOMAIN disk' : b \in 1..m \/ b = m + 1
  BY <1>8
<1>14. CallsInv' /\ CellsInv'
  BY <1>1 DEF OrderInv, CallsInv, CellsInv, Stored
<1>15. DiskInv'
  <2>1. ASSUME NEW b \in DOMAIN disk'
        PROVE  /\ InOrder(disk'[b]) /\ Stored(disk'[b])
               /\ Before(disk'[b], m_aData[m_pCurBuf])
               /\ \A i \in DOMAIN Unwritten' : Before(disk'[b], m_aData[Unwritten'[i]])
    BY <1>8, <1>9, <1>10, <1>11, <1>12, <1>13
  <2>2. ASSUME NEW b \in DOMAIN disk', NEW d \in DOMAIN disk', b < d
        PROVE  Before(disk'[b], disk'[d])
    <3>1. b \in 1..m
      BY <1>8, <2>2
    <3>2. CASE d \in 1..m
      BY <1>8, <2>2, <3>1, <3>2 DEF OrderInv, DiskInv
    <3>3. CASE d = m + 1
      BY <1>8, <1>9, <1>12, <3>1, <3>3
    <3>. QED
      BY <1>13, <3>2, <3>3
  <2>. QED
    BY <1>1, <2>1, <2>2 DEF DiskInv, Stored
<1>16. QueueInv'
  <2>1. \A i, j \in DOMAIN Unwritten' : i < j => i + 1 < j + 1
    BY <1>3
  <2>. QED
    BY <1>1, <1>4, <2>1 DEF OrderInv, QueueInv
<1>. QED
  BY <1>14, <1>15, <1>16 DEF OrderInv

LEMMA OrderClear ==
  ASSUME BelowInv, OrderInv, Clear
  PROVE  OrderInv'
<1>1. /\ cpc = "clear" /\ cpc' = "check" /\ fullQ' = Tail(fullQ)
      /\ m_aData' = [m_aData EXCEPT ![m_pPrstBuf] = <<>>]
      /\ UNCHANGED <<m_pCurBuf, disk, ppc, rec, calls>>
  BY DEF Clear, prodVars, ConsumerFrame
<1>2. /\ m_eStatus[m_pPrstBuf] = "FULL" /\ m_pPrstBuf # m_pCurBuf
      /\ fullQ \in Seq(Cells) /\ fullQ # <<>> /\ fullQ[1] = m_pPrstBuf
      /\ \A i, j \in 1..Len(fullQ) : fullQ[i] = fullQ[j] => i = j
  BY <1>1, FullCells, OrderFacts DEF BelowInv, RingInv, PartialIsCur
<1>3. Unwritten' = Unwritten /\ Unwritten = Tail(fullQ)
  BY <1>1 DEF Unwritten
<1>4. /\ DOMAIN Tail(fullQ) = 1..Len(fullQ)-1 /\ Len(fullQ) \in Nat \ {0}
      /\ \A i \in 1..Len(fullQ)-1 : Tail(fullQ)[i] = fullQ[i+1]
  BY <1>2, HeadTailProperties, EmptySeq
<1>5. \A i \in DOMAIN Unwritten : Unwritten[i] # m_pPrstBuf
  <2>. SUFFICES ASSUME NEW i \in 1..Len(fullQ)-1
                PROVE  fullQ[i+1] # m_pPrstBuf
    BY <1>3, <1>4
  <2>1. i + 1 \in 1..Len(fullQ) /\ 1 \in 1..Len(fullQ) /\ i + 1 # 1
    BY <1>4
  <2>. QED
    BY <1>2, <2>1
<1>6. /\ \A c \in Cells \ {m_pPrstBuf} : m_aData'[c] = m_aData[c]
      /\ m_pPrstBuf \in Cells => m_aData'[m_pPrstBuf] = <<>>
      /\ m_aData'[m_pCurBuf] = m_aData[m_pCurBuf]
      /\ \A i \in DOMAIN Unwritten : m_aData'[Unwritten[i]] = m_aData[Unwritten[i]]
  BY <1>1, <1>2, <1>5, OrderFacts
<1>7. CallsInv' /\ DiskInv' /\ QueueInv'
  BY <1>1, <1>3, <1>6 DEF OrderInv, CallsInv, DiskInv, QueueInv, Stored
<1>8. CellsInv'
  <2>. SUFFICES ASSUME NEW c \in Cells
                PROVE  InOrder(m_aData'[c]) /\ Stored(m_aData[c])'
    BY DEF CellsInv
  <2>1. CASE c = m_pPrstBuf
    BY <1>6, <2>1 DEF InOrder, Stored
  <2>2. CASE c # m_pPrstBuf
    BY <1>1, <1>6, <2>2 DEF OrderInv, CellsInv, InOrder, Stored
  <2>. QED
    BY <2>1, <2>2
<1>. QED
  BY <1>7, <1>8 DEF OrderInv

LEMMA OrderStep == BelowInv /\ BelowInv' /\ OrderInv /\ [NextBelow]_vars => OrderInv'
<1>. SUFFICES ASSUME BelowInv, BelowInv', OrderInv, [NextBelow]_vars PROVE OrderInv'
  OBVIOUS
<1>1. ASSUME NEW p \in Producers,
             Enter(p) \/ GateDrop(p) \/ GatePass(p) \/ ResetFailTime(p) \/ Refuse(p)
               \/ TailDrop(p)
      PROVE  OrderInv'
  <2>1. UNCHANGED <<m_aData, m_pCurBuf, fullQ, disk, cpc>>
    BY <1>1 DEF Enter, GateDrop, GatePass, ResetFailTime, Refuse, TailDrop, cellVars
  <2>. QED
    BY <1>1, <2>1, OrderQuiet
<1>2. ASSUME NEW p \in Producers, AppendToCur(p) \/ TailAppend(p) PROVE OrderInv'
  BY <1>2, OrderAppend
<1>3. ASSUME NEW p \in Producers, SealAndMove(p) \/ SealAndExpand(p) PROVE OrderInv'
  <2>1. /\ UNCHANGED <<calls, rec>>
        /\ \A q \in Producers : ppc'[q] # "idle" => ppc[q] # "idle"
    BY <1>3 DEF SealAndMove, SealAndExpand, SealCur, Locks, BelowInv, RingInv, TypeOK
  <2>. QED
    BY <1>3, <2>1, SealFills, OrderFill
<1>4. CASE WakePartial
  <2>1. UNCHANGED <<calls, rec, ppc>>
    BY <1>4 DEF WakePartial, ConsumerFrame, prodVars
  <2>. QED
    BY <1>4, <2>1, WakeFills, OrderFill
<1>5. CASE ClockTick \/ Check \/ WakeEmpty \/ WakeFull \/ FileReady \/ FileFails
             \/ UNCHANGED vars
  <2>1. /\ UNCHANGED <<m_aData, m_pCurBuf, fullQ, disk, prodVars>>
        /\ cpc' = "clear" <=> cpc = "clear"
    BY <1>5 DEF ClockTick, Check, WakeEmpty, WakeFull, FileReady, FileFails, vars,
                cellVars, prodVars, ConsumerFrame
  <2>. QED
    BY <2>1, OrderQuiet
<1>. QED
  BY <1>1, <1>2, <1>3, <1>4, <1>5, OrderPersist, OrderClear
     DEF NextBelow, NextGood, Produce, Consume

\* Below the memory limit, whatever fopen and fwrite do, the log file holds the
\* records of each thread in the order of its calls, and none of them twice.
THEOREM DiskOrder == SpecBelow => []DiskInProgramOrder
<1>1. BelowInv /\ OrderInv => DiskInProgramOrder
  BY DEF OrderInv, DiskInv, Before, InOrder, DiskInProgramOrder
<1>. QED
  BY BelowInvInit, BelowInvStep, OrderInit, OrderStep, <1>1, PTL DEF SpecBelow
=============================================================================
